----------------------------- MODULE PromptService -----------------------------
(***************************************************************************)
(* What a peer promises of the requests it serves, with no routes, tasks,  *)
(* records, polls or deadlines in it: a request has at most one piece of   *)
(* work and is told its end once.  Nothing begins for a request that was   *)
(* told; what still runs for it then was told to stop; success is only     *)
(* told of work that is done; and nobody's work is withdrawn or stopped,   *)
(* nor a request refused, unless its own cancellation was asked for.       *)
(***************************************************************************)
CONSTANT Requests

VARIABLES
  work,      \* of each request: none, waiting, running, done or withdrawn
  stopped,   \* the requests whose running work was told to stop
  told,      \* the end each request was told, "nothing" before
  asked      \* the requests whose cancellation was asked for

vars == <<work, stopped, told, asked>>

Init ==
  /\ work = [r \in Requests |-> "none"]
  /\ stopped = {}
  /\ told = [r \in Requests |-> "nothing"]
  /\ asked = {}

Put(r) ==
  /\ told[r] = "nothing" /\ work[r] = "none"
  /\ work' = [work EXCEPT ![r] = "waiting"]
  /\ UNCHANGED <<stopped, told, asked>>

\* One piece of work at a time.
Take(r) ==
  /\ told[r] = "nothing" /\ work[r] = "waiting"
  /\ \A s \in Requests : work[s] # "running"
  /\ work' = [work EXCEPT ![r] = "running"]
  /\ UNCHANGED <<stopped, told, asked>>

Finish(r) ==
  /\ work[r] = "running"
  /\ work' = [work EXCEPT ![r] = "done"]
  /\ stopped' = stopped \ {r}
  /\ UNCHANGED <<told, asked>>

\* How things stand when r is told its end.
Tells(r) ==
  /\ told[r] = "nothing"
  /\ work'[r] # "waiting"
  /\ work'[r] = "running" => r \in stopped'
  /\ \E result \in {"ok", "refused", "failed"} :
       /\ result = "ok" => work'[r] = "done"
       /\ result = "refused" => r \in asked'
       /\ told' = [told EXCEPT ![r] = result]

Tell(r) ==
  /\ UNCHANGED <<work, stopped, asked>>
  /\ Tells(r)

Withdraw(r) ==
  /\ work' = [work EXCEPT ![r] = IF @ = "waiting" THEN "withdrawn" ELSE @]
  /\ stopped' = IF work[r] = "running" THEN stopped \cup {r} ELSE stopped
  /\ asked' = asked \cup {r}

\* A cancellation may be the end of the request as well.
Cancel(r) ==
  /\ Withdraw(r)
  /\ UNCHANGED told \/ Tells(r)

Next == \E r \in Requests : Put(r) \/ Take(r) \/ Finish(r) \/ Tell(r) \/ Cancel(r)

Spec == Init /\ [][Next]_vars

===============================================================================
