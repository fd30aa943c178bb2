---------------------------- MODULE RemoteJobProofs ----------------------------
(***************************************************************************)
(* Proofs about RemoteJob, for any number of tasks and callbacks.          *)
(***************************************************************************)
EXTENDS RemoteJob, TLAPS

-------------------------------------------------------------------------------
(* The inductive invariant.                                                   *)

\* The call that won the cancellation of the job.
Canceller(t) == op[t] = "cancel" /\ outcome[t] # "false"

CancelPlaces == {"abort", "terminate", "peer_interrupt"}

\* There is one, and only it runs the phases of a cancellation.
OneCanceller ==
  /\ \A t \in Tasks : Canceller(t) => state = "cancelled" /\ event
  /\ \A t, u \in Tasks : Canceller(t) /\ Canceller(u) => t = u
  /\ \A t \in Tasks : at[t] \in CancelPlaces => Canceller(t)

\* The holder of the lock is the task that cleans up; a task has an outcome
\* when it is done and not before.
LockHeld ==
  /\ \A t \in Tasks : at[t] = "cleanup" <=> lock = t
  /\ \A t \in Tasks : lock = t => cleaned
  /\ \A t \in Tasks : outcome[t] = "none" <=> at[t] # "done"
  /\ \A t \in Tasks : op[t] = "none" <=> at[t] = "idle"

\* What a task still has to call is of the phase it runs and was not called yet.
Snapshot(t) ==
  /\ \A c \in todo[t] \cup awaiting[t] : c \in registered /\ PhaseOf[c] = at[t]
  /\ \A c \in todo[t] : attempts[c] = 0
  /\ \A c \in awaiting[t] : attempts[c] = 1

\* A callback was called at most once, by the cleanup or by the canceller, who
\* has reached its phase.
Attempted(c) ==
  /\ attempts[c] <= 1
  /\ attempts[c] > 0 =>
       IF PhaseOf[c] = "cleanup" THEN cleaned
       ELSE /\ state = "cancelled" /\ event
            /\ \A t \in Tasks : Canceller(t) => ~Earlier(at[t], PhaseOf[c])

\* Once the job is cleaned, each accepted cleanup callback was called or is
\* still on the list of the lock's holder.
CleanupCalls ==
  cleaned => \A c \in Registered("cleanup") :
    attempts[c] = 1 \/ \E t \in Tasks : lock = t /\ c \in todo[t]

\* Whoever came back through cleanup() left the lock free, for good.
ComingBack == \A t \in Tasks : CameBack(t) => cleaned /\ lock = NoTask

Inv ==
  /\ TypeOK
  /\ OneCanceller
  /\ LockHeld
  /\ \A t \in Tasks : Snapshot(t)
  /\ \A c \in Callbacks : Attempted(c)
  /\ CleanupCalls
  /\ ComingBack

-------------------------------------------------------------------------------
(* Type correctness.                                                          *)

\* What the step from one phase of a cancellation to the next does.
LEMMA NextPhaseEffect ==
  ASSUME NEW t \in Tasks, NextPhase(t)
  PROVE  /\ todo[t] = {} /\ awaiting[t] = {}
         /\ \/ /\ at[t] = "abort" /\ at' = [at EXCEPT ![t] = "terminate"]
               /\ todo' = [todo EXCEPT ![t] = Registered("terminate")]
            \/ /\ at[t] = "terminate" /\ at' = [at EXCEPT ![t] = "peer_interrupt"]
               /\ todo' = [todo EXCEPT ![t] = Registered("peer_interrupt")]
            \/ /\ at[t] = "peer_interrupt" /\ at' = [at EXCEPT ![t] = "lock"]
               /\ todo' = todo
         /\ UNCHANGED <<jobVars, op, awaiting, failed, outcome, attempts>>
<1>1. /\ CancelPhases[1] = "abort"
      /\ CancelPhases[2] = "terminate"
      /\ CancelPhases[3] = "peer_interrupt"
  BY DEF CancelPhases
<1>2. \A i \in 1..2 : i = 1 \/ i = 2
  OBVIOUS
<1>3. 1 + 1 = 2 /\ 2 + 1 = 3
  OBVIOUS
<1> QED
  BY <1>1, <1>2, <1>3 DEF NextPhase, PhaseOver

LEMMA JobStepType ==
  ASSUME TypeOK, Start \/ \E c \in Callbacks : Register(c)
  PROVE  TypeOK'
BY DEF TypeOK, Start, Register, taskVars, Terminal

LEMMA CallStepType ==
  ASSUME TypeOK, NEW t \in Tasks,
         CallFinish(t) \/ CallTooLate(t) \/ CallCancel(t) \/ CallCleanup(t)
  PROVE  TypeOK'
<1>1. CASE CallFinish(t)
  BY <1>1 DEF TypeOK, CallFinish, Call, Places, Phases, Terminal
<1>2. CASE CallTooLate(t)
  BY <1>2 DEF TypeOK, CallTooLate, Call, Finish, Places, Phases, Terminal, jobVars
<1>3. CASE CallCancel(t)
  <2>1. CancelPhases[1] = "abort"
    BY DEF CancelPhases
  <2> QED
    BY <1>3, <2>1 DEF TypeOK, CallCancel, Call, Registered, Places, Phases, Terminal
<1>4. CASE CallCleanup(t)
  BY <1>4 DEF TypeOK, CallCleanup, Call, Places, Phases, jobVars
<1> QED
  BY <1>1, <1>2, <1>3, <1>4

LEMMA TaskStepType ==
  ASSUME TypeOK, NEW t \in Tasks, LockWaitCancelled(t) \/ Works(t)
  PROVE  TypeOK'
<1>1. CASE LockWaitCancelled(t)
  BY <1>1 DEF TypeOK, LockWaitCancelled, Finish, Places, Phases, jobVars
<1>2. CASE CallbackStarts(t)
  BY <1>2 DEF TypeOK, CallbackStarts, jobVars
<1>3. CASE CallbackEnds(t)
  BY <1>3 DEF TypeOK, CallbackEnds
<1>4. CASE NextPhase(t)
  BY <1>4, NextPhaseEffect DEF TypeOK, Registered, Places, Phases, jobVars
<1>5. CASE EnterCleanup(t)
  BY <1>5 DEF TypeOK, EnterCleanup, Registered, Places, Phases
<1>6. CASE FindCleaned(t)
  BY <1>6 DEF TypeOK, FindCleaned, Finish, Report, Places, Phases, jobVars
<1>7. CASE LeaveCleanup(t)
  BY <1>7 DEF TypeOK, LeaveCleanup, Finish, Report, Places, Phases
<1> QED
  BY <1>1, <1>2, <1>3, <1>4, <1>5, <1>6, <1>7 DEF Works

\* Every variable keeps its type in every behaviour of the job.
THEOREM TypeCorrect == Spec => []TypeOK
<1>1. Init => TypeOK
  <2> HAVE Init
  <2>1. awaiting \in [Tasks -> {{}} \cup {{c} : c \in Callbacks}]
    BY DEF Init
  <2> QED
    BY <2>1 DEF Init, TypeOK, Places
<1>2. TypeOK /\ [Next]_vars => TypeOK'
  <2>1. CASE UNCHANGED vars
    BY <2>1 DEF TypeOK, vars, jobVars, taskVars
  <2> QED
    BY <2>1, JobStepType, CallStepType, TaskStepType DEF Next
<1> QED
  BY <1>1, <1>2, PTL DEF Spec

-------------------------------------------------------------------------------
(* Preservation.                                                              *)

\* What a call that came through cleanup() can report.
LEMMA ReportValues ==
  ASSUME NEW t \in Tasks, NEW error \in BOOLEAN
  PROVE  /\ Report(t, error) \in {"ok", "false", "raised"}
         /\ op[t] = "cancel" => Report(t, error) # "false"
BY DEF Report

\* A task that is in no phase has nothing left to call.
LEMMA NothingToCall ==
  ASSUME TypeOK, NEW t \in Tasks, Snapshot(t), at[t] \notin Phases
  PROVE  todo[t] = {} /\ awaiting[t] = {}
BY JobAssumption DEF TypeOK, Snapshot

\* start() moves a pending job on.
LEMMA StartStep ==
  ASSUME Inv, TypeOK', Start
  PROVE  Inv'
<1> USE DEF Inv, TypeOK, Start, jobVars, taskVars
<1>1. OneCanceller'
  BY DEF OneCanceller, Canceller, CancelPlaces, Terminal
<1>2. LockHeld'
  BY DEF LockHeld, Terminal
<1>3. (\A t \in Tasks : Snapshot(t))'
  BY DEF Snapshot, Terminal
<1>4. (\A c \in Callbacks : Attempted(c))'
  BY DEF Attempted, Canceller, Earlier, Terminal
<1>5. CleanupCalls'
  BY DEF CleanupCalls, Registered, Terminal
<1>6. ComingBack'
  BY DEF ComingBack, CameBack, Terminal
<1> QED
  BY <1>1, <1>2, <1>3, <1>4, <1>5, <1>6

\* A callback is accepted only before the cleanup, and was never called.
LEMMA RegisterStep ==
  ASSUME Inv, TypeOK', NEW d \in Callbacks, Register(d)
  PROVE  Inv'
<1> USE DEF Inv, TypeOK, Register, jobVars, taskVars
<1>1. OneCanceller'
  BY DEF OneCanceller, Canceller, CancelPlaces
<1>2. LockHeld'
  BY DEF LockHeld
<1>3. (\A t \in Tasks : Snapshot(t))'
  BY DEF Snapshot, Registered
<1>4. (\A c \in Callbacks : Attempted(c))'
  BY DEF Attempted, Canceller, Earlier
<1>5. CleanupCalls'
  BY DEF CleanupCalls, Registered
<1>6. ComingBack'
  BY DEF ComingBack, CameBack
<1> QED
  BY <1>1, <1>2, <1>3, <1>4, <1>5, <1>6

\* succeed() and fail() start no phase of a cancellation.
LEMMA CallFinishStep ==
  ASSUME Inv, TypeOK', NEW u \in Tasks, CallFinish(u)
  PROVE  Inv'
<1> USE DEF Inv, TypeOK, CallFinish, Call
<1>1. OneCanceller'
  BY DEF OneCanceller, Canceller, CancelPlaces, Terminal
<1>2. LockHeld'
  BY DEF LockHeld, Terminal
<1>3. (\A t \in Tasks : Snapshot(t))'
  BY NothingToCall DEF Snapshot, Phases
<1>4. (\A c \in Callbacks : Attempted(c))'
  BY DEF Attempted, Canceller, Earlier, Terminal
<1>5. CleanupCalls'
  BY DEF CleanupCalls, Registered, Terminal
<1>6. ComingBack'
  BY DEF ComingBack, CameBack, Terminal
<1> QED
  BY <1>1, <1>2, <1>3, <1>4, <1>5, <1>6

\* A call that comes too late changes only what its task remembers.
LEMMA CallTooLateStep ==
  ASSUME Inv, TypeOK', NEW u \in Tasks, CallTooLate(u)
  PROVE  Inv'
<1> USE DEF Inv, TypeOK, CallTooLate, Call, Finish, jobVars
<1>1. OneCanceller'
  BY DEF OneCanceller, Canceller, CancelPlaces, Terminal
<1>2. LockHeld'
  BY DEF LockHeld, Terminal
<1>3. (\A t \in Tasks : Snapshot(t))'
  BY NothingToCall DEF Snapshot, Phases
<1>4. (\A c \in Callbacks : Attempted(c))'
  BY DEF Attempted, Canceller, Earlier, Terminal
<1>5. CleanupCalls'
  BY DEF CleanupCalls, Registered, Terminal
<1>6. ComingBack'
  BY DEF ComingBack, CameBack, Terminal
<1> QED
  BY <1>1, <1>2, <1>3, <1>4, <1>5, <1>6

\* cancel() wins only a job that is not over, so nothing but cleanup was called.
LEMMA CallCancelStep ==
  ASSUME Inv, TypeOK', NEW u \in Tasks, CallCancel(u)
  PROVE  Inv'
<1> USE DEF Inv, TypeOK, CallCancel, Call
<1>a. CancelPhases[1] = "abort"
  BY DEF CancelPhases
<1>n. /\ \A t \in Tasks : ~Canceller(t)
      /\ \A c \in Callbacks : PhaseOf[c] # "cleanup" => attempts[c] = 0
  BY DEF OneCanceller, Attempted, Terminal
<1>u. todo[u] = {} /\ awaiting[u] = {} /\ outcome[u] = "none" /\ lock # u
  BY NothingToCall DEF LockHeld, Phases
<1>1. OneCanceller'
  BY <1>n, <1>u DEF OneCanceller, Canceller, CancelPlaces
<1>2. LockHeld'
  BY <1>a DEF LockHeld
<1>3. (\A t \in Tasks : Snapshot(t))'
  <2>1. Snapshot(u)'
    BY <1>a, <1>n, <1>u DEF Snapshot, Registered
  <2> QED
    BY <2>1 DEF Snapshot
<1>4. (\A c \in Callbacks : Attempted(c))'
  BY <1>n DEF Attempted
<1>5. CleanupCalls'
  BY <1>u DEF CleanupCalls, Registered
<1>6. ComingBack'
  BY <1>u DEF ComingBack, CameBack
<1> QED
  BY <1>1, <1>2, <1>3, <1>4, <1>5, <1>6

\* A direct cleanup() first asks for the lock.
LEMMA CallCleanupStep ==
  ASSUME Inv, TypeOK', NEW u \in Tasks, CallCleanup(u)
  PROVE  Inv'
<1> USE DEF Inv, TypeOK, CallCleanup, Call, jobVars
<1>1. OneCanceller'
  BY DEF OneCanceller, Canceller, CancelPlaces, Terminal
<1>2. LockHeld'
  BY DEF LockHeld, Terminal
<1>3. (\A t \in Tasks : Snapshot(t))'
  BY NothingToCall DEF Snapshot, Phases
<1>4. (\A c \in Callbacks : Attempted(c))'
  BY DEF Attempted, Canceller, Earlier, Terminal
<1>5. CleanupCalls'
  BY DEF CleanupCalls, Registered, Terminal
<1>6. ComingBack'
  BY DEF ComingBack, CameBack, LockHeld
<1> QED
  BY <1>1, <1>2, <1>3, <1>4, <1>5, <1>6

\* A task that gives up waiting for the lock does not come back through cleanup.
LEMMA LockWaitCancelledStep ==
  ASSUME Inv, TypeOK', NEW u \in Tasks, LockWaitCancelled(u)
  PROVE  Inv'
<1> USE DEF Inv, TypeOK, LockWaitCancelled, Finish, jobVars
<1>1. OneCanceller'
  BY DEF OneCanceller, Canceller, CancelPlaces, LockHeld
<1>2. LockHeld'
  BY DEF LockHeld
<1>3. (\A t \in Tasks : Snapshot(t))'
  BY NothingToCall DEF Snapshot, Phases
<1>4. (\A c \in Callbacks : Attempted(c))'
  BY DEF Attempted, Canceller, Earlier, Terminal
<1>5. CleanupCalls'
  BY DEF CleanupCalls, Registered
<1>6. ComingBack'
  BY DEF ComingBack, CameBack
<1> QED
  BY <1>1, <1>2, <1>3, <1>4, <1>5, <1>6

\* The next callback of a snapshot is called for the first time.
LEMMA CallbackStartsStep ==
  ASSUME Inv, TypeOK', NEW u \in Tasks, CallbackStarts(u)
  PROVE  Inv'
<1> USE DEF Inv, TypeOK, jobVars
<1>c. PICK c \in todo[u] :
        /\ todo' = [todo EXCEPT ![u] = @ \ {c}]
        /\ awaiting' = [awaiting EXCEPT ![u] = {c}]
        /\ attempts' = [attempts EXCEPT ![c] = @ + 1]
  BY DEF CallbackStarts
<1>u. UNCHANGED <<jobVars, op, at, failed, outcome>>
  BY DEF CallbackStarts
<1>s. Snapshot(u) /\ c \in Callbacks
  BY <1>c
<1>p. /\ c \in registered
      /\ attempts[c] = 0 /\ attempts'[c] = 1
      /\ PhaseOf[c] = at[u] /\ PhaseOf[c] \in Phases
  <2>1. c \in registered /\ PhaseOf[c] = at[u] /\ attempts[c] = 0
    BY <1>c, <1>s DEF Snapshot
  <2>2. attempts'[c] = 1
    BY <1>c, <1>s, <2>1
  <2>3. PhaseOf[c] \in Phases
    BY <1>s, JobAssumption
  <2> QED
    BY <2>1, <2>2, <2>3
<1>o. \A t \in Tasks : t # u => c \notin todo[t] \cup awaiting[t]
  BY <1>p DEF Snapshot, OneCanceller, LockHeld, Phases, CancelPlaces
<1>1. OneCanceller'
  BY <1>u DEF OneCanceller, Canceller, CancelPlaces
<1>2. LockHeld'
  BY <1>u DEF LockHeld
<1>3. (\A t \in Tasks : Snapshot(t))'
  <2>1. Snapshot(u)'
    BY <1>c, <1>u, <1>p DEF Snapshot
  <2>2. ASSUME NEW t \in Tasks, t # u PROVE Snapshot(t)'
    BY <1>c, <1>u, <1>o, <2>2 DEF Snapshot
  <2> QED
    BY <2>1, <2>2
<1>4. (\A d \in Callbacks : Attempted(d))'
  <2>1. Attempted(c)'
    BY <1>s, <1>c, <1>u, <1>p DEF Attempted, Canceller, Earlier, OneCanceller, LockHeld, Phases, CancelPlaces
  <2>2. ASSUME NEW d \in Callbacks, d # c PROVE Attempted(d)'
    BY <1>c, <1>u, <1>p, <2>2 DEF Attempted, Canceller
  <2> QED
    BY <2>1, <2>2
<1>5. CleanupCalls'
  <2> SUFFICES ASSUME cleaned, NEW d \in Registered("cleanup")
               PROVE  attempts'[d] = 1 \/ \E t \in Tasks : lock = t /\ d \in todo'[t]
    BY <1>u DEF CleanupCalls, Registered
  <2>1. CASE d = c
    BY <1>p, <2>1
  <2>2. CASE d # c
    <3>1. attempts'[d] = attempts[d] /\ \A t \in Tasks : d \in todo[t] => d \in todo'[t]
      BY <1>c, <1>p, <2>2 DEF Registered
    <3> QED
      BY <3>1 DEF CleanupCalls
  <2> QED
    BY <2>1, <2>2
<1>6. ComingBack'
  BY <1>u DEF ComingBack, CameBack
<1> QED
  BY <1>1, <1>2, <1>3, <1>4, <1>5, <1>6

\* A callback that ends changes only what its task awaits.
LEMMA CallbackEndsStep ==
  ASSUME Inv, TypeOK', NEW u \in Tasks, CallbackEnds(u)
  PROVE  Inv'
<1> USE DEF Inv, TypeOK, CallbackEnds
<1>1. OneCanceller'
  BY DEF OneCanceller, Canceller, CancelPlaces
<1>2. LockHeld'
  BY DEF LockHeld
<1>3. (\A t \in Tasks : Snapshot(t))'
  BY DEF Snapshot
<1>4. (\A c \in Callbacks : Attempted(c))'
  BY DEF Attempted, Canceller, Earlier, Terminal
<1>5. CleanupCalls'
  BY DEF CleanupCalls, Registered
<1>6. ComingBack'
  BY DEF ComingBack, CameBack
<1> QED
  BY <1>1, <1>2, <1>3, <1>4, <1>5, <1>6

\* The canceller goes on to a phase none of whose callbacks was called.
LEMMA NextPhaseStep ==
  ASSUME Inv, TypeOK', NEW u \in Tasks, NextPhase(u)
  PROVE  Inv'
<1> USE NextPhaseEffect DEF Inv, TypeOK, jobVars
<1>0. at[u] \in CancelPlaces /\ Canceller(u) /\ lock # u
  BY DEF OneCanceller, LockHeld, CancelPlaces
<1>1. OneCanceller'
  BY <1>0 DEF OneCanceller, Canceller, CancelPlaces
<1>2. LockHeld'
  BY <1>0 DEF LockHeld
<1>3. (\A t \in Tasks : Snapshot(t))'
  <2>1. \A c \in Callbacks : PhaseOf[c] \in CancelPlaces /\ Earlier(at[u], PhaseOf[c])
                             => attempts[c] = 0
    BY <1>0 DEF Attempted, CancelPlaces
  <2>2. Snapshot(u)'
    BY <2>1 DEF Snapshot, Registered, Earlier, CancelPlaces
  <2> QED
    BY <2>2 DEF Snapshot
<1>4. (\A c \in Callbacks : Attempted(c))'
  BY <1>0 DEF Attempted, Canceller, Earlier
<1>5. CleanupCalls'
  <2>1. \A t \in Tasks : lock = t => todo'[t] = todo[t]
    BY <1>0
  <2> QED
    BY <2>1 DEF CleanupCalls, Registered
<1>6. ComingBack'
  BY DEF ComingBack, CameBack
<1> QED
  BY <1>1, <1>2, <1>3, <1>4, <1>5, <1>6

\* The first task that gets the lock takes over every cleanup callback.
LEMMA EnterCleanupStep ==
  ASSUME Inv, TypeOK', NEW u \in Tasks, EnterCleanup(u)
  PROVE  Inv'
<1> USE DEF Inv, TypeOK, EnterCleanup, LockFree
<1>1. OneCanceller'
  BY DEF OneCanceller, Canceller, CancelPlaces
<1>2. LockHeld'
  BY DEF LockHeld
<1>3. (\A t \in Tasks : Snapshot(t))'
  BY NothingToCall DEF Snapshot, Registered, Phases, Attempted
<1>4. (\A c \in Callbacks : Attempted(c))'
  BY DEF Attempted, Canceller, Earlier
<1>5. CleanupCalls'
  BY DEF CleanupCalls, Registered
<1>6. ComingBack'
  BY DEF ComingBack, CameBack
<1> QED
  BY <1>1, <1>2, <1>3, <1>4, <1>5, <1>6

\* A later one finds the job cleaned and the lock free.
LEMMA FindCleanedStep ==
  ASSUME Inv, TypeOK', NEW u \in Tasks, FindCleaned(u)
  PROVE  Inv'
<1> USE DEF Inv, TypeOK, FindCleaned, Finish, LockFree, jobVars
<1>1. OneCanceller'
  BY ReportValues DEF OneCanceller, Canceller, CancelPlaces, LockHeld
<1>2. LockHeld'
  BY ReportValues, JobAssumption DEF LockHeld
<1>3. (\A t \in Tasks : Snapshot(t))'
  BY NothingToCall DEF Snapshot, Phases
<1>4. (\A c \in Callbacks : Attempted(c))'
  BY ReportValues DEF Attempted, Canceller, Earlier, LockHeld
<1>5. CleanupCalls'
  BY JobAssumption DEF CleanupCalls, Registered, LockHeld
<1>6. ComingBack'
  BY JobAssumption DEF ComingBack, CameBack, LockHeld
<1> QED
  BY <1>1, <1>2, <1>3, <1>4, <1>5, <1>6

\* The holder leaves when its snapshot is used up.
LEMMA LeaveCleanupStep ==
  ASSUME Inv, TypeOK', NEW u \in Tasks, LeaveCleanup(u)
  PROVE  Inv'
<1> USE DEF Inv, TypeOK, LeaveCleanup, PhaseOver, Finish
<1>1. OneCanceller'
  BY ReportValues DEF OneCanceller, Canceller, CancelPlaces, LockHeld
<1>2. LockHeld'
  BY ReportValues, JobAssumption DEF LockHeld
<1>3. (\A t \in Tasks : Snapshot(t))'
  BY JobAssumption DEF Snapshot, Phases
<1>4. (\A c \in Callbacks : Attempted(c))'
  BY ReportValues DEF Attempted, Canceller, Earlier, LockHeld
<1>5. CleanupCalls'
  BY JobAssumption DEF CleanupCalls, Registered, LockHeld
<1>6. ComingBack'
  BY JobAssumption DEF ComingBack, CameBack, LockHeld
<1> QED
  BY <1>1, <1>2, <1>3, <1>4, <1>5, <1>6

LEMMA Inductive == Inv /\ [Next]_vars => Inv'
<1> SUFFICES ASSUME Inv, [Next]_vars PROVE Inv'
  OBVIOUS
<1>1. CASE UNCHANGED vars
  BY <1>1 DEF Inv, TypeOK, OneCanceller, Canceller, CancelPlaces, LockHeld, Snapshot, Attempted,
     CleanupCalls, Registered, ComingBack, CameBack, vars, jobVars, taskVars
<1>2. CASE Next
  <2>1. TypeOK'
    BY <1>2, JobStepType, CallStepType, TaskStepType DEF Next, Inv
  <2>2. CASE Start \/ \E c \in Callbacks : Register(c)
    BY <2>1, <2>2, StartStep, RegisterStep
  <2>3. ASSUME NEW t \in Tasks,
               CallFinish(t) \/ CallTooLate(t) \/ CallCancel(t) \/ CallCleanup(t)
               \/ LockWaitCancelled(t)
        PROVE  Inv'
    BY <2>1, <2>3, CallFinishStep, CallTooLateStep, CallCancelStep, CallCleanupStep,
       LockWaitCancelledStep
  <2>4. ASSUME NEW t \in Tasks, Works(t)
        PROVE  Inv'
    BY <2>1, <2>4, CallbackStartsStep, CallbackEndsStep, NextPhaseStep, EnterCleanupStep,
       FindCleanedStep, LeaveCleanupStep DEF Works
  <2> QED
    BY <1>2, <2>2, <2>3, <2>4 DEF Next
<1> QED
  BY <1>1, <1>2

-------------------------------------------------------------------------------
(* The theorems.                                                              *)

LEMMA Invariance == Spec => []Inv
<1>1. Init => Inv
  <2> HAVE Init
  <2>1. TypeOK
    BY DEF Init, TypeOK, Places
  <2>2. OneCanceller /\ LockHeld /\ CleanupCalls /\ ComingBack
    BY JobAssumption DEF Init, OneCanceller, Canceller, CancelPlaces, LockHeld, CleanupCalls,
       Registered, ComingBack, CameBack
  <2>3. (\A t \in Tasks : Snapshot(t)) /\ (\A c \in Callbacks : Attempted(c))
    BY DEF Init, Snapshot, Attempted
  <2> QED
    BY <2>1, <2>2, <2>3 DEF Inv
<1> QED
  BY <1>1, Inductive, PTL DEF Spec

\* No callback of the job runs twice, whichever calls of it overlap.
THEOREM CallbacksRunOnce == Spec => []AtMostOnce
<1>1. Inv => AtMostOnce
  BY DEF Inv, Attempted, AtMostOnce
<1> QED
  BY <1>1, Invariance, PTL

\* A job whose succeed() or fail() was accepted is not cancelled.
Finished == \A t \in Tasks : Accepted(t) => state \in {"succeeded", "failed"}

LEMMA FinishedStays == Inv /\ Finished /\ [Next]_vars => Finished'
<1> SUFFICES ASSUME Inv, Finished, [Next]_vars PROVE Finished'
  OBVIOUS
<1> USE DEF Finished, Accepted, Inv, TypeOK, LockHeld, Terminal
<1>1. CASE UNCHANGED vars
  BY <1>1 DEF vars, jobVars, taskVars
<1>2. CASE Start \/ \E c \in Callbacks : Register(c)
  BY <1>2 DEF Start, Register, taskVars
<1>3. ASSUME NEW t \in Tasks, CallFinish(t) \/ CallTooLate(t) \/ CallCancel(t) \/ CallCleanup(t)
      PROVE  Finished'
  BY <1>3 DEF CallFinish, CallTooLate, CallCancel, CallCleanup, Call, Finish, jobVars
<1>4. ASSUME NEW t \in Tasks, LockWaitCancelled(t) \/ FindCleaned(t) \/ LeaveCleanup(t)
      PROVE  Finished'
  BY <1>4 DEF LockWaitCancelled, FindCleaned, LeaveCleanup, PhaseOver, Finish, jobVars
<1>5. ASSUME NEW t \in Tasks,
             CallbackStarts(t) \/ CallbackEnds(t) \/ NextPhase(t) \/ EnterCleanup(t)
      PROVE  Finished'
  BY <1>5, NextPhaseEffect DEF CallbackStarts, CallbackEnds, EnterCleanup, jobVars
<1> QED
  BY <1>1, <1>2, <1>3, <1>4, <1>5 DEF Next, Works

\* Only a cancellation that won aborts the transport, terminates processes or
\* interrupts the peer.
THEOREM InterruptsAreCancellations == Spec => []NoLateInterrupt
<1>1. Init => Finished
  BY DEF Init, Finished, Accepted
<1>2. Inv /\ Finished => NoLateInterrupt
  BY DEF Inv, Attempted, Finished, NoLateInterrupt
<1> QED
  BY <1>1, <1>2, Invariance, FinishedStays, PTL DEF Spec

\* Whoever comes back through cleanup() finds all of it done.
THEOREM CleanupIsComplete == Spec => []CleanWhenBack
<1>1. Inv => CleanWhenBack
  <2> SUFFICES ASSUME Inv, NEW t \in Tasks, CameBack(t), NEW c \in Registered("cleanup")
               PROVE  cleaned /\ attempts[c] = 1 /\ \A u \in Tasks : c \notin awaiting[u]
    BY DEF CleanWhenBack, Inv, ComingBack
  <2>1. cleaned /\ lock = NoTask
    BY DEF Inv, ComingBack
  <2>2. attempts[c] = 1
    BY <2>1, JobAssumption DEF Inv, CleanupCalls
  <2>3. \A u \in Tasks : c \notin awaiting[u]
    BY <2>1, JobAssumption DEF Inv, LockHeld, Snapshot, Registered
  <2> QED
    BY <2>1, <2>2, <2>3
<1> QED
  BY <1>1, Invariance, PTL

LEMMA ErrorsReportedStays == Inv /\ ErrorsReported /\ [Next]_vars => ErrorsReported'
<1> SUFFICES ASSUME Inv, ErrorsReported, [Next]_vars PROVE ErrorsReported'
  OBVIOUS
<1> USE DEF ErrorsReported, CameBack, Inv, TypeOK, LockHeld
<1>1. CASE UNCHANGED vars
  BY <1>1 DEF vars, jobVars, taskVars
<1>2. CASE Start \/ \E c \in Callbacks : Register(c)
  BY <1>2 DEF Start, Register, taskVars
<1>3. ASSUME NEW t \in Tasks,
             CallFinish(t) \/ CallTooLate(t) \/ CallCancel(t) \/ CallCleanup(t)
             \/ LockWaitCancelled(t)
      PROVE  ErrorsReported'
  <2>1. CASE CallFinish(t) \/ CallCancel(t) \/ CallCleanup(t)
    BY <2>1 DEF CallFinish, CallCancel, CallCleanup, Call, jobVars
  <2>2. CASE CallTooLate(t)
    BY <2>2 DEF CallTooLate, Call, Finish, jobVars
  <2>3. CASE LockWaitCancelled(t)
    BY <2>3 DEF LockWaitCancelled, Finish, jobVars
  <2> QED
    BY <1>3, <2>1, <2>2, <2>3
<1>4. ASSUME NEW t \in Tasks, CallbackStarts(t) \/ NextPhase(t) \/ EnterCleanup(t)
      PROVE  ErrorsReported'
  BY <1>4, NextPhaseEffect DEF CallbackStarts, EnterCleanup, jobVars
<1>5. ASSUME NEW t \in Tasks, CallbackEnds(t)
      PROVE  ErrorsReported'
  <2>1. CASE at[t] = "cleanup"
    <3>1. \A u \in Tasks : ~CameBack(u)
      BY <2>1, JobAssumption DEF ComingBack
    <3> QED
      BY <1>5, <3>1 DEF CallbackEnds
  <2>2. CASE at[t] # "cleanup"
    BY <1>5, <2>2 DEF CallbackEnds
  <2> QED
    BY <2>1, <2>2
<1>6. ASSUME NEW t \in Tasks, FindCleaned(t) \/ LeaveCleanup(t)
      PROVE  ErrorsReported'
  <2>1. CASE FindCleaned(t)
    BY <2>1 DEF FindCleaned, Finish, Report, jobVars
  <2>2. CASE LeaveCleanup(t)
    BY <2>2 DEF LeaveCleanup, PhaseOver, Finish, Report
  <2> QED
    BY <1>6, <2>1, <2>2
<1> QED
  BY <1>1, <1>2, <1>3, <1>4, <1>5, <1>6 DEF Next, Works

\* An error of the cleanup reaches everybody who comes back through it.
THEOREM ErrorsReachEverybody == Spec => []ErrorsReported
<1>1. Init => ErrorsReported
  BY DEF Init, ErrorsReported, CameBack
<1> QED
  BY <1>1, Invariance, ErrorsReportedStays, PTL DEF Spec

\* Whose call has run the cleanup: a direct one, an accepted succeed() or fail(), or
\* the canceller's, after its phases.
CleanedBySomebody ==
  cleaned => \E t \in Tasks : \/ op[t] = "cleanup" \/ Accepted(t)
                              \/ Canceller(t) /\ at[t] \in {"cleanup", "done"}

LEMMA CleanedBySomebodyStays == Inv /\ CleanedBySomebody /\ [Next]_vars => CleanedBySomebody'
<1> SUFFICES ASSUME Inv, CleanedBySomebody, [Next]_vars PROVE CleanedBySomebody'
  OBVIOUS
<1> DEFINE Cleaner(u) == \/ op[u] = "cleanup" \/ Accepted(u)
                         \/ Canceller(u) /\ at[u] \in {"cleanup", "done"}
<1> USE DEF Accepted, Canceller, Inv, TypeOK, LockHeld
<1>1. CASE cleaned
  <2>1. PICK u \in Tasks : Cleaner(u)
    BY <1>1 DEF CleanedBySomebody
  <2>2. op[u] # "none" /\ at[u] # "idle"
    BY <2>1
  <2>3. CASE UNCHANGED vars \/ Start \/ \E c \in Callbacks : Register(c)
    BY <2>1, <2>3 DEF CleanedBySomebody, vars, jobVars, taskVars, Start, Register
  <2>4. ASSUME NEW t \in Tasks,
               CallFinish(t) \/ CallTooLate(t) \/ CallCancel(t) \/ CallCleanup(t)
               \/ LockWaitCancelled(t)
        PROVE  Cleaner(u)'
    BY <2>1, <2>2, <2>4 DEF CallFinish, CallTooLate, CallCancel, CallCleanup, LockWaitCancelled,
       Call, Finish, jobVars
  <2>5. ASSUME NEW t \in Tasks,
               CallbackStarts(t) \/ CallbackEnds(t) \/ NextPhase(t) \/ EnterCleanup(t)
        PROVE  Cleaner(u)'
    BY <2>1, <2>2, <2>5, NextPhaseEffect DEF CallbackStarts, CallbackEnds, EnterCleanup, jobVars
  <2>6. ASSUME NEW t \in Tasks, FindCleaned(t) \/ LeaveCleanup(t)
        PROVE  Cleaner(u)'
    BY <2>1, <2>2, <2>6 DEF FindCleaned, LeaveCleanup, PhaseOver, Finish, Report, jobVars
  <2> QED
    BY <2>3, <2>4, <2>5, <2>6 DEF Next, Works, CleanedBySomebody
<1>2. CASE ~cleaned /\ cleaned'
  <2>1. PICK t \in Tasks : EnterCleanup(t)
    BY <1>2, NextPhaseEffect DEF Next, Works, vars, jobVars, Start, Register, CallFinish,
       CallTooLate, CallCancel, CallCleanup, LockWaitCancelled, CallbackStarts, CallbackEnds,
       FindCleaned, LeaveCleanup
  <2>2. Cleaner(t)'
    BY <2>1 DEF EnterCleanup
  <2> QED
    BY <2>2 DEF CleanedBySomebody
<1> QED
  BY <1>1, <1>2 DEF CleanedBySomebody

\* A cancellation runs its phases in order, unless a direct cleanup() overtakes them.
THEOREM PhasesInOrder == Spec => []PhaseOrder
<1>1. Init => Finished /\ CleanedBySomebody
  BY DEF Init, Finished, Accepted, CleanedBySomebody
<1>2. Inv /\ Finished /\ CleanedBySomebody => PhaseOrder
  <2> SUFFICES ASSUME Inv, Finished, CleanedBySomebody, \A t \in Tasks : op[t] # "cleanup",
                      state = "cancelled", NEW c \in Callbacks, attempts[c] > 0,
                      NEW t \in Tasks, NEW d \in todo[t] \cup awaiting[t]
               PROVE  ~Earlier(PhaseOf[d], PhaseOf[c])
    BY DEF PhaseOrder, CancelsInOrder
  <2>1. PhaseOf[d] = at[t]
    BY DEF Inv, Snapshot
  <2>2. CASE at[t] \notin CancelPlaces
    BY <2>1, <2>2 DEF Earlier, CancelPlaces
  <2>3. CASE at[t] \in CancelPlaces
    <3>1. Canceller(t)
      BY <2>3 DEF Inv, OneCanceller
    <3>2. CASE PhaseOf[c] = "cleanup"
      <4>1. cleaned
        BY <3>2 DEF Inv, Attempted
      <4>2. \A u \in Tasks : ~Accepted(u)
        BY DEF Finished
      <4>3. PICK u \in Tasks : Canceller(u) /\ at[u] \in {"cleanup", "done"}
        BY <4>1, <4>2 DEF CleanedBySomebody
      <4> QED
        BY <2>3, <3>1, <4>3 DEF Inv, OneCanceller, CancelPlaces
    <3>3. CASE PhaseOf[c] # "cleanup"
      BY <2>1, <3>1, <3>3 DEF Inv, Attempted
    <3> QED
      BY <3>2, <3>3
  <2> QED
    BY <2>2, <2>3
<1> QED
  BY <1>1, <1>2, Invariance, FinishedStays, CleanedBySomebodyStays, PTL DEF Spec

\* A job that is over stays what it is.
THEOREM FirstCallDecides == Spec => FirstDecides
<1>1. [Next]_vars => [(state \in Terminal => state' = state /\ event' = event)]_vars
  <2> SUFFICES ASSUME Next, state \in Terminal
               PROVE  state' = state /\ event' = event
    OBVIOUS
  <2>1. CASE Start \/ \E c \in Callbacks : Register(c)
    BY <2>1 DEF Start, Register, Terminal
  <2>2. ASSUME NEW t \in Tasks,
               CallFinish(t) \/ CallTooLate(t) \/ CallCancel(t) \/ CallCleanup(t)
               \/ LockWaitCancelled(t)
        PROVE  state' = state /\ event' = event
    BY <2>2 DEF CallFinish, CallTooLate, CallCancel, CallCleanup, LockWaitCancelled, jobVars
  <2>3. ASSUME NEW t \in Tasks, Works(t)
        PROVE  state' = state /\ event' = event
    BY <2>3, NextPhaseEffect DEF Works, CallbackStarts, CallbackEnds, EnterCleanup, FindCleaned,
       LeaveCleanup, jobVars
  <2> QED
    BY <2>1, <2>2, <2>3 DEF Next
<1> QED
  BY <1>1, PTL DEF Spec, FirstDecides

===============================================================================
