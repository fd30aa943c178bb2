------------------------------- MODULE RemoteJob -------------------------------
(***************************************************************************)
(* RemoteExecutionJob (cutlery_remote/remote_job.py): the lifecycle of one *)
(* remote execution, the callbacks registered on it, and the tasks of one  *)
(* event loop that finish it, cancel it or clean it up concurrently.       *)
(*                                                                         *)
(* A task yields only while a callback awaits and while it waits for the   *)
(* cleanup lock, so everything between those points is one step.  The      *)
(* callbacks of a phase run in registration order in the code; here a      *)
(* phase is a set, run in any order.                                       *)
(***************************************************************************)
EXTENDS Naturals, FiniteSets

CONSTANTS
  Tasks,      \* callers, one call of the job each
  Callbacks,  \* callbacks that may be registered
  PhaseOf,    \* the phase each callback is registered for
  NoTask      \* the cleanup lock is free

\* Slip: the peer is told before the transport is aborted.
CancelPhases_PeerFirst == <<"peer_interrupt", "abort", "terminate">>

\* What cancel() runs before it cleans up, in its order.
CancelPhases == <<"abort", "terminate", "peer_interrupt">>
Phases == {"abort", "terminate", "peer_interrupt", "cleanup"}

ASSUME JobAssumption ==
  /\ PhaseOf \in [Callbacks -> Phases]
  /\ NoTask \notin Tasks

VARIABLES
  state,         \* _state
  event,         \* cancellation_event
  cleaned,       \* _cleaned
  cleanupError,  \* _cleanup_error is set
  lock,          \* the task that holds _cleanup_lock
  registered,    \* the callbacks accepted so far
  op,            \* the method each task called
  at,            \* where it is: the phase whose callbacks it runs, "lock", ...
  todo,          \* the rest of its snapshot of that phase
  awaiting,      \* the callback it awaits, as a set of at most one
  failed,        \* whether a callback of its cancel phases raised
  outcome,       \* how its call ended
  attempts       \* history: how often each callback was called

jobVars  == <<state, event, cleaned, cleanupError, lock, registered>>
taskVars == <<op, at, todo, awaiting, failed, outcome>>
vars == <<jobVars, taskVars, attempts>>

Terminal == {"succeeded", "failed", "cancelled"}
Places == {"idle", "lock", "done"} \cup Phases

TypeOK ==
  /\ state \in {"pending", "running"} \cup Terminal
  /\ event \in BOOLEAN /\ cleaned \in BOOLEAN /\ cleanupError \in BOOLEAN
  /\ lock \in Tasks \cup {NoTask}
  /\ registered \subseteq Callbacks
  /\ op \in [Tasks -> {"none", "succeed", "fail", "cancel", "cleanup"}]
  /\ at \in [Tasks -> Places]
  /\ todo \in [Tasks -> SUBSET Callbacks]
  /\ awaiting \in [Tasks -> {{}} \cup {{c} : c \in Callbacks}]
  /\ failed \in [Tasks -> BOOLEAN]
  /\ outcome \in [Tasks -> {"none", "ok", "false", "rejected", "raised", "interrupted"}]
  /\ attempts \in [Callbacks -> Nat]

Init ==
  /\ state = "pending"
  /\ event = FALSE /\ cleaned = FALSE /\ cleanupError = FALSE
  /\ lock = NoTask
  /\ registered = {}
  /\ op = [t \in Tasks |-> "none"]
  /\ at = [t \in Tasks |-> "idle"]
  /\ todo = [t \in Tasks |-> {}]
  /\ awaiting = [t \in Tasks |-> {}]
  /\ failed = [t \in Tasks |-> FALSE]
  /\ outcome = [t \in Tasks |-> "none"]
  /\ attempts = [c \in Callbacks |-> 0]

Registered(phase) == {c \in registered : PhaseOf[c] = phase}

-------------------------------------------------------------------------------
(* Calls that do not await.                                                   *)

Start ==
  /\ state = "pending"
  /\ state' = "running"
  /\ UNCHANGED <<event, cleaned, cleanupError, lock, registered, taskVars, attempts>>

\* register_abort, register_terminate, register_peer_interrupt, register_cleanup.
Register(c) ==
  /\ c \notin registered
  /\ ~cleaned
  /\ registered' = registered \cup {c}
  /\ UNCHANGED <<state, event, cleaned, cleanupError, lock, taskVars, attempts>>

-------------------------------------------------------------------------------
(* succeed, fail, cancel and cleanup.                                         *)

Call(t, method) ==
  /\ at[t] = "idle"
  /\ op' = [op EXCEPT ![t] = method]

Finish(t, result) ==
  /\ at' = [at EXCEPT ![t] = "done"]
  /\ outcome' = [outcome EXCEPT ![t] = result]

\* succeed(result), fail(error) on a job that is not over: then cleanup.
CallFinish(t) ==
  /\ state \notin Terminal
  /\ \/ Call(t, "succeed") /\ state' = "succeeded"
     \/ Call(t, "fail") /\ state' = "failed"
  /\ at' = [at EXCEPT ![t] = "lock"]
  /\ UNCHANGED <<event, cleaned, cleanupError, lock, registered, todo, awaiting,
                 failed, outcome, attempts>>

\* On a job that is over, succeed and fail raise and cancel returns False.
CallTooLate(t) ==
  /\ state \in Terminal
  /\ \E method \in {"succeed", "fail", "cancel"} :
       /\ Call(t, method)
       /\ Finish(t, IF method = "cancel" THEN "false" ELSE "rejected")
  /\ UNCHANGED <<jobVars, todo, awaiting, failed, attempts>>

\* Slip: a job that is over is cancelled once more.
CallCancel_Unchecked(t) ==
  /\ Call(t, "cancel")
  /\ state' = "cancelled" /\ event' = TRUE
  /\ at' = [at EXCEPT ![t] = CancelPhases[1]]
  /\ todo' = [todo EXCEPT ![t] = Registered(CancelPhases[1])]
  /\ UNCHANGED <<cleaned, cleanupError, lock, registered, awaiting, failed, outcome, attempts>>

\* cancel(): the state and the event change, and the first phase is snapshotted.
CallCancel(t) ==
  /\ state \notin Terminal
  /\ Call(t, "cancel")
  /\ state' = "cancelled" /\ event' = TRUE
  /\ at' = [at EXCEPT ![t] = CancelPhases[1]]
  /\ todo' = [todo EXCEPT ![t] = Registered(CancelPhases[1])]
  /\ UNCHANGED <<cleaned, cleanupError, lock, registered, awaiting, failed, outcome, attempts>>

CallCleanup(t) ==
  /\ Call(t, "cleanup")
  /\ at' = [at EXCEPT ![t] = "lock"]
  /\ UNCHANGED <<jobVars, todo, awaiting, failed, outcome, attempts>>

\* _run_callbacks calls the next callback of the snapshot ...
CallbackStarts(t) ==
  /\ awaiting[t] = {}
  /\ \E c \in todo[t] :
       /\ todo' = [todo EXCEPT ![t] = @ \ {c}]
       /\ awaiting' = [awaiting EXCEPT ![t] = {c}]
       /\ attempts' = [attempts EXCEPT ![c] = @ + 1]
  /\ UNCHANGED <<jobVars, op, at, failed, outcome>>

\* ... and goes on whether it returned or raised; a cancellation of the task
\* that arrives in the callback's await is swallowed the same way.  (The code
\* sets _cleanup_error after the last cleanup callback; nobody reads it sooner.)
CallbackEnds(t) ==
  /\ awaiting[t] # {}
  /\ awaiting' = [awaiting EXCEPT ![t] = {}]
  /\ \E raised \in BOOLEAN :
       IF at[t] = "cleanup"
       THEN cleanupError' = (cleanupError \/ raised) /\ UNCHANGED failed
       ELSE failed' = [failed EXCEPT ![t] = @ \/ raised] /\ UNCHANGED cleanupError
  /\ UNCHANGED <<state, event, cleaned, lock, registered, op, at, todo, outcome, attempts>>

PhaseOver(t, phase) == at[t] = phase /\ todo[t] = {} /\ awaiting[t] = {}

\* cancel() goes from one phase to the next with a new snapshot, and after the
\* last one to cleanup().
NextPhase(t) ==
  /\ \/ \E i \in 1..2 :
          /\ PhaseOver(t, CancelPhases[i])
          /\ at' = [at EXCEPT ![t] = CancelPhases[i + 1]]
          /\ todo' = [todo EXCEPT ![t] = Registered(CancelPhases[i + 1])]
     \/ /\ PhaseOver(t, CancelPhases[3])
        /\ at' = [at EXCEPT ![t] = "lock"]
        /\ UNCHANGED todo
  /\ UNCHANGED <<jobVars, op, awaiting, failed, outcome, attempts>>

\* Slip: cleanup without its lock.
LockFree_Always == TRUE

LockFree == lock = NoTask

\* The lock is free and nobody has cleaned up: cleanup() marks the job cleaned
\* and snapshots its callbacks.
EnterCleanup(t) ==
  /\ at[t] = "lock" /\ LockFree /\ ~cleaned
  /\ lock' = t
  /\ cleaned' = TRUE
  /\ at' = [at EXCEPT ![t] = "cleanup"]
  /\ todo' = [todo EXCEPT ![t] = Registered("cleanup")]
  /\ UNCHANGED <<state, event, cleanupError, registered, op, awaiting, failed, outcome, attempts>>

\* What a call that came through cleanup() reports; cancel() adds the errors of
\* its own phases.
Report(t, error) ==
  IF error \/ failed[t] THEN "raised"
  ELSE IF op[t] = "cleanup" /\ at[t] = "lock" THEN "false" ELSE "ok"

\* Slip: the stored cleanup error is not raised again.
FindCleaned_Silent(t) ==
  /\ at[t] = "lock" /\ LockFree /\ cleaned
  /\ Finish(t, Report(t, FALSE))
  /\ UNCHANGED <<jobVars, op, todo, awaiting, failed, attempts>>

\* Somebody has cleaned up: its error, if any, is raised here too.
FindCleaned(t) ==
  /\ at[t] = "lock" /\ LockFree /\ cleaned
  /\ Finish(t, Report(t, cleanupError))
  /\ UNCHANGED <<jobVars, op, todo, awaiting, failed, attempts>>

\* The task is cancelled while it waits for the lock: the CancelledError leaves
\* the call.
LockWaitCancelled(t) ==
  /\ at[t] = "lock" /\ ~LockFree
  /\ Finish(t, "interrupted")
  /\ UNCHANGED <<jobVars, op, todo, awaiting, failed, attempts>>

\* Slip: the lock is not released.
LeaveCleanup_KeepsLock(t) ==
  /\ PhaseOver(t, "cleanup")
  /\ Finish(t, Report(t, cleanupError))
  /\ UNCHANGED <<jobVars, op, todo, awaiting, failed, attempts>>

\* The last cleanup callback is over: the lock is released.
LeaveCleanup(t) ==
  /\ PhaseOver(t, "cleanup")
  /\ lock' = NoTask
  /\ Finish(t, Report(t, cleanupError))
  /\ UNCHANGED <<state, event, cleaned, cleanupError, registered, op, todo, awaiting,
                 failed, attempts>>

-------------------------------------------------------------------------------

Works(t) == \/ CallbackStarts(t) \/ CallbackEnds(t) \/ NextPhase(t)
            \/ EnterCleanup(t) \/ FindCleaned(t) \/ LeaveCleanup(t)

Next ==
  \/ Start
  \/ \E c \in Callbacks : Register(c)
  \/ \E t \in Tasks : \/ CallFinish(t) \/ CallTooLate(t) \/ CallCancel(t)
                      \/ CallCleanup(t) \/ LockWaitCancelled(t) \/ Works(t)

(* Callbacks are adapters with timeouts of their own: every one ends, and the *)
(* loop resumes whoever may go on.                                            *)
Fairness == \A t \in Tasks : WF_vars(Works(t))

Spec == Init /\ [][Next]_vars
FairSpec == Spec /\ Fairness

-------------------------------------------------------------------------------
(* Properties.                                                                *)

\* "Run cleanup callbacks at most once, including under concurrent callers";
\* the other phases belong to the one call that won the cancellation.
AtMostOnce == \A c \in Callbacks : attempts[c] <= 1

\* A call that came back through cleanup(), as its runner or because another
\* task had already cleaned up, comes back to a job whose every accepted
\* cleanup callback was called and is over.
CameBack(t) == outcome[t] \in {"ok", "raised"} \/ (op[t] = "cleanup" /\ outcome[t] = "false")
CleanWhenBack ==
  \A t \in Tasks : CameBack(t) =>
    /\ cleaned
    /\ \A c \in Registered("cleanup") :
         attempts[c] = 1 /\ \A u \in Tasks : c \notin awaiting[u]

\* A cleanup error is told to everybody who comes back through cleanup(), not
\* only to the task whose callbacks raised.
ErrorsReported ==
  \A t \in Tasks : CameBack(t) /\ cleanupError => outcome[t] = "raised"

\* The first of succeed, fail and cancel decides; the job never changes its
\* mind, whoever is still at work on it.
FirstDecides == [][(state \in Terminal => state' = state /\ event' = event)]_vars

\* The peer is interrupted, the transport aborted and processes terminated only
\* by a cancellation that won: once a succeed() or fail() was accepted, a late
\* cancel() calls none of these callbacks, and an earlier one lets no succeed() in.
Accepted(t) == op[t] \in {"succeed", "fail"} /\ outcome[t] # "rejected"
NoLateInterrupt ==
  \A c \in Callbacks : attempts[c] > 0 /\ PhaseOf[c] # "cleanup" =>
    event /\ \A t \in Tasks : ~Accepted(t)

\* The phases of a cancellation come in their order: once a callback of a phase
\* was called, no call of an earlier phase is pending or running ("always
\* attempts every abort, terminate, peer-interrupt, and cleanup callback in that
\* order").  Cleanup that another task calls for itself overtakes them.
Earlier(a, b) == \/ a = "abort" /\ b # "abort"
                 \/ a = "terminate" /\ b \in {"peer_interrupt", "cleanup"}
                 \/ a = "peer_interrupt" /\ b = "cleanup"
CancelsInOrder ==
  state = "cancelled" =>
    \A c \in Callbacks : attempts[c] > 0 =>
      \A t \in Tasks : \A d \in todo[t] \cup awaiting[t] : ~Earlier(PhaseOf[d], PhaseOf[c])

\* As long as nobody calls cleanup() itself, the order holds.
PhaseOrder == (\A t \in Tasks : op[t] # "cleanup") => CancelsInOrder

\* Every call comes back, whatever the other tasks do meanwhile.
EveryCallReturns == \A t \in Tasks : at[t] # "idle" ~> at[t] = "done"

===============================================================================
