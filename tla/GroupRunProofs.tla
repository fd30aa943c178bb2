---------------------------- MODULE GroupRunProofs ----------------------------
(***************************************************************************)
(* Proofs about PeerPrompt, and about GroupRun, which extends it: for any  *)
(* number of requests and prompts, any table size and any ways of making   *)
(* the run.                                                                *)
(*                                                                         *)
(* Type correctness, the neighbours' safety and the job's end need no      *)
(* assumption; the theorems on cancellation, inputs and outputs assume     *)
(* OnePromptPerRequest: with a shared id one request consumes the          *)
(* tombstone meant for another, and removes its inputs.                    *)
(***************************************************************************)
EXTENDS GroupRun, SequenceTheorems, TLAPS

-------------------------------------------------------------------------------
(* Type correctness.                                                          *)

LEMMA CleanedDirType ==
  ASSUME TypeOK, NEW p \in Prompts
  PROVE  CleanedDir(p) \in [Prompts -> {"absent", "unmarked", "marked"}]
BY DEF TypeOK, CleanedDir

LEMMA CancelPromptType ==
  ASSUME TypeOK, NEW p \in Prompts, NEW recorded \in BOOLEAN, CancelPrompt(p, recorded)
  PROVE  /\ item' \in [Requests -> {"none", "queued", "running", "removed", "done"}]
         /\ interruptFlag' \in BOOLEAN
         /\ inputDir' \in [Prompts -> {"absent", "unmarked", "marked"}]
         /\ asked' \subseteq Prompts
         /\ history' = history
<1>1. item' \in [Requests -> {"none", "queued", "running", "removed", "done"}]
  BY DEF TypeOK, CancelPrompt, DeleteQueueItem, QueuedOf, RequestsOf
<1>2. interruptFlag' \in BOOLEAN
  BY DEF TypeOK, CancelPrompt, InterruptIfRunning, IsRunning, Running
<1>3. inputDir' \in [Prompts -> {"absent", "unmarked", "marked"}]
  BY CleanedDirType DEF TypeOK, CancelPrompt
<1> QED
  BY <1>1, <1>2, <1>3 DEF TypeOK, CancelPrompt

LEMMA RunStepType ==
  ASSUME TypeOK, NEW r \in Requests, RunStep(r)
  PROVE  TypeOK'
<1> DEFINE p == PromptOf[r]
<1>p. p \in Prompts /\ (recordedAt[p] # 0) \in BOOLEAN
  BY RequestsAssumption
<1>1. CASE Arrive(r) \/ CompileFails(r)
  BY <1>1 DEF TypeOK, Arrive, CompileFails, Return, PreQueue, Over, runVars,
     streamVars, tombVars, queueVars, histVars
<1>2. CASE CancelledBeforeMaterialize(r)
  BY <1>2, <1>p DEF TypeOK, CancelledBeforeMaterialize, ConsumeCancellation, Return,
     PreQueue, Over, streamVars, queueVars, histVars
<1>3. CASE Materialize(r)
  BY <1>3, <1>p DEF TypeOK, Materialize, NoCancellation,
     PreQueue, Over, streamVars, tombVars, queueVars, histVars
<1>4. CASE MaterializeFails(r)
  BY <1>4, <1>p, CleanedDirType DEF TypeOK, MaterializeFails, NoCancellation, Return,
     PreQueue, Over, streamVars, tombVars, queueVars, histVars
<1>5. CASE ValidationFails(r)
  BY <1>5, <1>p, CleanedDirType DEF TypeOK, ValidationFails, Return,
     PreQueue, Over, streamVars, tombVars, queueVars, histVars
<1>6. CASE CancelledBeforeQueue(r)
  BY <1>6, <1>p, CleanedDirType DEF TypeOK, CancelledBeforeQueue, ConsumeCancellation,
     Return, PreQueue, Over, streamVars, queueVars, histVars
<1>7. CASE Submit(r)
  BY <1>7, <1>p DEF TypeOK, Submit, NoCancellation, ReturnHistory, Return,
     PreQueue, Over, streamVars, tombVars, histVars
<1>8. CASE PollFindsHistory(r)
  BY <1>8, <1>p DEF TypeOK, PollFindsHistory, ReturnHistory, Return,
     PreQueue, Over, streamVars, tombVars, queueVars, histVars
<1>9. CASE PollFindsCancellation(r)
  BY <1>9, <1>p, CancelPromptType DEF TypeOK, PollFindsCancellation,
     ConsumeCancellation, Return, PreQueue, Over, streamVars
<1>10. CASE PollTimesOut(r)
  BY <1>10, <1>p, CancelPromptType DEF TypeOK, PollTimesOut, Return,
     PreQueue, Over, streamVars, tombVars
<1>11. CASE Unwind(r)
  BY <1>11, <1>p, CleanedDirType DEF TypeOK, Unwind, Return,
     PreQueue, Over, streamVars, tombVars, queueVars, histVars
<1> QED
  BY <1>1, <1>2, <1>3, <1>4, <1>5, <1>6, <1>7, <1>8, <1>9, <1>10, <1>11 DEF RunStep

\* What cancelling r's run task does to it.
LEMMA StopRunEffect ==
  ASSUME TypeOK, NEW r \in Requests, StopRun(r)
  PROVE  \/ /\ run[r] = "validating"
            /\ run' = [run EXCEPT ![r] = "unwinding"] /\ answer' = answer
         \/ /\ run[r] \in {"compiling", "polling"}
            /\ run' = [run EXCEPT ![r] = "returned"]
            /\ answer' = [answer EXCEPT ![r] = "cancelled"]
         \/ /\ run[r] \in {"idle", "unwinding", "returned"}
            /\ run' = run /\ answer' = answer
<1>1. CASE run[r] = "validating"
  BY <1>1 DEF StopRun
<1>2. CASE run[r] \in {"compiling", "polling"}
  BY <1>2 DEF StopRun, Return
<1>3. CASE run[r] \in {"idle", "unwinding", "returned"}
  BY <1>3 DEF StopRun, runVars
<1> QED
  BY <1>1, <1>2, <1>3 DEF TypeOK, PreQueue, Over

LEMMA StopRunType ==
  ASSUME TypeOK, NEW r \in Requests, StopRun(r)
  PROVE  /\ run' \in [Requests -> PreQueue \cup {"polling"} \cup Over]
         /\ answer' \in [Requests -> {"none", "ok", "failed", "conflict", "raised", "cancelled"}]
BY StopRunEffect DEF TypeOK, PreQueue, Over

LEMMA StreamStepType ==
  ASSUME TypeOK, NEW r \in Streamed, StreamStep(r)
  PROVE  TypeOK'
<1> DEFINE p == PromptOf[r]
<1>p. /\ r \in Requests /\ p \in Prompts
      /\ (recordedAt[p] # 0) \in BOOLEAN
  BY RequestsAssumption
<1>1. CASE RefuseStart(r) \/ StreamStart(r) \/ ControlEnds(r) \/ HandlerAnswers(r)
  BY <1>1, <1>p DEF TypeOK, RefuseStart, StreamStart, ControlEnds, HandlerAnswers,
     CloseHandler, PreQueue, Over, runVars, tombVars, queueVars, histVars
<1>2. CASE StartRaises(r) \/ ControlCancels(r) \/ HandlerFails(r)
  <2>1. CancelPrompt(p, recordedAt[p] # 0)
    BY <1>2 DEF StartRaises, ControlCancels, HandlerFails, CancelStreamPrompt
  <2>2. /\ item' \in [Requests -> {"none", "queued", "running", "removed", "done"}]
        /\ interruptFlag' \in BOOLEAN
        /\ inputDir' \in [Prompts -> {"absent", "unmarked", "marked"}]
        /\ asked' \subseteq Prompts
        /\ history' = history
    BY <2>1, <1>p, CancelPromptType
  <2> QED
    BY <1>2, <2>2 DEF TypeOK, StartRaises, ControlCancels, HandlerFails, CloseHandler,
       runVars, tombVars
<1>3. CASE HandlerWakes(r)
  BY <1>3, <1>p, CancelPromptType DEF TypeOK, HandlerWakes, CancelStreamPrompt,
     runVars, tombVars, queueVars
<1>4. CASE WaitCancelled(r)
  <2>1. run' \in [Requests -> PreQueue \cup {"polling"} \cup Over]
        /\ answer' \in [Requests -> {"none", "ok", "failed", "conflict", "raised", "cancelled"}]
    BY <1>4, <1>p, StopRunType DEF WaitCancelled
  <2>2. /\ item' \in [Requests -> {"none", "queued", "running", "removed", "done"}]
        /\ interruptFlag' \in BOOLEAN
        /\ inputDir' \in [Prompts -> {"absent", "unmarked", "marked"}]
        /\ asked' \subseteq Prompts
        /\ history' = history
    BY <1>4, <1>p, CancelPromptType DEF WaitCancelled, CancelStreamPrompt
  <2> QED
    BY <1>4, <2>1, <2>2 DEF TypeOK, WaitCancelled, CloseHandler, tombVars
<1>5. CASE JoinCancelled(r)
  BY <1>5, <1>p, StopRunType DEF TypeOK, JoinCancelled, tombVars, queueVars, histVars
<1> QED
  BY <1>1, <1>2, <1>3, <1>4, <1>5 DEF StreamStep

LEMMA InterruptType ==
  ASSUME TypeOK, NEW p \in Prompts, Interrupt(p)
  PROVE  TypeOK'
<1>1. /\ recordedAt' \in [Prompts -> Nat] /\ records' \in Nat
      /\ doomed' \subseteq Requests /\ dropped' \subseteq Requests
  BY DEF TypeOK, Interrupt, RecordCancellation, RequestsOf
<1> QED
  BY <1>1, CancelPromptType DEF TypeOK, Interrupt, runVars, streamVars

LEMMA WorkerStepType ==
  ASSUME TypeOK, NEW r \in Requests, WorkerStep(r)
  PROVE  TypeOK'
<1>1. CASE WorkerTakes(r)
  BY <1>1 DEF TypeOK, WorkerTakes, runVars, streamVars, tombVars, histVars
<1>2. CASE WorkerFinishes(r)
  <2>1. history' \in [Prompts -> {"none", "success", "error"}]
    BY <1>2, RequestsAssumption DEF TypeOK, WorkerFinishes
  <2> QED
    BY <1>2, <2>1 DEF TypeOK, WorkerFinishes, runVars, streamVars, tombVars, histVars
<1> QED
  BY <1>1, <1>2 DEF WorkerStep

LEMMA InitType == Init => TypeOK
<1> SUFFICES ASSUME Init PROVE TypeOK
  OBVIOUS
<1>1. run \in [Requests -> PreQueue \cup {"polling"} \cup Over]
  BY DEF Init, PreQueue
<1>2. /\ recordedAt \in [Prompts -> Nat] /\ records \in Nat
      /\ history \in [Prompts -> {"none", "success", "error"}]
      /\ inputDir \in [Prompts -> {"absent", "unmarked", "marked"}]
  BY DEF Init
<1>3. /\ handler \in [Streamed -> {"idle", "waiting", "joining", "unwinding", "closed"}]
      /\ control \in [Streamed -> {"off", "reading", "done"}]
  BY DEF Init
<1> QED
  BY <1>1, <1>2, <1>3 DEF Init, TypeOK

\* The state keeps its types through every step of every actor.
THEOREM TypeCorrect == Spec => []TypeOK
<1>1. Init => TypeOK
  BY InitType
<1>2. TypeOK /\ [Next]_vars => TypeOK'
  <2> SUFFICES ASSUME TypeOK, [Next]_vars PROVE TypeOK'
    OBVIOUS
  <2>1. CASE \E r \in Requests : RunStep(r)
    BY <2>1, RunStepType
  <2>2. CASE \E r \in Requests : WorkerStep(r)
    BY <2>2, WorkerStepType
  <2>3. CASE \E r \in Streamed : StreamStep(r)
    BY <2>3, StreamStepType
  <2>4. CASE \E p \in Prompts : Interrupt(p)
    BY <2>4, InterruptType
  <2>5. CASE \E p \in Prompts : Expire(p)
    BY <2>5 DEF TypeOK, Expire, runVars, streamVars, queueVars
  <2>6. CASE UNCHANGED vars
    BY <2>6 DEF TypeOK, vars, runVars, streamVars, tombVars, queueVars, histVars
  <2> QED
    BY <2>1, <2>2, <2>3, <2>4, <2>5, <2>6 DEF Next
<1> QED
  BY <1>1, <1>2, PTL DEF Spec
-------------------------------------------------------------------------------
(* The inductive invariant behind RecordedCancelHeeded, NoOrphanWork and      *)
(* TaskEndsWithHandler.                                                       *)

\* Nothing is in the queue before the put.
Unqueued == \A r \in Requests :
  run[r] \in PreQueue \cup {"unwinding"} => item[r] = "none"
IdleHandler == \A r \in Streamed : handler[r] = "idle" => run[r] = "idle"
\* History is written for a prompt only when its one item is done.
OwnHistory == \A r \in Requests : history[PromptOf[r]] # "none" => item[r] = "done"
\* Only its stream handler cancels a run task, on its own way out.
StoppedByHandler == \A r \in Requests :
  run[r] = "unwinding" \/ answer[r] = "cancelled" =>
    r \in Streamed /\ handler[r] \in {"unwinding", "closed"}
\* A doomed request before its put still has its record.
DoomedRecorded == \A r \in doomed :
  /\ item[r] = "none"
  /\ run[r] # "polling"
  /\ run[r] \in PreQueue => recordedAt[PromptOf[r]] # 0

Inv ==
  /\ TypeOK
  /\ Unqueued /\ IdleHandler /\ OwnHistory /\ StoppedByHandler
  /\ DoomedRecorded /\ NoOrphanWork /\ TaskEndsWithHandler
-------------------------------------------------------------------------------

\* What cancel_prompt(p) does to the queue when ids are not shared.
LEMMA CancelPromptEffect ==
  ASSUME TypeOK, OnePromptPerRequest,
         NEW p \in Prompts, NEW recorded, CancelPrompt(p, recorded)
  PROVE  /\ \A s \in Requests :
              /\ item'[s] = item[s] \/ (item[s] = "queued" /\ item'[s] = "removed")
              /\ PromptOf[s] = p =>
                   item'[s] # "queued" /\ (item'[s] = "running" => interruptFlag')
         /\ interruptFlag => interruptFlag'
         /\ history' = history
<1>1. \A s \in Requests :
        item'[s] = item[s] \/ (item[s] = "queued" /\ item'[s] = "removed")
  BY DEF TypeOK, CancelPrompt, DeleteQueueItem, QueuedOf, RequestsOf
<1>2. ASSUME NEW s \in Requests, PromptOf[s] = p PROVE item'[s] # "queued"
  <2>1. QueuedOf(p) \subseteq {s}
    BY <1>2 DEF OnePromptPerRequest, QueuedOf, RequestsOf
  <2>2. CASE QueuedOf(p) = {}
    BY <1>2, <2>2 DEF CancelPrompt, DeleteQueueItem, QueuedOf, RequestsOf
  <2>3. CASE QueuedOf(p) # {}
    BY <2>1, <2>3 DEF TypeOK, CancelPrompt, DeleteQueueItem
  <2> QED
    BY <2>2, <2>3
<1>3. ASSUME NEW s \in Requests, PromptOf[s] = p, item'[s] = "running"
      PROVE  interruptFlag'
  <2>1. item[s] = "running"
    BY <1>1, <1>3
  <2>2. IsRunning(p)
    BY <1>3, <2>1 DEF IsRunning, Running
  <2> QED
    BY <2>2 DEF CancelPrompt, InterruptIfRunning
<1> QED
  BY <1>1, <1>2, <1>3 DEF CancelPrompt, InterruptIfRunning

LEMMA RunStepInv ==
  ASSUME Inv, OnePromptPerRequest, NEW r \in Requests, RunStep(r)
  PROVE  Inv'
<1>t. TypeOK'
  BY RunStepType DEF Inv
<1>p. PromptOf[r] \in Prompts
  BY RequestsAssumption
<1> USE DEF Inv, Unqueued, IdleHandler, OwnHistory, StoppedByHandler, DoomedRecorded,
     NoOrphanWork, Finished, TaskEndsWithHandler, TypeOK, PreQueue, Over
<1>1. CASE Arrive(r)
  BY <1>1, <1>t, <1>p DEF Arrive, streamVars, tombVars, queueVars, histVars
<1>2. CASE CompileFails(r)
  BY <1>2, <1>t, <1>p DEF CompileFails, Return, streamVars, tombVars, queueVars, histVars
<1>3. CASE CancelledBeforeMaterialize(r)
  BY <1>3, <1>t, <1>p DEF CancelledBeforeMaterialize, ConsumeCancellation, Return,
     OnePromptPerRequest, streamVars, queueVars, histVars
<1>4. CASE Materialize(r)
  BY <1>4, <1>t, <1>p DEF Materialize, NoCancellation, streamVars, tombVars, queueVars, histVars
<1>5. CASE MaterializeFails(r)
  BY <1>5, <1>t, <1>p DEF MaterializeFails, NoCancellation, Return,
     streamVars, tombVars, queueVars, histVars
<1>6. CASE ValidationFails(r)
  BY <1>6, <1>t, <1>p DEF ValidationFails, Return, streamVars, tombVars, queueVars, histVars
<1>7. CASE CancelledBeforeQueue(r)
  BY <1>7, <1>t, <1>p DEF CancelledBeforeQueue, ConsumeCancellation, Return,
     OnePromptPerRequest, streamVars, queueVars, histVars
<1>8. CASE Submit(r)
  <2>1. item[r] = "none" /\ history[PromptOf[r]] = "none" /\ r \notin doomed
    BY <1>8 DEF Submit, NoCancellation
  <2>2. /\ run' = [run EXCEPT ![r] = "polling"]
        /\ item' = [item EXCEPT ![r] = "queued"]
    BY <1>8, <2>1 DEF Submit
  <2> QED
    BY <1>8, <1>t, <2>1, <2>2 DEF Submit, NoCancellation, streamVars, tombVars, histVars
<1>9. CASE PollFindsHistory(r)
  BY <1>9, <1>t, <1>p DEF PollFindsHistory, ReturnHistory, Return,
     streamVars, tombVars, queueVars, histVars
<1>10. CASE PollFindsCancellation(r)
  <2>1. /\ CancelPrompt(PromptOf[r], TRUE) /\ Return(r, "conflict") /\ run[r] = "polling"
        /\ recordedAt' = [recordedAt EXCEPT ![PromptOf[r]] = 0]
        /\ UNCHANGED <<handler, control, doomed>>
    BY <1>10 DEF PollFindsCancellation, ConsumeCancellation, streamVars
  <2>2. /\ \A s \in Requests :
             /\ item'[s] = item[s] \/ (item[s] = "queued" /\ item'[s] = "removed")
             /\ PromptOf[s] = PromptOf[r] =>
                  item'[s] # "queued" /\ (item'[s] = "running" => interruptFlag')
        /\ interruptFlag => interruptFlag'
        /\ history' = history
    BY <1>p, <2>1, CancelPromptEffect
  <2>3. /\ run' = [run EXCEPT ![r] = "returned"]
        /\ answer' = [answer EXCEPT ![r] = "conflict"]
    BY <2>1 DEF Return
  <2>4. DoomedRecorded'
    <3> SUFFICES ASSUME NEW s \in doomed
                 PROVE  /\ item'[s] = "none" /\ run'[s] # "polling"
                        /\ run'[s] \in PreQueue => recordedAt'[PromptOf[s]] # 0
      BY <2>1
    <3>1. s # r /\ PromptOf[s] # PromptOf[r]
      BY <2>1 DEF OnePromptPerRequest
    <3> QED
      BY <1>p, <2>1, <2>2, <2>3, <3>1, RequestsAssumption
  <2> QED
    BY <1>t, <1>p, <2>1, <2>2, <2>3, <2>4
<1>11. CASE PollTimesOut(r)
  BY <1>11, <1>t, <1>p, CancelPromptEffect DEF PollTimesOut, OnePromptPerRequest, Return,
     streamVars, tombVars
<1>12. CASE Unwind(r)
  BY <1>12, <1>t, <1>p DEF Unwind, Return, streamVars, tombVars, queueVars, histVars
<1> QED
  BY <1>1, <1>2, <1>3, <1>4, <1>5, <1>6, <1>7, <1>8, <1>9, <1>10, <1>11, <1>12 DEF RunStep
LEMMA StreamStepInv ==
  ASSUME Inv, OnePromptPerRequest, NEW r \in Streamed, StreamStep(r)
  PROVE  Inv'
<1>t. TypeOK'
  BY StreamStepType DEF Inv
<1>p. r \in Requests /\ PromptOf[r] \in Prompts
  BY RequestsAssumption
<1> USE DEF Inv, Unqueued, IdleHandler, OwnHistory, StoppedByHandler, DoomedRecorded,
     NoOrphanWork, Finished, TaskEndsWithHandler, TypeOK, PreQueue, Over
<1>1. CASE RefuseStart(r)
  BY <1>1, <1>t, <1>p DEF RefuseStart, runVars, tombVars, queueVars, histVars
<1>2. CASE StartRaises(r)
  BY <1>2, <1>t, <1>p, CancelPromptEffect DEF StartRaises, CancelStreamPrompt,
     runVars, tombVars
<1>3. CASE StreamStart(r)
  BY <1>3, <1>t, <1>p DEF StreamStart, tombVars, queueVars, histVars
<1>4. CASE ControlCancels(r)
  BY <1>4, <1>t, <1>p, CancelPromptEffect DEF ControlCancels, CancelStreamPrompt,
     runVars, tombVars
<1>5. CASE ControlEnds(r)
  BY <1>5, <1>t, <1>p DEF ControlEnds, runVars, tombVars, queueVars, histVars
<1>6. CASE HandlerWakes(r)
  BY <1>6, <1>t, <1>p, CancelPromptEffect DEF HandlerWakes, CancelStreamPrompt,
     runVars, tombVars, queueVars
<1>7. CASE HandlerAnswers(r)
  BY <1>7, <1>t, <1>p DEF HandlerAnswers, CloseHandler, runVars, tombVars, queueVars, histVars
<1>8. CASE HandlerFails(r)
  BY <1>8, <1>t, <1>p, CancelPromptEffect DEF HandlerFails, CancelStreamPrompt,
     CloseHandler, runVars, tombVars
<1>9. CASE WaitCancelled(r)
  <2>1. /\ CancelPrompt(PromptOf[r], recordedAt[PromptOf[r]] # 0) /\ StopRun(r)
        /\ handler' = [handler EXCEPT ![r] = "closed"]
        /\ recordedAt' = recordedAt /\ doomed' = doomed
    BY <1>9 DEF WaitCancelled, CancelStreamPrompt, CloseHandler, tombVars
  <2>2. /\ \A s \in Requests :
             /\ item'[s] = item[s] \/ (item[s] = "queued" /\ item'[s] = "removed")
             /\ PromptOf[s] = PromptOf[r] =>
                  item'[s] # "queued" /\ (item'[s] = "running" => interruptFlag')
        /\ interruptFlag => interruptFlag'
        /\ history' = history
    BY <1>p, <2>1, CancelPromptEffect
  <2>3. CASE run' = [run EXCEPT ![r] = "unwinding"] /\ answer' = answer
             /\ run[r] = "validating"
    BY <1>t, <1>p, <2>1, <2>2, <2>3
  <2>4. CASE /\ run[r] \in {"compiling", "polling"}
             /\ run' = [run EXCEPT ![r] = "returned"]
             /\ answer' = [answer EXCEPT ![r] = "cancelled"]
    BY <1>t, <1>p, <2>1, <2>2, <2>4
  <2>5. CASE /\ run[r] \in {"idle", "unwinding", "returned"}
             /\ run' = run /\ answer' = answer
    BY <1>t, <1>p, <2>1, <2>2, <2>5
  <2> QED
    BY <1>p, <2>1, <2>3, <2>4, <2>5, StopRunEffect
<1>10. CASE JoinCancelled(r)
  <2>1. /\ StopRun(r) /\ run[r] # "returned" /\ handler[r] = "joining"
        /\ handler' = [handler EXCEPT ![r] = "unwinding"]
        /\ UNCHANGED <<recordedAt, doomed, item, interruptFlag, history>>
    BY <1>10 DEF JoinCancelled, tombVars, queueVars, histVars
  <2>3. CASE run' = [run EXCEPT ![r] = "unwinding"] /\ answer' = answer
             /\ run[r] = "validating"
    BY <1>t, <1>p, <2>1, <2>3
  <2>4. CASE /\ run[r] \in {"compiling", "polling"}
             /\ run' = [run EXCEPT ![r] = "returned"]
             /\ answer' = [answer EXCEPT ![r] = "cancelled"]
    BY <1>t, <1>p, <2>1, <2>4
  <2>5. CASE /\ run[r] \in {"idle", "unwinding", "returned"}
             /\ run' = run /\ answer' = answer
    BY <1>t, <1>p, <2>1, <2>5
  <2> QED
    BY <1>p, <2>1, <2>3, <2>4, <2>5, StopRunEffect
<1> QED
  BY <1>1, <1>2, <1>3, <1>4, <1>5, <1>6, <1>7, <1>8, <1>9, <1>10 DEF StreamStep

LEMMA InterruptInv ==
  ASSUME Inv, OnePromptPerRequest, NEW p \in Prompts, Interrupt(p)
  PROVE  Inv'
<1>t. TypeOK'
  BY InterruptType DEF Inv
<1>1. \A s \in doomed' :
        /\ s \in Requests
        /\ s \in doomed \/ (PromptOf[s] = p /\ run[s] \in PreQueue)
        /\ recordedAt[PromptOf[s]] # 0 \/ PromptOf[s] = p => recordedAt'[PromptOf[s]] # 0
  BY RequestsAssumption DEF Inv, TypeOK, Interrupt, RecordCancellation, RequestsOf
<1>2. CancelPrompt(p, TRUE) /\ UNCHANGED <<run, answer, handler, control>>
  BY DEF Interrupt, runVars, streamVars
<1>3. /\ \A s \in Requests :
           /\ item'[s] = item[s] \/ (item[s] = "queued" /\ item'[s] = "removed")
           /\ PromptOf[s] = p =>
                item'[s] # "queued" /\ (item'[s] = "running" => interruptFlag')
      /\ interruptFlag => interruptFlag'
      /\ history' = history
  BY <1>2, CancelPromptEffect DEF Inv
<1>4. DoomedRecorded'
  BY <1>1, <1>2, <1>3 DEF Inv, Unqueued, DoomedRecorded, PreQueue
<1>5. NoOrphanWork'
  BY <1>2, <1>3 DEF Inv, NoOrphanWork, Finished
<1> QED
  BY <1>t, <1>2, <1>3, <1>4, <1>5 DEF Inv, Unqueued, IdleHandler, OwnHistory,
     StoppedByHandler, TaskEndsWithHandler

LEMMA ExpireInv ==
  ASSUME Inv, NEW p \in Prompts, Expire(p)
  PROVE  Inv'
BY RequestsAssumption DEF Expire, RequestsOf, runVars, streamVars, queueVars, Inv, Unqueued,
   IdleHandler, OwnHistory, StoppedByHandler, DoomedRecorded, NoOrphanWork, Finished,
   TaskEndsWithHandler, TypeOK

LEMMA WorkerStepInv ==
  ASSUME Inv, OnePromptPerRequest, NEW r \in Requests, WorkerStep(r)
  PROVE  Inv'
<1>t. TypeOK'
  BY WorkerStepType DEF Inv
<1> USE DEF Inv, Unqueued, IdleHandler, OwnHistory, StoppedByHandler, DoomedRecorded,
     NoOrphanWork, Finished, TaskEndsWithHandler, TypeOK
<1>1. CASE WorkerTakes(r)
  BY <1>1, <1>t DEF WorkerTakes, Running, runVars, streamVars, tombVars, histVars
<1>2. CASE WorkerFinishes(r)
  BY <1>2, <1>t, RequestsAssumption DEF WorkerFinishes, OnePromptPerRequest,
     runVars, streamVars, tombVars, histVars
<1> QED
  BY <1>1, <1>2 DEF WorkerStep

LEMMA InvStep ==
  ASSUME OnePromptPerRequest, Inv, [Next]_vars
  PROVE  Inv'
<1>1. CASE \E r \in Requests : RunStep(r)
  BY <1>1, RunStepInv
<1>2. CASE \E r \in Requests : WorkerStep(r)
  BY <1>2, WorkerStepInv
<1>3. CASE \E r \in Streamed : StreamStep(r)
  BY <1>3, StreamStepInv
<1>4. CASE \E p \in Prompts : Interrupt(p)
  BY <1>4, InterruptInv
<1>5. CASE \E p \in Prompts : Expire(p)
  BY <1>5, ExpireInv
<1>6. CASE UNCHANGED vars
  BY <1>6 DEF vars, runVars, streamVars, tombVars, queueVars, histVars, Inv, Unqueued,
     IdleHandler, OwnHistory, StoppedByHandler, DoomedRecorded, NoOrphanWork, Finished,
     TaskEndsWithHandler, TypeOK
<1> QED
  BY <1>1, <1>2, <1>3, <1>4, <1>5, <1>6 DEF Next

LEMMA InvInit == Init => Inv
BY InitType, RequestsAssumption DEF Init, Inv, Unqueued, IdleHandler, OwnHistory,
   StoppedByHandler, DoomedRecorded, NoOrphanWork, Finished, TaskEndsWithHandler

LEMMA Invariance ==
  ASSUME OnePromptPerRequest
  PROVE  Spec => []Inv
<1>1. Inv /\ [Next]_vars => Inv'
  BY InvStep
<1> QED
  BY <1>1, InvInit, PTL DEF Spec

\* However the awaits of any number of requests interleave with interrupts, a
\* request whose cancellation was recorded before its put never puts anything
\* while the record lasts.
THEOREM CancellationHeeded ==
  ASSUME OnePromptPerRequest
  PROVE  Spec => []RecordedCancelHeeded
<1>1. Inv => RecordedCancelHeeded
  BY DEF Inv, DoomedRecorded, RecordedCancelHeeded
<1> QED
  BY <1>1, Invariance, PTL

\* A request that is over left nothing queued, and nothing running that was not
\* told to stop.
THEOREM NothingOrphaned ==
  ASSUME OnePromptPerRequest
  PROVE  Spec => []NoOrphanWork
<1>1. Inv => NoOrphanWork
  BY DEF Inv
<1> QED
  BY <1>1, Invariance, PTL

\* No run task survives its stream handler, however the handler ends.
THEOREM NoTaskSurvives ==
  ASSUME OnePromptPerRequest
  PROVE  Spec => []TaskEndsWithHandler
<1>1. Inv => TaskEndsWithHandler
  BY DEF Inv
<1> QED
  BY <1>1, Invariance, PTL

-------------------------------------------------------------------------------
(* Neighbours: whatever prompt ids the requests share.                        *)

\* ComfyUI's worker runs one prompt at a time.
OneRunning == \A r, s \in Requests : item[r] = "running" /\ item[s] = "running" => r = s

\* cancel_prompt takes at most an item of its prompt away, and raises the flag only for
\* one.
LEMMA CancelPromptSpares ==
  ASSUME TypeOK, OneRunning, NeighboursUntouched,
         NEW p \in Prompts, NEW recorded, CancelPrompt(p, recorded)
  PROVE  (OneRunning /\ NeighboursUntouched)'
<1>1. \A s \in Requests :
        item'[s] = item[s] \/ (PromptOf[s] = p /\ item[s] = "queued" /\ item'[s] = "removed")
  BY DEF TypeOK, CancelPrompt, DeleteQueueItem, QueuedOf, RequestsOf
<1>2. asked' = asked \cup {p}
  BY DEF CancelPrompt
<1>3. ASSUME NEW s \in Requests, item[s] = "running", interruptFlag'
      PROVE  PromptOf[s] \in asked'
  <2>1. CASE interruptFlag
    BY <1>2, <1>3, <2>1 DEF NeighboursUntouched
  <2>2. CASE ~interruptFlag
    <3>1. IsRunning(p)
      BY <1>3, <2>2 DEF TypeOK, CancelPrompt, InterruptIfRunning
    <3> QED
      BY <1>2, <1>3, <3>1 DEF IsRunning, Running, OneRunning
  <2> QED
    BY <2>1, <2>2
<1> QED
  BY <1>1, <1>2, <1>3 DEF OneRunning, NeighboursUntouched

LEMMA NeighboursStep ==
  TypeOK /\ OneRunning /\ NeighboursUntouched /\ [Next]_vars => (OneRunning /\ NeighboursUntouched)'
<1> SUFFICES ASSUME TypeOK, OneRunning, NeighboursUntouched, [Next]_vars
             PROVE  (OneRunning /\ NeighboursUntouched)'
  OBVIOUS
<1>s. ASSUME UNCHANGED <<item, interruptFlag, asked>>
      PROVE  (OneRunning /\ NeighboursUntouched)'
  BY <1>s DEF OneRunning, NeighboursUntouched
<1>1. ASSUME NEW r \in Requests, RunStep(r) PROVE (OneRunning /\ NeighboursUntouched)'
  <2>p. PromptOf[r] \in Prompts
    BY RequestsAssumption
  <2>1. CASE Submit(r)
    BY <2>1 DEF Submit, TypeOK, OneRunning, NeighboursUntouched, histVars
  <2>2. CASE PollFindsCancellation(r) \/ PollTimesOut(r)
    <3>1. \E recorded \in BOOLEAN : CancelPrompt(PromptOf[r], recorded)
      BY <2>2 DEF PollFindsCancellation, PollTimesOut
    <3> QED
      BY <2>p, <3>1, CancelPromptSpares
  <2>3. CASE ~(Submit(r) \/ PollFindsCancellation(r) \/ PollTimesOut(r))
    BY <1>1, <2>3, <1>s DEF RunStep, Arrive, CompileFails, CancelledBeforeMaterialize, Materialize,
       MaterializeFails, ValidationFails, CancelledBeforeQueue, PollFindsHistory, Unwind,
       queueVars, histVars
  <2> QED
    BY <2>1, <2>2, <2>3
<1>2. ASSUME NEW r \in Streamed, StreamStep(r) PROVE (OneRunning /\ NeighboursUntouched)'
  <2>p. PromptOf[r] \in Prompts
    BY RequestsAssumption
  <2>1. CASE CancelStreamPrompt(r)
    BY <2>p, <2>1, CancelPromptSpares DEF CancelStreamPrompt
  <2>2. CASE ~CancelStreamPrompt(r)
    BY <1>2, <2>2, <1>s DEF StreamStep, RefuseStart, StartRaises, StreamStart, ControlCancels,
       ControlEnds, HandlerWakes, HandlerAnswers, HandlerFails, WaitCancelled, JoinCancelled,
       queueVars, histVars
  <2> QED
    BY <2>1, <2>2
<1>3. ASSUME NEW r \in Requests, WorkerStep(r) PROVE (OneRunning /\ NeighboursUntouched)'
  BY <1>3 DEF WorkerStep, WorkerTakes, WorkerFinishes, Running, TypeOK, OneRunning,
     NeighboursUntouched, histVars
<1>4. ASSUME NEW p \in Prompts, Interrupt(p) \/ Expire(p)
      PROVE  (OneRunning /\ NeighboursUntouched)'
  BY <1>4, <1>s, CancelPromptSpares DEF Interrupt, Expire, queueVars
<1>5. CASE UNCHANGED vars
  BY <1>5, <1>s DEF vars, queueVars, histVars
<1> QED
  BY <1>1, <1>2, <1>3, <1>4, <1>5 DEF Next

\* Cancelling one prompt removes and interrupts no other prompt's item.
THEOREM NeighboursGoOn == Spec => []NeighboursUntouched
<1>1. Init => OneRunning /\ NeighboursUntouched
  BY DEF Init, OneRunning, NeighboursUntouched
<1> QED
  BY <1>1, TypeCorrect, NeighboursStep, PTL DEF Spec

-------------------------------------------------------------------------------
(* Materialised inputs.                                                       *)

\* A request's inputs are there from their materialisation, unless its recorded
\* cancellation took them; and whoever has left them there still needs them.
Inputs(r) ==
  /\ r \in files => run[r] \notin {"idle", "compiling"}
  /\ run[r] \in PreQueue /\ recordedAt[PromptOf[r]] # 0 => r \in doomed
  /\ r \in files \ dropped /\ run[r] = "validating" =>
       inputDir[PromptOf[r]] = "marked" \/ r \in doomed
  /\ r \in files \ dropped /\ item[r] \in {"queued", "running"} => inputDir[PromptOf[r]] = "marked"
  /\ inputDir[PromptOf[r]] = "marked" =>
       run[r] \in {"validating", "unwinding"} \/ item[r] \in {"queued", "running", "done"}

InputsInv ==
  /\ \A r \in Requests : Inputs(r)
  /\ \A p \in Prompts : inputDir[p] = "marked" => RequestsOf(p) # {}

\* What cancel_prompt(p) does to the inputs of each request.
LEMMA CancelPromptInputs ==
  ASSUME TypeOK, OnePromptPerRequest,
         NEW p \in Prompts, NEW recorded \in BOOLEAN, CancelPrompt(p, recorded)
  PROVE  /\ \A q \in Prompts : inputDir'[q] = "marked" => inputDir[q] = "marked"
         /\ \A s \in Requests :
              IF PromptOf[s] # p
              THEN item'[s] = item[s] /\ inputDir'[PromptOf[s]] = inputDir[PromptOf[s]]
              ELSE IF item[s] = "queued"
              THEN item'[s] = "removed" /\ inputDir'[p] # "marked"
              ELSE /\ item'[s] = item[s]
                   /\ \/ inputDir'[p] = inputDir[p]
                      \/ item[s] # "running" /\ recorded /\ inputDir'[p] # "marked"
<1>1. \A q \in Prompts : q # p => inputDir'[q] = inputDir[q]
  BY DEF TypeOK, CancelPrompt, CleanedDir
<1>2. /\ inputDir'[p] = inputDir[p] \/ inputDir'[p] # "marked"
      /\ inputDir'[p] # inputDir[p] => InputsUnneeded(p, recorded)
      /\ InputsUnneeded(p, recorded) => inputDir'[p] # "marked"
  BY DEF TypeOK, CancelPrompt, CleanedDir
<1>3. ASSUME NEW s \in Requests, PromptOf[s] # p PROVE item'[s] = item[s]
  BY <1>3 DEF TypeOK, CancelPrompt, DeleteQueueItem, QueuedOf, RequestsOf
<1>4. ASSUME NEW s \in Requests, PromptOf[s] = p
      PROVE  IF item[s] = "queued"
             THEN item'[s] = "removed" /\ inputDir'[p] # "marked"
             ELSE /\ item'[s] = item[s]
                  /\ \/ inputDir'[p] = inputDir[p]
                     \/ item[s] # "running" /\ recorded /\ inputDir'[p] # "marked"
  <2>1. QueuedOf(p) = IF item[s] = "queued" THEN {s} ELSE {}
    BY <1>4 DEF OnePromptPerRequest, QueuedOf, RequestsOf
  <2>2. IsRunning(p) <=> item[s] = "running"
    BY <1>4 DEF OnePromptPerRequest, IsRunning, Running
  <2>3. CASE item[s] = "queued"
    BY <1>2, <2>1, <2>3 DEF TypeOK, CancelPrompt, DeleteQueueItem, InputsUnneeded
  <2>4. CASE item[s] # "queued"
    BY <1>2, <2>1, <2>2, <2>4 DEF TypeOK, CancelPrompt, DeleteQueueItem, InputsUnneeded
  <2> QED
    BY <2>3, <2>4
<1> QED
  BY <1>1, <1>2, <1>3, <1>4, RequestsAssumption

\* cancel_prompt keeps the inputs as they must be, also with the end of a run task.
LEMMA CancelPromptKeepsInputs ==
  ASSUME Inv, OnePromptPerRequest, InputsInv, NEW p \in Prompts,
         CancelPrompt(p, recordedAt[p] # 0),
         \A s \in Requests : \/ run'[s] = run[s]
                             \/ run[s] = "validating" /\ run'[s] = "unwinding"
                             \/ run[s] \in {"compiling", "polling"} /\ run'[s] = "returned",
         UNCHANGED <<recordedAt, doomed, dropped, files>>
  PROVE  InputsInv'
<1>1. (recordedAt[p] # 0) \in BOOLEAN
  OBVIOUS
<1>2. ASSUME NEW s \in Requests PROVE Inputs(s)'
  <2>1. Inputs(s) /\ PromptOf[s] \in Prompts
        /\ (run[s] \in PreQueue \cup {"unwinding"} => item[s] = "none")
    BY RequestsAssumption DEF Inv, InputsInv, Unqueued
  <2>2. IF PromptOf[s] # p
        THEN item'[s] = item[s] /\ inputDir'[PromptOf[s]] = inputDir[PromptOf[s]]
        ELSE IF item[s] = "queued"
        THEN item'[s] = "removed" /\ inputDir'[p] # "marked"
        ELSE /\ item'[s] = item[s]
             /\ \/ inputDir'[p] = inputDir[p]
                \/ item[s] # "running" /\ recordedAt[p] # 0 /\ inputDir'[p] # "marked"
    <3> DEFINE recorded == recordedAt[p] # 0
    <3>1. recorded \in BOOLEAN /\ CancelPrompt(p, recorded) /\ (recorded => recordedAt[p] # 0)
      OBVIOUS
    <3> HIDE DEF recorded
    <3>2. TypeOK /\ OnePromptPerRequest
      BY DEF Inv
    <3> QED
      BY <3>1, <3>2, CancelPromptInputs
  <2>3. CASE PromptOf[s] # p
    <3>1. CASE run'[s] = run[s]
      BY <2>1, <2>2, <2>3, <3>1 DEF Inputs, PreQueue
    <3>2. CASE run[s] = "validating" /\ run'[s] = "unwinding"
      BY <2>1, <2>2, <2>3, <3>2 DEF Inputs, PreQueue
    <3>3. CASE run[s] \in {"compiling", "polling"} /\ run'[s] = "returned"
      BY <2>1, <2>2, <2>3, <3>3 DEF Inputs, PreQueue
    <3> QED
      BY <3>1, <3>2, <3>3
  <2>4. CASE PromptOf[s] = p /\ item[s] = "queued"
    BY <2>1, <2>2, <2>4 DEF Inputs, PreQueue
  <2>5. CASE PromptOf[s] = p /\ item[s] # "queued"
    <3>1. CASE run'[s] = run[s]
      BY <2>1, <2>2, <2>5, <3>1 DEF Inputs, PreQueue
    <3>2. CASE run[s] = "validating" /\ run'[s] = "unwinding"
      BY <2>1, <2>2, <2>5, <3>2 DEF Inputs, PreQueue
    <3>3. CASE run[s] \in {"compiling", "polling"} /\ run'[s] = "returned"
      BY <2>1, <2>2, <2>5, <3>3 DEF Inputs, PreQueue
    <3> QED
      BY <3>1, <3>2, <3>3
  <2> QED
    BY <2>3, <2>4, <2>5
<1>3. ASSUME NEW q \in Prompts, inputDir'[q] = "marked" PROVE RequestsOf(q)' # {}
  BY <1>1, <1>3, CancelPromptInputs DEF Inv, InputsInv, RequestsOf
<1> QED
  BY <1>2, <1>3 DEF InputsInv

\* What a step of one request leaves alone: the prompts of the others.
LEMMA OthersKeepInputs ==
  ASSUME OnePromptPerRequest, InputsInv, TypeOK, NEW r \in Requests, Inputs(r)',
         inputDir' \in [Prompts -> {"absent", "unmarked", "marked"}],
         \A p \in Prompts : p # PromptOf[r] =>
           inputDir'[p] = inputDir[p] /\ recordedAt'[p] = recordedAt[p],
         \A s \in Requests : s # r =>
           run'[s] = run[s] /\ item'[s] = item[s] /\ (s \in files' <=> s \in files),
         UNCHANGED <<doomed, dropped>>
  PROVE  InputsInv'
<1>1. ASSUME NEW s \in Requests, s # r PROVE Inputs(s)'
  <2>1. PromptOf[s] \in Prompts /\ PromptOf[s] # PromptOf[r]
    BY <1>1, RequestsAssumption DEF OnePromptPerRequest
  <2>2. Inputs(s)
    BY DEF InputsInv
  <2> QED
    BY <1>1, <2>1, <2>2 DEF Inputs
<1>2. ASSUME NEW p \in Prompts, inputDir'[p] = "marked" PROVE RequestsOf(p)' # {}
  BY <1>2 DEF InputsInv, RequestsOf
<1> QED
  BY <1>1, <1>2 DEF InputsInv

LEMMA RunStepInputs ==
  ASSUME Inv, OnePromptPerRequest, InputsInv, NEW r \in Requests, RunStep(r)
  PROVE  InputsInv'
<1>p. PromptOf[r] \in Prompts /\ Inputs(r) /\ TypeOK
  BY RequestsAssumption DEF Inv, InputsInv
<1>q. /\ run[r] \in PreQueue \cup {"unwinding"} => item[r] = "none"
      /\ r \in doomed /\ run[r] \in PreQueue => recordedAt[PromptOf[r]] # 0
  BY DEF Inv, Unqueued, DoomedRecorded
<1>c. ASSUME CancelPrompt(PromptOf[r], TRUE)
      PROVE  \A s \in Requests :
               IF PromptOf[s] # PromptOf[r]
               THEN item'[s] = item[s] /\ inputDir'[PromptOf[s]] = inputDir[PromptOf[s]]
               ELSE IF item[s] = "queued"
               THEN item'[s] = "removed" /\ inputDir'[PromptOf[r]] # "marked"
               ELSE /\ item'[s] = item[s]
                    /\ \/ inputDir'[PromptOf[r]] = inputDir[PromptOf[r]]
                       \/ item[s] # "running" /\ inputDir'[PromptOf[r]] # "marked"
  <2> DEFINE recorded == TRUE
  <2>1. recorded \in BOOLEAN /\ CancelPrompt(PromptOf[r], recorded)
    BY <1>c
  <2> HIDE DEF recorded
  <2> QED
    BY <1>p, <2>1, CancelPromptInputs
<1> USE DEF Inputs, PreQueue, TypeOK
<1>1. CASE Arrive(r) \/ CompileFails(r) \/ PollFindsHistory(r)
  <2>1. Inputs(r)'
    BY <1>1, <1>p DEF Arrive, CompileFails, PollFindsHistory, ReturnHistory, Return,
       tombVars, queueVars, histVars
  <2> QED
    BY <1>1, <1>p, <2>1, OthersKeepInputs DEF Arrive, CompileFails, PollFindsHistory,
       ReturnHistory, Return, tombVars, queueVars, histVars
<1>2. CASE CancelledBeforeMaterialize(r) \/ CancelledBeforeQueue(r)
  <2>1. Inputs(r)'
    BY <1>2, <1>p, <1>q DEF CancelledBeforeMaterialize, CancelledBeforeQueue, ConsumeCancellation,
       CleanedDir, Return, queueVars, histVars
  <2> QED
    BY <1>2, <1>p, <2>1, OthersKeepInputs, CleanedDirType DEF CancelledBeforeMaterialize,
       CancelledBeforeQueue, ConsumeCancellation, CleanedDir, Return, queueVars, histVars
<1>3. CASE Materialize(r)
  <2>1. Inputs(r)'
    BY <1>3, <1>p, <1>q DEF Materialize, NoCancellation, tombVars, queueVars, histVars
  <2> QED
    BY <1>3, <1>p, <2>1, OthersKeepInputs DEF Materialize, NoCancellation, tombVars, queueVars,
       histVars
<1>4. CASE MaterializeFails(r) \/ ValidationFails(r) \/ Unwind(r)
  <2>1. Inputs(r)'
    BY <1>4, <1>p, <1>q DEF MaterializeFails, ValidationFails, Unwind, NoCancellation, CleanedDir,
       Return, tombVars, queueVars, histVars
  <2> QED
    BY <1>4, <1>p, <2>1, OthersKeepInputs, CleanedDirType DEF MaterializeFails, ValidationFails,
       Unwind, NoCancellation, CleanedDir, Return, tombVars, queueVars, histVars
<1>5. CASE Submit(r)
  <2>1. Inputs(r)'
    BY <1>5, <1>p, <1>q DEF Submit, NoCancellation, ReturnHistory, Return, tombVars, histVars
  <2> QED
    BY <1>5, <1>p, <2>1, OthersKeepInputs DEF Submit, NoCancellation, ReturnHistory, Return,
       tombVars, histVars
<1>6. CASE PollFindsCancellation(r)
  <2>1. /\ CancelPrompt(PromptOf[r], TRUE) /\ run[r] = "polling"
        /\ run' = [run EXCEPT ![r] = "returned"]
        /\ recordedAt' = [recordedAt EXCEPT ![PromptOf[r]] = 0]
        /\ UNCHANGED <<doomed, dropped, files>>
    BY <1>6 DEF PollFindsCancellation, ConsumeCancellation, Return
  <2>2. /\ \A s \in Requests :
             IF PromptOf[s] # PromptOf[r]
             THEN item'[s] = item[s] /\ inputDir'[PromptOf[s]] = inputDir[PromptOf[s]]
             ELSE IF item[s] = "queued"
             THEN item'[s] = "removed" /\ inputDir'[PromptOf[r]] # "marked"
             ELSE /\ item'[s] = item[s]
                  /\ \/ inputDir'[PromptOf[r]] = inputDir[PromptOf[r]]
                     \/ item[s] # "running" /\ inputDir'[PromptOf[r]] # "marked"
    BY <1>c, <2>1
  <2>3. Inputs(r)'
    BY <1>p, <2>1, <2>2
  <2>4. /\ inputDir' \in [Prompts -> {"absent", "unmarked", "marked"}]
        /\ \A p \in Prompts : p # PromptOf[r] => inputDir'[p] = inputDir[p]
    <3>1. inputDir' = inputDir \/ inputDir' = CleanedDir(PromptOf[r])
      BY <2>1 DEF CancelPrompt
    <3>2. CleanedDir(PromptOf[r]) \in [Prompts -> {"absent", "unmarked", "marked"}]
      BY <1>p, CleanedDirType
    <3>3. inputDir \in [Prompts -> {"absent", "unmarked", "marked"}]
      BY <1>p DEF TypeOK
    <3>4. \A p \in Prompts : p # PromptOf[r] => CleanedDir(PromptOf[r])[p] = inputDir[p]
      BY <3>3 DEF CleanedDir
    <3> QED
      BY <3>1, <3>2, <3>3, <3>4
  <2>5. \A s \in Requests : s # r => item'[s] = item[s]
    BY <2>2 DEF OnePromptPerRequest
  <2>6. \A p \in Prompts : p # PromptOf[r] => recordedAt'[p] = recordedAt[p]
    BY <1>p, <2>1 DEF TypeOK
  <2>7. \A s \in Requests : s # r => run'[s] = run[s] /\ (s \in files' <=> s \in files)
    BY <1>p, <2>1 DEF TypeOK
  <2>8. UNCHANGED <<doomed, dropped>>
    BY <2>1
  <2> QED
    BY <1>p, <2>3, <2>4, <2>5, <2>6, <2>7, <2>8, OthersKeepInputs
<1>7. CASE PollTimesOut(r)
  <2>1. /\ CancelPrompt(PromptOf[r], recordedAt[PromptOf[r]] # 0) /\ run[r] = "polling"
        /\ run' = [run EXCEPT ![r] = "returned"]
        /\ UNCHANGED <<recordedAt, doomed, dropped, files>>
    BY <1>7 DEF PollTimesOut, Return, tombVars
  <2>2. \A s \in Requests : \/ run'[s] = run[s]
                            \/ run[s] \in {"compiling", "polling"} /\ run'[s] = "returned"
    BY <1>p, <2>1
  <2> QED
    BY <1>p, <2>1, <2>2, CancelPromptKeepsInputs
<1> QED
  BY <1>1, <1>2, <1>3, <1>4, <1>5, <1>6, <1>7 DEF RunStep

LEMMA StreamStepInputs ==
  ASSUME Inv, OnePromptPerRequest, InputsInv, NEW r \in Streamed, StreamStep(r)
  PROVE  InputsInv'
<1>p. r \in Requests /\ PromptOf[r] \in Prompts /\ TypeOK
  BY RequestsAssumption DEF Inv
<1>s. ASSUME run' \in [Requests -> PreQueue \cup {"polling"} \cup Over],
             StopRun(r) \/ run' = run
      PROVE  \A s \in Requests :
               \/ run'[s] = run[s]
               \/ run[s] = "validating" /\ run'[s] = "unwinding"
               \/ run[s] \in {"compiling", "polling"} /\ run'[s] = "returned"
  BY <1>p, <1>s, StopRunEffect DEF TypeOK
<1>t. TypeOK'
  BY StreamStepType DEF Inv
<1>1. CASE RefuseStart(r) \/ ControlEnds(r) \/ HandlerAnswers(r)
  BY <1>1 DEF RefuseStart, ControlEnds, HandlerAnswers, runVars, tombVars, queueVars, histVars,
     InputsInv, Inputs, RequestsOf
<1>2. CASE StreamStart(r)
  <2>1. Inputs(r) /\ run[r] = "idle"
    BY <1>p, <1>2 DEF StreamStart, InputsInv, Inv, IdleHandler
  <2>2. Inputs(r)'
    BY <1>p, <1>2, <2>1 DEF StreamStart, TypeOK, Inputs, PreQueue, tombVars, queueVars, histVars
  <2> QED
    BY <1>p, <1>2, <2>2, OthersKeepInputs DEF StreamStart, TypeOK, tombVars, queueVars, histVars
<1>3. CASE StartRaises(r) \/ ControlCancels(r) \/ HandlerFails(r)
  BY <1>p, <1>3, CancelPromptKeepsInputs DEF StartRaises, ControlCancels, HandlerFails,
     CancelStreamPrompt, runVars, tombVars
<1>4. CASE HandlerWakes(r)
  <2>1. CASE CancelStreamPrompt(r)
    BY <1>p, <1>4, <2>1, CancelPromptKeepsInputs DEF HandlerWakes, CancelStreamPrompt, runVars,
       tombVars
  <2>2. CASE ~CancelStreamPrompt(r)
    BY <1>4, <2>2 DEF HandlerWakes, runVars, tombVars, queueVars, InputsInv, Inputs, RequestsOf
  <2> QED
    BY <2>1, <2>2
<1>5. CASE WaitCancelled(r)
  BY <1>p, <1>s, <1>t, <1>5, CancelPromptKeepsInputs DEF TypeOK, WaitCancelled, CancelStreamPrompt,
     tombVars
<1>6. CASE JoinCancelled(r)
  <2>1. UNCHANGED <<recordedAt, item, inputDir, files, doomed, dropped>>
    BY <1>6 DEF JoinCancelled, tombVars, queueVars, histVars
  <2>2. /\ \/ run'[r] = run[r]
           \/ run[r] = "validating" /\ run'[r] = "unwinding"
           \/ run[r] \in {"compiling", "polling"} /\ run'[r] = "returned"
        /\ \A s \in Requests : s # r => run'[s] = run[s]
    BY <1>p, <1>6, StopRunEffect DEF JoinCancelled, TypeOK
  <2>3. Inputs(r) /\ (run[r] \in PreQueue => item[r] = "none")
    BY <1>p DEF InputsInv, Inv, Unqueued
  <2>4. Inputs(r)'
    BY <2>1, <2>2, <2>3 DEF Inputs, PreQueue
  <2> QED
    BY <1>p, <2>1, <2>2, <2>4, OthersKeepInputs DEF TypeOK
<1> QED
  BY <1>1, <1>2, <1>3, <1>4, <1>5, <1>6 DEF StreamStep

\* An interrupt dooms the requests whose inputs it takes before their put.
LEMMA InterruptInputs ==
  ASSUME Inv, OnePromptPerRequest, InputsInv, NEW p \in Prompts, Interrupt(p)
  PROVE  InputsInv'
<1> DEFINE recorded == TRUE
<1>1. recorded \in BOOLEAN /\ CancelPrompt(p, recorded) /\ UNCHANGED <<run, files>>
  BY DEF Interrupt, runVars
<1> HIDE DEF recorded
<1>2. /\ \A q \in Prompts : inputDir'[q] = "marked" => inputDir[q] = "marked"
      /\ \A s \in Requests :
           IF PromptOf[s] # p
           THEN item'[s] = item[s] /\ inputDir'[PromptOf[s]] = inputDir[PromptOf[s]]
           ELSE IF item[s] = "queued"
           THEN item'[s] = "removed" /\ inputDir'[p] # "marked"
           ELSE /\ item'[s] = item[s]
                /\ \/ inputDir'[p] = inputDir[p]
                   \/ item[s] # "running" /\ inputDir'[p] # "marked"
  BY <1>1, CancelPromptInputs DEF Inv
<1>3. ASSUME NEW s \in Requests
      PROVE  /\ PromptOf[s] = p /\ run[s] \in PreQueue => s \in doomed'
             /\ s \in dropped => s \in dropped'
             /\ s \in doomed => s \in doomed' \cup dropped'
             /\ PromptOf[s] # p /\ recordedAt'[PromptOf[s]] # 0 =>
                  recordedAt[PromptOf[s]] # 0 /\ (s \in doomed => s \in doomed')
  BY RequestsAssumption DEF Inv, TypeOK, Interrupt, RecordCancellation, RequestsOf
<1>4. ASSUME NEW s \in Requests PROVE Inputs(s)'
  <2>1. Inputs(s) /\ (run[s] \in PreQueue \cup {"unwinding"} => item[s] = "none")
    BY DEF InputsInv, Inv, Unqueued
  <2>2. CASE PromptOf[s] # p
    BY <1>1, <1>2, <1>3, <2>1, <2>2 DEF Inputs
  <2>3. CASE PromptOf[s] = p
    BY <1>1, <1>2, <1>3, <2>1, <2>3 DEF Inputs, PreQueue
  <2> QED
    BY <2>2, <2>3
<1> QED
  BY <1>2, <1>4 DEF InputsInv, RequestsOf

LEMMA ExpireInputs ==
  ASSUME Inv, InputsInv, NEW p \in Prompts, Expire(p)
  PROVE  InputsInv'
<1>1. ASSUME NEW s \in Requests
      PROVE  /\ s \in dropped => s \in dropped'
             /\ s \in doomed => s \in doomed' \cup dropped'
             /\ recordedAt'[PromptOf[s]] # 0 =>
                  recordedAt[PromptOf[s]] # 0 /\ (s \in doomed => s \in doomed')
  BY RequestsAssumption DEF Inv, TypeOK, Expire, RequestsOf
<1>2. UNCHANGED <<run, item, inputDir, files>>
  BY DEF Expire, runVars, queueVars
<1> QED
  BY <1>1, <1>2 DEF InputsInv, Inputs, RequestsOf

LEMMA WorkerStepInputs ==
  ASSUME Inv, InputsInv, NEW r \in Requests, WorkerStep(r)
  PROVE  InputsInv'
BY DEF WorkerStep, WorkerTakes, WorkerFinishes, runVars, tombVars, histVars, Inv, TypeOK,
   InputsInv, Inputs, RequestsOf

\* A prompt that is queued or runs has the inputs that were materialised for it, and
\* marked inputs are never stranded, whatever cancels it and whenever.
THEOREM InputsThere ==
  ASSUME OnePromptPerRequest
  PROVE  Spec => []InputsKept
<1>1. Init => InputsInv
  BY RequestsAssumption DEF Init, InputsInv, Inputs
<1>2. Inv /\ InputsInv /\ [Next]_vars => InputsInv'
  <2> SUFFICES ASSUME Inv, InputsInv, [Next]_vars PROVE InputsInv'
    OBVIOUS
  <2>1. CASE UNCHANGED vars
    BY <2>1 DEF vars, runVars, tombVars, queueVars, histVars, InputsInv, Inputs, RequestsOf
  <2> QED
    BY <2>1, RunStepInputs, StreamStepInputs, WorkerStepInputs, InterruptInputs, ExpireInputs
       DEF Next
<1>3. Inv /\ InputsInv => InputsKept
  <2> SUFFICES ASSUME Inv, InputsInv PROVE InputsKept
    OBVIOUS
  <2>1. ASSUME NEW p \in Prompts, inputDir[p] = "marked"
        PROVE  \E r \in RequestsOf(p) : \/ run[r] \in {"validating", "unwinding"}
                                        \/ item[r] \in {"queued", "running", "done"}
    BY <2>1 DEF InputsInv, Inputs, RequestsOf
  <2>2. \A r \in files \ dropped : item[r] \in {"queued", "running"} =>
          inputDir[PromptOf[r]] = "marked"
    BY DEF Inv, TypeOK, InputsInv, Inputs
  <2> QED
    BY <2>1, <2>2 DEF InputsKept
<1> QED
  BY <1>1, <1>2, <1>3, Invariance, PTL DEF Spec

-------------------------------------------------------------------------------
(* The refinement of PromptService.                                           *)

\* A run has no result before it returned, an "ok" is of a prompt that ran, and a
\* conflict of one whose cancellation was asked for, as every record is.
Answers == \A r \in Requests :
  /\ run[r] # "returned" => answer[r] = "none"
  /\ answer[r] = "ok" => item[r] = "done"
  /\ answer[r] = "conflict" => PromptOf[r] \in asked
  /\ recordedAt[PromptOf[r]] # 0 => PromptOf[r] \in asked

ServiceInv == Inv /\ OneRunning /\ NeighboursUntouched /\ Answers

\* What cancel_prompt leaves of each request's answer.
LEMMA CancelPromptAnswers ==
  ASSUME Inv, OnePromptPerRequest, NEW p \in Prompts, NEW recorded, CancelPrompt(p, recorded)
  PROVE  /\ asked' = asked \cup {p}
         /\ \A s \in Requests : item[s] = "done" => item'[s] = "done"
BY CancelPromptEffect DEF CancelPrompt, Inv

LEMMA RunStepAnswers ==
  ASSUME Inv, Answers, OnePromptPerRequest, NEW r \in Requests, RunStep(r)
  PROVE  Answers'
<1>p. PromptOf[r] \in Prompts
  BY RequestsAssumption
<1>t. TypeOK
  BY DEF Inv
<1> USE DEF Answers
<1>1. CASE Arrive(r) \/ CompileFails(r) \/ Unwind(r) \/ ValidationFails(r)
           \/ Materialize(r) \/ MaterializeFails(r)
  <2>1. UNCHANGED <<recordedAt, item, asked>>
    BY <1>1 DEF Arrive, CompileFails, Unwind, ValidationFails, Materialize, MaterializeFails,
       NoCancellation, tombVars, queueVars, histVars
  <2>2. CASE Arrive(r) \/ Materialize(r)
    BY <1>t, <2>1, <2>2 DEF Arrive, Materialize, TypeOK
  <2>3. CASE CompileFails(r) \/ Unwind(r) \/ ValidationFails(r) \/ MaterializeFails(r)
    BY <1>t, <2>1, <2>3 DEF CompileFails, Unwind, ValidationFails, MaterializeFails, Return, TypeOK
  <2> QED
    BY <1>1, <2>2, <2>3
<1>2. CASE CancelledBeforeMaterialize(r) \/ CancelledBeforeQueue(r)
  <2>1. /\ PromptOf[r] \in asked
        /\ Return(r, "conflict")
        /\ recordedAt' = [recordedAt EXCEPT ![PromptOf[r]] = 0]
        /\ UNCHANGED <<item, asked>>
    BY <1>2 DEF CancelledBeforeMaterialize, CancelledBeforeQueue, ConsumeCancellation, queueVars,
       histVars
  <2> QED
    BY <1>p, <1>t, <2>1, RequestsAssumption DEF TypeOK, Return
<1>3. CASE Submit(r)
  <2>1. item[r] = "none" /\ history[PromptOf[r]] = "none"
    BY <1>3 DEF Submit, Inv, Unqueued, OwnHistory, PreQueue
  <2> QED
    BY <1>t, <1>3, <2>1 DEF TypeOK, Submit, NoCancellation, tombVars, histVars
<1>4. CASE PollFindsHistory(r)
  <2>1. item[r] = "done"
    BY <1>4 DEF PollFindsHistory, Inv, OwnHistory
  <2> QED
    BY <1>t, <1>4, <2>1 DEF TypeOK, PollFindsHistory, ReturnHistory, Return, tombVars, queueVars, histVars
<1>5. CASE PollFindsCancellation(r)
  <2>1. /\ asked' = asked \cup {PromptOf[r]}
        /\ \A s \in Requests : item[s] = "done" => item'[s] = "done"
    BY <1>p, <1>5, CancelPromptAnswers DEF PollFindsCancellation
  <2> QED
    BY <1>p, <1>t, <1>5, <2>1 DEF TypeOK, PollFindsCancellation, ConsumeCancellation, Return
<1>6. CASE PollTimesOut(r)
  <2>1. /\ asked' = asked \cup {PromptOf[r]}
        /\ \A s \in Requests : item[s] = "done" => item'[s] = "done"
    BY <1>p, <1>6, CancelPromptAnswers DEF PollTimesOut
  <2> QED
    BY <1>p, <1>t, <1>6, <2>1 DEF TypeOK, PollTimesOut, Return, tombVars
<1> QED
  BY <1>1, <1>2, <1>3, <1>4, <1>5, <1>6 DEF RunStep

LEMMA StreamStepAnswers ==
  ASSUME Inv, Answers, OnePromptPerRequest, NEW r \in Streamed, StreamStep(r)
  PROVE  Answers'
<1>p. r \in Requests /\ PromptOf[r] \in Prompts
  BY RequestsAssumption
<1>1. recordedAt' = recordedAt /\ asked \subseteq asked'
      /\ \A s \in Requests : item[s] = "done" => item'[s] = "done"
  <2>1. CASE CancelStreamPrompt(r)
    <3>1. asked \subseteq asked' /\ \A s \in Requests : item[s] = "done" => item'[s] = "done"
      BY <1>p, <2>1, CancelPromptAnswers DEF CancelStreamPrompt
    <3>2. recordedAt' = recordedAt
      BY DEF StreamStep, RefuseStart, StartRaises, StreamStart, ControlCancels, ControlEnds,
         HandlerWakes, HandlerAnswers, HandlerFails, WaitCancelled, JoinCancelled, tombVars
    <3> QED
      BY <3>1, <3>2
  <2>2. CASE ~CancelStreamPrompt(r)
    BY <2>2 DEF StreamStep, RefuseStart, StartRaises, StreamStart, ControlCancels, ControlEnds,
       HandlerWakes, HandlerAnswers, HandlerFails, WaitCancelled, JoinCancelled, tombVars,
       queueVars, histVars
  <2> QED
    BY <2>1, <2>2
<1>2. CASE StreamStart(r)
  BY <1>p, <1>1, <1>2 DEF StreamStart, Answers, Inv, TypeOK, IdleHandler
<1>3. CASE WaitCancelled(r) \/ JoinCancelled(r)
  <2>1. StopRun(r)
    BY <1>3 DEF WaitCancelled, JoinCancelled
  <2> QED
    BY <1>p, <1>1, <2>1, StopRunEffect DEF Answers, Inv, TypeOK
<1>4. CASE ~(StreamStart(r) \/ WaitCancelled(r) \/ JoinCancelled(r))
  <2>1. run' = run /\ answer' = answer
    BY <1>4 DEF StreamStep, RefuseStart, StartRaises, ControlCancels, ControlEnds, HandlerWakes,
       HandlerAnswers, HandlerFails, runVars
  <2> QED
    BY <1>1, <2>1 DEF Answers
<1> QED
  BY <1>2, <1>3, <1>4

LEMMA InterruptAnswers ==
  ASSUME Inv, Answers, OnePromptPerRequest, NEW p \in Prompts, Interrupt(p) \/ Expire(p)
  PROVE  Answers'
<1>1. CASE Interrupt(p)
  <2>1. /\ asked' = asked \cup {p}
        /\ \A s \in Requests : item[s] = "done" => item'[s] = "done"
    BY <1>1, CancelPromptAnswers DEF Interrupt
  <2>2. \A q \in Prompts : recordedAt'[q] # 0 => recordedAt[q] # 0 \/ q = p
    BY <1>1 DEF Interrupt, RecordCancellation, Inv, TypeOK
  <2>3. run' = run /\ answer' = answer
    BY <1>1 DEF Interrupt, runVars
  <2> QED
    BY <2>1, <2>2, <2>3, RequestsAssumption DEF Answers
<1>2. CASE Expire(p)
  <2>1. \A q \in Prompts : recordedAt'[q] # 0 => recordedAt[q] # 0
    BY <1>2 DEF Expire, Inv, TypeOK
  <2> QED
    BY <1>2, <2>1, RequestsAssumption DEF Expire, Answers, runVars, queueVars
<1> QED
  BY <1>1, <1>2

LEMMA AnswersStep ==
  ASSUME OnePromptPerRequest
  PROVE  Inv /\ Answers /\ [Next]_vars => Answers'
<1> SUFFICES ASSUME Inv, Answers, [Next]_vars PROVE Answers'
  OBVIOUS
<1>1. ASSUME NEW r \in Requests, WorkerStep(r) PROVE Answers'
  BY <1>1 DEF WorkerStep, WorkerTakes, WorkerFinishes, runVars, tombVars, histVars, Inv, TypeOK,
     Answers
<1>2. CASE UNCHANGED vars
  BY <1>2 DEF vars, runVars, tombVars, queueVars, histVars, Answers
<1> QED
  BY <1>1, <1>2, RunStepAnswers, StreamStepAnswers, InterruptAnswers DEF Next

LEMMA ServiceInvariance ==
  ASSUME OnePromptPerRequest
  PROVE  Spec => []ServiceInv
<1>1. Init => OneRunning /\ NeighboursUntouched /\ Answers
  BY RequestsAssumption DEF Init, OneRunning, NeighboursUntouched, Answers
<1>2. Inv => TypeOK
  BY DEF Inv
<1> QED
  BY <1>1, <1>2, Invariance, NeighboursStep, AnswersStep, PTL DEF Spec, ServiceInv

LEMMA OthersTold ==
  ASSUME NEW r \in Requests,
         \A s \in Requests : s # r => run'[s] = run[s] /\ answer'[s] = answer[s],
         \A s \in Streamed : s # r => handler'[s] = handler[s]
  PROVE  \A s \in Requests : s # r => ToldOf(s)' = ToldOf(s)
BY DEF ToldOf, Told

\* Whoever was told its end has left nothing that goes on unheard, and was told the truth.
LEMMA ToldSettled ==
  ASSUME ServiceInv', NEW r \in Requests, Told(r)'
  PROVE  /\ item'[r] # "queued"
         /\ item'[r] = "running" => interruptFlag'
         /\ ToldOf(r)' \in {"ok", "refused", "failed"}
         /\ ToldOf(r)' = "ok" => item'[r] = "done"
         /\ ToldOf(r)' = "refused" => PromptOf[r] \in asked'
<1>1. item'[r] = "none" \/ (item'[r] # "queued" /\ (item'[r] = "running" => interruptFlag'))
  <2>1. CASE run'[r] = "returned"
    <3>1. Finished(r)'
      BY <2>1 DEF Told, Finished
    <3> QED
      BY <3>1 DEF ServiceInv, Inv, NoOrphanWork
  <2>2. CASE run'[r] # "returned"
    <3>1. r \in Streamed /\ run'[r] \in {"idle", "unwinding"}
      BY <2>2 DEF Told, ServiceInv, Inv, TaskEndsWithHandler, Over
    <3> QED
      BY <3>1 DEF ServiceInv, Inv, Unqueued, PreQueue
  <2> QED
    BY <2>1, <2>2
<1>2. /\ ToldOf(r)' \in {"ok", "refused", "failed"}
      /\ ToldOf(r)' = "ok" => answer'[r] = "ok"
      /\ ToldOf(r)' = "refused" => answer'[r] = "conflict"
  BY DEF ToldOf
<1> QED
  BY <1>1, <1>2 DEF ServiceInv, Answers

LEMMA TellsSimulates ==
  ASSUME ServiceInv', NEW r \in Requests,
         \A s \in Requests : s # r => ToldOf(s)' = ToldOf(s),
         ToldOf(r)' = ToldOf(r) \/ (~Told(r) /\ Told(r)')
  PROVE  UNCHANGED [s \in Requests |-> ToldOf(s)] \/ Service!Tells(r)
<1>1. CASE ToldOf(r)' = ToldOf(r)
  BY <1>1
<1>2. CASE ~Told(r) /\ Told(r)'
  <2>1. ToldOf(r) = "nothing"
    BY <1>2 DEF ToldOf
  <2>2. [s \in Requests |-> ToldOf(s)]'
        = [[s \in Requests |-> ToldOf(s)] EXCEPT ![r] = ToldOf(r)']
    OBVIOUS
  <2>3. /\ item'[r] # "queued"
        /\ item'[r] = "running" => interruptFlag'
        /\ ToldOf(r)' \in {"ok", "refused", "failed"}
        /\ ToldOf(r)' = "ok" => item'[r] = "done"
        /\ ToldOf(r)' = "refused" => PromptOf[r] \in asked'
    BY <1>2, ToldSettled
  <2>4. /\ WorkOf(r)' # "waiting"
        /\ WorkOf(r)' = "running" => r \in Running' /\ interruptFlag'
        /\ ToldOf(r)' = "ok" => WorkOf(r)' = "done"
    <3>1. item'[r] \in {"none", "queued", "running", "removed", "done"}
      BY DEF ServiceInv, Inv, TypeOK
    <3> QED
      BY <2>3, <3>1 DEF WorkOf, Running
  <2> QED
    BY <2>1, <2>2, <2>3, <2>4 DEF Service!Tells
<1> QED
  BY <1>1, <1>2

\* What stays when neither the queue nor the askings change.
LEMMA WorkStays ==
  ASSUME UNCHANGED <<item, interruptFlag>>,
         \A s \in Requests : PromptOf[s] \in asked' <=> PromptOf[s] \in asked
  PROVE  UNCHANGED <<[s \in Requests |-> WorkOf(s)], {s \in Running : interruptFlag},
                     {s \in Requests : PromptOf[s] \in asked}>>
BY DEF WorkOf, Running

\* cancel_prompt withdraws the work of one request.
LEMMA CancelSimulates ==
  ASSUME ServiceInv, OnePromptPerRequest, NEW r \in Requests, NEW recorded,
         CancelPrompt(PromptOf[r], recorded)
  PROVE  Service!Withdraw(r)
<1>p. PromptOf[r] \in Prompts /\ TypeOK
  BY RequestsAssumption DEF ServiceInv, Inv
<1>1. item' = [item EXCEPT ![r] = IF @ = "queued" THEN "removed" ELSE @]
  <2>1. QueuedOf(PromptOf[r]) = IF item[r] = "queued" THEN {r} ELSE {}
    BY DEF OnePromptPerRequest, QueuedOf, RequestsOf
  <2> QED
    BY <1>p, <2>1 DEF TypeOK, CancelPrompt, DeleteQueueItem
<1>2. IsRunning(PromptOf[r]) <=> item[r] = "running"
  BY DEF OnePromptPerRequest, IsRunning, Running
<1>3. [s \in Requests |-> WorkOf(s)]'
      = [[s \in Requests |-> WorkOf(s)] EXCEPT ![r] = IF @ = "waiting" THEN "withdrawn" ELSE @]
  BY <1>p, <1>1 DEF TypeOK, WorkOf
<1>4. {s \in Running : interruptFlag}'
      = IF WorkOf(r) = "running" THEN {s \in Running : interruptFlag} \cup {r}
        ELSE {s \in Running : interruptFlag}
  <2>1. Running' = Running
    BY <1>p, <1>1 DEF TypeOK, Running
  <2>2. WorkOf(r) = "running" <=> item[r] = "running"
    BY <1>p DEF TypeOK, WorkOf
  <2>3. item[r] = "running" => Running = {r}
    BY DEF ServiceInv, OneRunning, Running
  <2>4. interruptFlag' = (interruptFlag \/ item[r] = "running")
    BY <1>2 DEF CancelPrompt, InterruptIfRunning
  <2> QED
    BY <2>1, <2>2, <2>3, <2>4
<1>5. {s \in Requests : PromptOf[s] \in asked}'
      = {s \in Requests : PromptOf[s] \in asked} \cup {r}
  BY DEF CancelPrompt, OnePromptPerRequest
<1> QED
  BY <1>3, <1>4, <1>5 DEF Service!Withdraw

\* A step of a runner or of a stream tells at most its own request.
LEMMA RunStepTells ==
  ASSUME ServiceInv, NEW r \in Requests, RunStep(r)
  PROVE  /\ \A s \in Requests : s # r => ToldOf(s)' = ToldOf(s)
         /\ ToldOf(r)' = ToldOf(r) \/ (~Told(r) /\ Told(r)')
<1>t. TypeOK
  BY DEF ServiceInv, Inv
<1>1. /\ \A s \in Requests : s # r => run'[s] = run[s] /\ answer'[s] = answer[s]
      /\ handler' = handler
      /\ run[r] # "returned"
      /\ r \in Streamed /\ handler[r] = "closed" => Unwind(r)
  <2>1. \/ run' = run /\ answer' = answer
        \/ \E place \in {"compiling", "validating", "polling"} :
             run' = [run EXCEPT ![r] = place] /\ answer' = answer
        \/ \E how \in {"ok", "failed", "conflict", "raised", "cancelled"} : Return(r, how)
    BY DEF RunStep, Arrive, CompileFails, CancelledBeforeMaterialize, Materialize,
       MaterializeFails, ValidationFails, CancelledBeforeQueue, Submit, PollFindsHistory,
       ReturnHistory, PollFindsCancellation, PollTimesOut, Unwind
  <2>2. \A s \in Requests : s # r => run'[s] = run[s] /\ answer'[s] = answer[s]
    BY <1>t, <2>1 DEF TypeOK, Return
  <2>3. handler' = handler
    BY DEF RunStep, Arrive, CompileFails, CancelledBeforeMaterialize, Materialize,
       MaterializeFails, ValidationFails, CancelledBeforeQueue, Submit, PollFindsHistory,
       PollFindsCancellation, PollTimesOut, Unwind, streamVars
  <2>4. run[r] # "returned" /\ (run[r] \in {"idle", "unwinding"} => Unwind(r) \/ r \notin Streamed)
    BY DEF RunStep, Arrive, CompileFails, CancelledBeforeMaterialize, Materialize,
       MaterializeFails, ValidationFails, CancelledBeforeQueue, Submit, PollFindsHistory,
       PollFindsCancellation, PollTimesOut, Unwind
  <2>5. r \in Streamed /\ handler[r] = "closed" => run[r] \in {"idle", "unwinding", "returned"}
    BY DEF ServiceInv, Inv, TaskEndsWithHandler, Over
  <2> QED
    BY <2>2, <2>3, <2>4, <2>5
<1>2. \A s \in Requests : s # r => ToldOf(s)' = ToldOf(s)
  BY <1>1, OthersTold
<1>3. CASE ~Told(r)
  BY <1>2, <1>3 DEF ToldOf
<1>4. CASE Told(r)
  <2>1. Unwind(r) /\ r \in Streamed /\ Told(r)'
    BY <1>1, <1>4 DEF Told
  <2>2. answer[r] = "none" /\ answer'[r] = "cancelled"
    BY <1>t, <1>1, <2>1 DEF Unwind, Return, ServiceInv, Answers, TypeOK
  <2> QED
    BY <1>2, <1>4, <2>1, <2>2 DEF ToldOf
<1> QED
  BY <1>2, <1>3, <1>4

LEMMA StreamStepTells ==
  ASSUME ServiceInv, NEW r \in Streamed, StreamStep(r)
  PROVE  /\ \A s \in Requests : s # r => ToldOf(s)' = ToldOf(s)
         /\ ToldOf(r)' = ToldOf(r) \/ (~Told(r) /\ Told(r)')
<1>p. r \in Requests /\ TypeOK
  BY RequestsAssumption DEF ServiceInv, Inv
<1>1. \A s \in Requests : s # r => run'[s] = run[s] /\ answer'[s] = answer[s]
  <2>1. CASE WaitCancelled(r) \/ JoinCancelled(r)
    <3>1. StopRun(r)
      BY <2>1 DEF WaitCancelled, JoinCancelled
    <3> QED
      BY <1>p, <3>1, StopRunEffect DEF TypeOK
  <2>2. CASE StreamStart(r)
    BY <1>p, <2>2 DEF StreamStart, TypeOK
  <2>3. CASE ~(WaitCancelled(r) \/ JoinCancelled(r) \/ StreamStart(r))
    BY <2>3 DEF StreamStep, RefuseStart, StartRaises, ControlCancels, ControlEnds, HandlerWakes,
       HandlerAnswers, HandlerFails, runVars
  <2> QED
    BY <2>1, <2>2, <2>3
<1>2. \A s \in Streamed : s # r => handler'[s] = handler[s]
  BY <1>p DEF TypeOK, StreamStep, RefuseStart, StartRaises, StreamStart, ControlCancels,
     ControlEnds, HandlerWakes, HandlerAnswers, HandlerFails, WaitCancelled, JoinCancelled,
     CloseHandler
<1>3. handler[r] = "closed" => UNCHANGED <<run, answer, handler>>
  BY DEF StreamStep, RefuseStart, StartRaises, StreamStart, ControlCancels, ControlEnds,
     HandlerWakes, HandlerAnswers, HandlerFails, WaitCancelled, JoinCancelled, runVars
<1> QED
  BY <1>p, <1>1, <1>2, <1>3, OthersTold DEF ToldOf, Told

\* The step of the service that a step which does not put or take is.
LEMMA StepSimulates ==
  ASSUME ServiceInv, ServiceInv', OnePromptPerRequest, NEW r \in Requests,
         \/ UNCHANGED <<item, interruptFlag, asked>>
         \/ \E recorded : CancelPrompt(PromptOf[r], recorded),
         \A s \in Requests : s # r => ToldOf(s)' = ToldOf(s),
         ToldOf(r)' = ToldOf(r) \/ (~Told(r) /\ Told(r)')
  PROVE  Service!Cancel(r) \/ Service!Tell(r) \/ UNCHANGED Service!vars
<1>1. UNCHANGED [s \in Requests |-> ToldOf(s)] \/ Service!Tells(r)
  BY TellsSimulates
<1>2. CASE UNCHANGED <<item, interruptFlag, asked>>
  BY <1>1, <1>2, WorkStays DEF Service!Tell, Service!vars
<1>3. CASE \E recorded : CancelPrompt(PromptOf[r], recorded)
  BY <1>1, <1>3, CancelSimulates DEF Service!Cancel
<1> QED
  BY <1>2, <1>3

LEMMA SubmitSimulates ==
  ASSUME ServiceInv, ServiceInv', NEW r \in Requests, Submit(r)
  PROVE  Service!Put(r)
<1>t. TypeOK
  BY DEF ServiceInv, Inv
<1>1. /\ item[r] = "none" /\ history[PromptOf[r]] = "none"
      /\ ~Told(r)
  BY DEF Submit, ServiceInv, Inv, Unqueued, OwnHistory, PreQueue, Over, TaskEndsWithHandler, Told
<1>2. /\ item' = [item EXCEPT ![r] = "queued"] /\ run' = [run EXCEPT ![r] = "polling"]
      /\ UNCHANGED <<answer, handler, interruptFlag, asked>>
  BY <1>1 DEF Submit, streamVars, histVars
<1>3. [s \in Requests |-> WorkOf(s)]'
      = [[s \in Requests |-> WorkOf(s)] EXCEPT ![r] = "waiting"]
  BY <1>t, <1>2 DEF TypeOK, WorkOf
<1>4. \A s \in Requests : ToldOf(s)' = ToldOf(s)
  <2>1. \A s \in Requests : s # r => ToldOf(s)' = ToldOf(s)
    BY <1>t, <1>2, OthersTold DEF TypeOK
  <2>2. ~Told(r)'
    BY <1>t, <1>1, <1>2 DEF TypeOK, Told
  <2> QED
    BY <1>1, <2>1, <2>2 DEF ToldOf
<1>5. Running' = Running
  BY <1>t, <1>1, <1>2 DEF TypeOK, Running
<1>6. WorkOf(r) = "none" /\ ToldOf(r) = "nothing"
  BY <1>1 DEF WorkOf, ToldOf
<1> QED
  BY <1>2, <1>3, <1>4, <1>5, <1>6 DEF Service!Put

LEMMA WorkerSimulates ==
  ASSUME ServiceInv, ServiceInv', NEW r \in Requests, WorkerStep(r)
  PROVE  Service!Take(r) \/ Service!Finish(r)
<1>t. TypeOK
  BY DEF ServiceInv, Inv
<1>1. UNCHANGED <<run, answer, handler, asked>>
  BY DEF WorkerStep, WorkerTakes, WorkerFinishes, runVars, streamVars, histVars
<1>2. /\ [s \in Requests |-> ToldOf(s)]' = [s \in Requests |-> ToldOf(s)]
      /\ {s \in Requests : PromptOf[s] \in asked}' = {s \in Requests : PromptOf[s] \in asked}
      /\ Told(r)' <=> Told(r)
  BY <1>1 DEF ToldOf, Told
<1>3. CASE WorkerTakes(r)
  <2>1. /\ Running = {} /\ item[r] = "queued"
        /\ item' = [item EXCEPT ![r] = "running"] /\ interruptFlag' = FALSE
    BY <1>3 DEF WorkerTakes
  <2>2. ToldOf(r) = "nothing"
    <3>1. ~Told(r)'
      BY <1>t, <2>1, ToldSettled DEF TypeOK
    <3> QED
      BY <1>2, <3>1 DEF ToldOf
  <2>3. /\ WorkOf(r) = "waiting"
        /\ \A s \in Requests : WorkOf(s) # "running"
    BY <1>t, <2>1 DEF TypeOK, WorkOf, Running
  <2>4. [s \in Requests |-> WorkOf(s)]'
        = [[s \in Requests |-> WorkOf(s)] EXCEPT ![r] = "running"]
    BY <1>t, <2>1 DEF TypeOK, WorkOf
  <2>5. {s \in Running : interruptFlag}' = {s \in Running : interruptFlag}
    BY <2>1
  <2> QED
    BY <1>2, <2>2, <2>3, <2>4, <2>5 DEF Service!Take
<1>4. CASE WorkerFinishes(r)
  <2>1. /\ item[r] = "running" /\ item' = [item EXCEPT ![r] = "done"]
        /\ interruptFlag' = interruptFlag
    BY <1>4 DEF WorkerFinishes
  <2>2. WorkOf(r) = "running"
    BY <2>1 DEF WorkOf
  <2>3. [s \in Requests |-> WorkOf(s)]'
        = [[s \in Requests |-> WorkOf(s)] EXCEPT ![r] = "done"]
    BY <1>t, <2>1 DEF TypeOK, WorkOf
  <2>4. Running' = Running \ {r}
    BY <1>t, <2>1 DEF TypeOK, Running
  <2>5. {s \in Running : interruptFlag}' = {s \in Running : interruptFlag} \ {r}
    BY <2>1, <2>4
  <2> QED
    BY <1>2, <2>2, <2>3, <2>5 DEF Service!Finish
<1> QED
  BY <1>3, <1>4 DEF WorkerStep

\* An interrupt cancels the request of its prompt, if there is one.
LEMMA InterruptSimulates ==
  ASSUME ServiceInv, ServiceInv', OnePromptPerRequest, NEW p \in Prompts, Interrupt(p)
  PROVE  (\E r \in Requests : Service!Cancel(r)) \/ UNCHANGED Service!vars
<1>1. CancelPrompt(p, TRUE) /\ \A s \in Requests : ToldOf(s)' = ToldOf(s)
  BY DEF Interrupt, runVars, streamVars, ToldOf, Told
<1>2. ASSUME NEW r \in Requests, PromptOf[r] = p PROVE Service!Cancel(r)
  BY <1>1, <1>2, CancelSimulates DEF Service!Cancel
<1>3. CASE RequestsOf(p) = {}
  <2>1. QueuedOf(p) = {} /\ ~IsRunning(p)
    BY <1>3 DEF QueuedOf, IsRunning, Running, RequestsOf
  <2>2. /\ UNCHANGED <<item, interruptFlag>>
        /\ \A s \in Requests : PromptOf[s] \in asked' <=> PromptOf[s] \in asked
    BY <1>1, <1>3, <2>1 DEF CancelPrompt, DeleteQueueItem, InterruptIfRunning, RequestsOf,
       ServiceInv, Inv, TypeOK
  <2> QED
    BY <1>1, <2>2, WorkStays DEF Service!vars
<1> QED
  BY <1>2, <1>3 DEF RequestsOf

LEMMA RunStepSimulates ==
  ASSUME ServiceInv, ServiceInv', OnePromptPerRequest, NEW r \in Requests, RunStep(r)
  PROVE  Service!Next \/ UNCHANGED Service!vars
<1>1. CASE Submit(r)
  BY <1>1, SubmitSimulates DEF Service!Next
<1>2. CASE ~Submit(r)
  <2>1. \/ UNCHANGED <<item, interruptFlag, asked>>
        \/ \E recorded : CancelPrompt(PromptOf[r], recorded)
    BY <1>2 DEF RunStep, Arrive, CompileFails, CancelledBeforeMaterialize, Materialize,
       MaterializeFails, ValidationFails, CancelledBeforeQueue, PollFindsHistory,
       PollFindsCancellation, PollTimesOut, Unwind, queueVars, histVars
  <2> QED
    BY <2>1, RunStepTells, StepSimulates DEF Service!Next
<1> QED
  BY <1>1, <1>2

LEMMA StreamStepSimulates ==
  ASSUME ServiceInv, ServiceInv', OnePromptPerRequest, NEW r \in Streamed, StreamStep(r)
  PROVE  Service!Next \/ UNCHANGED Service!vars
<1>1. \/ UNCHANGED <<item, interruptFlag, asked>>
      \/ \E recorded : CancelPrompt(PromptOf[r], recorded)
  <2>1. CASE CancelStreamPrompt(r)
    BY <2>1 DEF CancelStreamPrompt
  <2>2. CASE ~CancelStreamPrompt(r)
    BY <2>2 DEF StreamStep, RefuseStart, StartRaises, StreamStart, ControlCancels, ControlEnds,
       HandlerWakes, HandlerAnswers, HandlerFails, WaitCancelled, JoinCancelled, queueVars,
       histVars
  <2> QED
    BY <2>1, <2>2
<1> QED
  BY <1>1, StreamStepTells, StepSimulates, RequestsAssumption DEF Service!Next

\* The runner, the stream handlers, the tombstones and the queue of a peer implement the
\* service: an end is told once, nothing begins after it, what still runs was told to stop,
\* and success, refusal and withdrawal are for what happened to that very request.
THEOREM PeerImplementsService ==
  ASSUME OnePromptPerRequest
  PROVE  Spec => ServiceImplemented
<1>1. Init => Service!Init
  BY RequestsAssumption DEF Init, Service!Init, WorkOf, ToldOf, Told, Running
<1>2. ServiceInv /\ ServiceInv' /\ [Next]_vars => [Service!Next]_(Service!vars)
  <2> SUFFICES ASSUME ServiceInv, ServiceInv', [Next]_vars
               PROVE  Service!Next \/ UNCHANGED Service!vars
    OBVIOUS
  <2>1. ASSUME NEW r \in Requests, RunStep(r) PROVE Service!Next \/ UNCHANGED Service!vars
    BY <2>1, RunStepSimulates
  <2>2. ASSUME NEW r \in Requests, WorkerStep(r) PROVE Service!Next
    BY <2>2, WorkerSimulates DEF Service!Next
  <2>3. ASSUME NEW r \in Streamed, StreamStep(r) PROVE Service!Next \/ UNCHANGED Service!vars
    BY <2>3, StreamStepSimulates
  <2>4. ASSUME NEW p \in Prompts, Interrupt(p) PROVE Service!Next \/ UNCHANGED Service!vars
    BY <2>4, InterruptSimulates DEF Service!Next
  <2>5. ASSUME UNCHANGED <<run, answer, handler, item, interruptFlag, asked>>
        PROVE  UNCHANGED Service!vars
    BY <2>5, WorkStays DEF Service!vars, ToldOf, Told
  <2>6. ASSUME NEW p \in Prompts, Expire(p) PROVE UNCHANGED Service!vars
    BY <2>5, <2>6 DEF Expire, runVars, streamVars, queueVars
  <2>7. CASE UNCHANGED vars
    BY <2>5, <2>7 DEF vars, runVars, streamVars, queueVars, histVars
  <2> QED
    BY <2>1, <2>2, <2>3, <2>4, <2>6, <2>7 DEF Next
<1> QED
  BY <1>1, <1>2, ServiceInvariance, PTL DEF Spec, ServiceImplemented, Service!Spec

-------------------------------------------------------------------------------
(* GroupRun: what each part of a step touches.                                *)

ThreadMoves == ThreadStep \/ ThreadInterrupted \/ CommandExits \/ PreparationCancelled
               \/ PreparationReturns
LeaseMoves  == LeaseGranted \/ LeaseFails \/ LeaseAbandoned
StreamMoves == SenderStep \/ StreamFails \/ Cancelled \/ JobSteps
PostMoves   == SendPost \/ PostAnswered \/ PostRaises \/ PreloadRaises \/ InterruptOver
NetMoves    == LinkBreaks \/ RequestLost
PeerMoves   == \/ PostArrives \/ InterruptArrives \/ PeerReads \/ PeerReadsControl
               \/ PeerResumes \/ PeerHandlerCancelled
               \/ (\E k \in Kinds : PeerRuns(k) \/ PeerWorks(k)) \/ NeighbourStep

LEMMA GroupSteps ==
  GroupNext => \/ ThreadMoves \/ LeaseMoves \/ StreamMoves \/ PostMoves \/ NetMoves \/ PeerMoves
BY DEF GroupNext, ThreadMoves, LeaseMoves, StreamMoves, PostMoves, NetMoves, PeerMoves

\* Our run's request is one of the peer's.
LEMMA OurRequest ==
  ASSUME kind \in Kinds
  PROVE  /\ kind \in Requests /\ kind \in {"streamed", "posted", "preload"}
         /\ kind \in Streamed <=> kind = "streamed"
         /\ OurPrompt \in Prompts
BY KindsAssumption, RequestsAssumption DEF OurPrompt

\* The sender, the lease and the network leave the peer alone.
LEMMA PeerLeftAlone ==
  ASSUME ThreadMoves \/ LeaseMoves \/ StreamMoves \/ PostMoves \/ NetMoves
  PROVE  UNCHANGED vars
<1>1. CASE ThreadMoves
  BY <1>1 DEF ThreadMoves, ThreadStep, ThreadGoesOn, CommandStarts, ThreadPolls,
     ThreadInterrupted, CommandExits, PreparationCancelled, PreparationReturns, theirs, peerVars
<1>2. CASE LeaseMoves
  BY <1>2 DEF LeaseMoves, LeaseGranted, LeaseFails, LeaseAbandoned, theirs, peerVars
<1>3. CASE StreamMoves
  <2>1. CASE SenderStep \/ StreamFails \/ Cancelled
    BY <2>1 DEF SenderStep, Connect, SendStart, ReadEnvelope, StreamEnds, StreamFails, Cancelled,
       theirs, peerVars
  <2>2. CASE JobSteps
    BY <2>2 DEF JobSteps, BodyReturns, HandlerReturns, JobStep, HookStarts, theirs, peerVars
  <2> QED
    BY <1>3, <2>1, <2>2 DEF StreamMoves
<1>4. CASE PostMoves \/ NetMoves
  BY <1>4 DEF PostMoves, NetMoves, SendPost, PostAnswered, PostRaises, PreloadRaises,
     InterruptOver, LinkBreaks, RequestLost, theirs, peerVars
<1> QED
  BY <1>1, <1>2, <1>3, <1>4

\* What the peer does it does by a step of its own, and the sender's side of the run
\* does not move with it.
LEMMA PeerMovesItself ==
  ASSUME kind \in Kinds, PeerMoves
  PROVE  /\ Next
         /\ UNCHANGED <<ends, jobVars, threadVars, socket>>
         /\ \/ interrupt' = interrupt
            \/ interrupt = "flying" /\ interrupt' = "delivered" /\ Interrupt(OurPrompt)
<1>k. /\ kind \in Requests /\ kind \in {"streamed", "posted", "preload"}
      /\ kind = "streamed" => "streamed" \in Streamed
      /\ OurPrompt \in Prompts
  BY OurRequest
<1>1. CASE PostArrives
  BY <1>1, <1>k DEF PostArrives, Next, RunStep
<1>2. CASE InterruptArrives
  BY <1>2, <1>k DEF InterruptArrives, Next
<1>3. CASE PeerReads \/ PeerReadsControl
  <2>1. \E r \in Streamed : StreamStep(r)
    BY <1>3, <1>k DEF PeerReads, PeerStarts, PeerRefuses, PeerReadsControl, StreamStep
  <2> QED
    BY <1>3, <2>1 DEF PeerReads, PeerStarts, PeerRefuses, PeerReadsControl, Next
<1>4. CASE PeerResumes \/ PeerHandlerCancelled
  <2>1. \E r \in Streamed : StreamStep(r)
    BY <1>4, <1>k DEF PeerResumes, PeerHandlerCancelled, StreamStep
  <2> QED
    BY <1>4, <2>1 DEF PeerResumes, PeerHandlerCancelled, Next, network
<1>5. ASSUME NEW k \in Kinds, PeerRuns(k) \/ PeerWorks(k) PROVE Next
  <2>1. k \in Requests /\ PromptOf[k] \in Prompts
    BY KindsAssumption, RequestsAssumption
  <2> QED
    BY <1>5, <2>1 DEF PeerRuns, PeerWorks, LeavesCompiling, LeavesValidating, RunStep, Next
<1>6. CASE \E k \in Kinds : PeerRuns(k) \/ PeerWorks(k)
  BY <1>5, <1>6 DEF PeerRuns, PeerWorks, network
<1>7. CASE NeighbourStep
  <2>1. Neighbours \subseteq Requests /\ \A r \in Neighbours : PromptOf[r] \in Prompts
    BY RequestsAssumption DEF Neighbours
  <2> QED
    BY <1>7, <2>1 DEF NeighbourStep, Next, network
<1> QED
  BY <1>1, <1>2, <1>3, <1>4, <1>6, <1>7 DEF PeerMoves

LEMMA DrivesPeer ==
  ASSUME kind \in Kinds, [GroupNext]_groupVars
  PROVE  [Next]_vars
<1>1. CASE UNCHANGED groupVars
  BY <1>1 DEF groupVars, theirs, peerVars
<1> QED
  BY <1>1, GroupSteps, PeerLeftAlone, PeerMovesItself

LEMMA KindStays ==
  ASSUME kind \in Kinds, [GroupNext]_groupVars
  PROVE  kind' = kind
<1>1. CASE ThreadMoves \/ LeaseMoves
  BY <1>1 DEF ThreadMoves, ThreadStep, ThreadGoesOn, CommandStarts, ThreadPolls,
     ThreadInterrupted, CommandExits, PreparationCancelled, PreparationReturns,
     LeaseMoves, LeaseGranted, LeaseFails, LeaseAbandoned, ends
<1>2. CASE StreamMoves
  BY <1>2 DEF StreamMoves, SenderStep, Connect, SendStart, ReadEnvelope, StreamEnds, StreamFails,
     HandleError, Cancelled, JobSteps, BodyReturns, HandlerReturns, JobStep, HookStarts, End, ends
<1>3. CASE PostMoves \/ NetMoves
  BY <1>3 DEF PostMoves, NetMoves, SendPost, PostAnswered, PostRaises, PreloadRaises,
     InterruptOver, LinkBreaks, RequestLost, End, ends
<1>4. CASE PeerMoves
  BY <1>4, PeerMovesItself DEF ends
<1>5. CASE UNCHANGED groupVars
  BY <1>5 DEF groupVars, ends
<1> QED
  BY <1>1, <1>2, <1>3, <1>4, <1>5, GroupSteps

\* The run, from both ends and beside any neighbours, is a behaviour of the peer: sender
\* and network reach it by its own steps only.  So what holds of the peer holds here.
THEOREM RunsOnPeer == GroupSpec => Spec
<1>1. GroupInit => Init /\ kind \in Kinds
  BY DEF GroupInit
<1>2. kind \in Kinds /\ [GroupNext]_groupVars => (kind \in Kinds)'
  BY KindStays
<1>3. kind \in Kinds /\ [GroupNext]_groupVars => [Next]_vars
  BY DrivesPeer
<1> QED
  BY <1>1, <1>2, <1>3, PTL DEF GroupSpec, Spec
-------------------------------------------------------------------------------
(* The peer's side of a run.                                                  *)

\* The history behind an "ok" is a success, and stays: the one item of that prompt is done.
OkIsHistory == \A r \in Requests : answer[r] = "ok" => history[PromptOf[r]] = "success"

PeerInv == Inv /\ Answers /\ OkIsHistory

LEMMA OnlyHistorySaysOk ==
  ASSUME TypeOK, [Next]_vars, NEW r \in Requests, answer'[r] = "ok"
  PROVE  answer[r] = "ok" \/ history[PromptOf[r]] = "success"
<1>1. ASSUME NEW s \in Requests, RunStep(s) PROVE answer[r] = "ok" \/ history[PromptOf[r]] = "success"
  <2>1. \/ answer' = answer \/ ReturnHistory(s)
        \/ \E how \in {"failed", "conflict", "raised", "cancelled"} : Return(s, how)
    BY <1>1 DEF RunStep, Arrive, CompileFails, CancelledBeforeMaterialize, Materialize,
       MaterializeFails, ValidationFails, CancelledBeforeQueue, Submit, PollFindsHistory,
       PollFindsCancellation, PollTimesOut, Unwind
  <2> QED
    BY <2>1 DEF TypeOK, ReturnHistory, Return
<1>2. ASSUME NEW s \in Streamed, StreamStep(s) PROVE answer[r] = "ok"
  <2>1. s \in Requests
    BY RequestsAssumption
  <2>2. answer' = answer \/ StopRun(s)
    BY <1>2 DEF StreamStep, RefuseStart, StartRaises, StreamStart, ControlCancels, ControlEnds,
       HandlerWakes, HandlerAnswers, HandlerFails, WaitCancelled, JoinCancelled, runVars
  <2> QED
    BY <2>1, <2>2, StopRunEffect DEF TypeOK
<1>3. ASSUME NEW s \in Requests, WorkerStep(s) PROVE answer' = answer
  BY <1>3 DEF WorkerStep, WorkerTakes, WorkerFinishes, runVars
<1>4. ASSUME NEW p \in Prompts, Interrupt(p) \/ Expire(p) PROVE answer' = answer
  BY <1>4 DEF Interrupt, Expire, runVars
<1>5. CASE UNCHANGED vars
  BY <1>5 DEF vars, runVars
<1> QED
  BY <1>1, <1>2, <1>3, <1>4, <1>5 DEF Next

LEMMA OnlyWorkerWritesHistory ==
  ASSUME [Next]_vars
  PROVE  history' = history \/ \E r \in Requests : WorkerFinishes(r)
<1>1. ASSUME NEW s \in Requests, RunStep(s) PROVE history' = history
  BY <1>1 DEF RunStep, Arrive, CompileFails, CancelledBeforeMaterialize, Materialize,
     MaterializeFails, ValidationFails, CancelledBeforeQueue, Submit, PollFindsHistory,
     PollFindsCancellation, PollTimesOut, Unwind, CancelPrompt, queueVars
<1>2. ASSUME NEW s \in Streamed, StreamStep(s) PROVE history' = history
  BY <1>2 DEF StreamStep, RefuseStart, StartRaises, StreamStart, ControlCancels, ControlEnds,
     HandlerWakes, HandlerAnswers, HandlerFails, WaitCancelled, JoinCancelled,
     CancelStreamPrompt, CancelPrompt, queueVars
<1>3. ASSUME NEW s \in Requests, WorkerStep(s) PROVE history' = history \/ WorkerFinishes(s)
  BY <1>3 DEF WorkerStep, WorkerTakes
<1>4. ASSUME NEW p \in Prompts, Interrupt(p) \/ Expire(p) PROVE history' = history
  BY <1>4 DEF Interrupt, Expire, CancelPrompt, queueVars
<1>5. CASE UNCHANGED vars
  BY <1>5 DEF vars, queueVars
<1> QED
  BY <1>1, <1>2, <1>3, <1>4, <1>5 DEF Next

LEMMA PeerInvStep ==
  ASSUME OnePromptPerRequest, PeerInv, [Next]_vars
  PROVE  PeerInv'
<1>1. Inv' /\ Answers'
  BY InvStep, AnswersStep DEF PeerInv
<1>2. ASSUME NEW r \in Requests, answer'[r] = "ok" PROVE history'[PromptOf[r]] = "success"
  <2>1. history[PromptOf[r]] = "success"
    BY <1>2, OnlyHistorySaysOk DEF PeerInv, Inv, OkIsHistory
  <2>2. ASSUME NEW s \in Requests, WorkerFinishes(s) PROVE PromptOf[s] # PromptOf[r]
    <3>1. item[r] = "done" /\ item[s] = "running"
      BY <2>1, <2>2 DEF PeerInv, Inv, OwnHistory, WorkerFinishes
    <3> QED
      BY <3>1 DEF OnePromptPerRequest
  <2>3. history'[PromptOf[r]] = history[PromptOf[r]]
    BY <2>2, OnlyWorkerWritesHistory, RequestsAssumption DEF WorkerFinishes, PeerInv, Inv, TypeOK
  <2> QED
    BY <2>1, <2>3
<1> QED
  BY <1>1, <1>2 DEF PeerInv, OkIsHistory

\* The answer of a request that was told "ok" is final.
LEMMA OkStays ==
  ASSUME PeerInv, [Next]_vars, NEW r \in Requests, answer[r] = "ok"
  PROVE  answer'[r] = "ok"
<1>1. run[r] = "returned" /\ TypeOK
  BY DEF PeerInv, Answers, Inv
<1>2. ASSUME NEW s \in Requests, RunStep(s) PROVE answer'[r] = "ok"
  <2>1. run[s] # "returned"
    BY <1>2 DEF RunStep, Arrive, CompileFails, CancelledBeforeMaterialize, Materialize,
       MaterializeFails, ValidationFails, CancelledBeforeQueue, Submit, PollFindsHistory,
       PollFindsCancellation, PollTimesOut, Unwind
  <2>2. answer' = answer \/ \E how : Return(s, how)
    BY <1>2 DEF RunStep, Arrive, CompileFails, CancelledBeforeMaterialize, Materialize,
       MaterializeFails, ValidationFails, CancelledBeforeQueue, Submit, PollFindsHistory,
       ReturnHistory, PollFindsCancellation, PollTimesOut, Unwind
  <2> QED
    BY <1>1, <2>1, <2>2 DEF TypeOK, Return
<1>3. ASSUME NEW s \in Streamed, StreamStep(s) PROVE answer'[r] = "ok"
  <2>1. s \in Requests
    BY RequestsAssumption
  <2>2. answer' = answer \/ StopRun(s)
    BY <1>3 DEF StreamStep, RefuseStart, StartRaises, StreamStart, ControlCancels, ControlEnds,
       HandlerWakes, HandlerAnswers, HandlerFails, WaitCancelled, JoinCancelled, runVars
  <2> QED
    BY <1>1, <2>1, <2>2, StopRunEffect DEF TypeOK
<1>4. ASSUME NEW s \in Requests, WorkerStep(s) PROVE answer' = answer
  BY <1>4 DEF WorkerStep, WorkerTakes, WorkerFinishes, runVars
<1>5. ASSUME NEW p \in Prompts, Interrupt(p) \/ Expire(p) PROVE answer' = answer
  BY <1>5 DEF Interrupt, Expire, runVars
<1>6. CASE UNCHANGED vars
  BY <1>6 DEF vars, runVars
<1> QED
  BY <1>2, <1>3, <1>4, <1>5, <1>6 DEF Next

\* A request whose cancellation was heeded: on record before its put, or past the put with
\* nothing queued and nothing running unheard.
HeededBy(r) ==
  \/ r \in doomed \cup dropped
  \/ /\ run[r] \notin PreQueue
     /\ item[r] # "queued"
     /\ item[r] = "running" => interruptFlag

\* What any step of the peer does to the queue: a put, a take, a finish, or a cancel.
LEMMA QueueStep ==
  ASSUME [Next]_vars
  PROVE  \/ UNCHANGED <<item, interruptFlag>>
         \/ \E r \in Requests : \/ run[r] = "validating" /\ item' = [item EXCEPT ![r] = "queued"]
                                   /\ interruptFlag' = interruptFlag
                                \/ WorkerStep(r)
         \/ \E p \in Prompts, recorded \in BOOLEAN : CancelPrompt(p, recorded)
<1> DEFINE Cancels == \E p \in Prompts, recorded \in BOOLEAN : CancelPrompt(p, recorded)
<1>1. ASSUME NEW r \in Requests PROVE CancelStreamPrompt(r) => Cancels
  <2>1. PromptOf[r] \in Prompts /\ (recordedAt[PromptOf[r]] # 0) \in BOOLEAN
    BY RequestsAssumption
  <2> QED
    BY <2>1 DEF CancelStreamPrompt
<1>2. ASSUME NEW r \in Requests, RunStep(r)
      PROVE  \/ UNCHANGED <<item, interruptFlag>> \/ Cancels
             \/ run[r] = "validating" /\ item' = [item EXCEPT ![r] = "queued"]
                /\ interruptFlag' = interruptFlag
  <2>1. PromptOf[r] \in Prompts /\ (recordedAt[PromptOf[r]] # 0) \in BOOLEAN
    BY RequestsAssumption
  <2>2. CASE Submit(r)
    BY <2>2 DEF Submit
  <2>3. CASE PollFindsCancellation(r) \/ PollTimesOut(r)
    BY <2>1, <2>3 DEF PollFindsCancellation, PollTimesOut
  <2> QED
    BY <1>2, <2>2, <2>3 DEF RunStep, Arrive, CompileFails, CancelledBeforeMaterialize, Materialize,
       MaterializeFails, ValidationFails, CancelledBeforeQueue, PollFindsHistory, Unwind, queueVars
<1>3. ASSUME NEW r \in Streamed, StreamStep(r)
      PROVE  UNCHANGED <<item, interruptFlag>> \/ Cancels
  <2>1. CancelStreamPrompt(r) => Cancels
    BY <1>1, RequestsAssumption
  <2> QED
    BY <1>3, <2>1 DEF StreamStep, RefuseStart, StartRaises, StreamStart, ControlCancels,
       ControlEnds, HandlerWakes, HandlerAnswers, HandlerFails, WaitCancelled, JoinCancelled, queueVars
<1>4. ASSUME NEW p \in Prompts, Interrupt(p) \/ Expire(p)
      PROVE  UNCHANGED <<item, interruptFlag>> \/ Cancels
  BY <1>4 DEF Interrupt, Expire, queueVars
<1>5. CASE UNCHANGED vars
  BY <1>5 DEF vars, queueVars
<1> QED
  BY <1>2, <1>3, <1>4, <1>5 DEF Next

\* A run past its put stays past it.
LEMMA PastPutStays ==
  ASSUME Inv, [Next]_vars, NEW r \in Requests, run[r] \notin PreQueue
  PROVE  run'[r] \notin PreQueue
<1>t. TypeOK
  BY DEF Inv
<1>1. ASSUME NEW s \in Requests, RunStep(s) PROVE run'[r] \notin PreQueue
  <2>1. \/ run' = run
        \/ \E how : Return(s, how)
        \/ run[s] \in PreQueue /\ \E place : run' = [run EXCEPT ![s] = place]
    BY <1>1 DEF RunStep, Arrive, CompileFails, CancelledBeforeMaterialize, Materialize,
       MaterializeFails, ValidationFails, CancelledBeforeQueue, Submit, PollFindsHistory,
       ReturnHistory, PollFindsCancellation, PollTimesOut, Unwind, PreQueue
  <2> QED
    BY <1>t, <2>1 DEF TypeOK, Return, PreQueue
<1>2. ASSUME NEW s \in Streamed, StreamStep(s) PROVE run'[r] \notin PreQueue
  <2>1. s \in Requests
    BY RequestsAssumption
  <2>2. CASE StreamStart(s)
    BY <1>t, <2>1, <2>2 DEF StreamStart, Inv, IdleHandler, TypeOK, PreQueue
  <2>3. CASE ~StreamStart(s)
    <3>1. run' = run \/ StopRun(s)
      BY <1>2, <2>3 DEF StreamStep, RefuseStart, StartRaises, ControlCancels, ControlEnds,
         HandlerWakes, HandlerAnswers, HandlerFails, WaitCancelled, JoinCancelled, runVars
    <3> QED
      BY <1>t, <2>1, <3>1, StopRunEffect DEF TypeOK, PreQueue
  <2> QED
    BY <2>2, <2>3
<1>3. ASSUME NEW s \in Requests, WorkerStep(s) PROVE run' = run
  BY <1>3 DEF WorkerStep, WorkerTakes, WorkerFinishes, runVars
<1>4. ASSUME NEW p \in Prompts, Interrupt(p) \/ Expire(p) PROVE run' = run
  BY <1>4 DEF Interrupt, Expire, runVars
<1>5. CASE UNCHANGED vars
  BY <1>5 DEF vars, runVars
<1> QED
  BY <1>1, <1>2, <1>3, <1>4, <1>5 DEF Next

\* What was on record and is not any more was given up by the table.
LEMMA DoomStays ==
  ASSUME TypeOK, [Next]_vars, NEW r \in doomed \cup dropped
  PROVE  r \in doomed' \cup dropped'
<1>1. ASSUME NEW s \in Requests, RunStep(s) \/ WorkerStep(s) PROVE UNCHANGED <<doomed, dropped>>
  BY <1>1 DEF WorkerStep, WorkerTakes, WorkerFinishes, RunStep, Arrive, CompileFails,
     CancelledBeforeMaterialize, Materialize, MaterializeFails, ValidationFails,
     CancelledBeforeQueue, Submit, PollFindsHistory, PollFindsCancellation, PollTimesOut, Unwind,
     histVars
<1>2. ASSUME NEW s \in Streamed, StreamStep(s) PROVE UNCHANGED <<doomed, dropped>>
  BY <1>2 DEF StreamStep, RefuseStart, StartRaises, StreamStart, ControlCancels, ControlEnds,
     HandlerWakes, HandlerAnswers, HandlerFails, WaitCancelled, JoinCancelled, histVars
<1>3. ASSUME NEW p \in Prompts, Interrupt(p) PROVE r \in doomed' \cup dropped'
  BY <1>3 DEF Interrupt, RecordCancellation
<1>4. ASSUME NEW p \in Prompts, Expire(p) PROVE r \in doomed' \cup dropped'
  BY <1>4 DEF Expire
<1>5. CASE UNCHANGED vars
  BY <1>5 DEF vars, histVars
<1> QED
  BY <1>1, <1>2, <1>3, <1>4, <1>5 DEF Next

LEMMA HeededStays ==
  ASSUME OnePromptPerRequest, Inv, [Next]_vars, NEW r \in Requests, HeededBy(r)
  PROVE  HeededBy(r)'
<1>t. TypeOK
  BY DEF Inv
<1>1. CASE r \in doomed \cup dropped
  BY <1>1, <1>t, DoomStays DEF HeededBy
<1>2. CASE run[r] \notin PreQueue /\ item[r] # "queued" /\ (item[r] = "running" => interruptFlag)
  <2>1. run'[r] \notin PreQueue
    BY <1>2, PastPutStays
  <2>2. CASE UNCHANGED <<item, interruptFlag>>
    BY <1>2, <2>1, <2>2 DEF HeededBy
  <2>3. ASSUME NEW s \in Requests, run[s] = "validating", item' = [item EXCEPT ![s] = "queued"],
               interruptFlag' = interruptFlag
        PROVE  HeededBy(r)'
    BY <1>2, <1>t, <2>1, <2>3 DEF HeededBy, TypeOK, PreQueue
  <2>4. ASSUME NEW s \in Requests, WorkerStep(s) PROVE HeededBy(r)'
    BY <1>2, <1>t, <2>1, <2>4 DEF HeededBy, TypeOK, WorkerStep, WorkerTakes, WorkerFinishes, Running
  <2>5. ASSUME NEW p \in Prompts, NEW recorded \in BOOLEAN, CancelPrompt(p, recorded)
        PROVE  HeededBy(r)'
    BY <1>2, <1>t, <2>1, <2>5, CancelPromptEffect DEF HeededBy
  <2> QED
    BY <2>2, <2>3, <2>4, <2>5, QueueStep
<1> QED
  BY <1>1, <1>2 DEF HeededBy

\* An interrupt that arrives is heeded, wherever its request is.
LEMMA InterruptIsHeeded ==
  ASSUME OnePromptPerRequest, Inv, NEW r \in Requests, Interrupt(PromptOf[r])
  PROVE  HeededBy(r)'
<1>t. TypeOK /\ PromptOf[r] \in Prompts
  BY RequestsAssumption DEF Inv
<1>1. CASE run[r] \in PreQueue
  BY <1>1 DEF Interrupt, RecordCancellation, RequestsOf, HeededBy
<1>2. CASE run[r] \notin PreQueue
  BY <1>2, <1>t, CancelPromptEffect DEF Interrupt, HeededBy, runVars
<1> QED
  BY <1>1, <1>2
-------------------------------------------------------------------------------
(* The job of a run.                                                          *)

\* The sender's other steps, the network and the peer leave the job alone.
LEMMA JobLeftAlone ==
  ASSUME kind \in Kinds,
         ThreadMoves \/ LeaseMoves \/ PostMoves \/ NetMoves \/ PeerMoves \/ UNCHANGED groupVars
  PROVE  UNCHANGED jobVars
<1>1. CASE ThreadMoves \/ LeaseMoves
  BY <1>1 DEF ThreadMoves, ThreadStep, ThreadGoesOn, CommandStarts, ThreadPolls,
     ThreadInterrupted, CommandExits, PreparationCancelled, PreparationReturns,
     LeaseMoves, LeaseGranted, LeaseFails, LeaseAbandoned, theirs
<1>2. CASE PostMoves \/ NetMoves
  BY <1>2 DEF PostMoves, NetMoves, SendPost, PostAnswered, PostRaises, PreloadRaises,
     InterruptOver, LinkBreaks, RequestLost, theirs
<1>3. CASE PeerMoves
  BY <1>3, PeerMovesItself
<1>4. CASE UNCHANGED groupVars
  BY <1>4 DEF groupVars, theirs
<1> QED
  BY <1>1, <1>2, <1>3, <1>4

\* Which of the job's methods a step of the stream runs.
LEMMA StreamJobStep ==
  ASSUME StreamMoves
  PROVE  \/ UNCHANGED jobVars
         \/ \E t \in CallSites :
              \/ Job!CallFinish(t) \/ Job!CallCancel(t)
              \/ Job!CallbackStarts(t) \/ Job!CallbackEnds(t) \/ Job!NextPhase(t)
              \/ Job!EnterCleanup(t) \/ Job!FindCleaned(t) \/ Job!LeaveCleanup(t)
<1>1. "body" \in CallSites /\ "handler" \in CallSites
  BY DEF CallSites
<1>2. CASE SenderStep \/ StreamFails \/ Cancelled \/ BodyReturns \/ HandlerReturns
  BY <1>1, <1>2 DEF SenderStep, Connect, SendStart, ReadEnvelope, StreamEnds, StreamFails,
     Cancelled, BodyReturns, HandlerReturns, HandleError, theirs
<1>3. CASE \E t \in CallSites : JobStep(t)
  BY <1>3 DEF JobStep, HookStarts
<1> QED
  BY <1>2, <1>3 DEF StreamMoves, JobSteps

\* The job of a run goes on by its own methods only, each of them in one of the two call
\* sites: from the state in which _run_streamed has registered its callbacks, a run is a
\* behaviour of RemoteJob.
THEOREM RunsItsJob == GroupSpec => [][Job!Next]_(Job!vars)
<1>1. kind \in Kinds /\ [GroupNext]_groupVars => [Job!Next]_(Job!vars)
  <2> SUFFICES ASSUME kind \in Kinds, [GroupNext]_groupVars PROVE [Job!Next]_(Job!vars)
    OBVIOUS
  <2>1. CASE UNCHANGED jobVars
    BY <2>1 DEF jobVars, Job!vars, Job!jobVars, Job!taskVars
  <2>2. CASE StreamMoves
    BY <2>1, <2>2, StreamJobStep DEF Job!Next, Job!Works
  <2> QED
    BY <2>1, <2>2, GroupSteps, JobLeftAlone
<1>2. kind \in Kinds /\ [GroupNext]_groupVars => (kind \in Kinds)'
  BY KindStays
<1>3. GroupInit => kind \in Kinds
  BY DEF GroupInit
<1> QED
  BY <1>1, <1>2, <1>3, PTL DEF GroupSpec

\* A cancellation's step to its next phase.
LEMMA PhaseStep ==
  ASSUME NEW t \in CallSites, Job!NextPhase(t)
  PROVE  /\ todo[t] = {} /\ awaiting[t] = {}
         /\ \/ /\ at[t] = "abort" /\ at' = [at EXCEPT ![t] = "terminate"]
               /\ todo' = [todo EXCEPT ![t] = Job!Registered("terminate")]
            \/ /\ at[t] = "terminate" /\ at' = [at EXCEPT ![t] = "peer_interrupt"]
               /\ todo' = [todo EXCEPT ![t] = Job!Registered("peer_interrupt")]
            \/ /\ at[t] = "peer_interrupt" /\ at' = [at EXCEPT ![t] = "lock"]
               /\ todo' = todo
         /\ UNCHANGED <<state, event, cleaned, cleanupError, lock, registered, op, awaiting,
                        failed, outcome, attempts>>
<1>1. /\ Job!CancelPhases[1] = "abort"
      /\ Job!CancelPhases[2] = "terminate"
      /\ Job!CancelPhases[3] = "peer_interrupt"
  BY DEF Job!CancelPhases
<1>2. \A i \in 1..2 : i = 1 \/ i = 2
  OBVIOUS
<1>3. 1 + 1 = 2 /\ 2 + 1 = 3
  OBVIOUS
<1> QED
  BY <1>1, <1>2, <1>3 DEF Job!NextPhase, Job!PhaseOver, Job!jobVars

LEMMA JobTypeStep ==
  ASSUME kind \in Kinds, Job!TypeOK, [GroupNext]_groupVars
  PROVE  Job!TypeOK'
<1>1. CASE UNCHANGED jobVars
  BY <1>1 DEF jobVars, Job!TypeOK
<1>2. ASSUME NEW t \in CallSites, Job!CallFinish(t) PROVE Job!TypeOK'
  BY <1>2 DEF Job!TypeOK, Job!CallFinish, Job!Call, Job!Places, Job!Phases, Job!Terminal
<1>3. ASSUME NEW t \in CallSites, Job!CallCancel(t) PROVE Job!TypeOK'
  <2>1. Job!CancelPhases[1] = "abort"
    BY DEF Job!CancelPhases
  <2> QED
    BY <1>3, <2>1 DEF Job!TypeOK, Job!CallCancel, Job!Call, Job!Registered, Job!Places,
       Job!Phases, Job!Terminal
<1>4. ASSUME NEW t \in CallSites, Job!CallbackStarts(t) PROVE Job!TypeOK'
  BY <1>4 DEF Job!TypeOK, Job!CallbackStarts, Job!jobVars
<1>5. ASSUME NEW t \in CallSites, Job!CallbackEnds(t) PROVE Job!TypeOK'
  BY <1>5 DEF Job!TypeOK, Job!CallbackEnds
<1>6. ASSUME NEW t \in CallSites, Job!NextPhase(t) PROVE Job!TypeOK'
  BY <1>6, PhaseStep DEF Job!TypeOK, Job!Registered, Job!Places, Job!Phases
<1>7. ASSUME NEW t \in CallSites, Job!EnterCleanup(t) PROVE Job!TypeOK'
  BY <1>7 DEF Job!TypeOK, Job!EnterCleanup, Job!Registered, Job!Places, Job!Phases
<1>8. ASSUME NEW t \in CallSites, Job!FindCleaned(t) PROVE Job!TypeOK'
  BY <1>8 DEF Job!TypeOK, Job!FindCleaned, Job!Finish, Job!Report, Job!Places, Job!Phases, Job!jobVars
<1>9. ASSUME NEW t \in CallSites, Job!LeaveCleanup(t) PROVE Job!TypeOK'
  BY <1>9 DEF Job!TypeOK, Job!LeaveCleanup, Job!Finish, Job!Report, Job!Places, Job!Phases
<1> QED
  BY <1>1, <1>2, <1>3, <1>4, <1>5, <1>6, <1>7, <1>8, <1>9, GroupSteps, JobLeftAlone, StreamJobStep

\* The messages of the stream in the order they were sent.
Sent == {"start", "cancel", "close"}

LEMMA WireType ==
  ASSUME NEW w \in Seq(Sent)
  PROVE  /\ Append(w, "start") \in Seq(Sent)
         /\ w # <<>> => Tail(w) \in Seq(Sent)
         /\ w \o <<"close">> \in Seq(Sent)
         /\ w \o <<"cancel", "close">> \in Seq(Sent)
BY ConcatProperties DEF Sent

LEMMA GroupTypeStep ==
  ASSUME TypeOK', GroupTypeOK, [GroupNext]_groupVars
  PROVE  GroupTypeOK'
<1>k. kind \in Kinds /\ kind' = kind
  BY KindStays DEF GroupTypeOK
<1>j. Job!TypeOK'
  BY JobTypeStep DEF GroupTypeOK
<1>1. CASE ThreadMoves
  BY <1>1, <1>k, <1>j DEF GroupTypeOK, ThreadMoves, ThreadStep, ThreadGoesOn, CommandStarts,
     ThreadPolls, ThreadInterrupted, CommandExits, PreparationCancelled, PreparationReturns,
     network, ends, theirs, threadVars
<1>2. CASE LeaseMoves
  BY <1>2, <1>k, <1>j DEF GroupTypeOK, LeaseMoves, LeaseGranted, LeaseFails, LeaseAbandoned,
     network, theirs, threadVars
<1>3. CASE StreamMoves
  <2>1. CASE Connect \/ SendStart \/ ReadEnvelope
    BY <2>1, <1>k, <1>j, WireType DEF GroupTypeOK, Connect, SendStart, ReadEnvelope, theirs,
       threadVars, Sent
  <2>2. CASE StreamEnds \/ StreamFails \/ Cancelled \/ BodyReturns \/ HandlerReturns
    BY <2>2, <1>k, <1>j DEF GroupTypeOK, StreamEnds, StreamFails, Cancelled, BodyReturns,
       HandlerReturns, HandleError, End, network, theirs, threadVars
  <2>3. ASSUME NEW t \in CallSites, HookStarts(t) PROVE GroupTypeOK'
    <3>1. wire' \in {wire, wire \o <<"close">>, wire \o <<"cancel", "close">>}
      BY <2>3 DEF HookStarts
    <3>2. wire' \in Seq(Sent)
      BY <3>1, WireType DEF GroupTypeOK, Sent
    <3>3. interrupt' \in {interrupt, "flying"} /\ socket' \in {socket, "closed"}
      BY <2>3 DEF HookStarts
    <3> QED
      BY <2>3, <1>k, <1>j, <3>2, <3>3 DEF GroupTypeOK, HookStarts, ends, threadVars, Sent
  <2>4. CASE UNCHANGED <<ends, network, peerVars, threadVars>>
    BY <2>4, <1>k, <1>j DEF GroupTypeOK, ends, network, threadVars
  <2> QED
    BY <1>3, <2>1, <2>2, <2>3, <2>4 DEF StreamMoves, SenderStep, JobSteps, JobStep
<1>4. CASE PostMoves \/ NetMoves
  <2>1. <<>> \in Seq(Sent)
    OBVIOUS
  <2> QED
    BY <1>4, <1>k, <1>j, <2>1 DEF GroupTypeOK, PostMoves, SendPost, PostAnswered, PostRaises,
       PreloadRaises, InterruptOver, NetMoves, LinkBreaks, RequestLost, End, ends, network,
       theirs, threadVars, Sent
<1>5. CASE PeerMoves
  <2>1. UNCHANGED <<ends, threadVars, socket>> /\ interrupt' \in {interrupt, "delivered"}
    BY <1>5, <1>k, PeerMovesItself
  <2>2. envelope' \in {envelope, "none", "result", "error"} /\ post' \in {post, "arrived"}
    BY <1>5 DEF PeerMoves, PostArrives, InterruptArrives, PeerReads, PeerStarts, PeerRefuses,
       PeerReadsControl, PeerResumes, PeerHandlerCancelled, PeerRuns, PeerWorks, NeighbourStep,
       Sends, network
  <2>3. wire' = wire \/ (wire # <<>> /\ wire' = Tail(wire))
    BY <1>5 DEF PeerMoves, PostArrives, InterruptArrives, PeerReads, PeerStarts, PeerRefuses,
       PeerReadsControl, PeerResumes, PeerHandlerCancelled, PeerRuns, PeerWorks, NeighbourStep,
       Reads, Lost, network
  <2>4. wire' \in Seq(Sent)
    BY <2>3, WireType DEF GroupTypeOK, Sent
  <2> QED
    BY <1>k, <1>j, <2>1, <2>2, <2>4 DEF GroupTypeOK, ends, threadVars, Sent
<1>6. CASE UNCHANGED groupVars
  BY <1>6, <1>k, <1>j DEF GroupTypeOK, groupVars, ends, network, theirs, threadVars
<1> QED
  BY <1>1, <1>2, <1>3, <1>4, <1>5, <1>6, GroupSteps

\* Every variable of a run, of its job and of the peer keeps its type.
THEOREM GroupTypeCorrect == GroupSpec => []GroupTypeOK
<1>1. GroupInit => GroupTypeOK
  <2> SUFFICES ASSUME GroupInit PROVE GroupTypeOK
    OBVIOUS
  <2>1. TypeOK /\ kind \in {"streamed", "posted", "preload"}
    BY InitType, OurRequest DEF GroupInit
  <2>2. Job!TypeOK
    BY DEF GroupInit, Job!TypeOK, Job!Places, CallSites
  <2>3. <<>> \in Seq(Sent)
    OBVIOUS
  <2> QED
    BY <2>1, <2>2, <2>3 DEF GroupInit, GroupTypeOK, Sent
<1>2. GroupTypeOK /\ TypeOK' /\ [GroupNext]_groupVars => GroupTypeOK'
  BY GroupTypeStep
<1> QED
  BY <1>1, <1>2, RunsOnPeer, TypeCorrect, PTL DEF GroupSpec
-------------------------------------------------------------------------------
(* The inductive invariant of a run.                                          *)

\* One of the two call sites calls the job, and once: the state is that call's.
OneCall ==
  /\ at["body"] = "idle" /\ at["handler"] = "idle" => state = "running"
  /\ at["body"] # "idle" =>
       /\ at["handler"] = "idle" /\ at["body"] \in {"lock", "cleanup", "done"}
       /\ \/ op["body"] = "succeed" /\ state = "succeeded"
          \/ op["body"] = "fail" /\ state = "failed"
  /\ at["handler"] # "idle" =>
       \/ op["handler"] = "cancel" /\ state = "cancelled"
       \/ /\ op["handler"] = "fail" /\ state = "failed"
          /\ at["handler"] \in {"lock", "cleanup", "done"}

\* The cleanup belongs to that call, and what it reports to the callbacks it ran.
OneCleanup ==
  /\ registered = DOMAIN PhaseOfHook
  /\ cleaned <=> \E t \in CallSites : at[t] \in {"cleanup", "done"}
  /\ \A t \in CallSites :
       /\ lock = t <=> at[t] = "cleanup"
       /\ at[t] \in {"idle", "lock", "done"} => todo[t] = {} /\ awaiting[t] = {}
       /\ at[t] = "idle" => op[t] = "none"
       /\ outcome[t] = "ok" => at[t] = "done" /\ ~cleanupError

JobInv == Job!TypeOK /\ OneCall /\ OneCleanup

\* Where the sender can be: it calls the job from within its try, is over when the call
\* is, and outlives the wait for its lease only if it is over.
Places ==
  /\ kind = "posted" => client \in {"leasing", "requesting", "interrupting", "over"}
  /\ kind = "preload" => client \in {"preparing", "leasing", "requesting", "over"}
  /\ kind = "streamed" =>
       client \in {"leasing", "connecting", "starting", "streaming", "calling", "over"}
  /\ client = "calling" => \E t \in CallSites : at[t] # "idle"
  /\ client = "over" => \A t \in CallSites : at[t] \in {"idle", "done"}
  /\ client \notin {"calling", "over"} \/ kind # "streamed" => \A t \in CallSites : at[t] = "idle"
  /\ lease = "acquiring" => client = "leasing" \/ (client = "over" /\ kind # "posted")

\* How a streamed run goes on: it opens the stream, reads the peer's answer, takes one of
\* its except clauses, runs its job, or is over.
Opens == Connect \/ SendStart
Excepts ==
  /\ client \in {"connecting", "starting", "streaming"} /\ client' = "calling"
  /\ \/ Job!CallFinish("handler") /\ op'["handler"] = "fail"
     \/ Job!CallCancel("handler")
  /\ UNCHANGED <<kind, result, lease, network, peerVars, threadVars>>
Returns ==
  /\ client = "calling"
  /\ \/ /\ at["body"] = "done"
        /\ \/ End("outputs") /\ op["body"] = "succeed" /\ outcome["body"] = "ok"
           \/ End("error")
     \/ at["handler"] = "done" /\ End("error")
  /\ UNCHANGED <<network, theirs>>

\* A call that is in progress takes a step: it is neither ahead of its start nor over.
LEMMA JobStepAt ==
  ASSUME JobInv, NEW t \in CallSites, JobStep(t)
  PROVE  at[t] \notin {"idle", "done"}
<1>1. CASE Job!NextPhase(t)
  BY <1>1, PhaseStep
<1>2. CASE Job!EnterCleanup(t) \/ Job!FindCleaned(t) \/ Job!LeaveCleanup(t)
  BY <1>2 DEF Job!EnterCleanup, Job!FindCleaned, Job!LeaveCleanup, Job!PhaseOver
<1>3. CASE Job!CallbackStarts(t) \/ Job!CallbackEnds(t)
  BY <1>3 DEF Job!CallbackStarts, Job!CallbackEnds, JobInv, OneCleanup
<1> QED
  BY <1>1, <1>2, <1>3 DEF JobStep, HookStarts

\* The job is called from the try with neither call site in it, and an error of the
\* body's own call finds it cleaned.
LEMMA StreamCases ==
  ASSUME kind \in Kinds, JobInv, Places, StreamMoves
  PROVE  /\ kind = "streamed"
         /\ \/ Opens \/ Returns
            \/ (ReadEnvelope \/ Excepts) /\ \A t \in CallSites : at[t] = "idle"
            \/ client = "calling" /\ \E t \in CallSites : JobStep(t)
<1>k. kind \in {"streamed", "posted", "preload"} /\ "body" \in CallSites /\ "handler" \in CallSites
  BY OurRequest DEF CallSites
<1>1. ASSUME NEW t \in CallSites, JobStep(t) PROVE client = "calling"
  BY <1>1, JobStepAt DEF Places
<1>2. CASE client \in {"connecting", "starting", "streaming"}
  <2>1. kind = "streamed" /\ (\A t \in CallSites : at[t] = "idle") /\ ~cleaned
    BY <1>2, <1>k DEF Places, JobInv, OneCleanup
  <2>2. CASE SenderStep \/ StreamFails \/ Cancelled
    BY <2>1, <2>2, <1>2 DEF SenderStep, StreamEnds, StreamFails, Cancelled, HandleError, Opens,
       Excepts, Connect, SendStart
  <2> QED
    BY <1>1, <1>2, <2>1, <2>2 DEF StreamMoves, JobSteps, BodyReturns, HandlerReturns
<1>3. CASE client \notin {"connecting", "starting", "streaming"}
  <2>1. JobSteps
    BY <1>3 DEF StreamMoves, SenderStep, Connect, SendStart, ReadEnvelope, StreamEnds,
       StreamFails, Cancelled
  <2>2. client = "calling"
    BY <1>1, <2>1 DEF JobSteps, BodyReturns, HandlerReturns
  <2>3. kind = "streamed"
    BY <1>k, <2>2 DEF Places
  <2>4. CASE BodyReturns
    <3>1. at["body"] = "done" /\ cleaned
      BY <2>4, <1>k DEF BodyReturns, JobInv, OneCleanup
    <3> QED
      BY <2>3, <2>4, <3>1 DEF BodyReturns, HandleError, Returns, theirs
  <2>5. CASE HandlerReturns
    BY <2>3, <2>5 DEF HandlerReturns, Returns
  <2> QED
    BY <2>1, <2>2, <2>3, <2>4, <2>5 DEF JobSteps
<1> QED
  BY <1>2, <1>3

LEMMA JobCallStep ==
  ASSUME JobInv, \A t \in CallSites : at[t] = "idle", ReadEnvelope \/ Excepts
  PROVE  OneCall' /\ OneCleanup'
<1>1. CASE ReadEnvelope
  BY <1>1 DEF ReadEnvelope, Job!CallFinish, Job!Call, JobInv, OneCall, OneCleanup, Job!TypeOK, CallSites
<1>2. CASE Job!CallFinish("handler") /\ op'["handler"] = "fail"
  BY <1>2 DEF Job!CallFinish, Job!Call, JobInv, OneCall, OneCleanup, Job!TypeOK, CallSites
<1>3. CASE Job!CallCancel("handler")
  <2>1. Job!CancelPhases[1] = "abort"
    BY DEF Job!CancelPhases
  <2> QED
    BY <1>3, <2>1 DEF Job!CallCancel, Job!Call, JobInv, OneCall, OneCleanup, Job!TypeOK, CallSites
<1> QED
  BY <1>1, <1>2, <1>3 DEF Excepts

\* A call that is not idle is the only one.
LEMMA OtherIdle ==
  ASSUME JobInv, NEW t \in CallSites, NEW u \in CallSites, at[t] # "idle", u # t
  PROVE  at[u] = "idle"
BY DEF JobInv, OneCall, CallSites

LEMMA JobRunStep ==
  ASSUME JobInv, NEW t \in CallSites, JobStep(t)
  PROVE  OneCall' /\ OneCleanup'
<1>1. at[t] \notin {"idle", "done"}
  BY JobStepAt
<1>2. CASE Job!CallbackStarts(t)
  BY <1>1, <1>2 DEF Job!CallbackStarts, Job!jobVars, JobInv, OneCall, OneCleanup, Job!TypeOK, CallSites
<1>3. CASE Job!CallbackEnds(t)
  BY <1>1, <1>3 DEF Job!CallbackEnds, JobInv, OneCall, OneCleanup, Job!TypeOK, CallSites
<1>4. CASE Job!NextPhase(t)
  BY <1>1, <1>4, PhaseStep DEF JobInv, OneCall, OneCleanup, Job!TypeOK, CallSites
<1>5. CASE Job!EnterCleanup(t)
  BY <1>1, <1>5 DEF Job!EnterCleanup, Job!LockFree, JobInv, OneCall, OneCleanup, Job!TypeOK, CallSites
<1>6. CASE Job!FindCleaned(t)
  BY <1>1, <1>6 DEF Job!FindCleaned, JobInv, OneCall, OneCleanup, Job!TypeOK, CallSites
<1>7. CASE Job!LeaveCleanup(t)
  BY <1>1, <1>7 DEF Job!LeaveCleanup, Job!PhaseOver, Job!Finish, Job!Report, JobInv, OneCall,
     OneCleanup, Job!TypeOK, CallSites
<1> QED
  BY <1>2, <1>3, <1>4, <1>5, <1>6, <1>7 DEF JobStep, HookStarts

LEMMA JobInvStep ==
  ASSUME kind \in Kinds, JobInv, Places, [GroupNext]_groupVars
  PROVE  JobInv'
<1>1. Job!TypeOK'
  BY JobTypeStep DEF JobInv
<1>2. CASE UNCHANGED jobVars
  BY <1>1, <1>2 DEF jobVars, JobInv, OneCall, OneCleanup
<1>3. CASE StreamMoves
  <2>1. CASE Opens \/ Returns
    BY <1>2, <2>1 DEF Opens, Connect, SendStart, Returns, theirs
  <2> QED
    BY <1>1, <1>3, <2>1, StreamCases, JobCallStep, JobRunStep DEF JobInv
<1> QED
  BY <1>2, <1>3, GroupSteps, JobLeftAlone

\* Whatever leaves the job alone leaves its call sites where they are.
LEMMA PlacesStep ==
  ASSUME kind \in Kinds, JobInv, Places, [GroupNext]_groupVars
  PROVE  Places'
<1>k. kind \in {"streamed", "posted", "preload"} /\ kind' = kind
  BY OurRequest, KindStays
<1>1. CASE ThreadMoves
  <2>1. UNCHANGED jobVars
    BY <1>1, JobLeftAlone
  <2> QED
    BY <1>k, <1>1, <2>1 DEF Places, jobVars, ThreadMoves, ThreadStep, ThreadGoesOn, CommandStarts,
       ThreadPolls, ThreadInterrupted, CommandExits, PreparationCancelled, PreparationReturns, ends
<1>2. CASE LeaseMoves
  <2>1. UNCHANGED jobVars
    BY <1>2, JobLeftAlone
  <2> QED
    BY <1>k, <1>2, <2>1 DEF Places, jobVars, LeaseMoves, LeaseGranted, LeaseFails, LeaseAbandoned
<1>3. CASE StreamMoves
  <2>1. kind = "streamed"
    BY <1>3, StreamCases
  <2>2. CASE Opens
    BY <1>k, <2>1, <2>2 DEF Places, Opens, Connect, SendStart, theirs, jobVars
  <2>3. CASE Returns
    BY <1>k, <2>1, <2>3, OtherIdle DEF Places, Returns, End, theirs, jobVars, CallSites
  <2>4. CASE (ReadEnvelope \/ Excepts) /\ \A t \in CallSites : at[t] = "idle"
    <3>1. client' = "calling" /\ lease' # "acquiring" /\ \E t \in CallSites : at'[t] # "idle"
      <4>1. Job!CancelPhases[1] = "abort"
        BY DEF Job!CancelPhases
      <4> QED
        BY <2>4, <4>1 DEF ReadEnvelope, Excepts, Job!CallFinish, Job!CallCancel, JobInv,
           Job!TypeOK, CallSites, Places
    <3> QED
      BY <1>k, <2>1, <3>1 DEF Places
  <2>5. ASSUME client = "calling", NEW t \in CallSites, JobStep(t) PROVE Places'
    <3>1. client' = "calling" /\ lease' # "acquiring"
      BY <2>5 DEF JobStep, HookStarts, ends, Places
    <3>2. at'[t] # "idle"
      BY <2>5, JobStepAt, PhaseStep DEF JobStep, HookStarts, JobInv, Job!TypeOK, Job!jobVars,
         Job!CallbackStarts, Job!CallbackEnds, Job!EnterCleanup, Job!FindCleaned,
         Job!LeaveCleanup, Job!Finish
    <3> QED
      BY <1>k, <2>1, <3>1, <3>2 DEF Places
  <2> QED
    BY <1>3, <2>2, <2>3, <2>4, <2>5, StreamCases
<1>4. CASE PostMoves
  <2>1. UNCHANGED jobVars
    BY <1>4, JobLeftAlone
  <2> QED
    BY <1>k, <1>4, <2>1 DEF Places, jobVars, PostMoves, SendPost, PostAnswered, PostRaises,
       PreloadRaises, InterruptOver, End, ends
<1>5. CASE NetMoves \/ PeerMoves \/ UNCHANGED groupVars
  <2>1. UNCHANGED jobVars
    BY <1>5, JobLeftAlone
  <2>2. client' = client /\ lease' = lease
    BY <1>5, PeerMovesItself DEF NetMoves, LinkBreaks, RequestLost, groupVars, ends
  <2> QED
    BY <1>k, <2>1, <2>2 DEF Places, jobVars
<1> QED
  BY <1>1, <1>2, <1>3, <1>4, <1>5, GroupSteps

\* What the callbacks have done once the job is past them: the socket is closed, the
\* request to interrupt was sent.
PastInterrupt(t) == \/ at[t] \in {"lock", "cleanup", "done"}
                    \/ at[t] = "peer_interrupt" /\ "interrupt" \notin todo[t]
PastSession(t) == at[t] = "done" \/ (at[t] = "cleanup" /\ "session" \notin todo[t])
Hooked ==
  /\ \A t \in CallSites : PastSession(t) => socket # "open"
  /\ op["handler"] = "cancel" /\ PastInterrupt("handler") => interrupt # "none"

\* A request to interrupt is sent for good, and a socket opened once.
LEMMA SentStays ==
  ASSUME kind \in Kinds, [GroupNext]_groupVars
  PROVE  /\ interrupt # "none" => interrupt' # "none"
         /\ socket # "open" => Connect \/ socket' # "open"
<1>1. CASE ThreadMoves \/ LeaseMoves
  BY <1>1 DEF ThreadMoves, ThreadStep, ThreadGoesOn, CommandStarts, ThreadPolls,
     ThreadInterrupted, CommandExits, PreparationCancelled, PreparationReturns,
     LeaseMoves, LeaseGranted, LeaseFails, LeaseAbandoned, network
<1>2. CASE StreamMoves
  <2>1. CASE SenderStep \/ StreamFails \/ Cancelled \/ BodyReturns \/ HandlerReturns
    BY <2>1 DEF SenderStep, SendStart, ReadEnvelope, StreamEnds, StreamFails, Cancelled, BodyReturns,
       HandlerReturns, Connect, network
  <2>2. CASE \E t \in CallSites : JobStep(t)
    BY <2>2 DEF JobStep, HookStarts, network
  <2> QED
    BY <1>2, <2>1, <2>2 DEF StreamMoves, JobSteps
<1>3. CASE PostMoves \/ NetMoves
  BY <1>3 DEF PostMoves, NetMoves, SendPost, PostAnswered, PostRaises, PreloadRaises,
     InterruptOver, LinkBreaks, RequestLost, network
<1>4. CASE PeerMoves
  BY <1>4, PeerMovesItself
<1>5. CASE UNCHANGED groupVars
  BY <1>5 DEF groupVars, network
<1> QED
  BY <1>1, <1>2, <1>3, <1>4, <1>5, GroupSteps

LEMMA HookStartsStep ==
  ASSUME JobInv, Hooked, NEW t \in CallSites, HookStarts(t)
  PROVE  Hooked'
<1>1. PICK c \in todo[t] : /\ todo' = [todo EXCEPT ![t] = @ \ {c}]
                           /\ awaiting' = [awaiting EXCEPT ![t] = {c}]
  BY DEF HookStarts, Job!CallbackStarts
<1>2. awaiting[t] = {} /\ op' = op /\ at' = at
  BY DEF HookStarts, Job!CallbackStarts
<1>3. Calls(c)
  BY <1>1, <1>2 DEF Calls, JobInv, Job!TypeOK
<1>4. socket # "open" => socket' # "open"
  BY DEF HookStarts
<1>5. interrupt # "none" => interrupt' # "none"
  BY DEF HookStarts
<1>6. c = "session" => socket' # "open"
  BY <1>3 DEF HookStarts
<1>7. c = "interrupt" => interrupt' # "none"
  BY <1>3 DEF HookStarts
<1>8. \A u \in CallSites : todo'[u] = IF u = t THEN todo[u] \ {c} ELSE todo[u]
  BY <1>1 DEF JobInv, Job!TypeOK
<1> QED
  BY <1>2, <1>4, <1>5, <1>6, <1>7, <1>8 DEF Hooked, PastSession, PastInterrupt, CallSites

\* The snapshots that the job takes have the session and the interrupt in them.
LEMMA Snapshots ==
  ASSUME JobInv
  PROVE  "interrupt" \in Job!Registered("peer_interrupt") /\ "session" \in Job!Registered("cleanup")
BY DEF JobInv, OneCleanup, Job!Registered, PhaseOfHook

LEMMA HookedStep ==
  ASSUME kind \in Kinds, JobInv, Places, Hooked, [GroupNext]_groupVars
  PROVE  Hooked'
<1>s. "body" \in CallSites /\ "handler" \in CallSites
  BY DEF CallSites
<1>1. CASE UNCHANGED jobVars
  <2>1. Connect => \A t \in CallSites : at[t] = "idle"
    BY <1>1 DEF Connect, Places
  <2> QED
    BY <1>1, <2>1, SentStays DEF Hooked, PastSession, PastInterrupt, jobVars
<1>2. CASE StreamMoves
  <2>1. CASE Opens \/ Returns
    BY <1>1, <2>1 DEF Opens, Connect, SendStart, Returns, theirs
  <2>2. CASE (ReadEnvelope \/ Excepts) /\ \A t \in CallSites : at[t] = "idle"
    <3>1. \A t \in CallSites : at'[t] \notin {"cleanup", "done"}
      <4>1. Job!CancelPhases[1] = "abort"
        BY DEF Job!CancelPhases
      <4> QED
        BY <2>2, <4>1 DEF ReadEnvelope, Excepts, Job!CallFinish, Job!CallCancel, JobInv,
           Job!TypeOK, CallSites
    <3>2. op'["handler"] # "cancel" \/ at'["handler"] = "abort"
      <4>1. Job!CancelPhases[1] = "abort"
        BY DEF Job!CancelPhases
      <4> QED
        BY <2>2, <4>1, <1>s DEF ReadEnvelope, Excepts, Job!CallFinish, Job!CallCancel, Job!Call,
           JobInv, OneCleanup, Job!TypeOK
    <3> QED
      BY <3>1, <3>2 DEF Hooked, PastSession, PastInterrupt
  <2>3. ASSUME NEW t \in CallSites, HookStarts(t) PROVE Hooked'
    BY <2>3, HookStartsStep
  <2>4. ASSUME NEW t \in CallSites, Job!CallbackEnds(t), UNCHANGED network PROVE Hooked'
    BY <2>4 DEF Job!CallbackEnds, Hooked, PastSession, PastInterrupt, network
  <2>5. ASSUME NEW t \in CallSites, Job!NextPhase(t), UNCHANGED network PROVE Hooked'
    <3>1. /\ at'[t] \in {"terminate", "peer_interrupt", "lock"}
          /\ at'[t] = "peer_interrupt" => "interrupt" \in todo'[t]
          /\ at'[t] = "lock" => at[t] = "peer_interrupt" /\ todo[t] = {}
          /\ \A u \in CallSites : u # t => at'[u] = at[u] /\ todo'[u] = todo[u]
          /\ op' = op
      BY <2>5, PhaseStep, Snapshots DEF JobInv, Job!TypeOK
    <3> QED
      BY <2>5, <3>1, <1>s DEF Hooked, PastSession, PastInterrupt, network
  <2>6. ASSUME NEW t \in CallSites, Job!EnterCleanup(t), UNCHANGED network PROVE Hooked'
    <3>1. /\ at[t] = "lock" /\ at'[t] = "cleanup" /\ "session" \in todo'[t]
          /\ \A u \in CallSites : u # t => at'[u] = at[u] /\ todo'[u] = todo[u]
          /\ op' = op
      BY <2>6, Snapshots DEF Job!EnterCleanup, JobInv, Job!TypeOK
    <3> QED
      BY <2>6, <3>1, <1>s DEF Hooked, PastSession, PastInterrupt, network
  <2>7. ASSUME NEW t \in CallSites, Job!FindCleaned(t) PROVE FALSE
    <3>1. at[t] = "lock" /\ \E u \in CallSites : at[u] \in {"cleanup", "done"}
      BY <2>7 DEF Job!FindCleaned, JobInv, OneCleanup
    <3> QED
      BY <3>1, OtherIdle
  <2>8. ASSUME NEW t \in CallSites, Job!LeaveCleanup(t), UNCHANGED network PROVE Hooked'
    <3>1. /\ at[t] = "cleanup" /\ todo[t] = {} /\ at'[t] = "done" /\ UNCHANGED <<op, todo>>
          /\ \A u \in CallSites : u # t => at'[u] = at[u]
      BY <2>8 DEF Job!LeaveCleanup, Job!PhaseOver, Job!Finish, JobInv, Job!TypeOK
    <3> QED
      BY <2>8, <3>1, <1>s DEF Hooked, PastSession, PastInterrupt, network
  <2> QED
    BY <1>2, <2>1, <2>2, <2>3, <2>4, <2>5, <2>6, <2>7, <2>8, StreamCases DEF JobStep
<1> QED
  BY <1>1, <1>2, GroupSteps, JobLeftAlone

\* What a run that is over leaves behind.
Left ==
  /\ result # "none" => client = "over"
  /\ kind = "streamed" /\ lease = "released" => \E t \in CallSites : at[t] = "done"
  /\ kind = "posted" /\ (client = "interrupting" \/ result = "error") => interrupt # "none"

SenderInv == kind \in Kinds /\ JobInv /\ Places /\ Hooked /\ Left

\* A call that is over stays over, and takes no other with it.
LEMMA DoneStays ==
  ASSUME kind \in Kinds, JobInv, Places, [GroupNext]_groupVars,
         NEW t \in CallSites, at[t] = "done"
  PROVE  UNCHANGED jobVars
<1>1. \A u \in CallSites : at[u] \in {"idle", "done"}
  BY OtherIdle
<1>2. CASE StreamMoves
  <2>1. CASE Opens \/ Returns
    BY <2>1 DEF Opens, Connect, SendStart, Returns, theirs
  <2> QED
    BY <1>1, <1>2, <2>1, StreamCases, JobStepAt
<1> QED
  BY <1>2, GroupSteps, JobLeftAlone

LEMMA LeftStep ==
  ASSUME SenderInv, [GroupNext]_groupVars
  PROVE  Left'
<1>k. kind \in {"streamed", "posted", "preload"} /\ kind' = kind
  BY OurRequest, KindStays DEF SenderInv
<1>s. interrupt # "none" => interrupt' # "none"
  BY SentStays DEF SenderInv
<1>d. (\E t \in CallSites : at[t] = "done") => \E t \in CallSites : at'[t] = "done"
  BY DoneStays DEF SenderInv, jobVars
<1>1. CASE ThreadMoves
  BY <1>1, <1>k, <1>s, <1>d DEF SenderInv, Left, Places, ThreadMoves, ThreadStep, ThreadGoesOn,
     CommandStarts, ThreadPolls, ThreadInterrupted, CommandExits, PreparationCancelled,
     PreparationReturns, ends
<1>2. CASE LeaseMoves
  BY <1>2, <1>k, <1>s, <1>d DEF SenderInv, Left, Places, LeaseMoves, LeaseGranted, LeaseFails,
     LeaseAbandoned
<1>3. CASE StreamMoves
  <2>1. kind = "streamed"
    BY <1>3, StreamCases DEF SenderInv
  <2>2. CASE Opens \/ ReadEnvelope \/ Excepts
    BY <1>k, <1>d, <2>1, <2>2 DEF SenderInv, Left, Opens, Connect, SendStart, ReadEnvelope, Excepts
  <2>3. CASE Returns
    BY <1>k, <1>d, <2>1, <2>3 DEF SenderInv, Left, Returns, End, CallSites
  <2>4. CASE \E t \in CallSites : JobStep(t)
    BY <1>k, <1>d, <2>1, <2>4 DEF SenderInv, Left, JobStep, HookStarts, ends
  <2> QED
    BY <1>3, <2>2, <2>3, <2>4, StreamCases DEF SenderInv
<1>4. CASE PostMoves
  BY <1>4, <1>k, <1>s, <1>d DEF SenderInv, Left, Places, PostMoves, SendPost, PostAnswered,
     PostRaises, PreloadRaises, InterruptOver, End, ends
<1>5. CASE NetMoves \/ PeerMoves \/ UNCHANGED groupVars
  <2>1. UNCHANGED ends
    BY <1>5, PeerMovesItself DEF SenderInv, NetMoves, LinkBreaks, RequestLost, groupVars
  <2> QED
    BY <1>k, <1>s, <1>d, <2>1 DEF SenderInv, Left, ends
<1> QED
  BY <1>1, <1>2, <1>3, <1>4, <1>5, GroupSteps

LEMMA SenderInvInit == GroupInit => SenderInv
<1> SUFFICES ASSUME GroupInit PROVE SenderInv
  OBVIOUS
<1>k. kind \in {"streamed", "posted", "preload"} /\ kind \in Kinds
  BY OurRequest DEF GroupInit
<1>1. Job!TypeOK
  BY DEF GroupInit, Job!TypeOK, Job!Places, CallSites
<1>2. \A t \in CallSites : at[t] = "idle" /\ op[t] = "none" /\ todo[t] = {} /\ awaiting[t] = {}
                           /\ outcome[t] = "none" /\ lock # t
  BY DEF GroupInit, CallSites
<1>3. OneCall /\ OneCleanup
  BY <1>2 DEF GroupInit, OneCall, OneCleanup, CallSites
<1>4. Places /\ Hooked /\ Left
  BY <1>k, <1>2 DEF GroupInit, Places, Hooked, PastSession, PastInterrupt, Left, CallSites
<1> QED
  BY <1>k, <1>1, <1>3, <1>4 DEF SenderInv, JobInv

LEMMA SenderInvariance == GroupSpec => []SenderInv
<1>1. SenderInv /\ [GroupNext]_groupVars => SenderInv'
  <2> SUFFICES ASSUME SenderInv, [GroupNext]_groupVars PROVE SenderInv'
    OBVIOUS
  <2>1. (kind \in Kinds)'
    BY KindStays DEF SenderInv
  <2> QED
    BY <2>1, JobInvStep, PlacesStep, HookedStep, LeftStep DEF SenderInv
<1> QED
  BY <1>1, SenderInvInit, PTL DEF GroupSpec

\* Wherever an except clause takes over, the job is not over yet or over and cleaned, so its
\* fail() is never refused; and a streamed run that had its lease leaves its job over and
\* cleaned and its socket closed.
THEOREM JobEnds == GroupSpec => []JobEndsWithRun
<1>1. SenderInv => JobEndsWithRun
  <2> SUFFICES ASSUME SenderInv PROVE JobEndsWithRun
    OBVIOUS
  <2>s. "body" \in CallSites /\ "handler" \in CallSites
    BY DEF CallSites
  <2>1. InTry => cleaned \/ state \notin Job!Terminal
    <3>1. CASE client \in {"connecting", "starting", "streaming"}
      BY <3>1, <2>s DEF SenderInv, JobInv, Places, OneCall, Job!Terminal
    <3>2. CASE at["body"] = "done"
      BY <3>2, <2>s DEF SenderInv, JobInv, OneCleanup
    <3> QED
      BY <3>1, <3>2 DEF InTry
  <2>2. ASSUME client = "over", kind = "streamed", lease = "released"
        PROVE  state \in Job!Terminal /\ cleaned /\ socket # "open"
    <3>1. PICK t \in CallSites : at[t] = "done"
      BY <2>2 DEF SenderInv, Left
    <3> QED
      BY <3>1 DEF SenderInv, JobInv, OneCall, OneCleanup, Hooked, PastSession, Job!Terminal, CallSites
  <2> QED
    BY <2>1, <2>2 DEF JobEndsWithRun
<1> QED
  BY <1>1, SenderInvariance, PTL
-------------------------------------------------------------------------------
(* The peer's answer and the peer's stop.                                     *)

\* A result on its way, in the job or given out is the peer's answer.
Answered ==
  /\ envelope = "result" \/ op["body"] = "succeed" => kind = "streamed" /\ answer[kind] = "ok"
  /\ result = "outputs" =>
       answer[kind] = "ok" /\ (kind = "streamed" => op["body"] = "succeed" /\ outcome["body"] = "ok")

\* An interrupt that arrived was heeded, and still is.
Heeded == interrupt = "delivered" => HeededBy(kind)

RunInv == SenderInv /\ PeerInv /\ Answered /\ Heeded

\* The peer sends a result when it answered "ok" on the stream.
LEMMA ResultSent ==
  ASSUME kind \in Kinds, JobInv, Places, [GroupNext]_groupVars, envelope' = "result"
  PROVE  envelope = "result" \/ (kind = "streamed" /\ answer[kind] = "ok")
<1>1. CASE ThreadMoves \/ LeaseMoves
  BY <1>1 DEF ThreadMoves, ThreadStep, ThreadGoesOn, CommandStarts, ThreadPolls,
     ThreadInterrupted, CommandExits, PreparationCancelled, PreparationReturns,
     LeaseMoves, LeaseGranted, LeaseFails, LeaseAbandoned, network
<1>2. CASE StreamMoves
  BY <1>2, StreamCases DEF Opens, Connect, SendStart, ReadEnvelope, Excepts, Returns, JobStep,
     HookStarts, network
<1>3. CASE PostMoves \/ NetMoves
  BY <1>3 DEF PostMoves, NetMoves, SendPost, PostAnswered, PostRaises, PreloadRaises,
     InterruptOver, LinkBreaks, RequestLost, network
<1>4. CASE PeerMoves
  BY <1>4 DEF PeerMoves, PostArrives, InterruptArrives, PeerReads, PeerStarts, PeerRefuses,
     PeerReadsControl, PeerResumes, PeerHandlerCancelled, PeerRuns, PeerWorks, NeighbourStep,
     Sends, network
<1>5. CASE UNCHANGED groupVars
  BY <1>5 DEF groupVars, network
<1> QED
  BY <1>1, <1>2, <1>3, <1>4, <1>5, GroupSteps

\* The job succeeds on a result that was read.
LEMMA SucceedsOnResult ==
  ASSUME kind \in Kinds, JobInv, Places, [GroupNext]_groupVars, op'["body"] = "succeed"
  PROVE  op["body"] = "succeed" \/ envelope = "result"
<1>s. "body" \in CallSites /\ "handler" \in CallSites
  BY DEF CallSites
<1>1. CASE UNCHANGED jobVars
  BY <1>1 DEF jobVars
<1>2. CASE StreamMoves
  <2>1. CASE Opens \/ Returns
    BY <1>1, <2>1 DEF Opens, Connect, SendStart, Returns, theirs
  <2>2. CASE ReadEnvelope
    BY <2>2 DEF ReadEnvelope
  <2>3. CASE Excepts
    BY <2>3, <1>s DEF Excepts, Job!CallFinish, Job!CallCancel, Job!Call, JobInv, Job!TypeOK
  <2>4. ASSUME NEW t \in CallSites, JobStep(t) PROVE op' = op
    BY <2>4, PhaseStep DEF JobStep, HookStarts, Job!CallbackStarts, Job!CallbackEnds,
       Job!EnterCleanup, Job!FindCleaned, Job!LeaveCleanup
  <2> QED
    BY <1>2, <2>1, <2>2, <2>3, <2>4, StreamCases
<1> QED
  BY <1>1, <1>2, GroupSteps, JobLeftAlone

\* Outputs are given out on the peer's answer to a request that was not streamed, or on the
\* return of a job that succeeded.
LEMMA OutputsGiven ==
  ASSUME SenderInv, [GroupNext]_groupVars, result' = "outputs"
  PROVE  \/ result = "outputs"
         \/ kind # "streamed" /\ answer[kind] = "ok"
         \/ kind = "streamed" /\ op["body"] = "succeed" /\ outcome["body"] = "ok" /\ UNCHANGED jobVars
<1>1. CASE ThreadMoves \/ LeaseMoves
  BY <1>1 DEF ThreadMoves, ThreadStep, ThreadGoesOn, CommandStarts, ThreadPolls,
     ThreadInterrupted, CommandExits, PreparationCancelled, PreparationReturns,
     LeaseMoves, LeaseGranted, LeaseFails, LeaseAbandoned, ends
<1>2. CASE StreamMoves
  <2>1. kind = "streamed"
    BY <1>2, StreamCases DEF SenderInv
  <2>2. CASE Opens \/ ReadEnvelope \/ Excepts
    BY <2>2 DEF Opens, Connect, SendStart, ReadEnvelope, Excepts
  <2>3. CASE Returns
    BY <2>1, <2>3 DEF Returns, End, theirs
  <2>4. CASE \E t \in CallSites : JobStep(t)
    BY <2>4 DEF JobStep, HookStarts, ends
  <2> QED
    BY <1>2, <2>2, <2>3, <2>4, StreamCases DEF SenderInv
<1>3. CASE PostMoves
  BY <1>3 DEF PostMoves, SendPost, PostAnswered, PostRaises, PreloadRaises, InterruptOver, End, ends
<1>4. CASE NetMoves \/ PeerMoves \/ UNCHANGED groupVars
  BY <1>4, PeerMovesItself DEF SenderInv, NetMoves, LinkBreaks, RequestLost, groupVars, ends
<1> QED
  BY <1>1, <1>2, <1>3, <1>4, GroupSteps

\* The job of a run that is over does not move.
LEMMA OverIsOver ==
  ASSUME kind \in Kinds, JobInv, Places, [GroupNext]_groupVars, client = "over"
  PROVE  UNCHANGED jobVars
<1>1. ~StreamMoves
  BY StreamCases DEF Opens, Connect, SendStart, ReadEnvelope, Excepts, Returns
<1> QED
  BY <1>1, GroupSteps, JobLeftAlone

LEMMA AnsweredStep ==
  ASSUME SenderInv, PeerInv, Answered, [GroupNext]_groupVars
  PROVE  Answered'
<1>k. kind' = kind /\ kind \in Requests
  BY OurRequest, KindStays DEF SenderInv
<1>1. answer[kind] = "ok" => answer'[kind] = "ok"
  BY <1>k, OkStays, DrivesPeer DEF SenderInv
<1>2. envelope' = "result" \/ op'["body"] = "succeed" => kind = "streamed" /\ answer[kind] = "ok"
  BY ResultSent, SucceedsOnResult DEF SenderInv, Answered
<1>3. ASSUME result' = "outputs"
      PROVE  answer[kind] = "ok" /\ (kind = "streamed" => op'["body"] = "succeed" /\ outcome'["body"] = "ok")
  <2>1. CASE result = "outputs"
    <3>1. UNCHANGED jobVars
      BY <2>1, OverIsOver DEF SenderInv, Left
    <3> QED
      BY <2>1, <3>1 DEF Answered, jobVars
  <2> QED
    BY <1>3, <2>1, OutputsGiven DEF Answered, jobVars
<1> QED
  BY <1>k, <1>1, <1>2, <1>3 DEF Answered

\* An interrupt is delivered by arriving.
LEMMA DeliveredByArriving ==
  ASSUME kind \in Kinds, [GroupNext]_groupVars, interrupt' = "delivered"
  PROVE  interrupt = "delivered" \/ Interrupt(OurPrompt)
<1>1. CASE ThreadMoves \/ LeaseMoves
  BY <1>1 DEF ThreadMoves, ThreadStep, ThreadGoesOn, CommandStarts, ThreadPolls,
     ThreadInterrupted, CommandExits, PreparationCancelled, PreparationReturns,
     LeaseMoves, LeaseGranted, LeaseFails, LeaseAbandoned, network
<1>2. CASE StreamMoves
  BY <1>2 DEF StreamMoves, SenderStep, Connect, SendStart, ReadEnvelope, StreamEnds, StreamFails,
     Cancelled, JobSteps, BodyReturns, HandlerReturns, JobStep, HookStarts, network
<1>3. CASE PostMoves \/ NetMoves
  BY <1>3 DEF PostMoves, NetMoves, SendPost, PostAnswered, PostRaises, PreloadRaises,
     InterruptOver, LinkBreaks, RequestLost, network
<1>4. CASE PeerMoves
  BY <1>4, PeerMovesItself
<1>5. CASE UNCHANGED groupVars
  BY <1>5 DEF groupVars, network
<1> QED
  BY <1>1, <1>2, <1>3, <1>4, <1>5, GroupSteps

LEMMA HeededStep ==
  ASSUME OnePromptPerRequest, SenderInv, PeerInv, Heeded, [GroupNext]_groupVars
  PROVE  Heeded'
<1>k. kind' = kind /\ kind \in Requests
  BY OurRequest, KindStays DEF SenderInv
<1>1. ASSUME HeededBy(kind) PROVE HeededBy(kind)'
  <2>1. PICK r \in Requests : r = kind
    BY <1>k
  <2>2. HeededBy(r)'
    BY <1>1, <2>1, HeededStays, DrivesPeer DEF PeerInv, SenderInv
  <2> QED
    BY <1>k, <2>1, <2>2 DEF HeededBy
<1>2. ASSUME Interrupt(OurPrompt) PROVE HeededBy(kind)'
  <2>1. PICK r \in Requests : r = kind
    BY <1>k
  <2>2. HeededBy(r)'
    BY <1>2, <2>1, InterruptIsHeeded DEF PeerInv, OurPrompt
  <2> QED
    BY <1>k, <2>1, <2>2 DEF HeededBy
<1> QED
  BY <1>1, <1>2, DeliveredByArriving DEF Heeded, SenderInv

LEMMA RunInvariance ==
  ASSUME OnePromptPerRequest
  PROVE  GroupSpec => []RunInv
<1>1. GroupInit => RunInv
  <2> SUFFICES ASSUME GroupInit PROVE RunInv
    OBVIOUS
  <2>1. SenderInv /\ Init /\ kind \in Requests
    BY SenderInvInit, OurRequest DEF SenderInv, GroupInit
  <2>2. Inv
    BY <2>1, InvInit
  <2>3. Answers /\ OkIsHistory
    BY <2>1, RequestsAssumption DEF Init, Answers, OkIsHistory
  <2>4. Answered /\ Heeded
    BY DEF GroupInit, Answered, Heeded, CallSites
  <2> QED
    BY <2>1, <2>2, <2>3, <2>4 DEF RunInv, PeerInv
<1>2. RunInv /\ SenderInv' /\ [GroupNext]_groupVars => RunInv'
  <2> SUFFICES ASSUME RunInv, SenderInv', [GroupNext]_groupVars PROVE RunInv'
    OBVIOUS
  <2>1. PeerInv'
    BY PeerInvStep, DrivesPeer DEF RunInv, SenderInv
  <2>2. Answered' /\ Heeded'
    BY AnsweredStep, HeededStep DEF RunInv
  <2> QED
    BY <2>1, <2>2 DEF RunInv
<1> QED
  BY <1>1, <1>2, SenderInvariance, PTL DEF GroupSpec

\* A run that was given up interrupted the peer: in the job's peer_interrupt phase when it
\* was cancelled, by the poster otherwise.
LEMMA GivenUpInterrupts == SenderInv /\ GaveUp => interrupt # "none"
<1> SUFFICES ASSUME SenderInv, GaveUp PROVE interrupt # "none"
  OBVIOUS
<1>s. "body" \in CallSites /\ "handler" \in CallSites
  BY DEF CallSites
<1>1. CASE state = "cancelled"
  <2>1. op["handler"] = "cancel" /\ at["handler"] # "idle"
    BY <1>1, <1>s DEF SenderInv, JobInv, OneCall
  <2>2. at["handler"] = "done"
    BY <2>1, <1>s, OurRequest DEF SenderInv, Places, GaveUp
  <2> QED
    BY <2>1, <2>2 DEF SenderInv, Hooked, PastInterrupt
<1>2. CASE kind = "posted" /\ result = "error"
  BY <1>2 DEF SenderInv, Left
<1> QED
  BY <1>1, <1>2 DEF GaveUp

\* A run that was cancelled, or a posted one that failed, has stopped its prompt on the peer,
\* whichever of the request, the stream's control, its closing and the interrupt came first,
\* unless the interrupt was lost or the peer gave up its record.
THEOREM GivenUpStops ==
  ASSUME OnePromptPerRequest
  PROVE  GroupSpec => []GivenUpIsStopped
<1>1. RunInv /\ GroupTypeOK => GivenUpIsStopped
  <2> SUFFICES ASSUME RunInv, GroupTypeOK, GaveUp, interrupt \notin {"flying", "lost"}, kind \notin dropped
               PROVE  item[kind] # "queued" /\ (item[kind] = "running" => interruptFlag)
    BY DEF GivenUpIsStopped
  <2>1. interrupt = "delivered"
    BY GivenUpInterrupts DEF RunInv, GroupTypeOK
  <2>2. HeededBy(kind)
    BY <2>1 DEF RunInv, Heeded
  <2>3. kind \in doomed => item[kind] = "none"
    BY DEF RunInv, PeerInv, Inv, DoomedRecorded
  <2> QED
    BY <2>2, <2>3 DEF HeededBy
<1> QED
  BY <1>1, RunInvariance, GroupTypeCorrect, PTL

\* A run that gives out outputs gives out those of a prompt that the peer ran to its end, and
\* a streamed one does so with its job succeeded and cleaned up without an error.
THEOREM OutputsAreReal ==
  ASSUME OnePromptPerRequest
  PROVE  GroupSpec => []OutputsAreThePeers
<1>1. RunInv => OutputsAreThePeers
  <2> SUFFICES ASSUME RunInv, result = "outputs"
               PROVE  /\ answer[kind] = "ok" /\ history[OurPrompt] = "success" /\ item[kind] = "done"
                      /\ kind = "streamed" => state = "succeeded" /\ ~cleanupError
    BY DEF OutputsAreThePeers
  <2>1. /\ answer[kind] = "ok" /\ kind \in Requests
        /\ kind = "streamed" => op["body"] = "succeed" /\ outcome["body"] = "ok"
    BY OurRequest DEF RunInv, Answered, SenderInv
  <2>2. history[OurPrompt] = "success" /\ item[kind] = "done"
    BY <2>1 DEF RunInv, PeerInv, OkIsHistory, Answers, OurPrompt
  <2>3. ASSUME kind = "streamed" PROVE state = "succeeded" /\ ~cleanupError
    <3>1. "body" \in CallSites
      BY DEF CallSites
    <3> QED
      BY <2>1, <2>3, <3>1 DEF RunInv, SenderInv, JobInv, OneCall, OneCleanup
  <2> QED
    BY <2>1, <2>2, <2>3
<1> QED
  BY <1>1, RunInvariance, PTL

\* The runs beside ours: the peer stays the prompt service that its requests rely on, and
\* stops none of them unasked, whatever our run, its job and the network between do.
THEOREM NeighboursOfRun == GroupSpec => []NeighboursUntouched
BY RunsOnPeer, NeighboursGoOn, PTL

THEOREM ServiceBesideRun ==
  ASSUME OnePromptPerRequest
  PROVE  GroupSpec => ServiceImplemented
BY RunsOnPeer, PeerImplementsService, PTL

===============================================================================
