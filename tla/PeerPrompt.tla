------------------------------ MODULE PeerPrompt ------------------------------
(***************************************************************************)
(* The serving peer: group-run requests, the prompt queue they feed, and   *)
(* the cancellations that race them.  One Cutlery event loop runs every    *)
(* handler, so an action is what a coroutine does between two awaits;      *)
(* ComfyUI's worker thread takes items from the queue at any moment.       *)
(*                                                                         *)
(*   nodes_wf3_boundary.py  tombstones, input directory, cancel_prompt,    *)
(*                          _run_workflow                                  *)
(*   nodes_remote.py        the run-stream, run, preload and interrupt     *)
(*                          routes                                         *)
(*                                                                         *)
(* cancel_prompt makes two queue calls.  The worker thread may act between *)
(* them, but taking or finishing an item there has the effect of taking or *)
(* finishing it before or after both, so CancelPrompt is one step.         *)
(***************************************************************************)
EXTENDS Naturals, FiniteSets

CONSTANTS
  Requests,        \* calls of _run_workflow
  Streamed,        \* the requests that arrive on /group/run-stream
  Prompts,         \* prompt ids
  PromptOf,        \* the prompt id each request names
  MaxTombstones,   \* MAX_PROMPT_CANCELLATION_TOMBSTONES (4096 in the code)
  MaxRecords       \* bound: recorded interrupts in one behaviour

ASSUME RequestsAssumption ==
  /\ Streamed \subseteq Requests
  /\ PromptOf \in [Requests -> Prompts]
ASSUME LimitsAssumption ==
  /\ MaxTombstones \in Nat \ {0}
  /\ MaxRecords \in Nat

VARIABLES
  run,            \* the _run_workflow coroutine of each request
  answer,         \* how it ended: 200, another status, 409, an exception, a cancel
  handler,        \* the run-stream handler of each streamed request
  control,        \* its _read_remote_stream_control task
  recordedAt,     \* _PROMPT_CANCELLATION_TOMBSTONES: a logical time, 0 = absent
  records,        \* the clock those times are read from
  item,           \* the prompt-queue item each request puts, if any
  interruptFlag,  \* ComfyUI's interrupt flag, polled by the running prompt
  history,        \* ComfyUI's prompt history
  inputDir,       \* input/cutlery/<prompt id>
  files,          \* history: requests that materialised marked inputs
  asked,          \* history: prompts cancel_prompt was called for
  doomed,         \* history: requests whose cancellation was recorded before
                  \*   they queued anything, the record not dropped since
  dropped         \* history: those whose record the table then gave up

runVars   == <<run, answer>>
streamVars == <<handler, control>>
tombVars  == <<recordedAt, records>>
queueVars == <<item, interruptFlag, history>>
histVars  == <<asked, doomed, dropped>>
vars == <<runVars, streamVars, tombVars, queueVars, inputDir, files, histVars>>

PreQueue == {"idle", "compiling", "validating"}
Over     == {"unwinding", "returned"}

RequestsOf(p) == {r \in Requests : PromptOf[r] = p}
Running == {r \in Requests : item[r] = "running"}

TypeOK ==
  /\ run \in [Requests -> PreQueue \cup {"polling"} \cup Over]
  /\ answer \in [Requests -> {"none", "ok", "failed", "conflict", "raised", "cancelled"}]
  /\ handler \in [Streamed -> {"idle", "waiting", "joining", "unwinding", "closed"}]
  /\ control \in [Streamed -> {"off", "reading", "done"}]
  /\ recordedAt \in [Prompts -> Nat]
  /\ records \in Nat
  /\ item \in [Requests -> {"none", "queued", "running", "removed", "done"}]
  /\ interruptFlag \in BOOLEAN
  /\ history \in [Prompts -> {"none", "success", "error"}]
  /\ inputDir \in [Prompts -> {"absent", "unmarked", "marked"}]
  /\ files \subseteq Requests
  /\ asked \subseteq Prompts
  /\ doomed \subseteq Requests
  /\ dropped \subseteq Requests

Init ==
  /\ run = [r \in Requests |-> "idle"]
  /\ answer = [r \in Requests |-> "none"]
  /\ handler = [r \in Streamed |-> "idle"]
  /\ control = [r \in Streamed |-> "off"]
  /\ recordedAt = [p \in Prompts |-> 0]
  /\ records = 0
  /\ item = [r \in Requests |-> "none"]
  /\ interruptFlag = FALSE
  /\ history = [p \in Prompts |-> "none"]
  /\ inputDir = [p \in Prompts |-> "absent"]
  /\ files = {} /\ asked = {}
  /\ doomed = {} /\ dropped = {}

-------------------------------------------------------------------------------
(* Cancellation tombstones.  Every locked section prunes what is older than  *)
(* two hours; an expired entry is seen by none of them, so expiry is the      *)
(* step Expire, oldest first.                                                 *)

Live == {p \in Prompts : recordedAt[p] # 0}
Oldest(p) == p \in Live /\ \A q \in Live : recordedAt[p] <= recordedAt[q]

\* record_prompt_cancellation(p): a full table gives up its oldest entry.
RecordCancellation(p) ==
  LET full == p \notin Live /\ Cardinality(Live) >= MaxTombstones
      early == {r \in RequestsOf(p) : run[r] \in PreQueue}
  IN  /\ records < MaxRecords
      /\ records' = records + 1
      /\ \/ /\ ~full
            /\ recordedAt' = [recordedAt EXCEPT ![p] = records + 1]
            /\ doomed' = doomed \cup early
            /\ UNCHANGED dropped
         \/ /\ full
            /\ \E q \in Prompts :
                 /\ Oldest(q)
                 /\ recordedAt' = [recordedAt EXCEPT ![q] = 0, ![p] = records + 1]
                 /\ doomed' = (doomed \ RequestsOf(q)) \cup early
                 /\ dropped' = dropped \cup (doomed \cap RequestsOf(q))

\* consume_prompt_cancellation(p) when it returns True / when it returns False.
ConsumeCancellation(p) ==
  /\ recordedAt[p] # 0
  /\ recordedAt' = [recordedAt EXCEPT ![p] = 0]
  /\ UNCHANGED records
NoCancellation(p) ==
  /\ recordedAt[p] = 0
  /\ UNCHANGED tombVars

Expire(p) ==
  /\ Oldest(p)
  /\ recordedAt' = [recordedAt EXCEPT ![p] = 0]
  /\ doomed' = doomed \ RequestsOf(p)
  /\ dropped' = dropped \cup (doomed \cap RequestsOf(p))
  /\ UNCHANGED <<runVars, streamVars, records, queueVars, inputDir, files,
                 asked>>

-------------------------------------------------------------------------------
(* The prompt's input directory and cancel_prompt.                            *)

\* _cleanup_materialized_request_dir removes a directory that holds the marker.
CleanedDir(p) ==
  [inputDir EXCEPT ![p] = IF @ = "marked" THEN "absent" ELSE @]

\* Slip: is_prompt matches any item.
QueuedOf_Any(p) == {r \in Requests : item[r] = "queued"}

\* The items is_prompt matches.
QueuedOf(p) == {r \in RequestsOf(p) : item[r] = "queued"}
IsRunning(p) == \E r \in Running : PromptOf[r] = p

\* delete_queue_item(p) drops one matching item.
DeleteQueueItem(p) ==
  \/ QueuedOf(p) = {} /\ UNCHANGED item
  \/ \E r \in QueuedOf(p) : item' = [item EXCEPT ![r] = "removed"]

\* interrupt_if_running(p) raises the flag the running prompt polls.
InterruptIfRunning(p) == interruptFlag' = (interruptFlag \/ IsRunning(p))

\* Slip: a removed item's inputs stay.
InputsUnneeded_Recorded(p, recorded) == QueuedOf(p) = {} /\ ~IsRunning(p) /\ recorded

\* The inputs go with a removed item, and when nothing was removed or running
\* but a record says the prompt is to be refused before its put.
InputsUnneeded(p, recorded) == QueuedOf(p) # {} \/ (~IsRunning(p) /\ recorded)

\* cancel_prompt(p).
CancelPrompt(p, recorded) ==
  /\ DeleteQueueItem(p)
  /\ InterruptIfRunning(p)
  /\ inputDir' = IF InputsUnneeded(p, recorded) THEN CleanedDir(p) ELSE inputDir
  /\ asked' = asked \cup {p}
  /\ UNCHANGED history

\* POST /group/{id}/interrupt: record, then cancel, with no await in between.
Interrupt(p) ==
  /\ RecordCancellation(p)
  /\ CancelPrompt(p, TRUE)
  /\ UNCHANGED <<runVars, streamVars, files>>

-------------------------------------------------------------------------------
(* _run_workflow.                                                             *)

Return(r, result) ==
  /\ run' = [run EXCEPT ![r] = "returned"]
  /\ answer' = [answer EXCEPT ![r] = result]

\* POST /group/run and /group/preload call the runner directly.
Arrive(r) ==
  /\ r \notin Streamed
  /\ run[r] = "idle"
  /\ run' = [run EXCEPT ![r] = "compiling"]
  /\ UNCHANGED <<answer, streamVars, tombVars, queueVars, inputDir, files, histVars>>

\* workflow_to_api_prompt, the group compiler or the normaliser raises: 400.
CompileFails(r) ==
  /\ run[r] = "compiling"
  /\ Return(r, "failed")
  /\ UNCHANGED <<streamVars, tombVars, queueVars, inputDir, files, histVars>>

CancelledBeforeMaterialize(r) ==
  /\ run[r] = "compiling"
  /\ ConsumeCancellation(PromptOf[r])
  /\ Return(r, "conflict")
  /\ UNCHANGED <<streamVars, queueVars, inputDir, files, histVars>>

\* materialize_run_values writes no file, or writes files and their marker.
Materialize(r) ==
  LET p == PromptOf[r] IN
  /\ run[r] = "compiling"
  /\ NoCancellation(p)
  /\ run' = [run EXCEPT ![r] = "validating"]
  /\ \/ UNCHANGED <<inputDir, files>>
     \/ /\ inputDir' = [inputDir EXCEPT ![p] = "marked"]
        /\ files' = files \cup {r}
  /\ UNCHANGED <<answer, streamVars, queueVars, histVars>>

\* A value fails after the directory was made: 400, the guard cleans up, and a
\* directory that never got its marker stays behind.
MaterializeFails(r) ==
  LET p == PromptOf[r] IN
  /\ run[r] = "compiling"
  /\ NoCancellation(p)
  /\ Return(r, "failed")
  /\ \/ inputDir' = CleanedDir(p)
     \/ inputDir' = [inputDir EXCEPT ![p] = IF @ = "absent" THEN "unmarked" ELSE "absent"]
  /\ UNCHANGED <<streamVars, queueVars, files, histVars>>

\* validate_prompt answers False, or a timeout field is not a positive number:
\* 400.  It may also raise, which the caller sees.  The guard cleans up.
ValidationFails(r) ==
  /\ run[r] = "validating"
  /\ \E result \in {"failed", "raised"} : Return(r, result)
  /\ inputDir' = CleanedDir(PromptOf[r])
  /\ UNCHANGED <<streamVars, tombVars, queueVars, files, histVars>>

\* The second consume: what was recorded during the await on validate_prompt.
CancelledBeforeQueue(r) ==
  /\ run[r] = "validating"
  /\ ConsumeCancellation(PromptOf[r])
  /\ Return(r, "conflict")
  /\ inputDir' = CleanedDir(PromptOf[r])
  /\ UNCHANGED <<streamVars, queueVars, files, histVars>>

\* What a poll returns when it finds the prompt's history.
ReturnHistory(r) ==
  Return(r, IF history[PromptOf[r]] = "success" THEN "ok" ELSE "failed")

\* Slip: the second consume is forgotten.
Submit_NoRecheck(r) ==
  /\ run[r] = "validating"
  /\ item' = [item EXCEPT ![r] = "queued"]
  /\ run' = [run EXCEPT ![r] = "polling"]
  /\ UNCHANGED <<answer, streamVars, tombVars, interruptFlag, history, inputDir,
                 files, histVars>>

\* prompt_queue.put, the guard disarmed, and the first poll, which awaits
\* nothing before it reads the history.
Submit(r) ==
  LET p == PromptOf[r] IN
  /\ run[r] = "validating"
  /\ NoCancellation(p)
  /\ item' = [item EXCEPT ![r] = "queued"]
  /\ \/ history[p] # "none" /\ ReturnHistory(r)
     \/ /\ history[p] = "none"
        /\ run' = [run EXCEPT ![r] = "polling"]
        /\ UNCHANGED answer
  /\ UNCHANGED <<streamVars, interruptFlag, history, inputDir, files, histVars>>

PollFindsHistory(r) ==
  /\ run[r] = "polling"
  /\ history[PromptOf[r]] # "none"
  /\ ReturnHistory(r)
  /\ UNCHANGED <<streamVars, tombVars, queueVars, inputDir, files, histVars>>

\* The poll consumes a tombstone: cancel_prompt, then the inputs go as well
\* unless the prompt is running.
PollFindsCancellation(r) ==
  LET p == PromptOf[r] IN
  /\ run[r] = "polling"
  /\ history[p] = "none"
  /\ ConsumeCancellation(p)
  /\ CancelPrompt(p, TRUE)
  /\ Return(r, "conflict")
  /\ UNCHANGED <<streamVars, files, doomed, dropped>>

\* Slips: a 504 that leaves the prompt alone; one that waits for the worker.
PollTimesOut_NoCancel(r) ==
  /\ run[r] = "polling"
  /\ Return(r, "failed")
  /\ UNCHANGED <<streamVars, tombVars, queueVars, inputDir, files, histVars>>
PollTimesOut_Waits(r) ==
  /\ run[r] = "polling" /\ item[r] # "running"
  /\ CancelPrompt(PromptOf[r], recordedAt[PromptOf[r]] # 0)
  /\ Return(r, "failed")
  /\ UNCHANGED <<streamVars, tombVars, files, doomed, dropped>>

\* The deadline passes before the next poll: cancel_prompt, 504.
PollTimesOut(r) ==
  /\ run[r] = "polling"
  /\ CancelPrompt(PromptOf[r], recordedAt[PromptOf[r]] # 0)
  /\ Return(r, "failed")
  /\ UNCHANGED <<streamVars, tombVars, files, doomed, dropped>>

\* The cancelled task unwinds: the guard is armed until the put.
Unwind(r) ==
  /\ run[r] = "unwinding"
  /\ Return(r, "cancelled")
  /\ inputDir' = CleanedDir(PromptOf[r])
  /\ UNCHANGED <<streamVars, tombVars, queueVars, files, histVars>>

-------------------------------------------------------------------------------
(* The run-stream handler of a streamed request.                              *)

\* _cancel_peer_stream_prompt(r's prompt): cancel_prompt without a record.
CancelStreamPrompt(r) ==
  CancelPrompt(PromptOf[r], recordedAt[PromptOf[r]] # 0)

\* No start message, or one the handler refuses before it knows the prompt id.
RefuseStart(r) ==
  /\ handler[r] = "idle"
  /\ handler' = [handler EXCEPT ![r] = "closed"]
  /\ UNCHANGED <<runVars, control, tombVars, queueVars, inputDir, files, histVars>>

\* The values or the workflow do not decode: the error path cancels the prompt.
StartRaises(r) ==
  /\ handler[r] = "idle"
  /\ handler' = [handler EXCEPT ![r] = "closed"]
  /\ CancelStreamPrompt(r)
  /\ UNCHANGED <<runVars, control, tombVars, files, doomed, dropped>>

StreamStart(r) ==
  /\ handler[r] = "idle"
  /\ handler' = [handler EXCEPT ![r] = "waiting"]
  /\ control' = [control EXCEPT ![r] = "reading"]
  /\ run' = [run EXCEPT ![r] = "compiling"]
  /\ UNCHANGED <<answer, tombVars, queueVars, inputDir, files, histVars>>

\* The control task reads a cancel message or a transport error.
ControlCancels(r) ==
  /\ control[r] = "reading"
  /\ control' = [control EXCEPT ![r] = "done"]
  /\ CancelStreamPrompt(r)
  /\ UNCHANGED <<runVars, handler, tombVars, files, doomed, dropped>>

\* The client closes: the iteration over the socket ends without a message.
ControlEnds(r) ==
  /\ control[r] = "reading"
  /\ control' = [control EXCEPT ![r] = "done"]
  /\ UNCHANGED <<runVars, handler, tombVars, queueVars, inputDir, files, histVars>>

\* asyncio.wait returns: a control that ended first cancels the prompt.
HandlerWakes(r) ==
  /\ handler[r] = "waiting"
  /\ handler' = [handler EXCEPT ![r] = "joining"]
  /\ \/ /\ run[r] = "returned"
        /\ UNCHANGED <<queueVars, inputDir, asked>>
     \/ /\ run[r] # "returned" /\ control[r] = "done"
        /\ CancelStreamPrompt(r)
  /\ UNCHANGED <<runVars, control, tombVars, files, doomed, dropped>>

CloseHandler(r) ==
  /\ handler' = [handler EXCEPT ![r] = "closed"]
  /\ control' = [control EXCEPT ![r] = "off"]

\* The run task is joined and its envelope sent.
HandlerAnswers(r) ==
  /\ handler[r] = "joining"
  /\ run[r] = "returned" /\ answer[r] # "raised"
  /\ CloseHandler(r)
  /\ UNCHANGED <<runVars, tombVars, queueVars, inputDir, files, histVars>>

\* Slip: the error path only closes.
HandlerFails_NoCancel(r) ==
  /\ handler[r] \in {"joining", "unwinding"}
  /\ run[r] = "returned"
  /\ CloseHandler(r)
  /\ UNCHANGED <<runVars, tombVars, queueVars, inputDir, files, histVars>>

\* The run raised, its outputs do not encode, the send fails or is cancelled.
HandlerFails(r) ==
  /\ handler[r] \in {"joining", "unwinding"}
  /\ run[r] = "returned"
  /\ CloseHandler(r)
  /\ CancelStreamPrompt(r)
  /\ UNCHANGED <<runVars, tombVars, files, doomed, dropped>>

\* Cancelling r's run task; past the guard there is nothing to unwind.
StopRun(r) ==
  CASE run[r] = "validating" -> run' = [run EXCEPT ![r] = "unwinding"] /\ UNCHANGED answer
    [] run[r] \in {"compiling", "polling"} -> Return(r, "cancelled")
    [] OTHER -> UNCHANGED runVars

\* Slip: finally forgets the run task.
WaitCancelled_LeavesTask(r) ==
  /\ handler[r] = "waiting"
  /\ CancelStreamPrompt(r)
  /\ CloseHandler(r)
  /\ UNCHANGED <<runVars, tombVars, files, doomed, dropped>>

\* The handler is cancelled in asyncio.wait: cancel_prompt, and finally cancels
\* the run task.
WaitCancelled(r) ==
  /\ handler[r] = "waiting"
  /\ CancelStreamPrompt(r)
  /\ StopRun(r)
  /\ CloseHandler(r)
  /\ UNCHANGED <<tombVars, files, doomed, dropped>>

\* It is cancelled in "await run_task", which cancels the run task first; the
\* handler sees the cancellation when that task is over (HandlerFails).
JoinCancelled(r) ==
  /\ handler[r] = "joining" /\ run[r] # "returned"
  /\ StopRun(r)
  /\ handler' = [handler EXCEPT ![r] = "unwinding"]
  /\ UNCHANGED <<control, tombVars, queueVars, inputDir, files, histVars>>

-------------------------------------------------------------------------------
(* ComfyUI's worker thread: one prompt at a time, the interrupt flag cleared   *)
(* when it starts and observed, or not any more, before it ends.               *)

WorkerTakes(r) ==
  /\ Running = {}
  /\ item[r] = "queued"
  /\ item' = [item EXCEPT ![r] = "running"]
  /\ interruptFlag' = FALSE
  /\ UNCHANGED <<runVars, streamVars, tombVars, history, inputDir, files, histVars>>

WorkerFinishes(r) ==
  /\ item[r] = "running"
  /\ item' = [item EXCEPT ![r] = "done"]
  /\ \E status \in {"success", "error"} :
       history' = [history EXCEPT ![PromptOf[r]] = status]
  /\ UNCHANGED <<runVars, streamVars, tombVars, interruptFlag, inputDir, files, histVars>>

-------------------------------------------------------------------------------

RunStep(r) ==
  \/ Arrive(r) \/ CompileFails(r) \/ CancelledBeforeMaterialize(r)
  \/ Materialize(r) \/ MaterializeFails(r) \/ ValidationFails(r)
  \/ CancelledBeforeQueue(r) \/ Submit(r) \/ PollFindsHistory(r)
  \/ PollFindsCancellation(r) \/ PollTimesOut(r) \/ Unwind(r)

StreamStep(r) ==
  \/ RefuseStart(r) \/ StartRaises(r) \/ StreamStart(r)
  \/ ControlCancels(r) \/ ControlEnds(r) \/ HandlerWakes(r)
  \/ HandlerAnswers(r) \/ HandlerFails(r) \/ WaitCancelled(r) \/ JoinCancelled(r)

WorkerStep(r) == WorkerTakes(r) \/ WorkerFinishes(r)

Next ==
  \/ \E r \in Requests : RunStep(r) \/ WorkerStep(r)
  \/ \E r \in Streamed : StreamStep(r)
  \/ \E p \in Prompts : Interrupt(p) \/ Expire(p)

(***************************************************************************)
(* Fairness.  The event loop resumes every coroutine whose await is over.  *)
(* The group compiler and validate_prompt return in the end, and time      *)
(* passes, so a poll loop reaches its deadline.  Nothing is assumed of the *)
(* worker thread, of clients or of interrupts.                             *)
(***************************************************************************)
LeavesCompiling(r) ==
  CompileFails(r) \/ CancelledBeforeMaterialize(r) \/ Materialize(r) \/ MaterializeFails(r)
LeavesValidating(r) == ValidationFails(r) \/ CancelledBeforeQueue(r) \/ Submit(r)
HandlerResumes(r)   == HandlerWakes(r) \/ HandlerAnswers(r) \/ HandlerFails(r)

Fairness ==
  /\ \A r \in Requests : WF_vars(LeavesCompiling(r)) /\ WF_vars(LeavesValidating(r))
                      /\ WF_vars(PollTimesOut(r)) /\ WF_vars(Unwind(r))
  /\ \A r \in Streamed : WF_vars(HandlerResumes(r))

Spec == Init /\ [][Next]_vars
FairSpec == Spec /\ Fairness

-------------------------------------------------------------------------------
(* Properties.                                                                *)

\* No two requests share a prompt id (the streamed client draws a fresh uuid4).
OnePromptPerRequest ==
  \A r, s \in Requests : PromptOf[r] = PromptOf[s] => r = s

\* A request whose cancellation was recorded while it was still unknown, being
\* compiled or being validated never puts its prompt in the queue, whatever
\* else happened in those awaits, unless the table gave up that record
\* (record_prompt_cancellation: "before queue state exists").
RecordedCancelHeeded == \A r \in doomed : item[r] = "none"

\* A request that is over has left no work behind: its item is not queued any
\* more, and if it still runs it was told to stop.  Holds across every return
\* of _run_workflow and every way out of the stream handler.
Finished(r) ==
  /\ run[r] = "returned"
  /\ r \in Streamed /\ answer[r] = "cancelled" => handler[r] = "closed"
NoOrphanWork ==
  \A r \in Requests : Finished(r) =>
    item[r] # "queued" /\ (item[r] = "running" => interruptFlag)

\* cancel_prompt: "without affecting its neighbours".  An item leaves the queue
\* unrun, or runs with the interrupt flag up, only if its own prompt was asked
\* to stop.
NeighboursUntouched ==
  \A r \in Requests :
    item[r] = "removed" \/ (item[r] = "running" /\ interruptFlag)
      => PromptOf[r] \in asked

\* The materialised inputs of a prompt are there exactly as long as somebody needs
\* them.  A queued or running prompt still has its own, however often it is
\* cancelled meanwhile (unless its cancellation deleted them before the put and the
\* table then gave up the record that would have kept it out of the queue); and
\* marked inputs are never stranded: some request of that prompt is before its put,
\* or has an item that is queued, runs or ran.
InputsKept ==
  /\ \A r \in files \ dropped :
       item[r] \in {"queued", "running"} => inputDir[PromptOf[r]] = "marked"
  /\ \A p \in Prompts : inputDir[p] = "marked" =>
       \E r \in RequestsOf(p) : \/ run[r] \in {"validating", "unwinding"}
                                \/ item[r] \in {"queued", "running", "done"}

\* No run task survives its stream handler: once the handler closed, the task
\* has returned or is unwinding towards its guard.
TaskEndsWithHandler ==
  \A r \in Streamed : handler[r] = "closed" => run[r] \in {"idle"} \cup Over

\* The end of r as the peer decided it (its last message may still be lost): a posted
\* request ends when the runner returns, a streamed one when its handler closes.
Told(r) == IF r \in Streamed THEN handler[r] = "closed" ELSE run[r] = "returned"
ToldOf(r) ==
  IF ~Told(r) THEN "nothing"
  ELSE CASE answer[r] = "ok"       -> "ok"
         [] answer[r] = "conflict" -> "refused"
         [] OTHER                  -> "failed"

WorkOf(r) == CASE item[r] = "queued"  -> "waiting"
               [] item[r] = "removed" -> "withdrawn"
               [] OTHER               -> item[r]

Service == INSTANCE PromptService WITH
  work <- [r \in Requests |-> WorkOf(r)], told <- [r \in Requests |-> ToldOf(r)],
  stopped <- {r \in Running : interruptFlag},
  asked <- {r \in Requests : PromptOf[r] \in asked}

\* The peer is a prompt service: an end is told once and nothing begins after it, success
\* is told only of a prompt that ran, a 409 only to somebody whose cancellation was asked
\* for, and what runs on after an end was told to stop, over every interleaving of the
\* runner, the stream's tasks, interrupts and the worker thread.
ServiceImplemented == Service!Spec

\* Every request is answered and every stream closed, though the worker thread
\* may never finish a prompt and clients may vanish at any time.
EveryRequestEnds ==
  /\ \A r \in Requests : run[r] # "idle" ~> run[r] = "returned"
  /\ \A r \in Streamed : handler[r] # "idle" ~> handler[r] = "closed"

===============================================================================
