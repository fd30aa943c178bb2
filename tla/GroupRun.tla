------------------------------- MODULE GroupRun -------------------------------
(***************************************************************************)
(* One run of a remote group, from both ends: the executor node of the     *)
(* sender (_run_remote_group_async), streamed over a socket with a         *)
(* RemoteExecutionJob, or posted by a thread that polls for interrupts;    *)
(* or its preparation node (CutleryRemoteGroupPreparation), whose thread   *)
(* makes the models available (ModelTransfer) before it preloads them by a *)
(* run of its own; the peer that serves it and others at the same time     *)
(* (PeerPrompt, which this module extends); and the network between them.  *)
(*                                                                         *)
(* The two call sites of the job in _run_streamed, in the body of its try  *)
(* and in its except clauses, are the tasks of RemoteJob.  Progress        *)
(* messages are left out, but one that the mirror rejects fails the run.   *)
(***************************************************************************)
EXTENDS PeerPrompt, Sequences

CONSTANT
  Kinds   \* the ways our run may be made: each is a request the peer may get from us

\* The peer's other requests are the neighbours'.
ASSUME KindsAssumption ==
  /\ Kinds \subseteq Requests \cap {"streamed", "posted", "preload"}
  /\ Kinds \cap Streamed = Kinds \cap {"streamed"}

CallSites == {"body", "handler"}
PhaseOfHook == [abort |-> "abort", interrupt |-> "peer_interrupt",
                session |-> "cleanup", progress |-> "cleanup"]

VARIABLES
  kind,       \* the run is streamed (progress_aware), posted, or a preparation's
  client,     \* where the sender is
  result,     \* how its run ended
  lease,      \* the lease of the target's worker
  socket,     \* the sender's end of the stream
  wire,       \* what it sent that the peer has not read
  envelope,   \* what the peer sent that it has not read
  post,       \* the request of a run that is not streamed
  interrupt,  \* the request to the peer's interrupt route
  thread,     \* where the preparation's thread is
  command,    \* whether an ssh or scp command of it runs
  stop,       \* its event "cancelled"
  state, event, cleaned, cleanupError, lock, registered, op, at, todo, awaiting,
  failed, outcome, attempts                                      \* RemoteJob

Job == INSTANCE RemoteJob WITH
  Tasks <- CallSites, Callbacks <- DOMAIN PhaseOfHook, PhaseOf <- PhaseOfHook,
  NoTask <- "free"

jobVars  == <<state, event, cleaned, cleanupError, lock, registered, op, at, todo,
              awaiting, failed, outcome, attempts>>
ends     == <<kind, client, result, lease>>
network  == <<socket, wire, envelope, post, interrupt>>
threadVars == <<thread, command, stop>>
peerVars == vars
theirs   == <<peerVars, jobVars, threadVars>>
groupVars == <<ends, network, theirs>>

Neighbours == Requests \ Kinds
OurPrompt == PromptOf[kind]

GroupTypeOK ==
  /\ TypeOK /\ Job!TypeOK
  /\ kind \in Kinds
  /\ client \in {"preparing", "leasing", "connecting", "starting", "streaming", "calling",
                 "requesting", "interrupting", "over"}
  /\ result \in {"none", "prepared", "outputs", "error"}
  /\ lease \in {"acquiring", "none", "held", "released"}
  /\ socket \in {"none", "open", "closed", "broken"}
  /\ wire \in Seq({"start", "cancel", "close"})
  /\ envelope \in {"none", "result", "error"}
  /\ post \in {"none", "flying", "arrived", "lost"}
  /\ interrupt \in {"none", "flying", "delivered", "lost"}
  /\ thread \in {"none", "working", "starting", "running", "ok", "failed"}
  /\ command \in BOOLEAN /\ stop \in BOOLEAN

\* The node made its job and registered its callbacks, with no await between.
GroupInit ==
  /\ Init
  /\ state = "running" /\ event = FALSE /\ cleaned = FALSE /\ cleanupError = FALSE
  /\ lock = "free" /\ registered = DOMAIN PhaseOfHook
  /\ op = [t \in CallSites |-> "none"] /\ at = [t \in CallSites |-> "idle"]
  /\ todo = [t \in CallSites |-> {}] /\ awaiting = [t \in CallSites |-> {}]
  /\ failed = [t \in CallSites |-> FALSE] /\ outcome = [t \in CallSites |-> "none"]
  /\ attempts = [c \in DOMAIN PhaseOfHook |-> 0]
  /\ kind \in Kinds
  /\ IF kind = "preload"
     THEN client = "preparing" /\ lease = "none" /\ thread = "working"
     ELSE client = "leasing" /\ lease = "acquiring" /\ thread = "none"
  /\ result = "none" /\ command = FALSE /\ stop = FALSE
  /\ socket = "none" /\ wire = <<>> /\ envelope = "none"
  /\ post = "none" /\ interrupt = "none"

-------------------------------------------------------------------------------
(* The preparation's thread.  It looks at "cancelled" before it starts a      *)
(* command and while one runs; waiting for another preparation's transfer, or *)
(* hashing, is work.                                                          *)

\* Models are resolved and transferred: the next command, the end, or an error.
ThreadGoesOn ==
  /\ thread = "working"
  /\ thread' \in (IF stop THEN {} ELSE {"starting"}) \cup {"ok", "failed"}
  /\ UNCHANGED <<command, stop, ends, network, peerVars, jobVars>>

\* A command is started and entered in active_processes, whatever happened since
\* the check.
CommandStarts ==
  /\ thread = "starting"
  /\ thread' = "running" /\ command' = TRUE
  /\ UNCHANGED <<stop, ends, network, peerVars, jobVars>>

CommandExits ==
  /\ command
  /\ command' = FALSE
  /\ UNCHANGED <<thread, stop, ends, network, peerVars, jobVars>>

\* Slip: a command that runs is waited for.
ThreadPolls_Waits ==
  /\ thread = "running" /\ ~command
  /\ thread' \in {"working", "failed"}
  /\ UNCHANGED <<command, stop, ends, network, peerVars, jobVars>>

\* The command is over, well or not; or it runs and is ended, and the thread with
\* it, because the preparation was cancelled.
ThreadPolls ==
  /\ thread = "running"
  /\ \/ ~command /\ thread' \in {"working", "failed"} /\ UNCHANGED command
     \/ command /\ stop /\ thread' = "failed" /\ command' = FALSE
  /\ UNCHANGED <<stop, ends, network, peerVars, jobVars>>

\* ComfyUI's own interrupt ends a running command in the same way.
ThreadInterrupted ==
  /\ thread = "running" /\ command
  /\ thread' = "failed" /\ command' = FALSE
  /\ UNCHANGED <<stop, ends, network, peerVars, jobVars>>

\* The node is cancelled: commands that are known are asked to end.
PreparationCancelled ==
  /\ client = "preparing"
  /\ client' = "over" /\ result' = "error"
  /\ stop' = TRUE
  /\ command' \in {command, FALSE}
  /\ UNCHANGED <<kind, lease, thread, network, peerVars, jobVars>>

\* The thread's result comes back: the workflow's models are preloaded, if it has
\* any that can be.
PreparationReturns ==
  /\ client = "preparing"
  /\ \/ thread = "ok" /\ client' = "leasing" /\ lease' = "acquiring" /\ UNCHANGED result
     \/ thread = "ok" /\ client' = "over" /\ result' = "prepared" /\ UNCHANGED lease
     \/ thread = "failed" /\ client' = "over" /\ result' = "error" /\ UNCHANGED lease
  /\ UNCHANGED <<kind, network, theirs>>

-------------------------------------------------------------------------------
(* The sender, streamed or not: the lease and the end.                        *)

\* The thread (of a posted run: the caller itself) that acquires the lease goes on
\* when the run it works for is over.
LeaseGranted ==
  /\ lease = "acquiring"
  /\ lease' = "held"
  /\ client' = IF client # "leasing" THEN client
               ELSE IF kind = "streamed" THEN "connecting" ELSE "requesting"
  /\ UNCHANGED <<kind, result, network, theirs>>

\* The worker does not start: a posted run interrupts the peer all the same, the
\* others are not in their try yet.
LeaseFails ==
  /\ lease = "acquiring"
  /\ lease' = "none"
  /\ IF kind = "posted"
     THEN client' = "interrupting" /\ interrupt' = "flying" /\ UNCHANGED result
     ELSE client' = "over" /\ result' = "error" /\ UNCHANGED interrupt
  /\ UNCHANGED <<kind, socket, wire, envelope, post, theirs>>

\* The prompt is cancelled in the await on that thread, which is before the try.
LeaseAbandoned ==
  /\ client = "leasing" /\ kind # "posted"
  /\ client' = "over" /\ result' = "error"
  /\ UNCHANGED <<kind, lease, network, theirs>>

\* The finally clause.
End(how) ==
  /\ client' = "over" /\ result' = how
  /\ lease' = IF lease = "held" THEN "released" ELSE lease
  /\ UNCHANGED kind

-------------------------------------------------------------------------------
(* The sender of a streamed run.                                              *)

Connect ==
  /\ client = "connecting"
  /\ socket' = "open" /\ client' = "starting"
  /\ UNCHANGED <<kind, result, lease, wire, envelope, post, interrupt, theirs>>

SendStart ==
  /\ client = "starting" /\ socket = "open"
  /\ wire' = Append(wire, "start") /\ client' = "streaming"
  /\ UNCHANGED <<kind, result, lease, socket, envelope, post, interrupt, theirs>>

\* Slip: the job is not failed.
HandleError_LeavesJob == End("error") /\ UNCHANGED jobVars

\* except BaseException: the job fails unless it is cleaned.
HandleError ==
  \/ /\ ~cleaned
     /\ Job!CallFinish("handler") /\ op'["handler"] = "fail"
     /\ client' = "calling"
     /\ UNCHANGED <<kind, result, lease>>
  \/ /\ cleaned
     /\ End("error")
     /\ UNCHANGED jobVars

\* Slip: every message is a result.
ReadEnvelope_AnyType ==
  /\ client = "streaming" /\ envelope # "none"
  /\ Job!CallFinish("body") /\ op'["body"] = "succeed"
  /\ envelope' = "none" /\ client' = "calling"
  /\ UNCHANGED <<kind, result, lease, socket, wire, post, interrupt, peerVars, threadVars>>

\* The peer's result or error ends the job in the body of the try.
ReadEnvelope ==
  /\ client = "streaming" /\ envelope # "none"
  /\ Job!CallFinish("body")
  /\ op'["body"] = IF envelope = "result" THEN "succeed" ELSE "fail"
  /\ envelope' = "none" /\ client' = "calling"
  /\ UNCHANGED <<kind, result, lease, socket, wire, post, interrupt, peerVars, threadVars>>

\* Slip: only an error on the socket ends the loop over it.
StreamEnds_OnError ==
  /\ client = "streaming" /\ envelope = "none" /\ socket = "broken"
  /\ HandleError
  /\ UNCHANGED <<network, peerVars, threadVars>>

\* "Remote progress stream closed before a result."
StreamEnds ==
  /\ client \in {"starting", "streaming"} /\ envelope = "none"
  /\ socket = "broken" \/ handler["streamed"] = "closed"
  /\ HandleError
  /\ UNCHANGED <<network, peerVars, threadVars>>

\* Connecting fails, or the peer's progress is rejected.
StreamFails ==
  /\ client \in {"connecting", "streaming"}
  /\ HandleError
  /\ UNCHANGED <<network, peerVars, threadVars>>

\* except asyncio.CancelledError, in any await of the try but the job's own.
Cancelled ==
  /\ client \in {"connecting", "starting", "streaming"}
  /\ Job!CallCancel("handler")
  /\ client' = "calling"
  /\ UNCHANGED <<kind, result, lease, network, peerVars, threadVars>>

\* The callbacks: abort sends the control and closes the socket, the session
\* closes whatever is still open, the interrupt is a request of its own.
Calls(hook) == \E t \in CallSites : hook \in awaiting'[t] \ awaiting[t]

\* Slip: the peer is told on the stream only.
HookStarts_StreamOnly(t) ==
  /\ Job!CallbackStarts(t)
  /\ IF (Calls("abort") \/ Calls("session")) /\ socket = "open"
     THEN socket' = "closed" /\ wire' = wire \o <<"close">>
     ELSE UNCHANGED <<socket, wire>>
  /\ UNCHANGED <<ends, envelope, post, interrupt, peerVars, threadVars>>

HookStarts(t) ==
  /\ Job!CallbackStarts(t)
  /\ IF (Calls("abort") \/ Calls("session")) /\ socket = "open"
     THEN /\ socket' = "closed"
          /\ wire' = wire \o IF Calls("abort") THEN <<"cancel", "close">> ELSE <<"close">>
     ELSE UNCHANGED <<socket, wire>>
  /\ interrupt' = IF Calls("interrupt") THEN "flying" ELSE interrupt
  /\ UNCHANGED <<ends, envelope, post, peerVars, threadVars>>

JobStep(t) ==
  \/ HookStarts(t)
  \/ /\ \/ Job!CallbackEnds(t) \/ Job!NextPhase(t) \/ Job!EnterCleanup(t)
        \/ Job!FindCleaned(t) \/ Job!LeaveCleanup(t)
     /\ UNCHANGED <<ends, network, peerVars, threadVars>>

\* The call in the body returns: the payload is the node's result, and an error,
\* the peer's or that of a callback, goes to the except clause.
BodyReturns ==
  /\ client = "calling" /\ at["body"] = "done" /\ at["handler"] = "idle"
  /\ IF op["body"] = "succeed" /\ outcome["body"] = "ok"
     THEN End("outputs") /\ UNCHANGED jobVars
     ELSE HandleError
  /\ UNCHANGED <<network, peerVars, threadVars>>

HandlerReturns ==
  /\ client = "calling" /\ at["handler"] = "done"
  /\ End("error")
  /\ UNCHANGED <<network, theirs>>

-------------------------------------------------------------------------------
(* The sender of a posted run, and of a preload.                              *)

\* run_interruptible_worker starts the thread that sends the request; a preload's
\* is sent by the node itself.
SendPost ==
  /\ client = "requesting" /\ post = "none"
  /\ post' = "flying"
  /\ UNCHANGED <<ends, socket, wire, envelope, interrupt, theirs>>

PostAnswered ==
  /\ client = "requesting"
  /\ kind # "streamed" /\ answer[kind] = "ok"
  /\ End("outputs")
  /\ UNCHANGED <<network, theirs>>

\* The request fails or is refused, or a poll sees ComfyUI's interrupt flag and
\* closes the connection, which does not hold a thread that has yet to connect.
\* Either way the peer is interrupted, once, outside the lease or within it.
PostRaises ==
  /\ client = "requesting" /\ kind = "posted"
  /\ client' = "interrupting" /\ interrupt' = "flying"
  /\ lease' \in {"held", "released"}
  /\ UNCHANGED <<kind, result, socket, wire, envelope, post, theirs>>

\* A preload fails, times out, or is cancelled with the local prompt: its
\* connection is closed.
PreloadRaises ==
  /\ client = "requesting" /\ kind = "preload"
  /\ End("error")
  /\ UNCHANGED <<network, theirs>>

\* The interrupt was answered, failed, or took more than ten seconds.
InterruptOver ==
  /\ client = "interrupting"
  /\ End("error")
  /\ UNCHANGED <<network, theirs>>

-------------------------------------------------------------------------------
(* The network.                                                               *)

LinkBreaks ==
  /\ socket = "open"
  /\ socket' = "broken" /\ wire' = <<>> /\ envelope' = "none"
  /\ UNCHANGED <<ends, post, interrupt, theirs>>

RequestLost ==
  /\ \/ post = "flying" /\ post' = "lost" /\ UNCHANGED interrupt
     \/ interrupt = "flying" /\ interrupt' = "lost" /\ UNCHANGED post
  /\ UNCHANGED <<ends, socket, wire, envelope, theirs>>

PostArrives ==
  /\ post = "flying"
  /\ Arrive(kind)
  /\ post' = "arrived"
  /\ UNCHANGED <<ends, socket, wire, envelope, interrupt, jobVars, threadVars>>

InterruptArrives ==
  /\ interrupt = "flying"
  /\ Interrupt(OurPrompt)
  /\ interrupt' = "delivered"
  /\ UNCHANGED <<ends, socket, wire, envelope, post, jobVars, threadVars>>

-------------------------------------------------------------------------------
(* The peer's end of the stream.                                              *)

Sends(message) == envelope' = IF socket = "open" THEN message ELSE "none"
Reads(message) == wire # <<>> /\ Head(wire) = message /\ wire' = Tail(wire)
Lost == socket = "broken" /\ UNCHANGED wire

PeerStarts ==
  /\ kind = "streamed" /\ Reads("start")
  /\ \/ StreamStart("streamed") /\ UNCHANGED envelope
     \/ StartRaises("streamed") /\ Sends("error")
  /\ UNCHANGED <<ends, socket, post, interrupt, jobVars, threadVars>>

\* No start message within 30 seconds, or one that the handler refuses.
PeerRefuses ==
  /\ kind = "streamed" /\ socket # "none"
  /\ RefuseStart("streamed") /\ Sends("error")
  /\ UNCHANGED <<ends, socket, wire, post, interrupt, jobVars, threadVars>>

PeerReadsControl ==
  /\ kind = "streamed"
  /\ \/ (Reads("cancel") \/ Lost) /\ ControlCancels("streamed")
     \/ (Reads("close") \/ Lost) /\ ControlEnds("streamed")
  /\ UNCHANGED <<ends, socket, envelope, post, interrupt, jobVars, threadVars>>

\* The handler sends what came of the run; a cancelled one sends nothing.
PeerResumes ==
  /\ kind = "streamed"
  /\ \/ HandlerWakes("streamed") /\ UNCHANGED envelope
     \/ /\ HandlerAnswers("streamed")
        /\ Sends(IF answer["streamed"] = "ok" THEN "result" ELSE "error")
     \/ /\ HandlerFails("streamed")
        /\ IF handler["streamed"] = "joining" THEN Sends("error") ELSE UNCHANGED envelope
  /\ UNCHANGED <<ends, socket, wire, post, interrupt, jobVars, threadVars>>

PeerHandlerCancelled ==
  /\ kind = "streamed"
  /\ WaitCancelled("streamed") \/ JoinCancelled("streamed")
  /\ UNCHANGED <<ends, network, jobVars, threadVars>>

\* _run_workflow up to the poll that ends it at the latest.
PeerRuns(k) ==
  /\ \/ LeavesCompiling(k) \/ LeavesValidating(k)
     \/ PollTimesOut(k) \/ Unwind(k)
  /\ UNCHANGED <<ends, network, jobVars, threadVars>>

PeerWorks(k) ==
  /\ \/ PollFindsHistory(k) \/ PollFindsCancellation(k)
     \/ WorkerStep(k) \/ Expire(PromptOf[k])
  /\ UNCHANGED <<ends, network, jobVars, threadVars>>

\* The peer serves its other requests meanwhile, and their interrupts.
NeighbourStep ==
  /\ \/ \E r \in Neighbours : RunStep(r) \/ WorkerStep(r)
     \/ \E r \in Neighbours \cap Streamed : StreamStep(r)
     \/ \E r \in Neighbours : Interrupt(PromptOf[r]) \/ Expire(PromptOf[r])
  /\ UNCHANGED <<ends, network, jobVars, threadVars>>

-------------------------------------------------------------------------------

SenderStep == Connect \/ SendStart \/ ReadEnvelope \/ StreamEnds
JobSteps == BodyReturns \/ HandlerReturns \/ \E t \in CallSites : JobStep(t)
PeerReads == PeerStarts \/ PeerRefuses

ThreadStep == ThreadGoesOn \/ CommandStarts \/ ThreadPolls

GroupNext ==
  \/ ThreadStep \/ ThreadInterrupted \/ CommandExits \/ PreparationCancelled \/ PreparationReturns
  \/ LeaseGranted \/ LeaseFails \/ LeaseAbandoned
  \/ SenderStep \/ StreamFails \/ Cancelled \/ JobSteps
  \/ SendPost \/ PostAnswered \/ PostRaises \/ PreloadRaises \/ InterruptOver
  \/ LinkBreaks \/ RequestLost \/ PostArrives \/ InterruptArrives
  \/ PeerReads \/ PeerReadsControl \/ PeerResumes \/ PeerHandlerCancelled
  \/ \E k \in Kinds : PeerRuns(k) \/ PeerWorks(k)
  \/ NeighbourStep

(***************************************************************************)
(* Fairness.  A worker starts or its start times out; both event loops     *)
(* resume whom they can; the peer waits 30 seconds for a start; requests   *)
(* have timeouts; callbacks end; the preparation's thread goes on.         *)
(* Nothing is assumed of the network, of the peer's worker thread, of ssh  *)
(* and scp, or of cancellation.                                            *)
(***************************************************************************)
GroupFairness ==
  /\ WF_groupVars(LeaseGranted \/ LeaseFails)
  /\ WF_groupVars(SenderStep) /\ WF_groupVars(JobSteps)
  /\ WF_groupVars(PostRaises) /\ WF_groupVars(PreloadRaises) /\ WF_groupVars(InterruptOver)
  /\ WF_groupVars(ThreadStep) /\ WF_groupVars(PreparationReturns)
  /\ WF_groupVars(PeerReads) /\ WF_groupVars(PeerResumes)
  /\ \A k \in Kinds : WF_groupVars(PeerRuns(k))

GroupSpec == GroupInit /\ [][GroupNext]_groupVars
GroupFairSpec == GroupSpec /\ GroupFairness

-------------------------------------------------------------------------------
(* Properties.                                                                *)

\* A run that was cancelled, or a posted one that failed, has stopped its prompt
\* on the peer, whichever of the request, the stream's control, its closing and
\* the interrupt came first ("If the client workflow is interrupted or times
\* out, it calls the peer's interrupt route"): it is not in the queue, now or
\* later, and if it runs it was told to stop.  Except that the interrupt itself
\* was lost, or the peer gave up its record after two hours.
GaveUp == client = "over" /\ (state = "cancelled" \/ (kind = "posted" /\ result = "error"))
GivenUpIsStopped ==
  GaveUp /\ interrupt \notin {"flying", "lost"} /\ kind \notin dropped =>
    item[kind] # "queued" /\ (item[kind] = "running" => interruptFlag)

\* Outputs are those of a prompt that the peer ran to its end: neither a stream
\* that closed nor a cancellation of the job is taken for a result.
OutputsAreThePeers ==
  result = "outputs" =>
    /\ answer[kind] = "ok" /\ history[OurPrompt] = "success" /\ item[kind] = "done"
    /\ kind = "streamed" => state = "succeeded" /\ ~cleanupError

\* Where an except clause may take over.
InTry == \/ client \in {"connecting", "starting", "streaming"}
         \/ client = "calling" /\ at["body"] = "done"

\* Wherever an except clause takes over, it finds the job not over yet or over and
\* cleaned, however the body's own call of the job ended: its fail() is never refused,
\* which would hide the error that brought it there.  And a streamed run that had its
\* lease ends with its job over and cleaned and its socket closed, whatever raised
\* where.
JobEndsWithRun ==
  /\ InTry => cleaned \/ state \notin Job!Terminal
  /\ client = "over" /\ kind = "streamed" /\ lease = "released" =>
       state \in Job!Terminal /\ cleaned /\ socket # "open"

\* Every run comes back, even when the peer's worker thread hangs or the
\* connection breaks: a streamed one has no timeout of its own and relies on the
\* peer's deadline.  A preparation may wait for a copy as long as it takes; once
\* cancelled, its thread and its command end, though the command was started after
\* the cancellation had looked for commands (_run_interruptible_command).
RunComesBack == client # "preparing" ~> client = "over"
CancelledThreadEnds == stop ~> ~command /\ thread \in {"ok", "failed"}
EveryRunEnds == RunComesBack /\ CancelledThreadEnds

\* docs/remote-execution.md: "If the client workflow is interrupted or times out, it
\* calls the peer's interrupt route with the remote prompt ID".  A preload that was
\* given up has stopped its prompt on the peer, as GivenUpIsStopped says of runs.
PreloadIsStopped ==
  client = "over" /\ kind = "preload" /\ result = "error" =>
    (item["preload"] = "running" => interruptFlag)

\* A run that is over does not hold a lease: a worker is kept "alive while requests
\* are leased" and its idle timer starts "after every request", so a lease that
\* nobody is left to release keeps the worker for ever.
NoLeaseLost == client = "over" => lease # "held"

===============================================================================
