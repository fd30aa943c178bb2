# Verification of Cutlery Remote

TLA+ models of the parts of Cutlery Remote where steps of several actors meet:
a peer that runs group prompts and hears cancellations, the job object that owns
one remote execution, the manager of local worker processes, the preparation and
transfer of model files to a peer, one run of a remote group from both ends, remote
CLIP encoding with its caches, the cache of returned media, the progress of streamed
runs; and the compiler that makes the groups. TLC checks each on a small instance;
TLAPS proves the properties named below for every value of the constants.

    tlc -workers 2 -config PeerPrompt_distinct.cfg MCPeerPrompt.tla
    tlapm GroupRunProofs.tla

`PROJECT.json` lists the components, the runs, the mutants that show that each
property can fail, the lines each definition models, the hazards and the theorems.

## 1. The system

A *sender* ComfyUI compiles canvas groups into sub-workflows and runs each on a
*peer* ComfyUI. Both run the same custom-node package.

| component | state | operations | interacts with |
|---|---|---|---|
| peer prompt runner, `nodes_wf3_boundary.py` | cancellation tombstones (module table with a lock), the input directory of a prompt | `_run_workflow`, `record_/consume_prompt_cancellation`, `cancel_prompt` | ComfyUI's prompt queue and worker thread |
| peer routes, `nodes_remote.py` 2129-2316 | per stream: a run task and a control task | run-stream, run, preload, interrupt | the runner |
| client streamed execution, `nodes_remote.py` 2823-3090 | one job, one lease, one socket | `_run_streamed`, the posted run | job, worker manager, mirror, the peer's routes |
| `RemoteExecutionJob`, `remote_job.py` | state, callbacks by phase, cleanup lock | start, register, succeed, fail, cancel, cleanup | callbacks of the client |
| `LocalWorkerManager`, `local_worker.py` | per target: process, leases, idle timer | acquire, release, timers, stop_all | every request to a loopback target |
| preparation, `model_preparation.py` and `nodes_remote.py` 2403-2728 | digest cache file, the active transfer per target | hash, resolve, transfer or follow | the copy, the peer's resolve route |
| SSH/SCP copy, `model_transfer.py` | a staging file on the peer | hash, mkdir, scp, verify and promote, remove staging | commands that run on the peer |
| progress, `progress.py`, `trellis_progress.py`, `nodes_remote.py` 2541-2600 | last values by node, emission times, contributions; patched module globals with their users | ingest, flush, clear; enter, exit, start, update | the stream, ComfyUI's progress registry, other extensions |
| remote media cache, `nodes_remote.py` 1117-1394 | files by content, references by path and prompt | write, retain, release, evict | decoding of outputs, ComfyUI's prompt lifecycle |
| remote CLIP, `nodes_remote_clip.py` | uploaded encoders, LoRAs and images; encoder and LoRA caches with one active key; the client's cache of conditionings | upload, encode jobs through the prompt queue, clear, unload | ComfyUI's queue and worker thread, several clients |
| interruptible I/O, `cutlery_interrupt.py` | an abort handle per request | request, abort, subprocess | ComfyUI's interrupt flag |
| group compiler, `group_compiler.py` | none | one graph transformation | |
| targets, catalogues, inventory, serialization, LoRA chains, VRAM helpers, browser files | configuration and files read once, or none | conversions | |

What is hard:

* **Cancellation meets everything.** An interrupt may come before the peer knows
  the prompt, while its inputs are written, in the await of `validate_prompt`,
  between the put and the first poll, while it is queued, runs, or is over.
  Records of early ones live in a bounded table with an age limit.
* **A stream has two tasks** besides its handler, and the handler can leave by a
  result, an exception, a closed socket or its own cancellation.
* **Shared ends.** Several tasks may finish, cancel and clean up one job; several
  requests share a worker process and its idle timer; several prompts share one
  file transfer.
* **Two ends and two ways between them.** The sender tells the peer on the stream
  and by a request of its own; either may be late, lost or first.
* **Work that outlives its owner.** A prompt in the queue, a worker process, a
  promotion command on the peer after the local `ssh` was terminated, a timer
  thread that already waits for a lock when it is cancelled.

* **Caches over changing things.** Encoders in memory over files that requests replace
  or delete, conditionings over names, media files over counts of users, progress over
  snapshots that are throttled and dropped.
* **One graph rewritten many times.** The compiler leads links away group by group, builds
  producers a second time on the peer and removes what nobody takes.

What makes each correct (the properties): the peer heeds a recorded cancellation
and leaves no work behind; it harms no neighbour and neither loses nor strands
input files; every request is answered. The job calls each callback once, in
order, and only on behalf of what really happened. The manager forgets
no worker that its probes see, and neither idly keeps nor prematurely stops one. A
transfer that is reported is on the peer, replaces nothing, and nobody waits for one that nobody runs. A run comes
back, with the peer's outputs or an error, and one that is given up has stopped its
prompt. An encoded prompt is what its names say, and a job that is given up is out of
the queue. Media in use stay, and what eviction can remove keeps within the limit. Progress goes forward,
is not forgotten, and leaves modules as they were. A compiled prompt gives every node
what it got in the editor, once.

## 2. The plan

Done, in this order, most important first: `PeerPrompt`, `RemoteJob`,
`LocalWorker`, `ModelTransfer`; `GroupRun`, which composes the first two with the sender,
its preparation node and the network; `RemoteClip`, `MediaCache`, `RemoteProgress`,
`GroupCompiler`; and the abstract specifications `PromptService`, which `PeerPrompt`
implements, and `ModelStore`, which `ModelTransfer` implements, checked and proved. Every
safety property of a passing run is a theorem in a module of proofs, `<module>Proofs`;
`GroupRun` extends `PeerPrompt`, and the proofs about both are in `GroupRunProofs`.

Next: `DigestCache`, if the resolution of modification times can be pinned to the code.

None of the modules uses a RECURSIVE operator.

## 3. The modules

In every module, definitions whose comment begins with "Slip" are not part of the
specification: each is the form an action or helper would have with a plausible
mistake in the code, used to show that a property can be violated.

### PeerPrompt

The requests, each a call of `_run_workflow`, posted or streamed; the tombstone
table; the input directory of each prompt id; the prompt queue.

* One action is what a coroutine does between two awaits, since the peer's routes
  share one event loop; the worker thread acts at any time. `run` is the place of
  the coroutine: `compiling` (awaits the group compiler), `validating` (awaits
  `validate_prompt`), `polling` (sleeps between polls), `unwinding` (cancelled, its
  guard still to run), `returned`.
* `cancel_prompt` makes two queue calls, which the model takes as one step. The
  worker can act between them, but an item it takes there is as good as taken
  before both, and one it finishes as good as finished after both.
* `Materialize` and `MaterializeFails` are `materialize_run_values` with the video
  helpers: no file, files with their marker, or a directory without one. A new
  prompt directory is marked in the step that makes it unless the copy failed.
* `Submit` is the second consume, the put, the disarmed guard and the first poll,
  with no await between them. `PollTimesOut` may happen at any poll: the model has
  no clock, and a deadline may pass at any time.
* Time is a counter that only records read (`recordedAt`). Every locked section
  prunes expired entries first, so nobody sees an expired one, and expiry is a step
  of its own (`Expire`, oldest first).
* A stream is `RefuseStart`, `StartRaises` or `StreamStart`; then the control task
  (`ControlCancels`, `ControlEnds`) and the handler (`HandlerWakes`,
  `HandlerAnswers`, `HandlerFails`) race; `WaitCancelled` and `JoinCancelled` are
  the cancellation of the handler itself, in `asyncio.wait` and in `await run_task`
  (the second cancels the run task first, by asyncio's rule).
* POST handlers are not cancelled when the client disconnects (aiohttp's default).
  Conversions of workflows and values succeed or fail. A failed `rmtree` is only
  logged and is left out, as are the progress socket and the Trellis context.
* ComfyUI's queue and worker are external: one prompt at a time, items removed by
  predicate, the interrupt flag cleared at a start and polled by the running prompt.

History variables (`asked`, `doomed`, `dropped`, `files`) remember what
properties speak of and are read by no action.

### PromptService

What the peer promises of its requests, with no routes, tasks, records, polls or deadlines
in it: each has at most one piece of work and is told its end once. When it is told,
nothing of it waits (and `Put` and `Take` are for requests that were not told), what runs
was told to stop, and an `ok` is of work that is done. Only a request whose cancellation
was asked for is refused, withdrawn or stopped. `PeerPrompt` maps its queue items, its
interrupt flag, `asked` and its answers to it (`WorkOf`, `ToldOf`, `ServiceImplemented`): a
streamed request is told when its handler closes, since its runner may have returned
"cancelled" while the handler has the cancellation of its prompt still to make. What a
cancellation record does to a request that is still unknown is not a promise of the
service: the record may be given up (`RecordedCancelHeeded` says until when it is heeded).

### RemoteJob

`RemoteExecutionJob` with tasks of one event loop. A task yields in a callback's
await and at the cleanup lock; `at` says which phase it runs, `todo` is its snapshot
of the callbacks. Within a phase the code calls in registration order and the model
in any. A callback may raise; a cancellation of the caller during a callback's await
is swallowed by `_run_callbacks` (`except BaseException`) and is the same step; one
that arrives at the lock is `LockWaitCancelled`. Registration is possible at any
time before the cleanup, also by a third party during a cancellation.
`RemoteExecutionJobRegistry` is used by nothing in the code and is not modelled.

### LocalWorker

One target of `LocalWorkerManager`. Whatever is done under the lock is one step,
except a start: `_start` keeps the lock while it waits for the process
(`AcquireStarts`, then `StartReady`, `StartExits` or `StartTimesOut`). Other
targets share only the lock. `timer` is `state.shutdown_timer`; `expired` means its
thread waits for the lock; `stale` counts threads in that state whose timer the
manager has since dropped, which `Timer.cancel()` cannot stop. A process boots,
listens, closes its socket, dies; it may hang at any of these, and a wedged one
survives terminate and kill (or taskkill), which is one step (`EndProcess`). A worker that
somebody else started may listen on the port while none of ours is there.

The probe of `acquire` waits a quarter of a second, so `AcquireStarts` may find nobody
whatever listens. The process that the manager had is then replaced, neither stopped nor
remembered. `missed` is the history of the processes that were alive when a probe found
nobody, and `NoOrphan` excepts them, and wedged ones, by name: everything else that runs
is the manager's process.

### ModelTransfer

Tasks that prepare one file each for one peer, from several installations with a
coordinator each (the processes do not know each other). `Identify` to `LeaderLeaves`
follow `prepare_models_for_target`, `ModelTransferCoordinator.transfer` and
`copy_model_file_to_remote`; `Promotion...` are the steps of the script on the
peer, which go on when the local `ssh` is terminated (`PromotionFails` leaves the
promotion running). `Posix` chooses between the two scripts, which differ in the
move. A cancellation is seen at the next check and then is an exception like any
other: a step that fails stands for both. A file is its content; hashing is exact; a
local file may change at any time it is still to be read. It is read twice, for the
manifest and the coordinator (`identity`) and for the copy, which is verified against that
second hash (`copied`); nobody compares the two. `ManifestIsTrue` says what the reports are
worth nevertheless: whoever ends well, as leader, as follower or because the file was
found, has on the peer the content it identified, unless the task that copied it saw its
file change between the two. The removal of the
staging file is taken to succeed (when it fails the code logs it).

### ModelStore

What the transfer promises, with no ssh, scp, hash or coordinator in it: names that are
given a content once and for all, and preparations that are told once, a failure or the
content under their name. `ModelTransfer` maps its final files and its outcomes to it
(`ToldOf`, `StoreImplemented`).

### GroupRun

One run of a group: the sender's `_run_remote_group_async` from its lease on, or its
preparation node with the preload it may send; the peer, which is `PeerPrompt`, extended;
and the job of a streamed run as an instance of `RemoteJob`. Steps of the peer and of the
job are conjoined with what they do to the network (`HookStarts`, `PeerResumes`) or left
as they are (`PeerRuns`). `Kinds` are the ways the run may be made, each a request that the
peer may get from it; the peer's other requests are its neighbours', which it serves at the
same time (`NeighbourStep`). Conjoining with the peer's own actions is what makes the run a
behaviour of `PeerPrompt` (`RunsOnPeer`).

* A preparation's executor thread (`thread`) starts commands one after another (`command`);
  the node's cancellation sets the event `stop` and ends the commands it finds in
  `active_processes`, and the thread looks at the event before a command and while one
  runs. What the thread does for each model is `ModelTransfer`. After it the node posts
  its preload, or has none.
* The tasks of `RemoteJob` are the two call sites in `_run_streamed`: `body` is the
  `succeed` or `fail` inside the try, `handler` the `cancel` or `fail` in its except
  clauses. They run one after the other, and the second runs also when the first raised.
* `lease` is acquired by a thread, which does not notice that the run it works for was
  cancelled (`LeaseAbandoned`); the timers behind a lease are `LocalWorker`'s.
* `wire` holds what the sender wrote that the peer has not read: the peer may be
  compiling when a cancel and a close already wait for it. `envelope` is the one message
  that ends a stream. `LinkBreaks` loses both; each end then finds its side closed.
* The callbacks are the four that `_run_streamed` registers. `abort` sends the control
  and closes the socket; the session's cleanup closes it without a control; the
  interrupt flies on its own and may reach the peer before the stream's messages, or not
  at all. A callback may raise or end before its interrupt arrives: the sender only makes
  its best effort.
* A posted run is a thread that sends the request while the caller polls. `PostRaises`
  is every way the caller gets out with an error: a failure, a refusal by the peer, a
  time-out, ComfyUI's interrupt flag. The thread may still be about to connect, since
  closing its connection does not stop it: the request then arrives after the
  interrupt. `interrupt_sent` is why there is one interrupt, whether the poll or the
  except clause sends it.
* Left out: what comes before the lease (smoke, preflight, encoding) and after
  the payload (decoding); the contents of progress, of which only the rejection remains
  (`StreamFails`); a cancellation that arrives while the job's callbacks run, which they
  swallow.

### RemoteClip

Clients that encode on one peer, node after node. A client (`phase`) finds its encoder
and LoRA in the peer's inventory or uploads them, looks into its conditionings
(`Cached`), and posts a job. The peer's upload handler (`stream`) writes a temporary
file while others run and then puts it in place in one step; its encode handler
(`handler`) queues a job and polls. The worker thread (`step`) runs one job at a time
over `clips`, `active` and `loras`; it is a thread of its own, so a clear or an unload
may come between any two of its assignments (`Administer`, `DropCaches`, `ForgetKey`).

* An uploaded encoder or image is named after its hash, so its content is its name; a LoRA
  keeps the path of the client, which is why two clients may collide there (`PathFree`).
* A clear deletes the folder `cutlery_remote` of its kind: all uploaded encoders or images,
  but of the LoRAs only those that lie in a folder of that name (`Legacy`, `Deletes`), since
  LoRAs keep their paths (`docs/remote-execution.md:244`). It drops all LoRAs from memory.
* A conditioning is the record of what it was computed from. `ResultsMatchNames` compares
  it with what the payload names, whatever was cleared or uploaded since. The client's
  ordered dictionary of conditionings is a sequence of keys with bundles (`Remember`).
* `overlapped` says that a clear or unload ever fell into a job. The code does not exclude
  it: the worker may then put an encoder back that no active key names, and keep it
  until the next unload. `CachesFollowFiles` is about runs without an overlap.
* The tokens, VAE cache, the two names of a dual encoder, and node widgets are left out.

### MediaCache

The files a client writes for audio and video that come back. Calls and prompts
hold references (`refs`, `owned`); each section under `_REMOTE_MEDIA_LOCK` is one
step. A prompt's end pops its paths, releases them one by one and evicts, and other
calls come in between. The directory is the set `disk` with the order `older` of
modification times, equal ones included: eviction goes through the files that nobody
refers to in an order that extends it. `Bytes` counts the bytes of files, each a pair of a
file and a place in it. No item is larger than the limit, as the code checks before it
writes. A restart loses what is in memory and keeps the files. A video without a prompt id is
kept with no reference, as in the code, and no property promises that it stays.

An `unlink` that fails is logged and its file counts as gone (`Remaining`), so what eviction
decides to keep is only part of what is there: `left` is the history of files that the last
write's eviction failed to remove, and `WithinLimit` is about the others. Temporary files
(`parts`) stay when a write is cut off or its last `unlink` fails, are counted by nobody
and go at an eviction ten minutes later or more.

### RemoteProgress

Two halves joined by a stream. On the peer, `bar` is what a node counts with, `registry`
ComfyUI's entry, and the Trellis session (`tqdm`, `session`, `patched`, `users`) what
patches modules. On the client, the mirror refuses a snapshot with a malformed value, an
unknown node or a value that goes back (`Refused`), which ends the run; it emits a value at
once when it is the first, the last or due (`EmitsNow`), holds it back otherwise (`pending`),
and is cleared at the end. There is no clock: any node may be due at any message.

* Nodes count by tqdm or by a bar of their own (`trellis`), are shown on a local node or
  hidden by the map (`visible`), or are not in the workflow at all, because ComfyUI expanded
  them on the peer (`unmapped`), which the peer's socket filters out.
* A native bar may have any total, and 0 stands for every value that `_progress_values`
  refuses: totals and values below 0 or not finite. A tqdm bar counts only with a finite
  positive total (`_finite_total`). `OnlyNativeBarsFail` names the two causes that are left.
* `tqdm[m]` is the chain of replacements of a module's tqdm, the last one first. A session
  puts its wrapper on top; other extensions put theirs over it or under it (`OthersReplace`)
  and restore what they found, whatever was put over it since (`OthersRestore`). `stuck` is
  the history of wrappers that were covered or come from a patch that failed half-way:
  only these can outlive their session, and the next session wraps them once more.

### GroupCompiler

One action per phase of `compile_editor_remote_groups_detailed`, for a graph that is
chosen at first: which nodes the boxes hold, the check of wires between groups, the
closure of producers of runtime objects, one compilation per group in order (ports,
remote prompt, wrapper, decoders, preload workflow, cache policy), and the pruning of
producers that no longer serve anybody locally. A link names the output it carries, so
that a property can follow it through encoders, decoders and boundaries back to the
editor's node (`FromLocal`, `FromRemote`).

* The code's dictionaries of nodes are functions, and a later entry takes the place of an
  earlier one (`With`). `RemoteBody` and `LocalBody` are the nodes that were there, rewired;
  `RemoteBoundary` and `LocalBoundary` what is put around them.
* What the code collects round by round, producers to relocate (`Closure`), producers that
  can be preloaded (`Ready`), producers that stay (`Retained`), is the least set that the
  round adds nothing to. The order of the rounds has no effect on it.

## 4. The runs

| run | instance | distinct states | asks |
|---|---|---|---|
| `peer_distinct` | one streamed, one posted request, own ids, table of 1, 2 recorded interrupts, fairness | 190 873 | the peer: cancellations heeded, no orphaned work, neighbours and inputs, every request ends, and the refinement |
| `job_calls` | 3 tasks, an abort, a peer interrupt and 2 cleanups, fairness | 197 860 | the job: once, in order, errors told, every call back |
| `worker_leases` | 3 clients, 3 processes, 2 stale timers, fairness | 113 844 | the manager: no worker lost but missed ones, none kept or stopped wrongly, starts end |
| `transfer_copies` | 2 installations, 4 tasks, 3 files, 2 destinations, 1 change, Windows | 1 708 815 (symmetry of two tasks) | a transfer: one at a time, manifests true, nothing left behind, and the refinement of `ModelStore` |
| `group_ends` | one run, streamed, posted or a preparation's, a neighbour's request beside a posted one, fairness | 171 424 | a run: given up means stopped, outputs are the peer's, everything ends |
| `clip_jobs` | 2 clients, 2 + 1 nodes, 2 contents, 2 LoRA paths (one that a clear deletes), 1 clear or unload, 1 conditioning kept | 1 029 694 | CLIP: no orphaned jobs, caches, results, LoRA files |
| `media_outputs` | 3 calls, 2 prompts, 3 contents of different sizes, room for less than all, 1 restart | 449 980 (symmetry of calls, prompts and two files) | the media cache: counts, files in use, limit |
| `progress_mirror` | a run with 2 nodes of any kind and a stream, 2 modules, 1 other extension, totals 0 to 2, 2 bars, 2 snapshots | 513 232 (symmetry of modules and nodes) | progress: nothing lost, ended by native bars only, never back, modules restored |
| `compiler_graphs` | all graphs of 4 nodes of the chosen kinds, 2 boxes | 928 606 | the compiler: inputs, dangling links, executed once |
| `group_lease` | as `group_ends` | violation | is a lease always given back? |
| `group_preload` | as `group_ends` | violation | is a preload that is given up stopped? |
| `compiler_targets` | graphs of 3 nodes with all types of wires | violation | does a group ever depend on another's target? |

Bounds, and why they are enough for what the runs are to show:

* *Two requests*: cancelling, cleaning up and timing out concern one prompt id; the
  second request is the neighbour. One is streamed and one posted, so each route
  is exercised against the other.
* *A table of one entry* (4096 in the code) makes the eviction path as common as
  possible; *`MaxRecords`* of 2 records one id and evicts it by the other. (Three records,
  643 303 states without fairness, show nothing more.)
* *Three callers of a job* are a canceller, a finisher or second canceller, and a
  direct caller of cleanup; two cleanup callbacks are needed for one to be called
  while the other is still to come.
* *Three clients, three processes*: one waits while another starts and a third
  holds a lease; ids of dead processes are used again.
  One may replace a missed one, and the third that one.
* *`MaxStale`* of 2: two timer threads that both wait for the lock.
* *Four tasks*: a leader and a follower of one file, one that waits for the target,
  and one of another installation with another content under the same name.
  *`MaxChanges`* of 1: a change may fall between any two reads.
* *One run* has one prompt id and sends one interrupt, so `group_ends` gives its peer one
  record and a table of one: the two-hour expiry may take the record, the table's limit
  does not. A neighbour's request shares the queue, the worker and the interrupt flag with
  a posted run (`BesidePosted`, a state constraint; the neighbour has no fairness, so that
  it cuts off no liveness of the behaviours it keeps). Beside a streamed run the instance
  has more than seven million states: there, and for any number of neighbours, the safety
  properties rest on the theorems. The violations need no neighbour.

* *CLIP*: the first client's two nodes make it use its cache and change its mind about the
  LoRA; the second client has another content under the same path and an image or an
  installed encoder. One of the two LoRA paths is in the folder that a clear deletes. One
  clear or unload may fall anywhere.
* *Media*: three calls so that two share a file or a prompt while the third evicts; the
  limit is the size of some two files but not of all.
* *Progress*: two bars make a restart, nested and following bars; two snapshots on the
  way make one that is old when it is read. The second run has no node: it shares the
  Trellis session only. Bars and modules share no variable but `peer`, so two state
  constraints explore each without the other: bars with no module loaded and no other
  stream, modules and two streams with no bar begun (`OneHalf`); and of the bars, one node
  that starts twice or two nodes that start once (`FewBars`). The theorems have no such
  bounds.
* *Compiler*: four nodes are the least for a producer, its own input, and two consumers;
  `Wide` has every graph with two types of wires and one special node, `Odd` every type
  of wire on three nodes and the places where boxes overlap. Two groups, since
  compilation is one group after the other.

Deadlock is checked for `LocalWorker`, where something can always happen. The
instances of the others really end (every request answered, every call back, every
task done), and their configurations switch the deadlock check off.

Fairness, only where a run checks liveness:

* `PeerPrompt`: the event loop resumes a coroutine whose await is over; the compiler
  and `validate_prompt` return; time passes, so that a poll reaches its deadline.
  Nothing is assumed of the worker thread, the clients or interrupts.
* `RemoteJob`: every callback ends (each has a timeout of its own in the streamed
  executor) and the loop resumes whoever can go on.
* `GroupRun`: a worker starts or its start is given up; both event loops go on; the peer
  waits thirty seconds for a start message; a posted request and an interrupt have
  timeouts; the preparation's thread goes on. Nothing is assumed of the network, of the
  peer's worker thread, of ssh and scp, or of cancellation.
* `LocalWorker`: timers expire and their threads get to run, and the loop that waits
  for a start ends at its deadline. Clients need not come, nor release.

`RemoteClip`, `MediaCache`, `RemoteProgress` and `GroupCompiler` are checked for safety and
state no fairness.

### What the violations show

* `group_lease`: a streamed run that is cancelled in `await asyncio.to_thread(...)`, before
  its try (`nodes_remote.py:3020`), leaves a lease that nobody releases: the worker is
  never idle again (`docs/remote-execution.md:67`). Its job is not finished and its
  session not closed, which is why `JobEndsWithRun` speaks of runs that had their lease.
* `group_preload`: a preparation that is cancelled, or times out, while its preload runs
  tells the peer nothing (`nodes_remote.py:2707`, against
  `docs/remote-execution.md:192`). The prompt runs on to its own end or to the peer's
  deadline; `GivenUpIsStopped` is therefore about the run itself.
* `compiler_targets`: a producer outside both groups that takes a serialisable value from
  the first and feeds the second a runtime object is relocated, and the second wrapper
  then takes the first one's output (`group_compiler.py:521`, against
  `docs/remote-execution.md:136`). `SameInputs` shows that the values are still right.

Seen with the models, and not kept as runs:

* With `Posix = TRUE` `StoreImplemented` fails: `[ -e "$final" ]` and `mv` are two steps
  (`model_transfer.py:348` and `362`), and another installation's file that came in
  between is replaced.
* `acquire` probes its worker for a quarter of a second (`local_worker.py:73`). A live worker
  that does not answer in time, hung or only slow, is overwritten by the process of `_start`
  (line 130), and no timer and no `stop_all` ever stops it: without its exception for
  `missed`, `NoOrphan` fails within a few steps.
* A file that changes between its hash (`model_preparation.py:492` passes the first one) and
  that of `_source_integrity` (`model_transfer.py:416`) is copied as it is now, verified
  against the second hash, and reported "transferred" in a manifest with the first.
* The media directory as a whole has no bound: files that cannot be unlinked count as gone
  (`nodes_remote.py:1187`, `1196`), and temporary files count for nothing (1178).
* A native bar of total 0 on the peer ends the run at the client
  (`progress.py:341`), as a bar that starts again does.
* A wrapper of tqdm that another extension has covered stays when its session ends
  (`trellis_progress.py:102`), and the next session wraps the module again: the proxies are
  then nested. `WrappersGivenBack` names that exception.
* A cancel control that is read while the prompt is being validated is lost
  (`nodes_remote.py:1463`); the sender's own cancellation also posts to the interrupt
  route, which records. `GivenUpIsStopped` shows that this is enough.
* A direct `cleanup()` overtakes the phases of a cancellation (`remote_job.py:150`): the
  condition in `PhaseOrder`. The streamed executor never calls it directly.
* A timer thread that lost the race for the lock stops an idle worker in a later quiet
  period (`local_worker.py:179`). `LeasedWorkerKept` shows that it never stops a leased
  one.
* Two requests that share a prompt id consume each other's record and remove each other's
  inputs; `NeighboursUntouched` and `TaskEndsWithHandler` hold all the same.

## 5. What is proved

The constants' assumptions are `RequestsAssumption`, `LimitsAssumption`,
`KindsAssumption`, `JobAssumption`, `WorkerAssumption`, `TransferAssumption`, `ClipAssumption`,
`MediaAssumption`, `ProgressAssumption` and `CompilerAssumption`: functions have their domains, null values are
no members, limits are numbers, no media item is larger than the limit, and a Qwen node
names its encoder. TLC evaluates them in the runs. Sets of clients, calls or runs may be
infinite unless a count of them appears, and then only those that take part are finite.

* **GroupRunProofs**, the peer. `TypeCorrect`. `CancellationHeeded`, `NothingOrphaned` and
  `NoTaskSurvives`, from `Inv`. They assume `OnePromptPerRequest` (ids are fresh, as
  the streamed client makes them): with a shared id one request consumes the record
  that was meant for both. Neither property is inductive. A doomed request must still
  *have* its record (`DoomedRecorded`), and losing it must be the table's doing; that a
  poll that returns leaves nothing queued needs that history belongs to one item, which
  is then done (`OwnHistory`), that nothing is queued before the put (`Unqueued`), and
  that only the handler cancels a run task (`StoppedByHandler`). `NeighboursGoOn` needs no
  such assumption, only that one prompt runs at a time, which makes the interrupt flag the
  running one's (`OneRunning`). `InputsThere` needs that a directory's marker, the guard of
  the request that wrote it and the place of its item go together (`Inputs`, `InputsInv`).
  `PeerImplementsService` is the refinement of `PromptService`, under the same assumption as
  the first: a step of a runner or a stream tells at most its own request (`RunStepTells`,
  `StreamStepTells`), each `cancel_prompt` withdraws one request's work (`CancelSimulates`),
  and who was told its end is settled (`ToldSettled`), which follows from `Inv` and from
  what the answers say: an "ok" is of an item that is done, a conflict of a prompt whose
  cancellation was asked for, as every record is (`Answers`).
* **GroupRunProofs**, a run from both ends. `RunsOnPeer`: each of its steps is a step of the
  peer or leaves it alone, so all that holds of `PeerPrompt` holds beside any sender and
  network (`NeighboursOfRun` and `ServiceBesideRun` are two cases). `RunsItsJob` says the same
  of `RemoteJob`'s steps, from the state in which the callbacks are registered. `GroupTypeCorrect`.
  `JobEnds` from `SenderInv`: one of the two call sites calls the job, and once (`OneCall`),
  the cleanup belongs to that call (`OneCleanup`), the job is called from within the try
  (`Places`), and a call that is past the session's callback has closed the socket (`Hooked`).
  None of the parts is inductive alone: that the except clause never calls a job that is over
  (`StreamCases`) needs the first three, and they need it. `GivenUpStops` and
  `OutputsAreReal` add the peer's part (`RunInv`), under `OnePromptPerRequest`. A run that was
  given up has sent its interrupt, in the job's peer-interrupt phase or from the poster's
  except clause (`Hooked`, `Left`, `GivenUpInterrupts`); an interrupt that arrives is heeded
  wherever its request is, unknown, being validated, queued or running (`InterruptIsHeeded`),
  and stays heeded through every later step of the peer (`HeededStays`), which covers all
  orders of arrival. An "ok" of the peer is final and its prompt's history with it
  (`OkStays`, `OkIsHistory`), and a result on its way, in the job or given out comes from one
  (`Answered`). The lemmas about `RemoteJob`'s actions (`JobTypeStep`, `PhaseStep`) are
  proved for the instance, since theorems are not cited through `INSTANCE ... WITH`.
* **RemoteJobProofs.** `TypeCorrect`, `CallbacksRunOnce`, `InterruptsAreCancellations`,
  `CleanupIsComplete`, `ErrorsReachEverybody`, `PhasesInOrder` and `FirstCallDecides`, from
  `Inv`: there is one canceller and
  only it is in the cancellation's phases (`OneCanceller`); `cleanup` is run by the
  lock's holder (`LockHeld`); what is on a snapshot was not called yet (`Snapshot`);
  what was called belongs to a phase the canceller has reached (`Attempted`); once
  cleaned, each accepted cleanup callback was called or is on the holder's list
  (`CleanupCalls`); an accepted `succeed()` or `fail()` is still what the job's
  state says (`Finished`, an invariant on top of the others). A job is only cleaned by a
  task that came through its cleanup phase (`CleanedBySomebody`), which keeps a
  cancellation's phases in order; `ErrorsReported` is inductive beside these.
* **LocalWorkerProofs.** `TypeCorrect`, `OnlyMissedAreLost` and `NotStoppedUnderLease`, from
  `IInv`: the lock is held by the thread that waits for a start (`LockHeld`);
  `active_leases` is the number of threads that use the worker (`Counted`), which is what a
  timer looks at; an expired timer has room to be dropped (`TimerRoom`). `NoOrphan` is
  inductive beside these: a process is only replaced by an acquire, which enters it in
  `missed`, and only dropped dead or wedged.
* **ModelTransferProofs.** `TypeCorrect`, `TransfersAreSerial`, `NobodyWaitsInVain`
  and `StagingIsRemoved` from `CoordInv`, for both kinds of peers: the target is held
  by exactly its leader (`Held`), a follower's owner identified the same content and is
  at work or has settled (`Owned`), nothing partial is ever accepted (`Verified`), and a staging file belongs to a task
  before its removal or to a promotion that still works on it (`StagedInUse`).
  `ReportsAreTrue` (`TransferredIsThere`, which `StoreImplemented` implies and no run lists
  again) from `PeerInv` under the assumption `~Posix`: a promotion knows its content however
  late it runs. `TransferImplementsStore`, under the same assumption, is
  the refinement of `ModelStore`: a step of a task tells at most that task something
  (`TaskSimulates`), what others were told stays (`ToldStays`), and a promotion puts a
  content under a free name or changes nothing (`PromotionSimulates`). It needs, besides
  the invariants above, that a task asks the peer for a content it hashed (`Identified`).
  `ManifestsAreTrue`, again for Windows, adds that a follower identified what its owner did
  (`Shares`) and that a file the peer was found to have stays (`FoundStays`). Without the
  assumption none of the three is proved, and the refinement is false.

* **RemoteClipProofs.** `TypeCorrect`, `NoJobLeftBehind`, `MemoryFollowsFiles`,
  `AnswersFitNames` and `LorasAreKept`, from `IInv`, in three parts. What was sent stays
  what it is: only a node that waited has a request at the peer (`SentWhenWaiting`), it
  names an encoder (`NamesEncoder`), and an upload, which would change the names, belongs
  to a node that has sent nothing (`UploadsBelong`). A job is queued, then runs, then has
  its history, never two of them (`JobsInOrder`), the LoRA the worker thread has read is
  there exactly if the job names one (`LoadedFits`), and what is in the history or the
  client's cache answers its names (`HistoryAnswers`, `Entries` in `TypeOK`). And as long
  as no clear or unload fell into a job (`OneAtATime`), the memory agrees with itself and
  with the files up to the assignments a step has still to make (`EncoderFits`, `LorasFit`).
* **MediaCacheProofs.** `TypeCorrect`, `CountsAreExact`, `FilesInUseStay` and
  `DirectoryWithinLimit`, from `IInv`: a call has a file as long as it holds it, for a prompt
  that goes on (`CallsHold`); a prompt has files until it ends and releases them then
  (`PromptsOwn`); users are finitely many (`FiniteUsers`); what is referred to is there
  (`ReferredToStays`), because eviction only takes what is not. The limit rests on lemmas
  about what a file adds to and takes from the bytes (`BytesOfMore`, `BytesOfLess`) and
  on when eviction stops (`DiskInv`); files whose unlink failed are excepted, since nothing
  in the code bounds them.
* **RemoteProgressProofs.** `TypeCorrect`, `NoUpdateForgotten`, `RefusalsAreNative`,
  `TqdmGivenBack` and `BarNeverGoesBack`, from `IInv`: a registry entry is what the node's
  bars add up to (`BarsReported`); unless a native bar began again, values only grow from
  what the mirror accepted over every snapshot on the stream to the registry (`InOrder`);
  unless one had no positive total, every entry in the registry and on the stream is well
  formed (`WellFormed`); no node that the workflow lacks is on the stream (`MappedOnWire`);
  what is shown is accepted or older (`ShownBehind`); the session counts the streams inside
  (`UsersInside`); and a wrapper that is not stuck is on top of its module and of the session
  that goes on (`WrappersOnTop`).

* **GroupCompilerProofs.** `TypeCorrect`, `InputsAreTheSame`, `NothingDangles` and
  `ExecutedOnceOnly`, from `IInv`, for any graphs, boxes and number of groups. None of the
  three is inductive, since they speak of the compiled prompts only, and each group is
  compiled in a prompt that earlier groups have rewritten. The invariant says of every link
  what it `Carries` at that time: an original output, either directly, if no compiled group
  contains its node (`Stays`), or by the port of the group that contains it. One compilation
  leads each link that stays to where its output now is (`LedCarries`), takes over the links
  that enter as they are (`EnteringCarries`), and gives a port to every output that leaves
  (`PortsMade`); what carries an output is read as that output (`Reading`). Besides, the
  local prompt has exactly the nodes that are left and those that were added (`LocalShape`),
  and a remote prompt the group's nodes and its boundary (`RemoteShape`). That pruning
  leaves nothing dangling, and that a preload workflow is complete, rests on the fixed
  points: what has a consumer that stays is retained (`RetainedKeeps`), and what is ready
  takes values of ready producers only (`ReadyTakesReady`).

The inductive invariants of the theorems above were checked with TLC on the instances of
the runs before they were proved; the runs themselves state the properties they imply.

Only model-checked: all liveness (`EveryRequestEnds`, `EveryCallReturns`, `StartsEnd`,
`IdleWorkerStops`, `EveryRunEnds`), which is out of the prover's reach, like `ENABLED`.

## 6. Not modelled

Listed in `PROJECT.json` with the reasons. The digest cache, whose correctness depends on
how finely a file system stamps modifications; the job registry, which nothing uses;
interruptible subprocesses. The rest converts data or reads configuration: node catalogues,
model inventory and inputs, serialization and blobs, capabilities, LoRA chains, VRAM
helpers, the browser extensions. The hazards without a property carry a note each.
