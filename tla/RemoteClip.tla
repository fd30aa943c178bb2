----------------------------- MODULE RemoteClip -----------------------------
(***************************************************************************)
(* Remote CLIP (nodes_remote_clip.py): clients that encode prompts on a    *)
(* peer.  A client looks for its encoder and its LoRA in the peer's        *)
(* inventory, uploads what is missing, looks into its cache of             *)
(* conditionings and otherwise posts a job; the peer queues the job as a   *)
(* prompt and polls for its history.  The job runs on ComfyUI's worker     *)
(* thread over caches of one encoder and of LoRAs, while requests on the   *)
(* event loop upload, clear files, and unload the caches.                  *)
(***************************************************************************)
EXTENDS Naturals, FiniteSets, SequencesExt

CONSTANTS
  Clients,      \* ComfyUI instances that use the peer
  Wants,        \* Wants[c][n]: what client c's n-th node may encode with
  Local,        \* Local[c]: content of client c's own encoder and LoRA files
  Contents,     \* contents of files
  Installed,    \* encoders the peer was installed with
  Loras,        \* LoRA paths
  Legacy,       \* those in the folder cutlery_remote, the only ones a clear deletes
  NoName,       \* no name, no encoder, no request
  NoContent,    \* no file
  Runs,         \* Runs[c]: how many nodes client c executes
  MaxAdmin,     \* clear and unload requests
  CacheLimit    \* conditionings a client keeps

Requests == UNION {{c} \X (1..Runs[c]) : c \in Clients}

\* An uploaded encoder or image is named after its hash: its content is its name.
\* A dual encoder's pair of names counts as one encoder.
Encoders == Installed \cup Contents
Kinds == {"clip", "lora", "image"}

\* What a job names: an encoder, a LoRA path or none, an image or none.
Payloads == [clip : Encoders \cup {NoName}, lora : Loras \cup {NoName},
             image : Contents \cup {NoName}]
NoPayload == [clip |-> NoName, lora |-> NoName, image |-> NoName]

\* A Qwen node, which has an image, names its encoder itself.
ASSUME ClipAssumption ==
  /\ \A c \in Clients : Local[c] \in Contents /\ Runs[c] \in Nat
  /\ \A r \in Requests : \A w \in Wants[r[1]][r[2]] :
       w \in Payloads /\ (w.image # NoName => w.clip \in Encoders)
  /\ NoName \notin Encoders \cup Loras \cup Requests
  /\ NoContent \notin Contents \cup {NoName}
  /\ Contents \cap Installed = {}
  /\ Legacy \subseteq Loras
  /\ CacheLimit \in Nat \ {0}

\* A conditioning is what it was computed from; an error is none.
Bundles == [clip : Encoders, lora : Contents \cup {NoContent},
            image : Contents \cup {NoName}]
NoHistory == [clip |-> NoName, lora |-> NoContent, image |-> NoName]
Error == [NoHistory EXCEPT !.lora = NoName]

NoStream == [kind |-> "none", name |-> NoName, tmp |-> FALSE]

VARIABLES
  phase,        \* phase[r]: where the client's node is
  want,         \* want[r]: what it was asked to encode with
  payload,      \* payload[r]: the names it found or uploaded
  conditioning, \* conditioning[c]: the client's cache, oldest first
  owed,         \* clients that wait for the answer to a clear
  stream,       \* stream[r]: the peer's upload handler
  handler,      \* handler[r]: the peer's encode handler
  queue,        \* jobs in the peer's prompt queue
  running,      \* the job on the worker thread
  step,         \* where the worker thread is in it
  loaded,       \* the LoRA the worker thread has read
  interrupted,  \* whether it was told to stop
  history,      \* history[r]: ComfyUI's history: nothing, an error or a bundle
  stored,       \* stored[k]: uploaded encoders and images, by content
  lora,         \* lora[l]: content of the LoRA at a path
  clips,        \* _CLIP_CACHE: the encoders in memory
  active,       \* _ACTIVE_CLIP_KEY
  loras,        \* _LORA_CACHE
  loop,         \* what the event loop is in the middle of
  admin,        \* clear and unload requests so far
  overlapped    \* whether one of them ever overlapped a job

clientVars == <<phase, want, payload, conditioning, owed>>
handlerVars == <<stream, handler>>
workerVars == <<queue, running, step, loaded, interrupted, history>>
fileVars == <<stored, lora>>
cacheVars == <<clips, active, loras>>
loopVars == <<loop, admin, overlapped>>
vars == <<clientVars, handlerVars, workerVars, fileVars, cacheVars, loopVars>>

Init ==
  /\ phase = [r \in Requests |-> "idle"]
  /\ want = [r \in Requests |-> NoPayload]
  /\ payload = [r \in Requests |-> NoPayload]
  /\ conditioning = [c \in Clients |-> <<>>]
  /\ owed = {}
  /\ stream = [r \in Requests |-> NoStream]
  /\ handler = [r \in Requests |-> "none"]
  /\ queue = {}
  /\ running = NoName
  /\ step = "idle"
  /\ loaded = NoContent
  /\ interrupted = FALSE
  /\ history = [r \in Requests |-> NoHistory]
  /\ stored = [k \in {"clip", "image"} |-> {}]
  /\ lora = [l \in Loras |-> NoContent]
  /\ clips = {}
  /\ active = NoName
  /\ loras = [l \in Loras |-> NoContent]
  /\ loop = <<"free">>
  /\ admin = 0
  /\ overlapped = FALSE

-----------------------------------------------------------------------------
\* The client's node, on its worker thread.

\* Where a node goes once it knows its encoder: a Qwen node uploads its image
\* and applies no LoRA.
AfterClip(r) == IF want[r].image # NoName THEN "image" ELSE "lora"

\* A node executes.  A Qwen node takes the encoder's name as it is.  Bound: a
\* client stops at its first failure.
Start(r, w) ==
  /\ phase[r] = "idle"
  /\ r[2] > 1 => phase[<<r[1], r[2] - 1>>] = "done"
  /\ want' = [want EXCEPT ![r] = w]
  /\ phase' = [phase EXCEPT ![r] = IF w.image # NoName THEN "image" ELSE "clip"]
  /\ payload' = [payload EXCEPT ![r].clip = IF w.image # NoName THEN w.clip ELSE NoName]
  /\ UNCHANGED <<conditioning, owed, handlerVars, workerVars, fileVars,
                 cacheVars, loopVars>>

\* The names that the peer's inventory offers for an encoder: its own name, or an
\* uploaded file with the same base name.
Offered(clip) == IF clip \in Installed THEN {clip} ELSE stored["clip"]

\* A LoRA is offered by its path.
OffersLora(path) == path # NoName /\ lora[path] # NoContent

\* A client without an offer uploads its own file.
FindClip(r) ==
  /\ phase[r] = "clip"
  /\ \/ /\ Offered(want[r].clip) = {}
        /\ phase' = [phase EXCEPT ![r] = "uploadClip"]
        /\ UNCHANGED payload
     \/ \E name \in Offered(want[r].clip) :
          /\ payload' = [payload EXCEPT ![r].clip = name]
          /\ phase' = [phase EXCEPT ![r] = AfterClip(r)]
  /\ UNCHANGED <<want, conditioning, owed, handlerVars, workerVars, fileVars,
                 cacheVars, loopVars>>

FindLora(r) ==
  /\ phase[r] = "lora"
  /\ LET path == want[r].lora
     IN /\ payload' = [payload EXCEPT ![r].lora = IF OffersLora(path) THEN path ELSE NoName]
        /\ phase' = [phase EXCEPT ![r] =
             IF path = NoName \/ OffersLora(path) THEN "lookup" ELSE "uploadLora"]
  /\ UNCHANGED <<want, conditioning, owed, handlerVars, workerVars, fileVars,
                 cacheVars, loopVars>>

\* What a node that ends leaves of its locals: the peer still has its job.
Ends(r, how) ==
  /\ phase' = [phase EXCEPT ![r] = how]
  /\ want' = [want EXCEPT ![r] = NoPayload]
  /\ payload' = [payload EXCEPT ![r] = IF handler[r] = "none" THEN NoPayload ELSE @]

\* Slip: the key leaves the LoRA out.
Cached_AnyLora(c, key) ==
  {i \in DOMAIN conditioning[c] :
     [conditioning[c][i].key EXCEPT !.lora = NoName] = [key EXCEPT !.lora = NoName]}

\* Where a client has a conditioning for a key: the names in the payload, not the
\* contents behind them.
Cached(c, key) == {i \in DOMAIN conditioning[c] : conditioning[c][i].key = key}

\* What a client remembers is moved to the end; the oldest gives way.
Remember(c, key, bundle) ==
  LET old == conditioning[c]
      others == IF Cached(c, key) = {} THEN old
                ELSE RemoveAt(old, CHOOSE i \in Cached(c, key) : TRUE)
      all == Append(others, [key |-> key, bundle |-> bundle])
  IN IF Len(all) > CacheLimit THEN Tail(all) ELSE all

LookUp(r) ==
  /\ phase[r] = "lookup"
  /\ LET c == r[1]
         hits == Cached(c, payload[r])
     IN \/ /\ \E i \in hits : conditioning' = [conditioning EXCEPT ![c] =
                Remember(c, payload[r], conditioning[c][i].bundle)]
           /\ Ends(r, "done")
        \/ /\ hits = {}
           /\ phase' = [phase EXCEPT ![r] = "waiting"]
           /\ UNCHANGED <<conditioning, want, payload>>
  /\ UNCHANGED <<owed, handlerVars, workerVars, fileVars, cacheVars,
                 loopVars>>

\* The node is interrupted, or a request of it times out or is refused.  What it
\* started on the peer goes on.
GiveUp(r) ==
  /\ phase[r] \in {"clip", "uploadClip", "lora", "uploadLora", "image", "waiting"}
  /\ Ends(r, "failed")
  /\ UNCHANGED <<conditioning, owed, handlerVars, workerVars, fileVars, cacheVars,
                 loopVars>>

-----------------------------------------------------------------------------
\* Upload handlers of the peer.

Free == loop = <<"free">>

UploadKind(r) == CASE phase[r] = "uploadClip" -> "clip"
                   [] phase[r] = "uploadLora" -> "lora"
                   [] OTHER -> "image"

UploadStarts(r) ==
  /\ Free
  /\ phase[r] \in {"uploadClip", "uploadLora", "image"}
  /\ stream[r] = NoStream
  /\ stream' = [stream EXCEPT ![r] =
       [kind |-> UploadKind(r), tmp |-> TRUE,
        name |-> IF UploadKind(r) = "lora" THEN want[r].lora ELSE Local[r[1]]]]
  /\ UNCHANGED <<clientVars, handler, workerVars, fileVars, cacheVars, loopVars>>

\* Where a client goes on once it has been told the name of its upload.
Told(r, name) ==
  IF phase[r] = "failed" THEN UNCHANGED <<phase, payload>>
  ELSE /\ phase' = [phase EXCEPT ![r] =
            IF stream[r].kind = "clip" THEN AfterClip(r) ELSE "lookup"]
       /\ payload' = [payload EXCEPT ![r] =
            CASE stream[r].kind = "clip" -> [payload[r] EXCEPT !.clip = name]
              [] stream[r].kind = "lora" -> [payload[r] EXCEPT !.lora = name]
              [] OTHER -> [payload[r] EXCEPT !.image = name]]

\* The stream is complete and its hash as declared: a file named after its hash is
\* there.  With no await after the last chunk, the test for the path and the
\* replacement are one step.
UploadComplete(r, kind) ==
  /\ Free
  /\ stream[r].kind = kind
  /\ stream[r].tmp \/ stream[r].name \in stored[kind]
  /\ stored' = [stored EXCEPT ![kind] = @ \cup {stream[r].name}]
  /\ stream' = [stream EXCEPT ![r] = NoStream]
  /\ Told(r, stream[r].name)
  /\ UNCHANGED <<want, conditioning, owed, handler, workerVars, lora, cacheVars,
                 loopVars>>

UploadClip(r) == UploadComplete(r, "clip")
UploadImage(r) == UploadComplete(r, "image")

\* Slip: whatever is at the path is replaced.
PathFree_Replaces(r, content) == stream[r].tmp

\* A LoRA's path is taken by the same file or by none.
PathFree(r, content) ==
  \/ lora[stream[r].name] = content
  \/ lora[stream[r].name] = NoContent /\ stream[r].tmp

UploadLora(r) ==
  /\ Free
  /\ stream[r].kind = "lora"
  /\ PathFree(r, Local[r[1]])
  /\ lora' = [lora EXCEPT ![stream[r].name] = Local[r[1]]]
  /\ stream' = [stream EXCEPT ![r] = NoStream]
  /\ Told(r, stream[r].name)
  /\ UNCHANGED <<want, conditioning, owed, handler, workerVars, stored, cacheVars,
                 loopVars>>

\* The upload is cut, too large, not of the declared hash, in conflict with the
\* file at its path, or lost its temporary file to a clear.
UploadFails(r) ==
  /\ Free
  /\ stream[r] # NoStream
  /\ stream' = [stream EXCEPT ![r] = NoStream]
  /\ Ends(r, "failed")
  /\ UNCHANGED <<conditioning, owed, handler, workerVars,
                 fileVars, cacheVars, loopVars>>

-----------------------------------------------------------------------------
\* Encode handlers of the peer: _submit_remote_clip_job between its awaits.

\* The request arrives, is validated and put into the queue, or refused.
Arrive(r) ==
  /\ Free
  /\ phase[r] = "waiting"
  /\ handler[r] = "none"
  /\ \/ handler' = [handler EXCEPT ![r] = "polling"] /\ queue' = queue \cup {r}
     \/ handler' = [handler EXCEPT ![r] = "refused"] /\ UNCHANGED queue
  /\ UNCHANGED <<clientVars, stream, running, step, loaded, interrupted, history,
                 fileVars, cacheVars, loopVars>>

PollFindsHistory(r) ==
  /\ Free
  /\ handler[r] = "polling"
  /\ history[r] # NoHistory
  /\ handler' = [handler EXCEPT ![r] =
                   IF history[r] = Error THEN "refused" ELSE "answered"]
  /\ UNCHANGED <<clientVars, stream, workerVars, fileVars, cacheVars, loopVars>>

\* Slip: only what is queued is cancelled.
CancelJob_Queued(r) == queue' = queue \ {r} /\ UNCHANGED interrupted

\* _cancel_remote_clip_job: out of the queue, or interrupted if it runs.
CancelJob(r) ==
  /\ queue' = queue \ {r}
  /\ interrupted' = (interrupted \/ running = r)

\* The deadline is over, or the handler itself is cancelled in its sleep.
PollStops(r) ==
  /\ Free
  /\ handler[r] = "polling"
  /\ history[r] = NoHistory
  /\ handler' = [handler EXCEPT ![r] = "refused"]
  /\ CancelJob(r)
  /\ UNCHANGED <<clientVars, stream, running, step, loaded, history, fileVars,
                 cacheVars, loopVars>>

\* The client's node has its answer.
Receive(r) ==
  /\ phase[r] = "waiting"
  /\ handler[r] \in {"answered", "refused"}
  /\ IF handler[r] = "answered"
     THEN /\ Ends(r, "done")
          /\ conditioning' = [conditioning EXCEPT ![r[1]] =
                                Remember(r[1], payload[r], history[r])]
     ELSE /\ Ends(r, "failed")
          /\ UNCHANGED conditioning
  /\ UNCHANGED <<owed, handlerVars, workerVars, fileVars, cacheVars,
                 loopVars>>

-----------------------------------------------------------------------------
\* ComfyUI's worker thread runs a job's node, whatever the event loop does.

Job == payload[running]

Goto(s) == step' = s /\ UNCHANGED <<queue, running, interrupted, history>>

NoLoras == [l \in Loras |-> NoContent]

\* Slip: the other encoder stays.
Ensure_Nothing(clip) == UNCHANGED cacheVars

\* _ensure_active_key: another encoder is unloaded first.
Ensure(clip) ==
  IF active \notin {NoName, clip}
  THEN clips' = {} /\ active' = NoName /\ loras' = NoLoras
  ELSE UNCHANGED cacheVars

\* A prompt is taken and its node begins.
WorkerTakes(r) ==
  /\ running = NoName
  /\ r \in queue
  /\ queue' = queue \ {r}
  /\ running' = r
  /\ step' = "clip"
  /\ UNCHANGED interrupted
  /\ Ensure(payload[r].clip)
  /\ overlapped' = (overlapped \/ ~Free)
  /\ UNCHANGED <<clientVars, handlerVars, loaded, history, fileVars, loop, admin>>

WorkerReadsClip ==
  /\ step = "clip"
  /\ \/ Job.clip \in clips /\ Goto("activate")
     \/ /\ Job.clip \notin clips
        /\ Job.clip \in Installed \cup stored["clip"]
        /\ Goto("insert")
  /\ UNCHANGED <<clientVars, handlerVars, loaded, fileVars, cacheVars, loopVars>>

WorkerCachesClip ==
  /\ step = "insert"
  /\ clips' = clips \cup {Job.clip}
  /\ Goto("activate")
  /\ UNCHANGED <<clientVars, handlerVars, loaded, fileVars, active, loras, loopVars>>

WorkerActivates ==
  /\ step = "activate"
  /\ active' = Job.clip
  /\ Goto(IF Job.lora # NoName THEN "lora"
          ELSE IF Job.image # NoName THEN "image" ELSE "encode")
  /\ UNCHANGED <<clientVars, handlerVars, loaded, fileVars, clips, loras, loopVars>>

WorkerReadsLora ==
  /\ step = "lora"
  /\ \/ /\ loras[Job.lora] # NoContent
        /\ loaded' = loras[Job.lora]
        /\ Goto("encode")
     \/ /\ loras[Job.lora] = NoContent
        /\ lora[Job.lora] # NoContent
        /\ loaded' = lora[Job.lora]
        /\ Goto("insertLora")
  /\ UNCHANGED <<clientVars, handlerVars, fileVars, cacheVars, loopVars>>

WorkerCachesLora ==
  /\ step = "insertLora"
  /\ loras' = [loras EXCEPT ![Job.lora] = loaded]
  /\ Goto("encode")
  /\ UNCHANGED <<clientVars, handlerVars, loaded, fileVars, clips, active, loopVars>>

WorkerReadsImage ==
  /\ step = "image"
  /\ Job.image \in stored["image"]
  /\ Goto("encode")
  /\ UNCHANGED <<clientVars, handlerVars, loaded, fileVars, cacheVars, loopVars>>

WorkerEnds(entry) ==
  /\ history' = [history EXCEPT ![running] = entry]
  /\ running' = NoName
  /\ step' = "idle"
  /\ loaded' = NoContent
  /\ interrupted' = FALSE
  /\ UNCHANGED <<clientVars, handlerVars, queue, fileVars, cacheVars,
                 loopVars>>

WorkerEncodes ==
  /\ step = "encode"
  /\ WorkerEnds([clip |-> Job.clip, lora |-> loaded, image |-> Job.image])

\* A file is missing, a load or the encoder raises, or the prompt is
\* interrupted; nothing can raise between the two assignments of a load.
WorkerFails ==
  /\ running # NoName
  /\ step # "activate"
  /\ WorkerEnds(Error)

-----------------------------------------------------------------------------
\* Clear and unload requests keep the event loop, not the worker thread.

Administer ==
  /\ Free
  /\ admin < MaxAdmin
  /\ admin' = admin + 1
  /\ overlapped' = (overlapped \/ running # NoName)
  /\ UNCHANGED <<workerVars, cacheVars, handler>>

Unload ==
  /\ Administer
  /\ loop' = <<"unload", "caches">>
  /\ UNCHANGED <<clientVars, stream, fileVars>>

\* Slip: the folders of all LoRAs are emptied.
Deletes_AllLoras(kind, name) == TRUE

\* The clear of a kind deletes what is in the folder cutlery_remote: all uploaded
\* encoders and images, but of the LoRAs, that keep their paths, only those that
\* were in a folder of that name.
Deletes(kind, name) == kind = "lora" => name \in Legacy

\* A client's clear: its own event loop waits for the peer, which first deletes
\* the files, those of uploads in progress in that folder too.
Clear(c, kind) ==
  /\ Administer
  /\ c \notin owed
  /\ loop' = <<kind, "caches">>
  /\ owed' = owed \cup {c}
  /\ IF kind = "lora"
     THEN /\ lora' = [l \in Loras |-> IF Deletes(kind, l) THEN NoContent ELSE lora[l]]
          /\ UNCHANGED stored
     ELSE stored' = [stored EXCEPT ![kind] = {}] /\ UNCHANGED lora
  /\ stream' = [r \in Requests |->
       IF stream[r].kind = kind /\ Deletes(kind, stream[r].name)
       THEN [stream[r] EXCEPT !.tmp = FALSE] ELSE stream[r]]
  /\ UNCHANGED <<phase, want, payload, conditioning>>

\* What a request drops from memory before it forgets the active key.
DropCaches ==
  /\ loop # <<"free">> /\ loop[2] = "caches"
  /\ clips' = IF loop[1] \in {"unload", "clip"} THEN {} ELSE clips
  /\ loras' = IF loop[1] \in {"unload", "lora"} THEN NoLoras ELSE loras
  /\ loop' = IF loop[1] \in {"unload", "clip"} THEN <<loop[1], "key">> ELSE <<"free">>
  /\ UNCHANGED <<clientVars, handlerVars, workerVars, fileVars, active, admin,
                 overlapped>>

ForgetKey ==
  /\ loop # <<"free">> /\ loop[2] = "key"
  /\ active' = NoName
  /\ loop' = <<"free">>
  /\ UNCHANGED <<clientVars, handlerVars, workerVars, fileVars, clips, loras, admin,
                 overlapped>>

\* The client hears that its clear is done, and forgets its conditionings; when
\* the answer is an error or lost it keeps them.
ClearAnswered(c) ==
  /\ Free
  /\ c \in owed
  /\ owed' = owed \ {c}
  /\ \/ conditioning' = [conditioning EXCEPT ![c] = <<>>]
     \/ UNCHANGED conditioning
  /\ UNCHANGED <<phase, want, payload, handlerVars, workerVars, fileVars,
                 cacheVars, loopVars>>

-----------------------------------------------------------------------------
ClientStep(r) ==
  \/ \E w \in Wants[r[1]][r[2]] : Start(r, w)
  \/ FindClip(r) \/ FindLora(r) \/ LookUp(r) \/ GiveUp(r) \/ Receive(r)

PeerStep(r) ==
  \/ UploadStarts(r) \/ UploadFails(r)
  \/ UploadClip(r) \/ UploadImage(r) \/ UploadLora(r)
  \/ Arrive(r) \/ PollFindsHistory(r) \/ PollStops(r)

WorkerStep ==
  \/ \E r \in Requests : WorkerTakes(r)
  \/ WorkerReadsClip \/ WorkerCachesClip \/ WorkerActivates
  \/ WorkerReadsLora \/ WorkerCachesLora \/ WorkerReadsImage
  \/ WorkerEncodes \/ WorkerFails

AdminStep ==
  \/ Unload \/ DropCaches \/ ForgetKey
  \/ \E c \in Clients : ClearAnswered(c) \/ \E kind \in Kinds : Clear(c, kind)

Next == (\E r \in Requests : ClientStep(r) \/ PeerStep(r)) \/ WorkerStep \/ AdminStep

Spec == Init /\ [][Next]_vars

-----------------------------------------------------------------------------
\* What a node may return for a payload: computed from what it names.
Answers(payload_, bundle) ==
  /\ bundle.clip = payload_.clip
  /\ bundle.image = payload_.image
  /\ (bundle.lora = NoContent) = (payload_.lora = NoName)

Streams == [kind : Kinds \cup {"none"}, name : Contents \cup Loras \cup {NoName},
            tmp : BOOLEAN]
Entries == {e \in [key : Payloads, bundle : Bundles] : Answers(e.key, e.bundle)}

ClientTypes ==
  /\ phase \in [Requests -> {"idle", "clip", "uploadClip", "lora", "uploadLora", "image",
                             "lookup", "waiting", "done", "failed"}]
  /\ want \in [Requests -> Payloads]
  /\ payload \in [Requests -> Payloads]
  /\ conditioning \in [Clients -> Seq(Entries)]
  /\ \A c \in Clients : Len(conditioning[c]) <= CacheLimit
  /\ owed \subseteq Clients

HandlerTypes ==
  /\ stream \in [Requests -> Streams]
  /\ handler \in [Requests -> {"none", "polling", "answered", "refused"}]

WorkerTypes ==
  /\ queue \subseteq Requests
  /\ running \in Requests \cup {NoName}
  /\ step \in {"idle", "clip", "insert", "activate", "lora", "insertLora", "image",
               "encode"}
  /\ loaded \in Contents \cup {NoContent}
  /\ interrupted \in BOOLEAN
  /\ history \in [Requests -> Bundles \cup {NoHistory, Error}]

FileTypes ==
  /\ stored \in [{"clip", "image"} -> SUBSET Contents]
  /\ lora \in [Loras -> Contents \cup {NoContent}]

CacheTypes ==
  /\ clips \subseteq Encoders
  /\ active \in Encoders \cup {NoName}
  /\ loras \in [Loras -> Contents \cup {NoContent}]

LoopTypes ==
  /\ loop \in {<<"free">>} \cup (Kinds \cup {"unload"}) \X {"caches"}
                           \cup {"clip", "unload"} \X {"key"}
  /\ admin \in Nat
  /\ overlapped \in BOOLEAN

TypeOK == ClientTypes /\ HandlerTypes /\ WorkerTypes /\ FileTypes /\ CacheTypes /\ LoopTypes

\* An encode request that is over has left no job in the queue, and one that
\* still runs was told to stop, unless it had its history
\* (_submit_remote_clip_job's time-out and its own cancellation).
NoOrphanJobs ==
  \A r \in Requests : handler[r] \in {"answered", "refused"} =>
    r \notin queue /\ (running = r => interrupted)

\* As long as clear and unload requests come between jobs, the peer has one
\* encoder in memory, the active one, and no LoRA but the one at its path
\* (_ensure_active_key, unload_remote_clip_cache, _clear_materialized_*).
CachesFollowFiles ==
  ~overlapped /\ Free =>
    /\ Cardinality(clips) <= 1
    /\ active # NoName => clips = {active}
    /\ \A l \in Loras : loras[l] \in {NoContent, lora[l]}

\* A node returns what the peer computed for the names it sent, from its job or
\* from the client's cache, whatever was uploaded, cleared or evicted meanwhile
\* (_remote_conditioning_cache_key, _submit_remote_clip_job).
ResultsMatchNames ==
  /\ \A r \in Requests : handler[r] = "answered" => Answers(payload[r], history[r])
  /\ \A r \in Requests : phase[r] = "lookup" =>
       \A i \in Cached(r[1], payload[r]) :
         Answers(payload[r], conditioning[r[1]][i].bundle)

\* A LoRA at its path is never replaced by other content, nor removed: two clients
\* with different files of one name cannot take it from each other, and a clear
\* deletes only those in the legacy folder ("does not delete path-preserved LoRAs")
\* (_materialize_lora_upload, _clear_materialized_loras).
LorasKept ==
  [][\A l \in Loras : lora[l] # NoContent =>
       \/ lora'[l] = lora[l]
       \/ lora'[l] = NoContent /\ l \in Legacy]_vars
=============================================================================
