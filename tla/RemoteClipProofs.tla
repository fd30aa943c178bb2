--------------------------- MODULE RemoteClipProofs ---------------------------
(***************************************************************************)
(* Proofs about RemoteClip, for any clients, files, LoRAs and cache size.  *)
(* Three threads of the argument: a node that waits for nobody any more    *)
(* keeps the payload it sent, so that a job means the same from its queue  *)
(* to its history; a job leaves the queue, the worker thread and the       *)
(* history in that order; and a job that meets no clear or unload request  *)
(* passes through the caches in steps that each leave them in agreement.   *)
(***************************************************************************)
EXTENDS RemoteClip, TLAPS, SequenceTheorems, FiniteSetTheorems

-------------------------------------------------------------------------------
(* The inductive invariant.                                                   *)

Uploading == {"uploadClip", "uploadLora", "image"}

\* A node's request is at the peer only once the node waited for it.
SentWhenWaiting ==
  \A r \in Requests : handler[r] # "none" => phase[r] \in {"waiting", "done", "failed"}

\* A node that is past the search for its encoder names one, and so does what it
\* sent; a node that uploads a LoRA wants one.
NamesEncoder ==
  \A r \in Requests :
    /\ phase[r] \in {"lora", "uploadLora", "image", "lookup", "waiting"} \/ handler[r] # "none"
         => payload[r].clip \in Encoders
    /\ phase[r] = "uploadLora" => want[r].lora \in Loras

\* An upload belongs to a node that waits for it or gave up, and names what it brings.
UploadsBelong ==
  \A r \in Requests : stream[r] # NoStream =>
    /\ stream[r].kind \in Kinds
    /\ stream[r].name \in IF stream[r].kind = "lora" THEN Loras ELSE Contents
    /\ handler[r] = "none"
    /\ \/ phase[r] = "failed"
       \/ phase[r] \in Uploading /\ stream[r].kind = UploadKind(r)

\* A job is queued, then runs, then has its history.
JobsInOrder ==
  \A r \in Requests :
    /\ handler[r] = "none" => r \notin queue /\ running # r /\ history[r] = NoHistory
    /\ r \in queue => running # r /\ history[r] = NoHistory
    /\ running = r => history[r] = NoHistory

WorkerBusy == running = NoName <=> step = "idle"

\* The worker thread has read the LoRA that its job names, or none.
LoadedFits ==
  /\ step \notin {"insertLora", "encode"} => loaded = NoContent
  /\ step \in {"lora", "insertLora"} => Job.lora \in Loras
  /\ step = "image" => Job.lora = NoName
  /\ step = "insertLora" => loaded # NoContent
  /\ step = "encode" => (loaded = NoContent) = (Job.lora = NoName)

\* What the history holds and what a handler answers belongs to the payload.
HistoryAnswers ==
  \A r \in Requests :
    /\ history[r] \notin {NoHistory, Error} => Answers(payload[r], history[r])
    /\ handler[r] = "answered" => history[r] \notin {NoHistory, Error}

\* As long as no clear or unload request met a job: none is under way beside one.
OneAtATime == ~overlapped => Free \/ running = NoName

\* ... and the encoder in memory is the active one, but for the steps that change it.
EncoderFits ==
  ~overlapped =>
    /\ loop # <<"free">> /\ loop[2] = "key" => clips = {}
    /\ Free \/ loop[2] = "caches" =>
         /\ step \notin {"insert", "activate"} =>
              clips = IF active = NoName THEN {} ELSE {active}
         /\ step \in {"clip", "insert", "activate"} => active \in {NoName, Job.clip}
         /\ step = "insert" => clips = {} /\ active = NoName
         /\ step = "activate" => clips = {Job.clip}

\* ... and a LoRA in memory is the one at its path, until a clear drops it too.
LorasFit ==
  ~overlapped =>
    /\ Free \/ loop[1] # "lora" => \A l \in Loras : loras[l] \in {NoContent, lora[l]}
    /\ step = "insertLora" => loaded = lora[Job.lora]

Caches == OneAtATime /\ EncoderFits /\ LorasFit

Sent == SentWhenWaiting /\ NamesEncoder /\ UploadsBelong

Worked == JobsInOrder /\ WorkerBusy /\ LoadedFits /\ HistoryAnswers /\ NoOrphanJobs

IInv == TypeOK /\ Sent /\ Worked /\ Caches

-------------------------------------------------------------------------------
(* The operators.                                                             *)

\* A client's cache keeps to its limit, and to conditionings that answer their keys.
LEMMA RememberFits ==
  ASSUME TypeOK, NEW c \in Clients, NEW key \in Payloads, NEW bundle \in Bundles,
         Answers(key, bundle)
  PROVE  Remember(c, key, bundle) \in Seq(Entries) /\ Len(Remember(c, key, bundle)) <= CacheLimit
<1> DEFINE old == conditioning[c]
           i == CHOOSE j \in Cached(c, key) : TRUE
           others == IF Cached(c, key) = {} THEN old ELSE RemoveAt(old, i)
           entry == [key |-> key, bundle |-> bundle]
           all == Append(others, entry)
<1>1. old \in Seq(Entries) /\ Len(old) <= CacheLimit /\ Len(old) \in Nat
      /\ CacheLimit \in Nat
  BY ClipAssumption DEF TypeOK, ClientTypes
<1>2. entry \in Entries
  BY DEF Entries
<1>3. others \in Seq(Entries) /\ Len(others) <= CacheLimit
  <2>1. CASE Cached(c, key) = {}
    BY <1>1, <2>1
  <2>2. CASE Cached(c, key) # {}
    <3>1. i \in 1..Len(old)
      BY <1>1, <2>2 DEF Cached
    <3> HIDE DEF i
    <3> DEFINE before == SubSeq(old, 1, i - 1)
               after == SubSeq(old, i + 1, Len(old))
    <3>2. before \in Seq(Entries) /\ Len(before) = i - 1
      BY <1>1, <3>1, SubSeqProperties
    <3>3. after \in Seq(Entries) /\ Len(after) = Len(old) - i
      BY <1>1, <3>1, SubSeqProperties
    <3>4. RemoveAt(old, i) = before \o after
      BY DEF RemoveAt
    <3> HIDE DEF before, after
    <3>5. before \o after \in Seq(Entries) /\ Len(before \o after) = Len(before) + Len(after)
      BY <3>2, <3>3, ConcatProperties
    <3>6. Len(before \o after) = Len(old) - 1
      BY <1>1, <3>1, <3>2, <3>3, <3>5
    <3> QED
      BY <1>1, <2>2, <3>4, <3>5, <3>6
  <2> QED
    BY <2>1, <2>2
<1> HIDE DEF others, entry
<1>4. all \in Seq(Entries) /\ Len(all) = Len(others) + 1 /\ Len(others) \in Nat /\ all # <<>>
  BY <1>2, <1>3, AppendProperties
<1> HIDE DEF all
<1>5. Tail(all) \in Seq(Entries) /\ Len(Tail(all)) = Len(all) - 1
  BY <1>4, HeadTailProperties
<1>6. Remember(c, key, bundle) = IF Len(all) > CacheLimit THEN Tail(all) ELSE all
  BY DEF Remember, all, others, entry
<1> QED
  BY <1>3, <1>4, <1>5, <1>6, ClipAssumption

\* The names in a request, and what distinguishes an entry of the history.
LEMMA Names ==
  /\ \A r \in Requests : r[1] \in Clients
  /\ NoPayload \in Payloads
  /\ NoStream \in Streams
  /\ NoHistory \notin Bundles /\ Error \notin Bundles /\ NoHistory # Error
<1>1. \A r \in Requests : r[1] \in Clients
  BY DEF Requests
<1>2. NoPayload \in Payloads
  BY DEF NoPayload, Payloads
<1>3. NoStream \in Streams
  BY DEF NoStream, Streams
<1>4. \A b \in Bundles : b.clip # NoName
  BY ClipAssumption DEF Bundles
<1>5. NoHistory.clip = NoName /\ Error.clip = NoName
  BY DEF NoHistory, Error
<1>6. NoHistory.lora # Error.lora
  BY ClipAssumption DEF NoHistory, Error
<1> QED
  BY <1>1, <1>2, <1>3, <1>4, <1>5, <1>6

\* Variables that do not change keep their types.
LEMMA TypesStay ==
  ASSUME TypeOK
  PROVE  /\ UNCHANGED handlerVars => HandlerTypes'
         /\ UNCHANGED workerVars => WorkerTypes'
         /\ UNCHANGED fileVars => FileTypes'
         /\ UNCHANGED cacheVars => CacheTypes'
         /\ UNCHANGED loopVars => LoopTypes'
         /\ UNCHANGED clientVars => ClientTypes'
BY DEF TypeOK, ClientTypes, HandlerTypes, WorkerTypes, FileTypes, CacheTypes, LoopTypes,
   clientVars, handlerVars, workerVars, fileVars, cacheVars, loopVars

-------------------------------------------------------------------------------
(* The client's node.                                                         *)

LEMMA EndsType ==
  ASSUME ClientTypes, NEW r \in Requests, NEW how \in {"done", "failed"}, Ends(r, how)
  PROVE  /\ phase' = [phase EXCEPT ![r] = how]
         /\ want' \in [Requests -> Payloads]
         /\ payload' \in [Requests -> Payloads]
         /\ handler[r] # "none" => payload'[r] = payload[r]
         /\ \A q \in Requests : q # r => payload'[q] = payload[q] /\ want'[q] = want[q]
BY Names DEF ClientTypes, Ends

LEMMA OfferedAreEncoders ==
  ASSUME FileTypes, NEW clip
  PROVE  Offered(clip) \subseteq Encoders
<1>1. stored["clip"] \subseteq Contents
  BY DEF FileTypes
<1> QED
  BY <1>1 DEF Offered, Encoders

LEMMA FindClipCases ==
  ASSUME ClientTypes, NEW r \in Requests, FindClip(r)
  PROVE  \/ phase' = [phase EXCEPT ![r] = "uploadClip"] /\ payload' = payload
         \/ \E name \in Offered(want[r].clip) :
              /\ payload' = [payload EXCEPT ![r].clip = name]
              /\ phase' = [phase EXCEPT ![r] = AfterClip(r)]
BY DEF ClientTypes, FindClip

LEMMA ClientType ==
  ASSUME IInv, NEW r \in Requests, ClientStep(r)
  PROVE  TypeOK'
<1> SUFFICES ClientTypes'
  BY TypesStay DEF IInv, TypeOK, ClientStep, Start, FindClip, FindLora, LookUp, GiveUp, Receive
<1> USE DEF IInv, TypeOK, ClientTypes
<1>1. ASSUME NEW w \in Wants[r[1]][r[2]], Start(r, w)
      PROVE  ClientTypes'
  <2>1. w \in Payloads
    BY ClipAssumption
  <2>2. [payload[r] EXCEPT !.clip = IF w.image # NoName THEN w.clip ELSE NoName] \in Payloads
    BY <2>1 DEF Payloads
  <2> QED
    BY <1>1, <2>1, <2>2 DEF Start
<1>2. CASE FindClip(r)
  <2>1. \A name \in Offered(want[r].clip) : [payload[r] EXCEPT !.clip = name] \in Payloads
    BY OfferedAreEncoders DEF Payloads
  <2>2. AfterClip(r) \in {"image", "lora"}
    BY DEF AfterClip
  <2>3. UNCHANGED <<want, conditioning, owed>>
    BY <1>2 DEF FindClip
  <2>4. CASE phase' = [phase EXCEPT ![r] = "uploadClip"] /\ payload' = payload
    BY <2>3, <2>4
  <2>5. ASSUME NEW name \in Offered(want[r].clip),
               payload' = [payload EXCEPT ![r].clip = name],
               phase' = [phase EXCEPT ![r] = AfterClip(r)]
        PROVE  ClientTypes'
    <3>1. payload' \in [Requests -> Payloads]
      BY <2>1, <2>5
    <3> QED
      BY <2>2, <2>3, <2>5, <3>1
  <2>6. CASE \E name \in Offered(want[r].clip) :
               /\ payload' = [payload EXCEPT ![r].clip = name]
               /\ phase' = [phase EXCEPT ![r] = AfterClip(r)]
    <3>1. PICK name \in Offered(want[r].clip) :
            /\ payload' = [payload EXCEPT ![r].clip = name]
            /\ phase' = [phase EXCEPT ![r] = AfterClip(r)]
      BY <2>6
    <3> HIDE DEF IInv, TypeOK, ClientTypes
    <3> QED
      BY <2>5, <3>1
  <2>7. ClientTypes
    OBVIOUS
  <2> HIDE DEF IInv, TypeOK, ClientTypes
  <2> QED
    BY <1>2, <2>4, <2>6, <2>7, FindClipCases
<1>3. CASE FindLora(r)
  BY <1>3 DEF FindLora, OffersLora, Payloads
<1>4. CASE LookUp(r)
  <2>1. \A i \in Cached(r[1], payload[r]) :
          /\ conditioning[r[1]][i] \in Entries
          /\ conditioning[r[1]][i].key = payload[r]
    BY Names DEF Cached
  <2>2. \A i \in Cached(r[1], payload[r]) :
          LET new == Remember(r[1], payload[r], conditioning[r[1]][i].bundle)
          IN new \in Seq(Entries) /\ Len(new) <= CacheLimit
    BY <2>1, RememberFits, Names DEF Entries
  <2> QED
    BY <1>4, <2>2, EndsType DEF LookUp
<1>5. CASE GiveUp(r)
  BY <1>5, EndsType DEF GiveUp
<1>6. CASE Receive(r)
  <2>1. CASE handler[r] = "answered"
    <3>1. history[r] \in Bundles /\ Answers(payload[r], history[r])
      BY <2>1 DEF Worked, HistoryAnswers, WorkerTypes
    <3>2. LET new == Remember(r[1], payload[r], history[r])
          IN new \in Seq(Entries) /\ Len(new) <= CacheLimit
      BY <3>1, RememberFits, Names
    <3> QED
      BY <1>6, <2>1, <3>2, EndsType DEF Receive
  <2>2. CASE handler[r] # "answered"
    BY <1>6, <2>2, EndsType DEF Receive
  <2> QED
    BY <2>1, <2>2
<1> QED
  BY <1>1, <1>2, <1>3, <1>4, <1>5, <1>6 DEF ClientStep

\* What a node sent, or has in its history, stays what it is.
PayloadsStay == \A q \in Requests : handler[q] # "none" => payload'[q] = payload[q]

LEMMA JobSent ==
  ASSUME IInv, step # "idle"
  PROVE  running \in Requests /\ handler[running] # "none" /\ Job.clip \in Encoders
BY DEF IInv, TypeOK, WorkerTypes, Worked, WorkerBusy, JobsInOrder, Sent, NamesEncoder, Job

\* Nothing of the jobs' order or of the caches depends on anything but what was sent.
LEMMA SentPayloadsStay ==
  ASSUME IInv, PayloadsStay, UNCHANGED <<handler, workerVars, cacheVars, loopVars>>
  PROVE  Worked' /\ OneAtATime' /\ EncoderFits'
<1>1. step # "idle" => Job' = Job
  BY JobSent DEF PayloadsStay, Job, workerVars
<1>2. NoOrphanJobs' /\ JobsInOrder' /\ WorkerBusy' /\ OneAtATime'
  BY DEF IInv, Worked, NoOrphanJobs, JobsInOrder, WorkerBusy, Caches, OneAtATime, Free,
     workerVars, loopVars
<1>3. LoadedFits'
  BY <1>1 DEF IInv, Worked, LoadedFits, workerVars
<1>4. HistoryAnswers'
  BY DEF IInv, Worked, HistoryAnswers, JobsInOrder, PayloadsStay, Answers, workerVars
<1>5. EncoderFits'
  BY <1>1 DEF IInv, Caches, EncoderFits, Free, workerVars, cacheVars, loopVars
<1> QED
  BY <1>2, <1>3, <1>4, <1>5 DEF Worked

LEMMA LorasStay ==
  ASSUME IInv, PayloadsStay, UNCHANGED <<handler, workerVars, fileVars, cacheVars, loopVars>>
  PROVE  LorasFit'
<1>1. step # "idle" => Job' = Job
  BY JobSent DEF PayloadsStay, Job, workerVars
<1> QED
  BY <1>1 DEF IInv, Caches, LorasFit, Free, fileVars, workerVars, cacheVars, loopVars

LEMMA ClientKeepsPayloads ==
  ASSUME IInv, NEW r \in Requests, ClientStep(r)
  PROVE  PayloadsStay
<1> USE DEF IInv, TypeOK, ClientTypes, PayloadsStay, Sent, SentWhenWaiting
<1>1. ASSUME NEW w, Start(r, w)
      PROVE  PayloadsStay
  BY <1>1 DEF Start
<1>2. CASE FindClip(r) \/ FindLora(r)
  BY <1>2 DEF FindClip, FindLora
<1>3. CASE LookUp(r) \/ GiveUp(r) \/ Receive(r)
  BY <1>3, EndsType DEF LookUp, GiveUp, Receive
<1> QED
  BY <1>1, <1>2, <1>3 DEF ClientStep

LEMMA ClientSent ==
  ASSUME IInv, NEW r \in Requests, ClientStep(r)
  PROVE  Sent'
<1> SUFFICES /\ handler[r] # "none" => phase'[r] \in {"waiting", "done", "failed"}
             /\ phase'[r] \in {"lora", "uploadLora", "image", "lookup", "waiting"}
                  \/ handler[r] # "none" => payload'[r].clip \in Encoders
             /\ phase'[r] = "uploadLora" => want'[r].lora \in Loras
             /\ stream[r] # NoStream =>
                  \/ phase'[r] = "failed"
                  \/ phase'[r] = phase[r]
  <2>1. /\ UNCHANGED handlerVars
        /\ \A q \in Requests : q # r =>
             phase'[q] = phase[q] /\ payload'[q] = payload[q] /\ want'[q] = want[q]
    BY EndsType DEF IInv, TypeOK, ClientTypes, ClientStep, Start, FindClip, FindLora, LookUp,
       GiveUp, Receive
  <2> QED
    BY <2>1 DEF IInv, Sent, SentWhenWaiting, NamesEncoder, UploadsBelong, UploadKind, handlerVars
<1> USE DEF IInv, TypeOK, ClientTypes, Sent, SentWhenWaiting, NamesEncoder, UploadsBelong,
        Uploading
<1>1. CASE \E w \in Wants[r[1]][r[2]] : Start(r, w)
  BY <1>1, ClipAssumption DEF Start
<1>2. CASE FindClip(r)
  <2>1. /\ AfterClip(r) \in {"image", "lora"}
        /\ stream[r] = NoStream
        /\ handler[r] = "none"
    BY <1>2 DEF FindClip, AfterClip
  <2>2. CASE \E name \in Offered(want[r].clip) :
               /\ payload' = [payload EXCEPT ![r].clip = name]
               /\ phase' = [phase EXCEPT ![r] = AfterClip(r)]
    <3>1. PICK name \in Offered(want[r].clip) :
               /\ payload' = [payload EXCEPT ![r].clip = name]
               /\ phase' = [phase EXCEPT ![r] = AfterClip(r)]
      BY <2>2
    <3>2. phase'[r] = AfterClip(r) /\ payload'[r].clip \in Encoders
      BY <3>1, OfferedAreEncoders DEF Payloads
    <3> QED
      BY <2>1, <3>2
  <2> QED
    BY <1>2, <2>1, <2>2, FindClipCases
<1>3. CASE FindLora(r)
  <2>1. /\ want' = want /\ payload'[r].clip = payload[r].clip
        /\ phase'[r] = IF want[r].lora = NoName \/ OffersLora(want[r].lora)
                       THEN "lookup" ELSE "uploadLora"
        /\ handler[r] = "none" /\ stream[r] = NoStream
    BY <1>3 DEF FindLora
  <2>2. want[r].lora \in Loras \cup {NoName} /\ payload[r].clip \in Encoders
    BY <1>3 DEF FindLora, Payloads
  <2> QED
    BY <2>1, <2>2
<1>4. CASE LookUp(r)
  BY <1>4, EndsType DEF LookUp
<1>5. CASE GiveUp(r)
  BY <1>5, EndsType DEF GiveUp
<1>6. CASE Receive(r)
  BY <1>6, EndsType DEF Receive
<1> QED
  BY <1>1, <1>2, <1>3, <1>4, <1>5, <1>6 DEF ClientStep

LEMMA ClientInv ==
  ASSUME IInv, NEW r \in Requests, ClientStep(r)
  PROVE  IInv'
<1>1. UNCHANGED <<handlerVars, workerVars, fileVars, cacheVars, loopVars>>
  BY DEF ClientStep, Start, FindClip, FindLora, LookUp, GiveUp, Receive
<1> QED
  BY <1>1, ClientType, ClientSent, ClientKeepsPayloads, SentPayloadsStay, LorasStay
  DEF IInv, Caches, handlerVars

-------------------------------------------------------------------------------
(* Uploads.                                                                   *)

LEMMA UploadStartsInv ==
  ASSUME IInv, NEW r \in Requests, UploadStarts(r)
  PROVE  IInv'
<1> DEFINE name == IF UploadKind(r) = "lora" THEN want[r].lora ELSE Local[r[1]]
           new == [kind |-> UploadKind(r), tmp |-> TRUE, name |-> name]
<1>1. /\ UploadKind(r) \in Kinds
      /\ name \in IF UploadKind(r) = "lora" THEN Loras ELSE Contents
      /\ phase[r] \in Uploading /\ handler[r] = "none"
  BY Names, ClipAssumption DEF UploadStarts, UploadKind, Kinds, Uploading, IInv, Sent,
     SentWhenWaiting, NamesEncoder
<1> HIDE DEF name
<1>2. new \in Streams /\ new.kind = UploadKind(r) /\ new.name = name
  BY <1>1 DEF Streams
<1>3. stream' = [stream EXCEPT ![r] = new]
  BY DEF UploadStarts, name
<1>4. UNCHANGED <<clientVars, handler, workerVars, fileVars, cacheVars, loopVars>>
  BY DEF UploadStarts
<1> HIDE DEF new
<1>5. TypeOK'
  BY <1>2, <1>3, <1>4, TypesStay DEF IInv, TypeOK, HandlerTypes
<1>6. stream'[r] = new /\ \A q \in Requests : q # r => stream'[q] = stream[q]
  BY <1>3 DEF IInv, TypeOK, HandlerTypes
<1>7. Sent'
  BY <1>1, <1>2, <1>4, <1>6 DEF IInv, Sent, SentWhenWaiting, NamesEncoder, UploadsBelong,
     UploadKind, clientVars
<1>8. PayloadsStay
  BY <1>4 DEF PayloadsStay, clientVars
<1> QED
  BY <1>4, <1>5, <1>7, <1>8, SentPayloadsStay, LorasStay DEF IInv, Caches

LEMMA UploadFailsInv ==
  ASSUME IInv, NEW r \in Requests, UploadFails(r)
  PROVE  IInv'
<1>1. /\ UNCHANGED <<conditioning, owed, handler, workerVars, fileVars, cacheVars, loopVars>>
      /\ stream' = [stream EXCEPT ![r] = NoStream]
      /\ Ends(r, "failed")
  BY DEF UploadFails
<1>2. /\ phase' = [phase EXCEPT ![r] = "failed"]
      /\ want' \in [Requests -> Payloads] /\ payload' \in [Requests -> Payloads]
      /\ handler[r] # "none" => payload'[r] = payload[r]
      /\ \A q \in Requests : q # r => payload'[q] = payload[q] /\ want'[q] = want[q]
  BY <1>1, EndsType DEF IInv, TypeOK
<1>3. ClientTypes' /\ HandlerTypes'
  BY <1>1, <1>2, Names DEF IInv, TypeOK, ClientTypes, HandlerTypes
<1>4. TypeOK'
  BY <1>1, <1>3, TypesStay DEF IInv, TypeOK
<1>5. PayloadsStay
  BY <1>2 DEF PayloadsStay
<1>6. Sent'
  BY <1>1, <1>2, <1>5 DEF IInv, TypeOK, ClientTypes, HandlerTypes, Sent, SentWhenWaiting,
     NamesEncoder, UploadsBelong, UploadKind, PayloadsStay
<1> QED
  BY <1>1, <1>4, <1>5, <1>6, SentPayloadsStay, LorasStay DEF IInv, Caches

\* An upload that is complete: its client goes on with the name, or is gone.
LEMMA ToldFits ==
  ASSUME IInv, NEW r \in Requests, stream[r] # NoStream, Told(r, stream[r].name),
         stream' = [stream EXCEPT ![r] = NoStream],
         UNCHANGED <<want, conditioning, owed, handler>>
  PROVE  ClientTypes' /\ HandlerTypes' /\ Sent' /\ PayloadsStay
<1> DEFINE kind == stream[r].kind
           name == stream[r].name
<1>1. /\ handler[r] = "none"
      /\ name \in IF kind = "lora" THEN Loras ELSE Contents
      /\ kind \in Kinds
  BY DEF IInv, Sent, UploadsBelong
<1>2. HandlerTypes'
  BY Names DEF IInv, TypeOK, HandlerTypes
<1>3. CASE phase[r] = "failed"
  <2>1. UNCHANGED <<phase, payload>>
    BY <1>3 DEF Told
  <2>2. ClientTypes' /\ PayloadsStay
    BY <2>1 DEF IInv, TypeOK, ClientTypes, PayloadsStay
  <2>3. Sent'
    BY <2>1 DEF IInv, TypeOK, HandlerTypes, Sent, SentWhenWaiting, NamesEncoder, UploadsBelong,
       UploadKind
  <2> QED
    BY <1>2, <2>2, <2>3
<1>4. CASE phase[r] # "failed"
  <2> DEFINE new == CASE kind = "clip" -> [payload[r] EXCEPT !.clip = name]
                      [] kind = "lora" -> [payload[r] EXCEPT !.lora = name]
                      [] OTHER -> [payload[r] EXCEPT !.image = name]
             there == IF kind = "clip" THEN AfterClip(r) ELSE "lookup"
  <2>1. phase' = [phase EXCEPT ![r] = there] /\ payload' = [payload EXCEPT ![r] = new]
    BY <1>4 DEF Told
  <2>2. phase[r] \in Uploading /\ kind = UploadKind(r)
    BY <1>4 DEF IInv, Sent, UploadsBelong
  <2>3. there \in {"image", "lora", "lookup"}
    BY DEF AfterClip
  <2>4. payload[r] \in Payloads
    BY DEF IInv, TypeOK, ClientTypes
  <2>5. new \in Payloads /\ new.clip = IF kind = "clip" THEN name ELSE payload[r].clip
    BY <1>1, <2>4 DEF Payloads, Kinds, Encoders
  <2>6. new.clip \in Encoders
    BY <1>1, <2>2, <2>5 DEF Uploading, UploadKind, Encoders, IInv, Sent, NamesEncoder
  <2> HIDE DEF new, there
  <2>7. ClientTypes' /\ PayloadsStay
    BY <1>1, <2>1, <2>3, <2>5 DEF IInv, TypeOK, ClientTypes, PayloadsStay
  <2>8. /\ phase'[r] = there /\ payload'[r] = new /\ stream'[r] = NoStream
        /\ \A q \in Requests : q # r =>
             phase'[q] = phase[q] /\ payload'[q] = payload[q] /\ stream'[q] = stream[q]
    BY <2>1 DEF IInv, TypeOK, ClientTypes, HandlerTypes
  <2>9. Sent'
    BY <1>1, <2>3, <2>6, <2>8 DEF IInv, Sent, SentWhenWaiting, NamesEncoder, UploadsBelong,
       UploadKind
  <2> QED
    BY <1>2, <2>7, <2>9
<1> QED
  BY <1>3, <1>4

LEMMA UploadCompleteInv ==
  ASSUME IInv, NEW r \in Requests, UploadClip(r) \/ UploadImage(r)
  PROVE  IInv'
<1>1. PICK kind \in {"clip", "image"} : UploadComplete(r, kind)
  BY DEF UploadClip, UploadImage
<1>2. stream[r] # NoStream /\ stream[r].name \in Contents
  BY <1>1 DEF UploadComplete, NoStream, IInv, Sent, UploadsBelong
<1>3. /\ UNCHANGED <<want, conditioning, owed, handler, workerVars, lora, cacheVars, loopVars>>
      /\ stored' = [stored EXCEPT ![kind] = @ \cup {stream[r].name}]
      /\ ClientTypes' /\ HandlerTypes' /\ Sent' /\ PayloadsStay
  BY <1>1, <1>2, ToldFits DEF UploadComplete
<1>4. FileTypes'
  BY <1>2, <1>3 DEF IInv, TypeOK, FileTypes
<1>5. TypeOK'
  BY <1>3, <1>4, TypesStay DEF IInv, TypeOK
<1>6. LorasFit'
  <2>1. step # "idle" => Job' = Job
    BY <1>3, JobSent DEF PayloadsStay, Job, workerVars
  <2> QED
    BY <1>3, <2>1 DEF IInv, Caches, LorasFit, Free, workerVars, cacheVars, loopVars
<1> QED
  BY <1>3, <1>5, <1>6, SentPayloadsStay DEF IInv, Caches

LEMMA UploadLoraInv ==
  ASSUME IInv, NEW r \in Requests, UploadLora(r)
  PROVE  IInv'
<1> DEFINE path == stream[r].name
           content == Local[r[1]]
<1>1. stream[r] # NoStream /\ path \in Loras /\ content \in Contents
  BY Names, ClipAssumption DEF UploadLora, NoStream, IInv, Sent, UploadsBelong
<1>2. /\ UNCHANGED <<want, conditioning, owed, handler, workerVars, stored, cacheVars, loopVars>>
      /\ lora' = [lora EXCEPT ![path] = content]
      /\ lora[path] \in {content, NoContent}
      /\ ClientTypes' /\ HandlerTypes' /\ Sent' /\ PayloadsStay
  BY <1>1, ToldFits DEF UploadLora, PathFree
<1> HIDE DEF content
<1>3. FileTypes'
  BY <1>1, <1>2 DEF IInv, TypeOK, FileTypes
<1>4. TypeOK'
  BY <1>2, <1>3, TypesStay DEF IInv, TypeOK
<1>5. \A l \in Loras : lora[l] # NoContent => lora'[l] = lora[l]
  BY <1>2 DEF IInv, TypeOK, FileTypes
<1>6. LorasFit'
  <2>1. step # "idle" => Job' = Job
    BY <1>2, JobSent DEF PayloadsStay, Job, workerVars
  <2>2. ~overlapped' => (Free' \/ loop'[1] # "lora" => \A l \in Loras : loras'[l] \in {NoContent, lora'[l]})
    BY <1>2, <1>5 DEF IInv, Caches, LorasFit, Free, cacheVars, loopVars
  <2>3. ~overlapped' => (step' = "insertLora" => loaded' = lora'[Job'.lora])
    BY <1>2, <1>5, <2>1 DEF IInv, Caches, LorasFit, Worked, LoadedFits, workerVars, loopVars
  <2> QED
    BY <2>2, <2>3 DEF LorasFit
<1> QED
  BY <1>2, <1>4, <1>6, SentPayloadsStay DEF IInv, Caches

-------------------------------------------------------------------------------
(* Encode handlers.                                                           *)

\* A handler changes its own state, the queue and the worker thread's interrupt.
HandlerFrame ==
  UNCHANGED <<clientVars, stream, running, step, loaded, history, fileVars, cacheVars, loopVars>>

LEMMA HandlerKeeps ==
  ASSUME IInv, HandlerFrame,
         handler' \in [Requests -> {"none", "polling", "answered", "refused"}],
         queue' \subseteq Requests, interrupted' \in BOOLEAN,
         Sent', JobsInOrder', HistoryAnswers', NoOrphanJobs'
  PROVE  IInv'
<1>1. HandlerTypes' /\ WorkerTypes'
  BY DEF IInv, TypeOK, HandlerTypes, WorkerTypes, HandlerFrame
<1>2. TypeOK'
  BY <1>1, TypesStay DEF IInv, TypeOK, HandlerFrame
<1>3. Job' = Job
  BY DEF HandlerFrame, Job, clientVars
<1>4. WorkerBusy' /\ LoadedFits'
  BY <1>3 DEF IInv, Worked, WorkerBusy, LoadedFits, HandlerFrame
<1>5. Caches'
  BY <1>3 DEF IInv, Caches, OneAtATime, EncoderFits, LorasFit, Free, HandlerFrame, fileVars,
     cacheVars, loopVars
<1> QED
  BY <1>2, <1>4, <1>5 DEF IInv, Worked

LEMMA HandlerInv ==
  ASSUME IInv, NEW r \in Requests, Arrive(r) \/ PollFindsHistory(r) \/ PollStops(r)
  PROVE  IInv'
<1> USE DEF IInv, Sent, Worked, SentWhenWaiting, NamesEncoder, UploadsBelong, UploadKind,
        JobsInOrder, HistoryAnswers, NoOrphanJobs, HandlerFrame, clientVars, workerVars,
        handlerVars
<1> USE DEF TypeOK, HandlerTypes, WorkerTypes
<1>1. CASE Arrive(r)
  <2>1. HandlerFrame /\ UNCHANGED interrupted
    BY <1>1 DEF Arrive
  <2>2. /\ handler' \in [Requests -> {"none", "polling", "answered", "refused"}]
        /\ queue' \subseteq Requests
        /\ handler'[r] \in {"polling", "refused"} /\ handler[r] = "none" /\ phase[r] = "waiting"
        /\ queue' \in {queue, queue \cup {r}} /\ (handler'[r] = "refused" => queue' = queue)
        /\ \A q \in Requests : q # r => handler'[q] = handler[q]
    BY <1>1 DEF Arrive
  <2>3. Sent'
    BY <2>1, <2>2 DEF Uploading
  <2>4. JobsInOrder' /\ HistoryAnswers' /\ NoOrphanJobs'
    BY <2>1, <2>2 DEF Answers
  <2> QED
    BY <2>1, <2>2, <2>3, <2>4, HandlerKeeps
<1>2. CASE PollFindsHistory(r)
  <2>1. HandlerFrame /\ UNCHANGED <<queue, interrupted>>
    BY <1>2 DEF PollFindsHistory
  <2>2. /\ handler' \in [Requests -> {"none", "polling", "answered", "refused"}]
        /\ handler[r] = "polling" /\ handler'[r] \in {"answered", "refused"}
        /\ history[r] # NoHistory /\ (handler'[r] = "answered" => history[r] # Error)
        /\ \A q \in Requests : q # r => handler'[q] = handler[q]
    BY <1>2 DEF PollFindsHistory
  <2>3. Sent'
    BY <2>1, <2>2
  <2>4. JobsInOrder' /\ HistoryAnswers' /\ NoOrphanJobs'
    BY <2>1, <2>2 DEF Answers
  <2> QED
    BY <2>1, <2>2, <2>3, <2>4, HandlerKeeps
<1>3. CASE PollStops(r)
  <2>1. HandlerFrame
    BY <1>3 DEF PollStops
  <2>2. /\ handler' \in [Requests -> {"none", "polling", "answered", "refused"}]
        /\ handler[r] = "polling" /\ handler'[r] = "refused"
        /\ queue' = queue \ {r}
        /\ interrupted' = (interrupted \/ running = r)
        /\ \A q \in Requests : q # r => handler'[q] = handler[q]
    BY <1>3 DEF PollStops, CancelJob
  <2>3. Sent'
    BY <2>1, <2>2
  <2>4. JobsInOrder'
    BY <2>1, <2>2
  <2>5. HistoryAnswers'
    BY <2>1, <2>2 DEF Answers
  <2>6. NoOrphanJobs'
    BY <2>1, <2>2
  <2> QED
    BY <2>1, <2>2, <2>3, <2>4, <2>5, <2>6, HandlerKeeps
<1> QED
  BY <1>1, <1>2, <1>3

LEMMA PeerInv ==
  ASSUME IInv, NEW r \in Requests, PeerStep(r)
  PROVE  IInv'
BY UploadStartsInv, UploadFailsInv, UploadCompleteInv, UploadLoraInv, HandlerInv DEF PeerStep

-------------------------------------------------------------------------------
(* The worker thread.                                                         *)

LEMMA EnsureFits ==
  ASSUME IInv, NEW clip \in Encoders, Ensure(clip)
  PROVE  /\ CacheTypes'
         /\ active' \in {NoName, clip}
         /\ \/ clips' = {} /\ active' = NoName
            \/ clips' = clips /\ active' = active
         /\ \A l \in Loras : loras'[l] \in {NoContent, loras[l]}
BY DEF IInv, TypeOK, CacheTypes, Ensure, NoLoras, cacheVars

LEMMA WorkerTakesInv ==
  ASSUME IInv, NEW r \in Requests, WorkerTakes(r)
  PROVE  IInv'
<1>1. /\ running = NoName /\ r \in queue /\ handler[r] # "none" /\ payload[r].clip \in Encoders
      /\ history[r] = NoHistory /\ handler[r] \notin {"answered", "refused"}
  BY DEF WorkerTakes, IInv, Worked, JobsInOrder, NoOrphanJobs, Sent, NamesEncoder
<1>2. /\ queue' = queue \ {r} /\ running' = r /\ step' = "clip"
      /\ UNCHANGED <<clientVars, handlerVars, loaded, interrupted, history, fileVars, loop, admin>>
      /\ Ensure(payload[r].clip)
      /\ overlapped' = (overlapped \/ ~Free)
  BY DEF WorkerTakes
<1>3. /\ CacheTypes' /\ active' \in {NoName, payload[r].clip}
      /\ \/ clips' = {} /\ active' = NoName
         \/ clips' = clips /\ active' = active
      /\ \A l \in Loras : loras'[l] \in {NoContent, loras[l]}
  BY <1>1, <1>2, EnsureFits
<1>4. step = "idle" /\ loaded = NoContent
  BY <1>1 DEF IInv, Worked, WorkerBusy, LoadedFits
<1>5. TypeOK'
  <2>1. WorkerTypes' /\ LoopTypes'
    BY <1>1, <1>2 DEF IInv, TypeOK, WorkerTypes, LoopTypes
  <2> QED
    BY <1>2, <1>3, <2>1, TypesStay DEF IInv, TypeOK
<1>6. Sent'
  BY <1>2 DEF IInv, Sent, SentWhenWaiting, NamesEncoder, UploadsBelong, UploadKind, clientVars,
     handlerVars
<1>7. JobsInOrder' /\ NoOrphanJobs'
  BY <1>1, <1>2 DEF IInv, Worked, JobsInOrder, NoOrphanJobs, handlerVars
<1>8. WorkerBusy' /\ LoadedFits' /\ HistoryAnswers'
  BY <1>1, <1>2, <1>4, ClipAssumption DEF IInv, Worked, WorkerBusy, LoadedFits, HistoryAnswers,
     Answers, clientVars, handlerVars
<1>9. Caches'
  <2>1. Job' = payload[r]
    BY <1>2 DEF Job, clientVars
  <2>2. OneAtATime'
    BY <1>2 DEF OneAtATime, Free
  <2>3. EncoderFits'
    BY <1>2, <1>3, <1>4, <2>1 DEF IInv, Caches, EncoderFits, Free
  <2>4. LorasFit'
    BY <1>2, <1>3 DEF IInv, Caches, LorasFit, Free, fileVars
  <2> QED
    BY <2>2, <2>3, <2>4 DEF Caches
<1> QED
  BY <1>5, <1>6, <1>7, <1>8, <1>9 DEF IInv, Worked

\* In the middle of a job only the step, what is loaded and the caches change.
LEMMA WorkerMiddle ==
  ASSUME IInv, step # "idle", step' # "idle",
         UNCHANGED <<clientVars, handlerVars, queue, running, interrupted, history, fileVars,
                     loopVars>>,
         WorkerTypes', CacheTypes', LoadedFits', EncoderFits', LorasFit'
  PROVE  IInv'
<1>1. TypeOK'
  BY TypesStay DEF IInv, TypeOK
<1>2. Sent'
  BY DEF IInv, Sent, SentWhenWaiting, NamesEncoder, UploadsBelong, UploadKind, clientVars,
     handlerVars
<1>3. JobsInOrder' /\ WorkerBusy' /\ HistoryAnswers' /\ NoOrphanJobs' /\ OneAtATime'
  BY DEF IInv, Worked, JobsInOrder, WorkerBusy, HistoryAnswers, Answers, NoOrphanJobs, Caches,
     OneAtATime, Free, clientVars, handlerVars, loopVars
<1> QED
  BY <1>1, <1>2, <1>3 DEF IInv, Worked, Caches

LEMMA WorkerMiddleInv ==
  ASSUME IInv,
         WorkerReadsClip \/ WorkerCachesClip \/ WorkerActivates \/ WorkerReadsLora
           \/ WorkerCachesLora \/ WorkerReadsImage
  PROVE  IInv'
<1>1. /\ step # "idle" /\ step' # "idle"
      /\ UNCHANGED <<clientVars, handlerVars, queue, running, interrupted, history, fileVars,
                     loopVars>>
  BY DEF WorkerReadsClip, WorkerCachesClip, WorkerActivates, WorkerReadsLora, WorkerCachesLora,
     WorkerReadsImage, Goto
<1>2. /\ running \in Requests /\ Job \in Payloads /\ Job.clip \in Encoders /\ Job' = Job
      /\ ~overlapped => Free
  BY <1>1, JobSent DEF IInv, TypeOK, ClientTypes, Caches, OneAtATime, Job, clientVars, Worked,
     WorkerBusy
<1>3. /\ (~overlapped)' <=> ~overlapped
      /\ Free' <=> Free
      /\ loop' = loop /\ lora' = lora
  BY <1>1 DEF Free, loopVars, fileVars
<1> USE DEF IInv, TypeOK, WorkerTypes, CacheTypes, Worked, LoadedFits, Caches, EncoderFits,
        LorasFit, Goto, cacheVars
<1>4. CASE WorkerReadsClip
  <2>1. WorkerTypes' /\ CacheTypes' /\ LoadedFits'
    BY <1>2, <1>4 DEF WorkerReadsClip
  <2>2. EncoderFits' /\ LorasFit'
    BY <1>2, <1>3, <1>4 DEF WorkerReadsClip, Free
  <2> QED
    BY <1>1, <2>1, <2>2, WorkerMiddle
<1>5. CASE WorkerCachesClip
  <2>1. WorkerTypes' /\ CacheTypes' /\ LoadedFits'
    BY <1>2, <1>5 DEF WorkerCachesClip
  <2>2. EncoderFits' /\ LorasFit'
    BY <1>2, <1>3, <1>5 DEF WorkerCachesClip, Free
  <2> QED
    BY <1>1, <2>1, <2>2, WorkerMiddle
<1>6. CASE WorkerActivates
  <2>1. WorkerTypes' /\ CacheTypes' /\ LoadedFits'
    BY <1>2, <1>6 DEF WorkerActivates, Payloads
  <2>2. EncoderFits' /\ LorasFit'
    BY <1>2, <1>3, <1>6, ClipAssumption DEF WorkerActivates, Free
  <2> QED
    BY <1>1, <2>1, <2>2, WorkerMiddle
<1>7. CASE WorkerReadsLora
  <2>1. WorkerTypes' /\ CacheTypes' /\ LoadedFits'
    BY <1>2, <1>7, ClipAssumption DEF WorkerReadsLora, FileTypes
  <2>2. EncoderFits' /\ LorasFit'
    BY <1>2, <1>3, <1>7 DEF WorkerReadsLora, Free
  <2> QED
    BY <1>1, <2>1, <2>2, WorkerMiddle
<1>8. CASE WorkerCachesLora
  <2>1. WorkerTypes' /\ CacheTypes' /\ LoadedFits'
    BY <1>2, <1>8, ClipAssumption DEF WorkerCachesLora
  <2>2. EncoderFits' /\ LorasFit'
    BY <1>2, <1>3, <1>8 DEF WorkerCachesLora, Free
  <2> QED
    BY <1>1, <2>1, <2>2, WorkerMiddle
<1>9. CASE WorkerReadsImage
  <2>1. WorkerTypes' /\ CacheTypes' /\ LoadedFits'
    BY <1>2, <1>9 DEF WorkerReadsImage
  <2>2. EncoderFits' /\ LorasFit'
    BY <1>2, <1>3, <1>9 DEF WorkerReadsImage, Free
  <2> QED
    BY <1>1, <2>1, <2>2, WorkerMiddle
<1> QED
  BY <1>4, <1>5, <1>6, <1>7, <1>8, <1>9

LEMMA WorkerEndsInv ==
  ASSUME IInv, NEW entry \in Bundles \cup {Error}, WorkerEnds(entry),
         entry # Error => Answers(Job, entry),
         step \notin {"idle", "activate"}
  PROVE  IInv'
<1>1. /\ history' = [history EXCEPT ![running] = entry]
      /\ running' = NoName /\ step' = "idle" /\ loaded' = NoContent /\ interrupted' = FALSE
      /\ UNCHANGED <<clientVars, handlerVars, queue, fileVars, cacheVars, loopVars>>
  BY DEF WorkerEnds
<1>2. /\ running \in Requests /\ handler[running] # "none"
      /\ running \notin queue
      /\ ~overlapped => Free
  BY JobSent DEF IInv, Worked, JobsInOrder, WorkerBusy, Caches, OneAtATime
<1>3. /\ history'[running] = entry
      /\ \A q \in Requests : q # running => history'[q] = history[q]
  BY <1>1, <1>2 DEF IInv, TypeOK, WorkerTypes
<1>4. NoName \notin Requests /\ NoHistory \notin Bundles /\ NoHistory # Error
  BY ClipAssumption, Names
<1>5. TypeOK'
  <2>1. WorkerTypes'
    BY <1>1 DEF IInv, TypeOK, WorkerTypes
  <2> QED
    BY <1>1, <2>1, TypesStay DEF IInv, TypeOK
<1>6. Sent'
  BY <1>1 DEF IInv, Sent, SentWhenWaiting, NamesEncoder, UploadsBelong, UploadKind, clientVars,
     handlerVars
<1>7. JobsInOrder' /\ WorkerBusy' /\ NoOrphanJobs'
  BY <1>1, <1>2, <1>3, <1>4 DEF IInv, Worked, JobsInOrder, WorkerBusy, NoOrphanJobs, handlerVars
<1>8. LoadedFits'
  BY <1>1 DEF LoadedFits
<1>9. HistoryAnswers'
  BY <1>1, <1>2, <1>3, <1>4 DEF IInv, Worked, JobsInOrder, HistoryAnswers, Answers, Job,
     clientVars, handlerVars
<1>10. Caches'
  BY <1>1, <1>2 DEF IInv, Caches, OneAtATime, EncoderFits, LorasFit, Free, cacheVars, loopVars,
     fileVars
<1> QED
  BY <1>5, <1>6, <1>7, <1>8, <1>9, <1>10 DEF IInv, Worked

LEMMA WorkerInv ==
  ASSUME IInv, WorkerStep
  PROVE  IInv'
<1>1. CASE \E r \in Requests : WorkerTakes(r)
  BY <1>1, WorkerTakesInv
<1>2. CASE WorkerReadsClip \/ WorkerCachesClip \/ WorkerActivates \/ WorkerReadsLora
             \/ WorkerCachesLora \/ WorkerReadsImage
  BY <1>2, WorkerMiddleInv
<1>3. CASE WorkerEncodes
  <2> DEFINE entry == [clip |-> Job.clip, lora |-> loaded, image |-> Job.image]
  <2>1. step = "encode" /\ WorkerEnds(entry)
    BY <1>3 DEF WorkerEncodes
  <2>2. Job \in Payloads /\ Job.clip \in Encoders /\ loaded \in Contents \cup {NoContent}
        /\ (loaded = NoContent) = (Job.lora = NoName)
    BY <2>1, JobSent DEF IInv, TypeOK, ClientTypes, WorkerTypes, Worked, LoadedFits, Job
  <2>3. entry \in Bundles /\ Answers(Job, entry)
    BY <2>2 DEF Payloads, Bundles, Answers
  <2> HIDE DEF entry
  <2> QED
    BY <2>1, <2>3, WorkerEndsInv
<1>4. CASE WorkerFails
  BY <1>4, WorkerEndsInv DEF WorkerFails, IInv, Worked, WorkerBusy
<1> QED
  BY <1>1, <1>2, <1>3, <1>4 DEF WorkerStep

-------------------------------------------------------------------------------
(* Clear and unload requests.                                                 *)

\* Such a request leaves the nodes, the handlers and the worker thread alone.
AdminFrame == UNCHANGED <<phase, want, payload, handler, workerVars>>

LEMMA AdminKeeps ==
  ASSUME IInv, AdminFrame, TypeOK', Caches',
         \A q \in Requests : \/ stream'[q] = stream[q]
                             \/ stream[q] # NoStream /\ stream'[q].kind = stream[q].kind
                                /\ stream'[q].name = stream[q].name
  PROVE  IInv'
<1>1. Sent'
  BY DEF IInv, AdminFrame, Sent, SentWhenWaiting, NamesEncoder, UploadsBelong, UploadKind
<1>2. Job' = Job
  BY DEF AdminFrame, Job, workerVars
<1>3. Worked'
  BY <1>2 DEF IInv, AdminFrame, Worked, JobsInOrder, WorkerBusy, LoadedFits, HistoryAnswers,
     Answers, NoOrphanJobs, workerVars
<1> QED
  BY <1>1, <1>3 DEF IInv

LEMMA Loops ==
  ASSUME IInv, ~Free
  PROVE  /\ loop[1] \in Kinds \cup {"unload"}
         /\ loop[2] = "key" => loop[1] \in {"clip", "unload"}
<1>1. \/ loop \in (Kinds \cup {"unload"}) \X {"caches"}
      \/ loop \in {"clip", "unload"} \X {"key"}
  BY DEF IInv, TypeOK, LoopTypes, Free
<1>2. CASE loop \in (Kinds \cup {"unload"}) \X {"caches"}
  <2>1. loop[1] \in Kinds \cup {"unload"} /\ loop[2] = "caches"
    BY <1>2
  <2> QED
    BY <2>1
<1>3. CASE loop \in {"clip", "unload"} \X {"key"}
  <2>1. loop[1] \in {"clip", "unload"}
    BY <1>3
  <2> QED
    BY <2>1 DEF Kinds
<1> QED
  BY <1>1, <1>2, <1>3

LEMMA AdministerFits ==
  ASSUME IInv, Administer, NEW kind \in Kinds \cup {"unload"}, loop' = <<kind, "caches">>
  PROVE  /\ CacheTypes' /\ WorkerTypes' /\ LoopTypes'
         /\ OneAtATime' /\ EncoderFits'
         /\ ~overlapped' => step' = "idle"
<1>1. /\ Free /\ admin' = admin + 1 /\ overlapped' = (overlapped \/ running # NoName)
      /\ UNCHANGED <<workerVars, cacheVars>>
  BY DEF Administer
<1>2. CacheTypes' /\ WorkerTypes' /\ LoopTypes'
  BY <1>1, TypesStay DEF IInv, TypeOK, LoopTypes
<1>3. OneAtATime'
  BY <1>1 DEF OneAtATime, workerVars
<1>4. ~overlapped' => step' = "idle" /\ step = "idle"
  BY <1>1 DEF IInv, Worked, WorkerBusy, workerVars
<1>5. loop'[2] = "caches"
  OBVIOUS
<1>6. EncoderFits'
  BY <1>1, <1>4, <1>5 DEF IInv, Caches, EncoderFits, cacheVars, workerVars
<1> QED
  BY <1>2, <1>3, <1>4, <1>6

LEMMA UnloadInv ==
  ASSUME IInv, Unload
  PROVE  IInv'
<1>1. /\ Administer /\ loop' = <<"unload", "caches">>
      /\ UNCHANGED <<clientVars, stream, handler, fileVars, workerVars, cacheVars>>
  BY DEF Unload, Administer
<1>2. /\ CacheTypes' /\ WorkerTypes' /\ LoopTypes' /\ OneAtATime' /\ EncoderFits'
      /\ ~overlapped' => step' = "idle"
  BY <1>1, AdministerFits
<1>3. TypeOK'
  BY <1>1, <1>2, TypesStay DEF IInv, TypeOK, handlerVars
<1>4. ~overlapped' => ~overlapped /\ Free
  BY <1>1 DEF Administer
<1>5. LorasFit'
  BY <1>1, <1>2, <1>4 DEF IInv, Caches, LorasFit, cacheVars, fileVars
<1> QED
  BY <1>1, <1>2, <1>3, <1>5, AdminKeeps DEF Caches, AdminFrame, clientVars

LEMMA ClearInv ==
  ASSUME IInv, NEW c \in Clients, NEW kind \in Kinds, Clear(c, kind)
  PROVE  IInv'
<1>1. /\ Administer /\ loop' = <<kind, "caches">> /\ owed' = owed \cup {c}
      /\ stream' = [r \in Requests |->
           IF stream[r].kind = kind /\ Deletes(kind, stream[r].name)
           THEN [stream[r] EXCEPT !.tmp = FALSE] ELSE stream[r]]
      /\ UNCHANGED <<phase, want, payload, conditioning, handler, workerVars, cacheVars>>
      /\ IF kind = "lora"
         THEN /\ lora' = [l \in Loras |-> IF Deletes(kind, l) THEN NoContent ELSE lora[l]]
              /\ UNCHANGED stored
         ELSE stored' = [stored EXCEPT ![kind] = {}] /\ UNCHANGED lora
  BY DEF Clear, Administer
<1>2. /\ CacheTypes' /\ WorkerTypes' /\ LoopTypes' /\ OneAtATime' /\ EncoderFits'
      /\ ~overlapped' => step' = "idle"
  BY <1>1, AdministerFits
<1>3. ClientTypes'
  BY <1>1 DEF IInv, TypeOK, ClientTypes
<1>4. \A r \in Requests : stream[r] \in Streams /\ stream'[r] \in Streams
  BY <1>1 DEF IInv, TypeOK, HandlerTypes, Streams
<1>5. HandlerTypes'
  BY <1>1, <1>4 DEF IInv, TypeOK, HandlerTypes
<1>6. FileTypes'
  BY <1>1 DEF IInv, TypeOK, FileTypes
<1>7. ~overlapped' => ~overlapped /\ Free
  BY <1>1 DEF Administer
<1>8. LorasFit'
  <2>1. loop'[1] = kind /\ ~Free'
    BY <1>1 DEF Free
  <2>2. kind # "lora" => lora' = lora
    BY <1>1
  <2> QED
    BY <1>1, <1>2, <1>7, <2>1, <2>2 DEF IInv, Caches, LorasFit, cacheVars
<1>9. \A r \in Requests : \/ stream'[r] = stream[r]
                          \/ stream[r] # NoStream /\ stream'[r].kind = stream[r].kind
                             /\ stream'[r].name = stream[r].name
  BY <1>1, <1>4 DEF Streams, NoStream, Kinds
<1> QED
  BY <1>1, <1>2, <1>3, <1>5, <1>6, <1>8, <1>9, AdminKeeps DEF TypeOK, Caches, AdminFrame

LEMMA DropCachesInv ==
  ASSUME IInv, DropCaches
  PROVE  IInv'
<1>1. /\ ~Free /\ loop[2] = "caches"
      /\ clips' = IF loop[1] \in {"unload", "clip"} THEN {} ELSE clips
      /\ loras' = IF loop[1] \in {"unload", "lora"} THEN NoLoras ELSE loras
      /\ loop' = IF loop[1] \in {"unload", "clip"} THEN <<loop[1], "key">> ELSE <<"free">>
      /\ UNCHANGED <<clientVars, handlerVars, workerVars, fileVars, active, admin, overlapped>>
  BY DEF DropCaches, Free
<1>2. loop[1] \in Kinds \cup {"unload"}
  BY <1>1, Loops
<1>3. LoopTypes' /\ CacheTypes'
  BY <1>1, <1>2 DEF IInv, TypeOK, LoopTypes, CacheTypes, NoLoras
<1>4. TypeOK'
  BY <1>1, <1>3, TypesStay DEF IInv, TypeOK
<1>5. ~overlapped' => running = NoName /\ step = "idle" /\ step' = "idle" /\ running' = NoName
  BY <1>1 DEF IInv, Caches, OneAtATime, Worked, WorkerBusy, workerVars
<1>6. OneAtATime'
  BY <1>5 DEF OneAtATime
<1>7. EncoderFits'
  <2>1. CASE loop[1] \in {"unload", "clip"}
    <3>1. loop'[2] = "key" /\ ~Free' /\ clips' = {}
      BY <1>1, <2>1 DEF Free
    <3> QED
      BY <3>1 DEF EncoderFits
  <2>2. CASE loop[1] \notin {"unload", "clip"}
    <3>1. Free' /\ clips' = clips /\ active' = active
      BY <1>1, <2>2 DEF Free
    <3> QED
      BY <1>1, <1>5, <3>1 DEF IInv, Caches, EncoderFits, Free
  <2> QED
    BY <2>1, <2>2
<1>8. LorasFit'
  BY <1>1, <1>5 DEF IInv, Caches, LorasFit, NoLoras, fileVars
<1> QED
  BY <1>1, <1>4, <1>6, <1>7, <1>8, AdminKeeps DEF Caches, AdminFrame, clientVars, handlerVars

LEMMA ForgetKeyInv ==
  ASSUME IInv, ForgetKey
  PROVE  IInv'
<1>1. /\ ~Free /\ loop[2] = "key" /\ active' = NoName /\ loop' = <<"free">>
      /\ UNCHANGED <<clientVars, handlerVars, workerVars, fileVars, clips, loras, admin,
                     overlapped>>
  BY DEF ForgetKey, Free
<1>2. LoopTypes' /\ CacheTypes'
  BY <1>1 DEF IInv, TypeOK, LoopTypes, CacheTypes
<1>3. TypeOK'
  BY <1>1, <1>2, TypesStay DEF IInv, TypeOK
<1>4. ~overlapped' => running = NoName /\ step = "idle" /\ step' = "idle" /\ running' = NoName
  BY <1>1 DEF IInv, Caches, OneAtATime, Worked, WorkerBusy, workerVars
<1>5. OneAtATime'
  BY <1>4 DEF OneAtATime
<1>6. EncoderFits'
  BY <1>1, <1>4 DEF IInv, Caches, EncoderFits, Free
<1>7. LorasFit'
  BY <1>1, <1>4, Loops DEF IInv, Caches, LorasFit, fileVars
<1> QED
  BY <1>1, <1>3, <1>5, <1>6, <1>7, AdminKeeps DEF Caches, AdminFrame, clientVars, handlerVars

LEMMA ClearAnsweredInv ==
  ASSUME IInv, NEW c \in Clients, ClearAnswered(c)
  PROVE  IInv'
<1>1. /\ owed' = owed \ {c}
      /\ \/ conditioning' = [conditioning EXCEPT ![c] = <<>>]
         \/ UNCHANGED conditioning
      /\ UNCHANGED <<phase, want, payload, handlerVars, workerVars, fileVars, cacheVars, loopVars>>
  BY DEF ClearAnswered
<1>2. <<>> \in Seq(Entries) /\ Len(<<>>) <= CacheLimit
  BY ClipAssumption
<1>3. ClientTypes'
  BY <1>1, <1>2 DEF IInv, TypeOK, ClientTypes
<1>4. TypeOK'
  BY <1>1, <1>3, TypesStay DEF IInv, TypeOK
<1>5. Caches'
  BY <1>1 DEF IInv, Caches, OneAtATime, EncoderFits, LorasFit, Free, Job, workerVars, fileVars,
     cacheVars, loopVars
<1> QED
  BY <1>1, <1>4, <1>5, AdminKeeps DEF AdminFrame, handlerVars

-------------------------------------------------------------------------------
(* The theorems.                                                              *)

LEMMA InitInv == Init => IInv
<1> SUFFICES ASSUME Init PROVE IInv
  OBVIOUS
<1> USE DEF Init
<1>1. <<>> \in Seq(Entries) /\ Len(<<>>) <= CacheLimit
  BY ClipAssumption
<1>2. ClientTypes
  BY <1>1, Names DEF ClientTypes
<1>3. HandlerTypes /\ WorkerTypes
  BY Names DEF HandlerTypes, WorkerTypes
<1>4. FileTypes /\ CacheTypes /\ LoopTypes
  BY DEF FileTypes, CacheTypes, LoopTypes
<1>5. Sent
  BY DEF Sent, SentWhenWaiting, NamesEncoder, UploadsBelong
<1>6. Worked
  BY ClipAssumption DEF Worked, JobsInOrder, WorkerBusy, LoadedFits, HistoryAnswers, NoOrphanJobs
<1>7. Caches
  BY DEF Caches, OneAtATime, EncoderFits, LorasFit, Free
<1> QED
  BY <1>2, <1>3, <1>4, <1>5, <1>6, <1>7 DEF IInv, TypeOK

LEMMA NextInv ==
  ASSUME IInv, [Next]_vars
  PROVE  IInv'
<1>1. CASE UNCHANGED vars
  <2>1. TypeOK' /\ Sent'
    BY <1>1, TypesStay DEF IInv, TypeOK, vars, Sent, SentWhenWaiting, NamesEncoder,
       UploadsBelong, UploadKind, clientVars, handlerVars
  <2>2. PayloadsStay
    BY <1>1 DEF PayloadsStay, vars, clientVars
  <2> QED
    BY <1>1, <2>1, <2>2, SentPayloadsStay, LorasStay DEF vars, IInv, Caches, handlerVars
<1>2. CASE AdminStep
  BY <1>2, UnloadInv, ClearInv, DropCachesInv, ForgetKeyInv, ClearAnsweredInv DEF AdminStep
<1> QED
  BY <1>1, <1>2, ClientInv, PeerInv, WorkerInv DEF Next

LEMMA Invariant == Spec => []IInv
BY InitInv, NextInv, PTL DEF Spec

\* Every variable keeps its type, the client's cache its size and the answers in it.
THEOREM TypeCorrect == Spec => []TypeOK
<1>1. IInv => TypeOK
  BY DEF IInv
<1> QED
  BY <1>1, Invariant, PTL

\* An encode request that is over leaves no job behind
\* (_submit_remote_clip_job, _cancel_remote_clip_job).
THEOREM NoJobLeftBehind == Spec => []NoOrphanJobs
<1>1. IInv => NoOrphanJobs
  BY DEF IInv, Worked
<1> QED
  BY <1>1, Invariant, PTL

\* Between jobs the encoder and the LoRAs in memory are those of the files, as long
\* as no clear or unload request met a job (_ensure_active_key and the clear routes).
THEOREM MemoryFollowsFiles == Spec => []CachesFollowFiles
<1>1. ASSUME IInv, ~overlapped, Free
      PROVE  /\ Cardinality(clips) <= 1
             /\ active # NoName => clips = {active}
             /\ \A l \in Loras : loras[l] \in {NoContent, lora[l]}
  <2>1. clips = {} \/ \E e \in Encoders : clips = {e}
    BY <1>1, JobSent DEF IInv, TypeOK, CacheTypes, Caches, EncoderFits
  <2>2. Cardinality(clips) <= 1
    BY <2>1, FS_EmptySet, FS_Singleton
  <2>3. active # NoName => clips = {active}
    BY <1>1 DEF IInv, Caches, EncoderFits
  <2>4. \A l \in Loras : loras[l] \in {NoContent, lora[l]}
    BY <1>1 DEF IInv, Caches, LorasFit
  <2> QED
    BY <2>2, <2>3, <2>4
<1>2. IInv => CachesFollowFiles
  BY <1>1 DEF CachesFollowFiles
<1> QED
  BY <1>2, Invariant, PTL

\* What a node returns was computed for the names it sent, whether the peer ran its
\* job or the client remembers it (_submit_remote_clip_job,
\* _get_cached_remote_conditioning).
THEOREM AnswersFitNames == Spec => []ResultsMatchNames
<1>1. ASSUME IInv, NEW r \in Requests, NEW i \in Cached(r[1], payload[r])
      PROVE  Answers(payload[r], conditioning[r[1]][i].bundle)
  <2>1. conditioning[r[1]][i] \in Entries /\ conditioning[r[1]][i].key = payload[r]
    BY <1>1, Names DEF Cached, IInv, TypeOK, ClientTypes
  <2> QED
    BY <2>1 DEF Entries
<1>2. IInv => \A r \in Requests : handler[r] = "answered" => Answers(payload[r], history[r])
  BY DEF IInv, Worked, HistoryAnswers
<1>3. IInv => ResultsMatchNames
  BY <1>1, <1>2 DEF ResultsMatchNames
<1> QED
  BY <1>3, Invariant, PTL

\* No upload replaces a LoRA that is at its path, and no clear removes one outside the
\* legacy folder (_materialize_lora_upload, _clear_materialized_loras).
THEOREM LorasAreKept == Spec => LorasKept
<1>1. ASSUME IInv, [Next]_vars
      PROVE  \A l \in Loras : lora[l] # NoContent =>
               \/ lora'[l] = lora[l]
               \/ lora'[l] = NoContent /\ l \in Legacy
  <2>1. CASE \E r \in Requests : UploadLora(r)
    BY <1>1, <2>1 DEF UploadLora, PathFree, IInv, TypeOK, FileTypes
  <2>2. CASE \E c \in Clients, kind \in Kinds : Clear(c, kind)
    BY <1>1, <2>2 DEF Clear, Deletes, IInv, TypeOK, FileTypes
  <2>3. CASE lora' = lora
    BY <2>3
  <2>4. ASSUME NEW r \in Requests, ClientStep(r)
        PROVE  lora' = lora
    BY <2>4 DEF ClientStep, Start, FindClip, FindLora, LookUp, GiveUp, Receive, fileVars
  <2>5. ASSUME NEW r \in Requests, PeerStep(r)
        PROVE  lora' = lora \/ UploadLora(r)
    BY <2>5 DEF PeerStep, UploadStarts, UploadFails, UploadClip, UploadImage, UploadComplete,
       Arrive, PollFindsHistory, PollStops, fileVars
  <2>6. WorkerStep => lora' = lora
    BY DEF WorkerStep, WorkerTakes, WorkerReadsClip, WorkerCachesClip, WorkerActivates,
       WorkerReadsLora, WorkerCachesLora, WorkerReadsImage, WorkerEncodes, WorkerFails,
       WorkerEnds, fileVars
  <2>7. AdminStep => lora' = lora \/ \E c \in Clients, kind \in Kinds : Clear(c, kind)
    BY DEF AdminStep, Unload, DropCaches, ForgetKey, ClearAnswered, fileVars
  <2>8. UNCHANGED vars => lora' = lora
    BY DEF vars, fileVars
  <2> QED
    BY <1>1, <2>1, <2>2, <2>3, <2>4, <2>5, <2>6, <2>7, <2>8 DEF Next
<1> QED
  BY <1>1, Invariant, PTL DEF Spec, LorasKept
===============================================================================
