--------------------------- MODULE RemoteProgress ---------------------------
(***************************************************************************)
(* Progress of streamed runs.  On the peer, nodes report to ComfyUI's      *)
(* registry, native ones by a bar of their own and Trellis ones through    *)
(* tqdm, which trellis_progress.py replaces in loaded modules while a      *)
(* stream runs.  Snapshots of the registry travel on the stream.  On the   *)
(* client a ProgressMirror (progress.py) checks and coalesces them, and    *)
(* what it emits is the run's contribution to the bar of the local node    *)
(* (nodes_remote.py), until the run's cleanup takes it away.               *)
(***************************************************************************)
EXTENDS Naturals, Sequences, FiniteSets, SequencesExt

CONSTANTS
  Runs,        \* streamed runs, on one peer and for one local prompt
  NodesOf,     \* NodesOf[r]: the nodes of run r on the peer
  Modules,     \* Python modules of the Trellis nodes
  Others,      \* other extensions that replace tqdm
  NoRun,       \* no stream shares a session
  Totals,      \* totals of bars
  MaxBars,     \* bound: bars a node starts
  MaxWire      \* bound: snapshots on their way

ASSUME ProgressAssumption ==
  /\ Totals \subseteq Nat
  /\ MaxBars \in Nat /\ MaxWire \in Nat \ {0}
  /\ Runs \cap Others = {} /\ NoRun \notin Runs \cup Others

Nodes == UNION {NodesOf[r] : r \in Runs}
None == [value |-> 0, max |-> 0]
NoBar == [offset |-> 0, total |-> 0, n |-> 0, bars |-> 0]

VARIABLES
  peer,      \* peer[r]: the stream handler, before, in or after the Trellis context
  bar,       \* bar[r][n]: the node's last bar, and what those before it add up to
  trellis,   \* nodes that count by tqdm, not by a bar of their own
  visible,   \* nodes that the compiler's map shows on a local node
  unmapped,  \* nodes that are not in the workflow: the peer's ComfyUI expanded others
  registry,  \* registry[r][n]: the node's entry in ComfyUI's registry
  wire,      \* wire[r]: snapshots on the stream
  restarted, \* history: runs of which a native bar of a visible node began again
  zeroed,    \* history: runs of which a native bar of a mapped node had total 0
  loaded,    \* modules that are loaded
  tqdm,      \* tqdm[m]: who replaced tqdm in module m, last first
  session,   \* the stream whose session patches modules
  patched,   \* modules the session has patched
  users,     \* streams that share the session
  theirs,    \* history: theirs[m]: others whose replacement in m they have not undone
  stuck,     \* history: wrappers others replaced, or of a patch that failed half-way
  client,    \* client[r]: the run at the client
  remote,    \* remote[r][n]: last value the mirror accepted
  pending,   \* pending[r]: nodes whose last value was not emitted
  shown,     \* shown[r][n]: the run's contribution to the node's bar
  failed     \* runs that ended because of a snapshot

trellisVars == <<loaded, tqdm, session, patched, users, theirs, stuck>>
kindVars == <<trellis, visible, unmapped>>
peerVars == <<bar, kindVars, registry, restarted, zeroed>>
clientVars == <<client, remote, pending, shown, failed>>
vars == <<peer, peerVars, wire, trellisVars, clientVars>>

PerNode(x) == [r \in Runs |-> [n \in NodesOf[r] |-> x]]

Entries == [value : Nat, max : Nat]
Bars == [offset : Nat, total : Nat, n : Nat, bars : Nat]
Messages(r) == UNION {[S -> Entries] : S \in SUBSET NodesOf[r]}

TypeOK ==
  LET family(f) == f = [r \in Runs |-> f[r]]
      perNode(f, S) == family(f) /\ \A r \in Runs : f[r] \in [NodesOf[r] -> S]
  IN /\ peer \in [Runs -> {"before", "inside", "after"}]
     /\ perNode(bar, Bars)
     /\ trellis \subseteq Nodes /\ visible \subseteq Nodes
     /\ unmapped \subseteq Nodes \ visible
     /\ perNode(registry, Entries)
     /\ family(wire) /\ \A r \in Runs : wire[r] \in Seq(Messages(r))
     /\ restarted \subseteq Runs /\ zeroed \subseteq Runs /\ failed \subseteq Runs
     /\ loaded \subseteq Modules /\ patched \subseteq Modules
     /\ tqdm \in [Modules -> Seq(Runs \cup Others)]
     /\ session \in Runs \cup {NoRun}
     /\ users \in Nat
     /\ theirs \in [Modules -> SUBSET Others]
     /\ stuck \subseteq Modules \X Runs
     /\ client \in [Runs -> {"streaming", "closing", "over"}]
     /\ perNode(remote, Entries) /\ perNode(shown, Entries)
     /\ family(pending) /\ \A r \in Runs : pending[r] \subseteq NodesOf[r]

Init ==
  /\ peer = [r \in Runs |-> "before"]
  /\ bar = PerNode(NoBar)
  /\ trellis \in SUBSET Nodes
  /\ visible \in SUBSET Nodes
  /\ unmapped \in SUBSET (Nodes \ visible)
  /\ registry = PerNode(None)
  /\ wire = [r \in Runs |-> <<>>]
  /\ restarted = {}
  /\ zeroed = {}
  /\ loaded \in SUBSET Modules
  /\ tqdm = [m \in Modules |-> <<>>]
  /\ session = NoRun
  /\ patched = {}
  /\ users = 0
  /\ theirs = [m \in Modules |-> {}]
  /\ stuck = {}
  /\ client = [r \in Runs |-> "streaming"]
  /\ remote = PerNode(None)
  /\ pending = [r \in Runs |-> {}]
  /\ shown = PerNode(None)
  /\ failed = {}

-----------------------------------------------------------------------------
(* The Trellis context of a stream.                                        *)

Layers(s) == {s[i] : i \in 1..Len(s)}

\* patch_loaded_modules, for the session of stream r.
Wrapped(r, ms) == [m \in Modules |-> IF m \in ms THEN <<r>> \o tqdm[m] ELSE tqdm[m]]

\* The first stream patches what is loaded; others share its session.
Enters(r) ==
  /\ peer[r] = "before"
  /\ peer' = [peer EXCEPT ![r] = "inside"]
  /\ users' = users + 1
  /\ IF users = 0
     THEN tqdm' = Wrapped(r, loaded) /\ patched' = loaded /\ session' = r
     ELSE UNCHANGED <<tqdm, patched, session>>
  /\ UNCHANGED <<loaded, theirs, stuck, peerVars, wire, clientVars>>

\* A module raises when it is looked at: those before it stay patched, the
\* session is forgotten, and the prompt is not run.
PatchFails(r, ms) ==
  /\ peer[r] = "before"
  /\ users = 0
  /\ ms \subseteq loaded
  /\ peer' = [peer EXCEPT ![r] = "after"]
  /\ tqdm' = Wrapped(r, ms)
  /\ stuck' = stuck \cup (ms \X {r})
  /\ UNCHANGED <<loaded, session, patched, users, theirs, peerVars, wire, clientVars>>

\* Slip: the users are counted before one leaves.
LastUser_After == users = 0

LastUser == users = 1

\* Slip: tqdm is put back whoever replaced it since.
StillOurs_Any(m) == tqdm[m] # <<>>

\* Only a module whose tqdm is still the session's own gets the former one back.
StillOurs(m) == tqdm[m] # <<>> /\ Head(tqdm[m]) = session

Exits(r) ==
  /\ peer[r] = "inside"
  /\ peer' = [peer EXCEPT ![r] = "after"]
  /\ users' = users - 1
  /\ IF LastUser
     THEN /\ tqdm' = [m \in Modules |->
               IF m \in patched /\ StillOurs(m) THEN Tail(tqdm[m]) ELSE tqdm[m]]
          /\ patched' = {} /\ session' = NoRun
     ELSE UNCHANGED <<tqdm, patched, session>>
  /\ UNCHANGED <<loaded, theirs, stuck, peerVars, wire, clientVars>>

Imports(m) ==
  /\ m \notin loaded
  /\ loaded' = loaded \cup {m}
  /\ UNCHANGED <<peer, tqdm, session, patched, users, theirs, stuck, peerVars, wire, clientVars>>

\* Another extension replaces a module's tqdm ...
OthersReplace(m, e) ==
  /\ m \in loaded
  /\ e \notin Layers(tqdm[m])
  /\ tqdm' = [tqdm EXCEPT ![m] = <<e>> \o @]
  /\ theirs' = [theirs EXCEPT ![m] = @ \cup {e}]
  /\ stuck' = stuck \cup {<<m, r>> : r \in {q \in Runs : tqdm[m] # <<>> /\ Head(tqdm[m]) = q}}
  /\ UNCHANGED <<peer, loaded, session, patched, users, peerVars, wire, clientVars>>

\* ... and puts back what it found, whatever was put over its own meanwhile.
OthersRestore(m) ==
  \E i \in 1..Len(tqdm[m]) :
    LET found == SubSeq(tqdm[m], i + 1, Len(tqdm[m]))
    IN /\ tqdm[m][i] \in Others
       /\ tqdm' = [tqdm EXCEPT ![m] = found]
       /\ theirs' = [theirs EXCEPT ![m] = Layers(found) \cap Others]
       /\ UNCHANGED <<peer, loaded, session, patched, users, stuck, peerVars, wire, clientVars>>

-----------------------------------------------------------------------------
(* Nodes of the peer report.                                               *)

Reports(r, n, b, entry) ==
  /\ bar' = [bar EXCEPT ![r][n] = b]
  /\ registry' = [registry EXCEPT ![r][n] = entry]
  /\ UNCHANGED <<peer, kindVars, wire, trellisVars, clientVars>>

\* Slip: a new bar begins at nought.
Offset_Zero(b) == 0

\* A new bar begins where the ones before it would have ended.
Offset(b) == b.offset + b.total

\* TrellisTqdmProgress.start: only a bar of finite positive total counts.
TqdmStarts(r, n, total) ==
  /\ peer[r] = "inside"
  /\ total > 0
  /\ n \in NodesOf[r] \cap trellis
  /\ bar[r][n].bars < MaxBars
  /\ LET b == [offset |-> Offset(bar[r][n]), total |-> total, n |-> 0,
               bars |-> bar[r][n].bars + 1]
     IN Reports(r, n, b, [value |-> b.offset, max |-> b.offset + total])
  /\ UNCHANGED <<restarted, zeroed>>

\* TrellisTqdmProgress.update of the bar that started last; a bar it was nested
\* in no longer counts.  The bar may run over its total.
TqdmUpdates(r, n) ==
  /\ peer[r] = "inside"
  /\ n \in NodesOf[r] \cap trellis
  /\ LET b == bar[r][n]
         value == IF b.n + 1 < b.total THEN b.n + 1 ELSE b.total
     IN /\ b.bars > 0 /\ b.n <= b.total
        /\ Reports(r, n, [b EXCEPT !.n = @ + 1],
                   [value |-> b.offset + value, max |-> b.offset + b.total])
  /\ UNCHANGED <<restarted, zeroed>>

\* A native node's bar starts, or starts again, and advances.  A total of 0 stands
\* for all that the client refuses: totals and values below 0 or not finite.
NativeStarts(r, n, total) ==
  /\ peer[r] = "inside"
  /\ n \in NodesOf[r] \ trellis
  /\ bar[r][n].bars < MaxBars
  /\ Reports(r, n, [offset |-> 0, total |-> total, n |-> 0, bars |-> bar[r][n].bars + 1],
             [value |-> 0, max |-> total])
  /\ restarted' = restarted \cup {q \in {r} : bar[r][n].bars > 0 /\ n \in visible}
  /\ zeroed' = zeroed \cup {q \in {r} : total = 0 /\ n \notin unmapped}

NativeUpdates(r, n) ==
  /\ peer[r] = "inside"
  /\ n \in NodesOf[r] \ trellis
  /\ LET b == bar[r][n]
     IN /\ b.n < b.total
        /\ Reports(r, n, [b EXCEPT !.n = @ + 1], [value |-> b.n + 1, max |-> b.total])
  /\ UNCHANGED <<restarted, zeroed>>

\* The nodes that have begun.
Begun(r) == {n \in NodesOf[r] : bar[r][n].bars > 0}

\* Slip: nodes that the workflow does not have are sent as well.
Snapshot_All(r) == [n \in Begun(r) |-> registry[r][n]]

\* _RemoteProgressSocket.send_json: a snapshot of those of the workflow.
Snapshot(r) == [n \in Begun(r) \ unmapped |-> registry[r][n]]

Sends(r) ==
  /\ peer[r] = "inside"
  /\ DOMAIN Snapshot(r) # {}
  /\ Len(wire[r]) < MaxWire
  /\ wire' = [wire EXCEPT ![r] = Append(@, Snapshot(r))]
  /\ UNCHANGED <<peer, peerVars, trellisVars, clientVars>>

-----------------------------------------------------------------------------
(* The client's stream loop and its mirror.                                *)

\* Slip: only the maximum is looked at.
OutOfOrder_Max(old, new) == new.max < old.max

\* _validate_order: neither value nor maximum goes back.
OutOfOrder(old, new) == new.value < old.value \/ new.max < old.max

\* _progress_values.
Malformed(entry) == entry.max = 0 \/ entry.value > entry.max

\* ingest raises: what it gets is not a progress, is of a node that the map does not
\* have, or goes back.  A node that is not shown is let pass before its order is looked at.
Refused(r, n, entry) ==
  Malformed(entry) \/ n \in unmapped \/ (n \in visible /\ OutOfOrder(remote[r][n], entry))

Complete(entry) == entry.value = entry.max

\* Slip: a complete bar waits for its turn like others.
EmitsNow_Coalesced(r, n, entry, due) == shown[r][n] = None \/ n \in due

\* The first value, the last, and one that is due are emitted at once.
EmitsNow(r, n, entry, due) == shown[r][n] = None \/ Complete(entry) \/ n \in due

Clears(r) ==
  /\ remote' = [remote EXCEPT ![r] = [n \in NodesOf[r] |-> None]]
  /\ pending' = [pending EXCEPT ![r] = {}]

\* A message is ingested node by node, then what waited and is due is flushed.
Ingests(r, due) ==
  /\ client[r] = "streaming"
  /\ wire[r] # <<>>
  /\ LET msg == Head(wire[r])
         mirrored == DOMAIN msg \cap visible
         entries == [n \in NodesOf[r] |-> IF n \in mirrored THEN msg[n] ELSE remote[r][n]]
         now == {n \in mirrored : EmitsNow(r, n, msg[n], due)} \cup (pending[r] \cap due)
     IN /\ \A n \in DOMAIN msg : ~Refused(r, n, msg[n])
        /\ remote' = [remote EXCEPT ![r] = entries]
        /\ shown' = [shown EXCEPT ![r] =
             [n \in NodesOf[r] |-> IF n \in now THEN entries[n] ELSE shown[r][n]]]
        /\ pending' = [pending EXCEPT ![r] = (@ \cup mirrored) \ now]
  /\ wire' = [wire EXCEPT ![r] = Tail(@)]
  /\ UNCHANGED <<peer, peerVars, trellisVars, client, failed>>

\* A node's progress is refused in the loop: the mirror is cleared, the job fails.
\* Nodes before it in the message were ingested, to no lasting effect.
IngestRaises(r) ==
  /\ client[r] = "streaming"
  /\ wire[r] # <<>>
  /\ \E n \in DOMAIN Head(wire[r]) : Refused(r, n, Head(wire[r])[n])
  /\ failed' = failed \cup {r}
  /\ client' = [client EXCEPT ![r] = "closing"]
  /\ wire' = [wire EXCEPT ![r] = <<>>]
  /\ Clears(r)
  /\ UNCHANGED <<peer, peerVars, trellisVars, shown>>

\* A result or an error arrives, the stream closes or the prompt is cancelled:
\* the mirror is cleared before the job is told.
StreamEnds(r) ==
  /\ client[r] = "streaming"
  /\ client' = [client EXCEPT ![r] = "closing"]
  /\ wire' = [wire EXCEPT ![r] = <<>>]
  /\ Clears(r)
  /\ UNCHANGED <<peer, peerVars, trellisVars, shown, failed>>

\* The job's cleanup: _clear_remote_progress.
CleansUp(r) ==
  /\ client[r] = "closing"
  /\ client' = [client EXCEPT ![r] = "over"]
  /\ shown' = [shown EXCEPT ![r] = [n \in NodesOf[r] |-> None]]
  /\ UNCHANGED <<peer, peerVars, wire, trellisVars, remote, pending, failed>>

-----------------------------------------------------------------------------
Next ==
  \/ \E r \in Runs :
       \/ Enters(r) \/ Exits(r) \/ Sends(r)
       \/ \E ms \in SUBSET Modules : PatchFails(r, ms)
       \/ \E n \in NodesOf[r] :
            \/ TqdmUpdates(r, n) \/ NativeUpdates(r, n)
            \/ \E total \in Totals : TqdmStarts(r, n, total) \/ NativeStarts(r, n, total)
       \/ \E due \in SUBSET NodesOf[r] : Ingests(r, due)
       \/ IngestRaises(r) \/ StreamEnds(r) \/ CleansUp(r)
  \/ \E m \in Modules :
       Imports(m) \/ OthersRestore(m) \/ \E e \in Others : OthersReplace(m, e)

Spec == Init /\ [][Next]_vars

-----------------------------------------------------------------------------
\* What the mirror accepted last is shown or waits to be; a complete bar never
\* waits (ProgressMirror._consider_emit, flush).
NothingForgotten ==
  \A r \in Runs : client[r] = "streaming" =>
    \A n \in NodesOf[r] :
      shown[r][n] = remote[r][n] \/ (n \in pending[r] /\ ~Complete(remote[r][n]))

\* A snapshot ends a run only if on the peer a native bar of a node that is shown
\* began again, or one of a node of the workflow had no positive total: tqdm bars,
\* nested or one after the other, add up (TrellisTqdmProgress.start), nodes that
\* ComfyUI expands on the peer are not sent (_RemoteProgressSocket), and ingest meets
\* nothing else that it refuses.
OnlyNativeBarsFail == failed \subseteq restarted \cup zeroed

\* A session's wrapper outlives it only where another extension replaced tqdm over
\* it, or where its patching failed half-way (restore, users) ...
WrappersGivenBack ==
  \A m \in Modules : \A r \in Layers(tqdm[m]) \cap Runs :
    (m \in patched /\ session = r) \/ <<m, r>> \in stuck
\* ... what others put in place stays until they put it back themselves, though
\* sessions begin and end over it and under it ...
OthersKept == \A m \in Modules : Layers(tqdm[m]) \cap Others = theirs[m]
\* ... and nothing counts as patched when no stream is in its Trellis context.
NothingPatchedWhenIdle == users = 0 => patched = {} /\ session = NoRun
TqdmRestored == WrappersGivenBack /\ OthersKept /\ NothingPatchedWhenIdle

\* A run's contribution to a node's bar never goes back while it streams, though
\* bars start again on the peer and updates are held back (_validate_order).
ShownAdvances ==
  [][\A r \in Runs : client'[r] = "streaming" =>
       \A n \in NodesOf[r] : /\ shown'[r][n].value >= shown[r][n].value
                             /\ shown'[r][n].max >= shown[r][n].max]_vars
=============================================================================
