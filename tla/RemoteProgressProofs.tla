------------------------- MODULE RemoteProgressProofs -------------------------
(***************************************************************************)
(* Proofs about RemoteProgress, for any runs, nodes, modules and totals.   *)
(* The order of the values a node reports is carried from its bar over the *)
(* registry and the stream to the mirror; the tqdm patch depends on how    *)
(* many streams share the session.                                         *)
(***************************************************************************)
EXTENDS RemoteProgress, TLAPS, FiniteSetTheorems, SequenceTheorems

-------------------------------------------------------------------------------
(* The inductive invariant.                                                   *)

Le(a, b) == a.value <= b.value /\ a.max <= b.max

LEMMA LeTransitive ==
  ASSUME NEW a \in Entries, NEW b \in Entries, NEW c \in Entries, Le(a, b), Le(b, c)
  PROVE  Le(a, c)
BY DEF Le, Entries

\* What a node has reported when its last bar is b.
Reached(b) ==
  [value |-> b.offset + (IF b.n < b.total THEN b.n ELSE b.total), max |-> b.offset + b.total]

BarsReported ==
  \A r \in Runs : \A n \in NodesOf[r] :
    /\ registry[r][n] = Reached(bar[r][n])
    /\ bar[r][n].bars = 0 => bar[r][n] = NoBar
    /\ n \notin trellis => bar[r][n].offset = 0

\* Values of the nodes shown go forward from the mirror over the stream to the registry.
RunInOrder(r) ==
  /\ \A n \in NodesOf[r] \cap visible : Le(remote[r][n], registry[r][n])
  /\ \A i \in 1..Len(wire[r]) : \A n \in DOMAIN wire[r][i] \cap visible :
       /\ Le(remote[r][n], wire[r][i][n]) /\ Le(wire[r][i][n], registry[r][n])
       /\ \A j \in 1..Len(wire[r]) :
            i < j /\ n \in DOMAIN wire[r][j] => Le(wire[r][i][n], wire[r][j][n])

InOrder == \A r \in Runs \ restarted : RunInOrder(r)

\* The nodes of the workflow report progress with a positive total, and no other node
\* is on the stream.
RunWellFormed(r) ==
  /\ \A n \in NodesOf[r] \ unmapped : bar[r][n].bars # 0 => bar[r][n].total # 0
  /\ \A i \in 1..Len(wire[r]) : \A n \in DOMAIN wire[r][i] : ~Malformed(wire[r][i][n])
WellFormed == \A r \in Runs \ zeroed : RunWellFormed(r)

MappedOnWire ==
  \A r \in Runs : \A i \in 1..Len(wire[r]) : \A n \in DOMAIN wire[r][i] : n \notin unmapped

\* What is shown is what the mirror accepted, or something before it.
ShownBehind ==
  \A r \in Runs : client[r] = "streaming" =>
    \A n \in NodesOf[r] : Le(shown[r][n], remote[r][n])

\* The session counts the streams that are inside.
Inside == {r \in Runs : peer[r] = "inside"}
UsersInside == IsFiniteSet(Inside) /\ users = Cardinality(Inside)

\* A wrapper that no other replaced is on top, and of the session that goes on.
WrappersOnTop ==
  \A m \in Modules : \A i \in 1..Len(tqdm[m]) :
    tqdm[m][i] \in Runs =>
      \/ <<m, tqdm[m][i]>> \in stuck
      \/ i = 1 /\ m \in patched /\ session = tqdm[m][i]

TrellisInv == WrappersOnTop /\ OthersKept /\ NothingPatchedWhenIdle

IInv ==
  /\ TypeOK
  /\ BarsReported /\ InOrder /\ WellFormed /\ MappedOnWire /\ OnlyNativeBarsFail
  /\ ShownBehind /\ NothingForgotten
  /\ UsersInside /\ TrellisInv

LEMMA InitInv == Init => IInv
<1> SUFFICES ASSUME Init PROVE IInv
  OBVIOUS
<1>1. TypeOK
  BY ProgressAssumption DEF Init, TypeOK, PerNode, None, NoBar, Entries, Bars, Messages
<1>2. BarsReported /\ OnlyNativeBarsFail /\ InOrder /\ ShownBehind /\ NothingForgotten
  BY DEF Init, BarsReported, Reached, OnlyNativeBarsFail, InOrder, RunInOrder, ShownBehind,
     NothingForgotten, Le, PerNode, None, NoBar
<1>3. WellFormed /\ MappedOnWire
  BY DEF Init, WellFormed, RunWellFormed, MappedOnWire, PerNode, NoBar
<1>4. TrellisInv
  BY DEF Init, TrellisInv, WrappersOnTop, OthersKept, Layers, NothingPatchedWhenIdle
<1>5. Inside = {}
  BY DEF Init, Inside
<1> QED
  BY <1>1, <1>2, <1>3, <1>4, <1>5, FS_EmptySet DEF Init, IInv, UsersInside

-------------------------------------------------------------------------------
(* The Trellis context.                                                       *)

LEMMA ProgressStays ==
  ASSUME IInv, UNCHANGED <<peerVars, wire, clientVars>>
  PROVE  /\ (BarsReported /\ InOrder /\ WellFormed /\ MappedOnWire /\ OnlyNativeBarsFail)'
         /\ (ShownBehind /\ NothingForgotten)'
         /\ peer' \in [Runs -> {"before", "inside", "after"}] /\ loaded' \subseteq Modules
            /\ patched' \subseteq Modules /\ tqdm' \in [Modules -> Seq(Runs \cup Others)]
            /\ session' \in Runs \cup {NoRun} /\ users' \in Nat
            /\ theirs' \in [Modules -> SUBSET Others] /\ stuck' \subseteq Modules \X Runs
            => TypeOK'
<1>1. (BarsReported /\ InOrder /\ OnlyNativeBarsFail)'
  BY DEF IInv, BarsReported, InOrder, RunInOrder, OnlyNativeBarsFail, peerVars, kindVars, clientVars
<1>2. (WellFormed /\ MappedOnWire)'
  BY DEF IInv, WellFormed, RunWellFormed, MappedOnWire, peerVars, kindVars
<1>3. (ShownBehind /\ NothingForgotten)'
  BY DEF IInv, ShownBehind, NothingForgotten, peerVars, clientVars
<1> QED
  BY <1>1, <1>2, <1>3 DEF IInv, TypeOK, peerVars, kindVars, clientVars, Messages

LEMMA OthersCount ==
  ASSUME IInv, users' = users,
         \A r \in Runs : peer[r] = "inside" <=> peer'[r] = "inside"
  PROVE  UsersInside'
<1>1. Inside' = Inside
  BY DEF Inside
<1> QED
  BY <1>1 DEF IInv, UsersInside

\* Putting something over a module's tqdm moves what was there one down.
LEMMA PutOver ==
  ASSUME NEW S, NEW s \in Seq(S), NEW x \in S
  PROVE  /\ <<x>> \o s \in Seq(S)
         /\ Len(<<x>> \o s) = Len(s) + 1
         /\ \A i \in 1..(Len(s) + 1) : (<<x>> \o s)[i] = IF i = 1 THEN x ELSE s[i - 1]
         /\ Layers(<<x>> \o s) = Layers(s) \cup {x}
<1>1. <<x>> \in Seq(S) /\ Len(<<x>>) = 1 /\ <<x>>[1] = x
  OBVIOUS
<1>2. /\ <<x>> \o s \in Seq(S) /\ Len(<<x>> \o s) = Len(s) + 1
      /\ \A i \in 1..(Len(s) + 1) : (<<x>> \o s)[i] = IF i = 1 THEN x ELSE s[i - 1]
  BY <1>1
<1>3. Layers(<<x>> \o s) \subseteq Layers(s) \cup {x}
  BY <1>2 DEF Layers
<1>4. x \in Layers(<<x>> \o s)
  <2>1. 1 \in 1..Len(<<x>> \o s) /\ (<<x>> \o s)[1] = x
    BY <1>2
  <2> QED
    BY <2>1 DEF Layers
<1>5. ASSUME NEW i \in 1..Len(s)
      PROVE  s[i] \in Layers(<<x>> \o s)
  <2>1. i + 1 \in 1..Len(<<x>> \o s) /\ (<<x>> \o s)[i + 1] = s[i]
    BY <1>2
  <2> QED
    BY <2>1 DEF Layers
<1>6. Layers(s) \subseteq Layers(<<x>> \o s)
  BY <1>5 DEF Layers
<1> QED
  BY <1>2, <1>3, <1>4, <1>6

\* Patching over modules that have only stuck wrappers.
LEMMA WrappedEffect ==
  ASSUME IInv, users = 0, NEW r \in Runs, NEW ms \in SUBSET Modules, tqdm' = Wrapped(r, ms),
         theirs' = theirs, stuck \subseteq stuck',
         \/ patched' = ms /\ session' = r
         \/ ms \X {r} \subseteq stuck'
  PROVE  /\ tqdm' \in [Modules -> Seq(Runs \cup Others)]
         /\ WrappersOnTop' /\ OthersKept'
<1>1. tqdm \in [Modules -> Seq(Runs \cup Others)] /\ patched = {}
  BY DEF IInv, TypeOK, TrellisInv, NothingPatchedWhenIdle
<1>2. \A m \in Modules : tqdm'[m] = IF m \in ms THEN <<r>> \o tqdm[m] ELSE tqdm[m]
  BY DEF Wrapped
<1>3. \A m \in Modules :
        /\ tqdm[m] \in Seq(Runs \cup Others)
        /\ <<r>> \o tqdm[m] \in Seq(Runs \cup Others)
        /\ Len(<<r>> \o tqdm[m]) = Len(tqdm[m]) + 1
        /\ \A i \in 1..(Len(tqdm[m]) + 1) :
             (<<r>> \o tqdm[m])[i] = IF i = 1 THEN r ELSE tqdm[m][i - 1]
        /\ Layers(<<r>> \o tqdm[m]) = Layers(tqdm[m]) \cup {r}
  BY <1>1, PutOver
<1>4. tqdm' \in [Modules -> Seq(Runs \cup Others)]
  BY <1>2, <1>3 DEF Wrapped
<1>5. OthersKept'
  <2>1. r \notin Others
    BY ProgressAssumption
  <2> SUFFICES ASSUME NEW m \in Modules
               PROVE  Layers(tqdm'[m]) \cap Others = theirs[m]
    BY DEF OthersKept, Layers
  <2>2. Layers(tqdm[m]) \cap Others = theirs[m]
    BY DEF IInv, TrellisInv, OthersKept
  <2>3. Layers(tqdm'[m]) \in {Layers(tqdm[m]), Layers(tqdm[m]) \cup {r}}
    <3>1. CASE m \in ms
      <4>1. tqdm'[m] = <<r>> \o tqdm[m]
        BY <1>2, <3>1
      <4> QED
        BY <1>3, <4>1
    <3>2. CASE m \notin ms
      <4>1. tqdm'[m] = tqdm[m]
        BY <1>2, <3>2
      <4> QED
        BY <4>1
    <3> QED
      BY <3>1, <3>2
  <2> QED
    BY <2>1, <2>2, <2>3
<1>6. WrappersOnTop'
  <2> SUFFICES ASSUME NEW m \in Modules, NEW i \in 1..Len(tqdm'[m]), tqdm'[m][i] \in Runs
               PROVE  \/ <<m, tqdm'[m][i]>> \in stuck'
                      \/ i = 1 /\ m \in patched' /\ session' = tqdm'[m][i]
    BY DEF WrappersOnTop
  <2>1. \A j \in 1..Len(tqdm[m]) : tqdm[m][j] \in Runs => <<m, tqdm[m][j]>> \in stuck'
    BY <1>1 DEF IInv, TrellisInv, WrappersOnTop
  <2>2. Len(tqdm[m]) \in Nat
    BY <1>3
  <2>3. CASE m \notin ms
    BY <1>2, <2>1, <2>3
  <2>4. CASE m \in ms /\ i = 1
    <3>1. tqdm'[m][i] = r
      BY <1>2, <1>3, <2>2, <2>4
    <3> QED
      BY <2>4, <3>1
  <2>5. CASE m \in ms /\ i # 1
    <3>1. i - 1 \in 1..Len(tqdm[m]) /\ tqdm'[m][i] = tqdm[m][i - 1]
      <4>1. tqdm'[m] = <<r>> \o tqdm[m]
        BY <1>2, <2>5
      <4>2. i \in 1..(Len(tqdm[m]) + 1)
        BY <1>3, <4>1
      <4>3. tqdm'[m][i] = tqdm[m][i - 1]
        BY <1>3, <2>5, <4>1, <4>2
      <4> QED
        BY <2>2, <2>5, <4>2, <4>3
    <3> QED
      BY <2>1, <3>1
  <2> QED
    BY <2>3, <2>4, <2>5
<1> QED
  BY <1>4, <1>5, <1>6

LEMMA TrellisStays ==
  ASSUME IInv, UNCHANGED <<tqdm, session, patched, users, theirs, stuck>>
  PROVE  TrellisInv'
BY DEF IInv, TrellisInv, WrappersOnTop, OthersKept, Layers, NothingPatchedWhenIdle

LEMMA EntersInv ==
  ASSUME IInv, NEW r \in Runs, Enters(r)
  PROVE  IInv'
<1>1. UsersInside' /\ users' \in Nat /\ users' # 0
  <2>1. Inside' = Inside \cup {r} /\ r \notin Inside
    BY DEF IInv, TypeOK, Enters, Inside
  <2> QED
    BY <2>1, FS_AddElement, FS_CardinalityType DEF IInv, UsersInside, Enters
<1>2. CASE users = 0
  <2>1. loaded \in SUBSET Modules /\ tqdm' = Wrapped(r, loaded) /\ patched' = loaded
        /\ session' = r /\ UNCHANGED <<loaded, theirs, stuck>>
    BY <1>2 DEF Enters, IInv, TypeOK
  <2>2. tqdm' \in [Modules -> Seq(Runs \cup Others)] /\ WrappersOnTop' /\ OthersKept'
    BY <1>2, <2>1, WrappedEffect
  <2>3. TrellisInv'
    BY <1>1, <2>2 DEF TrellisInv, NothingPatchedWhenIdle
  <2>4. TypeOK'
    BY <1>1, <2>1, <2>2, ProgressStays DEF IInv, TypeOK, Enters
  <2> QED
    BY <1>1, <2>3, <2>4, ProgressStays DEF IInv, Enters
<1>3. CASE users # 0
  <2>1. UNCHANGED <<tqdm, patched, session, loaded, theirs, stuck>>
    BY <1>3 DEF Enters
  <2>2. TrellisInv'
    BY <1>1, <2>1 DEF IInv, TrellisInv, WrappersOnTop, OthersKept, Layers, NothingPatchedWhenIdle
  <2>3. TypeOK'
    BY <1>1, <2>1, ProgressStays DEF IInv, TypeOK, Enters
  <2> QED
    BY <1>1, <2>2, <2>3, ProgressStays DEF IInv, Enters
<1> QED
  BY <1>2, <1>3

LEMMA TailLayers ==
  ASSUME NEW S, NEW s \in Seq(S), s # <<>>
  PROVE  /\ Tail(s) \in Seq(S) /\ 1 \in 1..Len(s) /\ Head(s) = s[1]
         /\ \A i \in 1..Len(Tail(s)) : i + 1 \in 1..Len(s) /\ i + 1 # 1 /\ Tail(s)[i] = s[i + 1]
         /\ Layers(s) = Layers(Tail(s)) \cup {Head(s)}
<1>1. /\ Tail(s) \in Seq(S) /\ Len(Tail(s)) = Len(s) - 1 /\ Len(s) \in Nat \ {0}
      /\ Head(s) = s[1]
  OBVIOUS
<1>2. \A i \in 1..Len(Tail(s)) : i + 1 \in 1..Len(s) /\ i + 1 # 1 /\ Tail(s)[i] = s[i + 1]
  BY <1>1, HeadTailProperties
<1>3. Layers(Tail(s)) \cup {Head(s)} \subseteq Layers(s)
  BY <1>1, <1>2 DEF Layers
<1>4. ASSUME NEW i \in 1..Len(s)
      PROVE  s[i] \in Layers(Tail(s)) \cup {Head(s)}
  <2>1. CASE i = 1
    BY <1>1, <2>1
  <2>2. CASE i # 1
    <3>1. i - 1 \in 1..Len(Tail(s)) /\ i - 1 + 1 = i
      BY <1>1, <2>2
    <3>2. Tail(s)[i - 1] = s[i]
      BY <1>2, <3>1
    <3> QED
      BY <3>1, <3>2 DEF Layers
  <2> QED
    BY <2>1, <2>2
<1>5. Layers(s) \subseteq Layers(Tail(s)) \cup {Head(s)}
  BY <1>4 DEF Layers
<1> QED
  BY <1>1, <1>2, <1>3, <1>5

\* The last stream to leave takes its session's wrappers from the top of their modules.
LEMMA RestoreEffect ==
  ASSUME IInv, NEW r \in Runs, Exits(r), LastUser
  PROVE  /\ tqdm' \in [Modules -> Seq(Runs \cup Others)]
         /\ WrappersOnTop' /\ OthersKept'
<1>1. /\ patched' = {} /\ session' = NoRun /\ UNCHANGED <<theirs, stuck>>
      /\ tqdm' = [m \in Modules |->
           IF m \in patched /\ StillOurs(m) THEN Tail(tqdm[m]) ELSE tqdm[m]]
      /\ tqdm \in [Modules -> Seq(Runs \cup Others)]
  BY DEF Exits, IInv, TypeOK
<1>2. ASSUME NEW m \in Modules
      PROVE  /\ tqdm'[m] \in Seq(Runs \cup Others)
             /\ \A i \in 1..Len(tqdm'[m]) : tqdm'[m][i] \in Runs => <<m, tqdm'[m][i]>> \in stuck
             /\ Layers(tqdm'[m]) \cap Others = theirs[m]
  <2>1. /\ tqdm[m] \in Seq(Runs \cup Others)
        /\ \A i \in 1..Len(tqdm[m]) : tqdm[m][i] \in Runs =>
             \/ <<m, tqdm[m][i]>> \in stuck
             \/ i = 1 /\ m \in patched /\ session = tqdm[m][i]
        /\ Layers(tqdm[m]) \cap Others = theirs[m]
    BY <1>1 DEF IInv, TrellisInv, WrappersOnTop, OthersKept
  <2>2. CASE m \in patched /\ StillOurs(m)
    <3>1. tqdm'[m] = Tail(tqdm[m]) /\ tqdm[m] # <<>> /\ Head(tqdm[m]) = session
      BY <1>1, <2>2 DEF StillOurs
    <3>2. /\ Tail(tqdm[m]) \in Seq(Runs \cup Others)
          /\ \A i \in 1..Len(Tail(tqdm[m])) :
               i + 1 \in 1..Len(tqdm[m]) /\ i + 1 # 1 /\ Tail(tqdm[m])[i] = tqdm[m][i + 1]
          /\ Layers(tqdm[m]) = Layers(Tail(tqdm[m])) \cup {session}
      BY <2>1, <3>1, TailLayers
    <3>3. session \notin Others
      BY ProgressAssumption DEF IInv, TypeOK
    <3> QED
      BY <2>1, <3>1, <3>2, <3>3
  <2>3. CASE ~(m \in patched /\ StillOurs(m))
    <3>1. tqdm'[m] = tqdm[m]
      BY <1>1, <2>3
    <3>2. ASSUME NEW i \in 1..Len(tqdm[m]), tqdm[m][i] \in Runs
          PROVE  <<m, tqdm[m][i]>> \in stuck
      <4>1. i = 1 => tqdm[m] # <<>> /\ Head(tqdm[m]) = tqdm[m][i]
        BY <2>1, TailLayers
      <4> QED
        BY <2>1, <2>3, <3>2, <4>1 DEF StillOurs
    <3> QED
      BY <2>1, <3>1, <3>2
  <2> QED
    BY <2>2, <2>3
<1>3. tqdm' = [m \in Modules |-> tqdm'[m]]
  BY <1>1
<1> QED
  BY <1>1, <1>2, <1>3 DEF WrappersOnTop, OthersKept, Layers

LEMMA ExitsInv ==
  ASSUME IInv, NEW r \in Runs, Exits(r)
  PROVE  IInv'
<1>1. UsersInside' /\ users' \in Nat /\ (users' = 0 <=> LastUser)
  <2>1. Inside' = Inside \ {r} /\ r \in Inside
    BY DEF IInv, TypeOK, Exits, Inside
  <2>2. Cardinality(Inside) \in Nat \ {0}
    BY <2>1, FS_EmptySet, FS_CardinalityType DEF IInv, UsersInside
  <2> QED
    BY <2>1, <2>2, FS_RemoveElement DEF IInv, UsersInside, Exits, LastUser
<1>2. CASE LastUser
  <2>1. patched' = {} /\ session' = NoRun /\ UNCHANGED <<theirs, stuck, loaded>>
    BY <1>2 DEF Exits
  <2>2. tqdm' \in [Modules -> Seq(Runs \cup Others)] /\ WrappersOnTop' /\ OthersKept'
    BY <1>2, RestoreEffect
  <2>3. TypeOK'
    BY <1>1, <2>1, <2>2, ProgressStays DEF IInv, TypeOK, Exits
  <2>4. TrellisInv'
    BY <2>1, <2>2 DEF TrellisInv, NothingPatchedWhenIdle
  <2> QED
    BY <1>1, <2>3, <2>4, ProgressStays DEF IInv, Exits
<1>3. CASE ~LastUser
  <2>1. UNCHANGED <<tqdm, patched, session, loaded, theirs, stuck>>
    BY <1>3 DEF Exits
  <2>2. TrellisInv'
    BY <1>1, <1>3, <2>1
       DEF IInv, TrellisInv, WrappersOnTop, OthersKept, Layers, NothingPatchedWhenIdle
  <2>3. TypeOK'
    BY <1>1, <2>1, ProgressStays DEF IInv, TypeOK, Exits
  <2> QED
    BY <1>1, <2>2, <2>3, ProgressStays DEF IInv, Exits
<1> QED
  BY <1>2, <1>3

LEMMA PatchFailsInv ==
  ASSUME IInv, NEW r \in Runs, NEW ms \in SUBSET Modules, PatchFails(r, ms)
  PROVE  IInv'
<1>1. /\ users = 0 /\ tqdm' = Wrapped(r, ms) /\ stuck' = stuck \cup (ms \X {r})
      /\ UNCHANGED <<loaded, session, patched, users, theirs>>
  BY DEF PatchFails
<1>2. tqdm' \in [Modules -> Seq(Runs \cup Others)] /\ WrappersOnTop' /\ OthersKept'
  BY <1>1, WrappedEffect
<1>3. TrellisInv'
  BY <1>1, <1>2 DEF IInv, TrellisInv, NothingPatchedWhenIdle
<1>4. TypeOK'
  BY <1>1, <1>2, ProgressStays DEF IInv, TypeOK, PatchFails
<1>5. UsersInside'
  BY OthersCount DEF IInv, TypeOK, PatchFails
<1> QED
  BY <1>3, <1>4, <1>5, ProgressStays DEF IInv, PatchFails

LEMMA ReplaceEffect ==
  ASSUME IInv, NEW m \in Modules, NEW e \in Others, OthersReplace(m, e)
  PROVE  /\ tqdm' \in [Modules -> Seq(Runs \cup Others)]
         /\ WrappersOnTop' /\ OthersKept'
<1> DEFINE s == tqdm[m]
<1>1. /\ s \in Seq(Runs \cup Others) /\ tqdm \in [Modules -> Seq(Runs \cup Others)]
      /\ theirs \in [Modules -> SUBSET Others]
  BY DEF IInv, TypeOK
<1>2. /\ tqdm' = [tqdm EXCEPT ![m] = <<e>> \o s]
      /\ theirs' = [theirs EXCEPT ![m] = @ \cup {e}]
      /\ UNCHANGED <<session, patched>>
      /\ stuck \subseteq stuck'
      /\ \A r \in Runs : s # <<>> /\ Head(s) = r => <<m, r>> \in stuck'
  BY DEF OthersReplace
<1>3. /\ <<e>> \o s \in Seq(Runs \cup Others) /\ Len(<<e>> \o s) = Len(s) + 1
      /\ \A i \in 1..(Len(s) + 1) : (<<e>> \o s)[i] = IF i = 1 THEN e ELSE s[i - 1]
      /\ Layers(<<e>> \o s) = Layers(s) \cup {e}
      /\ Len(s) \in Nat
  BY <1>1, PutOver
<1>4. tqdm' \in [Modules -> Seq(Runs \cup Others)]
  BY <1>1, <1>2, <1>3
<1>5. OthersKept'
  BY <1>1, <1>2, <1>3 DEF IInv, TrellisInv, OthersKept, Layers
<1>6. ASSUME NEW i \in 1..Len(s), s[i] \in Runs
      PROVE  <<m, s[i]>> \in stuck'
  <2>1. <<m, s[i]>> \in stuck \/ i = 1
    BY <1>6 DEF IInv, TrellisInv, WrappersOnTop
  <2>2. i = 1 => s # <<>> /\ Head(s) = s[i]
    BY <1>1, TailLayers
  <2> QED
    BY <1>2, <1>6, <2>1, <2>2
<1>7. WrappersOnTop'
  <2> SUFFICES ASSUME NEW k \in Modules, NEW i \in 1..Len(tqdm'[k]), tqdm'[k][i] \in Runs
               PROVE  \/ <<k, tqdm'[k][i]>> \in stuck'
                      \/ i = 1 /\ k \in patched' /\ session' = tqdm'[k][i]
    BY DEF WrappersOnTop
  <2>1. CASE k # m
    BY <1>1, <1>2, <2>1 DEF IInv, TrellisInv, WrappersOnTop
  <2>2. CASE k = m
    <3>1. tqdm'[m] = <<e>> \o s /\ e \notin Runs
      BY <1>1, <1>2, ProgressAssumption
    <3>2. i # 1
      BY <1>3, <2>2, <3>1
    <3>3. i - 1 \in 1..Len(s) /\ tqdm'[m][i] = s[i - 1]
      BY <1>3, <2>2, <3>1, <3>2
    <3> QED
      BY <1>6, <2>2, <3>3
  <2> QED
    BY <2>1, <2>2
<1> QED
  BY <1>4, <1>5, <1>7

LEMMA BackEffect ==
  ASSUME IInv, NEW m \in Modules, OthersRestore(m)
  PROVE  /\ tqdm' \in [Modules -> Seq(Runs \cup Others)]
         /\ theirs' \in [Modules -> SUBSET Others]
         /\ WrappersOnTop' /\ OthersKept'
<1> DEFINE s == tqdm[m]
<1>1. /\ s \in Seq(Runs \cup Others) /\ tqdm \in [Modules -> Seq(Runs \cup Others)]
      /\ theirs \in [Modules -> SUBSET Others] /\ Len(s) \in Nat
  BY DEF IInv, TypeOK
<1>2. PICK i \in 1..Len(s) :
        /\ tqdm' = [tqdm EXCEPT ![m] = SubSeq(s, i + 1, Len(s))]
        /\ theirs' = [theirs EXCEPT ![m] = Layers(SubSeq(s, i + 1, Len(s))) \cap Others]
        /\ UNCHANGED <<session, patched, stuck>>
  BY DEF OthersRestore
<1> DEFINE t == SubSeq(s, i + 1, Len(s))
<1>3. /\ t \in Seq(Runs \cup Others)
      /\ \A j \in 1..Len(t) : i + j \in 1..Len(s) /\ i + j # 1 /\ t[j] = s[i + j]
  <2>1. i + 1 \in 1..(Len(s) + 1)
    BY <1>1
  <2>2. /\ t \in Seq(Runs \cup Others)
        /\ Len(t) = IF i + 1 <= Len(s) THEN Len(s) - (i + 1) + 1 ELSE 0
        /\ \A j \in 1..(Len(s) - (i + 1) + 1) : t[j] = s[(i + 1) + j - 1]
    BY <1>1, <2>1, SubSeqProperties
  <2>3. Len(t) = Len(s) - i
    BY <1>1, <2>2
  <2> QED
    BY <1>1, <2>2, <2>3
<1>4. tqdm' = [tqdm EXCEPT ![m] = t] /\ theirs' = [theirs EXCEPT ![m] = Layers(t) \cap Others]
  BY <1>2
<1> HIDE DEF t
<1>5. tqdm' \in [Modules -> Seq(Runs \cup Others)] /\ theirs' \in [Modules -> SUBSET Others]
  BY <1>1, <1>3, <1>4
<1>6. OthersKept'
  BY <1>1, <1>4 DEF IInv, TrellisInv, OthersKept, Layers
<1>7. WrappersOnTop'
  <2> SUFFICES ASSUME NEW k \in Modules, NEW j \in 1..Len(tqdm'[k]), tqdm'[k][j] \in Runs
               PROVE  \/ <<k, tqdm'[k][j]>> \in stuck'
                      \/ j = 1 /\ k \in patched' /\ session' = tqdm'[k][j]
    BY DEF WrappersOnTop
  <2>1. CASE k # m
    BY <1>1, <1>2, <2>1 DEF IInv, TrellisInv, WrappersOnTop
  <2>2. CASE k = m
    <3>1. tqdm'[m] = t
      BY <1>1, <1>4
    <3>2. i + j \in 1..Len(s) /\ i + j # 1 /\ tqdm'[m][j] = s[i + j]
      BY <1>3, <2>2, <3>1
    <3>3. <<m, s[i + j]>> \in stuck
      BY <2>2, <3>2 DEF IInv, TrellisInv, WrappersOnTop
    <3>4. <<k, tqdm'[k][j]>> = <<m, s[i + j]>> /\ stuck' = stuck
      BY <1>2, <2>2, <3>2
    <3> QED
      BY <3>3, <3>4
  <2> QED
    BY <2>1, <2>2
<1> QED
  BY <1>5, <1>6, <1>7

LEMMA ModulesInv ==
  ASSUME IInv, NEW m \in Modules,
         Imports(m) \/ OthersRestore(m) \/ \E e \in Others : OthersReplace(m, e)
  PROVE  IInv'
<1>0. UsersInside'
  BY OthersCount DEF Imports, OthersReplace, OthersRestore
<1>1. CASE Imports(m)
  <2>1. TrellisInv'
    BY <1>1, TrellisStays DEF Imports
  <2> QED
    BY <1>0, <1>1, <2>1, ProgressStays DEF IInv, TypeOK, Imports
<1>2. CASE OthersRestore(m)
  <2>1. /\ tqdm' \in [Modules -> Seq(Runs \cup Others)]
        /\ theirs' \in [Modules -> SUBSET Others] /\ WrappersOnTop' /\ OthersKept'
    BY <1>2, BackEffect
  <2>2. UNCHANGED <<peer, loaded, session, patched, users, stuck, peerVars, wire, clientVars>>
    BY <1>2 DEF OthersRestore
  <2> QED
    BY <1>0, <2>1, <2>2, ProgressStays DEF IInv, TypeOK, TrellisInv, NothingPatchedWhenIdle
<1>3. ASSUME NEW e \in Others, OthersReplace(m, e)
      PROVE  IInv'
  <2>1. tqdm' \in [Modules -> Seq(Runs \cup Others)] /\ WrappersOnTop' /\ OthersKept'
    BY <1>3, ReplaceEffect
  <2>2. /\ UNCHANGED <<peer, loaded, session, patched, users, peerVars, wire, clientVars>>
        /\ theirs' \in [Modules -> SUBSET Others] /\ stuck' \subseteq Modules \X Runs
    BY <1>3 DEF OthersReplace, IInv, TypeOK
  <2> QED
    BY <1>0, <2>1, <2>2, ProgressStays DEF IInv, TypeOK, TrellisInv, NothingPatchedWhenIdle
<1> QED
  BY <1>1, <1>2, <1>3

-------------------------------------------------------------------------------
(* Reports and snapshots.                                                     *)

\* A bar that starts or advances never takes its node's entry back, unless it is
\* a native bar that starts again, and has a positive total, unless it is native.
LEMMA ReportEffect ==
  ASSUME IInv, NEW r \in Runs, NEW n \in NodesOf[r],
         TqdmUpdates(r, n) \/ NativeUpdates(r, n)
         \/ \E total \in Totals : TqdmStarts(r, n, total) \/ NativeStarts(r, n, total)
  PROVE  \E b \in Bars : /\ Reports(r, n, b, Reached(b))
                         /\ b.bars # 0 /\ (n \notin trellis => b.offset = 0)
                         /\ r \in restarted' \/ n \notin visible \/ Le(registry[r][n], Reached(b))
                         /\ r \in zeroed' \/ n \in unmapped \/ b.total # 0
                         /\ restarted \subseteq restarted' /\ restarted' \subseteq Runs
                         /\ zeroed \subseteq zeroed' /\ zeroed' \subseteq Runs
<1> DEFINE o == bar[r][n]
<1>o. /\ o \in Bars /\ registry[r][n] = Reached(o)
      /\ o.bars = 0 => o = NoBar
      /\ n \notin trellis => o.offset = 0
      /\ restarted \subseteq Runs /\ zeroed \subseteq Runs /\ Totals \subseteq Nat
      /\ r \in zeroed \/ n \in unmapped \/ o.bars = 0 \/ o.total # 0
  BY ProgressAssumption DEF IInv, TypeOK, BarsReported, WellFormed, RunWellFormed
<1> DEFINE Effect(b) ==
             /\ Reports(r, n, b, Reached(b))
             /\ b.bars # 0 /\ (n \notin trellis => b.offset = 0)
             /\ r \in restarted' \/ n \notin visible \/ Le(registry[r][n], Reached(b))
             /\ r \in zeroed' \/ n \in unmapped \/ b.total # 0
             /\ restarted \subseteq restarted' /\ restarted' \subseteq Runs
             /\ zeroed \subseteq zeroed' /\ zeroed' \subseteq Runs
<1>1. ASSUME NEW total \in Totals, TqdmStarts(r, n, total)
      PROVE  \E b \in Bars : Effect(b)
  <2> DEFINE b == [offset |-> o.offset + o.total, total |-> total, n |-> 0, bars |-> o.bars + 1]
  <2>1. b \in Bars /\ Effect(b)
    BY <1>o, <1>1 DEF TqdmStarts, Offset, Bars, Reached, Le
  <2> QED
    BY <2>1
<1>2. ASSUME NEW total \in Totals, NativeStarts(r, n, total)
      PROVE  \E b \in Bars : Effect(b)
  <2> DEFINE b == [offset |-> 0, total |-> total, n |-> 0, bars |-> o.bars + 1]
  <2>1. /\ b \in Bars /\ Reached(b) = [value |-> 0, max |-> total]
        /\ Reports(r, n, b, [value |-> 0, max |-> total]) /\ n \notin trellis
        /\ restarted' = restarted \cup {q \in {r} : o.bars > 0 /\ n \in visible}
        /\ zeroed' = zeroed \cup {q \in {r} : total = 0 /\ n \notin unmapped}
    BY <1>o, <1>2 DEF NativeStarts, Bars, Reached
  <2>2. o.bars = 0 => Le(registry[r][n], Reached(b))
    <3>1. o.bars = 0 => registry[r][n] = [value |-> 0, max |-> 0]
      BY <1>o DEF Reached, NoBar
    <3> QED
      BY <1>o, <2>1, <3>1 DEF Le
  <2>3. r \in restarted' \/ n \notin visible \/ o.bars = 0
    BY <1>o, <2>1 DEF Bars
  <2>4. r \in zeroed' \/ n \in unmapped \/ total # 0
    BY <2>1
  <2>5. /\ restarted \subseteq restarted' /\ restarted' \subseteq Runs
        /\ zeroed \subseteq zeroed' /\ zeroed' \subseteq Runs
    BY <1>o, <2>1
  <2>6. b.bars # 0 /\ b.offset = 0 /\ b.total = total
    BY <1>o DEF Bars
  <2>7. Effect(b)
    BY <2>1, <2>2, <2>3, <2>4, <2>5, <2>6
  <2> QED
    BY <2>1, <2>7
<1>3. CASE TqdmUpdates(r, n) \/ NativeUpdates(r, n)
  <2> DEFINE b == [o EXCEPT !.n = @ + 1]
  <2>1. /\ b \in Bars /\ b.offset = o.offset /\ b.total = o.total
        /\ b.n = o.n + 1 /\ b.bars = o.bars
    BY <1>o DEF Bars
  <2>2. CASE TqdmUpdates(r, n)
    <3>1. Reports(r, n, b, Reached(b)) /\ o.bars > 0 /\ o.n <= o.total
          /\ UNCHANGED <<restarted, zeroed>> /\ n \in trellis
      BY <2>1, <2>2 DEF TqdmUpdates, Reached
    <3>2. Le(registry[r][n], Reached(b))
      BY <1>o, <2>1, <3>1 DEF Reached, Le, Bars
    <3> QED
      BY <1>o, <2>1, <3>1, <3>2 DEF Bars
  <2>3. CASE NativeUpdates(r, n)
    <3>1. o.n < o.total /\ n \notin trellis /\ UNCHANGED <<restarted, zeroed>>
          /\ Reports(r, n, b, [value |-> o.n + 1, max |-> o.total])
      BY <2>3 DEF NativeUpdates
    <3>2. Reached(b) = [value |-> o.n + 1, max |-> o.total] /\ Le(registry[r][n], Reached(b))
      BY <1>o, <2>1, <3>1 DEF Reached, Le, Bars
    <3>3. o.bars # 0
      BY <1>o, <3>1 DEF NoBar
    <3> QED
      BY <1>o, <2>1, <3>1, <3>2, <3>3 DEF Bars
  <2> QED
    BY <1>3, <2>2, <2>3
<1> QED
  BY <1>1, <1>2, <1>3

LEMMA ReportInv ==
  ASSUME IInv, NEW r \in Runs, NEW n \in NodesOf[r],
         TqdmUpdates(r, n) \/ NativeUpdates(r, n)
         \/ \E total \in Totals : TqdmStarts(r, n, total) \/ NativeStarts(r, n, total)
  PROVE  IInv'
<1>1. PICK b \in Bars :
        /\ Reports(r, n, b, Reached(b))
        /\ b.bars # 0 /\ (n \notin trellis => b.offset = 0)
        /\ r \in restarted' \/ n \notin visible \/ Le(registry[r][n], Reached(b))
        /\ r \in zeroed' \/ n \in unmapped \/ b.total # 0
        /\ restarted \subseteq restarted' /\ restarted' \subseteq Runs
        /\ zeroed \subseteq zeroed' /\ zeroed' \subseteq Runs
  BY ReportEffect
<1> DEFINE e == Reached(b)
<1>2. e \in Entries
  BY DEF Reached, Bars, Entries
<1> HIDE DEF e
<1>3. /\ bar' = [q \in Runs |-> IF q = r THEN [bar[r] EXCEPT ![n] = b] ELSE bar[q]]
      /\ registry' = [q \in Runs |-> IF q = r THEN [registry[r] EXCEPT ![n] = e] ELSE registry[q]]
      /\ UNCHANGED <<peer, kindVars, wire, trellisVars, clientVars>>
  BY <1>1 DEF Reports, IInv, TypeOK, e
<1>4. /\ bar[r] \in [NodesOf[r] -> Bars] /\ registry[r] \in [NodesOf[r] -> Entries]
      /\ \A q \in Runs : bar[q] \in [NodesOf[q] -> Bars] /\ registry[q] \in [NodesOf[q] -> Entries]
  BY DEF IInv, TypeOK
<1>5. \A q \in Runs : /\ bar'[q] \in [NodesOf[q] -> Bars]
                      /\ registry'[q] \in [NodesOf[q] -> Entries]
  BY <1>2, <1>3, <1>4
<1>6. TypeOK'
  BY <1>1, <1>3, <1>5 DEF IInv, TypeOK, kindVars, trellisVars, clientVars, Messages
<1>7. BarsReported'
  BY <1>1, <1>3, <1>4 DEF IInv, BarsReported, kindVars, e
<1>8. \A q \in Runs \ restarted' : \A k \in NodesOf[q] \cap visible :
        Le(registry[q][k], registry'[q][k])
  BY <1>1, <1>3, <1>4 DEF Le, Entries, e
<1>9. InOrder'
  <2> SUFFICES ASSUME NEW q \in Runs \ restarted'
               PROVE  RunInOrder(q)'
    BY DEF InOrder
  <2>1. RunInOrder(q) /\ UNCHANGED <<wire, remote, visible>>
    BY <1>1, <1>3 DEF IInv, InOrder, kindVars, clientVars
  <2>2. /\ \A k \in NodesOf[q] : remote[q][k] \in Entries /\ registry[q][k] \in Entries
                                /\ registry'[q][k] \in Entries
        /\ \A i \in 1..Len(wire[q]) : \A k \in DOMAIN wire[q][i] :
             k \in NodesOf[q] /\ wire[q][i][k] \in Entries
    <3>1. \A i \in 1..Len(wire[q]) : wire[q][i] \in Messages(q)
      BY DEF IInv, TypeOK
    <3> QED
      BY <1>4, <1>5, <3>1 DEF IInv, TypeOK, Messages
  <2>3. \A k \in NodesOf[q] \cap visible : Le(remote[q][k], registry'[q][k])
    BY <1>8, LeTransitive, <2>1, <2>2 DEF RunInOrder
  <2>4. \A i \in 1..Len(wire[q]) : \A k \in DOMAIN wire[q][i] \cap visible :
          Le(wire[q][i][k], registry'[q][k])
    <3> SUFFICES ASSUME NEW i \in 1..Len(wire[q]), NEW k \in DOMAIN wire[q][i] \cap visible
                 PROVE  Le(wire[q][i][k], registry'[q][k])
      OBVIOUS
    <3>1. k \in NodesOf[q] /\ Le(wire[q][i][k], registry[q][k])
      BY <2>1, <2>2 DEF RunInOrder
    <3> QED
      BY <1>8, LeTransitive, <2>2, <3>1
  <2> QED
    BY <2>1, <2>3, <2>4 DEF RunInOrder
<1>10. (OnlyNativeBarsFail /\ ShownBehind /\ NothingForgotten)'
  BY <1>1, <1>3 DEF IInv, OnlyNativeBarsFail, ShownBehind, NothingForgotten, clientVars
<1>11. WellFormed' /\ MappedOnWire'
  BY <1>1, <1>3, <1>4 DEF IInv, WellFormed, RunWellFormed, MappedOnWire, kindVars
<1>12. UsersInside' /\ TrellisInv'
  BY <1>3, OthersCount, TrellisStays DEF trellisVars
<1> QED
  BY <1>6, <1>7, <1>9, <1>10, <1>11, <1>12 DEF IInv

LEMMA SnapshotType ==
  ASSUME TypeOK, NEW r \in Runs
  PROVE  /\ Snapshot(r) \in Messages(r)
         /\ DOMAIN Snapshot(r) \subseteq Begun(r) \ unmapped
         /\ \A n \in DOMAIN Snapshot(r) : Snapshot(r)[n] = registry[r][n]
<1> DEFINE S == Begun(r) \ unmapped
<1>1. S \in SUBSET NodesOf[r] /\ \A n \in S : registry[r][n] \in Entries
  BY DEF TypeOK, Begun
<1>2. Snapshot(r) = [n \in S |-> registry[r][n]]
  BY DEF Snapshot
<1>3. Snapshot(r) \in [S -> Entries]
  BY <1>1, <1>2
<1> QED
  BY <1>1, <1>2, <1>3 DEF Messages

LEMMA MessageEntries ==
  ASSUME TypeOK, NEW r \in Runs, NEW i \in 1..Len(wire[r])
  PROVE  \A n \in DOMAIN wire[r][i] : n \in NodesOf[r] /\ wire[r][i][n] \in Entries
<1>1. wire[r][i] \in Messages(r)
  BY DEF TypeOK
<1> QED
  BY <1>1 DEF Messages

LEMMA SendsInv ==
  ASSUME IInv, NEW r \in Runs, Sends(r)
  PROVE  IInv'
<1>1. wire' = [q \in Runs |-> IF q = r THEN Append(wire[r], Snapshot(r)) ELSE wire[q]]
  BY DEF IInv, TypeOK, Sends
<1>2. \A q \in Runs : wire'[q] \in Seq(Messages(q))
  BY <1>1, SnapshotType DEF IInv, TypeOK
<1>3. TypeOK'
  <2>1. wire' = [q \in Runs |-> wire'[q]]
    BY <1>1
  <2> QED
    BY <1>2, <2>1 DEF IInv, TypeOK, Sends, peerVars, kindVars, trellisVars, clientVars, Messages
<1>4. InOrder'
  <2> SUFFICES ASSUME NEW q \in Runs \ restarted
               PROVE  RunInOrder(q)'
    BY DEF InOrder, Sends, peerVars
  <2>1. RunInOrder(q) /\ UNCHANGED <<registry, remote, visible>>
    BY DEF IInv, InOrder, Sends, peerVars, kindVars, clientVars
  <2>2. CASE q # r
    BY <1>1, <2>1, <2>2 DEF RunInOrder
  <2>3. CASE q = r
    <3> DEFINE m == Snapshot(r)  w == wire[r]
    <3>1. /\ DOMAIN m \subseteq NodesOf[r] /\ m \in Messages(r)
          /\ \A n \in DOMAIN m : m[n] = registry[r][n] /\ registry[r][n] \in Entries
      BY SnapshotType DEF IInv, TypeOK, Begun
    <3>2. /\ w \in Seq(Messages(r)) /\ wire'[r] = Append(w, m)
          /\ Len(wire'[r]) = Len(w) + 1 /\ Len(w) \in Nat
          /\ wire'[r][Len(w) + 1] = m
          /\ \A i \in 1..Len(w) : wire'[r][i] = w[i]
      BY <1>1, <3>1 DEF IInv, TypeOK
    <3> HIDE DEF m, w
    <3>3. \A i \in 1..Len(wire'[r]) : i \in 1..Len(w) \/ i = Len(w) + 1
      BY <3>2
    <3>4. /\ \A n \in NodesOf[r] \cap visible : Le(remote[r][n], registry[r][n])
          /\ \A i \in 1..Len(w) : \A n \in DOMAIN w[i] \cap visible :
               /\ Le(remote[r][n], w[i][n]) /\ Le(w[i][n], registry[r][n])
               /\ \A j \in 1..Len(w) : i < j /\ n \in DOMAIN w[j] => Le(w[i][n], w[j][n])
      BY <2>1, <2>3 DEF RunInOrder, w
    <3>5. ASSUME NEW i \in 1..Len(wire'[r]), NEW n \in DOMAIN wire'[r][i] \cap visible
          PROVE  /\ Le(remote[r][n], wire'[r][i][n]) /\ Le(wire'[r][i][n], registry[r][n])
                 /\ \A j \in 1..Len(wire'[r]) :
                      i < j /\ n \in DOMAIN wire'[r][j] => Le(wire'[r][i][n], wire'[r][j][n])
      <4>1. CASE i \in 1..Len(w)
        BY <3>1, <3>2, <3>3, <3>4, <4>1
      <4>2. CASE i = Len(w) + 1
        BY <3>1, <3>2, <3>3, <3>4, <4>2 DEF Le, Entries
      <4> QED
        BY <3>3, <4>1, <4>2
    <3> QED
      BY <2>1, <2>3, <3>4, <3>5 DEF RunInOrder
  <2> QED
    BY <2>2, <2>3
<1>5. (BarsReported /\ OnlyNativeBarsFail /\ ShownBehind /\ NothingForgotten)'
  BY DEF IInv, BarsReported, OnlyNativeBarsFail, ShownBehind, NothingForgotten, Sends, peerVars,
     kindVars, clientVars
<1>6. UsersInside' /\ TrellisInv'
  BY OthersCount, TrellisStays DEF Sends, trellisVars
<1>7. \A q \in Runs : \A i \in 1..Len(wire'[q]) :
        \/ i \in 1..Len(wire[q]) /\ wire'[q][i] = wire[q][i]
        \/ q = r /\ wire'[q][i] = Snapshot(r)
  <2>1. CASE TRUE
    <3> SUFFICES ASSUME NEW q \in Runs, NEW i \in 1..Len(wire'[q])
                 PROVE  \/ i \in 1..Len(wire[q]) /\ wire'[q][i] = wire[q][i]
                        \/ q = r /\ wire'[q][i] = Snapshot(r)
      OBVIOUS
    <3>1. wire[r] \in Seq(Messages(r)) /\ Snapshot(r) \in Messages(r)
      BY SnapshotType DEF IInv, TypeOK
    <3>2. CASE q = r
      <4>1. wire'[r] = Append(wire[r], Snapshot(r))
        BY <1>1
      <4>2. Len(wire'[r]) = Len(wire[r]) + 1 /\ Len(wire[r]) \in Nat
        BY <3>1, <4>1
      <4>3. i \in 1..Len(wire[r]) \/ i = Len(wire[r]) + 1
        BY <3>2, <4>2
      <4> QED
        BY <3>1, <3>2, <4>1, <4>3
    <3> QED
      BY <1>1, <3>2
  <2> QED
    BY <2>1
<1>8. \A n \in DOMAIN Snapshot(r) :
        /\ n \notin unmapped /\ Snapshot(r)[n] = Reached(bar[r][n])
        /\ r \notin zeroed => ~Malformed(Snapshot(r)[n])
  <2> TAKE n \in DOMAIN Snapshot(r)
  <2>1. /\ n \in NodesOf[r] /\ n \notin unmapped /\ bar[r][n].bars > 0 /\ bar[r][n] \in Bars
        /\ Snapshot(r)[n] = Reached(bar[r][n])
    BY SnapshotType DEF IInv, TypeOK, Begun, BarsReported
  <2>2. r \notin zeroed => bar[r][n].total # 0
    BY <2>1 DEF IInv, WellFormed, RunWellFormed, Bars
  <2> QED
    BY <2>1, <2>2 DEF Malformed, Reached, Bars
<1>9. WellFormed' /\ MappedOnWire'
  <2>1. UNCHANGED <<bar, zeroed, unmapped>>
    BY DEF Sends, peerVars, kindVars
  <2> QED
    BY <1>7, <1>8, <2>1 DEF IInv, WellFormed, RunWellFormed, MappedOnWire
<1> QED
  BY <1>3, <1>4, <1>5, <1>6, <1>9 DEF IInv

-------------------------------------------------------------------------------
(* The client.                                                                *)

LEMMA ClientKeeps ==
  ASSUME IInv, UNCHANGED <<peer, peerVars, trellisVars>>
  PROVE  /\ (BarsReported /\ UsersInside /\ TrellisInv)'
         /\ (\A q \in Runs : \A i \in 1..Len(wire'[q]) :
               \E j \in 1..Len(wire[q]) : wire'[q][i] = wire[q][j])
            => (WellFormed /\ MappedOnWire)'
<1>1. BarsReported'
  BY DEF IInv, BarsReported, peerVars, kindVars
<1>2. UsersInside' /\ TrellisInv'
  BY OthersCount, TrellisStays DEF trellisVars
<1>3. ASSUME \A q \in Runs : \A i \in 1..Len(wire'[q]) :
               \E j \in 1..Len(wire[q]) : wire'[q][i] = wire[q][j]
      PROVE  (WellFormed /\ MappedOnWire)'
  BY <1>3 DEF IInv, WellFormed, RunWellFormed, MappedOnWire, peerVars, kindVars
<1> QED
  BY <1>1, <1>2, <1>3

LEMMA HeadOfWire ==
  ASSUME TypeOK, NEW r \in Runs, wire[r] # <<>>
  PROVE  /\ 1 \in 1..Len(wire[r]) /\ Head(wire[r]) = wire[r][1]
         /\ Tail(wire[r]) \in Seq(Messages(r))
         /\ Len(Tail(wire[r])) = Len(wire[r]) - 1 /\ Len(wire[r]) \in Nat
         /\ \A i \in 1..Len(Tail(wire[r])) : /\ i + 1 \in 1..Len(wire[r])
                                             /\ Tail(wire[r])[i] = wire[r][i + 1]
         /\ \A n \in DOMAIN Head(wire[r]) : n \in NodesOf[r] /\ Head(wire[r])[n] \in Entries
<1>1. wire[r] \in Seq(Messages(r))
  BY DEF TypeOK
<1>2. /\ 1 \in 1..Len(wire[r]) /\ Head(wire[r]) = wire[r][1]
      /\ Tail(wire[r]) \in Seq(Messages(r))
      /\ Len(Tail(wire[r])) = Len(wire[r]) - 1 /\ Len(wire[r]) \in Nat
  BY <1>1
<1>3. \A i \in 1..Len(Tail(wire[r])) : /\ i + 1 \in 1..Len(wire[r])
                                       /\ Tail(wire[r])[i] = wire[r][i + 1]
  BY <1>1, <1>2, HeadTailProperties
<1> QED
  BY <1>2, <1>3, MessageEntries

LEMMA IngestsInv ==
  ASSUME IInv, NEW r \in Runs, NEW due \in SUBSET NodesOf[r], Ingests(r, due)
  PROVE  /\ IInv'
         /\ \A n \in NodesOf[r] : Le(shown[r][n], shown'[r][n])
         /\ \A q \in Runs \ {r} : shown'[q] = shown[q]
<1> DEFINE w == wire[r]
           msg == Head(w)
           mirrored == DOMAIN msg \cap visible
           entries == [n \in NodesOf[r] |-> IF n \in mirrored THEN msg[n] ELSE remote[r][n]]
           now == {n \in mirrored : EmitsNow(r, n, msg[n], due)} \cup (pending[r] \cap due)
           seen == [n \in NodesOf[r] |-> IF n \in now THEN entries[n] ELSE shown[r][n]]
<1>0. /\ TypeOK /\ remote[r] \in [NodesOf[r] -> Entries] /\ shown[r] \in [NodesOf[r] -> Entries]
      /\ pending[r] \subseteq NodesOf[r]
  BY DEF IInv, TypeOK
<1>1. /\ w # <<>> /\ client[r] = "streaming"
      /\ \A n \in mirrored : ~OutOfOrder(remote[r][n], msg[n])
      /\ UNCHANGED <<peer, peerVars, trellisVars, client, failed>>
  BY DEF Ingests, Refused
<1>2. /\ 1 \in 1..Len(w) /\ msg = w[1] /\ Tail(w) \in Seq(Messages(r))
      /\ Len(Tail(w)) = Len(w) - 1 /\ Len(w) \in Nat
      /\ \A i \in 1..Len(Tail(w)) : i + 1 \in 1..Len(w) /\ Tail(w)[i] = w[i + 1]
      /\ \A n \in DOMAIN msg : n \in NodesOf[r] /\ msg[n] \in Entries
  BY <1>0, <1>1, HeadOfWire
<1>3. /\ entries \in [NodesOf[r] -> Entries] /\ seen \in [NodesOf[r] -> Entries]
      /\ now \subseteq NodesOf[r] /\ mirrored \subseteq NodesOf[r]
  BY <1>0, <1>2
<1>4. /\ remote' = [q \in Runs |-> IF q = r THEN entries ELSE remote[q]]
      /\ shown' = [q \in Runs |-> IF q = r THEN seen ELSE shown[q]]
      /\ pending' = [q \in Runs |-> IF q = r THEN (pending[r] \cup mirrored) \ now ELSE pending[q]]
      /\ wire' = [q \in Runs |-> IF q = r THEN Tail(w) ELSE wire[q]]
  BY <1>0 DEF Ingests, TypeOK
<1>5. \A n \in NodesOf[r] : /\ Le(remote[r][n], entries[n])
                            /\ n \in mirrored => entries[n] = msg[n]
                            /\ n \notin mirrored => entries[n] = remote[r][n]
                            /\ n \in now => seen[n] = entries[n]
                            /\ n \notin now => seen[n] = shown[r][n]
                            /\ n \in mirrored /\ n \notin now => ~Complete(entries[n])
                            /\ n \in pending[r] /\ n \in due => n \in now
  <2>1. \A n \in NodesOf[r] : /\ n \in mirrored => entries[n] = msg[n]
                              /\ n \notin mirrored => entries[n] = remote[r][n]
                              /\ n \in now => seen[n] = entries[n]
                              /\ n \notin now => seen[n] = shown[r][n]
                              /\ n \in mirrored /\ n \notin now => ~Complete(msg[n])
    BY DEF EmitsNow
  <2>2. \A n \in NodesOf[r] : Le(remote[r][n], entries[n])
    BY <1>0, <1>1, <1>2, <2>1 DEF Le, Entries, OutOfOrder
  <2> QED
    BY <2>1, <2>2
<1>m. mirrored = DOMAIN msg \cap visible
  OBVIOUS
<1> HIDE DEF w, msg, mirrored, entries, now, seen
<1>6. TypeOK'
  <2>1. \A q \in Runs : /\ remote'[q] \in [NodesOf[q] -> Entries]
                        /\ shown'[q] \in [NodesOf[q] -> Entries]
                        /\ pending'[q] \subseteq NodesOf[q]
                        /\ wire'[q] \in Seq(Messages(q))
    BY <1>0, <1>2, <1>3, <1>4 DEF TypeOK
  <2>2. /\ remote' = [q \in Runs |-> remote'[q]] /\ shown' = [q \in Runs |-> shown'[q]]
        /\ pending' = [q \in Runs |-> pending'[q]] /\ wire' = [q \in Runs |-> wire'[q]]
    BY <1>4
  <2> QED
    BY <1>0, <1>1, <2>1, <2>2 DEF TypeOK, peerVars, kindVars, trellisVars, Messages
<1>7. InOrder'
  <2> SUFFICES ASSUME NEW q \in Runs \ restarted
               PROVE  RunInOrder(q)'
    BY <1>1 DEF InOrder, peerVars
  <2>1. RunInOrder(q) /\ UNCHANGED <<registry, visible>>
    BY <1>1 DEF IInv, InOrder, peerVars, kindVars
  <2>2. CASE q # r
    BY <1>4, <2>1, <2>2 DEF RunInOrder
  <2>3. CASE q = r
    <3>1. /\ \A n \in NodesOf[r] \cap visible : Le(remote[r][n], registry[r][n])
          /\ \A i \in 1..Len(w) : \A n \in DOMAIN w[i] \cap visible :
               /\ Le(remote[r][n], w[i][n]) /\ Le(w[i][n], registry[r][n])
               /\ \A j \in 1..Len(w) : i < j /\ n \in DOMAIN w[j] => Le(w[i][n], w[j][n])
      BY <2>1, <2>3 DEF RunInOrder, w
    <3>2. \A n \in NodesOf[r] \cap visible : Le(entries[n], registry[r][n])
      BY <1>2, <1>5, <1>m, <3>1
    <3>3. \A i \in 1..Len(w) : \A n \in DOMAIN w[i] : n \in NodesOf[r]
      BY <1>0, MessageEntries DEF w
    <3>4. ASSUME NEW i \in 1..Len(Tail(w)), NEW n \in DOMAIN Tail(w)[i] \cap visible
          PROVE  /\ Le(entries[n], Tail(w)[i][n]) /\ Le(Tail(w)[i][n], registry[r][n])
                 /\ \A j \in 1..Len(Tail(w)) :
                      i < j /\ n \in DOMAIN Tail(w)[j] => Le(Tail(w)[i][n], Tail(w)[j][n])
      <4>1. i + 1 \in 1..Len(w) /\ 1 < i + 1 /\ Tail(w)[i] = w[i + 1] /\ n \in DOMAIN w[i + 1]
            /\ n \in NodesOf[r]
        BY <1>2, <3>3
      <4>2. Le(entries[n], w[i + 1][n])
        BY <1>2, <1>5, <1>m, <3>1, <4>1
      <4>3. ASSUME NEW j \in 1..Len(Tail(w)), i < j, n \in DOMAIN Tail(w)[j]
            PROVE  Le(Tail(w)[i][n], Tail(w)[j][n])
        BY <1>2, <3>1, <4>1, <4>3
      <4> QED
        BY <3>1, <4>1, <4>2, <4>3
    <3>5. wire'[r] = Tail(w) /\ remote'[r] = entries /\ UNCHANGED <<registry, visible>>
      BY <1>4, <2>1
    <3>6. \A n \in NodesOf[r] \cap visible' : Le(remote'[r][n], registry'[r][n])
      BY <3>2, <3>5
    <3>7. \A i \in 1..Len(wire'[r]) : \A n \in DOMAIN wire'[r][i] \cap visible' :
            /\ Le(remote'[r][n], wire'[r][i][n]) /\ Le(wire'[r][i][n], registry'[r][n])
            /\ \A j \in 1..Len(wire'[r]) :
                 i < j /\ n \in DOMAIN wire'[r][j] => Le(wire'[r][i][n], wire'[r][j][n])
      BY <3>4, <3>5
    <3>8. RunInOrder(r)'
      BY <3>6, <3>7 DEF RunInOrder
    <3> QED
      BY <2>3, <3>8
  <2> QED
    BY <2>2, <2>3
<1>8. NothingForgotten'
  <2> SUFFICES ASSUME NEW q \in Runs, client[q] = "streaming", NEW n \in NodesOf[q]
               PROVE  shown'[q][n] = remote'[q][n]
                      \/ (n \in pending'[q] /\ ~Complete(remote'[q][n]))
    BY <1>1 DEF NothingForgotten
  <2>1. shown[q][n] = remote[q][n] \/ (n \in pending[q] /\ ~Complete(remote[q][n]))
    BY DEF IInv, NothingForgotten
  <2> QED
    BY <1>4, <1>5, <2>1
<1>9. \A n \in NodesOf[r] : Le(shown[r][n], seen[n]) /\ Le(seen[n], entries[n])
  <2> TAKE n \in NodesOf[r]
  <2>1. /\ Le(shown[r][n], remote[r][n]) /\ Le(remote[r][n], entries[n])
        /\ shown[r][n] \in Entries /\ remote[r][n] \in Entries /\ entries[n] \in Entries
        /\ seen[n] \in {shown[r][n], entries[n]}
    BY <1>0, <1>1, <1>3, <1>5 DEF IInv, ShownBehind
  <2>2. Le(shown[r][n], entries[n]) /\ Le(shown[r][n], shown[r][n]) /\ Le(entries[n], entries[n])
    BY <2>1, LeTransitive DEF Le, Entries
  <2> QED
    BY <2>1, <2>2
<1>10. ShownBehind'
  BY <1>1, <1>4, <1>9 DEF IInv, ShownBehind
<1>11. OnlyNativeBarsFail'
  BY <1>1 DEF IInv, OnlyNativeBarsFail, peerVars
<1>12. \A q \in Runs : \A i \in 1..Len(wire'[q]) : \E j \in 1..Len(wire[q]) : wire'[q][i] = wire[q][j]
  BY <1>2, <1>4 DEF w
<1> QED
  BY <1>1, <1>4, <1>6, <1>7, <1>8, <1>9, <1>10, <1>11, <1>12, ClientKeeps DEF IInv

\* A snapshot is refused for a native bar that started again or had total 0.
LEMMA RefusedNative ==
  ASSUME IInv, NEW r \in Runs, IngestRaises(r)
  PROVE  r \in restarted \cup zeroed
<1> SUFFICES ASSUME r \notin restarted, r \notin zeroed PROVE FALSE
  OBVIOUS
<1>1. PICK n \in DOMAIN Head(wire[r]) : Refused(r, n, Head(wire[r])[n])
  BY DEF IngestRaises
<1>2. /\ 1 \in 1..Len(wire[r]) /\ Head(wire[r]) = wire[r][1]
      /\ n \in NodesOf[r] /\ Head(wire[r])[n] \in Entries
  BY HeadOfWire DEF IngestRaises, IInv
<1>3. ~Malformed(Head(wire[r])[n]) /\ n \notin unmapped
  BY <1>2 DEF IInv, WellFormed, RunWellFormed, MappedOnWire
<1>4. n \in visible => Le(remote[r][n], Head(wire[r])[n])
  BY <1>2 DEF IInv, InOrder, RunInOrder
<1>5. remote[r][n] \in Entries
  BY <1>2 DEF IInv, TypeOK
<1> QED
  BY <1>1, <1>2, <1>3, <1>4, <1>5 DEF Le, Entries, Refused, OutOfOrder

LEMMA EndInv ==
  ASSUME IInv, NEW r \in Runs, IngestRaises(r) \/ StreamEnds(r) \/ CleansUp(r)
  PROVE  /\ IInv'
         /\ client'[r] # "streaming"
         /\ \A q \in Runs \ {r} : shown'[q] = shown[q]
<1> DEFINE nothing == [n \in NodesOf[r] |-> None]
<1>0. /\ TypeOK /\ nothing \in [NodesOf[r] -> Entries]
      /\ \A n \in NodesOf[r] : nothing[n] = None
  BY DEF IInv, None, Entries
<1>e. UNCHANGED <<peer, peerVars, trellisVars>>
  BY DEF IngestRaises, StreamEnds, CleansUp
<1>1. CASE IngestRaises(r) \/ StreamEnds(r)
  <2>1. /\ remote' = [q \in Runs |-> IF q = r THEN nothing ELSE remote[q]]
        /\ pending' = [q \in Runs |-> IF q = r THEN {} ELSE pending[q]]
        /\ wire' = [q \in Runs |-> IF q = r THEN <<>> ELSE wire[q]]
        /\ client' = [q \in Runs |-> IF q = r THEN "closing" ELSE client[q]]
        /\ shown' = shown
        /\ failed' \subseteq restarted \cup zeroed /\ failed' \subseteq Runs
    <3>1. Clears(r) /\ client' = [client EXCEPT ![r] = "closing"]
          /\ wire' = [wire EXCEPT ![r] = <<>>] /\ shown' = shown
      BY <1>1 DEF IngestRaises, StreamEnds
    <3>2. /\ remote' = [q \in Runs |-> IF q = r THEN nothing ELSE remote[q]]
          /\ pending' = [q \in Runs |-> IF q = r THEN {} ELSE pending[q]]
      BY <1>0, <3>1 DEF Clears, TypeOK
    <3>3. /\ wire' = [q \in Runs |-> IF q = r THEN <<>> ELSE wire[q]]
          /\ client' = [q \in Runs |-> IF q = r THEN "closing" ELSE client[q]]
      BY <1>0, <3>1 DEF TypeOK
    <3>4. failed \subseteq restarted \cup zeroed /\ failed \subseteq Runs
      BY DEF IInv, TypeOK, OnlyNativeBarsFail
    <3>5. failed' \subseteq restarted \cup zeroed /\ failed' \subseteq Runs
      <4>1. CASE IngestRaises(r)
        BY <3>4, <4>1, RefusedNative DEF IngestRaises
      <4>2. CASE StreamEnds(r)
        BY <3>4, <4>2 DEF StreamEnds
      <4> QED
        BY <1>1, <4>1, <4>2
    <3> QED
      BY <3>1, <3>2, <3>3, <3>5
  <2> HIDE DEF nothing
  <2>2. TypeOK'
    <3>1. \A q \in Runs : /\ remote'[q] \in [NodesOf[q] -> Entries]
                          /\ pending'[q] \subseteq NodesOf[q]
                          /\ wire'[q] \in Seq(Messages(q))
      BY <1>0, <2>1 DEF TypeOK
    <3>2. /\ remote' = [q \in Runs |-> remote'[q]] /\ pending' = [q \in Runs |-> pending'[q]]
          /\ wire' = [q \in Runs |-> wire'[q]]
      BY <2>1
    <3> QED
      BY <1>0, <1>e, <2>1, <3>1, <3>2 DEF TypeOK, peerVars, kindVars, trellisVars, Messages
  <2>3. InOrder'
    <3> SUFFICES ASSUME NEW q \in Runs \ restarted
                 PROVE  RunInOrder(q)'
      BY <1>e DEF InOrder, peerVars
    <3>1. RunInOrder(q) /\ UNCHANGED <<registry, visible>>
      BY <1>e DEF IInv, InOrder, peerVars, kindVars
    <3>2. CASE q # r
      BY <2>1, <3>1, <3>2 DEF RunInOrder
    <3>3. CASE q = r
      <4>1. \A n \in NodesOf[r] : registry[r][n] \in Entries
        BY <1>0 DEF TypeOK
      <4>2. \A n \in NodesOf[r] : Le(None, registry[r][n])
        BY <4>1 DEF Le, None, Entries
      <4>3. wire'[r] = <<>> /\ remote'[r] = nothing /\ 1..Len(wire'[r]) = {}
        BY <2>1
      <4>4. \A n \in NodesOf[r] : Le(remote'[r][n], registry'[r][n])
        BY <1>0, <3>1, <4>2, <4>3
      <4> QED
        BY <3>3, <4>3, <4>4 DEF RunInOrder
    <3> QED
      BY <3>2, <3>3
  <2>4. (OnlyNativeBarsFail /\ ShownBehind /\ NothingForgotten)'
    BY <1>e, <2>1 DEF IInv, OnlyNativeBarsFail, ShownBehind, NothingForgotten, peerVars
  <2>5. \A q \in Runs : \A i \in 1..Len(wire'[q]) : \E j \in 1..Len(wire[q]) : wire'[q][i] = wire[q][j]
    BY <2>1
  <2> QED
    BY <1>e, <2>1, <2>2, <2>3, <2>4, <2>5, ClientKeeps DEF IInv
<1>2. CASE CleansUp(r)
  <2>1. /\ client' = [q \in Runs |-> IF q = r THEN "over" ELSE client[q]]
        /\ shown' = [q \in Runs |-> IF q = r THEN nothing ELSE shown[q]]
        /\ UNCHANGED <<wire, remote, pending, failed>>
    BY <1>0, <1>2 DEF CleansUp, TypeOK
  <2> HIDE DEF nothing
  <2>2. TypeOK'
    <3>1. (\A q \in Runs : shown'[q] \in [NodesOf[q] -> Entries]) /\ shown' = [q \in Runs |-> shown'[q]]
      BY <1>0, <2>1 DEF TypeOK
    <3> QED
      BY <1>0, <1>e, <2>1, <3>1 DEF TypeOK, peerVars, kindVars, trellisVars, Messages
  <2>3. InOrder'
    BY <1>e, <2>1 DEF IInv, InOrder, RunInOrder, peerVars, kindVars
  <2>4. (OnlyNativeBarsFail /\ ShownBehind /\ NothingForgotten)'
    BY <1>e, <2>1 DEF IInv, OnlyNativeBarsFail, ShownBehind, NothingForgotten, peerVars
  <2>5. \A q \in Runs : \A i \in 1..Len(wire'[q]) : \E j \in 1..Len(wire[q]) : wire'[q][i] = wire[q][j]
    BY <2>1
  <2> QED
    BY <1>e, <2>1, <2>2, <2>3, <2>4, <2>5, ClientKeeps DEF IInv
<1> QED
  BY <1>1, <1>2

LEMMA NextInv ==
  ASSUME IInv, [Next]_vars
  PROVE  IInv'
<1>1. CASE UNCHANGED vars
  <2>1. UNCHANGED <<peer, peerVars, trellisVars, wire, clientVars>>
    BY <1>1 DEF vars
  <2> QED
    BY <2>1, ProgressStays, ClientKeeps DEF IInv, TypeOK, trellisVars
<1> QED
  BY <1>1, EntersInv, ExitsInv, PatchFailsInv, ModulesInv, ReportInv, SendsInv, IngestsInv, EndInv
     DEF Next

LEMMA Invariant == Spec => []IInv
BY InitInv, NextInv, PTL DEF Spec

-------------------------------------------------------------------------------
(* The theorems.                                                              *)

\* Contexts, reports, snapshots and the mirror keep to the values of their state.
THEOREM TypeCorrect == Spec => []TypeOK
<1>1. IInv => TypeOK
  BY DEF IInv
<1> QED
  BY <1>1, Invariant, PTL

\* No update is lost by coalescing, and a complete bar is never held back
\* (ProgressMirror._consider_emit, flush).
THEOREM NoUpdateForgotten == Spec => []NothingForgotten
<1>1. IInv => NothingForgotten
  BY DEF IInv
<1> QED
  BY <1>1, Invariant, PTL

\* All that ingest refuses (_progress_values, the map, _validate_order) comes from a
\* native bar of the run: one of a node that is shown began again, or one of a node of
\* the workflow had total 0 (or another that the client refuses).  Neither tqdm bars,
\* however they are nested, nor nodes that ComfyUI expands on the peer, nor helpers that
\* the map hides, end a run.
THEOREM RefusalsAreNative == Spec => []OnlyNativeBarsFail
<1>1. IInv => OnlyNativeBarsFail
  BY DEF IInv
<1> QED
  BY <1>1, Invariant, PTL

\* However streams overlap, and whatever other extensions replace and put back before,
\* during and after sessions: a session's wrapper outlives it only where another
\* replaced tqdm over it or its patching failed half-way, no other's replacement is
\* taken away, and nothing counts as patched when no stream is inside
\* (_TrellisTqdmPatchSession).  Wrappers that do outlive their session stay, and the
\* next session wraps over them.
THEOREM TqdmGivenBack == Spec => []TqdmRestored
<1>1. ASSUME TrellisInv
      PROVE  WrappersGivenBack
  BY <1>1 DEF TrellisInv, WrappersOnTop, WrappersGivenBack, Layers
<1>2. IInv => TqdmRestored
  BY <1>1 DEF IInv, TrellisInv, TqdmRestored
<1> QED
  BY <1>2, Invariant, PTL

\* What a run shows on a local bar never goes back while the run streams.
THEOREM BarNeverGoesBack == Spec => ShownAdvances
<1> DEFINE Advances == \A r \in Runs : client'[r] = "streaming" =>
                         \A n \in NodesOf[r] : Le(shown[r][n], shown'[r][n])
<1>1. ASSUME IInv, [Next]_vars
      PROVE  Advances
  <2>r. \A r \in Runs : \A n \in NodesOf[r] : Le(shown[r][n], shown[r][n])
    <3>1. \A r \in Runs : \A n \in NodesOf[r] : shown[r][n] \in Entries
      BY <1>1 DEF IInv, TypeOK
    <3> QED
      BY <3>1 DEF Le, Entries
  <2>1. CASE UNCHANGED shown
    BY <2>1, <2>r
  <2>2. ASSUME NEW r \in Runs, NEW due \in SUBSET NodesOf[r], Ingests(r, due)
        PROVE  Advances
    BY <1>1, <2>2, <2>r, IngestsInv
  <2>3. ASSUME NEW r \in Runs, IngestRaises(r) \/ StreamEnds(r) \/ CleansUp(r)
        PROVE  Advances
    BY <1>1, <2>3, <2>r, EndInv
  <2>4. ASSUME NEW r \in Runs, NEW n \in NodesOf[r],
               TqdmUpdates(r, n) \/ NativeUpdates(r, n)
               \/ \E total \in Totals : TqdmStarts(r, n, total) \/ NativeStarts(r, n, total)
        PROVE  UNCHANGED shown
    BY <2>4 DEF TqdmUpdates, NativeUpdates, TqdmStarts, NativeStarts, Reports, clientVars
  <2>5. ASSUME NEW r \in Runs,
               Enters(r) \/ Exits(r) \/ Sends(r) \/ \E ms \in SUBSET Modules : PatchFails(r, ms)
        PROVE  UNCHANGED shown
    BY <2>5 DEF Enters, Exits, Sends, PatchFails, clientVars
  <2>6. ASSUME NEW m \in Modules,
               Imports(m) \/ OthersRestore(m) \/ \E e \in Others : OthersReplace(m, e)
        PROVE  UNCHANGED shown
    BY <2>6 DEF Imports, OthersReplace, OthersRestore, clientVars
  <2>7. UNCHANGED vars => UNCHANGED shown
    BY DEF vars, clientVars
  <2> HIDE DEF Advances
  <2> QED
    BY <1>1, <2>1, <2>2, <2>3, <2>4, <2>5, <2>6, <2>7 DEF Next
<1>2. ASSUME IInv, NEW r \in Runs, NEW n \in NodesOf[r], Le(shown[r][n], shown'[r][n]), IInv'
      PROVE  shown'[r][n].value >= shown[r][n].value /\ shown'[r][n].max >= shown[r][n].max
  <2>1. shown[r][n] \in Entries /\ shown'[r][n] \in Entries
    BY <1>2 DEF IInv, TypeOK
  <2> QED
    BY <1>2, <2>1 DEF Le, Entries
<1>3. IInv /\ IInv' /\ [Next]_vars =>
        [\A r \in Runs : client'[r] = "streaming" =>
           \A n \in NodesOf[r] : /\ shown'[r][n].value >= shown[r][n].value
                                 /\ shown'[r][n].max >= shown[r][n].max]_vars
  BY <1>1, <1>2
<1> QED
  BY <1>3, Invariant, PTL DEF Spec, ShownAdvances
===============================================================================
