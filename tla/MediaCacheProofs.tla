---------------------------- MODULE MediaCacheProofs ----------------------------
(***************************************************************************)
(* Proofs about MediaCache, for any contents, sizes, outputs and prompts   *)
(* and any number of restarts.  The counts are proved to be the users, by  *)
(* which a file in use is one eviction and release leave alone; the limit  *)
(* rests on what the bytes of one more file add.                           *)
(***************************************************************************)
EXTENDS MediaCache, TLAPS, Functions, FiniteSetTheorems

-------------------------------------------------------------------------------
(* Bytes of files.                                                            *)

BytesOf(files) == UNION {{f} \X (1..Size[f]) : f \in files}

LEMMA BytesOfOne ==
  ASSUME NEW f \in Files
  PROVE  /\ IsFiniteSet({f} \X (1..Size[f]))
         /\ Cardinality({f} \X (1..Size[f])) = Size[f]
<1> DEFINE g == [i \in 1..Size[f] |-> <<f, i>>]
<1>1. Size[f] \in Nat
  BY MediaAssumption
<1>2. IsFiniteSet(1..Size[f]) /\ Cardinality(1..Size[f]) = Size[f]
  <2>1. \A n \in Nat : IsFiniteSet(1..n) /\ Cardinality(1..n) = n
    BY FS_Interval, SMTT(30)
  <2> QED
    BY <1>1, <2>1
<1>3. g \in Bijection(1..Size[f], {f} \X (1..Size[f]))
  <2>1. g \in Injection(1..Size[f], {f} \X (1..Size[f]))
    <3>1. g \in [1..Size[f] -> {f} \X (1..Size[f])]
      OBVIOUS
    <3>2. \A i, j \in 1..Size[f] : g[i] = g[j] => i = j
      OBVIOUS
    <3> QED
      BY <3>1, <3>2 DEF Injection, IsInjective
  <2>2. g \in Surjection(1..Size[f], {f} \X (1..Size[f]))
    <3>1. \A y \in {f} \X (1..Size[f]) : y[2] \in 1..Size[f] /\ g[y[2]] = y
      OBVIOUS
    <3> QED
      BY <2>1, <3>1 DEF Surjection, Injection
  <2> QED
    BY <2>1, <2>2 DEF Bijection
<1> QED
  BY <1>2, <1>3, FS_Bijection DEF ExistsBijection

LEMMA BytesOfMore ==
  ASSUME NEW files \in SUBSET Files, IsFiniteSet(BytesOf(files)), NEW f \in Files \ files
  PROVE  /\ IsFiniteSet(BytesOf(files \cup {f}))
         /\ Bytes(files \cup {f}) = Bytes(files) + Size[f]
<1> DEFINE one == {f} \X (1..Size[f])
<1>1. BytesOf(files \cup {f}) = BytesOf(files) \cup one /\ BytesOf(files) \cap one = {}
  BY DEF BytesOf
<1>2. IsFiniteSet(one) /\ Cardinality(one) = Size[f] /\ Size[f] \in Nat
  BY BytesOfOne, MediaAssumption
<1>3. Cardinality({}) = 0 /\ Cardinality(BytesOf(files)) \in Nat
  BY FS_EmptySet, FS_CardinalityType
<1> HIDE DEF one
<1> QED
  BY <1>1, <1>2, <1>3, FS_Union DEF Bytes, BytesOf

LEMMA BytesOfLess ==
  ASSUME NEW files, IsFiniteSet(BytesOf(files)), NEW fewer \in SUBSET files
  PROVE  /\ IsFiniteSet(BytesOf(fewer)) /\ IsFiniteSet(BytesOf(files))
         /\ Bytes(fewer) \in Nat /\ Bytes(files) \in Nat
         /\ Bytes(fewer) <= Bytes(files)
<1>1. BytesOf(fewer) \in SUBSET BytesOf(files)
  BY DEF BytesOf
<1> QED
  BY <1>1, FS_Subset, FS_CardinalityType DEF Bytes, BytesOf

-------------------------------------------------------------------------------
(* The inductive invariant.                                                   *)

\* A call has a file while it holds it, and belongs to a prompt that goes on.
CallsHold ==
  \A c \in Calls : /\ at[c] \in {"held", "retained"} <=> call[c].file # NoFile
                   /\ call[c].for # NoPrompt => prompt[call[c].for] = "live"

\* A prompt owns files until it ends, and releases them after.
PromptsOwn ==
  \A p \in Prompts : IF prompt[p] = "live" THEN releasing[p] = {} ELSE owned[p] = {}

FiniteUsers == \A f \in Files : IsFiniteSet(Holders(f)) /\ IsFiniteSet(Owners(f))

\* What is referred to is in the directory.
ReferredToStays == \A f \in Files : refs[f] > 0 => f \in disk

IInv ==
  /\ TypeOK /\ CallsHold /\ PromptsOwn
  /\ FiniteUsers /\ CountsAreUsers
  /\ ReferredToStays
  /\ IsFiniteSet(BytesOf(disk)) /\ WithinLimit

LEMMA InitInv == Init => IInv
<1> SUFFICES ASSUME Init PROVE IInv
  OBVIOUS
<1>1. TypeOK /\ CallsHold /\ PromptsOwn /\ ReferredToStays
  BY MediaAssumption DEF Init, TypeOK, CallsHold, PromptsOwn, ReferredToStays, NoCall
<1>2. \A f \in Files : Holders(f) = {} /\ Owners(f) = {}
  BY MediaAssumption DEF Init, Holders, Owners, NoCall
<1>3. FiniteUsers /\ CountsAreUsers
  BY <1>2, FS_EmptySet DEF Init, FiniteUsers, CountsAreUsers
<1>4. BytesOf(disk) = {} /\ BytesOf(disk \ left) = {}
  BY DEF Init, BytesOf
<1> QED
  BY <1>1, <1>3, <1>4, FS_EmptySet, MediaAssumption DEF IInv, WithinLimit, Bytes, BytesOf

-------------------------------------------------------------------------------
(* The directory.                                                             *)

\* What eviction leaves is what is referred to, and maybe more.
LEMMA EvictedKeeps ==
  ASSUME NEW required
  PROVE  /\ Evicted(required) \subseteq disk
         /\ \A f \in disk : refs[f] > 0 => f \in Evicted(required)
BY DEF Evicted, Fresh, Active

DiskInv ==
  /\ disk \subseteq Files /\ older \subseteq disk \X disk /\ aged \subseteq disk
  /\ parts \subseteq Files /\ left \subseteq disk
  /\ IsFiniteSet(BytesOf(disk)) /\ WithinLimit

LEMMA KeepInv ==
  ASSUME IInv, NEW rest \in SUBSET disk, Keep(rest), parts' \in SUBSET Files
  PROVE  DiskInv'
<1>1. disk' = rest /\ left' = left \cap rest /\ rest \ left' \in SUBSET (disk \ left)
  BY DEF Keep
<1>2. IsFiniteSet(BytesOf(rest))
  BY BytesOfLess DEF IInv
<1>3. IsFiniteSet(BytesOf(disk \ left))
  BY BytesOfLess DEF IInv
<1>4. Bytes(rest \ left') <= Limit
  <2>1. Bytes(rest \ left') \in Nat /\ Bytes(disk \ left) \in Nat
        /\ Bytes(rest \ left') <= Bytes(disk \ left)
    BY <1>1, <1>3, BytesOfLess
  <2> QED
    BY <2>1, MediaAssumption DEF IInv, WithinLimit
<1>5. BytesOf(disk)' = BytesOf(rest) /\ Bytes(disk \ left)' = Bytes(rest \ left')
  BY <1>1 DEF BytesOf, Bytes
<1>6. older' \subseteq disk' \X disk' /\ aged' \subseteq disk' /\ left' \subseteq disk'
  BY DEF Keep
<1> QED
  BY <1>1, <1>2, <1>4, <1>5, <1>6 DEF DiskInv, IInv, TypeOK, WithinLimit

LEMMA TouchInv ==
  ASSUME IInv, NEW f \in disk, KeepAndTouch(disk, f), UNCHANGED <<parts, left>>
  PROVE  DiskInv'
<1>1. disk' = disk
  BY DEF KeepAndTouch
<1>2. BytesOf(disk)' = BytesOf(disk) /\ Bytes(disk \ left)' = Bytes(disk \ left)
  BY <1>1 DEF BytesOf, Bytes
<1>3. older' \subseteq disk' \X disk' /\ aged' \subseteq disk'
  BY DEF KeepAndTouch
<1> QED
  BY <1>1, <1>2, <1>3 DEF DiskInv, IInv, TypeOK, WithinLimit

\* Only what eviction failed to remove is there beside what it keeps and f.
LEMMA WriteInv ==
  ASSUME IInv, NEW f \in Files \ disk, Writes(f)
  PROVE  DiskInv' /\ f \in disk' /\ \A g \in disk : refs[g] > 0 => g \in disk'
<1> DEFINE files == Evicted(Size[f])
<1>1. PICK rest \in Remaining(files) : KeepAndTouch(rest, f) /\ left' = rest \ files
  BY DEF Writes
<1>2. rest \in SUBSET disk /\ files \in SUBSET rest /\ f \notin rest
  BY <1>1 DEF Remaining
<1>3. /\ disk' = rest \cup {f} /\ disk' \ left' = files \cup {f} /\ f \notin files
      /\ older' \subseteq disk' \X disk' /\ aged' \subseteq disk' /\ left' \subseteq disk'
      /\ rest \in SUBSET Files /\ files \in SUBSET Files
  BY <1>1, <1>2 DEF KeepAndTouch, IInv, TypeOK
<1>4. /\ IsFiniteSet(BytesOf(files)) /\ Bytes(files) \in Nat
      /\ IsFiniteSet(BytesOf(rest))
  <2>1. files \in SUBSET disk
    BY <1>2
  <2> QED
    BY <1>2, <2>1, BytesOfLess DEF IInv
<1>5. IsFiniteSet(BytesOf(rest \cup {f}))
  BY <1>2, <1>3, <1>4, BytesOfMore
<1>6. Bytes(files \cup {f}) = Bytes(files) + Size[f]
  BY <1>3, <1>4, BytesOfMore
<1>7. Bytes(files \cup {f}) <= Limit
  BY <1>4, <1>6, MediaAssumption DEF Target, Writes, Room
<1>8. BytesOf(disk)' = BytesOf(rest \cup {f}) /\ Bytes(disk \ left)' = Bytes(files \cup {f})
  BY <1>3 DEF BytesOf, Bytes
<1>9. parts' \subseteq Files
  BY DEF Writes, IInv, TypeOK
<1>10. \A g \in disk : refs[g] > 0 => g \in disk'
  BY <1>2, <1>3, EvictedKeeps
<1> HIDE DEF files
<1> QED
  BY <1>3, <1>5, <1>7, <1>8, <1>9, <1>10 DEF DiskInv, WithinLimit

\* What eviction alone leaves.
LEMMA TrimKeeps ==
  ASSUME IInv, NEW required, NEW rest \in Remaining(Evicted(required)), Keep(rest),
         parts' \in SUBSET Files
  PROVE  DiskInv' /\ disk' \subseteq disk /\ \A f \in disk : refs[f] > 0 => f \in disk'
<1>1. rest \in SUBSET disk /\ disk' = rest
  BY DEF Remaining, Keep
<1> QED
  BY <1>1, KeepInv, EvictedKeeps DEF Remaining

LEMMA SameDiskInv ==
  ASSUME IInv, UNCHANGED diskVars
  PROVE  DiskInv'
BY DEF IInv, TypeOK, DiskInv, BytesOf, WithinLimit, Bytes, diskVars

-------------------------------------------------------------------------------
(* Counts.                                                                    *)

LEMMA HolderComes ==
  ASSUME IInv, NEW c \in Calls, NEW f \in Files,
         call[c].file = NoFile, call' = [call EXCEPT ![c] = call'[c]], call'[c].file = f,
         refs' = [refs EXCEPT ![f] = @ + 1], UNCHANGED <<owned, releasing>>
  PROVE  (FiniteUsers /\ CountsAreUsers)'
<1>1. \A g \in Files : Owners(g)' = Owners(g)
  BY DEF Owners
<1>h. \A d \in Calls : call'[d].file = IF d = c THEN f ELSE call[d].file
  BY DEF IInv, TypeOK
<1>2. \A g \in Files \ {f} : Holders(g)' = Holders(g)
  BY <1>h, MediaAssumption DEF Holders
<1>3. Holders(f)' = Holders(f) \cup {c} /\ c \notin Holders(f)
  BY <1>h, MediaAssumption DEF Holders
<1>4. IsFiniteSet(Holders(f)') /\ Cardinality(Holders(f)') = Cardinality(Holders(f)) + 1
  BY <1>3, FS_AddElement DEF IInv, FiniteUsers
<1>5. Cardinality(Holders(f)) \in Nat /\ Cardinality(Owners(f)) \in Nat
  BY FS_CardinalityType DEF IInv, FiniteUsers
<1>6. refs' = [g \in Files |-> IF g = f THEN refs[f] + 1 ELSE refs[g]]
  BY DEF IInv, TypeOK
<1> QED
  BY <1>1, <1>2, <1>4, <1>5, <1>6 DEF IInv, FiniteUsers, CountsAreUsers

LEMMA HolderLeaves ==
  ASSUME IInv, NEW c \in Calls, NEW f \in Files,
         call[c].file = f, call' = [call EXCEPT ![c] = NoCall],
         refs' = [refs EXCEPT ![f] = IF LastOf(f) THEN 0 ELSE @ - 1],
         UNCHANGED <<owned, releasing>>
  PROVE  (FiniteUsers /\ CountsAreUsers)'
<1>1. \A g \in Files : Owners(g)' = Owners(g)
  BY DEF Owners
<1>2. \A g \in Files \ {f} : Holders(g)' = Holders(g)
  BY MediaAssumption DEF Holders, IInv, TypeOK, NoCall
<1>3. Holders(f)' = Holders(f) \ {c} /\ c \in Holders(f)
  BY MediaAssumption DEF Holders, IInv, TypeOK, NoCall
<1>4. IsFiniteSet(Holders(f)') /\ Cardinality(Holders(f)') = Cardinality(Holders(f)) - 1
  BY <1>3, FS_RemoveElement DEF IInv, FiniteUsers
<1>5. Cardinality(Holders(f)) \in Nat \ {0} /\ Cardinality(Owners(f)) \in Nat
  BY <1>3, FS_CardinalityType, FS_EmptySet DEF IInv, FiniteUsers
<1>6. refs' = [g \in Files |-> IF g # f THEN refs[g] ELSE IF refs[f] <= 1 THEN 0 ELSE refs[f] - 1]
  BY DEF IInv, TypeOK, LastOf
<1>7. refs'[f] = Cardinality(Holders(f)') + Cardinality(Owners(f)')
  <2>1. refs[f] = Cardinality(Holders(f)) + Cardinality(Owners(f))
    BY DEF IInv, CountsAreUsers
  <2> QED
    BY <2>1, <1>1, <1>4, <1>5, <1>6
<1> QED
  BY <1>1, <1>2, <1>4, <1>6, <1>7 DEF IInv, FiniteUsers, CountsAreUsers

LEMMA OwnerComes ==
  ASSUME IInv, NEW p \in Prompts, NEW f \in Files, p \notin Owners(f),
         owned' = [owned EXCEPT ![p] = @ \cup {f}],
         refs' = [refs EXCEPT ![f] = @ + 1], UNCHANGED <<call, releasing>>
  PROVE  (FiniteUsers /\ CountsAreUsers)'
<1>1. \A g \in Files : Holders(g)' = Holders(g)
  BY DEF Holders
<1>2. \A g \in Files \ {f} : Owners(g)' = Owners(g)
  BY DEF Owners, IInv, TypeOK
<1>3. Owners(f)' = Owners(f) \cup {p}
  BY DEF Owners, IInv, TypeOK
<1>4. IsFiniteSet(Owners(f)') /\ Cardinality(Owners(f)') = Cardinality(Owners(f)) + 1
  BY <1>3, FS_AddElement DEF IInv, FiniteUsers
<1>5. Cardinality(Holders(f)) \in Nat /\ Cardinality(Owners(f)) \in Nat
  BY FS_CardinalityType DEF IInv, FiniteUsers
<1>6. refs' = [g \in Files |-> IF g = f THEN refs[f] + 1 ELSE refs[g]]
  BY DEF IInv, TypeOK
<1> QED
  BY <1>1, <1>2, <1>4, <1>5, <1>6 DEF IInv, FiniteUsers, CountsAreUsers

LEMMA OwnerLeaves ==
  ASSUME IInv, NEW p \in Prompts, NEW f \in releasing[p],
         releasing' = [releasing EXCEPT ![p] = @ \ {f}],
         refs' = [refs EXCEPT ![f] = IF LastOf(f) THEN 0 ELSE @ - 1],
         UNCHANGED <<owned, call>>
  PROVE  (FiniteUsers /\ CountsAreUsers)'
<1>0. f \in Files /\ owned[p] = {}
  BY DEF IInv, TypeOK, PromptsOwn
<1>1. \A g \in Files : Holders(g)' = Holders(g)
  BY DEF Holders
<1>2. \A g \in Files \ {f} : Owners(g)' = Owners(g)
  BY DEF Owners, IInv, TypeOK
<1>3. Owners(f)' = Owners(f) \ {p} /\ p \in Owners(f)
  BY <1>0 DEF Owners, IInv, TypeOK
<1>4. IsFiniteSet(Owners(f)') /\ Cardinality(Owners(f)') = Cardinality(Owners(f)) - 1
  BY <1>0, <1>3, FS_RemoveElement DEF IInv, FiniteUsers
<1>5. Cardinality(Owners(f)) \in Nat \ {0} /\ Cardinality(Holders(f)) \in Nat
  BY <1>0, <1>3, FS_CardinalityType, FS_EmptySet DEF IInv, FiniteUsers
<1>6. refs' = [g \in Files |-> IF g # f THEN refs[g] ELSE IF refs[f] <= 1 THEN 0 ELSE refs[f] - 1]
  BY DEF IInv, TypeOK, LastOf
<1> QED
  BY <1>0, <1>1, <1>2, <1>4, <1>5, <1>6 DEF IInv, FiniteUsers, CountsAreUsers

LEMMA UsersStay ==
  ASSUME IInv, refs' = refs,
         \A f \in Files : Holders(f)' = Holders(f) /\ Owners(f)' = Owners(f)
  PROVE  (FiniteUsers /\ CountsAreUsers)'
BY DEF IInv, FiniteUsers, CountsAreUsers

-------------------------------------------------------------------------------
(* Every step preserves the invariant.                                        *)

LEMMA BeginsEffect ==
  ASSUME IInv, NEW c \in Calls, NEW f \in Files, NEW k \in {"audio", "video"},
         NEW p \in Prompts \cup {NoPrompt}, Begins(c, f, k, p),
         at' = [at EXCEPT ![c] = "held"], refs' = [refs EXCEPT ![f] = @ + 1], f \in disk',
         UNCHANGED <<owned, prompt, releasing, restarts>>,
         \A g \in Files : refs[g] > 0 => g \in disk',
         DiskInv'
  PROVE  IInv'
<1>1. /\ call[c].file = NoFile
      /\ call' = [call EXCEPT ![c] = [file |-> f, kind |-> k, for |-> p]]
      /\ call'[c] = [file |-> f, kind |-> k, for |-> p]
  BY DEF Begins, IInv, TypeOK, CallsHold
<1>2. TypeOK'
  BY <1>1 DEF IInv, TypeOK, DiskInv
<1>3. CallsHold' /\ PromptsOwn'
  BY <1>1, MediaAssumption DEF IInv, TypeOK, CallsHold, PromptsOwn, Begins
<1>4. ReferredToStays'
  BY DEF IInv, TypeOK, ReferredToStays
<1>5. call' = [call EXCEPT ![c] = call'[c]] /\ call'[c].file = f
  <2> DEFINE r == [file |-> f, kind |-> k, for |-> p]
  <2>1. call' = [call EXCEPT ![c] = r] /\ call'[c] = r /\ r.file = f
    BY <1>1
  <2> HIDE DEF r
  <2> QED
    BY <2>1
<1>6. (FiniteUsers /\ CountsAreUsers)'
  BY <1>1, <1>5, HolderComes
<1> QED
  BY <1>2, <1>3, <1>4, <1>6 DEF IInv, DiskInv

LEMMA BeginInv ==
  ASSUME IInv, NEW c \in Calls, NEW f \in Files, NEW k \in {"audio", "video"},
         NEW p \in Prompts \cup {NoPrompt}, FindsFile(c, f, k, p) \/ WritesFile(c, f, k, p)
  PROVE  IInv'
<1>1. CASE FindsFile(c, f, k, p)
  <2>1. DiskInv' /\ disk' = disk
    BY <1>1, TouchInv DEF FindsFile, KeepAndTouch
  <2> QED
    BY <1>1, <2>1, BeginsEffect DEF FindsFile, IInv, ReferredToStays
<1>2. CASE WritesFile(c, f, k, p)
  <2>1. DiskInv' /\ f \in disk' /\ \A g \in disk : refs[g] > 0 => g \in disk'
    BY <1>2, WriteInv DEF WritesFile
  <2>2. \A g \in Files : refs[g] > 0 => g \in disk'
    BY <2>1 DEF IInv, ReferredToStays
  <2> QED
    BY <1>2, <2>1, <2>2, BeginsEffect DEF WritesFile
<1> QED
  BY <1>1, <1>2

LEMMA WriteFailsInv ==
  ASSUME IInv, NEW c \in Calls, NEW f \in Files, WriteFails(c, f)
  PROVE  IInv'
<1>1. DiskInv' /\ \A g \in disk : refs[g] > 0 => g \in disk'
  <2>1. CASE Writes(f)
    BY <2>1, WriteInv DEF WriteFails
  <2>2. CASE ~Writes(f)
    <3>1. parts' \subseteq Files
      BY <2>2 DEF WriteFails, IInv, TypeOK
    <3> QED
      BY <2>2, <3>1, TrimKeeps DEF WriteFails
  <2> QED
    BY <2>1, <2>2
<1>2. TypeOK' /\ CallsHold' /\ PromptsOwn' /\ ReferredToStays'
  BY <1>1 DEF IInv, TypeOK, CallsHold, PromptsOwn, ReferredToStays, DiskInv, WriteFails
<1>3. (FiniteUsers /\ CountsAreUsers)'
  BY UsersStay DEF WriteFails, Holders, Owners
<1> QED
  BY <1>1, <1>2, <1>3 DEF IInv, DiskInv

LEMMA RetainsInv ==
  ASSUME IInv, NEW c \in Calls, RetainsForPrompt(c)
  PROVE  IInv'
<1> DEFINE f == call[c].file  p == call[c].for
<1>0. /\ f \in Files /\ p \in Prompts \cup {NoPrompt} /\ refs[f] > 0 /\ f \in disk
      /\ DiskInv' /\ at' = [at EXCEPT ![c] = "retained"] /\ at[c] = "held"
      /\ UNCHANGED <<disk, prompt, releasing, call, restarts>>
  <2>1. f \in Files /\ p \in Prompts \cup {NoPrompt}
    BY DEF RetainsForPrompt, IInv, TypeOK, CallsHold
  <2>2. c \in Holders(f)
    BY DEF Holders
  <2>3. Cardinality(Holders(f)) \in Nat \ {0} /\ Cardinality(Owners(f)) \in Nat
    BY <2>1, <2>2, FS_CardinalityType, FS_EmptySet DEF IInv, FiniteUsers
  <2>4. refs[f] > 0
    BY <2>1, <2>3 DEF IInv, CountsAreUsers
  <2>5. DiskInv'
    BY SameDiskInv DEF RetainsForPrompt
  <2> QED
    BY <2>1, <2>4, <2>5 DEF RetainsForPrompt, IInv, ReferredToStays, diskVars
<1>1. CASE p = NoPrompt \/ f \in owned[p]
  <2>1. UNCHANGED <<refs, owned>>
    BY <1>1 DEF RetainsForPrompt
  <2>2. TypeOK' /\ CallsHold' /\ PromptsOwn' /\ ReferredToStays'
    BY <1>0, <2>1 DEF IInv, TypeOK, CallsHold, PromptsOwn, ReferredToStays, DiskInv
  <2>3. (FiniteUsers /\ CountsAreUsers)'
    BY <1>0, <2>1, UsersStay DEF Holders, Owners
  <2> QED
    BY <1>0, <2>2, <2>3 DEF IInv, DiskInv
<1>2. CASE ~(p = NoPrompt \/ f \in owned[p])
  <2>1. owned' = [owned EXCEPT ![p] = @ \cup {f}] /\ refs' = [refs EXCEPT ![f] = @ + 1]
    BY <1>2 DEF RetainsForPrompt
  <2>2. p \in Prompts /\ prompt[p] = "live" /\ releasing[p] = {}
    BY <1>0, <1>2 DEF IInv, CallsHold, PromptsOwn
  <2>3. TypeOK' /\ CallsHold' /\ PromptsOwn' /\ ReferredToStays'
    BY <1>0, <2>1, <2>2 DEF IInv, TypeOK, CallsHold, PromptsOwn, ReferredToStays, DiskInv
  <2>4. (FiniteUsers /\ CountsAreUsers)'
    BY <1>0, <1>2, <2>1, <2>2, OwnerComes DEF Owners
  <2> QED
    BY <1>0, <2>3, <2>4 DEF IInv, DiskInv
<1> QED
  BY <1>1, <1>2

\* A release takes a file away only with its last reference.
LEMMA ReleaseEffect ==
  ASSUME IInv, NEW f \in Files, NEW removeWhenZero \in BOOLEAN, Release(f, removeWhenZero)
  PROVE  /\ refs' = [refs EXCEPT ![f] = IF LastOf(f) THEN 0 ELSE @ - 1]
         /\ refs' \in [Files -> Nat]
         /\ DiskInv' /\ ReferredToStays'
<1>1. refs' = [refs EXCEPT ![f] = IF LastOf(f) THEN 0 ELSE @ - 1]
  BY DEF Release
<1>2. refs' \in [Files -> Nat] /\ (LastOf(f) => refs'[f] = 0)
      /\ \A g \in Files : refs'[g] > 0 => refs[g] > 0
  BY <1>1 DEF IInv, TypeOK, LastOf
<1>3. CASE LastOf(f) /\ removeWhenZero
  <2>1. PICK rest \in Remaining(disk \ {f}) : Keep(rest) /\ parts' = parts
    BY <1>3 DEF Release
  <2>2. rest \in SUBSET disk /\ disk' = rest /\ disk \ {f} \subseteq rest
    BY <2>1 DEF Remaining, Keep
  <2>3. DiskInv'
    BY <2>1, <2>2, KeepInv DEF IInv, TypeOK
  <2> QED
    BY <1>1, <1>2, <1>3, <2>2, <2>3 DEF IInv, ReferredToStays
<1>4. CASE ~(LastOf(f) /\ removeWhenZero)
  <2>1. UNCHANGED diskVars
    BY <1>4 DEF Release
  <2> QED
    BY <1>1, <1>2, <2>1, SameDiskInv DEF IInv, ReferredToStays, diskVars
<1> QED
  BY <1>3, <1>4

LEMMA CallEndsInv ==
  ASSUME IInv, NEW c \in Calls, ReleasesVideo(c) \/ ReleasesFile(c)
  PROVE  IInv'
<1> DEFINE f == call[c].file
<1>1. /\ f \in Files /\ at' = [at EXCEPT ![c] = "over"] /\ call' = [call EXCEPT ![c] = NoCall]
      /\ \E b \in BOOLEAN : Release(f, b)
      /\ UNCHANGED <<owned, prompt, releasing, restarts>>
  <2>1. f \in Files
    <3>1. at[c] \in {"held", "retained"}
      BY DEF ReleasesVideo, ReleasesFile
    <3>2. f # NoFile
      BY <3>1 DEF IInv, CallsHold
    <3>3. f \in Files \cup {NoFile}
      BY DEF IInv, TypeOK
    <3> QED
      BY <3>2, <3>3
  <2>2. \E b \in BOOLEAN : Release(f, b)
    <3>1. (call[c].for # NoPrompt) \in BOOLEAN
      OBVIOUS
    <3> QED
      BY <3>1 DEF ReleasesVideo, ReleasesFile
  <2> QED
    BY <2>1, <2>2 DEF ReleasesVideo, ReleasesFile, Ends
<1>2. /\ refs' = [refs EXCEPT ![f] = IF LastOf(f) THEN 0 ELSE @ - 1]
      /\ refs' \in [Files -> Nat]
      /\ DiskInv' /\ ReferredToStays'
  BY <1>1, ReleaseEffect
<1>3. TypeOK' /\ CallsHold' /\ PromptsOwn'
  BY <1>1, <1>2, MediaAssumption DEF IInv, TypeOK, CallsHold, PromptsOwn, DiskInv, NoCall
<1>4. (FiniteUsers /\ CountsAreUsers)'
  BY <1>1, <1>2, HolderLeaves
<1> QED
  BY <1>2, <1>3, <1>4 DEF IInv, DiskInv

LEMMA PromptEndsInv ==
  ASSUME IInv, NEW p \in Prompts, PromptEnds(p)
  PROVE  IInv'
<1>1. /\ prompt' = [prompt EXCEPT ![p] = "ending"] /\ owned' = [owned EXCEPT ![p] = {}]
      /\ releasing' = [releasing EXCEPT ![p] = owned[p]] /\ releasing[p] = {}
      /\ UNCHANGED <<diskVars, refs, at, call, restarts>>
  BY DEF PromptEnds, IInv, PromptsOwn
<1>2. TypeOK' /\ PromptsOwn' /\ ReferredToStays' /\ DiskInv'
  BY <1>1, SameDiskInv DEF IInv, TypeOK, PromptsOwn, ReferredToStays, diskVars
<1>3. CallsHold'
  BY <1>1 DEF IInv, TypeOK, CallsHold, PromptEnds
<1>4. \A f \in Files : Holders(f)' = Holders(f) /\ Owners(f)' = Owners(f)
  BY <1>1 DEF Holders, Owners, IInv, TypeOK
<1> QED
  BY <1>1, <1>2, <1>3, <1>4, UsersStay DEF IInv, DiskInv

LEMMA PromptReleasesInv ==
  ASSUME IInv, NEW p \in Prompts, NEW f \in Files, PromptReleases(p, f)
  PROVE  IInv'
<1>1. /\ f \in releasing[p] /\ Release(f, TRUE)
      /\ releasing' = [releasing EXCEPT ![p] = @ \ {f}]
      /\ UNCHANGED <<owned, prompt, at, call, restarts>>
  BY DEF PromptReleases
<1>2. /\ refs' = [refs EXCEPT ![f] = IF LastOf(f) THEN 0 ELSE @ - 1]
      /\ refs' \in [Files -> Nat]
      /\ DiskInv' /\ ReferredToStays'
  BY <1>1, ReleaseEffect
<1>3. TypeOK' /\ CallsHold' /\ PromptsOwn'
  BY <1>1, <1>2 DEF IInv, TypeOK, CallsHold, PromptsOwn, DiskInv
<1>4. (FiniteUsers /\ CountsAreUsers)'
  BY <1>1, <1>2, OwnerLeaves
<1> QED
  BY <1>2, <1>3, <1>4 DEF IInv, DiskInv

LEMMA TrimInv ==
  ASSUME IInv, PromptStarts \/ (\E p \in Prompts : PromptTrims(p)) \/ Ages
  PROVE  IInv'
<1>1. DiskInv' /\ \A f \in disk : refs[f] > 0 => f \in disk'
  <2>1. CASE PromptStarts \/ \E p \in Prompts : PromptTrims(p)
    <3>1. Trim
      BY <2>1 DEF PromptStarts, PromptTrims
    <3>2. parts' \in SUBSET Files
      BY <3>1 DEF Trim, IInv, TypeOK
    <3> QED
      BY <3>1, <3>2, TrimKeeps DEF Trim
  <2>2. CASE Ages
    <3>1. UNCHANGED <<disk, older, parts, left>> /\ aged' \subseteq disk
      BY <2>2 DEF Ages, IInv, TypeOK
    <3> QED
      BY <3>1 DEF IInv, TypeOK, DiskInv, BytesOf, WithinLimit, Bytes
  <2> QED
    BY <2>1, <2>2
<1>2. /\ UNCHANGED <<refs, owned, releasing, at, call, restarts>>
      /\ \/ prompt' = prompt
         \/ \E p \in Prompts : prompt[p] = "ending" /\ prompt' = [prompt EXCEPT ![p] = "over"]
  BY DEF PromptStarts, PromptTrims, Ages
<1>3. TypeOK' /\ CallsHold' /\ PromptsOwn' /\ ReferredToStays'
  BY <1>1, <1>2 DEF IInv, TypeOK, CallsHold, PromptsOwn, ReferredToStays, DiskInv
<1>4. (FiniteUsers /\ CountsAreUsers)'
  BY <1>2, UsersStay DEF Holders, Owners
<1> QED
  BY <1>1, <1>3, <1>4 DEF IInv, DiskInv

LEMMA RestartInv ==
  ASSUME IInv, Restarts
  PROVE  IInv'
<1>1. TypeOK' /\ CallsHold' /\ PromptsOwn' /\ ReferredToStays' /\ DiskInv'
  <2>1. DiskInv'
    BY SameDiskInv DEF Restarts
  <2>2. TypeOK'
    BY <2>1 DEF IInv, TypeOK, Restarts, NoCall, DiskInv
  <2> QED
    BY <2>1, <2>2, MediaAssumption DEF IInv, TypeOK, CallsHold, PromptsOwn, ReferredToStays, Restarts, NoCall
<1>2. \A f \in Files : Holders(f)' = {} /\ Owners(f)' = {}
  BY MediaAssumption DEF Restarts, Holders, Owners, NoCall
<1>3. (FiniteUsers /\ CountsAreUsers)'
  <2>1. \A f \in Files : refs'[f] = 0
    BY DEF Restarts
  <2>2. IsFiniteSet({}) /\ Cardinality({}) = 0
    BY FS_EmptySet
  <2>3. FiniteUsers'
    BY <1>2, <2>2 DEF FiniteUsers
  <2>4. CountsAreUsers'
    BY <1>2, <2>1, <2>2 DEF CountsAreUsers
  <2> QED
    BY <2>3, <2>4
<1> QED
  BY <1>1, <1>3 DEF IInv, DiskInv

LEMMA NextInv ==
  ASSUME IInv, [Next]_vars
  PROVE  IInv'
<1>1. CASE UNCHANGED vars
  <2>1. TypeOK' /\ CallsHold' /\ PromptsOwn' /\ ReferredToStays' /\ DiskInv'
    BY <1>1, SameDiskInv DEF vars, diskVars, IInv, TypeOK, CallsHold, PromptsOwn, ReferredToStays
  <2>2. (FiniteUsers /\ CountsAreUsers)'
    BY <1>1, UsersStay DEF vars, Holders, Owners
  <2> QED
    BY <2>1, <2>2 DEF IInv, DiskInv
<1> QED
  BY <1>1, BeginInv, WriteFailsInv, RetainsInv, CallEndsInv, PromptEndsInv, PromptReleasesInv,
     TrimInv, RestartInv DEF Next

LEMMA Invariant == Spec => []IInv
BY InitInv, NextInv, PTL DEF Spec

-------------------------------------------------------------------------------
(* The theorems.                                                              *)

\* Calls, prompts, eviction and restarts keep to the values of their state.
THEOREM TypeCorrect == Spec => []TypeOK
<1>1. IInv => TypeOK
  BY DEF IInv
<1> QED
  BY <1>1, Invariant, PTL

\* _REMOTE_MEDIA_PATH_REFS counts the calls and prompts that need a path, however
\* many share it, whatever ends meanwhile.
THEOREM CountsAreExact == Spec => []CountsAreUsers
<1>1. IInv => CountsAreUsers
  BY DEF IInv
<1> QED
  BY <1>1, Invariant, PTL

\* No eviction and no other user's release removes a file that a call or a live
\* prompt still needs.
THEOREM FilesInUseStay == Spec => []UsedFilesStay
<1>1. ASSUME IInv
      PROVE  UsedFilesStay
  <2> SUFFICES ASSUME NEW f \in Files, Holders(f) # {} \/ Owners(f) # {}
               PROVE  f \in disk
    BY DEF UsedFilesStay
  <2>1. /\ Cardinality(Holders(f)) \in Nat /\ Cardinality(Owners(f)) \in Nat
        /\ Cardinality(Holders(f)) # 0 \/ Cardinality(Owners(f)) # 0
    BY <1>1, FS_CardinalityType, FS_EmptySet DEF IInv, FiniteUsers
  <2>2. refs[f] > 0
    BY <1>1, <2>1 DEF IInv, CountsAreUsers
  <2> QED
    BY <1>1, <2>2 DEF IInv, ReferredToStays
<1> QED
  BY <1>1, Invariant, PTL

\* Beside the files whose unlink failed in the eviction of the last write, the named
\* files stay within MAX_REMOTE_MEDIA_CACHE_BYTES, over writes that fail, removals that
\* fail later, files that are used again and restarts, provided that no item is larger
\* than the limit (MAX_REMOTE_MEDIA_ITEM_BYTES is not).
THEOREM DirectoryWithinLimit == Spec => []WithinLimit
<1>1. IInv => WithinLimit
  BY DEF IInv
<1> QED
  BY <1>1, Invariant, PTL
===============================================================================
