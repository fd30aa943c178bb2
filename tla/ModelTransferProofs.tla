-------------------------- MODULE ModelTransferProofs --------------------------
(***************************************************************************)
(* Proofs about ModelTransfer, for any number of installations, tasks and  *)
(* files.  What concerns the coordinators holds for every peer; what       *)
(* concerns the peer's files assumes one whose move refuses to replace a   *)
(* file (Posix = FALSE): with "mv" it is not so.                           *)
(***************************************************************************)
EXTENDS ModelTransfer, TLAPS

LEMMA Addresses ==
  ASSUME NEW t \in Tasks
  PROVE  FileOf[t] \in Files /\ Host(t) \in Hosts /\ Dest(t) \in Dests
BY TransferAssumption DEF Host, Dest, Hosts, Dests

-------------------------------------------------------------------------------
(* The coordinators.                                                          *)

\* A target is held by exactly the task that leads there.
Held ==
  /\ \A t \in Tasks : at[t] \in Leading => active[Host(t)] = t
  /\ \A h \in Hosts : active[h] # NoTask => Host(active[h]) = h /\ at[active[h]] \in Leading

\* A leader owns its transfer; a follower's owner wants the same file; an owner
\* that is not at work has settled what it tells.
Owned ==
  /\ \A t \in Tasks : at[t] \in Leading => owner[t] = t
  /\ \A t \in Tasks : at[t] = "following" =>
       /\ owner[t] \in Tasks /\ Dest(owner[t]) = Dest(t)
       /\ identity[owner[t]] = identity[t]
       /\ at[owner[t]] \in Leading \/ settled[owner[t]] # "none"
  /\ \A t \in Tasks : at[t] = "settled" => settled[t] # "none"
  /\ \A t \in Tasks : at[t] \in {"start", "resolving", "asking", "following", "leading"} \cup Copying
                      => settled[t] = "none"
  /\ \A t \in Tasks : outcome[t] = "ok" =>
       owner[t] \in Tasks /\ Dest(owner[t]) = Dest(t) /\ settled[owner[t]] = "ok"
  /\ \A t \in Tasks : at[t] # "done" => outcome[t] = "none"

\* Nothing is promoted before scp ended well, and nothing partial ever.
Verified ==
  \A t \in Tasks :
    /\ at[t] \in {"start", "resolving", "asking", "following", "leading", "staging"}
       => promotion[t] = "none"
    /\ promotion[t] = "accepted" => staged[t] # Partial

CoordInv == TypeOK /\ Held /\ Owned /\ Verified

-------------------------------------------------------------------------------
(* The peer.                                                                  *)

\* What the promotion of t knows of its files, however late it runs.
Promotes(t) ==
  /\ promotion[t] # "none" => copied[t] \in Contents
  /\ promotion[t] = "accepted" => staged[t] \in {copied[t], Absent}
  /\ promotion[t] = "ok" => final[Dest(t)] = copied[t]
  /\ settled[t] = "ok" => promotion[t] = "ok"
  /\ at[t] \in Copying => copied[t] \in Contents

PeerInv == \A t \in Tasks : Promotes(t)

-------------------------------------------------------------------------------
(* Steps of the tasks keep CoordInv.                                          *)

LEMMA IdentifyCoord ==
  ASSUME CoordInv, NEW t \in Tasks, Identify(t)
  PROVE  CoordInv'
<1> USE Addresses DEF CoordInv, TypeOK, Leading, Copying, Identify, GoTo, End, peerVars
<1>1. TypeOK'
  OBVIOUS
<1>2. Held'
  BY <1>1 DEF Held
<1>3. Owned'
  BY <1>1 DEF Owned, Held
<1>4. Verified'
  BY DEF Verified
<1> QED
  BY <1>1, <1>2, <1>3, <1>4

LEMMA ResolveCoord ==
  ASSUME CoordInv, NEW t \in Tasks, Resolve(t)
  PROVE  CoordInv'
<1> USE Addresses DEF CoordInv, TypeOK, Leading, Copying, Resolve, GoTo, End, peerVars
<1>1. TypeOK'
  OBVIOUS
<1>2. Held'
  BY <1>1 DEF Held
<1>3. Owned'
  BY <1>1 DEF Owned, Held
<1>4. Verified'
  BY DEF Verified
<1> QED
  BY <1>1, <1>2, <1>3, <1>4

LEMMA PrepareFailsCoord ==
  ASSUME CoordInv, NEW t \in Tasks, PrepareFails(t)
  PROVE  CoordInv'
<1> USE Addresses DEF CoordInv, TypeOK, Leading, Copying, PrepareFails, GoTo, End, peerVars
<1>1. TypeOK'
  OBVIOUS
<1>2. Held'
  BY <1>1 DEF Held
<1>3. Owned'
  BY <1>1 DEF Owned, Held
<1>4. Verified'
  BY DEF Verified
<1> QED
  BY <1>1, <1>2, <1>3, <1>4

LEMMA RefuseConflictCoord ==
  ASSUME CoordInv, NEW t \in Tasks, RefuseConflict(t)
  PROVE  CoordInv'
<1> USE Addresses DEF CoordInv, TypeOK, Leading, Copying, RefuseConflict, GoTo, End, peerVars
<1>1. TypeOK'
  OBVIOUS
<1>2. Held'
  BY <1>1 DEF Held
<1>3. Owned'
  BY <1>1 DEF Owned, Held
<1>4. Verified'
  BY DEF Verified
<1> QED
  BY <1>1, <1>2, <1>3, <1>4

LEMMA FollowCoord ==
  ASSUME CoordInv, NEW t \in Tasks, Follow(t)
  PROVE  CoordInv'
<1> USE Addresses DEF CoordInv, TypeOK, Leading, Copying, Follow, GoTo, End, Conflict, Current, SameFile, peerVars
<1>1. TypeOK'
  OBVIOUS
<1>2. Held'
  BY <1>1 DEF Held
<1>3. Owned'
  BY <1>1 DEF Owned, Held
<1>4. Verified'
  BY DEF Verified
<1> QED
  BY <1>1, <1>2, <1>3, <1>4

LEMMA LeadCoord ==
  ASSUME CoordInv, NEW t \in Tasks, Lead(t)
  PROVE  CoordInv'
<1> USE Addresses DEF CoordInv, TypeOK, Leading, Copying, Lead, GoTo, End, TargetFree, Current, peerVars
<1>1. TypeOK'
  OBVIOUS
<1>2. Held'
  BY <1>1, TransferAssumption DEF Held
<1>3. Owned'
  BY <1>1 DEF Owned, Held
<1>4. Verified'
  BY DEF Verified
<1> QED
  BY <1>1, <1>2, <1>3, <1>4

LEMMA WaitCancelledCoord ==
  ASSUME CoordInv, NEW t \in Tasks, WaitCancelled(t)
  PROVE  CoordInv'
<1> USE Addresses DEF CoordInv, TypeOK, Leading, Copying, WaitCancelled, GoTo, End, peerVars
<1>1. TypeOK'
  OBVIOUS
<1>2. Held'
  BY <1>1 DEF Held
<1>3. Owned'
  BY <1>1 DEF Owned, Held
<1>4. Verified'
  BY DEF Verified
<1> QED
  BY <1>1, <1>2, <1>3, <1>4

LEMMA FollowerEndsCoord ==
  ASSUME CoordInv, NEW t \in Tasks, FollowerEnds(t)
  PROVE  CoordInv'
<1> USE Addresses DEF CoordInv, TypeOK, Leading, Copying, FollowerEnds, GoTo, End, peerVars
<1>1. TypeOK'
  BY DEF Owned
<1>2. Held'
  BY <1>1 DEF Held
<1>3. Owned'
  BY <1>1 DEF Owned, Held
<1>4. Verified'
  BY DEF Verified
<1> QED
  BY <1>1, <1>2, <1>3, <1>4

LEMMA CopyStartsCoord ==
  ASSUME CoordInv, NEW t \in Tasks, CopyStarts(t)
  PROVE  CoordInv'
<1> USE Addresses DEF CoordInv, TypeOK, Leading, Copying, CopyStarts, GoTo, End, Unchanged, peerVars
<1>1. TypeOK'
  OBVIOUS
<1>2. Held'
  BY <1>1 DEF Held
<1>3. Owned'
  BY <1>1 DEF Owned, Held
<1>4. Verified'
  BY DEF Verified
<1> QED
  BY <1>1, <1>2, <1>3, <1>4

LEMMA CopyNotStartedCoord ==
  ASSUME CoordInv, NEW t \in Tasks, CopyNotStarted(t)
  PROVE  CoordInv'
<1> USE Addresses DEF CoordInv, TypeOK, Leading, Copying, CopyNotStarted, GoTo, End, Unchanged, Settle, peerVars
<1>1. TypeOK'
  OBVIOUS
<1>2. Held'
  BY <1>1 DEF Held
<1>3. Owned'
  BY <1>1 DEF Owned, Held
<1>4. Verified'
  BY DEF Verified
<1> QED
  BY <1>1, <1>2, <1>3, <1>4

LEMMA StagedCoord ==
  ASSUME CoordInv, NEW t \in Tasks, Staged(t)
  PROVE  CoordInv'
<1> USE Addresses DEF CoordInv, TypeOK, Leading, Copying, Staged, GoTo, End, Unchanged, peerVars
<1>1. TypeOK'
  OBVIOUS
<1>2. Held'
  BY <1>1 DEF Held
<1>3. Owned'
  BY <1>1 DEF Owned, Held
<1>4. Verified'
  BY DEF Verified
<1> QED
  BY <1>1, <1>2, <1>3, <1>4

LEMMA StagingFailsCoord ==
  ASSUME CoordInv, NEW t \in Tasks, StagingFails(t)
  PROVE  CoordInv'
<1> USE Addresses DEF CoordInv, TypeOK, Leading, Copying, StagingFails, GoTo, End, Unchanged, peerVars
<1>1. TypeOK'
  OBVIOUS
<1>2. Held'
  BY <1>1 DEF Held
<1>3. Owned'
  BY <1>1 DEF Owned, Held
<1>4. Verified'
  BY DEF Verified
<1> QED
  BY <1>1, <1>2, <1>3, <1>4

LEMMA PromotedCoord ==
  ASSUME CoordInv, NEW t \in Tasks, Promoted(t)
  PROVE  CoordInv'
<1> USE Addresses DEF CoordInv, TypeOK, Leading, Copying, Promoted, GoTo, End, Unchanged, Settle, peerVars
<1>1. TypeOK'
  OBVIOUS
<1>2. Held'
  BY <1>1 DEF Held
<1>3. Owned'
  BY <1>1 DEF Owned, Held
<1>4. Verified'
  BY DEF Verified
<1> QED
  BY <1>1, <1>2, <1>3, <1>4

LEMMA PromotionFailsCoord ==
  ASSUME CoordInv, NEW t \in Tasks, PromotionFails(t)
  PROVE  CoordInv'
<1> USE Addresses DEF CoordInv, TypeOK, Leading, Copying, PromotionFails, GoTo, End, Unchanged, peerVars
<1>1. TypeOK'
  OBVIOUS
<1>2. Held'
  BY <1>1 DEF Held
<1>3. Owned'
  BY <1>1 DEF Owned, Held
<1>4. Verified'
  BY DEF Verified
<1> QED
  BY <1>1, <1>2, <1>3, <1>4

LEMMA CleanStagingCoord ==
  ASSUME CoordInv, NEW t \in Tasks, CleanStaging(t)
  PROVE  CoordInv'
<1> USE Addresses DEF CoordInv, TypeOK, Leading, Copying, CleanStaging, GoTo, End, Unchanged, Settle, peerVars
<1>1. TypeOK'
  OBVIOUS
<1>2. Held'
  BY <1>1 DEF Held
<1>3. Owned'
  BY <1>1 DEF Owned, Held
<1>4. Verified'
  BY TransferAssumption DEF Verified
<1> QED
  BY <1>1, <1>2, <1>3, <1>4

LEMMA LeaderLeavesCoord ==
  ASSUME CoordInv, NEW t \in Tasks, LeaderLeaves(t)
  PROVE  CoordInv'
<1> USE Addresses DEF CoordInv, TypeOK, Leading, Copying, LeaderLeaves, GoTo, End, peerVars
<1>1. TypeOK'
  OBVIOUS
<1>2. Held'
  BY <1>1 DEF Held
<1>3. Owned'
  BY <1>1 DEF Owned, Held
<1>4. Verified'
  BY DEF Verified
<1> QED
  BY <1>1, <1>2, <1>3, <1>4

LEMMA PromotionCoord ==
  ASSUME CoordInv, NEW t \in Tasks, PromotionStep(t)
  PROVE  CoordInv'
<1> USE Addresses DEF CoordInv, TypeOK, PeerStep, taskVars
<1>1. TypeOK'
  <2>1. CASE PromotionRefuses(t) \/ PromotionAccepts(t)
    BY <2>1 DEF PromotionRefuses, PromotionAccepts
  <2>2. CASE PromotionFinds(t) \/ MoveRefused(t)
    BY <2>2 DEF PromotionFinds, MoveRefused
  <2>3. CASE PromotionMoves(t)
    BY <2>3 DEF PromotionMoves, Verified
  <2> QED
    BY <2>1, <2>2, <2>3 DEF PromotionStep
<1>2. (Held /\ Owned)'
  BY DEF Held, Owned, PromotionStep, PromotionRefuses, PromotionAccepts, PromotionFinds,
     PromotionMoves, MoveRefused
<1>3. Verified'
  BY TransferAssumption DEF Verified, Intact, PromotionStep, PromotionRefuses,
     PromotionAccepts, PromotionFinds, PromotionMoves, MoveRefused
<1> QED
  BY <1>1, <1>2, <1>3

LEMMA CoordStep == CoordInv /\ [Next]_vars => CoordInv'
<1> SUFFICES ASSUME CoordInv, [Next]_vars PROVE CoordInv'
  OBVIOUS
<1>1. ASSUME NEW t \in Tasks, TaskStep(t) PROVE CoordInv'
  BY <1>1, IdentifyCoord, ResolveCoord, PrepareFailsCoord, RefuseConflictCoord, FollowCoord,
     LeadCoord, WaitCancelledCoord, FollowerEndsCoord, CopyStartsCoord, CopyNotStartedCoord,
     StagedCoord, StagingFailsCoord, PromotedCoord, PromotionFailsCoord, CleanStagingCoord,
     LeaderLeavesCoord DEF TaskStep
<1>2. ASSUME NEW t \in Tasks, PromotionStep(t) PROVE CoordInv'
  BY <1>2, PromotionCoord
<1>3. ASSUME NEW f \in Files, FileChanges(f) PROVE CoordInv'
  BY <1>3, TransferAssumption DEF CoordInv, TypeOK, Held, Owned, Verified, FileChanges,
     taskVars, peerVars
<1>4. CASE UNCHANGED vars
  BY <1>4 DEF CoordInv, TypeOK, Held, Owned, Verified, vars, taskVars, peerVars
<1> QED
  BY <1>1, <1>2, <1>3, <1>4 DEF Next

LEMMA CoordInvariance == Spec => []CoordInv
<1>1. Init => CoordInv
  BY TransferAssumption DEF Init, CoordInv, TypeOK, Held, Owned, Verified, Leading, Copying
<1> QED
  BY <1>1, CoordStep, PTL DEF Spec

\* Every variable keeps its type.
THEOREM TypeCorrect == Spec => []TypeOK
<1>1. CoordInv => TypeOK
  BY DEF CoordInv
<1> QED
  BY <1>1, CoordInvariance, PTL

\* The coordinator runs one transfer of an installation at a time.
THEOREM TransfersAreSerial == Spec => []OneTransferPerTarget
<1>1. CoordInv => OneTransferPerTarget
  BY DEF CoordInv, Held, OneTransferPerTarget
<1> QED
  BY <1>1, CoordInvariance, PTL

\* Nobody waits for a transfer that has stopped without a word.
THEOREM NobodyWaitsInVain == Spec => []WaitsEnd
<1>1. CoordInv => WaitsEnd
  BY DEF CoordInv, Held, Owned, WaitsEnd
<1> QED
  BY <1>1, CoordInvariance, PTL

-------------------------------------------------------------------------------
(* Staging files.                                                             *)

\* A task has a file on the peer only until it cleaned up, or its promotion moved it.
StagedInUse ==
  \A t \in Tasks : staged[t] # Absent => at[t] \in {"promoting", "cleaning"} /\ promotion[t] # "ok"

LEMMA StagedTaskStep ==
  ASSUME CoordInv, StagedInUse, NEW t \in Tasks, TaskStep(t)
  PROVE  StagedInUse'
<1> USE DEF CoordInv, TypeOK, StagedInUse, GoTo, End
<1>1. CASE Identify(t) \/ Resolve(t) \/ PrepareFails(t) \/ RefuseConflict(t) \/ Follow(t) \/ Lead(t)
  BY <1>1 DEF Identify, Resolve, PrepareFails, RefuseConflict, Follow, Lead, peerVars
<1>2. CASE WaitCancelled(t) \/ FollowerEnds(t) \/ LeaderLeaves(t)
  BY <1>2 DEF WaitCancelled, FollowerEnds, LeaderLeaves, peerVars
<1>3. CASE CopyStarts(t) \/ CopyNotStarted(t) \/ Promoted(t) \/ PromotionFails(t)
  BY <1>3 DEF CopyStarts, CopyNotStarted, Promoted, PromotionFails, Settle, peerVars
<1>4. CASE Staged(t)
  BY <1>4 DEF Staged
<1>5. CASE StagingFails(t)
  <2>1. promotion[t] = "none"
    BY <1>5 DEF StagingFails, Verified
  <2> QED
    BY <1>5, <2>1 DEF StagingFails
<1>6. CASE CleanStaging(t)
  BY <1>6 DEF CleanStaging, Settle
<1> QED
  BY <1>1, <1>2, <1>3, <1>4, <1>5, <1>6 DEF TaskStep

\* However late the promotion of a copy runs on the peer, and whatever ended the
\* local ssh, no staging file outlives its task and its command.
THEOREM StagingIsRemoved == Spec => []NoStagingLeft
<1>1. Init => StagedInUse
  BY DEF Init, StagedInUse
<1>2. CoordInv /\ StagedInUse /\ [Next]_vars => StagedInUse'
  <2> SUFFICES ASSUME CoordInv, StagedInUse, [Next]_vars PROVE StagedInUse'
    OBVIOUS
  <2>1. ASSUME NEW t \in Tasks, PromotionStep(t) PROVE StagedInUse'
    BY <2>1 DEF CoordInv, TypeOK, StagedInUse, PeerStep, taskVars, PromotionStep,
       PromotionRefuses, PromotionFinds, PromotionAccepts, PromotionMoves, MoveRefused
  <2>2. ASSUME NEW f \in Files, FileChanges(f) PROVE StagedInUse'
    BY <2>2 DEF FileChanges, StagedInUse, taskVars, peerVars
  <2>3. CASE UNCHANGED vars
    BY <2>3 DEF StagedInUse, vars, taskVars, peerVars
  <2> QED
    BY <2>1, <2>2, <2>3, StagedTaskStep DEF Next
<1>3. StagedInUse => NoStagingLeft
  BY DEF StagedInUse, NoStagingLeft, Settled
<1> QED
  BY <1>1, <1>2, <1>3, CoordInvariance, PTL DEF Spec

-------------------------------------------------------------------------------
(* On a peer whose move replaces nothing.                                     *)

LEMMA PeerTaskStep ==
  ASSUME CoordInv, PeerInv, NEW t \in Tasks, TaskStep(t)
  PROVE  PeerInv'
<1> SUFFICES ASSUME NEW u \in Tasks PROVE Promotes(u)'
  BY DEF PeerInv
<1> USE DEF CoordInv, TypeOK, GoTo, End, Copying, Promotes, PeerInv
<1>1. CASE Identify(t) \/ Resolve(t) \/ PrepareFails(t) \/ RefuseConflict(t)
  BY <1>1 DEF Identify, Resolve, PrepareFails, RefuseConflict, peerVars
<1>2. CASE Follow(t) \/ Lead(t) \/ WaitCancelled(t) \/ FollowerEnds(t) \/ LeaderLeaves(t)
  BY <1>2 DEF Follow, Lead, WaitCancelled, FollowerEnds, LeaderLeaves, peerVars
<1>3. CASE CopyStarts(t)
  <2>1. promotion[t] = "none" /\ settled[t] = "none" /\ local[FileOf[t]] \in Contents
    BY <1>3, Addresses DEF CopyStarts, Verified, Owned
  <2> QED
    BY <1>3, <2>1 DEF CopyStarts, Unchanged, peerVars
<1>4. CASE CopyNotStarted(t) \/ Promoted(t) \/ PromotionFails(t)
  BY <1>4 DEF CopyNotStarted, Promoted, PromotionFails, Settle, Unchanged, peerVars
<1>5. CASE Staged(t) \/ StagingFails(t)
  <2>1. promotion[t] = "none" /\ settled[t] = "none"
    BY <1>5 DEF Staged, StagingFails, Verified, Owned
  <2> QED
    BY <1>5, <2>1 DEF Staged, StagingFails, Unchanged
<1>6. CASE CleanStaging(t)
  BY <1>6 DEF CleanStaging, Settle, Unchanged
<1> QED
  BY <1>1, <1>2, <1>3, <1>4, <1>5, <1>6 DEF TaskStep

LEMMA PeerPromotionStep ==
  ASSUME ~Posix, CoordInv, PeerInv, NEW t \in Tasks, PromotionStep(t)
  PROVE  PeerInv'
<1> SUFFICES ASSUME NEW u \in Tasks PROVE Promotes(u)'
  BY DEF PeerInv
<1> USE DEF CoordInv, TypeOK, Promotes, PeerInv, PeerStep, taskVars
<1>s. promotion[t] \in {"running", "accepted"} => settled[t] # "ok"
  OBVIOUS
<1>1. CASE PromotionRefuses(t) \/ PromotionFinds(t) \/ PromotionAccepts(t)
  BY <1>s, <1>1 DEF PromotionRefuses, PromotionFinds, PromotionAccepts, Intact
<1>2. CASE MoveRefused(t)
  BY <1>s, <1>2 DEF MoveRefused
<1>3. CASE PromotionMoves(t)
  <2>1. final[Dest(t)] = Absent
    BY <1>3 DEF PromotionMoves, MovesOnto
  <2>2. CASE staged[t] = Absent
    BY <1>s, <1>3, <2>2 DEF PromotionMoves
  <2>3. CASE staged[t] # Absent
    <3>1. /\ staged[t] = copied[t]
          /\ final' = [final EXCEPT ![Dest(t)] = copied[t]]
          /\ promotion' = [promotion EXCEPT ![t] = "ok"]
          /\ staged' = [staged EXCEPT ![t] = Absent]
      BY <1>3, <2>3 DEF PromotionMoves
    <3>2. promotion[u] = "ok" => Dest(u) # Dest(t)
      BY <2>1, TransferAssumption
    <3> QED
      BY <1>3, <3>1, <3>2, Addresses DEF PromotionMoves
  <2> QED
    BY <2>2, <2>3
<1> QED
  BY <1>1, <1>2, <1>3 DEF PromotionStep

LEMMA PeerInvariance ==
  ASSUME ~Posix
  PROVE  Spec => []PeerInv
<1>1. Init => PeerInv
  BY DEF Init, PeerInv, Promotes, Copying
<1>2. CoordInv /\ PeerInv /\ [Next]_vars => PeerInv'
  <2> SUFFICES ASSUME CoordInv, PeerInv, [Next]_vars PROVE PeerInv'
    OBVIOUS
  <2>1. ASSUME NEW f \in Files, FileChanges(f) PROVE PeerInv'
    BY <2>1 DEF FileChanges, PeerInv, Promotes, taskVars, peerVars
  <2>2. CASE UNCHANGED vars
    BY <2>2 DEF PeerInv, Promotes, vars, taskVars, peerVars
  <2> QED
    BY <2>1, <2>2, PeerTaskStep, PeerPromotionStep DEF Next
<1> QED
  BY <1>1, <1>2, CoordInvariance, PTL DEF Spec

\* What a task reports as transferred is on the peer, and stays there.
THEOREM ReportsAreTrue ==
  ASSUME ~Posix
  PROVE  Spec => []TransferredIsThere
<1>1. CoordInv /\ PeerInv => TransferredIsThere
  BY DEF CoordInv, PeerInv, Promotes, Owned, TransferredIsThere
<1> QED
  BY <1>1, CoordInvariance, PeerInvariance, PTL

-------------------------------------------------------------------------------
(* The peer's folders and the reports about them implement ModelStore.        *)

\* A task asks the peer about a content it hashed.
Identified == \A t \in Tasks : at[t] = "resolving" => identity[t] \in Contents

\* The four invariants the simulation rests on.
StoreInv == CoordInv /\ PeerInv /\ Identified /\ TransferredIsThere

LEMMA IdentifiedInvariance == Spec => []Identified
<1>1. Init => Identified
  BY DEF Init, Identified
<1>2. CoordInv /\ Identified /\ [Next]_vars => Identified'
  <2> SUFFICES ASSUME CoordInv, Identified, [Next]_vars, NEW u \in Tasks
               PROVE  (at[u] = "resolving" => identity[u] \in Contents)'
    BY DEF Identified
  <2> USE DEF CoordInv, TypeOK, Identified, GoTo, End
  <2>1. ASSUME NEW t \in Tasks, Identify(t)
        PROVE  (at[u] = "resolving" => identity[u] \in Contents)'
    BY <2>1, Addresses DEF Identify
  <2>2. ASSUME NEW t \in Tasks, TaskStep(t), ~Identify(t)
        PROVE  identity' = identity /\ (at'[u] = "resolving" => at[u] = "resolving")
    <3>1. CASE Resolve(t) \/ PrepareFails(t) \/ RefuseConflict(t) \/ Follow(t) \/ Lead(t)
               \/ WaitCancelled(t) \/ FollowerEnds(t) \/ LeaderLeaves(t)
      BY <3>1 DEF Resolve, PrepareFails, RefuseConflict, Follow, Lead, WaitCancelled,
         FollowerEnds, LeaderLeaves
    <3>2. CASE CopyStarts(t) \/ CopyNotStarted(t) \/ Staged(t) \/ StagingFails(t)
               \/ Promoted(t) \/ PromotionFails(t) \/ CleanStaging(t)
      BY <3>2 DEF CopyStarts, CopyNotStarted, Staged, StagingFails, Promoted, PromotionFails,
         CleanStaging, Settle, Unchanged
    <3> QED
      BY <2>2, <3>1, <3>2 DEF TaskStep
  <2>3. ASSUME NEW t \in Tasks, PromotionStep(t) PROVE UNCHANGED <<at, identity>>
    BY <2>3 DEF PromotionStep, PromotionRefuses, PromotionFinds, PromotionAccepts,
       PromotionMoves, MoveRefused, PeerStep, taskVars
  <2>4. ASSUME NEW f \in Files, FileChanges(f) PROVE UNCHANGED <<at, identity>>
    BY <2>4 DEF FileChanges, taskVars
  <2>5. CASE UNCHANGED vars
    BY <2>5 DEF vars, taskVars
  <2> QED
    BY <2>1, <2>2, <2>3, <2>4, <2>5 DEF Next
<1> QED
  BY <1>1, <1>2, CoordInvariance, PTL DEF Spec

LEMMA StoreInvariance ==
  ASSUME ~Posix
  PROVE  Spec => []StoreInv
BY CoordInvariance, PeerInvariance, IdentifiedInvariance, ReportsAreTrue, PTL DEF StoreInv

\* What a task was told does not change when others act, nor while it is not over.
LEMMA ToldStays ==
  ASSUME CoordInv, NEW t \in Tasks, TaskStep(t), NEW u \in Tasks, outcome'[u] = outcome[u]
  PROVE  ToldOf(u)' = ToldOf(u)
<1> USE DEF CoordInv, TypeOK, GoTo, End, Copying, Leading
<1>1. outcome[u] = "present" => identity'[u] = identity[u]
  <2>1. at[t] # "start" => identity' = identity
    BY DEF TaskStep, Identify, Resolve, PrepareFails, RefuseConflict, Follow, Lead,
       WaitCancelled, FollowerEnds, CopyStarts, CopyNotStarted, Staged, StagingFails, Promoted,
       PromotionFails, CleanStaging, LeaderLeaves, Unchanged
  <2>2. at[t] = "start" => identity' = identity \/ Identify(t)
    BY DEF TaskStep, Resolve, PrepareFails, RefuseConflict, Follow, Lead,
       WaitCancelled, FollowerEnds, CopyStarts, CopyNotStarted, Staged, StagingFails, Promoted,
       PromotionFails, CleanStaging, LeaderLeaves, Unchanged
  <2>3. Identify(t) /\ outcome[u] = "present" => u # t
    BY DEF Identify, Owned
  <2> QED
    BY <2>1, <2>2, <2>3 DEF Identify
<1>2. outcome[u] = "ok" => owner'[u] = owner[u] /\ copied'[owner[u]] = copied[owner[u]]
  <2> SUFFICES ASSUME outcome[u] = "ok"
               PROVE  owner'[u] = owner[u] /\ copied'[owner[u]] = copied[owner[u]]
    OBVIOUS
  <2>1. at[u] = "done" /\ owner[u] \in Tasks /\ at[owner[u]] \notin {"leading"}
    BY DEF Owned
  <2>2. CASE Identify(t) \/ Resolve(t) \/ PrepareFails(t) \/ RefuseConflict(t) \/ WaitCancelled(t)
             \/ FollowerEnds(t) \/ LeaderLeaves(t)
    BY <2>2 DEF Identify, Resolve, PrepareFails, RefuseConflict, WaitCancelled, FollowerEnds,
       LeaderLeaves
  <2>3. CASE Follow(t) \/ Lead(t)
    BY <2>1, <2>3 DEF Follow, Lead
  <2>4. CASE CopyStarts(t)
    BY <2>1, <2>4 DEF CopyStarts, Unchanged
  <2>5. CASE CopyNotStarted(t) \/ Staged(t) \/ StagingFails(t) \/ Promoted(t)
             \/ PromotionFails(t) \/ CleanStaging(t)
    BY <2>5 DEF CopyNotStarted, Staged, StagingFails, Promoted, PromotionFails, CleanStaging,
       Unchanged
  <2> QED
    BY <2>2, <2>3, <2>4, <2>5 DEF TaskStep
<1> QED
  BY <1>1, <1>2 DEF ToldOf

LEMMA TaskSimulates ==
  ASSUME StoreInv, StoreInv', NEW t \in Tasks, TaskStep(t)
  PROVE  Store!Tell(t) \/ UNCHANGED Store!vars
<1> USE DEF StoreInv, CoordInv, TypeOK, GoTo, End
<1>1. final' = final
  BY DEF TaskStep, Identify, Resolve, PrepareFails, RefuseConflict, Follow, Lead,
     WaitCancelled, FollowerEnds, CopyStarts, CopyNotStarted, Staged, StagingFails, Promoted,
     PromotionFails, CleanStaging, LeaderLeaves, peerVars
<1>2. \A u \in Tasks \ {t} : outcome'[u] = outcome[u]
  BY DEF TaskStep, Identify, Resolve, PrepareFails, RefuseConflict, Follow, Lead,
     WaitCancelled, FollowerEnds, CopyStarts, CopyNotStarted, Staged, StagingFails, Promoted,
     PromotionFails, CleanStaging, LeaderLeaves, Unchanged
<1>3. \A u \in Tasks \ {t} : ToldOf(u)' = ToldOf(u)
  BY <1>2, ToldStays
<1>s. ASSUME ToldOf(t) = Absent, final[Dest(t)] # Absent, ToldOf(t)' = final[Dest(t)]
      PROVE  Store!Tell(t)
  <2>1. [u \in Tasks |-> Dest(u)][t] = Dest(t) /\ [u \in Tasks |-> ToldOf(u)][t] = Absent
    BY <1>s
  <2>2. [u \in Tasks |-> ToldOf(u)]'
        = [[u \in Tasks |-> ToldOf(u)] EXCEPT ![t] = final[Dest(t)]]
    BY <1>3, <1>s
  <2> QED
    BY <1>1, <1>s, <2>1, <2>2 DEF Store!Tell
<1>4. CASE outcome'[t] = outcome[t]
  BY <1>1, <1>3, <1>4, ToldStays DEF Store!vars
<1>5. CASE outcome'[t] # outcome[t]
  <2>1. outcome[t] = "none" /\ outcome'[t] \in {"present", "ok", "failed"}
    <3>1. at[t] # "done"
      BY <1>5 DEF TaskStep, Identify, Resolve, PrepareFails, RefuseConflict, Follow, Lead,
         WaitCancelled, FollowerEnds, CopyStarts, CopyNotStarted, Staged, StagingFails, Promoted,
         PromotionFails, CleanStaging, LeaderLeaves, Unchanged
    <3> QED
      BY <1>5, <3>1 DEF Owned
  <2>2. ToldOf(t) = Absent
    BY <2>1 DEF ToldOf
  <2>3. CASE outcome'[t] = "failed"
    <3>1. ToldOf(t)' = "failed"
      BY <2>3 DEF ToldOf
    <3> QED
      BY <1>1, <1>3, <2>2, <3>1 DEF Store!Tell
  <2>4. CASE outcome'[t] = "present"
    <3>1. Resolve(t)
      <4>1. ~Identify(t) /\ ~Follow(t) /\ ~Lead(t)
        BY <2>1, <2>4 DEF Identify, Follow, Lead
      <4>2. ~PrepareFails(t) /\ ~RefuseConflict(t) /\ ~WaitCancelled(t)
        BY <2>4 DEF PrepareFails, RefuseConflict, WaitCancelled
      <4>3. ~FollowerEnds(t) /\ ~LeaderLeaves(t)
        BY <2>4 DEF FollowerEnds, LeaderLeaves, Owned
      <4>4. /\ ~CopyStarts(t) /\ ~CopyNotStarted(t) /\ ~Staged(t) /\ ~StagingFails(t)
            /\ ~Promoted(t) /\ ~PromotionFails(t) /\ ~CleanStaging(t)
        BY <2>1, <2>4 DEF CopyStarts, CopyNotStarted, Staged, StagingFails, Promoted,
           PromotionFails, CleanStaging, Unchanged
      <4> QED
        BY <4>1, <4>2, <4>3, <4>4 DEF TaskStep
    <3>2. final[Dest(t)] = identity[t] /\ identity[t] # Absent /\ identity' = identity
      BY <2>1, <2>4, <3>1, TransferAssumption DEF Resolve, Identified
    <3>3. ToldOf(t)' = final[Dest(t)]
      BY <2>4, <3>2 DEF ToldOf
    <3> QED
      BY <1>s, <2>2, <3>2, <3>3
  <2>5. CASE outcome'[t] = "ok"
    <3>1. ToldOf(t)' = copied'[owner'[t]]
      BY <2>5 DEF ToldOf
    <3>2. final[Dest(t)] = copied'[owner'[t]]
      BY <1>1, <2>5 DEF TransferredIsThere
    <3>3. copied'[owner'[t]] \in Contents
      BY <2>5 DEF Owned, PeerInv, Promotes
    <3> QED
      BY <1>s, <2>2, <3>1, <3>2, <3>3, TransferAssumption
  <2> QED
    BY <2>1, <2>3, <2>4, <2>5
<1> QED
  BY <1>4, <1>5

LEMMA PromotionSimulates ==
  ASSUME ~Posix, StoreInv, NEW t \in Tasks, PromotionStep(t)
  PROVE  Store!Put(Dest(t)) \/ UNCHANGED Store!vars
<1> USE DEF StoreInv, CoordInv, TypeOK, PeerStep, taskVars
<1>1. \A u \in Tasks : ToldOf(u)' = ToldOf(u)
  BY DEF PromotionStep, PromotionRefuses, PromotionFinds, PromotionAccepts, PromotionMoves,
     MoveRefused, ToldOf
<1>2. CASE PromotionMoves(t) /\ staged[t] # Absent
  <2>1. final[Dest(t)] = Absent /\ final' = [final EXCEPT ![Dest(t)] = staged[t]]
    BY <1>2 DEF PromotionMoves, MovesOnto
  <2>2. staged[t] \in Contents
    BY <1>2 DEF PromotionMoves, PeerInv, Promotes
  <2> QED
    BY <1>1, <2>1, <2>2 DEF Store!Put
<1>3. CASE ~(PromotionMoves(t) /\ staged[t] # Absent)
  <2>1. final' = final
    BY <1>3 DEF PromotionStep, PromotionRefuses, PromotionFinds, PromotionAccepts,
       PromotionMoves, MoveRefused
  <2> QED
    BY <1>1, <2>1 DEF Store!vars
<1> QED
  BY <1>2, <1>3

\* The peer's files and the reports of the tasks implement the store: no model file is
\* replaced, and what a task is told is there under its name from then on.
THEOREM TransferImplementsStore ==
  ASSUME ~Posix
  PROVE  Spec => StoreImplemented
<1>1. Init => Store!Init
  BY Addresses DEF Init, Store!Init, ToldOf
<1>2. StoreInv /\ StoreInv' /\ [Next]_vars => [Store!Next]_(Store!vars)
  <2> SUFFICES ASSUME StoreInv, StoreInv', [Next]_vars
               PROVE  Store!Next \/ UNCHANGED Store!vars
    OBVIOUS
  <2>1. ASSUME NEW t \in Tasks, TaskStep(t) PROVE Store!Next \/ UNCHANGED Store!vars
    BY <2>1, TaskSimulates DEF Store!Next
  <2>2. ASSUME NEW t \in Tasks, PromotionStep(t) PROVE Store!Next \/ UNCHANGED Store!vars
    BY <2>2, PromotionSimulates, Addresses DEF Store!Next
  <2>3. ASSUME NEW f \in Files, FileChanges(f) PROVE UNCHANGED Store!vars
    BY <2>3 DEF FileChanges, taskVars, peerVars, Store!vars, ToldOf
  <2>4. CASE UNCHANGED vars
    BY <2>4 DEF vars, taskVars, peerVars, Store!vars, ToldOf
  <2> QED
    BY <2>1, <2>2, <2>3, <2>4 DEF Next
<1> QED
  BY <1>1, <1>2, StoreInvariance, PTL DEF Spec, StoreImplemented, Store!Spec

-------------------------------------------------------------------------------
(* Manifests.                                                                 *)

\* A task shares a transfer of the content it identified, and neither forgets it.
Shares ==
  \A t \in Tasks : owner[t] # NoTask =>
    /\ at[t] # "start" /\ at[owner[t]] # "start"
    /\ identity[owner[t]] = identity[t]

\* What a task found on the peer stays there.
FoundStays ==
  \A t \in Tasks : outcome[t] = "present" =>
    identity[t] \in Contents /\ final[Dest(t)] = identity[t]

\* Only Identify writes an identity, and no task comes back to it.
LEMMA IdentityKept ==
  ASSUME CoordInv, NEW t \in Tasks, TaskStep(t), ~Identify(t)
  PROVE  identity' = identity /\ \A u \in Tasks : at'[u] = "start" => at[u] = "start"
<1> USE DEF CoordInv, TypeOK, GoTo, End
<1>1. CASE Resolve(t) \/ PrepareFails(t) \/ RefuseConflict(t) \/ Follow(t) \/ Lead(t)
           \/ WaitCancelled(t) \/ FollowerEnds(t) \/ LeaderLeaves(t)
  BY <1>1 DEF Resolve, PrepareFails, RefuseConflict, Follow, Lead, WaitCancelled,
     FollowerEnds, LeaderLeaves
<1>2. CASE CopyStarts(t) \/ CopyNotStarted(t) \/ Staged(t) \/ StagingFails(t)
           \/ Promoted(t) \/ PromotionFails(t) \/ CleanStaging(t)
  BY <1>2 DEF CopyStarts, CopyNotStarted, Staged, StagingFails, Promoted, PromotionFails,
     CleanStaging, Settle, Unchanged
<1> QED
  BY <1>1, <1>2 DEF TaskStep

LEMMA SharesStep ==
  ASSUME CoordInv, Shares, NEW t \in Tasks, TaskStep(t)
  PROVE  Shares'
<1> USE DEF CoordInv, TypeOK, Shares, GoTo
<1>1. CASE Identify(t)
  BY <1>1 DEF Identify
<1>2. CASE Follow(t)
  <2>1. /\ owner' = [owner EXCEPT ![t] = Current(t)] /\ Current(t) \in Tasks
        /\ at[Current(t)] # "start" /\ identity[Current(t)] = identity[t] /\ at[t] # "start"
    BY <1>2, Addresses DEF Follow, Conflict, Current, Held, Leading, Copying
  <2> QED
    BY <1>2, <2>1, IdentityKept DEF Follow, Identify
<1>3. CASE Lead(t)
  BY <1>3, IdentityKept DEF Lead, Identify
<1>4. CASE ~Identify(t) /\ ~Follow(t) /\ ~Lead(t)
  <2>1. owner' = owner
    BY <1>4 DEF TaskStep, Resolve, PrepareFails, RefuseConflict, WaitCancelled, FollowerEnds,
       LeaderLeaves, CopyStarts, CopyNotStarted, Staged, StagingFails, Promoted,
       PromotionFails, CleanStaging, Unchanged
  <2> QED
    BY <1>4, <2>1, IdentityKept
<1> QED
  BY <1>1, <1>2, <1>3, <1>4

LEMMA FoundStaysStep ==
  ASSUME ~Posix, CoordInv, FoundStays, Identified,
         NEW t \in Tasks, TaskStep(t) \/ PromotionStep(t)
  PROVE  FoundStays'
<1> USE DEF CoordInv, TypeOK, FoundStays
<1>1. CASE PromotionStep(t)
  <2>1. identity' = identity /\ outcome' = outcome
    BY <1>1 DEF PromotionStep, PromotionRefuses, PromotionFinds, PromotionAccepts,
       PromotionMoves, MoveRefused, PeerStep, taskVars
  <2>2. \A d \in Dests : final[d] # Absent => final'[d] = final[d]
    BY <1>1, Addresses DEF PromotionStep, PromotionRefuses, PromotionFinds, PromotionAccepts,
       PromotionMoves, MoveRefused, MovesOnto
  <2> QED
    BY <2>1, <2>2, Addresses, TransferAssumption
<1>2. CASE TaskStep(t)
  <2>1. final' = final
    BY <1>2 DEF TaskStep, Identify, Resolve, PrepareFails, RefuseConflict, Follow, Lead,
       WaitCancelled, FollowerEnds, CopyStarts, CopyNotStarted, Staged, StagingFails, Promoted,
       PromotionFails, CleanStaging, LeaderLeaves, peerVars
  <2>2. CASE Identify(t)
    BY <2>1, <2>2 DEF Identify, Owned
  <2>3. CASE Resolve(t)
    BY <2>1, <2>3, TransferAssumption DEF Resolve, End, Identified
  <2>4. CASE ~Identify(t) /\ ~Resolve(t)
    <3>1. \A u \in Tasks : outcome'[u] = "present" => outcome[u] = "present"
      BY <1>2, <2>4 DEF TaskStep, PrepareFails, RefuseConflict, Follow, Lead, WaitCancelled,
         FollowerEnds, LeaderLeaves, CopyStarts, CopyNotStarted, Staged, StagingFails,
         Promoted, PromotionFails, CleanStaging, Unchanged, End, Owned
    <3> QED
      BY <1>2, <2>1, <2>4, <3>1, IdentityKept
  <2> QED
    BY <2>2, <2>3, <2>4
<1> QED
  BY <1>1, <1>2

\* On a peer whose move replaces nothing, the manifest of every task that is over is
\* true: who shares a copy shares one of the content it identified, the copy promoted
\* that content, and nothing took its place.  The one exception is in the statement:
\* a leader's file that changed between its two hashes.
THEOREM ManifestsAreTrue ==
  ASSUME ~Posix
  PROVE  Spec => []ManifestIsTrue
<1>1. Init => Shares /\ FoundStays
  BY DEF Init, Shares, FoundStays
<1>2. CoordInv /\ Identified /\ Shares /\ FoundStays /\ [Next]_vars => Shares' /\ FoundStays'
  <2> SUFFICES ASSUME CoordInv, Identified, Shares, FoundStays, [Next]_vars
               PROVE  Shares' /\ FoundStays'
    OBVIOUS
  <2>1. ASSUME NEW t \in Tasks, TaskStep(t) PROVE Shares' /\ FoundStays'
    BY <2>1, SharesStep, FoundStaysStep
  <2>2. ASSUME NEW t \in Tasks, PromotionStep(t) PROVE Shares' /\ FoundStays'
    <3>1. UNCHANGED <<at, identity, owner>>
      BY <2>2 DEF PromotionStep, PromotionRefuses, PromotionFinds, PromotionAccepts,
         PromotionMoves, MoveRefused, PeerStep, taskVars
    <3> QED
      BY <2>2, <3>1, FoundStaysStep DEF Shares
  <2>3. ASSUME NEW f \in Files, FileChanges(f) PROVE Shares' /\ FoundStays'
    BY <2>3 DEF FileChanges, Shares, FoundStays, taskVars, peerVars
  <2>4. CASE UNCHANGED vars
    BY <2>4 DEF Shares, FoundStays, vars, taskVars, peerVars
  <2> QED
    BY <2>1, <2>2, <2>3, <2>4 DEF Next
<1>3. CoordInv /\ Shares /\ FoundStays /\ TransferredIsThere => ManifestIsTrue
  BY TransferAssumption DEF CoordInv, Owned, Shares, FoundStays, TransferredIsThere,
     Compared, ManifestIsTrue
<1> QED
  BY <1>1, <1>2, <1>3, CoordInvariance, IdentifiedInvariance, ReportsAreTrue, PTL DEF Spec

===============================================================================
