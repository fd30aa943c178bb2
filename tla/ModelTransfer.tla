----------------------------- MODULE ModelTransfer -----------------------------
(***************************************************************************)
(* Making a model file available on one peer: prepare_models_for_target    *)
(* and ModelTransferCoordinator (cutlery_remote/model_preparation.py), and *)
(* the staged copy over ssh and scp with its promotion on the peer         *)
(* (cutlery_remote/model_transfer.py).                                     *)
(*                                                                         *)
(* Several local installations prepare models for the same peer, each with *)
(* a coordinator of its own; a task is one thread preparing one file.  A   *)
(* command that was started on the peer goes on there when the local ssh   *)
(* is terminated.                                                          *)
(***************************************************************************)
EXTENDS Naturals

CONSTANTS
  Tasks,         \* threads that prepare a file
  Files,         \* local model files
  FileOf,        \* the file each task prepares
  HostOf,        \* the installation each file belongs to
  DestOf,        \* where each file goes on the peer
  Contents,      \* what a file may contain
  Original,      \* what each file contains at first
  MaxChanges,    \* bound: how often a local file changes
  Posix,         \* whether the peer promotes with "mv"
  NoTask,        \* the target is free
  Absent,        \* no file
  Partial        \* the front part of a file

Hosts == {HostOf[f] : f \in Files}
Dests == {DestOf[f] : f \in Files}

ASSUME TransferAssumption ==
  /\ FileOf \in [Tasks -> Files]
  /\ Original \in [Files -> Contents]
  /\ MaxChanges \in Nat
  /\ Posix \in BOOLEAN
  /\ NoTask \notin Tasks
  /\ Absent \notin Contents /\ Partial \notin Contents /\ Absent # Partial

VARIABLES
  at,         \* where each task is
  identity,   \* the content it hashed, for the manifest and the coordinator
  owner,      \* the task whose transfer it shares
  copied,     \* the content its copy hashed
  outcome,    \* how it ended
  active,     \* _active_by_target of each installation
  settled,    \* what a finished transfer tells its followers (done, result, error)
  local,      \* the local files
  changes,    \* how often they changed
  staged,     \* each task's staging file on the peer
  promotion,  \* each task's promotion command on the peer
  final       \* the model files on the peer

taskVars == <<at, identity, owner, copied, outcome>>
peerVars == <<staged, promotion, final>>
vars == <<taskVars, active, settled, local, changes, peerVars>>

Host(t) == HostOf[FileOf[t]]
Dest(t) == DestOf[FileOf[t]]

Copying == {"staging", "promoting", "cleaning"}
Leading == {"leading", "settled"} \cup Copying
TypeOK ==
  /\ at \in [Tasks -> {"start", "resolving", "asking", "following", "done"} \cup Leading]
  /\ identity \in [Tasks -> Contents \cup {Absent}]
  /\ owner \in [Tasks -> Tasks \cup {NoTask}]
  /\ copied \in [Tasks -> Contents \cup {Absent}]
  /\ outcome \in [Tasks -> {"none", "present", "ok", "failed"}]
  /\ active \in [Hosts -> Tasks \cup {NoTask}]
  /\ settled \in [Tasks -> {"none", "ok", "failed"}]
  /\ local \in [Files -> Contents]
  /\ changes \in 0..MaxChanges
  /\ staged \in [Tasks -> Contents \cup {Absent, Partial}]
  /\ promotion \in [Tasks -> {"none", "running", "accepted", "ok", "failed"}]
  /\ final \in [Dests -> Contents \cup {Absent}]

Init ==
  /\ at = [t \in Tasks |-> "start"]
  /\ identity = [t \in Tasks |-> Absent]
  /\ owner = [t \in Tasks |-> NoTask]
  /\ copied = [t \in Tasks |-> Absent]
  /\ outcome = [t \in Tasks |-> "none"]
  /\ active = [h \in Hosts |-> NoTask]
  /\ settled = [t \in Tasks |-> "none"]
  /\ local = Original
  /\ changes = 0
  /\ staged = [t \in Tasks |-> Absent]
  /\ promotion = [t \in Tasks |-> "none"]
  /\ final = [d \in Dests |-> Absent]

GoTo(t, place) == at' = [at EXCEPT ![t] = place]
End(t, result) == GoTo(t, "done") /\ outcome' = [outcome EXCEPT ![t] = result]

-------------------------------------------------------------------------------
(* A prompt may be cancelled at any time, and its task sees it at its next    *)
(* check: a step that fails stands for a cancellation as well as an error.    *)

\* A local file changes (a change that nobody will read is not a case of its own).
FileChanges(f) ==
  /\ changes < MaxChanges
  /\ \E t \in Tasks : FileOf[t] = f /\ at[t] \in {"start", "resolving", "leading", "staging"}
  /\ \E c \in Contents \ {local[f]} : local' = [local EXCEPT ![f] = c]
  /\ changes' = changes + 1
  /\ UNCHANGED <<taskVars, active, settled, peerVars>>

-------------------------------------------------------------------------------
(* prepare_models_for_target.                                                 *)

\* local_model_file: the identity is the hash of the file now.
Identify(t) ==
  /\ at[t] = "start"
  /\ identity' = [identity EXCEPT ![t] = local[FileOf[t]]]
  /\ GoTo(t, "resolving")
  /\ UNCHANGED <<owner, copied, outcome, active, settled, local, changes, peerVars>>

\* The peer says what it has: the file, another content under its name (an
\* error), or nothing, and then it is to be transferred.
Resolve(t) ==
  /\ at[t] = "resolving"
  /\ \/ final[Dest(t)] = identity[t] /\ End(t, "present")
     \/ final[Dest(t)] \notin {identity[t], Absent} /\ End(t, "failed")
     \/ final[Dest(t)] = Absent /\ GoTo(t, "asking") /\ UNCHANGED outcome
  /\ UNCHANGED <<identity, owner, copied, active, settled, local, changes, peerVars>>

\* Hashing or the request fails, or a check finds the prompt cancelled.
PrepareFails(t) ==
  /\ at[t] \in {"start", "resolving"}
  /\ End(t, "failed")
  /\ UNCHANGED <<identity, owner, copied, active, settled, local, changes, peerVars>>

-------------------------------------------------------------------------------
(* ModelTransferCoordinator.transfer.                                         *)

Current(t) == active[Host(t)]
SameFile(t, u) == Dest(t) = Dest(u)

\* Slip: whoever wants the destination shares the current transfer.
Conflict_None(t) == FALSE

\* The current transfer brings another content to the same destination.
Conflict(t) ==
  Current(t) # NoTask /\ SameFile(t, Current(t)) /\ identity[Current(t)] # identity[t]

RefuseConflict(t) ==
  /\ at[t] = "asking" /\ Conflict(t)
  /\ End(t, "failed")
  /\ UNCHANGED <<identity, owner, copied, active, settled, local, changes, peerVars>>

\* It is the same transfer: its outcome is shared.
Follow(t) ==
  /\ at[t] = "asking" /\ ~Conflict(t)
  /\ Current(t) # NoTask /\ SameFile(t, Current(t))
  /\ owner' = [owner EXCEPT ![t] = Current(t)]
  /\ GoTo(t, "following")
  /\ UNCHANGED <<identity, copied, outcome, active, settled, local, changes, peerVars>>

\* Slip: a transfer of another file does not wait for the current one.
TargetFree_OtherFiles(t) == Current(t) # NoTask => ~SameFile(t, Current(t))

TargetFree(t) == Current(t) = NoTask

Lead(t) ==
  /\ at[t] = "asking" /\ TargetFree(t)
  /\ active' = [active EXCEPT ![Host(t)] = t]
  /\ owner' = [owner EXCEPT ![t] = t]
  /\ GoTo(t, "leading")
  /\ UNCHANGED <<identity, copied, outcome, settled, local, changes, peerVars>>

\* Whoever waits, for the target or for its owner, looks whether it was
\* cancelled every tenth of a second.
WaitCancelled(t) ==
  /\ \/ at[t] = "asking" /\ ~TargetFree(t) /\ ~SameFile(t, Current(t))
     \/ at[t] = "following" /\ settled[owner[t]] = "none"
  /\ End(t, "failed")
  /\ UNCHANGED <<identity, owner, copied, active, settled, local, changes, peerVars>>

\* A follower gets its owner's result or error.
FollowerEnds(t) ==
  /\ at[t] = "following" /\ settled[owner[t]] # "none"
  /\ End(t, settled[owner[t]])
  /\ UNCHANGED <<identity, owner, copied, active, settled, local, changes, peerVars>>

\* The outcome is stored and done is set ...
Settle(t, result) ==
  /\ settled' = [settled EXCEPT ![t] = result]
  /\ GoTo(t, "settled")

\* Slip: the target stays taken after an error.
LeaderLeaves_OnSuccess(t) ==
  /\ at[t] = "settled"
  /\ active' = [active EXCEPT ![Host(t)] = IF settled[t] = "ok" THEN NoTask ELSE @]
  /\ End(t, settled[t])
  /\ UNCHANGED <<identity, owner, copied, settled, local, changes, peerVars>>

\* ... and then, under the lock, the target is given free.
LeaderLeaves(t) ==
  /\ at[t] = "settled"
  /\ active' = [active EXCEPT ![Host(t)] = IF @ = t THEN NoTask ELSE @]
  /\ End(t, settled[t])
  /\ UNCHANGED <<identity, owner, copied, settled, local, changes, peerVars>>

-------------------------------------------------------------------------------
(* copy_model_file_to_remote, on the local side.                              *)

Unchanged(t) == UNCHANGED <<identity, owner, outcome, active, local, changes>>

\* The source is hashed again, the folder made, and scp started; the commands of
\* a prompt that is cancelled by then fail.
CopyStarts(t) ==
  /\ at[t] = "leading"
  /\ copied' = [copied EXCEPT ![t] = local[FileOf[t]]]
  /\ GoTo(t, "staging")
  /\ UNCHANGED <<settled, peerVars>> /\ Unchanged(t)

\* Nothing was staged yet: nothing is cleaned up.
CopyNotStarted(t) ==
  /\ at[t] = "leading"
  /\ Settle(t, "failed")
  /\ UNCHANGED <<copied, peerVars>> /\ Unchanged(t)

\* scp is over: what it staged is the file as it was now.
Staged(t) ==
  /\ at[t] = "staging"
  /\ staged' = [staged EXCEPT ![t] = local[FileOf[t]]]
  /\ promotion' = [promotion EXCEPT ![t] = "running"]
  /\ GoTo(t, "promoting")
  /\ UNCHANGED <<copied, settled, final>> /\ Unchanged(t)

\* scp fails, or is terminated, with nothing or a part of the file on the peer.
StagingFails(t) ==
  /\ at[t] = "staging"
  /\ \E rest \in {Absent, Partial} : staged' = [staged EXCEPT ![t] = rest]
  /\ GoTo(t, "cleaning")
  /\ UNCHANGED <<copied, settled, promotion, final>> /\ Unchanged(t)

\* The promotion succeeded; a cancellation that came meanwhile still counts.
Promoted(t) ==
  /\ at[t] = "promoting" /\ promotion[t] = "ok"
  /\ \E result \in {"ok", "failed"} : Settle(t, result)
  /\ UNCHANGED <<copied, peerVars>> /\ Unchanged(t)

\* The promotion failed, or the local ssh ended before it: by a cancellation, or
\* because the connection broke.
PromotionFails(t) ==
  /\ at[t] = "promoting"
  /\ GoTo(t, "cleaning")
  /\ UNCHANGED <<copied, settled, peerVars>> /\ Unchanged(t)

\* Slip: the staging file is left on the peer.
CleanStaging_None(t) ==
  /\ at[t] = "cleaning"
  /\ Settle(t, "failed")
  /\ UNCHANGED <<copied, peerVars>> /\ Unchanged(t)

\* The staging file is removed and the error raised.  (A removal that fails is
\* only logged; it is left out, so that NoStagingLeft is about the code.)
CleanStaging(t) ==
  /\ at[t] = "cleaning"
  /\ staged' = [staged EXCEPT ![t] = Absent]
  /\ Settle(t, "failed")
  /\ UNCHANGED <<copied, promotion, final>> /\ Unchanged(t)

-------------------------------------------------------------------------------
(* The promotion command on the peer, whoever still waits for it.             *)

PeerStep == UNCHANGED <<taskVars, active, settled, local, changes>>

\* Slip: the staged file is not hashed.
Intact_Unchecked(t) == staged[t] # Absent

\* Its size and its hash are those of the source.
Intact(t) == staged[t] = copied[t]

PromotionRefuses(t) ==
  /\ promotion[t] = "running"
  /\ ~Intact(t) \/ final[Dest(t)] \notin {copied[t], Absent}
  /\ promotion' = [promotion EXCEPT ![t] = "failed"]
  /\ UNCHANGED <<staged, final>> /\ PeerStep

\* The file is there: the staged one is not needed.
PromotionFinds(t) ==
  /\ promotion[t] = "running" /\ Intact(t) /\ final[Dest(t)] = copied[t]
  /\ staged' = [staged EXCEPT ![t] = Absent]
  /\ promotion' = [promotion EXCEPT ![t] = "ok"]
  /\ UNCHANGED final /\ PeerStep

\* The staged file is good and there is no final one: it may be moved.
PromotionAccepts(t) ==
  /\ promotion[t] = "running" /\ Intact(t) /\ final[Dest(t)] = Absent
  /\ promotion' = [promotion EXCEPT ![t] = "accepted"]
  /\ UNCHANGED <<staged, final>> /\ PeerStep

\* Slip: the move replaces what came under the name meanwhile.
MovesOnto_Always(t) == TRUE

\* "mv" replaces a file that came meanwhile, File.Move refuses to.
MovesOnto(t) == Posix \/ final[Dest(t)] = Absent

\* The move is one rename; it fails when the staged file was removed.
PromotionMoves(t) ==
  /\ promotion[t] = "accepted" /\ MovesOnto(t)
  /\ IF staged[t] = Absent
     THEN /\ promotion' = [promotion EXCEPT ![t] = "failed"]
          /\ UNCHANGED <<staged, final>>
     ELSE /\ promotion' = [promotion EXCEPT ![t] = "ok"]
          /\ final' = [final EXCEPT ![Dest(t)] = staged[t]]
          /\ staged' = [staged EXCEPT ![t] = Absent]
  /\ PeerStep

\* The refused move is looked at again: the same content is good enough.
MoveRefused(t) ==
  /\ promotion[t] = "accepted" /\ ~MovesOnto(t)
  /\ IF final[Dest(t)] = copied[t]
     THEN /\ promotion' = [promotion EXCEPT ![t] = "ok"]
          /\ staged' = [staged EXCEPT ![t] = Absent]
     ELSE /\ promotion' = [promotion EXCEPT ![t] = "failed"]
          /\ UNCHANGED staged
  /\ UNCHANGED final /\ PeerStep

-------------------------------------------------------------------------------

TaskStep(t) ==
  \/ Identify(t) \/ Resolve(t) \/ PrepareFails(t)
  \/ RefuseConflict(t) \/ Follow(t) \/ Lead(t) \/ WaitCancelled(t) \/ FollowerEnds(t)
  \/ CopyStarts(t) \/ CopyNotStarted(t) \/ Staged(t) \/ StagingFails(t)
  \/ Promoted(t) \/ PromotionFails(t) \/ CleanStaging(t) \/ LeaderLeaves(t)
PromotionStep(t) ==
  \/ PromotionRefuses(t) \/ PromotionFinds(t) \/ PromotionAccepts(t)
  \/ PromotionMoves(t) \/ MoveRefused(t)

Next ==
  \/ \E t \in Tasks : TaskStep(t) \/ PromotionStep(t)
  \/ \E f \in Files : FileChanges(f)

Spec == Init /\ [][Next]_vars

-------------------------------------------------------------------------------
(* Properties.                                                                *)

\* What a task that reports a transfer reports (its own or its owner's sha256)
\* is what the peer has under the name: no partial, changed or foreign content
\* was promoted, and none replaced it since.
TransferredIsThere ==
  \A t \in Tasks : outcome[t] = "ok" => final[Dest(t)] = copied[owner[t]]

\* What a task was told: the content of a file the peer had, of one it or its owner
\* copied, or an error.
ToldOf(t) == CASE outcome[t] = "none"    -> Absent
               [] outcome[t] = "present" -> identity[t]
               [] outcome[t] = "ok"      -> copied[owner[t]]
               [] outcome[t] = "failed"  -> "failed"

Store == INSTANCE ModelStore WITH
  Names <- Dests, NameOf <- [t \in Tasks |-> Dest(t)],
  store <- final, told <- [t \in Tasks |-> ToldOf(t)]

\* The peer's folders are a store: a file under its final name is never replaced nor
\* removed, whatever installations copy under that name at once ("Final model file
\* conflicts"), and a task is told once, of what is there.
StoreImplemented == Store!Spec

\* An installation copies one file to the peer at a time ("Transfers are
\* serialized per target and identical concurrent requests share the owner").
OneTransferPerTarget ==
  \A t, u \in Tasks : at[t] \in Leading /\ at[u] \in Leading /\ Host(t) = Host(u) => t = u

\* What the manifest of a task says of its file is true of the peer when the task is
\* over: the content the task identified is there, whether it was there before, the
\* task copied it, or it shared the copy of another task.  But a file may change
\* between its first hash, that the manifest holds, and the second, that the copy is
\* verified against: nobody compares the two, and the task is told "transferred".
Compared(t) == outcome[t] = "ok" => copied[owner[t]] = identity[owner[t]]
ManifestIsTrue ==
  \A t \in Tasks :
    outcome[t] \in {"present", "ok"} /\ Compared(t) => final[Dest(t)] = identity[t]

\* When a task is over, on both sides, its staging file is gone: a promotion that
\* goes on after its ssh was ended races with the removal and leaves nothing.
Settled(t) == at[t] = "done" /\ promotion[t] \notin {"running", "accepted"}
NoStagingLeft == \A t \in Tasks : Settled(t) => staged[t] = Absent

\* Nobody waits for a transfer that nobody runs: the target is held by a leader
\* at work, and an owner is at work or has settled what its followers get.
WaitsEnd ==
  /\ \A h \in Hosts : active[h] # NoTask => at[active[h]] \in Leading
  /\ \A t \in Tasks : at[t] = "following" =>
       at[owner[t]] \in Leading \/ settled[owner[t]] # "none"

===============================================================================
