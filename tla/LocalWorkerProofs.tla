--------------------------- MODULE LocalWorkerProofs ---------------------------
(***************************************************************************)
(* Proofs about LocalWorker, for any threads and process identities: which *)
(* processes are lost, and that none is stopped under a lease.  The lock   *)
(* and the count of leases are what the second rests on.                   *)
(***************************************************************************)
EXTENDS LocalWorker, TLAPS, FiniteSetTheorems

-------------------------------------------------------------------------------
(* The inductive invariant.                                                   *)

\* The thread with the lock is the one that waits for its start.
LockHeld == \A c \in Clients : at[c] = "starting" <=> lock = c

\* active_leases counts the requests that use the worker.
Counted == IsFiniteSet(Users) /\ leases = Cardinality(Users)

\* There is room for the timer that may be dropped.
TimerRoom == timer = "expired" => stale < MaxStale

IInv ==
  /\ TypeOK /\ TimerRoom
  /\ LockHeld /\ Counted
  /\ NoOrphan

-------------------------------------------------------------------------------
(* Counting leases.                                                           *)

LEMMA UserComes ==
  ASSUME IInv, NEW c \in Clients, at[c] # "using", at' = [at EXCEPT ![c] = "using"],
         leases' = leases + 1
  PROVE  Counted'
<1>1. Users' = Users \cup {c} /\ c \notin Users
  BY DEF IInv, TypeOK, Users
<1> QED
  BY <1>1, FS_AddElement DEF IInv, Counted

LEMMA UserLeaves ==
  ASSUME IInv, NEW c \in Clients, at[c] = "using", at' = [at EXCEPT ![c] = "idle"],
         leases' = IF leases = 0 THEN 0 ELSE leases - 1
  PROVE  Counted'
<1>1. Users' = Users \ {c} /\ c \in Users
  BY DEF IInv, TypeOK, Users
<1>2. Cardinality(Users) # 0 /\ Cardinality(Users) \in Nat
  BY <1>1, FS_EmptySet, FS_CardinalityType DEF IInv, Counted
<1> QED
  BY <1>1, <1>2, FS_RemoveElement DEF IInv, Counted

LEMMA UsersStay ==
  ASSUME IInv, leases' = leases,
         \A c \in Clients : at[c] = "using" <=> at'[c] = "using"
  PROVE  Counted'
<1>1. Users' = Users
  BY DEF Users
<1> QED
  BY <1>1 DEF IInv, Counted

-------------------------------------------------------------------------------
(* Every step preserves it.                                                   *)

LEMMA CancelTimerType ==
  ASSUME IInv, CancelTimer
  PROVE  timer' = "none" /\ stale' \in 0..MaxStale
BY WorkerAssumption DEF IInv, TypeOK, TimerRoom, CancelTimer

LEMMA InitInv == Init => IInv
<1> SUFFICES ASSUME Init PROVE IInv
  OBVIOUS
<1>1. TypeOK /\ TimerRoom /\ LockHeld /\ NoOrphan
  BY WorkerAssumption DEF Init, TypeOK, TimerRoom, LockHeld, NoOrphan, Alive
<1>2. Users = {}
  BY DEF Init, Users
<1> QED
  BY <1>1, <1>2, FS_EmptySet DEF Init, IInv, Counted

LEMMA AcquireInv ==
  ASSUME IInv, NEW c \in Clients,
         AcquireListening(c) \/ AcquireStarts(c) \/ AcquireRefused(c)
  PROVE  IInv'
<1> USE WorkerAssumption DEF IInv, TypeOK, TimerRoom, LockHeld, NoOrphan, Alive, LockFree
<1>1. CASE AcquireListening(c)
  <2>1. (TypeOK /\ TimerRoom /\ LockHeld /\ NoOrphan)'
    BY <1>1, CancelTimerType DEF AcquireListening, Reaped
  <2> QED
    BY <1>1, <2>1, UserComes DEF AcquireListening
<1>2. CASE AcquireStarts(c)
  <2>1. (TypeOK /\ TimerRoom /\ LockHeld /\ NoOrphan)'
    BY <1>2, CancelTimerType DEF AcquireStarts, Missed
  <2> QED
    BY <1>2, <2>1, UsersStay DEF AcquireStarts
<1>3. CASE AcquireRefused(c)
  <2>1. (TypeOK /\ TimerRoom /\ LockHeld /\ NoOrphan)'
    BY <1>3, CancelTimerType DEF AcquireRefused, Reaped, Missed
  <2> QED
    BY <1>3, <2>1, UsersStay DEF AcquireRefused
<1> QED
  BY <1>1, <1>2, <1>3

LEMMA StartEndsInv ==
  ASSUME IInv, NEW c \in Clients, StartEnds(c)
  PROVE  IInv'
<1> USE WorkerAssumption DEF IInv, TypeOK, TimerRoom, LockHeld, NoOrphan, Alive
<1>1. CASE StartReady(c)
  <2>1. (TypeOK /\ TimerRoom /\ LockHeld /\ NoOrphan)'
    BY <1>1 DEF StartReady
  <2> QED
    BY <1>1, <2>1, UserComes DEF StartReady
<1>2. CASE StartExits(c)
  <2>1. (TypeOK /\ TimerRoom /\ LockHeld /\ NoOrphan)'
    BY <1>2 DEF StartExits
  <2> QED
    BY <1>2, <2>1, UsersStay DEF StartExits
<1>3. CASE StartTimesOut(c)
  <2>1. (TypeOK /\ TimerRoom /\ LockHeld /\ NoOrphan)'
    BY <1>3, CancelTimerType DEF StartTimesOut, StopState, EndProcess
  <2> QED
    BY <1>3, <2>1, UsersStay DEF StartTimesOut
<1> QED
  BY <1>1, <1>2, <1>3 DEF StartEnds

LEMMA ReleaseInv ==
  ASSUME IInv, NEW c \in Clients, Release(c)
  PROVE  IInv'
<1>1. (TypeOK /\ TimerRoom /\ LockHeld /\ NoOrphan)'
  BY WorkerAssumption DEF IInv, TypeOK, TimerRoom, LockHeld, NoOrphan, Alive, LockFree, Release
<1> QED
  BY <1>1, UserLeaves DEF Release, IInv

LEMMA TimerInv ==
  ASSUME IInv, TimerStep \/ StopAll
  PROVE  IInv'
<1> USE WorkerAssumption DEF IInv, TypeOK, TimerRoom, LockHeld, NoOrphan, Alive, LockFree
<1>1. (TypeOK /\ TimerRoom)'
  BY CancelTimerType DEF TimerStep, TimerExpires, TimerStops, StaleTimerStops, StaleTimerEnds,
     StopAll, StopState, EndProcess
<1>2. (LockHeld /\ NoOrphan)'
  BY DEF TimerStep, TimerExpires, TimerStops, StaleTimerStops, StaleTimerEnds, StopAll, StopState,
     EndProcess
<1>3. Counted'
  BY UsersStay DEF TimerStep, TimerExpires, TimerStops, StaleTimerStops, StaleTimerEnds, StopAll
<1> QED
  BY <1>1, <1>2, <1>3

LEMMA ProcessInv ==
  ASSUME IInv, ExternalChanges \/ \E p \in Procs : ProcListens(p) \/ ProcCloses(p) \/ ProcWedges(p) \/ ProcDies(p)
  PROVE  IInv'
<1> USE DEF IInv, TypeOK, TimerRoom, LockHeld, NoOrphan, Alive
<1>1. ASSUME NEW p \in Procs, ProcListens(p) \/ ProcCloses(p) \/ ProcWedges(p) \/ ProcDies(p)
      PROVE  IInv'
  <2>1. (TypeOK /\ TimerRoom /\ LockHeld)'
    BY <1>1 DEF ProcListens, ProcCloses, ProcWedges, ProcDies
  <2>2. NoOrphan'
    BY <1>1 DEF ProcListens, ProcCloses, ProcWedges, ProcDies
  <2>3. Counted'
    BY <1>1, UsersStay DEF ProcListens, ProcCloses, ProcWedges, ProcDies
  <2> QED
    BY <2>1, <2>2, <2>3
<1>2. CASE ExternalChanges
  <2>1. (TypeOK /\ TimerRoom /\ LockHeld /\ NoOrphan)'
    BY <1>2 DEF ExternalChanges
  <2>2. Counted'
    BY <1>2, UsersStay DEF ExternalChanges
  <2> QED
    BY <2>1, <2>2
<1> QED
  BY <1>1, <1>2

LEMMA NextInv ==
  ASSUME IInv, [Next]_vars
  PROVE  IInv'
<1>1. CASE UNCHANGED vars
  BY <1>1 DEF IInv, TypeOK, TimerRoom, LockHeld, Counted, Users, NoOrphan, Alive, vars
<1> QED
  BY <1>1, AcquireInv, StartEndsInv, ReleaseInv, TimerInv, ProcessInv DEF Next

LEMMA Invariant == Spec => []IInv
BY InitInv, NextInv, PTL DEF Spec

-------------------------------------------------------------------------------
(* The theorems.                                                              *)

\* acquire, release, the timers and stop_all keep to the values of their state.
THEOREM TypeCorrect == Spec => []TypeOK
<1>1. IInv => TypeOK
  BY DEF IInv
<1> QED
  BY <1>1, Invariant, PTL

\* A live process that the manager no longer knows was missed by the probe of an
\* acquire, or cannot be killed: no failed start, timer, late timer or stop_all loses
\* one in whatever order they come (acquire, _start, _stop_state).
THEOREM OnlyMissedAreLost == Spec => []NoOrphan
<1>1. IInv => NoOrphan
  BY DEF IInv
<1> QED
  BY <1>1, Invariant, PTL

\* No timer, its own or one dropped after it had expired, and no acquire or release
\* takes the worker away from a request that leases it (_stop_if_idle's check).
THEOREM NotStoppedUnderLease == Spec => LeasedWorkerKept
<1> DEFINE Taken == Users # {} /\ lock = NoClient /\ Alive(process) /\ process' = NoProc
<1>1. ASSUME IInv, [Next]_vars, Taken
      PROVE  StopAll
  <2>1. leases # 0
    BY <1>1, FS_EmptySet DEF IInv, Counted
  <2>2. process \in Procs /\ process # NoProc
    BY <1>1, WorkerAssumption DEF Alive
  <2>3. \A c \in Clients : at[c] # "starting"
    BY <1>1, WorkerAssumption DEF IInv, LockHeld
  <2>4. ~(\E c \in Clients : AcquireListening(c) \/ AcquireStarts(c) \/ AcquireRefused(c))
    BY <1>1, <2>2, WorkerAssumption DEF AcquireListening, AcquireStarts, AcquireRefused, Reaped
  <2>5. ~(\E c \in Clients : StartEnds(c) \/ Release(c))
    BY <1>1, <2>2, <2>3 DEF StartEnds, StartReady, StartExits, StartTimesOut, Release
  <2>6. ~TimerStep
    BY <1>1, <2>1, <2>2 DEF TimerStep, TimerExpires, TimerStops, StaleTimerStops,
       StaleTimerEnds, NoLeases
  <2>7. ~(ExternalChanges \/ \E p \in Procs : ProcListens(p) \/ ProcCloses(p) \/ ProcWedges(p) \/ ProcDies(p))
    BY <1>1, <2>2 DEF ExternalChanges, ProcListens, ProcCloses, ProcWedges, ProcDies
  <2>8. ~(UNCHANGED vars)
    BY <1>1, <2>2 DEF vars
  <2> QED
    BY <1>1, <2>4, <2>5, <2>6, <2>7, <2>8 DEF Next
<1>2. IInv /\ [Next]_vars => [Taken => StopAll]_vars
  BY <1>1
<1> QED
  BY <1>2, Invariant, PTL DEF Spec, LeasedWorkerKept
===============================================================================
