------------------------------ MODULE LocalWorker ------------------------------
(***************************************************************************)
(* LocalWorkerManager (cutlery_remote/local_worker.py) for one target: the *)
(* leases that requests hold on a worker process, the process the manager  *)
(* starts when nothing listens, and the timers that stop it when idle.     *)
(*                                                                         *)
(* Requests, timers and stop_all run in threads.  Everything they do is    *)
(* under the manager's lock, so each is one step, but acquire() starts a   *)
(* process and waits for it with the lock held.                            *)
(***************************************************************************)
EXTENDS Naturals, FiniteSets

CONSTANTS
  Clients,   \* threads that lease the worker, again and again
  Procs,     \* process identities; those of dead processes are used again.  Bound:
             \* nothing is started while all of them are alive
  NoClient,  \* the lock is free
  NoProc,    \* the manager owns no process
  MaxStale   \* bound: timers that were dropped after they had expired

ASSUME WorkerAssumption ==
  /\ NoClient \notin Clients
  /\ NoProc \notin Procs
  /\ MaxStale \in Nat

VARIABLES
  at,        \* what each client does
  lock,      \* the client that waits for a start, holding the lock
  leases,    \* active_leases
  process,   \* state.process
  procs,     \* what became of each process the manager started
  external,  \* whether a worker that somebody else started listens
  timer,     \* state.shutdown_timer: "expired" waits for the lock
  stale,     \* expired timers that are no longer state.shutdown_timer
  missed     \* for the properties only: live processes an acquire's probe missed

vars == <<at, lock, leases, process, procs, external, timer, stale, missed>>

TypeOK ==
  /\ at \in [Clients -> {"idle", "starting", "using"}]
  /\ lock \in Clients \cup {NoClient}
  /\ leases \in Nat
  /\ process \in Procs \cup {NoProc}
  /\ procs \in [Procs -> {"booting", "listening", "closing", "wedged", "dead"}]
  /\ external \in BOOLEAN
  /\ timer \in {"none", "pending", "expired"}
  /\ stale \in 0..MaxStale
  /\ missed \subseteq Procs

Init ==
  /\ at = [c \in Clients |-> "idle"]
  /\ lock = NoClient
  /\ leases = 0
  /\ process = NoProc
  /\ procs = [p \in Procs |-> "dead"]
  /\ external \in BOOLEAN
  /\ timer = "none"
  /\ stale = 0
  /\ missed = {}

Listening == external \/ \E p \in Procs : procs[p] = "listening"
Alive(p) == p \in Procs /\ procs[p] # "dead"
Users == {c \in Clients : at[c] = "using"}

LockFree == lock = NoClient

-------------------------------------------------------------------------------
(* acquire().                                                                 *)

\* Timer.cancel() stops a timer that has not expired; an expired one still waits
\* for the lock, unknown to the manager.
CancelTimer ==
  /\ timer' = "none"
  /\ stale' = IF timer = "expired" THEN stale + 1 ELSE stale

\* state.process after a process that has ended was dropped.
Reaped == IF Alive(process) THEN process ELSE NoProc

\* The probe found a listener: the lease is given at once.
AcquireListening(c) ==
  /\ at[c] = "idle" /\ LockFree /\ Listening
  /\ CancelTimer
  /\ process' = Reaped
  /\ leases' = leases + 1
  /\ at' = [at EXCEPT ![c] = "using"]
  /\ UNCHANGED <<lock, procs, external, missed>>

\* The probe found nobody: the manager's process, when it is alive, was missed.
Missed == IF Alive(process) THEN missed \cup {process} ELSE missed

\* Slip: the lease is counted before the worker is there.
AcquireStarts_Counts(c) ==
  /\ at[c] = "idle" /\ LockFree
  /\ CancelTimer
  /\ \E p \in {q \in Procs : ~Alive(q)} :
       /\ process' = p
       /\ procs' = [procs EXCEPT ![p] = "booting"]
       /\ missed' = Missed \ {p}
  /\ leases' = leases + 1
  /\ lock' = c
  /\ at' = [at EXCEPT ![c] = "starting"]
  /\ UNCHANGED external

\* The probe found nobody, or a listener did not answer it within a quarter of a
\* second: a process is started, and the lock kept until somebody listens.  The
\* process that was there, when it is alive, is neither stopped nor remembered.
AcquireStarts(c) ==
  /\ at[c] = "idle" /\ LockFree
  /\ CancelTimer
  /\ \E p \in {q \in Procs : ~Alive(q)} :
       /\ process' = p
       /\ procs' = [procs EXCEPT ![p] = "booting"]
       /\ missed' = Missed \ {p}
  /\ lock' = c
  /\ at' = [at EXCEPT ![c] = "starting"]
  /\ UNCHANGED <<leases, external>>

\* The probe found nobody, and _start raises before it has a process (no python,
\* no main.py, no fork): the one that was there stays, without its timer.
AcquireRefused(c) ==
  /\ at[c] = "idle" /\ LockFree
  /\ CancelTimer
  /\ process' = Reaped
  /\ missed' = Missed
  /\ UNCHANGED <<at, lock, leases, procs, external>>

\* _start returns: somebody listens.
StartReady(c) ==
  /\ at[c] = "starting" /\ Listening
  /\ leases' = leases + 1
  /\ lock' = NoClient
  /\ at' = [at EXCEPT ![c] = "using"]
  /\ UNCHANGED <<process, procs, external, timer, stale, missed>>

\* The process ended before it listened: acquire() raises.
StartExits(c) ==
  /\ at[c] = "starting" /\ ~Alive(process)
  /\ process' = NoProc
  /\ lock' = NoClient
  /\ at' = [at EXCEPT ![c] = "idle"]
  /\ UNCHANGED <<leases, procs, external, timer, stale, missed>>

\* Slip: the process is forgotten, not ended.
EndProcess_Forgets ==
  /\ process' = NoProc
  /\ procs' = procs

\* The process is terminated, then killed, and forgotten; one that survives that
\* (the code waits some seconds and logs it) is forgotten as well.
EndProcess ==
  /\ process' = NoProc
  /\ procs' = [p \in Procs |-> IF p = process /\ procs[p] # "wedged" THEN "dead" ELSE procs[p]]

\* _stop_state: the timer is cancelled, the process ended.
StopState == CancelTimer /\ EndProcess

\* Slip: a start that is given up does not give the lock back.
StartTimesOut_KeepsLock(c) ==
  /\ at[c] = "starting" /\ Alive(process)
  /\ StopState
  /\ at' = [at EXCEPT ![c] = "idle"]
  /\ UNCHANGED <<lock, leases, external, missed>>

\* It did not listen in time: it is stopped and acquire() raises.
StartTimesOut(c) ==
  /\ at[c] = "starting" /\ Alive(process)
  /\ StopState
  /\ lock' = NoClient
  /\ at' = [at EXCEPT ![c] = "idle"]
  /\ UNCHANGED <<leases, external, missed>>

-------------------------------------------------------------------------------
(* release(), the timers, and stop_all().                                     *)

\* The last lease of an owned worker starts its quiet period.
Release(c) ==
  /\ at[c] = "using" /\ LockFree
  /\ leases' = IF leases = 0 THEN 0 ELSE leases - 1
  /\ timer' = IF leases' = 0 /\ process # NoProc THEN "pending" ELSE timer
  /\ at' = [at EXCEPT ![c] = "idle"]
  /\ UNCHANGED <<lock, process, procs, external, stale, missed>>

\* The quiet period is over: the timer's thread asks for the lock.
TimerExpires ==
  /\ timer = "pending" /\ stale < MaxStale
  /\ timer' = "expired"
  /\ UNCHANGED <<at, lock, leases, process, procs, external, stale, missed>>

\* Slip: an expired timer does not look whether the worker was leased again.
NoLeases_Unchecked == TRUE

NoLeases == leases = 0

\* _stop_if_idle, run by the manager's own timer.
TimerStops ==
  /\ timer = "expired" /\ LockFree /\ NoLeases
  /\ timer' = "none"
  /\ EndProcess
  /\ UNCHANGED <<at, lock, leases, external, stale, missed>>

\* _stop_if_idle, run by a timer that was dropped after it had expired: it stops
\* the worker as well, and cancels the timer that replaced it.
StaleTimerStops ==
  /\ stale > 0 /\ LockFree /\ NoLeases
  /\ timer' = "none"
  /\ stale' = IF timer = "expired" THEN stale ELSE stale - 1
  /\ EndProcess
  /\ UNCHANGED <<at, lock, leases, external, missed>>

\* ... or finds the worker leased, and ends.
StaleTimerEnds ==
  /\ stale > 0 /\ LockFree /\ ~NoLeases
  /\ stale' = stale - 1
  /\ UNCHANGED <<at, lock, leases, process, procs, external, timer, missed>>

\* stop_all(), by an unload request or at exit; leases are left as they are.
StopAll ==
  /\ LockFree
  /\ StopState
  /\ UNCHANGED <<at, lock, leases, external, missed>>

-------------------------------------------------------------------------------
(* The processes.  One that closed its socket exits or hangs, and a wedged one *)
(* (in the kernel, or out of taskkill's reach) cannot be killed either.  One    *)
(* listener has the port: the others wait for it, or exit.                      *)

ProcListens(p) ==
  /\ procs[p] = "booting" /\ ~Listening
  /\ procs' = [procs EXCEPT ![p] = "listening"]
  /\ UNCHANGED <<at, lock, leases, process, external, timer, stale, missed>>

ProcCloses(p) ==
  /\ procs[p] = "listening"
  /\ procs' = [procs EXCEPT ![p] = "closing"]
  /\ UNCHANGED <<at, lock, leases, process, external, timer, stale, missed>>

ProcWedges(p) ==
  /\ procs[p] \in {"booting", "listening", "closing"}
  /\ procs' = [procs EXCEPT ![p] = "wedged"]
  /\ UNCHANGED <<at, lock, leases, process, external, timer, stale, missed>>

ProcDies(p) ==
  /\ Alive(p)
  /\ procs' = [procs EXCEPT ![p] = "dead"]
  /\ UNCHANGED <<at, lock, leases, process, external, timer, stale, missed>>

ExternalChanges ==
  /\ external \/ ~Listening
  /\ external' = ~external
  /\ UNCHANGED <<at, lock, leases, process, procs, timer, stale, missed>>

-------------------------------------------------------------------------------

TimerStep == TimerExpires \/ TimerStops \/ StaleTimerStops \/ StaleTimerEnds
StartEnds(c) == StartReady(c) \/ StartExits(c) \/ StartTimesOut(c)

Next ==
  \/ \E c \in Clients : \/ AcquireListening(c) \/ AcquireStarts(c) \/ AcquireRefused(c)
                        \/ StartEnds(c) \/ Release(c)
  \/ TimerStep
  \/ StopAll
  \/ \E p \in Procs : ProcListens(p) \/ ProcCloses(p) \/ ProcWedges(p) \/ ProcDies(p)
  \/ ExternalChanges

(* Timers expire and their threads run; the waiting loop of a start is        *)
(* bounded by its deadline.  Clients need not come nor release.               *)
Fairness == WF_vars(TimerStep) /\ \A c \in Clients : WF_vars(StartEnds(c))

Spec == Init /\ [][Next]_vars
FairSpec == Spec /\ Fairness

-------------------------------------------------------------------------------
(* Properties.                                                                *)

\* A process the manager started and that is alive is the one it knows, so that a
\* timer or stop_all can still stop it: failed starts, idle stops and late timers
\* lose none, and nothing else starts a second worker beside it.  Two kinds are lost:
\* one that a stop could not kill, and one that was alive when the probe of an
\* acquire found nobody, which the new process replaces.
NoOrphan == \A p \in Procs : Alive(p) => process = p \/ p \in missed \/ procs[p] = "wedged"

\* An owned worker that nobody leases is stopped, unless it is leased again: no
\* acquire, failed start or late release leaves it running for good with no timer
\* to watch it ("Quiet period before an owned local worker is stopped").  The
\* exception is again one that a probe missed: when the start that follows raises,
\* its timer is gone.
IdleOwned == LockFree /\ Users = {} /\ Alive(process) /\ process \notin missed
IdleWorkerStops == IdleOwned ~> ~IdleOwned

\* A worker is not stopped under a request that leases it, except by stop_all:
\* a timer that expired while the request waited for the lock finds the lease.
LeasedWorkerKept ==
  [][Users # {} /\ lock = NoClient /\ Alive(process) /\ process' = NoProc => StopAll]_vars

\* A start that fails or hangs gives the lock back, so that the requests for
\* every other target can go on.
StartsEnd == \A c \in Clients : at[c] = "starting" ~> lock # c

===============================================================================
