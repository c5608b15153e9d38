----------------------------- MODULE ScopeLock -----------------------------
(***************************************************************************)
(* The lock that makes one scheduler engine of a scope the active one:     *)
(* SchedulerScopeLock (src/core/scheduler/scope-lock.ts), called by        *)
(* SchedulerEngine.load, by its own heartbeat timer and by dispose         *)
(* (engine.ts).  Only the engine that holds it schedules timers, so two    *)
(* that hold it dispatch every task twice.                                 *)
(*                                                                         *)
(* The calls of one process do not interleave; those of several do, at     *)
(* every system call.  Time is in the lock file: its heartbeat is fresh or *)
(* older than STALE_MS.  A process is its pid.                             *)
(***************************************************************************)
EXTENDS Naturals, FiniteSets, ScopePromise

CONSTANTS
  Procs,        \* the processes, by pid
  Absent,       \* no lock file
  Empty,        \* a file that is not (yet) a lock: created or truncated
  MaxLoads,     \* bound: calls of load() and reload()
  MaxCrashes,   \* bound: processes that die without dispose()
  MaxLapses,    \* bound: live holders that miss their heartbeats for STALE_MS
  MaxOverlaps   \* bound: calls that begin while another process is inside one

\* What is no lock is no process and no lock; the bounds are numbers.
Distinct ==
  /\ Absent \notin Procs /\ Empty \notin Procs /\ Absent # Empty
  /\ \A p \in Procs, fresh \in BOOLEAN : [pid |-> p, fresh |-> fresh] \notin {Absent, Empty}
  /\ MaxLoads \in Nat /\ MaxCrashes \in Nat /\ MaxLapses \in Nat /\ MaxOverlaps \in Nat

ASSUME ScopeLockAssumption == Distinct

MaxTries == 3

Locks == [pid : Procs, fresh : BOOLEAN]

\* Where a process is: in tryAcquire, heartbeat, release, or in none of them.
Places == {"outside", "create", "write", "read", "exists", "judge", "rename",
           "beat", "rewrite", "unlink"}

VARIABLES
  lock,      \* the lock file: Absent, Empty, or whose it is and how fresh
  opened,    \* processes whose descriptor is that of the linked file
  alive,
  place,
  seen,      \* the lock that a tryAcquire under way has read
  tries,     \* attempts of the tryAcquire under way, or 0
  loads, crashes

vars == <<lock, opened, alive, place, seen, tries, held, loads, crashes, lapses, overlaps>>
bounds == <<loads, crashes, lapses, overlaps>>

Inside == {p \in Procs : place[p] # "outside"}

At(p, here) == p \in alive /\ place[p] = here
GoTo(p, there) == place' = [place EXCEPT ![p] = there]

\* A call begins.  Heartbeats are 30 s apart and take less than a millisecond.
Begin(p) ==
  /\ At(p, "outside")
  /\ Inside # {} => overlaps < MaxOverlaps
  /\ overlaps' = IF Inside = {} THEN overlaps ELSE overlaps + 1
-----------------------------------------------------------------------------
(* tryAcquire, as load() and reload() call it *)

Load(p) ==
  /\ Begin(p) /\ ~held[p] /\ loads < MaxLoads
  /\ loads' = loads + 1
  /\ tries' = [tries EXCEPT ![p] = 1]
  /\ GoTo(p, "create")
  /\ UNCHANGED <<lock, opened, alive, seen, held, crashes, lapses>>

\* writeFileSync with "wx" opens, and then writes to what it opened.
Create(p) ==
  /\ At(p, "create")
  /\ IF lock = Absent
     THEN lock' = Empty /\ opened' = {p} /\ GoTo(p, "write")
     ELSE UNCHANGED <<lock, opened>> /\ GoTo(p, "read")
  /\ UNCHANGED <<alive, seen, tries, held, bounds>>

\* The write goes to the file that was opened, linked or renamed away since.
Written(p) ==
  /\ lock' = IF p \in opened THEN [pid |-> p, fresh |-> TRUE] ELSE lock
  /\ opened' = opened \ {p}

Write(p) ==
  /\ At(p, "write")
  /\ Written(p)
  /\ held' = [held EXCEPT ![p] = TRUE]
  /\ tries' = [tries EXCEPT ![p] = 0]
  /\ GoTo(p, "outside")
  /\ UNCHANGED <<alive, seen, bounds>>

\* readLock: a file that is gone or does not parse is no lock.
Read(p) ==
  /\ At(p, "read")
  /\ IF lock \in Locks
     THEN seen' = [seen EXCEPT ![p] = lock] /\ GoTo(p, "judge")
     ELSE UNCHANGED seen /\ GoTo(p, "exists")
  /\ UNCHANGED <<lock, opened, alive, tries, held, bounds>>

\* The loop goes round three times; then another process keeps the lock.
Again(p) ==
  IF tries[p] < MaxTries
  THEN tries' = [tries EXCEPT ![p] = @ + 1] /\ GoTo(p, "create")
  ELSE tries' = [tries EXCEPT ![p] = 0] /\ GoTo(p, "outside")

\* No lock: is there a file at all, by now?
Exists(p) ==
  /\ At(p, "exists")
  /\ IF lock = Absent THEN Again(p) ELSE GoTo(p, "rename") /\ UNCHANGED tries
  /\ UNCHANGED <<lock, opened, alive, seen, held, bounds>>

\* Mutant: the age of the heartbeat is compared the wrong way round.
OwnedWhenStale(p) == seen[p].pid # p /\ ~seen[p].fresh /\ seen[p].pid \in alive

OwnedByOther(p) == seen[p].pid # p /\ seen[p].fresh /\ seen[p].pid \in alive

Judge(p) ==
  /\ At(p, "judge")
  /\ seen' = [seen EXCEPT ![p] = Absent]
  /\ IF OwnedByOther(p)
     THEN tries' = [tries EXCEPT ![p] = 0] /\ GoTo(p, "outside")
     ELSE UNCHANGED tries /\ GoTo(p, "rename")
  /\ UNCHANGED <<lock, opened, alive, held, bounds>>

\* The rename takes whatever file has the name by now; the tomb is private.
Rename(p) ==
  /\ At(p, "rename")
  /\ lock' = Absent /\ opened' = {}
  /\ Again(p)
  /\ UNCHANGED <<alive, seen, held, bounds>>
-----------------------------------------------------------------------------
(* heartbeat, release and the end of a process *)

\* Mutant: the heartbeat does not look whose lock it refreshes.
AnyLock(p) == lock # Absent

IsOwn(p) == lock \in Locks /\ lock.pid = p

\* A lock that was taken over, deleted or half written demotes the engine.
Beat(p) ==
  /\ Begin(p) /\ held[p]
  /\ IF IsOwn(p)
     THEN GoTo(p, "beat") /\ UNCHANGED held
     ELSE held' = [held EXCEPT ![p] = FALSE] /\ UNCHANGED place
  /\ UNCHANGED <<lock, opened, alive, seen, tries, loads, crashes, lapses>>

\* The refresh is not exclusive: it truncates or creates what has the name.
Truncate(p) ==
  /\ At(p, "beat")
  /\ lock' = Empty /\ opened' = opened \cup {p}
  /\ GoTo(p, "rewrite")
  /\ UNCHANGED <<alive, seen, tries, held, bounds>>

Rewrite(p) ==
  /\ At(p, "rewrite")
  /\ Written(p)
  /\ GoTo(p, "outside")
  /\ UNCHANGED <<alive, seen, tries, held, bounds>>

\* dispose() and the exit that follows: an active engine reads the lock ...
Dispose(p) ==
  /\ Begin(p)
  /\ held' = [held EXCEPT ![p] = FALSE]
  /\ IF held[p] /\ IsOwn(p)
     THEN GoTo(p, "unlink") /\ UNCHANGED alive
     ELSE alive' = alive \ {p} /\ UNCHANGED place
  /\ UNCHANGED <<lock, opened, seen, tries, loads, crashes, lapses>>

\* ... and removes the file, whose ever it is by then.
Unlink(p) ==
  /\ At(p, "unlink")
  /\ lock' = Absent /\ opened' = {}
  /\ alive' = alive \ {p} /\ GoTo(p, "outside")
  /\ UNCHANGED <<seen, tries, held, bounds>>

Crash(p) ==
  /\ p \in alive /\ crashes < MaxCrashes
  /\ crashes' = crashes + 1
  /\ alive' = alive \ {p} /\ opened' = opened \ {p}
  /\ held' = [held EXCEPT ![p] = FALSE]
  /\ seen' = [seen EXCEPT ![p] = Absent] /\ tries' = [tries EXCEPT ![p] = 0]
  /\ GoTo(p, "outside")
  /\ UNCHANGED <<lock, loads, lapses, overlaps>>

\* The system gives the pid to a new process.
Reuse(p) ==
  /\ p \notin alive
  /\ alive' = alive \cup {p}
  /\ UNCHANGED <<lock, opened, place, seen, tries, held, bounds>>

\* STALE_MS go by without a heartbeat.  Of an active engine, only while its
\* process is suspended.
Lapse ==
  /\ lock \in Locks /\ lock.fresh
  /\ held[lock.pid] => lapses < MaxLapses
  /\ lapses' = IF held[lock.pid] THEN lapses + 1 ELSE lapses
  /\ lock' = [lock EXCEPT !.fresh = FALSE]
  /\ UNCHANGED <<opened, alive, place, seen, tries, held, loads, crashes, overlaps>>
-----------------------------------------------------------------------------
Init ==
  /\ lock = Absent /\ opened = {} /\ alive = Procs
  /\ place = [p \in Procs |-> "outside"]
  /\ seen = [p \in Procs |-> Absent]
  /\ tries = [p \in Procs |-> 0]
  /\ held = [p \in Procs |-> FALSE]
  /\ loads = 0 /\ crashes = 0 /\ lapses = 0 /\ overlaps = 0

\* A call that has begun goes on.
Goes(p) ==
  \/ Create(p) \/ Write(p) \/ Read(p) \/ Exists(p) \/ Judge(p) \/ Rename(p)
  \/ Truncate(p) \/ Rewrite(p) \/ Unlink(p)

Next ==
  \/ Lapse
  \/ \E p \in Procs :
       Load(p) \/ Beat(p) \/ Dispose(p) \/ Goes(p) \/ Crash(p) \/ Reuse(p)

Spec == Init /\ [][Next]_vars

\* A process that runs finishes its call, and its heartbeat timer fires however
\* often the others are inside a call.
Fairness == \A p \in Procs : WF_vars(Goes(p)) /\ SF_vars(Beat(p))

FairSpec == Spec /\ Fairness
-----------------------------------------------------------------------------
(* Properties *)

TypeOK ==
  /\ lock \in Locks \cup {Absent, Empty}
  /\ opened \subseteq Procs /\ alive \subseteq Procs
  /\ place \in [Procs -> Places]
  /\ seen \in [Procs -> Locks \cup {Absent}]
  /\ tries \in [Procs -> 0 .. MaxTries]
  /\ held \in [Procs -> BOOLEAN]
  /\ loads \in Nat /\ crashes \in Nat /\ lapses \in Nat /\ overlaps \in Nat
=============================================================================
