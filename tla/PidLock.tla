------------------------------ MODULE PidLock ------------------------------
(***************************************************************************)
(* The lock file of a workspace, or of the main agent's directory:         *)
(* acquirePidLock and the release of its handles                           *)
(* (src/core/main-agent.ts), taken by setupEventStore                      *)
(* (src/core/facade/store-setup.ts) before it repairs the event log.       *)
(*                                                                         *)
(* A process calls them synchronously, so its own calls do not interleave; *)
(* those of several processes interleave at every system call.             *)
(* writeFileSync is two of them: open, which creates or truncates the file *)
(* and so leaves it empty, and write, which goes to the file that was      *)
(* opened, linked or not.                                                  *)
(*                                                                         *)
(* A process is its pid.  Pids have one length, so that one write covers   *)
(* another.                                                                *)
(***************************************************************************)
EXTENDS Naturals, FiniteSets

CONSTANTS
  Procs,        \* the processes, by pid
  Absent,       \* no lock file
  Empty,        \* a lock file nothing has been written to
  MaxAttempts,  \* bound: calls of acquirePidLock
  MaxCrashes    \* bound: processes that die without running release()

ASSUME LockAssumption ==
  /\ Absent \notin Procs /\ Empty \notin Procs /\ Absent # Empty
  /\ MaxAttempts \in Nat /\ MaxCrashes \in Nat

\* Where a process is: outside, in acquirePidLock, or in release().
Acquiring == {"created", "check", "read", "probe", "reclaim", "truncated"}
Releasing == {"release", "remove"}
Places == {"outside"} \cup Acquiring \cup Releasing

\* What the sequential argument for the lock leaves out.
Disturbances ==
  {"overlap",   \* a call began while another process was inside one
   "reentry",   \* a process acquired a lock it already held
   "reuse"}     \* a process started under the pid of a dead one

VARIABLES
  file,       \* the lock file's content
  opened,     \* processes whose descriptor is that of the linked file
  alive,
  place,
  seen,       \* ownerPid, as last read
  handles,    \* handles a process has and has not released
  answer,     \* what its last attempt returned: "none", "lock" or "null"
  happened,   \* ghost: disturbances so far
  attempts, crashes

vars == <<file, opened, alive, place, seen, handles, answer, happened, attempts, crashes>>
ghosts == <<happened, attempts, crashes>>

Inside == {p \in Procs : place[p] # "outside"}
Holders == {p \in Procs : handles[p] > 0}

At(p, here) == p \in alive /\ place[p] = here
GoTo(p, there) == place' = [place EXCEPT ![p] = there]

Note(when, kind) == IF when THEN {kind} ELSE {}
-----------------------------------------------------------------------------
(* acquirePidLock *)

\* The open of the exclusive create: EEXIST falls through to the reclaim path.
Create(p) ==
  /\ At(p, "outside") /\ attempts < MaxAttempts
  /\ attempts' = attempts + 1
  /\ happened' = happened \cup Note(Inside # {}, "overlap")
                          \cup Note(handles[p] > 0, "reentry")
  /\ answer' = [answer EXCEPT ![p] = "none"]
  /\ IF file = Absent
     THEN file' = Empty /\ opened' = {p} /\ GoTo(p, "created")
     ELSE UNCHANGED <<file, opened>> /\ GoTo(p, "check")
  /\ UNCHANGED <<alive, seen, handles, crashes>>

\* The write goes to the file that was opened, linked or not.
Written(p) == file' = IF p \in opened THEN p ELSE file

WriteCreated(p) ==
  /\ At(p, "created")
  /\ Written(p) /\ opened' = opened \ {p}
  /\ GoTo(p, "check")
  /\ UNCHANGED <<alive, seen, handles, answer, ghosts>>

Granted(p) ==
  /\ handles' = [handles EXCEPT ![p] = @ + 1]
  /\ answer' = [answer EXCEPT ![p] = "lock"]
  /\ GoTo(p, "outside")

\* existsSync, which the creator passes through as well.
CheckExists(p) ==
  /\ At(p, "check")
  /\ IF file = Absent
     THEN Granted(p)
     ELSE GoTo(p, "read") /\ UNCHANGED <<handles, answer>>
  /\ UNCHANGED <<file, opened, alive, seen, ghosts>>

\* A file without a pid, and a pid of our own, need no probe.
OwnerIsOther(p) == file \in Procs \ {p}

ReadOwner(p) ==
  /\ At(p, "read")
  /\ seen' = [seen EXCEPT ![p] = file]
  /\ GoTo(p, IF OwnerIsOther(p) THEN "probe" ELSE "reclaim")
  /\ UNCHANGED <<file, opened, alive, handles, answer, ghosts>>

\* Mutants: every recorded owner is taken for alive, or for dead (as from
\* another pid namespace).
AliveIfNamed(q) == q \in Procs
NeverAlive(q) == FALSE

IsProcessAlive(q) == q \in alive

Probe(p) ==
  /\ At(p, "probe")
  /\ IF IsProcessAlive(seen[p])
     THEN GoTo(p, "outside") /\ answer' = [answer EXCEPT ![p] = "null"]
     ELSE GoTo(p, "reclaim") /\ UNCHANGED answer
  /\ UNCHANGED <<file, opened, alive, seen, handles, ghosts>>

\* The overwrite: the open truncates the file, or creates it.
Truncate(p) ==
  /\ At(p, "reclaim")
  /\ file' = Empty /\ opened' = opened \cup {p}
  /\ GoTo(p, "truncated")
  /\ UNCHANGED <<alive, seen, handles, answer, ghosts>>

WriteReclaimed(p) ==
  /\ At(p, "truncated")
  /\ Written(p) /\ opened' = opened \ {p}
  /\ Granted(p)
  /\ UNCHANGED <<alive, seen, ghosts>>
-----------------------------------------------------------------------------
(* release() and the end of a process *)

StartRelease(p) ==
  /\ At(p, "outside") /\ handles[p] > 0
  /\ handles' = [handles EXCEPT ![p] = @ - 1]
  /\ happened' = happened \cup Note(Inside # {}, "overlap")
  /\ GoTo(p, "release")
  /\ UNCHANGED <<file, opened, alive, seen, answer, attempts, crashes>>

IsOwn(p) == file = p

ReadBack(p) ==
  /\ At(p, "release")
  /\ GoTo(p, IF IsOwn(p) THEN "remove" ELSE "outside")
  /\ UNCHANGED <<file, opened, alive, seen, handles, answer, ghosts>>

Remove(p) ==
  /\ At(p, "remove")
  /\ file' = Absent /\ opened' = {}
  /\ GoTo(p, "outside")
  /\ UNCHANGED <<alive, seen, handles, answer, ghosts>>

\* Killed without a handler: whatever it wrote stays.
Crash(p) ==
  /\ p \in alive /\ crashes < MaxCrashes
  /\ crashes' = crashes + 1
  /\ alive' = alive \ {p}
  /\ opened' = opened \ {p}
  /\ GoTo(p, "outside")
  /\ handles' = [handles EXCEPT ![p] = 0]
  /\ answer' = [answer EXCEPT ![p] = "none"]
  /\ UNCHANGED <<file, seen, happened, attempts>>

\* The system gives the pid to a new process.
Reuse(p) ==
  /\ p \notin alive
  /\ alive' = alive \cup {p}
  /\ happened' = happened \cup {"reuse"}
  /\ UNCHANGED <<file, opened, place, seen, handles, answer, attempts, crashes>>
-----------------------------------------------------------------------------
Init ==
  /\ file = Absent /\ opened = {} /\ alive = Procs
  /\ place = [p \in Procs |-> "outside"]
  /\ seen = [p \in Procs |-> Absent]
  /\ handles = [p \in Procs |-> 0]
  /\ answer = [p \in Procs |-> "none"]
  /\ happened = {} /\ attempts = 0 /\ crashes = 0

Acquire(p) ==
  \/ Create(p) \/ WriteCreated(p) \/ CheckExists(p) \/ ReadOwner(p) \/ Probe(p)
  \/ Truncate(p) \/ WriteReclaimed(p)

Leave(p) == StartRelease(p) \/ ReadBack(p) \/ Remove(p) \/ Crash(p) \/ Reuse(p)

Next == \E p \in Procs : Acquire(p) \/ Leave(p)

Spec == Init /\ [][Next]_vars
-----------------------------------------------------------------------------
(* Properties *)

TypeOK ==
  /\ file \in Procs \cup {Absent, Empty}
  /\ opened \subseteq Procs /\ alive \subseteq Procs
  /\ place \in [Procs -> Places]
  /\ seen \in [Procs -> Procs \cup {Absent, Empty}]
  /\ handles \in [Procs -> Nat]
  /\ answer \in [Procs -> {"none", "lock", "null"}]
  /\ happened \subseteq Disturbances
  /\ attempts \in Nat /\ crashes \in Nat

\* One process at a time drives a workspace (acquireWorkspaceLock).
MutualExclusion == \A p, q \in Holders : p = q

\* It does as long as no two calls overlap and no process acquires twice,
\* crashes inside a call and reused pids included.
ExclusiveInSequence == happened \subseteq {"reuse"} => MutualExclusion

\* The file names the process that holds the lock: others are refused, and
\* its release finds a file to remove.
HolderRecorded ==
  happened = {} => \A p \in Holders : file = p

\* A lock nobody holds is never refused: the file of a dead process, complete
\* or cut short, is reclaimed (isProcessAlive and the reclaim path).
RefusedByHolder ==
  [][happened' = {} =>
       \A p \in Procs : answer[p] # "null" /\ answer'[p] = "null"
                          => Holders \ {p} # {}]_vars

\* Processes that start together are not all refused, however their calls
\* interleave, as long as none of them releases or dies.
SomebodyWins ==
  crashes = 0 /\ Inside = {} /\ (\E p \in Procs : answer[p] = "null")
    => \E p \in Procs : answer[p] = "lock"
=============================================================================
