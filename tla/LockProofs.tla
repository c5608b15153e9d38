--------------------------- MODULE LockProofs ---------------------------
(***************************************************************************)
(* Proofs about the two lock files, for any number of processes, attempts  *)
(* and crashes.                                                            *)
(*                                                                         *)
(* PidLock: as long as no two calls overlap and nobody acquires twice, one *)
(* process at most holds the lock, the file names it, and only a holder    *)
(* makes another attempt fail.                                             *)
(*                                                                         *)
(* ScopeLock: in sequence, one engine of a scope is active.                *)
(***************************************************************************)
EXTENDS PidLock, ScopePromise, TLAPS

\* A process inside a call is alone there.
Alone ==
  /\ \A p, q \in Procs : place[p] # "outside" /\ place[q] # "outside" => p = q
  /\ \A p \in Procs : place[p] # "outside" => p \in alive /\ handles[p] = 0

\* What the call of p has found or written is still what the file holds.
UpToDate ==
  \A p \in Procs :
    /\ place[p] \in {"check", "read"} => file # Absent
    /\ place[p] = "probe" => seen[p] = file /\ file \in Procs \ {p}
    /\ place[p] \in {"created", "truncated"} => p \in opened

\* The file names the holder, and whoever is inside a call is not past the
\* probe that will refuse it.
Guarded ==
  \A p \in Procs : handles[p] > 0 =>
    /\ handles[p] = 1 /\ p \in alive /\ file = p
    /\ \A q \in Procs \ {p} : place[q] \in {"outside", "check", "read", "probe"}

\* A live process named by the file holds the lock, unless it is in a call.
NamedHolds ==
  happened = {} =>
    \A p \in alive : file = p /\ place[p] = "outside" => handles[p] > 0

SequenceInv ==
  happened \subseteq {"reuse"} => Alone /\ UpToDate /\ Guarded /\ NamedHolds
-----------------------------------------------------------------------------
(* Types *)

\* Every step keeps the types.
LEMMA TypeStep == TypeOK /\ [Next]_vars => TypeOK'
<1> SUFFICES ASSUME TypeOK, [Next]_vars PROVE TypeOK'
  OBVIOUS
<1> USE DEF TypeOK, Places, Acquiring, Releasing, Disturbances
<1>1. ASSUME NEW p \in Procs, Create(p) PROVE TypeOK'
  BY <1>1 DEF Create, At, GoTo, Note
<1>2. ASSUME NEW p \in Procs, WriteCreated(p) PROVE TypeOK'
  BY <1>2 DEF WriteCreated, At, GoTo, Written, ghosts
<1>3. ASSUME NEW p \in Procs, CheckExists(p) PROVE TypeOK'
  BY <1>3 DEF CheckExists, At, GoTo, Granted, ghosts
<1>4. ASSUME NEW p \in Procs, ReadOwner(p) PROVE TypeOK'
  BY <1>4 DEF ReadOwner, At, GoTo, OwnerIsOther, ghosts
<1>5. ASSUME NEW p \in Procs, Probe(p) PROVE TypeOK'
  BY <1>5 DEF Probe, At, GoTo, IsProcessAlive, ghosts
<1>6. ASSUME NEW p \in Procs, Truncate(p) PROVE TypeOK'
  BY <1>6 DEF Truncate, At, GoTo, ghosts
<1>7. ASSUME NEW p \in Procs, WriteReclaimed(p) PROVE TypeOK'
  BY <1>7 DEF WriteReclaimed, At, GoTo, Written, Granted, ghosts
<1>8. ASSUME NEW p \in Procs, StartRelease(p) PROVE TypeOK'
  BY <1>8 DEF StartRelease, At, GoTo, Note
<1>9. ASSUME NEW p \in Procs, ReadBack(p) PROVE TypeOK'
  BY <1>9 DEF ReadBack, At, GoTo, IsOwn, ghosts
<1>10. ASSUME NEW p \in Procs, Remove(p) PROVE TypeOK'
  BY <1>10 DEF Remove, At, GoTo, ghosts
<1>11. ASSUME NEW p \in Procs, Crash(p) PROVE TypeOK'
  BY <1>11 DEF Crash, GoTo
<1>12. ASSUME NEW p \in Procs, Reuse(p) PROVE TypeOK'
  BY <1>12 DEF Reuse
<1>13. ASSUME UNCHANGED vars PROVE TypeOK'
  BY <1>13 DEF vars
<1>14. QED
  BY <1>1, <1>2, <1>3, <1>4, <1>5, <1>6, <1>7, <1>8, <1>9, <1>10, <1>11, <1>12, <1>13 DEF Next,
     Acquire, Leave

\* Every variable of the model keeps its type: the handles of a process are
\* counted, and the file holds nothing but one whole pid.
THEOREM TypeCorrect == Spec => []TypeOK
<1>1. Init => TypeOK
  BY LockAssumption DEF Init, TypeOK, Places
<1>2. QED
  BY <1>1, TypeStep, PTL DEF Spec
-----------------------------------------------------------------------------
(* Calls in sequence *)

\* No lock file and nobody inside a call.
LEMMA SequenceInit == Init => SequenceInv
BY LockAssumption DEF Init, SequenceInv, Alone, UpToDate, Guarded, NamedHolds

\* One step per action; happened only grows, so a state whose successor is
\* undisturbed is undisturbed itself.
LEMMA SequenceStep == TypeOK /\ SequenceInv /\ [Next]_vars => SequenceInv'
<1> SUFFICES ASSUME TypeOK, SequenceInv, [Next]_vars, happened' \subseteq {"reuse"}
             PROVE  Alone' /\ UpToDate' /\ Guarded' /\ NamedHolds'
  BY DEF SequenceInv
<1>a. happened \subseteq happened'
  BY DEF Next, Acquire, Leave, Create, WriteCreated, CheckExists, ReadOwner, Probe, Truncate,
         WriteReclaimed, StartRelease, ReadBack, Remove, Crash, Reuse, ghosts, vars
<1>b. Alone /\ UpToDate /\ Guarded /\ NamedHolds
  BY <1>a DEF SequenceInv
<1>1. ASSUME NEW p \in Procs, Create(p) PROVE Alone' /\ UpToDate' /\ Guarded' /\ NamedHolds'
  <2>1. Alone'
    BY <1>a, <1>b, <1>1, LockAssumption
    DEF TypeOK, Places, Acquiring, Releasing, Alone, UpToDate, Guarded, NamedHolds, Create, At,
        GoTo, Note, Inside
  <2>2. UpToDate'
    BY <1>a, <1>b, <1>1, LockAssumption
    DEF TypeOK, Places, Acquiring, Releasing, Alone, UpToDate, Guarded, NamedHolds, Create, At,
        GoTo, Note, Inside
  <2>3. Guarded'
    BY <1>a, <1>b, <1>1, LockAssumption
    DEF TypeOK, Places, Acquiring, Releasing, Alone, UpToDate, Guarded, NamedHolds, Create, At,
        GoTo, Note, Inside
  <2>4. NamedHolds'
    BY <1>a, <1>b, <1>1, LockAssumption
    DEF TypeOK, Places, Acquiring, Releasing, Alone, UpToDate, Guarded, NamedHolds, Create, At,
        GoTo, Note, Inside
  <2> QED
    BY <2>1, <2>2, <2>3, <2>4
<1>2. ASSUME NEW p \in Procs, WriteCreated(p) PROVE Alone' /\ UpToDate' /\ Guarded' /\ NamedHolds'
  <2>1. Alone'
    BY <1>a, <1>b, <1>2, LockAssumption
    DEF TypeOK, Places, Acquiring, Releasing, Alone, UpToDate, Guarded, NamedHolds, WriteCreated,
        At, GoTo, Written, ghosts
  <2>2. UpToDate'
    BY <1>a, <1>b, <1>2, LockAssumption
    DEF TypeOK, Places, Acquiring, Releasing, Alone, UpToDate, Guarded, NamedHolds, WriteCreated,
        At, GoTo, Written, ghosts
  <2>3. Guarded'
    BY <1>a, <1>b, <1>2, LockAssumption
    DEF TypeOK, Places, Acquiring, Releasing, Alone, UpToDate, Guarded, NamedHolds, WriteCreated,
        At, GoTo, Written, ghosts
  <2>4. NamedHolds'
    BY <1>a, <1>b, <1>2, LockAssumption
    DEF TypeOK, Places, Acquiring, Releasing, Alone, UpToDate, Guarded, NamedHolds, WriteCreated,
        At, GoTo, Written, ghosts
  <2> QED
    BY <2>1, <2>2, <2>3, <2>4
<1>3. ASSUME NEW p \in Procs, CheckExists(p) PROVE Alone' /\ UpToDate' /\ Guarded' /\ NamedHolds'
  <2>1. Alone'
    BY <1>a, <1>b, <1>3, LockAssumption
    DEF TypeOK, Places, Acquiring, Releasing, Alone, UpToDate, Guarded, NamedHolds, CheckExists,
        At, GoTo, Granted, ghosts
  <2>2. UpToDate'
    BY <1>a, <1>b, <1>3, LockAssumption
    DEF TypeOK, Places, Acquiring, Releasing, Alone, UpToDate, Guarded, NamedHolds, CheckExists,
        At, GoTo, Granted, ghosts
  <2>3. Guarded'
    BY <1>a, <1>b, <1>3, LockAssumption
    DEF TypeOK, Places, Acquiring, Releasing, Alone, UpToDate, Guarded, NamedHolds, CheckExists,
        At, GoTo, Granted, ghosts
  <2>4. NamedHolds'
    BY <1>a, <1>b, <1>3, LockAssumption
    DEF TypeOK, Places, Acquiring, Releasing, Alone, UpToDate, Guarded, NamedHolds, CheckExists,
        At, GoTo, Granted, ghosts
  <2> QED
    BY <2>1, <2>2, <2>3, <2>4
<1>4. ASSUME NEW p \in Procs, ReadOwner(p) PROVE Alone' /\ UpToDate' /\ Guarded' /\ NamedHolds'
  <2>1. Alone'
    BY <1>a, <1>b, <1>4, LockAssumption
    DEF TypeOK, Places, Acquiring, Releasing, Alone, UpToDate, Guarded, NamedHolds, ReadOwner, At,
        GoTo, OwnerIsOther, ghosts
  <2>2. UpToDate'
    BY <1>a, <1>b, <1>4, LockAssumption
    DEF TypeOK, Places, Acquiring, Releasing, Alone, UpToDate, Guarded, NamedHolds, ReadOwner, At,
        GoTo, OwnerIsOther, ghosts
  <2>3. Guarded'
    BY <1>a, <1>b, <1>4, LockAssumption
    DEF TypeOK, Places, Acquiring, Releasing, Alone, UpToDate, Guarded, NamedHolds, ReadOwner, At,
        GoTo, OwnerIsOther, ghosts
  <2>4. NamedHolds'
    BY <1>a, <1>b, <1>4, LockAssumption
    DEF TypeOK, Places, Acquiring, Releasing, Alone, UpToDate, Guarded, NamedHolds, ReadOwner, At,
        GoTo, OwnerIsOther, ghosts
  <2> QED
    BY <2>1, <2>2, <2>3, <2>4
<1>5. ASSUME NEW p \in Procs, Probe(p) PROVE Alone' /\ UpToDate' /\ Guarded' /\ NamedHolds'
  <2>1. Alone'
    BY <1>a, <1>b, <1>5, LockAssumption
    DEF TypeOK, Places, Acquiring, Releasing, Alone, UpToDate, Guarded, NamedHolds, Probe, At,
        GoTo, IsProcessAlive, ghosts
  <2>2. UpToDate'
    BY <1>a, <1>b, <1>5, LockAssumption
    DEF TypeOK, Places, Acquiring, Releasing, Alone, UpToDate, Guarded, NamedHolds, Probe, At,
        GoTo, IsProcessAlive, ghosts
  <2>3. Guarded'
    BY <1>a, <1>b, <1>5, LockAssumption
    DEF TypeOK, Places, Acquiring, Releasing, Alone, UpToDate, Guarded, NamedHolds, Probe, At,
        GoTo, IsProcessAlive, ghosts
  <2>4. NamedHolds'
    BY <1>a, <1>b, <1>5, LockAssumption
    DEF TypeOK, Places, Acquiring, Releasing, Alone, UpToDate, Guarded, NamedHolds, Probe, At,
        GoTo, IsProcessAlive, ghosts
  <2> QED
    BY <2>1, <2>2, <2>3, <2>4
<1>6. ASSUME NEW p \in Procs, Truncate(p) PROVE Alone' /\ UpToDate' /\ Guarded' /\ NamedHolds'
  <2>1. Alone'
    BY <1>a, <1>b, <1>6, LockAssumption
    DEF TypeOK, Places, Acquiring, Releasing, Alone, UpToDate, Guarded, NamedHolds, Truncate, At,
        GoTo, ghosts
  <2>2. UpToDate'
    BY <1>a, <1>b, <1>6, LockAssumption
    DEF TypeOK, Places, Acquiring, Releasing, Alone, UpToDate, Guarded, NamedHolds, Truncate, At,
        GoTo, ghosts
  <2>3. Guarded'
    BY <1>a, <1>b, <1>6, LockAssumption
    DEF TypeOK, Places, Acquiring, Releasing, Alone, UpToDate, Guarded, NamedHolds, Truncate, At,
        GoTo, ghosts
  <2>4. NamedHolds'
    BY <1>a, <1>b, <1>6, LockAssumption
    DEF TypeOK, Places, Acquiring, Releasing, Alone, UpToDate, Guarded, NamedHolds, Truncate, At,
        GoTo, ghosts
  <2> QED
    BY <2>1, <2>2, <2>3, <2>4
<1>7. ASSUME NEW p \in Procs, WriteReclaimed(p) PROVE Alone' /\ UpToDate' /\ Guarded' /\ NamedHolds'
  <2>1. Alone'
    BY <1>a, <1>b, <1>7, LockAssumption
    DEF TypeOK, Places, Acquiring, Releasing, Alone, UpToDate, Guarded, NamedHolds,
        WriteReclaimed, At, GoTo, Written, Granted, ghosts
  <2>2. UpToDate'
    BY <1>a, <1>b, <1>7, LockAssumption
    DEF TypeOK, Places, Acquiring, Releasing, Alone, UpToDate, Guarded, NamedHolds,
        WriteReclaimed, At, GoTo, Written, Granted, ghosts
  <2>3. Guarded'
    BY <1>a, <1>b, <1>7, LockAssumption
    DEF TypeOK, Places, Acquiring, Releasing, Alone, UpToDate, Guarded, NamedHolds,
        WriteReclaimed, At, GoTo, Written, Granted, ghosts
  <2>4. NamedHolds'
    BY <1>a, <1>b, <1>7, LockAssumption
    DEF TypeOK, Places, Acquiring, Releasing, Alone, UpToDate, Guarded, NamedHolds,
        WriteReclaimed, At, GoTo, Written, Granted, ghosts
  <2> QED
    BY <2>1, <2>2, <2>3, <2>4
<1>8. ASSUME NEW p \in Procs, StartRelease(p) PROVE Alone' /\ UpToDate' /\ Guarded' /\ NamedHolds'
  <2>1. Alone'
    BY <1>a, <1>b, <1>8, LockAssumption
    DEF TypeOK, Places, Acquiring, Releasing, Alone, UpToDate, Guarded, NamedHolds, StartRelease,
        At, GoTo, Note, Inside
  <2>2. UpToDate'
    BY <1>a, <1>b, <1>8, LockAssumption
    DEF TypeOK, Places, Acquiring, Releasing, Alone, UpToDate, Guarded, NamedHolds, StartRelease,
        At, GoTo, Note, Inside
  <2>3. Guarded'
    BY <1>a, <1>b, <1>8, LockAssumption
    DEF TypeOK, Places, Acquiring, Releasing, Alone, UpToDate, Guarded, NamedHolds, StartRelease,
        At, GoTo, Note, Inside
  <2>4. NamedHolds'
    BY <1>a, <1>b, <1>8, LockAssumption
    DEF TypeOK, Places, Acquiring, Releasing, Alone, UpToDate, Guarded, NamedHolds, StartRelease,
        At, GoTo, Note, Inside
  <2> QED
    BY <2>1, <2>2, <2>3, <2>4
<1>9. ASSUME NEW p \in Procs, ReadBack(p) PROVE Alone' /\ UpToDate' /\ Guarded' /\ NamedHolds'
  <2>1. Alone'
    BY <1>a, <1>b, <1>9, LockAssumption
    DEF TypeOK, Places, Acquiring, Releasing, Alone, UpToDate, Guarded, NamedHolds, ReadBack, At,
        GoTo, IsOwn, ghosts
  <2>2. UpToDate'
    BY <1>a, <1>b, <1>9, LockAssumption
    DEF TypeOK, Places, Acquiring, Releasing, Alone, UpToDate, Guarded, NamedHolds, ReadBack, At,
        GoTo, IsOwn, ghosts
  <2>3. Guarded'
    BY <1>a, <1>b, <1>9, LockAssumption
    DEF TypeOK, Places, Acquiring, Releasing, Alone, UpToDate, Guarded, NamedHolds, ReadBack, At,
        GoTo, IsOwn, ghosts
  <2>4. NamedHolds'
    BY <1>a, <1>b, <1>9, LockAssumption
    DEF TypeOK, Places, Acquiring, Releasing, Alone, UpToDate, Guarded, NamedHolds, ReadBack, At,
        GoTo, IsOwn, ghosts
  <2> QED
    BY <2>1, <2>2, <2>3, <2>4
<1>10. ASSUME NEW p \in Procs, Remove(p) PROVE Alone' /\ UpToDate' /\ Guarded' /\ NamedHolds'
  <2>1. Alone'
    BY <1>a, <1>b, <1>10, LockAssumption
    DEF TypeOK, Places, Acquiring, Releasing, Alone, UpToDate, Guarded, NamedHolds, Remove, At,
        GoTo, ghosts
  <2>2. UpToDate'
    BY <1>a, <1>b, <1>10, LockAssumption
    DEF TypeOK, Places, Acquiring, Releasing, Alone, UpToDate, Guarded, NamedHolds, Remove, At,
        GoTo, ghosts
  <2>3. Guarded'
    BY <1>a, <1>b, <1>10, LockAssumption
    DEF TypeOK, Places, Acquiring, Releasing, Alone, UpToDate, Guarded, NamedHolds, Remove, At,
        GoTo, ghosts
  <2>4. NamedHolds'
    BY <1>a, <1>b, <1>10, LockAssumption
    DEF TypeOK, Places, Acquiring, Releasing, Alone, UpToDate, Guarded, NamedHolds, Remove, At,
        GoTo, ghosts
  <2> QED
    BY <2>1, <2>2, <2>3, <2>4
<1>11. ASSUME NEW p \in Procs, Crash(p) PROVE Alone' /\ UpToDate' /\ Guarded' /\ NamedHolds'
  <2>1. Alone'
    BY <1>a, <1>b, <1>11, LockAssumption
    DEF TypeOK, Places, Acquiring, Releasing, Alone, UpToDate, Guarded, NamedHolds, Crash, GoTo
  <2>2. UpToDate'
    BY <1>a, <1>b, <1>11, LockAssumption
    DEF TypeOK, Places, Acquiring, Releasing, Alone, UpToDate, Guarded, NamedHolds, Crash, GoTo
  <2>3. Guarded'
    BY <1>a, <1>b, <1>11, LockAssumption
    DEF TypeOK, Places, Acquiring, Releasing, Alone, UpToDate, Guarded, NamedHolds, Crash, GoTo
  <2>4. NamedHolds'
    BY <1>a, <1>b, <1>11, LockAssumption
    DEF TypeOK, Places, Acquiring, Releasing, Alone, UpToDate, Guarded, NamedHolds, Crash, GoTo
  <2> QED
    BY <2>1, <2>2, <2>3, <2>4
<1>12. ASSUME NEW p \in Procs, Reuse(p) PROVE Alone' /\ UpToDate' /\ Guarded' /\ NamedHolds'
  <2>1. Alone'
    BY <1>a, <1>b, <1>12, LockAssumption
    DEF TypeOK, Places, Acquiring, Releasing, Alone, UpToDate, Guarded, NamedHolds, Reuse
  <2>2. UpToDate'
    BY <1>a, <1>b, <1>12, LockAssumption
    DEF TypeOK, Places, Acquiring, Releasing, Alone, UpToDate, Guarded, NamedHolds, Reuse
  <2>3. Guarded'
    BY <1>a, <1>b, <1>12, LockAssumption
    DEF TypeOK, Places, Acquiring, Releasing, Alone, UpToDate, Guarded, NamedHolds, Reuse
  <2>4. NamedHolds'
    BY <1>a, <1>b, <1>12, LockAssumption
    DEF TypeOK, Places, Acquiring, Releasing, Alone, UpToDate, Guarded, NamedHolds, Reuse
  <2> QED
    BY <2>1, <2>2, <2>3, <2>4
<1>13. CASE UNCHANGED vars
  BY <1>b, <1>13 DEF vars, Alone, UpToDate, Guarded, NamedHolds
<1>14. QED
  BY <1>1, <1>2, <1>3, <1>4, <1>5, <1>6, <1>7, <1>8, <1>9, <1>10, <1>11, <1>12, <1>13 DEF Next,
     Acquire, Leave

\* The invariants hold in every behaviour.
LEMMA Invariance == Spec => [](TypeOK /\ SequenceInv)
<1>1. Init => TypeOK /\ SequenceInv
  BY SequenceInit, LockAssumption DEF Init, TypeOK, Places
<1>2. TypeOK /\ SequenceInv /\ [Next]_vars => (TypeOK /\ SequenceInv)'
  BY TypeStep, SequenceStep
<1>3. QED
  BY <1>1, <1>2, PTL DEF Spec
-----------------------------------------------------------------------------
(* What follows *)

\* Two processes never drive one workspace, whatever crashes in the middle of
\* a call and whatever pids are given again, while calls do not overlap and
\* nobody acquires what it holds.
THEOREM OneDriver == Spec => []ExclusiveInSequence
<1>1. SequenceInv => ExclusiveInSequence
  BY DEF SequenceInv, Guarded, ExclusiveInSequence, MutualExclusion, Holders
<1>2. QED
  BY <1>1, Invariance, PTL

\* The holder's pid is in the file, so that the next attempt is refused and
\* its own release removes the file.
THEOREM FileNamesHolder == Spec => []HolderRecorded
<1>1. SequenceInv => HolderRecorded
  BY DEF SequenceInv, Guarded, HolderRecorded, Holders
<1>2. QED
  BY <1>1, Invariance, PTL

\* An attempt fails only because another process holds the lock: what a dead
\* process left behind is always reclaimed.
THEOREM OnlyHoldersRefuse == Spec => RefusedByHolder
<1> DEFINE Refusal == happened' = {} =>
             \A p \in Procs : answer[p] # "null" /\ answer'[p] = "null"
                                => Holders \ {p} # {}
<1>1. TypeOK /\ SequenceInv /\ [Next]_vars => Refusal
  <2> SUFFICES ASSUME TypeOK, SequenceInv, [Next]_vars, happened' = {},
                      NEW p \in Procs, answer[p] # "null", answer'[p] = "null"
               PROVE  Holders \ {p} # {}
    OBVIOUS
  <2>1. Probe(p) /\ IsProcessAlive(seen[p])
    BY DEF TypeOK, Next, Acquire, Leave, Create, WriteCreated, CheckExists, ReadOwner, Probe,
           Truncate, WriteReclaimed, StartRelease, ReadBack, Remove, Crash, Reuse, Granted,
           ghosts, vars
  <2>2. happened = {}
    BY <2>1 DEF Probe, ghosts
  <2>3. place[p] = "probe" /\ seen[p] = file /\ file \in alive \ {p}
    BY <2>1, <2>2 DEF SequenceInv, UpToDate, Probe, At, IsProcessAlive
  <2>4. place[file] = "outside"
    BY <2>2, <2>3 DEF SequenceInv, Alone, TypeOK
  <2>5. handles[file] > 0
    BY <2>2, <2>3, <2>4 DEF SequenceInv, NamedHolds
  <2>6. QED
    BY <2>3, <2>5 DEF Holders, TypeOK
<1>2. QED
  BY <1>1, Invariance, PTL DEF Spec, RefusedByHolder
-----------------------------------------------------------------------------
(***************************************************************************)
(* The scope lock, of the same processes, with a state of its own.         *)
(*                                                                         *)
(* OneEngineInSequence is not inductive.  What makes it so is where an     *)
(* active engine's lock is: in the file, fresh, whenever its process is    *)
(* not rewriting it; and what a contender past a decision knows: that      *)
(* there is no active engine, or the lock of the one there is.             *)
(***************************************************************************)

CONSTANTS MaxLoads, MaxLapses, MaxOverlaps
VARIABLES lock, linked, running, at, found, tries, loads, deaths

Scope == INSTANCE ScopeLock
  WITH opened <- linked, alive <- running, place <- at, seen <- found,
       crashes <- deaths

InSequence == overlaps = 0 /\ lapses = 0

Fresh(p) == [pid |-> p, fresh |-> TRUE]

\* A process in a call, or with an active engine, is alive.
AliveOK == \A p \in Procs : held[p] \/ at[p] # "outside" => p \in running

\* Which calls an active engine makes, and which an inactive one.
CallsOK ==
  \A p \in Procs :
    /\ at[p] \in {"create", "write", "read", "exists", "judge", "rename", "unlink"} => ~held[p]
    /\ at[p] \in {"beat", "rewrite"} => held[p]

\* One call at a time.
SerialOK == \A p, q \in Scope!Inside : p = q

\* The file is the active engine's, but for the rewrite by its heartbeat.
OwnedOK ==
  \A p \in Procs : held[p] =>
    IF at[p] = "rewrite" THEN lock = Empty /\ p \in linked ELSE lock = Fresh(p)

\* What a call has found out stays true until it acts on it.
DecidedOK ==
  \A p \in Procs :
    /\ at[p] \in {"write", "exists", "rename", "unlink"} => Active = {}
    /\ at[p] = "write" => p \in linked
    /\ at[p] = "judge" => \A q \in Active : found[p] = Fresh(q)

SInv == Scope!TypeOK /\ AliveOK /\ CallsOK /\ (InSequence => SerialOK /\ OwnedOK /\ DecidedOK)
-----------------------------------------------------------------------------
\* The lock file of two processes is never the same.
LEMMA FreshIsOwn ==
  ASSUME Scope!Distinct
  PROVE
  /\ \A p, q \in Procs : Fresh(p) = Fresh(q) => p = q
  /\ \A p \in Procs : Fresh(p) \in Scope!Locks /\ Fresh(p) # Absent /\ Fresh(p) # Empty
  /\ Absent \notin Scope!Locks /\ Empty \notin Scope!Locks /\ Absent # Empty
BY DEF Scope!Distinct, Fresh, Scope!Locks

\* What an active engine owns is its own: there is at most one.
LEMMA OwnersAreOne ==
  ASSUME Scope!Distinct, Scope!TypeOK, SerialOK, OwnedOK
  PROVE  OneEngine
BY FreshIsOwn DEF Scope!TypeOK, SerialOK, OwnedOK, OneEngine, Active, Scope!Inside

\* Every step keeps the types.
LEMMA NextKeepsType ==
  ASSUME Scope!TypeOK, [Scope!Next]_(Scope!vars)
  PROVE  Scope!TypeOK'
<1> USE DEF Scope!TypeOK, Scope!GoTo, Scope!bounds, Scope!At
<1>1. CASE Scope!Lapse
  <2>1. lock' \in Scope!Locks
    BY <1>1 DEF Scope!Lapse, Scope!Locks
  <2>2. lapses' \in Nat
    BY <1>1 DEF Scope!Lapse
  <2>3. QED
    BY <1>1, <2>1, <2>2 DEF Scope!Lapse
<1>2. ASSUME NEW p \in Procs, Scope!Load(p) \/ Scope!Beat(p) \/ Scope!Dispose(p) PROVE Scope!TypeOK'
  <2>1. CASE Scope!Load(p)
    <3>1. tries' \in [Procs -> 0 .. Scope!MaxTries]
      BY <2>1 DEF Scope!Load, Scope!MaxTries
    <3>2. loads' \in Nat /\ overlaps' \in Nat
      BY <2>1 DEF Scope!Load, Scope!Begin
    <3>3. QED
      BY <2>1, <3>1, <3>2 DEF Scope!Load, Scope!Places
  <2>2. CASE Scope!Beat(p)
    <3>1. overlaps' \in Nat
      BY <2>2 DEF Scope!Beat, Scope!Begin
    <3>2. held' \in [Procs -> BOOLEAN] /\ at' \in [Procs -> Scope!Places]
      BY <2>2 DEF Scope!Beat, Scope!Places
    <3>3. QED
      BY <2>2, <3>1, <3>2 DEF Scope!Beat
  <2>3. CASE Scope!Dispose(p)
    BY <2>3 DEF Scope!Dispose, Scope!Begin, Scope!Places
  <2>4. QED
    BY <1>2, <2>1, <2>2, <2>3
<1>3. ASSUME NEW p \in Procs,
             Scope!Create(p) \/ Scope!Write(p) \/ Scope!Truncate(p) \/ Scope!Rewrite(p)
               \/ Scope!Unlink(p)
      PROVE  Scope!TypeOK'
  <2>1. CASE Scope!Create(p)
    BY <2>1 DEF Scope!Create, Scope!Places
  <2>2. CASE Scope!Write(p)
    BY <2>2 DEF Scope!Write, Scope!Written, Scope!Places, Scope!MaxTries, Scope!Locks
  <2>3. CASE Scope!Truncate(p)
    BY <2>3 DEF Scope!Truncate, Scope!Places
  <2>4. CASE Scope!Rewrite(p)
    BY <2>4 DEF Scope!Rewrite, Scope!Written, Scope!Places, Scope!Locks
  <2>5. CASE Scope!Unlink(p)
    BY <2>5 DEF Scope!Unlink, Scope!Places
  <2>6. QED
    BY <1>3, <2>1, <2>2, <2>3, <2>4, <2>5
<1>4. ASSUME NEW p \in Procs, Scope!Read(p) \/ Scope!Exists(p) \/ Scope!Judge(p) \/ Scope!Rename(p)
      PROVE Scope!TypeOK'
  <2>1. CASE Scope!Read(p)
    BY <2>1 DEF Scope!Read, Scope!Places
  <2>2. Scope!Again(p) =>
          tries' \in [Procs -> 0 .. Scope!MaxTries] /\ at' \in [Procs -> Scope!Places]
    BY DEF Scope!Again, Scope!MaxTries, Scope!Places
  <2>3. CASE Scope!Exists(p)
    BY <2>2, <2>3 DEF Scope!Exists, Scope!Places
  <2>4. CASE Scope!Judge(p)
    BY <2>4 DEF Scope!Judge, Scope!Places, Scope!MaxTries
  <2>5. CASE Scope!Rename(p)
    BY <2>2, <2>5 DEF Scope!Rename
  <2>6. QED
    BY <1>4, <2>1, <2>3, <2>4, <2>5
<1>5. ASSUME NEW p \in Procs, Scope!Crash(p) PROVE Scope!TypeOK'
  <2>1. tries' \in [Procs -> 0 .. Scope!MaxTries] /\ deaths' \in Nat
    BY <1>5 DEF Scope!Crash, Scope!MaxTries
  <2>2. held' \in [Procs -> BOOLEAN] /\ at' \in [Procs -> Scope!Places]
    BY <1>5 DEF Scope!Crash, Scope!Places
  <2>3. QED
    BY <1>5, <2>1, <2>2 DEF Scope!Crash
<1>6. ASSUME NEW p \in Procs, Scope!Reuse(p) PROVE Scope!TypeOK'
  BY <1>6 DEF Scope!Reuse
<1>7. CASE UNCHANGED Scope!vars
  BY <1>7 DEF Scope!vars
<1>8. QED
  BY <1>1, <1>2, <1>3, <1>4, <1>5, <1>6, <1>7 DEF Scope!Next, Scope!Goes
-----------------------------------------------------------------------------
\* Every step keeps the engines alive and in the calls that are theirs.
LEMMA NextKeepsCalls ==
  ASSUME Scope!TypeOK, AliveOK, CallsOK, [Scope!Next]_(Scope!vars)
  PROVE  AliveOK' /\ CallsOK'
<1> USE DEF Scope!TypeOK, AliveOK, CallsOK, Scope!GoTo, Scope!bounds, Scope!At
<1>1. CASE Scope!Lapse
  BY <1>1 DEF Scope!Lapse
<1>2. ASSUME NEW p \in Procs, Scope!Load(p) \/ Scope!Beat(p) \/ Scope!Dispose(p)
      PROVE AliveOK' /\ CallsOK'
  <2>1. CASE Scope!Load(p)
    BY <2>1 DEF Scope!Load, Scope!Begin
  <2>2. CASE Scope!Beat(p)
    BY <2>2 DEF Scope!Beat, Scope!Begin
  <2>3. CASE Scope!Dispose(p)
    BY <2>3 DEF Scope!Dispose, Scope!Begin
  <2>4. QED
    BY <1>2, <2>1, <2>2, <2>3
<1>3. ASSUME NEW p \in Procs,
             Scope!Create(p) \/ Scope!Write(p) \/ Scope!Truncate(p) \/ Scope!Rewrite(p)
               \/ Scope!Unlink(p)
      PROVE  AliveOK' /\ CallsOK'
  <2>1. CASE Scope!Create(p)
    BY <2>1 DEF Scope!Create
  <2>2. CASE Scope!Write(p)
    BY <2>2 DEF Scope!Write
  <2>3. CASE Scope!Truncate(p)
    BY <2>3 DEF Scope!Truncate
  <2>4. CASE Scope!Rewrite(p)
    BY <2>4 DEF Scope!Rewrite
  <2>5. CASE Scope!Unlink(p)
    BY <2>5 DEF Scope!Unlink
  <2>6. QED
    BY <1>3, <2>1, <2>2, <2>3, <2>4, <2>5
<1>4. ASSUME NEW p \in Procs, Scope!Read(p) \/ Scope!Exists(p) \/ Scope!Judge(p) \/ Scope!Rename(p)
      PROVE  AliveOK' /\ CallsOK'
  <2>1. /\ p \in running /\ ~held[p] /\ UNCHANGED <<running, held>>
        /\ \E there \in {"outside", "create", "exists", "judge", "rename"} :
             at' = [at EXCEPT ![p] = there]
    BY <1>4 DEF Scope!Read, Scope!Exists, Scope!Judge, Scope!Rename, Scope!Again
  <2>2. QED
    BY <2>1
<1>5. ASSUME NEW p \in Procs, Scope!Crash(p) \/ Scope!Reuse(p) PROVE AliveOK' /\ CallsOK'
  BY <1>5 DEF Scope!Crash, Scope!Reuse
<1>6. CASE UNCHANGED Scope!vars
  BY <1>6 DEF Scope!vars
<1>7. QED
  BY <1>1, <1>2, <1>3, <1>4, <1>5, <1>6 DEF Scope!Next, Scope!Goes
-----------------------------------------------------------------------------
\* In sequence, every step leaves the file to the active engine and what a call
\* found out true.
LEMMA NextKeepsSequence ==
  ASSUME Scope!Distinct, SInv, Scope!TypeOK', [Scope!Next]_(Scope!vars), InSequence'
  PROVE  SerialOK' /\ OwnedOK' /\ DecidedOK'
<1>1. InSequence
  BY DEF SInv, Scope!TypeOK, InSequence, Scope!Next, Scope!vars, Scope!Lapse, Scope!Load,
         Scope!Beat, Scope!Dispose, Scope!Begin, Scope!Goes, Scope!Create,
     Scope!Write, Scope!Read, Scope!Exists, Scope!Judge, Scope!Rename, Scope!Truncate,
     Scope!Rewrite, Scope!Unlink, Scope!Crash, Scope!Reuse, Scope!bounds
<1>2. SerialOK /\ OwnedOK /\ DecidedOK
  BY <1>1 DEF SInv
<1>3. \A p, q \in Procs : held[p] /\ held[q] => p = q
  <2>1. OneEngine
    BY <1>2, OwnersAreOne DEF SInv
  <2>2. QED
    BY <2>1 DEF SInv, Scope!TypeOK, OneEngine, Active
<1> USE <1>2, <1>3, FreshIsOwn
    DEF SInv, Scope!TypeOK, AliveOK, CallsOK, SerialOK, OwnedOK, DecidedOK, Active,
        Scope!Inside, Scope!GoTo, Scope!At,
        Scope!bounds
<1>4. CASE Scope!Lapse
  <2>1. lapses' = 0 /\ lapses = 0
    BY <1>1 DEF InSequence
  <2>2. lock \in Scope!Locks /\ ~held[lock.pid]
    BY <1>4, <2>1 DEF Scope!Lapse
  <2>3. Active = {}
    BY <2>2 DEF Fresh
  <2>4. QED
    BY <1>4, <2>3 DEF Scope!Lapse
<1>5. ASSUME NEW p \in Procs, Scope!Load(p) \/ Scope!Beat(p) \/ Scope!Dispose(p)
      PROVE  SerialOK' /\ OwnedOK' /\ DecidedOK'
  <2>1. Scope!Inside = {} /\ p \in running /\ at[p] = "outside"
    BY <1>1, <1>5 DEF Scope!Load, Scope!Beat, Scope!Dispose, Scope!Begin, InSequence
  <2>2. CASE Scope!Load(p)
    BY <2>1, <2>2 DEF Scope!Load
  <2>3. CASE Scope!Beat(p)
    BY <2>1, <2>3 DEF Scope!Beat
  <2>4. CASE Scope!Dispose(p)
    BY <2>1, <2>4 DEF Scope!Dispose
  <2>5. QED
    BY <1>5, <2>2, <2>3, <2>4
<1>6. ASSUME NEW p \in Procs, Scope!Create(p) PROVE SerialOK' /\ OwnedOK' /\ DecidedOK'
  BY <1>6 DEF Scope!Create
<1>7. ASSUME NEW p \in Procs, Scope!Write(p) PROVE SerialOK' /\ OwnedOK' /\ DecidedOK'
  <2>1. /\ p \in linked /\ lock' = Fresh(p) /\ Active = {}
        /\ \A q \in Procs : q # p => at[q] = "outside"
    BY <1>7 DEF Scope!Write, Scope!Written, Fresh
  <2>2. held' = [held EXCEPT ![p] = TRUE] /\ at' = [at EXCEPT ![p] = "outside"]
    BY <1>7 DEF Scope!Write
  <2>3. \A q \in Procs : at'[q] = "outside" /\ (held'[q] <=> q = p)
    BY <2>1, <2>2
  <2>4. QED
    BY <2>1, <2>3
<1>8. ASSUME NEW p \in Procs, Scope!Read(p) PROVE SerialOK' /\ OwnedOK' /\ DecidedOK'
  BY <1>8 DEF Scope!Read
<1>9. ASSUME NEW p \in Procs, Scope!Exists(p) PROVE SerialOK' /\ OwnedOK' /\ DecidedOK'
  BY <1>9 DEF Scope!Exists, Scope!Again
<1>10. ASSUME NEW p \in Procs, Scope!Judge(p) PROVE SerialOK' /\ OwnedOK' /\ DecidedOK'
  BY <1>10 DEF Scope!Judge, Scope!OwnedByOther, Fresh
<1>11. ASSUME NEW p \in Procs, Scope!Rename(p) PROVE SerialOK' /\ OwnedOK' /\ DecidedOK'
  BY <1>11 DEF Scope!Rename, Scope!Again
<1>12. ASSUME NEW p \in Procs, Scope!Truncate(p) PROVE SerialOK' /\ OwnedOK' /\ DecidedOK'
  BY <1>12 DEF Scope!Truncate
<1>13. ASSUME NEW p \in Procs, Scope!Rewrite(p) PROVE SerialOK' /\ OwnedOK' /\ DecidedOK'
  <2>1. /\ held[p] /\ p \in linked /\ lock' = Fresh(p) /\ held' = held
        /\ \A q \in Procs : q # p => at[q] = "outside"
    BY <1>13 DEF Scope!Rewrite, Scope!Written, Fresh
  <2>2. at' = [at EXCEPT ![p] = "outside"]
    BY <1>13 DEF Scope!Rewrite
  <2>3. \A q \in Procs : at'[q] = "outside" /\ (held'[q] <=> q = p)
    BY <2>1, <2>2
  <2>4. QED
    BY <2>1, <2>3
<1>14. ASSUME NEW p \in Procs, Scope!Unlink(p) PROVE SerialOK' /\ OwnedOK' /\ DecidedOK'
  BY <1>14 DEF Scope!Unlink
<1>15. ASSUME NEW p \in Procs, Scope!Crash(p) PROVE SerialOK' /\ OwnedOK' /\ DecidedOK'
  BY <1>15 DEF Scope!Crash
<1>16. ASSUME NEW p \in Procs, Scope!Reuse(p) PROVE SerialOK' /\ OwnedOK' /\ DecidedOK'
  BY <1>16 DEF Scope!Reuse
<1>17. CASE UNCHANGED Scope!vars
  BY <1>17 DEF Scope!vars
<1>18. QED
  BY <1>4, <1>5, <1>6, <1>7, <1>8, <1>9, <1>10, <1>11, <1>12, <1>13, <1>14, <1>15, <1>16, <1>17
  DEF Scope!Next, Scope!Goes

\* In sequence one engine of a scope is active, whatever processes start, stop,
\* die inside a call or get the pid of a dead one.
THEOREM OneEngineHolds ==
  ASSUME Scope!Distinct
  PROVE  Scope!Spec => []OneEngineInSequence
<1>1. Scope!Init => SInv
  BY FreshIsOwn DEF Scope!Distinct, Scope!Init, SInv, Scope!TypeOK, AliveOK, CallsOK, SerialOK,
     OwnedOK, DecidedOK, Scope!Inside, Active, Scope!Places, Scope!MaxTries
<1>2. SInv /\ [Scope!Next]_(Scope!vars) => SInv'
  BY NextKeepsType, NextKeepsCalls, NextKeepsSequence DEF SInv
<1>3. SInv => OneEngineInSequence
  BY OwnersAreOne DEF SInv, InSequence, OneEngineInSequence
<1>4. QED
  BY <1>1, <1>2, <1>3, PTL DEF Scope!Spec
=============================================================================
