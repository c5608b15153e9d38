----------------------------- MODULE SessionLocks -----------------------------
(***************************************************************************)
(* The per-session mutex of the task scheduler                             *)
(* (src/core/scheduler/locks.ts), as operators on one lock table.  Every   *)
(* method of the class is synchronous, so each is one operator; the engine *)
(* that calls them is SchedulerEngine.                                     *)
(*                                                                         *)
(* A lock table is a record with the fields of the class:                  *)
(*   holder    holders: the task that holds each key                       *)
(*   armed     the keys whose holder has a timeout that has not fired      *)
(*   byTask    byTaskId: the key each task is indexed under                *)
(*   waiting   queues: the tasks waiting for each key, first come first    *)
(*                                                                         *)
(* A key is a session, or a task t that stands for the placeholder         *)
(* "pending:t" under which a task that opens a new session is locked.      *)
(***************************************************************************)
EXTENDS Naturals, Sequences

CONSTANTS
  Tasks,      \* the ids of the scheduled tasks
  Sessions,   \* the ids of the sessions they can run in
  HasTimeout, \* the tasks with timeoutMinutes > 0
  None

ASSUME LocksAssumption ==
  /\ Sessions \cap Tasks = {}
  /\ None \notin Sessions \cup Tasks
  /\ HasTimeout \subseteq Tasks

Keys == Sessions \cup Tasks

LockTables == [holder  : [Keys -> Tasks \cup {None}],
               armed   : SUBSET Keys,
               byTask  : [Tasks -> Keys \cup {None}],
               waiting : [Keys -> Seq(Tasks)]]

Unlocked == [holder  |-> [k \in Keys |-> None],
             armed   |-> {},
             byTask  |-> [t \in Tasks |-> None],
             waiting |-> [k \in Keys |-> <<>>]]

IsWaiting(L, t, k) == \E i \in DOMAIN L.waiting[k] : L.waiting[k][i] = t

\* _setHolder: the entry replaces any other, and so does the index entry of t.
SetHolder(L, t, k) ==
  [L EXCEPT !.holder[k] = t,
            !.byTask[t] = k,
            !.armed = (@ \ {k}) \cup {j \in {k} : t \in HasTimeout}]

\* _clearHolder: the index entry removed is that of the task found under k.
ClearHolder(L, k) ==
  IF L.holder[k] = None THEN L
  ELSE [L EXCEPT !.holder[k] = None,
                 !.byTask[L.holder[k]] = None,
                 !.armed = @ \ {k}]

\* Mutant: acquire() does not look at the holder.
AlwaysFree(L, t, k, policy) == IF L.byTask[t] = k THEN "held" ELSE "free"

\* What acquire() answers, in the order it decides.  Only "preempt" and a free
\* key change the holder; a task already indexed under k is let through.
AcquireOutcome(L, t, k, policy) ==
  CASE L.byTask[t] = k                             -> "held"
    [] L.byTask[t] # k /\ L.holder[k] = None       -> "free"
    [] L.byTask[t] # k /\ L.holder[k] # None       -> policy

Enqueue(L, t, k) ==
  IF IsWaiting(L, t, k) THEN L ELSE [L EXCEPT !.waiting[k] = Append(@, t)]

\* Mutant: the queue of a released key is forgotten.
NobodyNext(L, t) == None
\* Mutant: the lock outlives the run.
Unreleased(L, t) == L

\* release(t): clears whatever holder t's index entry names, and gives the key
\* to the first waiting task.  HandedTo is the task onDispatchNext is called
\* with, None when it is not called.
HandedTo(L, t) ==
  IF L.byTask[t] = None \/ L.waiting[L.byTask[t]] = <<>> THEN None
  ELSE Head(L.waiting[L.byTask[t]])

Release(L, t) ==
  LET k       == L.byTask[t]
      cleared == ClearHolder(L, k)
  IN  IF k = None THEN L
      ELSE IF HandedTo(L, t) = None THEN cleared
      ELSE SetHolder([cleared EXCEPT !.waiting[k] = Tail(@)], HandedTo(L, t), k)

\* reassign(old, new): moves the holder, its timeout and the queue to the key
\* of the session the prompt really ran in, unless that key is taken.
Reassign(L, old, new) ==
  IF old = new \/ L.holder[old] = None \/ L.holder[new] # None THEN L
  ELSE [holder  |-> [L.holder EXCEPT ![old] = None, ![new] = L.holder[old]],
        armed   |-> (L.armed \ {old, new}) \cup {k \in {new} : old \in L.armed},
        byTask  |-> [L.byTask EXCEPT ![L.holder[old]] = new],
        waiting |-> IF L.waiting[old] = <<>> THEN L.waiting
                    ELSE [L.waiting EXCEPT ![new] = L.waiting[old], ![old] = <<>>]]
=============================================================================
