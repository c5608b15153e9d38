---------------------------- MODULE SchedulerEngine ----------------------------
(***************************************************************************)
(* The scheduled-task engine of one scope (src/core/scheduler/engine.ts):  *)
(* its task cache, its timers, the session locks, the queue in front of    *)
(* the one runtime, and tasks.json, which a second process may rewrite.    *)
(*                                                                         *)
(* Time is the number of schedule boundaries that have passed: every task  *)
(* recurs, and a boundary has passed when nextRunAt no longer returns it,  *)
(* so the next run is at boundary clock + 1.  A timer set for a boundary   *)
(* fires at some moment after it, or, if the budget has it, before: the    *)
(* wall clock and the clock of the timers are not the same.                *)
(*                                                                         *)
(* fireTask runs without interruption up to the dispatch, so a fire is a   *)
(* variable, call, that is set where the code calls fireTask and answered  *)
(* by exactly one Fire action; until then only the other process moves.    *)
(***************************************************************************)
EXTENDS Integers, FiniteSets, SessionLocks

CONSTANTS
  NewSession, \* the target "new"; a pinned target is a session
  InitFiles,  \* what tasks.json may hold when the engine is first loaded
  MaxRuns,    \* MaxRuns[t]: maxRuns of t, or 0 for no cap
  EndAt,      \* EndAt[t]: the last boundary of t's schedule
  MaxTime,    \* bound: boundaries that pass
  Budgets     \* bound: each b in Budgets allows b[k] events of each kind k

\* What comes from outside the engine's own schedule.
Kinds == {"timeout",   \* a run outlasts its timeoutMinutes
          "manual",    \* a run-now request
          "edit",      \* create, delete, pause or resume
          "retarget",  \* an update of the session target
          "continue",  \* a pinned session is continued in another one
          "reload", "restart",
          "cut",       \* the process dies inside a write of tasks.json
          "early",     \* a timer fires before its boundary
          "setback",   \* the wall clock is set back over a boundary
          "demote",    \* another process takes the scope lock
          "external"}  \* another process rewrites tasks.json
Targets == Sessions \cup {NewSession}
Times == 0..(MaxTime + 1)
Never == -1

Task == [enabled : BOOLEAN, count : Nat, last : Times \cup {Never},
         target : Targets, policy : {"skip", "queue", "preempt"}]
TaskFiles == [Tasks -> Task \cup {None}]
Calls == [task : Tasks, at : Times, manual : BOOLEAN]

ASSUME EngineAssumption ==
  /\ NewSession \notin Sessions
  /\ None \notin Times /\ None \notin Task /\ None \notin Calls
  /\ InitFiles \subseteq TaskFiles
  /\ MaxRuns \in [Tasks -> Nat]
  /\ EndAt \in [Tasks -> Nat]
  /\ MaxTime \in Nat
  /\ Budgets \subseteq [Kinds -> Nat]

Runs == [task : Tasks, key : Keys, at : Times, manual : BOOLEAN, snap : Task,
         started : BOOLEAN, abortedFor : Tasks \cup {None}]

VARIABLES
  mem,       \* tasks: the cache of the engine
  disk, gap, \* tasks.json, and whether it is unlinked and not yet replaced
  ext,       \* the edit a second process is making, None when it makes none
  timer,     \* timers: the boundary t's registered timer is set for
  stray,     \* live timers no longer registered: how many for each boundary
  catchup,   \* timers of catchUpMissedRuns, likewise
  passive,   \* another process dispatches for this scope
  locks,     \* the SessionLockManager
  recorded,  \* recordedByTimeout
  call,      \* the call of fireTask being answered
  runs,      \* runtimeQueue: the acquired runs, the first one dispatched
  clock,
  \* history
  intent,    \* what the user last asked of each task
  fired,     \* scheduled dispatches of each occurrence, completed or under way
  surplus,   \* run rows written for t, less the runs of t that ended
  allowed,   \* the budget of this behaviour
  used       \* events from outside so far

fileVars == <<disk, gap, ext>>
timerVars == <<timer, stray, catchup, passive>>
runVars == <<locks, recorded, call, runs>>
histVars == <<intent, fired, surplus, allowed>>
vars == <<mem, fileVars, timerVars, runVars, clock, histVars, used>>

Spend(kind) ==
  used[kind] < allowed[kind] /\ used' = [used EXCEPT ![kind] = @ + 1]

-----------------------------------------------------------------------------
(* Helpers of the class.                                                   *)

KeyOf(t, task) == IF task.target = NewSession THEN t ELSE task.target

\* Mutant: the boundary that has just passed is still the next one.
LastBoundary(t, task) == IF task.enabled /\ clock < EndAt[t] THEN clock ELSE None
NextRunAt(t, task) ==
  IF task.enabled /\ clock < EndAt[t] THEN clock + 1 ELSE None

\* Mutant: one run too many.
CapExceeded(t, task) == MaxRuns[t] > 0 /\ task.count > MaxRuns[t]
CapReached(t, task) == MaxRuns[t] > 0 /\ task.count >= MaxRuns[t]

\* The boundary scheduleOne sets a timer for, None when it returns early.
ArmFor(t, task, idle) ==
  IF idle \/ task = None THEN None
  ELSE IF CapReached(t, task) THEN None ELSE NextRunAt(t, task)

\* lastMissedRunAt: the last boundary since the recorded run.
Missed(t, task) ==
  LET k == IF clock < EndAt[t] THEN clock ELSE EndAt[t]
  IN  IF task = None THEN None
      ELSE IF task.enabled /\ task.last # Never /\ task.last < k THEN k
      ELSE None

Plus(bag, t, k) == IF k = None THEN bag ELSE [bag EXCEPT ![t][k] = @ + 1]
Minus(bag, t, k) == [bag EXCEPT ![t][k] = @ - 1]

\* Mutant: a run does not schedule the next one.
NoReschedule(t, task) == UNCHANGED <<timer, stray>>

\* scheduleOne registers its timer without clearing the one it replaces.
Reschedule(t, task) ==
  LET k == ArmFor(t, task, passive)
  IN  IF k = None THEN UNCHANGED <<timer, stray>>
      ELSE /\ timer' = [timer EXCEPT ![t] = k]
           /\ stray' = Plus(stray, t, timer[t])

CancelTimer(t) == timer' = [timer EXCEPT ![t] = None] /\ UNCHANGED stray

\* A write that is completed: Restart has the one that is cut.
Persist == disk' = mem' /\ gap' = FALSE /\ UNCHANGED ext

NoTasks == [t \in Tasks |-> None]
ReadTasks == IF gap THEN NoTasks ELSE disk

Fresh == ReadTasks[call.task]

\* One more run of the task, last recorded at k.
Counted(task, k) == [task EXCEPT !.count = @ + 1, !.last = k]

\* handleTimeout: nothing for a task no longer in memory; otherwise abort the
\* turn the runtime is in, whosever it is, and write a row for the task.
TimedOut(m, t) == IF m[t] = None THEN m ELSE [m EXCEPT ![t] = Counted(@, clock)]
Abort(m, t) ==
  IF m[t] = None \/ runs = <<>> THEN runs
  ELSE [runs EXCEPT ![1].abortedFor = IF runs[1].started THEN t ELSE @]
Row(m, t) == IF m[t] = None THEN 0 ELSE 1
\* Mutant: the run is not marked as recorded.
Unmarked(m, t) == recorded
Marked(m, t) == recorded \cup {u \in {t} : m[u] # None}

\* Microtasks first: a timer or a request runs when no call is being answered
\* and the first run of the queue has begun its dispatch.
Quiet == call = None /\ (runs # <<>> => Head(runs).started)

FireTask(t, k, manual) == call' = [task |-> t, at |-> k, manual |-> manual]

\* A timer for boundary k is due, or fires before it is.
Due(k) == IF k <= clock THEN UNCHANGED used ELSE Spend("early")

-----------------------------------------------------------------------------
(* Timers, and the run-now request.                                        *)

TimerFires(t) ==
  /\ Quiet
  /\ timer[t] # None
  /\ Due(timer[t])
  /\ timer' = [timer EXCEPT ![t] = None]
  /\ FireTask(t, timer[t], FALSE)
  /\ UNCHANGED <<mem, fileVars, stray, catchup, passive, locks, recorded, runs,
                 clock, histVars>>

\* A timer that lost its registration removes the one registered in its place,
\* which goes on as a stray timer itself.
StrayFires(t, k) ==
  /\ Quiet
  /\ stray[t][k] > 0
  /\ Due(k)
  /\ stray' = Plus(Minus(stray, t, k), t, timer[t])
  /\ timer' = [timer EXCEPT ![t] = None]
  /\ FireTask(t, k, FALSE)
  /\ UNCHANGED <<mem, fileVars, catchup, passive, locks, recorded, runs, clock,
                 histVars>>

CatchUpFires(t, k) ==
  /\ Quiet
  /\ catchup[t][k] > 0
  /\ catchup' = Minus(catchup, t, k)
  /\ IF mem[t] # None /\ mem[t].enabled THEN FireTask(t, k, FALSE)
     ELSE UNCHANGED call
  /\ UNCHANGED <<mem, fileVars, timer, stray, passive, locks, recorded, runs,
                 clock, histVars, used>>

RunNow(t) ==
  /\ Quiet
  /\ mem[t] # None
  /\ FireTask(t, clock, TRUE)
  /\ Spend("manual")
  /\ UNCHANGED <<mem, fileVars, timerVars, locks, recorded, runs, clock, histVars>>

-----------------------------------------------------------------------------
(* fireTask, one action per way it leaves.                                 *)

\* The tolerance is shorter than the time between two boundaries: a fire that is
\* early by no more than that proceeds.
Answered == /\ call # None /\ (call.manual \/ call.at <= clock + 1)
            /\ call' = None
Fires(task) == task # None /\ (task.enabled \/ call.manual)

\* Every answer past the early returns starts from the copy read from disk.
Loaded == [mem EXCEPT ![call.task] = Fresh]

Outcome == AcquireOutcome(locks, call.task, KeyOf(call.task, Fresh),
                          Fresh.policy)

MayRun ==
  /\ Answered
  /\ Fires(Fresh)
  /\ call.manual \/ ~CapReached(call.task, Fresh)

\* Put back on a timer instead.
FireEarly ==
  /\ call # None /\ call' = None
  /\ ~call.manual /\ call.at > clock
  /\ Reschedule(call.task, mem[call.task])
  /\ UNCHANGED <<mem, fileVars, catchup, passive, locks, recorded, runs, clock,
                 histVars, used>>

FireDropped ==
  /\ Answered
  /\ ~Fires(Fresh)
  /\ CancelTimer(call.task)
  /\ mem' = Loaded
  /\ UNCHANGED <<fileVars, catchup, passive, locks, recorded, runs, clock,
                 histVars, used>>

FireCapped ==
  /\ Answered
  /\ Fires(Fresh)
  /\ ~call.manual /\ CapReached(call.task, Fresh)
  /\ CancelTimer(call.task)
  /\ mem' = [Loaded EXCEPT ![call.task].enabled = FALSE]
  /\ Persist
  /\ UNCHANGED <<catchup, passive, locks, recorded, runs, clock, histVars, used>>

FireSkipped ==
  /\ MayRun
  /\ Outcome = "skip"
  /\ mem' = [mem EXCEPT ![call.task] = Counted(Fresh, call.at)]
  /\ Persist
  /\ UNCHANGED <<timerVars, locks, recorded, runs, clock, histVars, used>>

FireQueued ==
  /\ MayRun
  /\ Outcome = "queue"
  /\ locks' = Enqueue(locks, call.task, KeyOf(call.task, Fresh))
  /\ mem' = Loaded
  /\ UNCHANGED <<fileVars, timerVars, recorded, runs, clock, histVars, used>>

NewRun == [task |-> call.task, key |-> KeyOf(call.task, Fresh), at |-> call.at,
           manual |-> call.manual, snap |-> Fresh, started |-> FALSE,
           abortedFor |-> None]

FireGranted ==
  /\ MayRun
  /\ Outcome \in {"held", "free"}
  /\ locks' = IF Outcome = "held" THEN locks
              ELSE SetHolder(locks, call.task, KeyOf(call.task, Fresh))
  /\ mem' = Loaded
  /\ runs' = Append(runs, NewRun)
  /\ UNCHANGED <<fileVars, timerVars, recorded, clock, histVars, used>>

FirePreempts ==
  /\ MayRun
  /\ Outcome = "preempt"
  /\ LET k   == KeyOf(call.task, Fresh)
         old == locks.holder[k]
     IN  /\ mem' = TimedOut(Loaded, old)
         /\ locks' = SetHolder(ClearHolder(locks, k), call.task, k)
         /\ recorded' = Marked(Loaded, old)
         /\ surplus' = [surplus EXCEPT ![old] = @ + Row(Loaded, old)]
         /\ runs' = Append(Abort(Loaded, old), NewRun)
         /\ IF Loaded[old] = None THEN UNCHANGED fileVars ELSE Persist
  /\ UNCHANGED <<timerVars, clock, intent, fired, allowed, used>>

-----------------------------------------------------------------------------
(* The runtime queue, and fireTask after its await.                        *)

Current == Head(runs)

StartDispatch ==
  /\ call = None /\ runs # <<>>
  /\ ~Current.started /\ Current.task \notin recorded
  /\ runs' = [runs EXCEPT ![1].started = TRUE]
  /\ fired' = IF Current.manual THEN fired ELSE Plus(fired, Current.task, Current.at)
  /\ UNCHANGED <<mem, fileVars, timerVars, locks, recorded, call, clock, intent,
                 surplus, allowed, used>>

\* The session a finished prompt reports: a pinned one, or the one it was
\* continued in; a fresh one for the target "new"; None with an error.
Reported ==
  {None} \cup
    IF Current.snap.target = NewSession
    THEN {s \in Sessions : /\ locks.holder[s] = None /\ locks.waiting[s] = <<>>
                           /\ \A t \in Tasks : mem[t] # None => mem[t].target # s}
    ELSE Sessions

\* The task as the run leaves it, from the copy read before the run.
Pinned(s) ==
  IF s = None \/ Current.snap.target = NewSession THEN Current.snap
  ELSE [Current.snap EXCEPT !.target = s]
AfterRow(s) ==
  IF Current.task \in recorded THEN mem
  ELSE [mem EXCEPT ![Current.task] = Counted(Pinned(s), Current.at)]

\* What follows the row, m being the cache it left.  A task deleted while a
\* timeout recorded its run makes the code throw; the catch block writes a
\* second row and puts the task back.
GoesOn(m, t) == m[t] # None /\ m[t].enabled

WindUp(m, t) ==
  \/ /\ m[t] = None
     /\ mem' = [m EXCEPT ![t] = Counted(Current.snap, Current.at)]
     /\ UNCHANGED <<timer, stray>>
  \/ /\ m[t] # None /\ ~m[t].enabled
     /\ mem' = m
     /\ UNCHANGED <<timer, stray>>
  \/ /\ GoesOn(m, t) /\ CapReached(t, m[t])
     /\ mem' = [m EXCEPT ![t].enabled = FALSE]
     /\ CancelTimer(t)
  \/ /\ GoesOn(m, t) /\ ~CapReached(t, m[t]) /\ clock < EndAt[t]
     /\ mem' = m
     /\ Reschedule(t, m[t])
  \/ /\ GoesOn(m, t) /\ ~CapReached(t, m[t]) /\ clock >= EndAt[t]
     /\ mem' = IF Current.manual THEN m ELSE [m EXCEPT ![t].enabled = FALSE]
     /\ UNCHANGED <<timer, stray>>

RunEnds(s) ==
  LET t == Current.task
      L == IF s = None THEN locks ELSE Reassign(locks, Current.key, s)
      rows == (IF t \in recorded THEN 0 ELSE 1)
               + (IF AfterRow(s)[t] = None THEN 1 ELSE 0)
  IN  /\ runs' = Tail(runs)
      /\ WindUp(AfterRow(s), t)
      /\ IF t \in recorded /\ mem' = mem THEN UNCHANGED fileVars ELSE Persist
      /\ recorded' = recorded \ {t}
      /\ surplus' = [surplus EXCEPT ![t] = @ + rows - 1]
      /\ locks' = Release(L, t)
      /\ IF HandedTo(L, t) = None THEN UNCHANGED call
         ELSE FireTask(HandedTo(L, t), clock, FALSE)
      /\ UNCHANGED <<catchup, passive, clock, intent, fired, allowed>>

Continued(s) == s # None /\ Current.snap.target \notin {s, NewSession}

DispatchReturns ==
  /\ Quiet /\ runs # <<>>
  /\ \E s \in Reported :
       RunEnds(s) /\ IF Continued(s) THEN Spend("continue") ELSE UNCHANGED used

CancelledBeforeDispatch ==
  /\ call = None /\ runs # <<>>
  /\ ~Current.started /\ Current.task \in recorded
  /\ RunEnds(None)
  /\ UNCHANGED used

\* The timeout of a lock fires; the lock itself stays as it is.
TimeoutFires(k) ==
  /\ Quiet
  /\ k \in locks.armed
  /\ Spend("timeout")
  /\ LET t == locks.holder[k]
     IN  /\ mem' = TimedOut(mem, t)
         /\ recorded' = Marked(mem, t)
         /\ surplus' = [surplus EXCEPT ![t] = @ + Row(mem, t)]
         /\ runs' = Abort(mem, t)
         /\ IF mem[t] = None THEN UNCHANGED fileVars ELSE Persist
  /\ locks' = [locks EXCEPT !.armed = @ \ {k}]
  /\ UNCHANGED <<timerVars, call, clock, intent, fired, allowed>>

-----------------------------------------------------------------------------
(* Requests of the user: create, update, delete, reload.                   *)

NewTask(target, policy) == [enabled |-> TRUE, count |-> 0, last |-> Never,
                            target |-> target, policy |-> policy]

\* Mutant: a task is scheduled but not saved.
CreateUnsaved(t, target, policy) ==
  /\ Quiet
  /\ intent[t] = "unborn"
  /\ mem' = [mem EXCEPT ![t] = NewTask(target, policy)]
  /\ intent' = [intent EXCEPT ![t] = "active"]
  /\ Reschedule(t, mem'[t])
  /\ Spend("edit")
  /\ UNCHANGED <<fileVars, catchup, passive, runVars, clock, fired, surplus, allowed>>

Create(t, target, policy) ==
  /\ Quiet
  /\ intent[t] = "unborn"
  /\ mem' = [mem EXCEPT ![t] = NewTask(target, policy)]
  /\ intent' = [intent EXCEPT ![t] = "active"]
  /\ Persist
  /\ Reschedule(t, mem'[t])
  /\ Spend("edit")
  /\ UNCHANGED <<catchup, passive, runVars, clock, fired, surplus, allowed>>

\* update(): a pause, a resume or a new target.
Update(t, enabled, target) ==
  /\ Quiet
  /\ mem[t] # None
  /\ mem' = [mem EXCEPT ![t].enabled = enabled, ![t].target = target]
  /\ IF target = mem[t].target THEN enabled # mem[t].enabled /\ Spend("edit")
     ELSE enabled = mem[t].enabled /\ Spend("retarget")
  /\ intent' = [intent EXCEPT ![t] = IF enabled THEN "active" ELSE "paused"]
  /\ Persist
  /\ timer' = [timer EXCEPT ![t] = ArmFor(t, mem'[t], passive)]
  /\ UNCHANGED <<stray, catchup, passive, runVars, clock, fired, surplus, allowed>>

Delete(t) ==
  /\ Quiet
  /\ mem[t] # None
  /\ mem' = [mem EXCEPT ![t] = None]
  /\ intent' = [intent EXCEPT ![t] = "deleted"]
  /\ CancelTimer(t)
  /\ Persist
  /\ Spend("edit")
  /\ UNCHANGED <<catchup, passive, runVars, clock, fired, surplus, allowed>>

\* load(): as the active engine it replaces every registered timer and fires
\* the last missed occurrence of each task; as a passive one it only reads.
Load(active) ==
  /\ mem' = ReadTasks
  /\ passive' = ~active
  /\ IF active
     THEN /\ timer' = [t \in Tasks |-> ArmFor(t, mem'[t], FALSE)]
          /\ catchup' = [t \in Tasks |-> [k \in Times |->
                            catchup[t][k] + IF Missed(t, mem'[t]) = k THEN 1 ELSE 0]]
     ELSE UNCHANGED <<timer, catchup>>

\* tryAcquire answers TRUE to the engine that holds the scope lock.
Reload(active) ==
  /\ Quiet
  /\ ~passive => active
  /\ Load(active)
  /\ Spend("reload")
  /\ UNCHANGED <<fileVars, stray, runVars, clock, histVars>>

-----------------------------------------------------------------------------
(* The rest of the world.                                                  *)

Tick ==
  /\ call = None
  /\ clock < MaxTime
  /\ clock' = clock + 1
  /\ UNCHANGED <<mem, fileVars, timerVars, runVars, histVars, used>>

SetBack ==
  /\ call = None
  /\ clock > 0
  /\ clock' = clock - 1
  /\ Spend("setback")
  /\ UNCHANGED <<mem, fileVars, timerVars, runVars, histVars>>

\* The heartbeat finds the scope lock in other hands (onLost).
Demote ==
  /\ Quiet
  /\ ~passive
  /\ passive' = TRUE
  /\ timer' = [t \in Tasks |-> None]
  /\ Spend("demote")
  /\ UNCHANGED <<mem, fileVars, stray, catchup, runVars, clock, histVars>>

NoTimers == [t \in Tasks |-> [k \in Times |-> 0]]

\* The process dies, at any moment, and a new one loads the scope.  A scheduled
\* dispatch that was under way does not count as one that took place.  If it is
\* cut inside a write (a request may write whenever one is read), tasks.json is
\* unlinked and its successor is a temporary file that nobody looks for.
Restart(cut) ==
  /\ IF cut THEN /\ Quiet /\ Spend("cut")
                 /\ disk' = NoTasks /\ gap' = FALSE
     ELSE Spend("restart") /\ UNCHANGED <<disk, gap>>
  /\ mem' = (IF cut THEN NoTasks ELSE ReadTasks) /\ passive' = FALSE
  /\ timer' = [t \in Tasks |-> ArmFor(t, mem'[t], FALSE)]
  /\ catchup' = [t \in Tasks |-> [k \in Times |->
                    IF Missed(t, mem'[t]) = k THEN 1 ELSE 0]]
  /\ stray' = NoTimers
  /\ locks' = Unlocked /\ recorded' = {} /\ call' = None /\ runs' = <<>>
  /\ fired' = IF runs # <<>> /\ Current.started /\ ~Current.manual
              THEN Minus(fired, Current.task, Current.at) ELSE fired
  /\ surplus' = [t \in Tasks |-> 0]
  /\ UNCHANGED <<ext, clock, intent, allowed>>

\* mutateTaskAnyScope in another process: read the file, change one task,
\* unlink the file and rename the new one into place.
ExternalRead(t, ask) ==
  /\ ext = None
  /\ ReadTasks[t] # None
  /\ ext' = [unlinked |-> FALSE, task |-> t, ask |-> ask,
             file |-> IF ask = "deleted" THEN [disk EXCEPT ![t] = None]
                      ELSE [disk EXCEPT ![t].enabled = (ask = "active")]]
  /\ Spend("external")
  /\ UNCHANGED <<mem, disk, gap, timerVars, runVars, clock, histVars>>

ExternalUnlink ==
  /\ ext # None
  /\ ~ext.unlinked
  /\ ext' = [ext EXCEPT !.unlinked = TRUE]
  /\ gap' = TRUE
  /\ UNCHANGED <<mem, disk, timerVars, runVars, clock, histVars, used>>

ExternalRename ==
  /\ ext # None
  /\ ext.unlinked
  /\ disk' = ext.file /\ gap' = FALSE
  /\ ext' = None
  /\ intent' = [intent EXCEPT ![ext.task] = ext.ask]
  /\ UNCHANGED <<mem, timerVars, runVars, clock, fired, surplus, allowed, used>>

-----------------------------------------------------------------------------
Init ==
  /\ mem \in InitFiles
  /\ disk = mem /\ gap = FALSE /\ ext = None
  /\ clock = 0 /\ passive = FALSE
  /\ timer = [t \in Tasks |-> ArmFor(t, mem[t], FALSE)]
  /\ stray = NoTimers /\ catchup = NoTimers
  /\ locks = Unlocked /\ recorded = {} /\ call = None /\ runs = <<>>
  /\ intent = [t \in Tasks |-> IF mem[t] # None THEN "active" ELSE "unborn"]
  /\ fired = NoTimers /\ surplus = [t \in Tasks |-> 0]
  /\ allowed \in Budgets /\ used = [k \in Kinds |-> 0]

Fire == FireEarly \/ FireDropped \/ FireCapped \/ FireSkipped \/ FireQueued \/ FireGranted
          \/ FirePreempts

Next ==
  \/ Fire \/ StartDispatch \/ DispatchReturns \/ CancelledBeforeDispatch
  \/ Tick \/ SetBack \/ Demote \/ ExternalUnlink \/ ExternalRename
  \/ \E cut \in BOOLEAN : Restart(cut)
  \/ \E active \in BOOLEAN : Reload(active)
  \/ \E k \in Keys : TimeoutFires(k)
  \/ \E t \in Tasks :
       \/ TimerFires(t) \/ RunNow(t) \/ Delete(t)
       \/ \E k \in Times : StrayFires(t, k) \/ CatchUpFires(t, k)
       \/ \E target \in Targets, policy \in {"skip", "queue", "preempt"} :
            Create(t, target, policy)
       \/ \E enabled \in BOOLEAN, target \in Targets : Update(t, enabled, target)
       \/ \E ask \in {"active", "paused", "deleted"} : ExternalRead(t, ask)

Spec == Init /\ [][Next]_vars

\* The event loop runs what is ready, a dispatched prompt settles, and timers
\* that are due fire.  Nothing from outside is promised, not even time.
FairSpec ==
  /\ Spec
  /\ WF_vars(Fire) /\ WF_vars(StartDispatch) /\ WF_vars(CancelledBeforeDispatch)
  /\ WF_vars(DispatchReturns)
  /\ \A t \in Tasks : WF_vars(TimerFires(t))

-----------------------------------------------------------------------------
(* Properties.                                                             *)

\* Every variable has its type: the shape of the state the engine, its locks
\* and tasks.json can be in.
TypeOK ==
  /\ mem \in TaskFiles /\ disk \in TaskFiles /\ gap \in BOOLEAN
  /\ ext = None \/ ext \in [unlinked : BOOLEAN, task : Tasks, file : TaskFiles,
                            ask : {"active", "paused", "deleted"}]
  /\ timer \in [Tasks -> Times \cup {None}] /\ passive \in BOOLEAN
  /\ stray \in [Tasks -> [Times -> Nat]] /\ catchup \in [Tasks -> [Times -> Nat]]
  /\ locks \in LockTables
  /\ recorded \subseteq Tasks
  /\ call = None \/ call \in Calls
  /\ runs \in Seq(Runs)
  /\ clock \in 0..MaxTime
  /\ intent \in [Tasks -> {"unborn", "active", "paused", "deleted"}]
  /\ fired \in [Tasks -> [Times -> Nat]] /\ surplus \in [Tasks -> Int]
  /\ allowed \in Budgets /\ used \in [Kinds -> Nat]

RunsOf(t) == {i \in DOMAIN runs : runs[i].task = t}
CallFor(t) == call # None /\ call.task = t

\* Some properties hold only as long as certain things have not happened.
Without(kinds) == \A k \in kinds : used[k] = 0
NoPolicy(policy) == \A t \in Tasks : mem[t] # None => mem[t].policy # policy

\* A scheduled occurrence of a task is dispatched at most once (engine.ts:17-20),
\* until a request or a load of the file interferes with the timers.  A run that
\* ends before its boundary is followed by another one for it: each timer that is
\* early, and each time the clock is set back, costs one dispatch too many at most.
Undisturbed == Without({"manual", "edit", "retarget", "reload", "restart", "cut"})
AtMostOnce == \A t \in Tasks, k \in Times : fired[t][k] <= 1
OncePerOccurrence ==
  Undisturbed =>
    \A t \in Tasks, k \in Times : fired[t][k] <= 1 + used["early"] + used["setback"]

\* A task never has two runs in the queue of the runtime, the overlap the
\* "running" flag is said to exclude (engine.ts:17-20), likewise.
NoOverlap ==
  Undisturbed => \A i, j \in DOMAIN runs : runs[i].task = runs[j].task => i = j

\* A held key belongs to a task with a run on that key, or to the one the lock
\* was just handed to (locks.ts:10-13): nobody waits for a task that is idle.
\* Not so once a waiting task can be found paused or deleted when its turn comes,
\* or a session is continued in another.
LockHeldOnlyForRun ==
  Undisturbed /\ Without({"external", "continue"}) =>
    \A k \in Keys : locks.holder[k] # None =>
      \/ \E i \in RunsOf(locks.holder[k]) : runs[i].key = k
      \/ CallFor(locks.holder[k])

\* Two acquired runs are never on the same session (engine.ts:623-626), unless
\* the second preempted the first.  Another process may hide a policy from us.
SessionExclusive ==
  Undisturbed /\ Without({"external"}) /\ NoPolicy("preempt") =>
    \A i, j \in DOMAIN runs : runs[i].key = runs[j].key => i = j

HasFuture(t) ==
  \/ timer[t] # None \/ RunsOf(t) # {} \/ CallFor(t)
  \/ \E k \in Times : stray[t][k] > 0 \/ catchup[t][k] > 0
  \/ \E k \in Keys : IsWaiting(locks, t, k)

\* While its schedule goes on, an enabled task of an active engine below its cap
\* is waiting for something: a timer, a lock, or its own run (engine.ts:9-13).
\* A task whose policy is to skip is not, nor one that is deleted during its run
\* or, by another process, between two calls of it, nor one whose schedule goes
\* on again because the clock is set back.
EnabledHasFuture ==
  ~passive /\ Without({"setback"}) /\ (Without({"edit", "external"}) \/ Undisturbed) =>
    \A t \in Tasks :
      ArmFor(t, mem[t], FALSE) # None /\ mem[t].policy # "skip" => HasFuture(t)

\* The scheduled dispatches of t: the occurrence each is for, and a number.
Dispatches(t) == UNION {{k} \X (1..fired[t][k]) : k \in Times}

\* The scheduled dispatches of a capped task never exceed maxRuns
\* (engine.ts:662), as long as no other process puts an old count back.
CapRespected ==
  Undisturbed /\ Without({"external"}) =>
    \A t \in Tasks : MaxRuns[t] > 0 => Cardinality(Dispatches(t)) <= MaxRuns[t]

\* Each run gets one row: none before it ends, unless its timeout or its
\* preemption wrote it, and then none when it ends (engine.ts:257-262).  A task
\* that holds two keys, is put back, or is preempted twice gets more.
RecordedOnce ==
  Without({"edit", "retarget", "external", "continue"})
    /\ (NoPolicy("preempt") \/ (Undisturbed /\ Without({"timeout"}))) =>
    \A t \in Tasks : surplus[t] = IF t \in recorded THEN 1 ELSE 0

\* Only its own turn is aborted for a task (engine.ts:194-198), if every task
\* runs in the same session and none preempts: otherwise a task that still waits
\* for the runtime can time out.
AbortsOwnTurn ==
  Undisturbed /\ Without({"continue", "external"}) /\ NoPolicy("preempt")
    /\ (\A t, u \in Tasks : mem[t] # None /\ mem[u] # None
                              => KeyOf(t, mem[t]) = KeyOf(u, mem[u])) =>
    \A i \in DOMAIN runs : runs[i].abortedFor \in {None, runs[i].task}

\* A task nobody deleted is in tasks.json (store.ts:106-109), whatever fires,
\* ends, dies or is requested, as long as nobody else replaces the file and no
\* write of it is cut between unlink and rename.
NoTaskLost ==
  Without({"external", "cut"}) =>
    \A t \in Tasks : intent[t] \in {"active", "paused"} => disk[t] # None

\* A passive engine has no registered timer, whatever requests and finished runs
\* it still serves (engine.ts:595).
PassiveHasNoTimer == passive => \A t \in Tasks : timer[t] = None

\* A task that waits for a session is let in, or the wait ends because the task
\* is paused or deleted (locks.ts:61-63).
QueueServed ==
  \A t \in Tasks, k \in Keys : IsWaiting(locks, t, k) ~> ~IsWaiting(locks, t, k)

\* Not so (README): what the user last asked of a task is what tasks.json says:
\* a paused task stays paused and a deleted one deleted (engine.ts:641-645).
UserEditKept ==
  gap \/ \A t \in Tasks :
           /\ intent[t] = "deleted" => disk[t] = None
           /\ intent[t] = "paused" => disk[t] = None \/ ~disk[t].enabled
=============================================================================
