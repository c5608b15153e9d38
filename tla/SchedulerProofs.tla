--------------------------- MODULE SchedulerProofs ---------------------------
(***************************************************************************)
(* Theorems about SchedulerEngine, for any number of tasks, sessions,      *)
(* boundaries and events from outside.  Of every engine: its state, the    *)
(* locks and the file stay well formed, no task is lost, and a passive     *)
(* engine has no timer.  Of one that is left alone, in the sense each      *)
(* theorem states: an occurrence is dispatched once, no task has two runs  *)
(* or is forgotten, no cap is passed, two runs never share a session, a    *)
(* held key belongs to a run, each run has one row, and a timeout aborts   *)
(* only its own turn.                                                      *)
(***************************************************************************)
EXTENDS SchedulerEngine, FiniteSetTheorems, TLAPS

------------------------------------------------------------------------------
(* The lock table.                                                         *)

\* Only a held key has a timeout.
ArmedHeld(L) == \A k \in L.armed : L.holder[k] # None

LockOK(L) == L \in LockTables /\ ArmedHeld(L)

\* acquire() and the hand-over make a table again.
LEMMA SetHolderType ==
  ASSUME NEW L, LockOK(L), NEW t \in Tasks, NEW k \in Keys
  PROVE  LockOK(SetHolder(L, t, k))
BY LocksAssumption DEF LockOK, LockTables, ArmedHeld, SetHolder, Keys

\* Forgetting a holder makes a table again.
LEMMA ClearHolderType ==
  ASSUME NEW L, LockOK(L), NEW k \in Keys
  PROVE  LockOK(ClearHolder(L, k))
BY LocksAssumption DEF LockOK, LockTables, ArmedHeld, ClearHolder, Keys

\* One more task waits.
LEMMA EnqueueType ==
  ASSUME NEW L, LockOK(L), NEW t \in Tasks, NEW k \in Keys
  PROVE  LockOK(Enqueue(L, t, k))
<1>1. Append(L.waiting[k], t) \in Seq(Tasks)
  BY DEF LockOK, LockTables
<1> QED
  BY <1>1 DEF LockOK, LockTables, ArmedHeld, Enqueue

\* release(): the lock goes to a task, or to nobody.
LEMMA HandedToType ==
  ASSUME NEW L, LockOK(L), NEW t \in Tasks
  PROVE  /\ HandedTo(L, t) \in Tasks \cup {None}
         /\ L.byTask[t] \in Keys \cup {None}
<1>1. L.byTask[t] \in Keys \cup {None}
  BY DEF LockOK, LockTables
<1>2. CASE L.byTask[t] \in Keys
  <2>1. L.waiting[L.byTask[t]] \in Seq(Tasks)
    BY <1>2 DEF LockOK, LockTables
  <2> QED
    BY <1>1, <2>1 DEF HandedTo
<1>3. CASE L.byTask[t] = None
  BY <1>1, <1>3 DEF HandedTo
<1> QED
  BY <1>1, <1>2, <1>3

\* release() makes a table again, with the next waiter as holder if there is one.
LEMMA ReleaseType ==
  ASSUME NEW L, LockOK(L), NEW t \in Tasks
  PROVE  LockOK(Release(L, t))
<1> DEFINE k == L.byTask[t]
           C == ClearHolder(L, k)
           W == [C EXCEPT !.waiting[k] = Tail(@)]
<1>1. CASE k = None
  BY <1>1 DEF Release
<1>2. CASE k # None
  <2>1. k \in Keys
    BY <1>2, HandedToType
  <2>2. LockOK(C)
    BY <2>1, ClearHolderType
  <2>3. CASE HandedTo(L, t) = None
    BY <1>2, <2>2, <2>3 DEF Release
  <2>4. CASE HandedTo(L, t) # None
    <3>1. HandedTo(L, t) \in Tasks
      BY <2>4, HandedToType
    <3>2. L.waiting[k] # <<>> /\ L.waiting[k] \in Seq(Tasks)
      BY <2>1, <2>4 DEF HandedTo, LockOK, LockTables
    <3>3. C.waiting = L.waiting
      BY DEF ClearHolder, LockOK, LockTables
    <3>4. Tail(C.waiting[k]) \in Seq(Tasks)
      BY <3>2, <3>3
    <3> HIDE DEF C
    <3>5. LockOK(W)
      BY <2>1, <2>2, <3>4 DEF LockOK, LockTables, ArmedHeld
    <3>6. LockOK(SetHolder(W, HandedTo(L, t), k))
      BY <2>1, <3>1, <3>5, SetHolderType
    <3> QED
      BY <1>2, <2>4, <3>6 DEF Release, C
  <2> QED
    BY <2>3, <2>4
<1> QED
  BY <1>1, <1>2

\* reassign() makes a table again, whether or not the new key is taken.
LEMMA ReassignType ==
  ASSUME NEW L, LockOK(L), NEW old \in Keys, NEW new \in Keys
  PROVE  LockOK(Reassign(L, old, new))
<1>1. CASE old = new \/ L.holder[old] = None \/ L.holder[new] # None
  BY <1>1 DEF Reassign
<1>2. CASE ~(old = new \/ L.holder[old] = None \/ L.holder[new] # None)
  <2> DEFINE H == [L.holder EXCEPT ![old] = None, ![new] = L.holder[old]]
             A == (L.armed \ {old, new}) \cup {k \in {new} : old \in L.armed}
             B == [L.byTask EXCEPT ![L.holder[old]] = new]
             W == IF L.waiting[old] = <<>> THEN L.waiting
                  ELSE [L.waiting EXCEPT ![new] = L.waiting[old], ![old] = <<>>]
  <2>1. Reassign(L, old, new) = [holder |-> H, armed |-> A, byTask |-> B, waiting |-> W]
    BY <1>2 DEF Reassign
  <2>2. H \in [Keys -> Tasks \cup {None}] /\ A \subseteq Keys /\ B \in [Tasks -> Keys \cup {None}]
    BY DEF LockOK, LockTables
  <2>3. W \in [Keys -> Seq(Tasks)]
    <3>1. <<>> \in Seq(Tasks)
      OBVIOUS
    <3> QED
      BY <3>1 DEF LockOK, LockTables
  <2>4. \A k \in A : H[k] # None
    BY <1>2 DEF LockOK, LockTables, ArmedHeld
  <2> HIDE DEF H, A, B, W
  <2> QED
    BY <2>1, <2>2, <2>3, <2>4 DEF LockOK, LockTables, ArmedHeld
<1> QED
  BY <1>1, <1>2

------------------------------------------------------------------------------
(* What the variables can hold.                                            *)

\* Only the first run is under way, and its occurrence is counted.
StartedOK ==
  \A i \in DOMAIN runs : runs[i].started =>
    i = 1 /\ (~runs[i].manual => fired[runs[i].task][runs[i].at] > 0)

IInv == TypeOK /\ ArmedHeld(locks) /\ StartedOK

ExtTypes == [unlinked : BOOLEAN, task : Tasks, file : TaskFiles,
             ask : {"active", "paused", "deleted"}]
FileOK  == disk \in TaskFiles /\ gap \in BOOLEAN /\ (ext = None \/ ext \in ExtTypes)
Bags    == [Tasks -> [Times -> Nat]]
TimerOK == timer \in [Tasks -> Times \cup {None}] /\ stray \in Bags

\* The moment of a call is one of the schedule.
LEMMA TimesAre ==
  ASSUME clock \in 0..MaxTime
  PROVE  clock \in Times /\ clock + 1 \in Times
BY EngineAssumption DEF Times

\* The boundary scheduleOne arms for is one that comes after the clock.
LEMMA ArmForType ==
  ASSUME clock \in 0..MaxTime, NEW t \in Tasks, NEW task, NEW idle
  PROVE  ArmFor(t, task, idle) \in Times \cup {None}
BY TimesAre DEF ArmFor, NextRunAt

\* One more timer of a kind.
LEMMA PlusType ==
  ASSUME NEW bag \in Bags, NEW t \in Tasks, NEW k \in Times \cup {None}
  PROVE  Plus(bag, t, k) \in Bags
BY DEF Plus, Bags

\* A recorded run leaves a task.
LEMMA CountedType ==
  ASSUME NEW task \in Task, NEW k \in Times
  PROVE  Counted(task, k) \in Task
<1>1. task.count + 1 \in Nat /\ k \in Times \cup {Never}
  BY DEF Task
<1>2. [task EXCEPT !.count = task.count + 1, !.last = k] \in Task
  <2> HIDE DEF Times, Never
  <2> QED
    BY <1>1 DEF Task
<1> QED
  BY <1>2 DEF Counted

\* The key a task is locked under.
LEMMA KeyType ==
  ASSUME NEW t \in Tasks, NEW task \in Task
  PROVE  KeyOf(t, task) \in Keys
BY DEF KeyOf, Task, Targets, Keys

\* A task as it is read from the file.
LEMMA ReadType ==
  ASSUME TypeOK
  PROVE  ReadTasks \in TaskFiles
BY DEF ReadTasks, NoTasks, TypeOK, TaskFiles

\* The call being answered, and the task read back for it.
LEMMA FreshType ==
  ASSUME TypeOK, call # None
  PROVE  /\ call \in Calls /\ call.task \in Tasks /\ call.at \in Times
         /\ Fresh \in Task \cup {None} /\ Loaded \in TaskFiles
<1>1. call \in Calls /\ call.task \in Tasks /\ call.at \in Times
  BY DEF TypeOK, Calls
<1>2. Fresh \in Task \cup {None}
  BY <1>1, ReadType DEF Fresh, TaskFiles
<1> QED
  BY <1>1, <1>2 DEF Loaded, TypeOK, TaskFiles

\* persist() keeps the file well formed if the cache is.
LEMMA PersistType ==
  ASSUME TypeOK, mem' \in TaskFiles, Persist
  PROVE  FileOK'
BY DEF TypeOK, Persist, FileOK, ExtTypes

\* scheduleOne registers a timer, and may leave the old one astray.
LEMMA RescheduleType ==
  ASSUME TypeOK, NEW t \in Tasks, NEW task, Reschedule(t, task)
  PROVE  TimerOK'
<1> DEFINE k == ArmFor(t, task, passive)
<1>1. TimerOK /\ clock \in 0..MaxTime /\ k \in Times \cup {None}
  BY ArmForType DEF TypeOK, TimerOK, Bags
<1>2. CASE k = None
  BY <1>1, <1>2 DEF Reschedule, TimerOK
<1>3. CASE k # None
  <2>1. timer[t] \in Times \cup {None}
    BY <1>1 DEF TimerOK
  <2>2. Plus(stray, t, timer[t]) \in Bags
    BY <1>1, <2>1, PlusType DEF TimerOK
  <2> QED
    BY <1>1, <1>3, <2>2 DEF Reschedule, TimerOK
<1> QED
  BY <1>2, <1>3

\* A registered timer is cleared.
LEMMA CancelType ==
  ASSUME TypeOK, NEW t \in Tasks, CancelTimer(t)
  PROVE  TimerOK'
BY DEF TypeOK, CancelTimer, TimerOK, Bags

\* The outcome of a timeout or a preemption of t.
LEMMA TimedOutType ==
  ASSUME TypeOK, NEW m \in TaskFiles, NEW t \in Tasks
  PROVE  TimedOut(m, t) \in TaskFiles /\ Row(m, t) \in {0, 1} /\ Marked(m, t) \subseteq Tasks
<1>1. CASE m[t] = None
  BY <1>1 DEF TimedOut, Row, Marked, TypeOK
<1>2. CASE m[t] # None
  <2>1. m[t] \in Task /\ clock \in Times
    BY <1>2, TimesAre DEF TaskFiles, TypeOK
  <2>2. Counted(m[t], clock) \in Task
    BY <2>1, CountedType
  <2> QED
    BY <1>2, <2>2 DEF TimedOut, Row, Marked, TypeOK, TaskFiles
<1> QED
  BY <1>1, <1>2

\* An abort marks the first run and changes no other field of any run.
LEMMA AbortType ==
  ASSUME TypeOK, StartedOK, NEW m, NEW t \in Tasks
  PROVE  /\ Abort(m, t) \in Seq(Runs) /\ DOMAIN Abort(m, t) = DOMAIN runs
         /\ \A i \in DOMAIN runs :
              /\ Abort(m, t)[i].started = runs[i].started
              /\ Abort(m, t)[i].manual = runs[i].manual
              /\ Abort(m, t)[i].task = runs[i].task /\ Abort(m, t)[i].at = runs[i].at
<1>1. CASE Abort(m, t) = runs
  BY <1>1 DEF TypeOK
<1>2. CASE runs # <<>> /\ Abort(m, t) = [runs EXCEPT ![1].abortedFor = t]
  <2>1. runs \in Seq(Runs) /\ 1 \in DOMAIN runs /\ runs[1] \in Runs
    BY <1>2 DEF TypeOK
  <2>2. [runs[1] EXCEPT !.abortedFor = t] \in Runs
    BY <2>1 DEF Runs
  <2> QED
    BY <1>2, <2>1, <2>2 DEF Runs
<1>3. Abort(m, t) = runs \/ (runs # <<>> /\ Abort(m, t) = [runs EXCEPT ![1].abortedFor = t])
  <2>1. CASE runs # <<>> /\ ~runs[1].started
    <3>1. runs \in Seq(Runs) /\ 1 \in DOMAIN runs /\ runs[1] \in Runs
      BY <2>1 DEF TypeOK
    <3>2. [runs EXCEPT ![1].abortedFor = @] = runs
      BY <3>1 DEF Runs
    <3> QED
      BY <2>1, <3>2 DEF Abort
  <2>2. CASE ~(runs # <<>> /\ ~runs[1].started)
    BY <2>2 DEF Abort
  <2> QED
    BY <2>1, <2>2
<1> QED
  BY <1>1, <1>2, <1>3

------------------------------------------------------------------------------
(* The invariant, in parts that the actions change together.               *)

TimersOK == TimerOK /\ catchup \in Bags /\ passive \in BOOLEAN
LocksOK  == LockOK(locks) /\ recorded \subseteq Tasks
CallOK   == call = None \/ call \in Calls
RunsOK   == runs \in Seq(Runs) /\ fired \in Bags /\ StartedOK
AskedOK  == /\ intent \in [Tasks -> {"unborn", "active", "paused", "deleted"}]
            /\ surplus \in [Tasks -> Int] /\ allowed \in Budgets

\* The parts are the whole.
LEMMA Parts ==
  /\ IInv => /\ mem \in TaskFiles /\ FileOK /\ TimersOK /\ LocksOK /\ CallOK
             /\ RunsOK /\ clock \in 0..MaxTime /\ AskedOK /\ used \in [Kinds -> Nat]
  /\ /\ (mem \in TaskFiles /\ FileOK /\ TimersOK /\ LocksOK /\ CallOK)'
     /\ (RunsOK /\ clock \in 0..MaxTime /\ AskedOK /\ used \in [Kinds -> Nat])'
     => IInv'
BY DEF IInv, TypeOK, FileOK, ExtTypes, TimersOK, TimerOK, LocksOK, LockOK, CallOK,
       RunsOK, AskedOK, Bags

\* What leaves the variables of a part alone leaves the part alone.
LEMMA Framed ==
  /\ FileOK /\ UNCHANGED fileVars => FileOK'
  /\ TimerOK /\ UNCHANGED <<timer, stray>> => TimerOK'
  /\ TimersOK /\ UNCHANGED timerVars => TimersOK'
  /\ LocksOK /\ UNCHANGED <<locks, recorded>> => LocksOK'
  /\ CallOK /\ UNCHANGED call => CallOK'
  /\ RunsOK /\ UNCHANGED <<runs, fired>> => RunsOK'
  /\ AskedOK /\ UNCHANGED <<intent, surplus, allowed>> => AskedOK'
BY DEF FileOK, TimersOK, TimerOK, LocksOK, LockOK, LockTables, ArmedHeld, CallOK,
       RunsOK, StartedOK, AskedOK, fileVars, timerVars

\* An event from outside is counted.
LEMMA SpendType ==
  ASSUME used \in [Kinds -> Nat], NEW kind \in Kinds, Spend(kind)
  PROVE  used' \in [Kinds -> Nat]
BY DEF Spend

\* The call of fireTask is well formed.
LEMMA FireTaskType ==
  ASSUME NEW t \in Tasks, NEW k \in Times, NEW manual \in BOOLEAN,
         FireTask(t, k, manual)
  PROVE  CallOK'
BY DEF FireTask, CallOK, Calls

\* One more timer of a kind, or one less of those there are.
LEMMA MinusType ==
  ASSUME NEW bag \in Bags, NEW t \in Tasks, NEW k \in Times, bag[t][k] > 0
  PROVE  Minus(bag, t, k) \in Bags
<1>1. bag[t] \in [Times -> Nat] /\ bag[t][k] - 1 \in Nat
  BY DEF Bags
<1> QED
  BY <1>1 DEF Minus, Bags

------------------------------------------------------------------------------
(* Timers.                                                                 *)

\* A timer that is due spends nothing, and one that is early counts as such.
LEMMA DueUsed ==
  ASSUME used \in [Kinds -> Nat], NEW k \in Times, clock \in Nat, Due(k)
  PROVE  /\ used' \in [Kinds -> Nat]
         /\ \A kind \in Kinds : kind # "early" => used'[kind] = used[kind]
         /\ used'["early"] >= used["early"]
         /\ k > clock => used'["early"] > used["early"]
<1>1. "early" \in Kinds /\ used["early"] \in Nat
  BY DEF Kinds
<1>2. k \in Int
  BY EngineAssumption DEF Times
<1>3. CASE k <= clock
  BY <1>1, <1>2, <1>3 DEF Due
<1>4. CASE ~(k <= clock)
  BY <1>1, <1>2, <1>4 DEF Due, Spend
<1> QED
  BY <1>3, <1>4

\* A registered timer fires.
LEMMA TimerFiresType ==
  ASSUME IInv, NEW t \in Tasks, TimerFires(t)
  PROVE  IInv'
<1>1. timer[t] \in Times
  BY DEF TimerFires, IInv, TypeOK
<1>2. CallOK'
  BY <1>1, FireTaskType DEF TimerFires
<1>3. TimersOK'
  BY Parts DEF TimerFires, TimersOK, TimerOK
<1>4. used' \in [Kinds -> Nat]
  BY <1>1, DueUsed, Parts DEF TimerFires
<1> QED
  BY <1>2, <1>3, <1>4, Parts, Framed DEF TimerFires, histVars, fileVars

\* A timer that lost its registration fires.
LEMMA StrayFiresType ==
  ASSUME IInv, NEW t \in Tasks, NEW k \in Times, StrayFires(t, k)
  PROVE  IInv'
<1>1. TimerOK /\ timer[t] \in Times \cup {None}
  BY Parts DEF TimersOK, TimerOK
<1>2. CallOK'
  BY FireTaskType DEF StrayFires
<1>3. Minus(stray, t, k) \in Bags
  BY <1>1, MinusType DEF StrayFires, TimerOK
<1>4. stray' \in Bags
  BY <1>1, <1>3, PlusType DEF StrayFires
<1>5. TimersOK'
  BY <1>1, <1>4, Parts DEF StrayFires, TimersOK, TimerOK
<1>6. used' \in [Kinds -> Nat]
  BY DueUsed, Parts DEF StrayFires
<1> QED
  BY <1>2, <1>5, <1>6, Parts, Framed DEF StrayFires, histVars, fileVars

\* A timer of the catch-up fires.
LEMMA CatchUpFiresType ==
  ASSUME IInv, NEW t \in Tasks, NEW k \in Times, CatchUpFires(t, k)
  PROVE  IInv'
<1>1. CallOK'
  BY Parts, Framed, FireTaskType DEF CatchUpFires
<1>2. catchup' \in Bags
  BY Parts, MinusType DEF CatchUpFires, TimersOK
<1>3. TimersOK'
  BY <1>2, Parts, Framed DEF CatchUpFires, TimersOK
<1> QED
  BY <1>1, <1>3, Parts, Framed DEF CatchUpFires, histVars, fileVars

\* A task is run by hand.
LEMMA RunNowType ==
  ASSUME IInv, NEW t \in Tasks, RunNow(t)
  PROVE  IInv'
<1>1. CallOK'
  BY Parts, TimesAre, FireTaskType DEF RunNow
<1>2. used' \in [Kinds -> Nat]
  BY Parts, SpendType DEF RunNow, Kinds
<1> QED
  BY <1>1, <1>2, Parts, Framed DEF RunNow, histVars, fileVars

------------------------------------------------------------------------------
(* The ways fireTask leaves.                                               *)

\* What fireTask has in hand past its early returns.
LEMMA MayRunType ==
  ASSUME IInv, Answered, Fires(Fresh)
  PROVE  /\ TypeOK /\ call \in Calls /\ call.task \in Tasks /\ call.at \in Times
         /\ call.manual \in BOOLEAN
         /\ Fresh \in Task /\ Loaded \in TaskFiles /\ KeyOf(call.task, Fresh) \in Keys
         /\ CallOK'
<1>1. TypeOK /\ call # None
  BY DEF IInv, Answered
<1>2. call \in Calls /\ call.task \in Tasks /\ call.at \in Times /\ Loaded \in TaskFiles
  BY <1>1, FreshType
<1>3. Fresh \in Task
  BY <1>1, FreshType DEF Fires
<1>4. KeyOf(call.task, Fresh) \in Keys
  BY <1>2, <1>3, KeyType
<1>5. call.manual \in BOOLEAN
  BY <1>2 DEF Calls
<1> QED
  BY <1>1, <1>2, <1>3, <1>4, <1>5 DEF CallOK, Answered

\* The boundary is still to come.
LEMMA FireEarlyType ==
  ASSUME IInv, FireEarly
  PROVE  IInv'
<1>1. call.task \in Tasks /\ call' = None /\ mem \in TaskFiles
  BY FreshType DEF IInv, TypeOK, FireEarly
<1>2. TimersOK'
  <2>1. TimersOK /\ Reschedule(call.task, mem[call.task]) /\ UNCHANGED <<catchup, passive>>
    BY Parts DEF FireEarly
  <2>2. TimerOK'
    BY <1>1, <2>1, RescheduleType DEF IInv
  <2> QED
    BY <2>1, <2>2 DEF TimersOK
<1> QED
  BY <1>1, <1>2, Parts, Framed DEF FireEarly, fileVars, histVars, CallOK

\* The task is gone or disabled.
LEMMA FireDroppedType ==
  ASSUME IInv, FireDropped
  PROVE  IInv'
<1>1. TypeOK /\ call # None /\ CallOK'
  BY DEF IInv, FireDropped, Answered, CallOK
<1>2. call.task \in Tasks /\ mem' \in TaskFiles
  BY <1>1, FreshType DEF FireDropped
<1>3. TimersOK'
  BY <1>1, <1>2, CancelType, Parts DEF FireDropped, TimersOK
<1> QED
  BY <1>1, <1>2, <1>3, Parts, Framed DEF FireDropped, histVars, fileVars

\* The task has used up its runs.
LEMMA FireCappedType ==
  ASSUME IInv, FireCapped
  PROVE  IInv'
<1>1. Answered /\ Fires(Fresh)
  BY DEF FireCapped
<1>2. /\ TypeOK /\ call.task \in Tasks /\ Fresh \in Task /\ Loaded \in TaskFiles
      /\ CallOK'
  BY <1>1, MayRunType
<1>3. mem' \in TaskFiles
  <2>1. [Fresh EXCEPT !.enabled = FALSE] \in Task
    BY <1>2 DEF Task
  <2>2. mem' = [mem EXCEPT ![call.task] = [Fresh EXCEPT !.enabled = FALSE]]
    BY <1>2 DEF FireCapped, Loaded, TypeOK, TaskFiles
  <2> QED
    BY <1>2, <2>1, <2>2 DEF TypeOK, TaskFiles
<1>4. FileOK'
  BY <1>2, <1>3, PersistType DEF FireCapped
<1>5. TimersOK'
  BY <1>2, CancelType, Parts DEF FireCapped, TimersOK
<1> QED
  BY <1>2, <1>3, <1>4, <1>5, Parts, Framed DEF FireCapped, histVars

\* The session is busy and the task skips the occurrence.
LEMMA FireSkippedType ==
  ASSUME IInv, FireSkipped
  PROVE  IInv'
<1>1. Answered /\ Fires(Fresh)
  BY DEF FireSkipped, MayRun
<1>2. TypeOK /\ call.task \in Tasks /\ call.at \in Times /\ Fresh \in Task /\ CallOK'
  BY <1>1, MayRunType
<1>3. mem' \in TaskFiles
  <2>1. Counted(Fresh, call.at) \in Task
    BY <1>2, CountedType
  <2> QED
    BY <1>2, <2>1 DEF FireSkipped, TypeOK, TaskFiles
<1>4. FileOK'
  BY <1>2, <1>3, PersistType DEF FireSkipped
<1> QED
  BY <1>2, <1>3, <1>4, Parts, Framed DEF FireSkipped, histVars

\* The session is busy and the task waits for it.
LEMMA FireQueuedType ==
  ASSUME IInv, FireQueued
  PROVE  IInv'
<1>1. Answered /\ Fires(Fresh)
  BY DEF FireQueued, MayRun
<1>2. /\ call.task \in Tasks /\ KeyOf(call.task, Fresh) \in Keys
      /\ Loaded \in TaskFiles /\ CallOK'
  BY <1>1, MayRunType
<1>3. LockOK(locks')
  BY <1>2, EnqueueType, Parts DEF FireQueued, LocksOK
<1>4. LocksOK'
  BY <1>3, Parts DEF FireQueued, LocksOK, LockOK, LockTables, ArmedHeld
<1> QED
  BY <1>2, <1>4, Parts, Framed DEF FireQueued, histVars

\* A run joins the queue of the runtime.
LEMMA NewRunType ==
  ASSUME IInv, Answered, Fires(Fresh), NEW q \in Seq(Runs),
         DOMAIN q = DOMAIN runs,
         \A i \in DOMAIN runs : /\ q[i].started = runs[i].started
                                /\ q[i].manual = runs[i].manual
                                /\ q[i].task = runs[i].task /\ q[i].at = runs[i].at,
         runs' = Append(q, NewRun), UNCHANGED fired
  PROVE  RunsOK'
<1>1. /\ call.task \in Tasks /\ call.at \in Times /\ call.manual \in BOOLEAN
      /\ Fresh \in Task /\ KeyOf(call.task, Fresh) \in Keys
  BY MayRunType
<1>2. NewRun \in Runs
  BY <1>1 DEF NewRun, Runs
<1>3. runs' \in Seq(Runs) /\ DOMAIN runs' = DOMAIN q \cup {Len(q) + 1}
  BY <1>2
<1>4. \A i \in DOMAIN q : runs'[i] = q[i]
  OBVIOUS
<1>5. ~runs'[Len(q) + 1].started
  <2>1. runs'[Len(q) + 1] = NewRun
    BY <1>2
  <2> QED
    BY <2>1 DEF NewRun
<1>6. StartedOK /\ fired \in Bags
  BY Parts DEF RunsOK
<1>7. StartedOK'
  BY <1>3, <1>4, <1>5, <1>6 DEF StartedOK
<1> QED
  BY <1>3, <1>6, <1>7 DEF RunsOK

\* The session is free, or already the task's own.
LEMMA FireGrantedType ==
  ASSUME IInv, FireGranted
  PROVE  IInv'
<1>1. Answered /\ Fires(Fresh)
  BY DEF FireGranted, MayRun
<1>2. /\ call.task \in Tasks /\ KeyOf(call.task, Fresh) \in Keys
      /\ Loaded \in TaskFiles /\ CallOK'
  BY <1>1, MayRunType
<1>3. LockOK(locks')
  BY <1>2, SetHolderType, Parts DEF FireGranted, LocksOK
<1>4. LocksOK'
  BY <1>3, Parts DEF FireGranted, LocksOK, LockOK, LockTables, ArmedHeld
<1>5. RunsOK'
  BY <1>1, NewRunType, Parts DEF FireGranted, RunsOK, histVars
<1> QED
  BY <1>2, <1>4, <1>5, Parts, Framed DEF FireGranted, histVars

\* A key that makes the outcome a preemption has a holder.
LEMMA PreemptedHolds ==
  ASSUME IInv, NEW k \in Keys, NEW t, NEW policy,
         AcquireOutcome(locks, t, k, policy) = "preempt"
  PROVE  locks.holder[k] \in Tasks
BY DEF AcquireOutcome, IInv, TypeOK, LockTables

\* The session is taken from its holder.
LEMMA FirePreemptsType ==
  ASSUME IInv, FirePreempts
  PROVE  IInv'
<1> DEFINE k == KeyOf(call.task, Fresh)
           old == locks.holder[k]
<1>1. Answered /\ Fires(Fresh)
  BY DEF FirePreempts, MayRun
<1>2. TypeOK /\ call.task \in Tasks /\ k \in Keys /\ Loaded \in TaskFiles /\ CallOK'
  BY <1>1, MayRunType
<1>3. old \in Tasks
  BY <1>2, PreemptedHolds DEF FirePreempts, Outcome
<1>4. /\ TimedOut(Loaded, old) \in TaskFiles /\ Row(Loaded, old) \in {0, 1}
      /\ Marked(Loaded, old) \subseteq Tasks
  BY <1>2, <1>3, TimedOutType
<1>5. mem' \in TaskFiles /\ recorded' \subseteq Tasks
  BY <1>4 DEF FirePreempts
<1>6. LockOK(locks')
  <2>1. LockOK(ClearHolder(locks, k))
    BY <1>2, ClearHolderType, Parts DEF LocksOK
  <2> QED
    BY <1>2, <2>1, SetHolderType DEF FirePreempts
<1>7. LocksOK'
  BY <1>5, <1>6 DEF LocksOK, LockOK, LockTables, ArmedHeld
<1>8. RunsOK'
  <2>1. /\ Abort(Loaded, old) \in Seq(Runs) /\ DOMAIN Abort(Loaded, old) = DOMAIN runs
        /\ \A i \in DOMAIN runs :
             /\ Abort(Loaded, old)[i].started = runs[i].started
             /\ Abort(Loaded, old)[i].manual = runs[i].manual
             /\ Abort(Loaded, old)[i].task = runs[i].task
             /\ Abort(Loaded, old)[i].at = runs[i].at
    BY <1>2, <1>3, AbortType DEF IInv
  <2>2. runs' = Append(Abort(Loaded, old), NewRun) /\ UNCHANGED fired
    BY DEF FirePreempts
  <2> HIDE DEF old
  <2> QED
    BY <1>1, <2>1, <2>2, NewRunType
<1>9. FileOK'
  BY <1>2, <1>5, PersistType, Parts, Framed DEF FirePreempts
<1>10. AskedOK'
  <2>1. surplus' = [surplus EXCEPT ![old] = @ + Row(Loaded, old)]
    BY DEF FirePreempts
  <2>2. surplus \in [Tasks -> Int]
    BY Parts DEF AskedOK
  <2>3. surplus' \in [Tasks -> Int]
    BY <1>3, <1>4, <2>1, <2>2
  <2> QED
    BY <2>3, Parts DEF AskedOK, FirePreempts
<1> QED
  BY <1>2, <1>5, <1>7, <1>8, <1>9, <1>10, Parts, Framed DEF FirePreempts

------------------------------------------------------------------------------
(* The queue of the runtime.                                               *)

\* The run at the head of the queue.
LEMMA CurrentType ==
  ASSUME IInv, runs # <<>>
  PROVE  /\ 1 \in DOMAIN runs /\ Current = runs[1] /\ Current \in Runs
         /\ Current.task \in Tasks /\ Current.at \in Times /\ Current.key \in Keys
         /\ Current.snap \in Task /\ Current.manual \in BOOLEAN
<1>1. runs \in Seq(Runs) /\ 1 \in DOMAIN runs /\ Current = runs[1]
  BY DEF IInv, TypeOK, Current
<1>2. Current \in Runs
  BY <1>1
<1> QED
  BY <1>1, <1>2 DEF Runs

\* The run begins its dispatch, and its occurrence is counted.
LEMMA StartDispatchType ==
  ASSUME IInv, StartDispatch
  PROVE  IInv'
<1>1. /\ 1 \in DOMAIN runs /\ Current = runs[1] /\ Current \in Runs
      /\ Current.task \in Tasks /\ Current.at \in Times
  BY CurrentType DEF StartDispatch
<1>2. runs \in Seq(Runs) /\ fired \in Bags /\ StartedOK
  BY Parts DEF RunsOK
<1>3. [runs[1] EXCEPT !.started = TRUE] \in Runs
  BY <1>1 DEF Runs
<1>4. runs' \in Seq(Runs) /\ DOMAIN runs' = DOMAIN runs
  BY <1>1, <1>2, <1>3 DEF StartDispatch
<1>5. fired' \in Bags
  BY <1>1, <1>2, PlusType DEF StartDispatch
<1>6. StartedOK'
  <2>1. \A i \in DOMAIN runs : i # 1 => ~runs'[i].started
    BY <1>2 DEF StartDispatch, StartedOK
  <2>2. ~runs'[1].manual => fired'[runs'[1].task][runs'[1].at] > 0
    <3>1. runs'[1] = [runs[1] EXCEPT !.started = TRUE]
      BY <1>1, <1>2 DEF StartDispatch
    <3>2. runs'[1].manual = Current.manual /\ runs'[1].task = Current.task
            /\ runs'[1].at = Current.at
      BY <1>1, <3>1 DEF Runs
    <3>3. fired[Current.task] \in [Times -> Nat] /\ fired[Current.task][Current.at] \in Nat
      BY <1>1, <1>2 DEF Bags
    <3>4. CASE Current.manual
      BY <3>2, <3>4
    <3>5. CASE ~Current.manual /\ Current.at # None
      <4>1. fired' = [fired EXCEPT ![Current.task][Current.at] = @ + 1]
        BY <3>5 DEF StartDispatch, Plus
      <4>2. fired'[Current.task][Current.at] = fired[Current.task][Current.at] + 1
        BY <1>1, <1>2, <3>3, <4>1 DEF Bags
      <4> QED
        BY <3>2, <3>3, <4>2
    <3>6. Current.at # None
      BY <1>1, EngineAssumption
    <3> QED
      BY <3>4, <3>5, <3>6
  <2> QED
    BY <1>4, <2>1, <2>2 DEF StartedOK
<1>7. RunsOK'
  BY <1>4, <1>5, <1>6 DEF RunsOK
<1> QED
  BY <1>7, Parts, Framed DEF StartDispatch

\* The task as the run leaves it is a task.
LEMMA AfterRowType ==
  ASSUME IInv, runs # <<>>, NEW s \in Sessions \cup {None}
  PROVE  AfterRow(s) \in TaskFiles
<1>1. Current.task \in Tasks /\ Current.at \in Times /\ Current.snap \in Task
  BY CurrentType
<1>2. Pinned(s) \in Task
  BY <1>1 DEF Pinned, Task, Targets
<1>3. Counted(Pinned(s), Current.at) \in Task
  BY <1>1, <1>2, CountedType
<1> QED
  BY <1>1, <1>3 DEF AfterRow, IInv, TypeOK, TaskFiles

\* What follows the row keeps the cache and the timers well formed.
LEMMA WindUpType ==
  ASSUME IInv, runs # <<>>, NEW m \in TaskFiles, WindUp(m, Current.task)
  PROVE  mem' \in TaskFiles /\ TimerOK'
<1> DEFINE t == Current.task
<1>1. TypeOK /\ t \in Tasks /\ Current.at \in Times /\ Current.snap \in Task /\ TimerOK
  BY CurrentType, Parts DEF IInv, TimersOK
<1>2. UNCHANGED <<timer, stray>> => TimerOK'
  BY <1>1, Framed
<1>3. Counted(Current.snap, Current.at) \in Task
  BY <1>1, CountedType
<1>4. m[t] # None => [m EXCEPT ![t].enabled = FALSE] \in TaskFiles
  <2>1. SUFFICES ASSUME m[t] # None
                 PROVE  [m EXCEPT ![t].enabled = FALSE] \in TaskFiles
    OBVIOUS
  <2>2. m[t] \in Task
    BY <1>1, <2>1 DEF TaskFiles
  <2>3. [m[t] EXCEPT !.enabled = FALSE] \in Task
    BY <2>2 DEF Task
  <2> QED
    BY <2>3 DEF TaskFiles
<1>5. CASE m[t] = None /\ mem' = [m EXCEPT ![t] = Counted(Current.snap, Current.at)]
           /\ UNCHANGED <<timer, stray>>
  BY <1>2, <1>3, <1>5 DEF TaskFiles
<1>6. CASE mem' = m /\ UNCHANGED <<timer, stray>>
  BY <1>2, <1>6
<1>7. CASE m[t] # None /\ mem' = [m EXCEPT ![t].enabled = FALSE] /\ CancelTimer(t)
  BY <1>1, <1>4, <1>7, CancelType
<1>8. CASE mem' = m /\ Reschedule(t, m[t])
  BY <1>1, <1>8, RescheduleType
<1>9. CASE /\ m[t] # None /\ UNCHANGED <<timer, stray>>
           /\ mem' = IF Current.manual THEN m ELSE [m EXCEPT ![t].enabled = FALSE]
  BY <1>2, <1>4, <1>9
<1> QED
  BY <1>5, <1>6, <1>7, <1>8, <1>9 DEF WindUp, GoesOn

\* No run but the first was under way: the rest of the queue has not started.
LEMMA TailType ==
  ASSUME IInv, runs # <<>>, runs' = Tail(runs), UNCHANGED fired
  PROVE  RunsOK'
<1>1. runs \in Seq(Runs) /\ StartedOK /\ fired \in Bags
  BY Parts DEF RunsOK
<1>2. runs' \in Seq(Runs)
  BY <1>1
<1>3. \A i \in DOMAIN runs' : i + 1 \in DOMAIN runs /\ runs'[i] = runs[i + 1]
  BY <1>1
<1>4. \A i \in DOMAIN runs' : i + 1 # 1
  BY <1>2
<1>5. StartedOK'
  BY <1>1, <1>3, <1>4 DEF StartedOK
<1> QED
  BY <1>1, <1>2, <1>5 DEF RunsOK

\* The end of a run: row, timer, lock, and the next waiter.
LEMMA RunEndsType ==
  ASSUME IInv, runs # <<>>, call = None, NEW s \in Sessions \cup {None}, RunEnds(s),
         used' \in [Kinds -> Nat]
  PROVE  IInv'
<1> DEFINE t == Current.task
           L == IF s = None THEN locks ELSE Reassign(locks, Current.key, s)
           rows == (IF t \in recorded THEN 0 ELSE 1)
                     + (IF AfterRow(s)[t] = None THEN 1 ELSE 0)
<1>1. TypeOK /\ t \in Tasks /\ Current.key \in Keys /\ clock \in Times
  BY CurrentType, TimesAre DEF IInv, TypeOK
<1>2. AfterRow(s) \in TaskFiles /\ WindUp(AfterRow(s), t)
  BY AfterRowType DEF RunEnds
<1>3. mem' \in TaskFiles /\ TimerOK'
  BY <1>2, WindUpType
<1>4. TimersOK'
  BY <1>3, Parts DEF RunEnds, TimersOK
<1>5. FileOK'
  BY <1>1, <1>3, PersistType, Parts, Framed DEF RunEnds
<1>6. LockOK(L)
  BY <1>1, ReassignType, Parts DEF LocksOK, Keys
<1>7. locks' = Release(L, t) /\ recorded' = recorded \ {t}
  BY DEF RunEnds
<1>8. LocksOK'
  <2> HIDE DEF L
  <2>1. LockOK(locks')
    BY <1>1, <1>6, <1>7, ReleaseType
  <2> QED
    BY <1>7, <2>1, Parts DEF LocksOK, LockOK, LockTables, ArmedHeld
<1>9. CallOK'
  <2>1. IF HandedTo(L, t) = None THEN UNCHANGED call
        ELSE FireTask(HandedTo(L, t), clock, FALSE)
    BY DEF RunEnds
  <2> HIDE DEF L
  <2>2. HandedTo(L, t) \in Tasks \cup {None}
    BY <1>1, <1>6, HandedToType
  <2> QED
    BY <1>1, <2>1, <2>2, FireTaskType, Parts, Framed
<1>10. RunsOK'
  BY TailType DEF RunEnds
<1>11. AskedOK'
  <2>1. surplus' = [surplus EXCEPT ![t] = @ + rows - 1] /\ UNCHANGED <<intent, allowed>>
    BY DEF RunEnds
  <2>2. rows \in Int
    OBVIOUS
  <2> HIDE DEF rows
  <2> QED
    BY <1>1, <2>1, <2>2, Parts DEF AskedOK
<1>12. clock' \in 0..MaxTime
  BY Parts DEF RunEnds
<1> QED
  BY <1>3, <1>4, <1>5, <1>8, <1>9, <1>10, <1>11, <1>12, Parts

\* Whether the prompt settled or was never sent.
LEMMA DispatchReturnsType ==
  ASSUME IInv, DispatchReturns
  PROVE  IInv'
<1>1. PICK s \in Reported :
        RunEnds(s) /\ IF Continued(s) THEN Spend("continue") ELSE UNCHANGED used
  BY DEF DispatchReturns
<1>2. s \in Sessions \cup {None}
  BY DEF Reported
<1>3. used' \in [Kinds -> Nat]
  BY <1>1, SpendType, Parts DEF Kinds
<1> QED
  BY <1>1, <1>2, <1>3, RunEndsType DEF DispatchReturns, Quiet

\* A run its timeout or its preemption has recorded is not dispatched.
LEMMA CancelledType ==
  ASSUME IInv, CancelledBeforeDispatch
  PROVE  IInv'
BY RunEndsType, Parts DEF CancelledBeforeDispatch

\* A lock times out: its holder is recorded and the turn aborted.
LEMMA TimeoutFiresType ==
  ASSUME IInv, NEW k \in Keys, TimeoutFires(k)
  PROVE  IInv'
<1> DEFINE t == locks.holder[k]
<1>1. TypeOK /\ LockOK(locks)
  BY Parts DEF IInv, LocksOK
<1>2. t \in Tasks
  BY <1>1 DEF TimeoutFires, LockOK, LockTables, ArmedHeld
<1>3. TimedOut(mem, t) \in TaskFiles /\ Row(mem, t) \in {0, 1} /\ Marked(mem, t) \subseteq Tasks
  BY <1>1, <1>2, TimedOutType DEF TypeOK
<1>4. mem' \in TaskFiles
  BY <1>3 DEF TimeoutFires
<1>5. FileOK'
  BY <1>1, <1>4, PersistType, Parts, Framed DEF TimeoutFires
<1>6. LocksOK'
  BY <1>1, <1>3 DEF TimeoutFires, LocksOK, LockOK, LockTables, ArmedHeld
<1>7. RunsOK'
  <2>1. /\ Abort(mem, t) \in Seq(Runs) /\ DOMAIN Abort(mem, t) = DOMAIN runs
        /\ \A i \in DOMAIN runs :
             /\ Abort(mem, t)[i].started = runs[i].started
             /\ Abort(mem, t)[i].manual = runs[i].manual
             /\ Abort(mem, t)[i].task = runs[i].task
             /\ Abort(mem, t)[i].at = runs[i].at
    BY <1>2, AbortType DEF IInv
  <2>2. runs' = Abort(mem, t) /\ UNCHANGED fired
    BY DEF TimeoutFires
  <2> HIDE DEF t
  <2> QED
    BY <2>1, <2>2, Parts DEF RunsOK, StartedOK
<1>8. AskedOK'
  <2>1. surplus' = [surplus EXCEPT ![t] = @ + Row(mem, t)] /\ UNCHANGED <<intent, allowed>>
    BY DEF TimeoutFires
  <2> HIDE DEF t
  <2> QED
    BY <1>2, <1>3, <2>1, Parts DEF AskedOK
<1>9. used' \in [Kinds -> Nat]
  BY SpendType, Parts DEF TimeoutFires, Kinds
<1> QED
  BY <1>4, <1>5, <1>6, <1>7, <1>8, <1>9, Parts, Framed DEF TimeoutFires

------------------------------------------------------------------------------
(* Requests of the user, other processes, and time.                        *)

\* A task is created.
LEMMA CreateType ==
  ASSUME IInv, NEW t \in Tasks, NEW target \in Targets,
         NEW policy \in {"skip", "queue", "preempt"}, Create(t, target, policy)
  PROVE  IInv'
<1>1. TypeOK /\ mem \in TaskFiles
  BY Parts DEF IInv
<1>2. NewTask(target, policy) \in Task
  BY DEF NewTask, Task
<1>3. mem' \in TaskFiles
  BY <1>1, <1>2 DEF Create, TaskFiles
<1>4. FileOK'
  BY <1>1, <1>3, PersistType DEF Create
<1>5. TimersOK'
  BY <1>1, RescheduleType, Parts DEF Create, TimersOK
<1>6. AskedOK'
  BY Parts DEF Create, AskedOK
<1>7. used' \in [Kinds -> Nat]
  BY SpendType, Parts DEF Create, Kinds
<1> QED
  BY <1>3, <1>4, <1>5, <1>6, <1>7, Parts, Framed DEF Create, runVars

\* A task is paused, resumed or given another session.
LEMMA UpdateType ==
  ASSUME IInv, NEW t \in Tasks, NEW enabled \in BOOLEAN, NEW target \in Targets,
         Update(t, enabled, target)
  PROVE  IInv'
<1>1. TypeOK /\ mem \in TaskFiles /\ clock \in 0..MaxTime
  BY Parts DEF IInv
<1>2. mem' \in TaskFiles
  <2>1. mem[t] \in Task
    BY <1>1 DEF Update, TaskFiles
  <2>2. [mem[t] EXCEPT !.enabled = enabled, !.target = target] \in Task
    BY <2>1 DEF Task
  <2>3. mem' = [mem EXCEPT ![t] = [mem[t] EXCEPT !.enabled = enabled, !.target = target]]
    BY <1>1 DEF Update, TaskFiles
  <2> QED
    BY <1>1, <2>2, <2>3 DEF TaskFiles
<1>3. FileOK'
  BY <1>1, <1>2, PersistType DEF Update
<1>4. ArmFor(t, mem'[t], passive) \in Times \cup {None}
  BY <1>1, ArmForType
<1>5. TimersOK'
  BY <1>4, Parts DEF Update, TimersOK, TimerOK
<1>6. AskedOK'
  BY Parts DEF Update, AskedOK
<1>7. used' \in [Kinds -> Nat]
  BY SpendType, Parts DEF Update, Kinds
<1> QED
  BY <1>2, <1>3, <1>5, <1>6, <1>7, Parts, Framed DEF Update, runVars

\* A task is deleted.
LEMMA DeleteType ==
  ASSUME IInv, NEW t \in Tasks, Delete(t)
  PROVE  IInv'
<1>1. TypeOK /\ mem \in TaskFiles
  BY Parts DEF IInv
<1>2. mem' \in TaskFiles
  BY <1>1 DEF Delete, TaskFiles
<1>3. FileOK'
  BY <1>1, <1>2, PersistType DEF Delete
<1>4. TimersOK'
  BY <1>1, CancelType, Parts DEF Delete, TimersOK
<1>5. AskedOK'
  BY Parts DEF Delete, AskedOK
<1>6. used' \in [Kinds -> Nat]
  BY SpendType, Parts DEF Delete, Kinds
<1> QED
  BY <1>2, <1>3, <1>4, <1>5, <1>6, Parts, Framed DEF Delete, runVars

\* The scope is loaded again.
LEMMA ReloadType ==
  ASSUME IInv, NEW active \in BOOLEAN, Reload(active)
  PROVE  IInv'
<1>1. TypeOK /\ TimersOK /\ clock \in 0..MaxTime
  BY Parts DEF IInv
<1>2. mem' \in TaskFiles
  BY <1>1, ReadType DEF Reload, Load
<1>3. TimersOK'
  <2>1. CASE active
    <3>1. timer' = [t \in Tasks |-> ArmFor(t, mem'[t], FALSE)]
      BY <2>1 DEF Reload, Load
    <3>2. timer' \in [Tasks -> Times \cup {None}]
      BY <1>1, <3>1, ArmForType
    <3>3. catchup' \in Bags
      BY <1>1, <2>1 DEF Reload, Load, TimersOK, Bags
    <3> QED
      BY <1>1, <3>2, <3>3 DEF Reload, Load, TimersOK, TimerOK
  <2>2. CASE ~active
    BY <1>1, <2>2 DEF Reload, Load, TimersOK, TimerOK
  <2> QED
    BY <2>1, <2>2
<1>4. used' \in [Kinds -> Nat]
  BY SpendType, Parts DEF Reload, Kinds
<1> QED
  BY <1>2, <1>3, <1>4, Parts, Framed DEF Reload, runVars, histVars

\* A boundary passes.
LEMMA TickType ==
  ASSUME IInv, Tick
  PROVE  IInv'
<1>1. clock' \in 0..MaxTime
  BY EngineAssumption, Parts DEF Tick
<1> QED
  BY <1>1, Parts, Framed DEF Tick, runVars, histVars

\* The clock is set back.
LEMMA SetBackType ==
  ASSUME IInv, SetBack
  PROVE  IInv'
<1>1. clock' \in 0..MaxTime
  BY EngineAssumption, Parts DEF SetBack
<1>2. used' \in [Kinds -> Nat]
  BY SpendType, Parts DEF SetBack, Kinds
<1> QED
  BY <1>1, <1>2, Parts, Framed DEF SetBack, runVars, histVars

\* The scope lock is lost.
LEMMA DemoteType ==
  ASSUME IInv, Demote
  PROVE  IInv'
<1>1. TimersOK'
  BY Parts DEF Demote, TimersOK, TimerOK
<1>2. used' \in [Kinds -> Nat]
  BY SpendType, Parts DEF Demote, Kinds
<1> QED
  BY <1>1, <1>2, Parts, Framed DEF Demote, runVars, histVars

\* No timer at all.
LEMMA NoTimersType == NoTimers \in Bags
BY DEF NoTimers, Bags

\* A new lock table.
LEMMA UnlockedType == LockOK(Unlocked)
<1>1. <<>> \in Seq(Tasks)
  OBVIOUS
<1> QED
  BY <1>1 DEF LockOK, LockTables, ArmedHeld, Unlocked

\* A death forgets all but the file; the dispatch it cut short was counted.
LEMMA RestartType ==
  ASSUME IInv, NEW cut \in BOOLEAN, Restart(cut)
  PROVE  IInv'
<1>1. TypeOK /\ clock \in 0..MaxTime
  BY Parts DEF IInv
<1>2. mem' \in TaskFiles /\ FileOK'
  <2>1. NoTasks \in TaskFiles
    BY DEF NoTasks, TaskFiles
  <2>2. mem' \in TaskFiles /\ disk' \in TaskFiles /\ gap' \in BOOLEAN /\ ext' = ext
    BY <1>1, <2>1, ReadType DEF Restart, TypeOK
  <2> QED
    BY <2>2, Parts DEF FileOK
<1>3. TimersOK'
  <2>1. timer' \in [Tasks -> Times \cup {None}]
    BY <1>1, ArmForType DEF Restart
  <2>2. catchup' \in Bags
    BY DEF Restart, Bags
  <2> QED
    BY <2>1, <2>2, NoTimersType DEF Restart, TimersOK, TimerOK
<1>4. LocksOK'
  <2>1. locks' = Unlocked /\ recorded' = {}
    BY DEF Restart
  <2>2. LockOK(locks')
    BY <2>1, UnlockedType
  <2> QED
    BY <2>1, <2>2 DEF LocksOK, LockOK, LockTables, ArmedHeld
<1>5. RunsOK'
  <2>1. runs' = <<>>
    BY DEF Restart
  <2>2. fired' \in Bags
    <3>1. fired \in Bags /\ StartedOK
      BY Parts DEF RunsOK
    <3>2. CASE runs # <<>> /\ Current.started /\ ~Current.manual
      <4>1. fired[Current.task][Current.at] > 0
        BY <3>1, <3>2, CurrentType DEF StartedOK
      <4> QED
        BY <3>1, <3>2, <4>1, CurrentType, MinusType DEF Restart
    <3> QED
      BY <3>1, <3>2 DEF Restart
  <2> QED
    BY <2>1, <2>2 DEF RunsOK, StartedOK
<1>6. CallOK' /\ AskedOK'
  BY Parts DEF Restart, CallOK, AskedOK
<1>7. used' \in [Kinds -> Nat]
  <2>1. Spend("cut") \/ Spend("restart")
    BY DEF Restart
  <2> QED
    BY <2>1, SpendType, Parts DEF Kinds
<1>8. clock' = clock
  BY DEF Restart
<1> QED
  BY <1>2, <1>3, <1>4, <1>5, <1>6, <1>7, <1>8, Parts

\* The edit of another process: read, unlink, rename.
LEMMA ExternalReadType ==
  ASSUME IInv, NEW t \in Tasks, NEW ask \in {"active", "paused", "deleted"},
         ExternalRead(t, ask)
  PROVE  IInv'
<1> DEFINE file == IF ask = "deleted" THEN [disk EXCEPT ![t] = None]
                   ELSE [disk EXCEPT ![t].enabled = (ask = "active")]
<1>1. FileOK
  BY Parts
<1>2. disk[t] \in Task
  BY <1>1 DEF ExternalRead, ReadTasks, NoTasks, FileOK, TaskFiles
<1>3. file \in TaskFiles
  <2>1. [disk[t] EXCEPT !.enabled = (ask = "active")] \in Task
    BY <1>2 DEF Task
  <2> QED
    BY <1>1, <2>1 DEF FileOK, TaskFiles
<1>4. ext' = [unlinked |-> FALSE, task |-> t, ask |-> ask, file |-> file]
  BY DEF ExternalRead
<1>5. FileOK'
  <2> HIDE DEF file
  <2>1. ext' \in ExtTypes
    BY <1>3, <1>4 DEF ExtTypes
  <2> QED
    BY <1>1, <2>1 DEF ExternalRead, FileOK
<1>6. used' \in [Kinds -> Nat]
  BY SpendType, Parts DEF ExternalRead, Kinds
<1> QED
  BY <1>5, <1>6, Parts, Framed DEF ExternalRead, runVars, histVars

\* The file is unlinked.
LEMMA ExternalUnlinkType ==
  ASSUME IInv, ExternalUnlink
  PROVE  IInv'
<1>1. FileOK'
  BY Parts DEF ExternalUnlink, FileOK, ExtTypes
<1> QED
  BY <1>1, Parts, Framed DEF ExternalUnlink, runVars, histVars

\* The new file is in place.
LEMMA ExternalRenameType ==
  ASSUME IInv, ExternalRename
  PROVE  IInv'
<1>1. ext \in ExtTypes
  BY Parts DEF ExternalRename, FileOK
<1>2. FileOK' /\ AskedOK'
  BY <1>1, Parts DEF ExternalRename, FileOK, ExtTypes, AskedOK
<1> QED
  BY <1>2, Parts, Framed DEF ExternalRename, runVars

------------------------------------------------------------------------------
(* The invariant holds.                                                    *)

\* The invariant holds at first.
LEMMA InitType == Init => IInv
<1> SUFFICES ASSUME Init PROVE IInv
  OBVIOUS
<1>1. 0 \in 0..MaxTime
  BY EngineAssumption
<1>2. mem \in TaskFiles /\ disk \in TaskFiles /\ clock = 0
  BY EngineAssumption DEF Init
<1>3. timer \in [Tasks -> Times \cup {None}]
  BY <1>1, <1>2, ArmForType DEF Init
<1>4. stray \in Bags /\ catchup \in Bags /\ fired \in Bags
  BY NoTimersType DEF Init
<1>5. locks \in LockTables /\ ArmedHeld(locks)
  BY UnlockedType DEF Init, LockOK
<1>6. runs \in Seq(Runs) /\ runs = <<>>
  BY DEF Init
<1>7. gap = FALSE /\ ext = None /\ passive = FALSE /\ recorded = {} /\ call = None
  BY DEF Init
<1>8. /\ surplus \in [Tasks -> Int] /\ allowed \in Budgets /\ used \in [Kinds -> Nat]
      /\ intent \in [Tasks -> {"unborn", "active", "paused", "deleted"}]
  <2>1. surplus = [t \in Tasks |-> 0] /\ allowed \in Budgets /\ used = [k \in Kinds |-> 0]
    BY DEF Init
  <2>2. intent = [t \in Tasks |-> IF mem[t] # None THEN "active" ELSE "unborn"]
    BY DEF Init
  <2> QED
    BY <2>1, <2>2
<1>9. StartedOK
  BY <1>6 DEF StartedOK
<1> QED
  BY <1>1, <1>2, <1>3, <1>4, <1>5, <1>6, <1>7, <1>8, <1>9 DEF IInv, TypeOK, Bags

\* The invariant survives a step of something else.
LEMMA StutterType == IInv /\ UNCHANGED vars => IInv'
BY Parts, Framed DEF vars, runVars, histVars

\* Every step preserves the invariant.
LEMMA StepType == IInv /\ [Next]_vars => IInv'
<1> SUFFICES ASSUME IInv, [Next]_vars PROVE IInv'
  OBVIOUS
<1>1. CASE Fire
  BY <1>1, FireEarlyType, FireDroppedType, FireCappedType, FireSkippedType, FireQueuedType,
     FireGrantedType, FirePreemptsType DEF Fire
<1>2. CASE StartDispatch \/ DispatchReturns \/ CancelledBeforeDispatch
  BY <1>2, StartDispatchType, DispatchReturnsType, CancelledType
<1>3. CASE \/ Tick \/ SetBack \/ Demote \/ ExternalUnlink \/ ExternalRename
            \/ \E cut \in BOOLEAN : Restart(cut)
  BY <1>3, TickType, SetBackType, DemoteType, RestartType, ExternalUnlinkType, ExternalRenameType
<1>4. CASE \E active \in BOOLEAN : Reload(active)
  BY <1>4, ReloadType
<1>5. CASE \E k \in Keys : TimeoutFires(k)
  BY <1>5, TimeoutFiresType
<1>6. ASSUME NEW t \in Tasks, TimerFires(t) \/ RunNow(t) \/ Delete(t)
      PROVE  IInv'
  BY <1>6, TimerFiresType, RunNowType, DeleteType
<1>7. ASSUME NEW t \in Tasks, NEW k \in Times, StrayFires(t, k) \/ CatchUpFires(t, k)
      PROVE  IInv'
  BY <1>7, StrayFiresType, CatchUpFiresType
<1>8. ASSUME NEW t \in Tasks, NEW target \in Targets,
             NEW policy \in {"skip", "queue", "preempt"}, Create(t, target, policy)
      PROVE  IInv'
  BY <1>8, CreateType
<1>9. ASSUME NEW t \in Tasks, NEW enabled \in BOOLEAN, NEW target \in Targets,
             Update(t, enabled, target)
      PROVE  IInv'
  BY <1>9, UpdateType
<1>10. ASSUME NEW t \in Tasks, NEW ask \in {"active", "paused", "deleted"},
              ExternalRead(t, ask)
       PROVE  IInv'
  BY <1>10, ExternalReadType
<1>11. CASE UNCHANGED vars
  BY <1>11, StutterType
<1> QED
  BY <1>1, <1>2, <1>3, <1>4, <1>5, <1>6, <1>7, <1>8, <1>9, <1>10, <1>11 DEF Next

\* The state of the engine, of its locks and of the file keeps its type, and
\* only a held key has a timeout (engine.ts, locks.ts).
THEOREM TypeCorrect == Spec => []TypeOK
<1>1. IInv => TypeOK
  BY DEF IInv
<1> QED
  BY <1>1, InitType, StepType, PTL DEF Spec

------------------------------------------------------------------------------
(* No task is lost, in memory or in the file.                              *)

Wanted(t) == intent[t] \in {"active", "paused"}
Unhurt    == used["external"] = 0 /\ used["cut"] = 0
Alive(m)  == Unhurt => \A t \in Tasks : Wanted(t) => m[t] # None
Whole     == Unhurt => ext = None /\ gap = FALSE
Kept      == Whole /\ Alive(mem) /\ Alive(disk)

\* A task, whatever was done to its fields, is not the lack of one.
LEMMA TaskIsSome ==
  /\ \A task \in Task : task # None
  /\ \A task \in Task : [task EXCEPT !.enabled = FALSE] # None
  /\ \A task \in Task, k \in Times : Counted(task, k) # None
<1>1. \A task \in Task : [task EXCEPT !.enabled = FALSE] \in Task
  BY DEF Task
<1> QED
  BY <1>1, CountedType, EngineAssumption

\* A step of this process by which no wanted task leaves the cache.
LEMMA KeptBy ==
  ASSUME IInv, Kept, UNCHANGED <<intent, ext>>, Unhurt' => Unhurt,
         UNCHANGED <<disk, gap>> \/ Persist, Alive(mem')
  PROVE  Kept'
<1>1. Whole'
  BY DEF Kept, Whole, Persist
<1>2. Alive(mem)' /\ Alive(disk)'
  BY DEF Kept, Alive, Wanted, Persist
<1> QED
  BY <1>1, <1>2 DEF Kept

\* An event of this process is not one of the other's.
LEMMA SpendKept ==
  ASSUME IInv, NEW kind \in Kinds, kind \notin {"external", "cut"}, Spend(kind)
  PROVE  Unhurt' => Unhurt
BY DEF Spend, IInv, TypeOK, Kinds, Unhurt

\* What fireTask reads back is in the file if anybody wants it.
LEMMA LoadedAlive ==
  ASSUME IInv, Kept, call # None
  PROVE  Alive(Loaded)
<1>1. TypeOK /\ call.task \in Tasks
  BY FreshType DEF IInv
<1>2. SUFFICES ASSUME Unhurt, NEW t \in Tasks, Wanted(t)
               PROVE  Loaded[t] # None
  BY DEF Alive
<1>3. mem[t] # None /\ disk[t] # None /\ gap = FALSE
  BY <1>2 DEF Kept, Whole, Alive
<1> QED
  BY <1>1, <1>3 DEF Loaded, Fresh, ReadTasks, TypeOK, TaskFiles

\* A timeout or a preemption takes no task away.
LEMMA TimedOutAlive ==
  ASSUME IInv, NEW m \in TaskFiles, Alive(m), NEW t \in Tasks
  PROVE  Alive(TimedOut(m, t))
<1>1. clock \in Times
  BY TimesAre DEF IInv, TypeOK
<1>2. m[t] # None => m[t] \in Task /\ Counted(m[t], clock) # None
  BY <1>1, TaskIsSome DEF TaskFiles
<1>3. \A u \in Tasks : m[u] # None => TimedOut(m, t)[u] # None
  BY <1>2 DEF TimedOut, TaskFiles
<1> QED
  BY <1>3 DEF Alive

\* However fireTask leaves, no wanted task is lost.
LEMMA FireKept ==
  ASSUME IInv, Kept, Fire
  PROVE  Kept'
<1>1. call # None
  BY DEF Fire, FireEarly, FireDropped, FireCapped, FireSkipped, FireQueued, FireGranted,
         FirePreempts, MayRun, Answered
<1>7. CASE FireEarly
  BY <1>7, KeptBy DEF FireEarly, Kept, fileVars, histVars, Unhurt
<1>2. Alive(Loaded) /\ call.task \in Tasks
  BY <1>1, LoadedAlive, FreshType DEF IInv
<1>3. CASE FireDropped \/ FireQueued \/ FireGranted
  BY <1>2, <1>3, KeptBy DEF FireDropped, FireQueued, FireGranted, fileVars, histVars, Unhurt
<1>4. CASE FireCapped
  <2>1. Fresh \in Task /\ Loaded \in TaskFiles
    BY <1>4, MayRunType DEF FireCapped
  <2>2. Loaded[call.task] = Fresh
    BY <1>2 DEF Loaded, IInv, TypeOK, TaskFiles
  <2>3. mem' = [Loaded EXCEPT ![call.task] = [Fresh EXCEPT !.enabled = FALSE]]
    BY <1>4, <2>2 DEF FireCapped
  <2>4. Alive(mem')
    BY <1>2, <2>1, <2>3, TaskIsSome DEF Alive, TaskFiles
  <2> QED
    BY <1>4, <2>4, KeptBy DEF FireCapped, histVars, Persist, Unhurt
<1>5. CASE FireSkipped
  <2>1. Fresh \in Task /\ call.at \in Times
    BY <1>5, MayRunType DEF FireSkipped, MayRun
  <2>2. mem' = [mem EXCEPT ![call.task] = Counted(Fresh, call.at)]
    BY <1>5 DEF FireSkipped
  <2>3. Counted(Fresh, call.at) # None
    BY <2>1, TaskIsSome
  <2>4. Alive(mem')
    BY <1>2, <2>2, <2>3 DEF Kept, Alive, IInv, TypeOK, TaskFiles
  <2> QED
    BY <1>5, <2>4, KeptBy DEF FireSkipped, histVars, Persist, Unhurt
<1>6. CASE FirePreempts
  <2> DEFINE old == locks.holder[KeyOf(call.task, Fresh)]
  <2>1. Loaded \in TaskFiles /\ KeyOf(call.task, Fresh) \in Keys
    BY <1>6, MayRunType DEF FirePreempts, MayRun
  <2>2. old \in Tasks
    BY <1>6, <2>1, PreemptedHolds DEF FirePreempts, Outcome
  <2>3. mem' = TimedOut(Loaded, old)
    BY <1>6 DEF FirePreempts
  <2>4. Alive(mem')
    BY <1>2, <2>1, <2>2, <2>3, TimedOutAlive
  <2> QED
    BY <1>6, <2>4, KeptBy DEF FirePreempts, fileVars, Persist, Unhurt
<1> QED
  BY <1>3, <1>4, <1>5, <1>6, <1>7 DEF Fire

\* The end of a run loses no wanted task; it may put back a deleted one.
LEMMA RunEndsKept ==
  ASSUME IInv, Kept, runs # <<>>, NEW s \in Sessions \cup {None}, RunEnds(s),
         (Unhurt' => Unhurt)
  PROVE  Kept'
<1> DEFINE t == Current.task
           m == AfterRow(s)
<1>1. t \in Tasks /\ Current.at \in Times /\ Current.snap \in Task
  BY CurrentType
<1>2. m \in TaskFiles /\ WindUp(m, t)
  BY AfterRowType DEF RunEnds
<1>3. \A u \in Tasks : mem[u] # None => m[u] # None
  <2>1. Pinned(s) \in Task
    BY <1>1 DEF Pinned, Task, Targets
  <2>2. Counted(Pinned(s), Current.at) # None
    BY <1>1, <2>1, TaskIsSome
  <2> QED
    BY <1>1, <2>2 DEF AfterRow, IInv, TypeOK, TaskFiles
<1>4. \A u \in Tasks : m[u] # None => mem'[u] # None
  <2> HIDE DEF m
  <2>1. Counted(Current.snap, Current.at) # None
    BY <1>1, TaskIsSome
  <2>2. m[t] # None => [m[t] EXCEPT !.enabled = FALSE] # None
    BY <1>1, <1>2, TaskIsSome DEF TaskFiles
  <2>3. \/ mem' = m
        \/ mem' = [m EXCEPT ![t] = Counted(Current.snap, Current.at)]
        \/ m[t] # None /\ mem' = [m EXCEPT ![t].enabled = FALSE]
    BY <1>2 DEF WindUp, GoesOn
  <2> QED
    BY <1>1, <1>2, <2>1, <2>2, <2>3 DEF TaskFiles
<1>5. Alive(mem')
  BY <1>3, <1>4 DEF Kept, Alive
<1> QED
  BY <1>5, KeptBy DEF RunEnds, fileVars, Persist

\* Whether the prompt settled or was never sent, no wanted task is lost.
LEMMA QueueKept ==
  ASSUME IInv, Kept, DispatchReturns \/ CancelledBeforeDispatch
  PROVE  Kept'
<1>1. CASE DispatchReturns
  <2>1. PICK s \in Reported :
          RunEnds(s) /\ IF Continued(s) THEN Spend("continue") ELSE UNCHANGED used
    BY <1>1 DEF DispatchReturns
  <2>2. s \in Sessions \cup {None}
    BY DEF Reported
  <2>3. (Unhurt' => Unhurt)
    BY <2>1, SpendKept DEF Kinds, Unhurt
  <2> QED
    BY <1>1, <2>1, <2>2, <2>3, RunEndsKept DEF DispatchReturns
<1>2. CASE CancelledBeforeDispatch
  BY <1>2, RunEndsKept DEF CancelledBeforeDispatch, Unhurt
<1> QED
  BY <1>1, <1>2

\* A timeout loses no wanted task.
LEMMA TimeoutKept ==
  ASSUME IInv, Kept, NEW k \in Keys, TimeoutFires(k)
  PROVE  Kept'
<1>1. locks.holder[k] \in Tasks /\ mem \in TaskFiles
  BY DEF TimeoutFires, IInv, TypeOK, LockTables, ArmedHeld
<1>2. Alive(mem')
  BY <1>1, TimedOutAlive DEF TimeoutFires, Kept
<1>3. (Unhurt' => Unhurt)
  BY SpendKept DEF TimeoutFires, Kinds
<1> QED
  BY <1>2, <1>3, KeptBy DEF TimeoutFires, fileVars, Persist

\* A request of the user loses only the task it deletes.
LEMMA RequestKept ==
  ASSUME IInv, Kept, NEW t \in Tasks,
         \/ \E target \in Targets, policy \in {"skip", "queue", "preempt"} :
              Create(t, target, policy)
         \/ \E enabled \in BOOLEAN, target \in Targets : Update(t, enabled, target)
         \/ Delete(t)
  PROVE  Kept'
<1>1. mem \in TaskFiles /\ used \in [Kinds -> Nat]
         /\ intent \in [Tasks -> {"unborn", "active", "paused", "deleted"}]
  BY DEF IInv, TypeOK
<1>2. Persist /\ (Unhurt' => Unhurt)
  BY SpendKept DEF Create, Update, Delete, Kinds
<1>3. ASSUME NEW target \in Targets, NEW policy \in {"skip", "queue", "preempt"},
             Create(t, target, policy)
      PROVE  Alive(mem)'
  <2>1. NewTask(target, policy) # None
    <3>1. NewTask(target, policy) \in Task
      BY DEF NewTask, Task
    <3> QED
      BY <3>1, TaskIsSome
  <2> QED
    BY <1>1, <1>2, <1>3, <2>1 DEF Create, Kept, Alive, Wanted, TaskFiles
<1>4. ASSUME NEW enabled \in BOOLEAN, NEW target \in Targets, Update(t, enabled, target)
      PROVE  Alive(mem)'
  <2>1. mem[t] \in Task
    BY <1>1, <1>4 DEF Update, TaskFiles
  <2>2. [mem[t] EXCEPT !.enabled = enabled, !.target = target] \in Task
    BY <2>1 DEF Task
  <2>3. mem' = [mem EXCEPT ![t] = [mem[t] EXCEPT !.enabled = enabled, !.target = target]]
    BY <1>1, <1>4 DEF Update, TaskFiles
  <2>4. \A u \in Tasks : mem[u] # None => mem'[u] # None
    BY <1>1, <2>2, <2>3, TaskIsSome DEF TaskFiles
  <2>5. mem'[t] # None
    BY <1>1, <2>2, <2>3, TaskIsSome DEF TaskFiles
  <2> QED
    BY <1>1, <1>2, <1>4, <2>4, <2>5 DEF Update, Kept, Alive, Wanted
<1>5. ASSUME Delete(t)
      PROVE  Alive(mem)'
  BY <1>1, <1>2, <1>5 DEF Delete, Kept, Alive, Wanted, TaskFiles
<1>6. Alive(mem)'
  BY <1>3, <1>4, <1>5
<1>7. Alive(disk)' /\ Whole'
  BY <1>2, <1>6 DEF Persist, Alive, Wanted, Kept, Whole
<1> QED
  BY <1>6, <1>7 DEF Kept

\* Loading the file finds every wanted task in it.
LEMMA LoadKept ==
  ASSUME IInv, Kept, Restart(FALSE) \/ \E active \in BOOLEAN : Reload(active)
  PROVE  Kept'
<1>1. mem' = ReadTasks /\ UNCHANGED <<disk, gap, ext, intent>>
  BY DEF Restart, Reload, Load, fileVars, histVars
<1>2. Unhurt' => Unhurt
  BY SpendKept DEF Restart, Reload, Kinds
<1>3. Alive(mem')
  BY <1>1 DEF ReadTasks, Kept, Whole, Alive
<1> QED
  BY <1>1, <1>2, <1>3, KeptBy

\* A write that is cut spoils the promise.
LEMMA CutKept ==
  ASSUME IInv, Restart(TRUE)
  PROVE  Kept'
<1>1. used'["cut"] # 0
  BY DEF IInv, TypeOK, Restart, Spend, Kinds
<1> QED
  BY <1>1 DEF Kept, Whole, Alive, Unhurt

\* The other process, once it has begun an edit, spoils the promise for good.
LEMMA ExternalKept ==
  ASSUME IInv, Kept,
         \/ ExternalUnlink \/ ExternalRename
         \/ \E t \in Tasks, ask \in {"active", "paused", "deleted"} : ExternalRead(t, ask)
  PROVE  Kept'
<1>1. ~Unhurt'
  <2>1. used["external"] \in Nat /\ used \in [Kinds -> Nat]
    BY DEF IInv, TypeOK, Kinds
  <2>2. CASE ExternalUnlink \/ ExternalRename
    BY <2>2 DEF ExternalUnlink, ExternalRename, Kept, Whole, Unhurt
  <2>3. CASE \E t \in Tasks, ask \in {"active", "paused", "deleted"} : ExternalRead(t, ask)
    BY <2>1, <2>3 DEF ExternalRead, Spend, Kinds, Unhurt
  <2> QED
    BY <2>2, <2>3
<1> QED
  BY <1>1 DEF Kept, Whole, Alive

\* No step loses a wanted task.
LEMMA KeptStep == IInv /\ Kept /\ [Next]_vars => Kept'
<1> SUFFICES ASSUME IInv, Kept, [Next]_vars PROVE Kept'
  OBVIOUS
<1>1. CASE Fire
  BY <1>1, FireKept
<1>2. CASE StartDispatch \/ Tick \/ UNCHANGED vars
  <2>1. UNCHANGED <<mem, disk, gap, ext, intent, used>>
    BY <1>2 DEF StartDispatch, Tick, vars, fileVars, histVars
  <2> QED
    BY <2>1 DEF Kept, Whole, Alive, Wanted, Unhurt
<1>3. CASE DispatchReturns \/ CancelledBeforeDispatch
  BY <1>3, QueueKept
<1>4. CASE Demote \/ SetBack
  <2>1. Unhurt' => Unhurt
    BY <1>4, SpendKept DEF Demote, SetBack, Kinds
  <2> QED
    BY <1>4, <2>1, KeptBy DEF Demote, SetBack, Kept, fileVars, histVars
<1>5. CASE Restart(FALSE) \/ \E active \in BOOLEAN : Reload(active)
  BY <1>5, LoadKept
<1>11. CASE Restart(TRUE)
  BY <1>11, CutKept
<1>6. CASE \E k \in Keys : TimeoutFires(k)
  BY <1>6, TimeoutKept
<1>7. ASSUME NEW t \in Tasks,
             \/ TimerFires(t)
             \/ \E k \in Times : StrayFires(t, k) \/ CatchUpFires(t, k)
      PROVE  Kept'
  <2>1. UNCHANGED <<mem, disk, gap, ext, intent>>
    BY <1>7 DEF TimerFires, StrayFires, CatchUpFires, fileVars, histVars
  <2>2. UNCHANGED used \/ Spend("early")
    BY <1>7 DEF TimerFires, StrayFires, CatchUpFires, Due
  <2>3. Unhurt' => Unhurt
    BY <2>2, SpendKept DEF Kinds, Unhurt
  <2> QED
    BY <2>1, <2>3, KeptBy DEF Kept
<1>8. ASSUME NEW t \in Tasks, RunNow(t)
      PROVE  Kept'
  <2>1. (Unhurt' => Unhurt)
    BY <1>8, SpendKept DEF RunNow, Kinds
  <2> QED
    BY <1>8, <2>1, KeptBy DEF RunNow, Kept, fileVars, histVars
<1>9. CASE \E t \in Tasks :
             \/ \E target \in Targets, policy \in {"skip", "queue", "preempt"} :
                  Create(t, target, policy)
             \/ \E enabled \in BOOLEAN, target \in Targets : Update(t, enabled, target)
             \/ Delete(t)
  BY <1>9, RequestKept
<1>10. CASE \/ ExternalUnlink \/ ExternalRename
            \/ \E t \in Tasks, ask \in {"active", "paused", "deleted"} : ExternalRead(t, ask)
  BY <1>10, ExternalKept
<1> QED
  BY <1>1, <1>2, <1>3, <1>4, <1>5, <1>6, <1>7, <1>8, <1>9, <1>10, <1>11 DEF Next

\* A task nobody deleted is in tasks.json, whatever fires, times out, dies or is
\* asked for, as long as this process is the only one to write the file and does not
\* die between the unlink and the rename of a write (engine.ts:545-551, store.ts:106-109).
THEOREM NothingIsLost == Spec => []NoTaskLost
<1>1. Init => Kept
  BY EngineAssumption DEF Init, Kept, Whole, Alive, Unhurt, Wanted, Kinds
<1>2. Kept => NoTaskLost
  BY DEF Kept, Alive, Unhurt, Wanted, NoTaskLost, Without
<1> QED
  BY <1>1, <1>2, InitType, StepType, KeptStep, PTL DEF Spec

------------------------------------------------------------------------------
(* A passive engine has no timer.                                          *)

\* No step registers a timer in a passive engine.
LEMMA PassiveStep == IInv /\ PassiveHasNoTimer /\ [Next]_vars => PassiveHasNoTimer'
<1> SUFFICES ASSUME IInv, PassiveHasNoTimer, [Next]_vars PROVE PassiveHasNoTimer'
  OBVIOUS
<1>1. timer \in [Tasks -> Times \cup {None}]
  BY DEF IInv, TypeOK
<1>2. ASSUME UNCHANGED passive, \/ UNCHANGED timer
                                \/ \E t \in Tasks : timer' = [timer EXCEPT ![t] = None]
      PROVE  PassiveHasNoTimer'
  BY <1>1, <1>2 DEF PassiveHasNoTimer
<1>3. ASSUME NEW t \in Tasks, NEW task, UNCHANGED passive, Reschedule(t, task)
      PROVE  PassiveHasNoTimer'
  BY <1>1, <1>3 DEF PassiveHasNoTimer, Reschedule, ArmFor
<1>4. CASE Fire
  <2>1. call.task \in Tasks
    BY <1>4, FreshType DEF IInv, Fire, FireEarly, FireDropped, FireCapped, FireSkipped,
       FireQueued, FireGranted, FirePreempts, MayRun, Answered
  <2>2. CASE FireEarly
    BY <1>3, <2>1, <2>2 DEF FireEarly
  <2> QED
    BY <1>2, <1>4, <2>1, <2>2 DEF Fire, FireDropped, FireCapped, FireSkipped, FireQueued,
       FireGranted, FirePreempts, CancelTimer, timerVars
<1>5. ASSUME NEW s, runs # <<>>, RunEnds(s)
      PROVE  PassiveHasNoTimer'
  <2>1. Current.task \in Tasks
    BY <1>5, CurrentType
  <2>2. WindUp(AfterRow(s), Current.task) /\ UNCHANGED passive
    BY <1>5 DEF RunEnds
  <2>3. \/ UNCHANGED timer \/ CancelTimer(Current.task)
        \/ Reschedule(Current.task, AfterRow(s)[Current.task])
    BY <2>2 DEF WindUp
  <2> QED
    BY <1>2, <1>3, <2>1, <2>2, <2>3 DEF CancelTimer
<1>6. CASE StartDispatch \/ DispatchReturns \/ CancelledBeforeDispatch
  BY <1>2, <1>5, <1>6 DEF StartDispatch, DispatchReturns, CancelledBeforeDispatch, timerVars
<1>7. CASE \/ Tick \/ SetBack \/ Demote \/ ExternalUnlink \/ ExternalRename
            \/ \E cut \in BOOLEAN : Restart(cut)
  BY <1>2, <1>7 DEF Tick, SetBack, Demote, Restart, ExternalUnlink, ExternalRename, timerVars,
     PassiveHasNoTimer
<1>8. ASSUME NEW active \in BOOLEAN, Reload(active)
      PROVE  PassiveHasNoTimer'
  BY <1>2, <1>8 DEF Reload, Load, PassiveHasNoTimer
<1>9. CASE \E k \in Keys : TimeoutFires(k)
  BY <1>2, <1>9 DEF TimeoutFires, timerVars
<1>10. ASSUME NEW t \in Tasks,
              \/ TimerFires(t) \/ RunNow(t) \/ Delete(t)
              \/ \E k \in Times : StrayFires(t, k) \/ CatchUpFires(t, k)
              \/ \E ask \in {"active", "paused", "deleted"} : ExternalRead(t, ask)
       PROVE  PassiveHasNoTimer'
  BY <1>2, <1>10 DEF TimerFires, RunNow, Delete, StrayFires, CatchUpFires, ExternalRead,
     CancelTimer, timerVars
<1>11. ASSUME NEW t \in Tasks, NEW target \in Targets,
              NEW policy \in {"skip", "queue", "preempt"}, Create(t, target, policy)
       PROVE  PassiveHasNoTimer'
  <2>1. Reschedule(t, mem'[t]) /\ UNCHANGED passive
    BY <1>11 DEF Create
  <2> QED
    BY <1>1, <2>1 DEF PassiveHasNoTimer, Reschedule, ArmFor
<1>12. ASSUME NEW t \in Tasks, NEW enabled \in BOOLEAN, NEW target \in Targets,
              Update(t, enabled, target)
       PROVE  PassiveHasNoTimer'
  BY <1>1, <1>12 DEF Update, ArmFor, PassiveHasNoTimer
<1>13. CASE UNCHANGED vars
  BY <1>2, <1>13 DEF vars, timerVars
<1> QED
  BY <1>4, <1>6, <1>7, <1>8, <1>9, <1>10, <1>11, <1>12, <1>13 DEF Next

\* An engine whose scope lock is in other hands has no registered timer, whatever
\* requests it serves and whatever runs it finishes (engine.ts:270-278, 595).
THEOREM PassiveIsIdle == Spec => []PassiveHasNoTimer
<1>1. Init => PassiveHasNoTimer
  BY DEF Init, PassiveHasNoTimer
<1> QED
  BY <1>1, InitType, StepType, PassiveStep, PTL DEF Spec
------------------------------------------------------------------------------
(* Who waits for a session.                                                *)

InQueue(L, t) == \E k \in Keys : IsWaiting(L, t, k)

\* No task stands twice in the queues.
WaitsOnce(L) ==
  \A k, l \in Keys : \A i \in DOMAIN L.waiting[k], j \in DOMAIN L.waiting[l] :
    L.waiting[k][i] = L.waiting[l][j] => k = l /\ i = j

\* Only for a held key does anybody wait.
WaitedHeld(L) == \A k \in Keys : L.waiting[k] # <<>> => L.holder[k] # None

\* A holder more or less changes no queue.
LEMMA HolderWaits ==
  ASSUME NEW L, LockOK(L), NEW t, NEW k
  PROVE  /\ SetHolder(L, t, k).waiting = L.waiting
         /\ ClearHolder(L, k).waiting = L.waiting
BY DEF LockOK, LockTables, SetHolder, ClearHolder

\* The new waiter is the last of the queue.
LEMMA EnqueueWaits ==
  ASSUME NEW L, LockOK(L), NEW t \in Tasks, NEW k \in Keys
  PROVE  /\ \A u \in Tasks, l \in Keys :
              IsWaiting(Enqueue(L, t, k), u, l) <=> IsWaiting(L, u, l) \/ (u = t /\ l = k)
         /\ WaitsOnce(L) /\ ~InQueue(L, t) => WaitsOnce(Enqueue(L, t, k))
         /\ Enqueue(L, t, k).holder = L.holder /\ Enqueue(L, t, k).byTask = L.byTask
         /\ Enqueue(L, t, k).armed = L.armed
<1>1. \A l \in Keys : L.waiting[l] \in Seq(Tasks)
  BY DEF LockOK, LockTables
<1>2. CASE IsWaiting(L, t, k)
  BY <1>2 DEF Enqueue
<1>3. CASE ~IsWaiting(L, t, k)
  <2> DEFINE E == Enqueue(L, t, k)
             n == Len(L.waiting[k]) + 1
  <2>1. E = [L EXCEPT !.waiting[k] = Append(@, t)]
    BY <1>3 DEF Enqueue
  <2>2. /\ \A l \in Keys : l # k => E.waiting[l] = L.waiting[l]
        /\ E.waiting[k] = Append(L.waiting[k], t)
        /\ E.holder = L.holder /\ E.byTask = L.byTask /\ E.armed = L.armed
    BY <2>1 DEF LockOK, LockTables
  <2>3. /\ DOMAIN E.waiting[k] = DOMAIN L.waiting[k] \cup {n} /\ n \notin DOMAIN L.waiting[k]
        /\ E.waiting[k][n] = t
        /\ \A i \in DOMAIN L.waiting[k] : E.waiting[k][i] = L.waiting[k][i]
    BY <1>1, <2>2
  <2> HIDE DEF E, n
  <2>4. \A u \in Tasks, l \in Keys : IsWaiting(E, u, l) <=> IsWaiting(L, u, l) \/ (u = t /\ l = k)
    <3> SUFFICES ASSUME NEW u \in Tasks, NEW l \in Keys
                 PROVE  IsWaiting(E, u, l) <=> IsWaiting(L, u, l) \/ (u = t /\ l = k)
      OBVIOUS
    <3>1. CASE l # k
      BY <2>2, <3>1 DEF IsWaiting
    <3>2. CASE l = k
      BY <2>3, <3>2 DEF IsWaiting
    <3> QED
      BY <3>1, <3>2
  <2>5. ASSUME WaitsOnce(L), ~InQueue(L, t)
        PROVE  WaitsOnce(E)
    <3>1. \A l \in Keys : \A i \in DOMAIN L.waiting[l] : L.waiting[l][i] # t
      BY <2>5 DEF InQueue, IsWaiting
    <3> SUFFICES ASSUME NEW l \in Keys, NEW m \in Keys,
                        NEW i \in DOMAIN E.waiting[l], NEW j \in DOMAIN E.waiting[m],
                        E.waiting[l][i] = E.waiting[m][j]
                 PROVE  l = m /\ i = j
      BY DEF WaitsOnce
    <3>2. \A x \in Keys : \A y \in DOMAIN E.waiting[x] :
            \/ y \in DOMAIN L.waiting[x] /\ E.waiting[x][y] = L.waiting[x][y]
            \/ x = k /\ y = n /\ E.waiting[x][y] = t
      BY <2>2, <2>3
    <3> QED
      BY <2>5, <3>1, <3>2 DEF WaitsOnce
  <2> QED
    BY <2>2, <2>4, <2>5 DEF E
<1> QED
  BY <1>2, <1>3

\* release() lets at most the first waiter of its key go.
LEMMA ReleaseWaiting ==
  ASSUME NEW L, LockOK(L), NEW t \in Tasks
  PROVE  /\ HandedTo(L, t) = None => Release(L, t).waiting = L.waiting
         /\ HandedTo(L, t) # None =>
              /\ L.byTask[t] \in Keys /\ HandedTo(L, t) = L.waiting[L.byTask[t]][1]
              /\ L.waiting[L.byTask[t]] # <<>>
              /\ Release(L, t).waiting = [L.waiting EXCEPT ![L.byTask[t]] = Tail(@)]
<1> DEFINE k == L.byTask[t]
           C == ClearHolder(L, k)
           W == [C EXCEPT !.waiting[k] = Tail(@)]
<1>1. C.waiting = L.waiting /\ (k # None => k \in Keys)
  BY HolderWaits, HandedToType
<1>2. CASE HandedTo(L, t) = None
  BY <1>1, <1>2 DEF Release
<1>3. CASE HandedTo(L, t) # None
  <2>1. k \in Keys /\ k # None /\ L.waiting[k] # <<>> /\ HandedTo(L, t) = L.waiting[k][1]
    <3>1. k # None /\ L.waiting[k] # <<>> /\ HandedTo(L, t) = Head(L.waiting[k])
      BY <1>3 DEF HandedTo
    <3>2. L.waiting[k] \in Seq(Tasks)
      BY <1>1, <3>1 DEF LockOK, LockTables
    <3> QED
      BY <1>1, <3>1, <3>2
  <2>2. LockOK(C)
    BY <2>1, ClearHolderType
  <2>3. W.waiting = [L.waiting EXCEPT ![k] = Tail(@)]
    BY <1>1, <2>2 DEF LockOK, LockTables
  <2>4. SetHolder(W, HandedTo(L, t), k).waiting = W.waiting
    BY <2>2 DEF SetHolder, LockOK, LockTables
  <2>5. Release(L, t) = SetHolder(W, HandedTo(L, t), k)
    BY <1>3, <2>1 DEF Release
  <2> HIDE DEF W, C
  <2> QED
    BY <1>3, <2>1, <2>3, <2>4, <2>5
<1> QED
  BY <1>2, <1>3

\* Who still waits after a release waited before it; whoever was handed the key
\* waits no more.
LEMMA ReleaseWaits ==
  ASSUME NEW L, LockOK(L), NEW t \in Tasks, WaitsOnce(L)
  PROVE  /\ WaitsOnce(Release(L, t))
         /\ \A u \in Tasks, l \in Keys : IsWaiting(Release(L, t), u, l) => IsWaiting(L, u, l)
         /\ HandedTo(L, t) # None =>
              /\ IsWaiting(L, HandedTo(L, t), L.byTask[t])
              /\ ~InQueue(Release(L, t), HandedTo(L, t))
<1> DEFINE k == L.byTask[t]
           R == Release(L, t)
<1>1. CASE HandedTo(L, t) = None
  <2>1. R.waiting = L.waiting
    BY <1>1, ReleaseWaiting
  <2> HIDE DEF R
  <2>2. WaitsOnce(R)
    BY <2>1 DEF WaitsOnce
  <2>3. \A u \in Tasks, l \in Keys : IsWaiting(R, u, l) => IsWaiting(L, u, l)
    BY <2>1 DEF IsWaiting
  <2> QED
    BY <1>1, <2>2, <2>3 DEF R
<1>2. CASE HandedTo(L, t) # None
  <2>1. /\ k \in Keys /\ HandedTo(L, t) = L.waiting[k][1] /\ L.waiting[k] # <<>>
        /\ R.waiting = [L.waiting EXCEPT ![k] = Tail(@)]
    BY <1>2, ReleaseWaiting
  <2>2. L.waiting \in [Keys -> Seq(Tasks)] /\ L.waiting[k] \in Seq(Tasks)
    BY <2>1 DEF LockOK, LockTables
  <2>3. /\ \A l \in Keys : l # k => R.waiting[l] = L.waiting[l]
        /\ R.waiting[k] = Tail(L.waiting[k])
    BY <2>1, <2>2
  <2>4. /\ 1 \in DOMAIN L.waiting[k] /\ DOMAIN R.waiting[k] \subseteq Nat \ {0}
        /\ \A i \in DOMAIN R.waiting[k] :
             i + 1 \in DOMAIN L.waiting[k] /\ R.waiting[k][i] = L.waiting[k][i + 1]
    BY <2>1, <2>2, <2>3
  <2> HIDE DEF R, k
  <2>5. ASSUME NEW u \in Tasks, NEW l \in Keys, IsWaiting(R, u, l)
        PROVE  IsWaiting(L, u, l)
    BY <2>3, <2>4, <2>5 DEF IsWaiting
  <2>6. IsWaiting(L, HandedTo(L, t), k)
    BY <2>1, <2>4 DEF IsWaiting
  <2>7. WaitsOnce(R)
    <3> SUFFICES ASSUME NEW l \in Keys, NEW m \in Keys,
                        NEW i \in DOMAIN R.waiting[l], NEW j \in DOMAIN R.waiting[m],
                        R.waiting[l][i] = R.waiting[m][j]
                 PROVE  l = m /\ i = j
      BY DEF WaitsOnce
    <3>1. CASE l # k /\ m # k
      BY <2>3, <3>1 DEF WaitsOnce
    <3>2. CASE l = k /\ m # k
      BY <2>1, <2>3, <2>4, <3>2 DEF WaitsOnce
    <3>3. CASE l # k /\ m = k
      BY <2>1, <2>3, <2>4, <3>3 DEF WaitsOnce
    <3>4. CASE l = k /\ m = k
      <4>1. i + 1 = j + 1
        BY <2>1, <2>4, <3>4 DEF WaitsOnce
      <4> QED
        BY <2>4, <3>4, <4>1
    <3> QED
      BY <3>1, <3>2, <3>3, <3>4
  <2>8. ~InQueue(R, HandedTo(L, t))
    <3> SUFFICES ASSUME NEW l \in Keys, NEW i \in DOMAIN R.waiting[l],
                        R.waiting[l][i] = HandedTo(L, t)
                 PROVE  FALSE
      BY DEF InQueue, IsWaiting
    <3>1. CASE l # k
      BY <2>1, <2>3, <2>4, <3>1 DEF WaitsOnce
    <3>2. CASE l = k
      <4>1. i + 1 = 1
        BY <2>1, <2>4, <3>2 DEF WaitsOnce
      <4> QED
        BY <2>4, <3>2, <4>1
    <3> QED
      BY <3>1, <3>2
  <2> QED
    BY <2>5, <2>6, <2>7, <2>8 DEF R, k
<1> QED
  BY <1>1, <1>2

\* reassign() moves one queue to another key.
LEMMA ReassignWaits ==
  ASSUME NEW L, LockOK(L), NEW old \in Keys, NEW new \in Keys, WaitsOnce(L)
  PROVE  /\ WaitsOnce(Reassign(L, old, new))
         /\ \A u \in Tasks : InQueue(Reassign(L, old, new), u) => InQueue(L, u)
<1> DEFINE R == Reassign(L, old, new)
<1>1. CASE R.waiting = L.waiting
  BY <1>1 DEF WaitsOnce, InQueue, IsWaiting
<1>2. CASE old # new /\ R.waiting = [L.waiting EXCEPT ![new] = L.waiting[old], ![old] = <<>>]
  <2>1. L.waiting \in [Keys -> Seq(Tasks)]
    BY DEF LockOK, LockTables
  <2>2. /\ R.waiting[new] = L.waiting[old] /\ R.waiting[old] = <<>>
        /\ \A l \in Keys : l \notin {old, new} => R.waiting[l] = L.waiting[l]
    BY <1>2, <2>1
  <2>3. \A l \in Keys : \A i \in DOMAIN R.waiting[l] :
          l # old /\ i \in DOMAIN L.waiting[IF l = new THEN old ELSE l]
            /\ R.waiting[l][i] = L.waiting[IF l = new THEN old ELSE l][i]
    BY <1>2, <2>2
  <2> HIDE DEF R
  <2>4. WaitsOnce(R)
    <3> SUFFICES ASSUME NEW l \in Keys, NEW m \in Keys,
                        NEW i \in DOMAIN R.waiting[l], NEW j \in DOMAIN R.waiting[m],
                        R.waiting[l][i] = R.waiting[m][j]
                 PROVE  l = m /\ i = j
      BY DEF WaitsOnce
    <3> DEFINE from(x) == IF x = new THEN old ELSE x
    <3>1. /\ l # old /\ i \in DOMAIN L.waiting[from(l)]
          /\ R.waiting[l][i] = L.waiting[from(l)][i]
          /\ m # old /\ j \in DOMAIN L.waiting[from(m)]
          /\ R.waiting[m][j] = L.waiting[from(m)][j]
      BY <2>3
    <3>2. from(l) \in Keys /\ from(m) \in Keys
      OBVIOUS
    <3>3. from(l) = from(m) /\ i = j
      <4> HIDE DEF from
      <4>1. L.waiting[from(l)][i] = L.waiting[from(m)][j]
        BY <3>1
      <4> QED
        BY <3>1, <3>2, <4>1 DEF WaitsOnce
    <3> QED
      BY <3>1, <3>3
  <2>5. ASSUME NEW u \in Tasks, InQueue(R, u)
        PROVE  InQueue(L, u)
    <3>1. PICK l \in Keys : \E i \in DOMAIN R.waiting[l] : R.waiting[l][i] = u
      BY <2>5 DEF InQueue, IsWaiting
    <3> DEFINE f == IF l = new THEN old ELSE l
    <3>2. \E i \in DOMAIN L.waiting[f] : L.waiting[f][i] = u
      BY <2>3, <3>1
    <3> QED
      BY <3>2 DEF InQueue, IsWaiting
  <2> QED
    BY <2>4, <2>5 DEF R
<1> QED
  BY <1>1, <1>2 DEF Reassign

------------------------------------------------------------------------------
(* What has not happened.                                                  *)

\* The counters of events from outside only grow.
LEMMA UsedGrows ==
  ASSUME IInv, [Next]_vars
  PROVE  /\ used \in [Kinds -> Nat] /\ used' \in [Kinds -> Nat]
         /\ \A k \in Kinds : used'[k] >= used[k]
         /\ \A k \in Kinds : used'[k] = 0 => used[k] = 0
<1>1. used \in [Kinds -> Nat]
  BY Parts
<1>2. ASSUME NEW kind \in Kinds, Spend(kind), NEW k \in Kinds
      PROVE  used'[k] >= used[k] /\ used' \in [Kinds -> Nat]
  BY <1>1, <1>2 DEF Spend
<1>3. ASSUME UNCHANGED used, NEW k \in Kinds
      PROVE  used'[k] >= used[k] /\ used' \in [Kinds -> Nat]
  BY <1>1, <1>3
<1>4. UNCHANGED used \/ \E kind \in Kinds : Spend(kind)
  <2>1. CASE Fire
    BY <2>1 DEF Fire, FireEarly, FireDropped, FireCapped, FireSkipped, FireQueued,
       FireGranted, FirePreempts
  <2>2. CASE \/ StartDispatch \/ CancelledBeforeDispatch \/ Tick \/ ExternalUnlink
             \/ ExternalRename \/ UNCHANGED vars
    BY <2>2 DEF StartDispatch, CancelledBeforeDispatch, Tick, ExternalUnlink,
       ExternalRename, vars
  <2>3. CASE DispatchReturns
    BY <2>3 DEF DispatchReturns, Kinds
  <2>4. CASE Demote \/ SetBack \/ \E cut \in BOOLEAN : Restart(cut)
    BY <2>4 DEF Demote, SetBack, Restart, Kinds
  <2>5. ASSUME NEW active \in BOOLEAN, Reload(active)
        PROVE  \E kind \in Kinds : Spend(kind)
    BY <2>5 DEF Reload, Kinds
  <2>6. ASSUME NEW k \in Keys, TimeoutFires(k)
        PROVE  \E kind \in Kinds : Spend(kind)
    BY <2>6 DEF TimeoutFires, Kinds
  <2>7. ASSUME NEW t \in Tasks,
               \/ TimerFires(t)
               \/ \E k \in Times : StrayFires(t, k) \/ CatchUpFires(t, k)
        PROVE  UNCHANGED used \/ Spend("early")
    BY <2>7 DEF TimerFires, StrayFires, CatchUpFires, Due
  <2>8. ASSUME NEW t \in Tasks, RunNow(t) \/ Delete(t)
        PROVE  \E kind \in Kinds : Spend(kind)
    BY <2>8 DEF RunNow, Delete, Kinds
  <2>9. ASSUME NEW t \in Tasks, NEW target \in Targets,
               NEW policy \in {"skip", "queue", "preempt"}, Create(t, target, policy)
        PROVE  \E kind \in Kinds : Spend(kind)
    BY <2>9 DEF Create, Kinds
  <2>10. ASSUME NEW t \in Tasks, NEW enabled \in BOOLEAN, NEW target \in Targets,
                Update(t, enabled, target)
         PROVE  \E kind \in Kinds : Spend(kind)
    BY <2>10 DEF Update, Kinds
  <2>11. ASSUME NEW t \in Tasks, NEW ask \in {"active", "paused", "deleted"},
                ExternalRead(t, ask)
         PROVE  \E kind \in Kinds : Spend(kind)
    BY <2>11 DEF ExternalRead, Kinds
  <2> QED
    BY <2>1, <2>2, <2>3, <2>4, <2>5, <2>6, <2>7, <2>8, <2>9, <2>10, <2>11 DEF Next, Kinds
<1>5. used' \in [Kinds -> Nat] /\ \A k \in Kinds : used'[k] >= used[k]
  BY <1>2, <1>3, <1>4 DEF Kinds
<1>6. \A k \in Kinds : used'[k] = 0 => used[k] = 0
  BY <1>1, <1>5
<1> QED
  BY <1>1, <1>5, <1>6

\* What has not happened after a step has not happened before it.
LEMMA WithoutBack ==
  ASSUME IInv, [Next]_vars, NEW some \in SUBSET Kinds, Without(some)'
  PROVE  Without(some)
BY UsedGrows DEF Without

LEMMA UndisturbedBack ==
  ASSUME IInv, [Next]_vars, Undisturbed'
  PROVE  Undisturbed
<1>1. {"manual", "edit", "retarget", "reload", "restart", "cut"} \in SUBSET Kinds
  BY DEF Kinds
<1> QED
  BY <1>1, UsedGrows DEF Undisturbed, Without

\* An event that happens has happened.
LEMMA Happened ==
  ASSUME IInv, NEW kind \in Kinds, Spend(kind)
  PROVE  used'[kind] # 0
<1>1. used \in [Kinds -> Nat]
  BY Parts
<1> QED
  BY <1>1 DEF Spend

\* The steps of an engine that is left alone.
LEMMA UndisturbedSteps ==
  ASSUME IInv, [Next]_vars, Undisturbed'
  PROVE  \/ Fire \/ StartDispatch \/ DispatchReturns \/ CancelledBeforeDispatch
         \/ SetBack \/ Demote \/ \E k \in Keys : TimeoutFires(k)
         \/ \E t \in Tasks : \/ TimerFires(t)
                             \/ \E k \in Times : StrayFires(t, k) \/ CatchUpFires(t, k)
         \/ Tick \/ ExternalUnlink \/ ExternalRename \/ UNCHANGED vars
         \/ \E t \in Tasks, ask \in {"active", "paused", "deleted"} : ExternalRead(t, ask)
<1>1. ASSUME NEW kind \in {"manual", "edit", "retarget", "reload", "restart", "cut"}
      PROVE  ~Spend(kind)
  BY <1>1, Happened DEF Undisturbed, Without, Kinds
<1>2. (\A cut \in BOOLEAN : ~Restart(cut)) /\ \A active \in BOOLEAN : ~Reload(active)
  BY <1>1 DEF Restart, Reload
<1>3. \A t \in Tasks : ~RunNow(t) /\ ~Delete(t)
  BY <1>1 DEF RunNow, Delete
<1>4. \A t \in Tasks, target \in Targets, policy \in {"skip", "queue", "preempt"} :
        ~Create(t, target, policy)
  BY <1>1 DEF Create
<1>5. \A t \in Tasks, enabled \in BOOLEAN, target \in Targets : ~Update(t, enabled, target)
  BY <1>1 DEF Update
<1> QED
  BY <1>2, <1>3, <1>4, <1>5 DEF Next

------------------------------------------------------------------------------
(* The queue of the runtime.                                               *)

InRuns(q, t) == \E i \in DOMAIN q : q[i].task = t

\* No task stands twice in the queue.
RunsOnce(q) == \A i, j \in DOMAIN q : q[i].task = q[j].task => i = j

\* Two queues of the same runs, up to whether they are under way or aborted.
SameRun(r, q) == /\ r.task = q.task /\ r.key = q.key /\ r.at = q.at
                 /\ r.manual = q.manual /\ r.snap = q.snap
SameRuns(q) == DOMAIN q = DOMAIN runs /\ \A i \in DOMAIN runs : SameRun(q[i], runs[i])
StillRuns(q) == SameRuns(q) /\ \A i \in DOMAIN runs : q[i].started = runs[i].started

LEMMA SameRunsOnce ==
  ASSUME NEW q, SameRuns(q)
  PROVE  /\ RunsOnce(runs) => RunsOnce(q)
         /\ \A t : InRuns(q, t) <=> InRuns(runs, t)
BY DEF SameRuns, SameRun, RunsOnce, InRuns

\* The abort and the start of a dispatch change no run otherwise.
LEMMA AbortSame ==
  ASSUME IInv, NEW m, NEW t \in Tasks
  PROVE  Abort(m, t) \in Seq(Runs) /\ StillRuns(Abort(m, t)) /\ SameRuns(Abort(m, t))
<1>1. TypeOK /\ StartedOK /\ runs \in Seq(Runs)
  BY DEF IInv, TypeOK
<1>2. Abort(m, t) \in Seq(Runs)
  BY <1>1, AbortType
<1>3. CASE Abort(m, t) = runs
  BY <1>2, <1>3 DEF StillRuns, SameRuns, SameRun
<1>4. CASE runs # <<>> /\ \E a : Abort(m, t) = [runs EXCEPT ![1].abortedFor = a]
  <2>1. 1 \in DOMAIN runs /\ \A i \in DOMAIN runs : runs[i] \in Runs
    BY <1>1, <1>4
  <2>2. PICK a : Abort(m, t) = [runs EXCEPT ![1].abortedFor = a]
    BY <1>4
  <2> QED
    BY <1>2, <2>1, <2>2 DEF StillRuns, SameRuns, SameRun, Runs
<1> QED
  BY <1>2, <1>3, <1>4 DEF Abort

LEMMA StartSame ==
  ASSUME IInv, StartDispatch
  PROVE  SameRuns(runs')
<1>1. runs \in Seq(Runs) /\ 1 \in DOMAIN runs /\ \A i \in DOMAIN runs : runs[i] \in Runs
  BY CurrentType DEF StartDispatch, IInv, TypeOK
<1> QED
  BY <1>1 DEF StartDispatch, SameRuns, SameRun, Runs

\* One more run, the last of the queue.
LEMMA AppendRuns ==
  ASSUME IInv, Answered, Fires(Fresh), NEW q \in Seq(Runs), SameRuns(q)
  PROVE  /\ DOMAIN Append(q, NewRun) = DOMAIN runs \cup {Len(runs) + 1}
         /\ Len(runs) + 1 \notin DOMAIN runs
         /\ \A i \in DOMAIN runs : SameRun(Append(q, NewRun)[i], runs[i])
                                     /\ Append(q, NewRun)[i] = q[i]
         /\ Append(q, NewRun)[Len(runs) + 1] = NewRun
         /\ \A t : InRuns(Append(q, NewRun), t) <=> InRuns(runs, t) \/ t = call.task
         /\ RunsOnce(runs) /\ ~InRuns(runs, call.task) => RunsOnce(Append(q, NewRun))
<1> DEFINE A == Append(q, NewRun)
           n == Len(runs) + 1
<1>1. NewRun.task = call.task
  BY DEF NewRun
<1>2. runs \in Seq(Runs) /\ Len(q) = Len(runs)
  BY DEF IInv, TypeOK, SameRuns
<1>3. /\ DOMAIN A = DOMAIN runs \cup {n} /\ n \notin DOMAIN runs
      /\ \A i \in DOMAIN runs : A[i] = q[i]
      /\ A[n] = NewRun
  BY <1>2 DEF SameRuns
<1> HIDE DEF A, n
<1>4. \A i \in DOMAIN runs : SameRun(A[i], runs[i])
  BY <1>3 DEF SameRuns
<1>5. \A t : InRuns(A, t) <=> InRuns(runs, t) \/ t = call.task
  BY <1>1, <1>3, <1>4 DEF InRuns, SameRun
<1>6. RunsOnce(runs) /\ ~InRuns(runs, call.task) => RunsOnce(A)
  BY <1>1, <1>3, <1>4 DEF InRuns, RunsOnce, SameRun
<1> QED
  BY <1>3, <1>4, <1>5, <1>6 DEF A, n

\* One run less, the first of the queue.
LEMMA TailRuns ==
  ASSUME IInv, runs # <<>>
  PROVE  /\ DOMAIN Tail(runs) \subseteq Nat \ {0}
         /\ \A i \in DOMAIN Tail(runs) : i + 1 \in DOMAIN runs /\ Tail(runs)[i] = runs[i + 1]
         /\ \A t : InRuns(runs, t) => t = Current.task \/ InRuns(Tail(runs), t)
         /\ \A t : InRuns(Tail(runs), t) => InRuns(runs, t)
         /\ RunsOnce(runs) => RunsOnce(Tail(runs)) /\ ~InRuns(Tail(runs), Current.task)
<1> DEFINE T == Tail(runs)
<1>1. runs \in Seq(Runs) /\ 1 \in DOMAIN runs /\ Current = runs[1]
  BY CurrentType DEF IInv, TypeOK
<1>2. /\ DOMAIN T \subseteq Nat \ {0}
      /\ \A i \in DOMAIN T : i + 1 \in DOMAIN runs /\ T[i] = runs[i + 1]
      /\ \A i \in DOMAIN runs : i \in Nat /\ (i # 1 => i - 1 \in DOMAIN T /\ T[i - 1] = runs[i])
  BY <1>1
<1> HIDE DEF T
<1>3. \A t : InRuns(runs, t) => t = Current.task \/ InRuns(T, t)
  BY <1>1, <1>2 DEF InRuns
<1>4. \A t : InRuns(T, t) => InRuns(runs, t)
  BY <1>2 DEF InRuns
<1>5. ASSUME RunsOnce(runs)
      PROVE  RunsOnce(T) /\ ~InRuns(T, Current.task)
  <2>1. ASSUME NEW i \in DOMAIN T, NEW j \in DOMAIN T, T[i].task = T[j].task
        PROVE  i = j
    <3>1. i + 1 = j + 1
      BY <1>2, <1>5, <2>1 DEF RunsOnce
    <3> QED
      BY <1>2, <3>1
  <2>2. ASSUME NEW i \in DOMAIN T, T[i].task = Current.task
        PROVE  FALSE
    <3>1. i + 1 = 1
      BY <1>1, <1>2, <1>5, <2>2 DEF RunsOnce
    <3> QED
      BY <1>2, <3>1
  <2> QED
    BY <2>1, <2>2 DEF RunsOnce, InRuns
<1> QED
  BY <1>2, <1>3, <1>4, <1>5 DEF T

------------------------------------------------------------------------------
(* What a step does to the place of a task.                                *)

\* The lock table between the reassignment and the release.
EndLocks(s) == IF s = None THEN locks ELSE Reassign(locks, Current.key, s)

\* A run that ends: its task gets a timer, or none, and the next waiter is called.
LEMMA RunEndsParts ==
  ASSUME IInv, runs # <<>>, call = None, NEW s \in Sessions \cup {None}, RunEnds(s)
  PROVE  /\ Current.task \in Tasks /\ Current \in Runs /\ Current = runs[1]
         /\ 1 \in DOMAIN runs
         /\ runs' = Tail(runs)
         /\ LockOK(EndLocks(s)) /\ locks' = Release(EndLocks(s), Current.task)
         /\ \/ /\ HandedTo(EndLocks(s), Current.task) = None /\ call' = None
            \/ /\ HandedTo(EndLocks(s), Current.task) \in Tasks
               /\ call' = [task |-> HandedTo(EndLocks(s), Current.task), at |-> clock,
                           manual |-> FALSE]
         /\ \/ UNCHANGED <<timer, stray>>
            \/ timer' = [timer EXCEPT ![Current.task] = None] /\ UNCHANGED stray
            \/ Reschedule(Current.task, AfterRow(s)[Current.task])
         /\ UNCHANGED <<catchup, passive, clock, intent, fired, allowed>>
<1>1. /\ Current.task \in Tasks /\ Current \in Runs /\ Current = runs[1]
      /\ 1 \in DOMAIN runs /\ Current.key \in Keys
  BY CurrentType
<1>2. LockOK(EndLocks(s))
  BY <1>1, ReassignType, Parts DEF EndLocks, LocksOK, Keys
<1>3. /\ runs' = Tail(runs) /\ locks' = Release(EndLocks(s), Current.task)
      /\ IF HandedTo(EndLocks(s), Current.task) = None THEN UNCHANGED call
         ELSE FireTask(HandedTo(EndLocks(s), Current.task), clock, FALSE)
      /\ UNCHANGED <<catchup, passive, clock, intent, fired, allowed>>
  BY DEF RunEnds, EndLocks
<1>4. HandedTo(EndLocks(s), Current.task) \in Tasks \cup {None}
  BY <1>1, <1>2, HandedToType
<1>5. \/ UNCHANGED <<timer, stray>>
      \/ timer' = [timer EXCEPT ![Current.task] = None] /\ UNCHANGED stray
      \/ Reschedule(Current.task, AfterRow(s)[Current.task])
  <2>1. WindUp(AfterRow(s), Current.task)
    BY DEF RunEnds
  <2> HIDE DEF AfterRow
  <2> QED
    BY <2>1 DEF WindUp, CancelTimer
<1> QED
  BY <1>1, <1>2, <1>3, <1>4, <1>5 DEF FireTask

\* Whoever waits after the end of a run waited before it, and the one that is
\* called waits no more.
LEMMA RunEndsWaits ==
  ASSUME IInv, runs # <<>>, call = None, NEW s \in Sessions \cup {None}, RunEnds(s),
         WaitsOnce(locks)
  PROVE  /\ WaitsOnce(locks')
         /\ \A u \in Tasks : InQueue(locks', u) => InQueue(locks, u)
         /\ call' # None => /\ call'.task \in Tasks
                            /\ InQueue(locks, call'.task) /\ ~InQueue(locks', call'.task)
<1> DEFINE L == EndLocks(s)
           t == Current.task
<1>1. LockOK(L) /\ t \in Tasks /\ locks' = Release(L, t)
  BY RunEndsParts
<1>2. WaitsOnce(L) /\ \A u \in Tasks : InQueue(L, u) => InQueue(locks, u)
  BY CurrentType, ReassignWaits, Parts DEF EndLocks, LocksOK, Keys
<1> HIDE DEF L, t
<1>3. /\ WaitsOnce(locks')
      /\ \A u \in Tasks, l \in Keys : IsWaiting(locks', u, l) => IsWaiting(L, u, l)
      /\ HandedTo(L, t) # None => /\ IsWaiting(L, HandedTo(L, t), L.byTask[t])
                                  /\ ~InQueue(locks', HandedTo(L, t))
  BY <1>1, <1>2, ReleaseWaits
<1>4. \A u \in Tasks : InQueue(locks', u) => InQueue(locks, u)
  BY <1>2, <1>3 DEF InQueue
<1>5. ASSUME call' # None
      PROVE  /\ call'.task \in Tasks
             /\ InQueue(locks, call'.task) /\ ~InQueue(locks', call'.task)
  <2>1. call'.task = HandedTo(L, t) /\ HandedTo(L, t) \in Tasks /\ HandedTo(L, t) # None
    BY <1>5, RunEndsParts, LocksAssumption DEF L, t
  <2>2. L.byTask[t] \in Keys
    BY <1>1, <2>1, ReleaseWaiting
  <2>3. InQueue(L, HandedTo(L, t))
    BY <1>3, <2>1, <2>2 DEF InQueue
  <2> QED
    BY <1>2, <1>3, <2>1, <2>3
<1> QED
  BY <1>3, <1>4, <1>5

\* An end of a run in the runtime's queue.
LEMMA EndsOfRuns ==
  ASSUME DispatchReturns \/ CancelledBeforeDispatch
  PROVE  /\ runs # <<>> /\ call = None
         /\ \E s \in Sessions \cup {None} :
              /\ RunEnds(s) /\ s \in Reported \cup {None}
              /\ IF Continued(s) THEN Spend("continue") ELSE UNCHANGED used
<1>1. CASE DispatchReturns
  BY <1>1 DEF DispatchReturns, Quiet, Reported
<1>2. CASE CancelledBeforeDispatch
  <2>1. ~Continued(None)
    BY DEF Continued
  <2> QED
    BY <1>2, <2>1 DEF CancelledBeforeDispatch
<1> QED
  BY <1>1, <1>2

\* A call that is not too early.
Served == \/ FireDropped \/ FireCapped \/ FireSkipped \/ FireQueued \/ FireGranted
          \/ FirePreempts

LEMMA FireIs == Fire <=> FireEarly \/ Served
BY DEF Fire, Served

\* One that is: it is put back on a timer, and nothing else happens.
LEMMA EarlyParts ==
  ASSUME IInv, FireEarly
  PROVE  /\ call # None /\ call.task \in Tasks /\ call' = None
         /\ ~call.manual /\ call.at > clock
         /\ Reschedule(call.task, mem[call.task])
         /\ UNCHANGED <<mem, disk, gap, ext, catchup, passive, locks, recorded, runs, clock,
                        intent, fired, surplus, allowed, used>>
BY FreshType DEF IInv, FireEarly, fileVars, histVars

\* An answered call: the task is turned away, waits, or has a run.
LEMMA FireParts ==
  ASSUME IInv, Served
  PROVE  /\ call # None /\ call.task \in Tasks /\ call' = None
         /\ UNCHANGED <<stray, catchup, passive, clock, used, intent, fired, allowed>>
         /\ UNCHANGED timer \/ timer' = [timer EXCEPT ![call.task] = None]
         /\ \/ UNCHANGED <<locks, recorded, runs, surplus>>
            \/ /\ KeyOf(call.task, Fresh) \in Keys
               /\ locks' = Enqueue(locks, call.task, KeyOf(call.task, Fresh))
               /\ UNCHANGED <<recorded, runs, surplus>>
            \/ /\ Answered /\ Fires(Fresh)
               /\ locks'.waiting = locks.waiting
               /\ \E q \in Seq(Runs) : StillRuns(q) /\ runs' = Append(q, NewRun)
<1>1. TypeOK /\ call # None /\ call' = None
  BY DEF IInv, Served, FireDropped, FireCapped, FireSkipped, FireQueued, FireGranted,
     FirePreempts, MayRun, Answered
<1>2. call.task \in Tasks
  BY <1>1, FreshType
<1>3. CASE FireDropped \/ FireCapped \/ FireSkipped
  BY <1>1, <1>2, <1>3 DEF FireDropped, FireCapped, FireSkipped, CancelTimer, histVars, timerVars
<1>4. CASE FireQueued
  <2>1. KeyOf(call.task, Fresh) \in Keys
    BY <1>4, MayRunType DEF FireQueued, MayRun
  <2> QED
    BY <1>1, <1>2, <1>4, <2>1 DEF FireQueued, histVars, timerVars
<1>5. CASE FireGranted
  <2>1. Answered /\ Fires(Fresh)
    BY <1>5 DEF FireGranted, MayRun
  <2>2. LockOK(locks) /\ runs \in Seq(Runs) /\ StillRuns(runs)
    BY Parts DEF LocksOK, RunsOK, StillRuns, SameRuns, SameRun
  <2>3. locks'.waiting = locks.waiting
    BY <1>5, <2>2, HolderWaits DEF FireGranted
  <2> QED
    BY <1>1, <1>2, <1>5, <2>1, <2>2, <2>3 DEF FireGranted, histVars, timerVars
<1>6. CASE FirePreempts
  <2> DEFINE k == KeyOf(call.task, Fresh)
             old == locks.holder[k]
             C == ClearHolder(locks, k)
  <2>1. Answered /\ Fires(Fresh)
    BY <1>6 DEF FirePreempts, MayRun
  <2>2. k \in Keys /\ LockOK(locks)
    BY <2>1, MayRunType, Parts DEF LocksOK
  <2>3. old \in Tasks
    BY <1>6, <2>2, PreemptedHolds DEF FirePreempts, Outcome
  <2>4. Abort(Loaded, old) \in Seq(Runs) /\ StillRuns(Abort(Loaded, old))
    BY <2>3, AbortSame
  <2>5. LockOK(C) /\ C.waiting = locks.waiting
    BY <2>2, ClearHolderType, HolderWaits
  <2>6. locks' = SetHolder(C, call.task, k) /\ runs' = Append(Abort(Loaded, old), NewRun)
    BY <1>6 DEF FirePreempts
  <2>7. locks'.waiting = locks.waiting
    <3> HIDE DEF C
    <3> QED
      BY <2>5, <2>6, HolderWaits
  <2>8. UNCHANGED <<timer, stray, catchup, passive, clock, used, intent, fired, allowed>>
    BY <1>6 DEF FirePreempts, timerVars
  <2> QED
    BY <1>1, <1>2, <2>1, <2>4, <2>6, <2>7, <2>8
<1> QED
  BY <1>3, <1>4, <1>5, <1>6 DEF Served

\* A task that is let in has a run.
LEMMA GivenRun ==
  ASSUME IInv, FireGranted \/ FirePreempts
  PROVE  \A t : InRuns(runs', t) <=> InRuns(runs, t) \/ t = call.task
<1>1. Answered /\ Fires(Fresh)
  BY DEF FireGranted, FirePreempts, MayRun
<1>2. CASE FireGranted
  <2>1. SameRuns(runs) /\ runs' = Append(runs, NewRun) /\ runs \in Seq(Runs)
    BY <1>2, Parts DEF FireGranted, SameRuns, SameRun, RunsOK
  <2> QED
    BY <1>1, <2>1, AppendRuns
<1>3. CASE FirePreempts
  <2> DEFINE old == locks.holder[KeyOf(call.task, Fresh)]
  <2>1. old \in Tasks
    BY <1>1, <1>3, MayRunType, PreemptedHolds DEF FirePreempts, Outcome
  <2>2. runs' = Append(Abort(Loaded, old), NewRun)
    BY <1>3 DEF FirePreempts
  <2>3. Abort(Loaded, old) \in Seq(Runs) /\ SameRuns(Abort(Loaded, old))
    BY <2>1, AbortSame
  <2> HIDE DEF old
  <2> QED
    BY <1>1, <2>2, <2>3, AppendRuns
<1> QED
  BY <1>2, <1>3

------------------------------------------------------------------------------
(* A task left alone is in one place.                                      *)

\* It has a timer, a call, a run or a place in a queue, and only one of these.
OnePlace(t) ==
  /\ timer[t] # None => ~CallFor(t) /\ ~InRuns(runs, t) /\ ~InQueue(locks, t)
  /\ CallFor(t) => ~InRuns(runs, t) /\ ~InQueue(locks, t)
  /\ InRuns(runs, t) => ~InQueue(locks, t)

\* All that happens is on schedule.
OnSchedule ==
  /\ \A t \in Tasks, k \in Times : stray[t][k] = 0 /\ catchup[t][k] = 0
  /\ call # None => ~call.manual
  /\ \A i \in DOMAIN runs : ~runs[i].manual

Alone == /\ OnSchedule /\ RunsOnce(runs) /\ WaitsOnce(locks)
         /\ \A t \in Tasks : OnePlace(t)

AloneInv == Undisturbed => Alone

Fewer(t) ==
  /\ timer'[t] # None => timer[t] # None
  /\ CallFor(t)' => CallFor(t)
  /\ InRuns(runs', t) => InRuns(runs, t)
  /\ InQueue(locks', t) => InQueue(locks, t)

LEMMA FewerPlaces ==
  ASSUME NEW t, OnePlace(t), Fewer(t)
  PROVE  OnePlace(t)'
BY DEF OnePlace, Fewer

LEMMA AloneInit == Init => Alone
<1> SUFFICES ASSUME Init PROVE Alone
  OBVIOUS
<1>1. /\ runs = <<>> /\ call = None /\ stray = NoTimers /\ catchup = NoTimers
      /\ locks = Unlocked
  BY DEF Init
<1>2. /\ RunsOnce(runs) /\ WaitsOnce(locks) /\ \A t : ~InRuns(runs, t)
      /\ \A t \in Tasks : ~InQueue(locks, t)
  BY <1>1 DEF RunsOnce, WaitsOnce, InRuns, InQueue, IsWaiting, Unlocked
<1>3. OnSchedule
  BY <1>1 DEF OnSchedule, NoTimers
<1>4. \A t \in Tasks : OnePlace(t)
  BY <1>1, <1>2 DEF OnePlace, CallFor
<1> QED
  BY <1>2, <1>3, <1>4 DEF Alone

\* However a call is answered, its task goes to at most one place.
LEMMA FireAlone ==
  ASSUME IInv, Alone, Served
  PROVE  Alone'
<1>0. PICK t \in Tasks : t = call.task
  BY FireParts
<1>1. /\ call # None /\ call' = None
      /\ UNCHANGED <<stray, catchup>>
      /\ UNCHANGED timer \/ timer' = [timer EXCEPT ![t] = None]
  BY <1>0, FireParts
<1>2. timer \in [Tasks -> Times \cup {None}]
  BY DEF IInv, TypeOK
<1>3. /\ timer[t] = None /\ ~InRuns(runs, t) /\ ~InQueue(locks, t)
      /\ \A u \in Tasks : (timer'[u] # None => timer[u] # None) /\ ~CallFor(u)'
  BY <1>0, <1>1, <1>2 DEF Alone, OnePlace, CallFor
<1>4. CASE UNCHANGED <<locks, runs>>
  <2>1. \A u \in Tasks : Fewer(u)
    BY <1>3, <1>4 DEF Fewer
  <2>2. RunsOnce(runs)' /\ WaitsOnce(locks)' /\ OnSchedule'
    BY <1>1, <1>4 DEF Alone, OnSchedule
  <2> QED
    BY <2>1, <2>2, FewerPlaces DEF Alone
<1>5. ASSUME NEW k \in Keys, locks' = Enqueue(locks, t, k), UNCHANGED runs
      PROVE  Alone'
  <2>1. /\ \A u \in Tasks, l \in Keys :
             IsWaiting(locks', u, l) <=> IsWaiting(locks, u, l) \/ (u = t /\ l = k)
        /\ WaitsOnce(locks')
    BY <1>3, <1>5, EnqueueWaits, Parts DEF LocksOK, Alone
  <2>2. \A u \in Tasks : InQueue(locks', u) => u = t \/ InQueue(locks, u)
    BY <2>1 DEF InQueue
  <2>3. \A u \in Tasks : u # t => OnePlace(u)'
    BY <1>3, <1>5, <2>2, FewerPlaces DEF Alone, Fewer
  <2>4. OnePlace(t)'
    BY <1>1, <1>3, <1>5 DEF OnePlace
  <2>5. OnSchedule'
    BY <1>1, <1>5 DEF Alone, OnSchedule
  <2> QED
    BY <1>5, <2>1, <2>3, <2>4, <2>5 DEF Alone
<1>6. ASSUME Answered, Fires(Fresh), locks'.waiting = locks.waiting,
             NEW q \in Seq(Runs), StillRuns(q), runs' = Append(q, NewRun)
      PROVE  Alone'
  <2>1. /\ DOMAIN runs' = DOMAIN runs \cup {Len(runs) + 1}
        /\ \A i \in DOMAIN runs : SameRun(runs'[i], runs[i])
        /\ runs'[Len(runs) + 1] = NewRun
        /\ \A u : InRuns(runs', u) <=> InRuns(runs, u) \/ u = t
        /\ RunsOnce(runs')
    BY <1>0, <1>3, <1>6, AppendRuns DEF Alone, StillRuns
  <2>2. WaitsOnce(locks') /\ \A u \in Tasks : InQueue(locks', u) <=> InQueue(locks, u)
    BY <1>6 DEF Alone, WaitsOnce, InQueue, IsWaiting
  <2>3. \A u \in Tasks : u # t => OnePlace(u)'
    BY <1>3, <2>1, <2>2, FewerPlaces DEF Alone, Fewer
  <2>4. OnePlace(t)'
    BY <1>1, <1>3, <2>2 DEF OnePlace
  <2>5. OnSchedule'
    BY <1>1, <2>1 DEF Alone, OnSchedule, SameRun, NewRun
  <2> QED
    BY <2>1, <2>2, <2>3, <2>4, <2>5 DEF Alone
<1> QED
  BY <1>0, <1>4, <1>5, <1>6, FireParts

\* A call that came too early becomes a timer again.
LEMMA EarlyAlone ==
  ASSUME IInv, Alone, FireEarly
  PROVE  Alone'
<1>0. PICK t \in Tasks : t = call.task
  BY EarlyParts
<1>1. /\ call # None /\ call' = None /\ UNCHANGED <<catchup, locks, runs>>
      /\ Reschedule(t, mem[t])
  BY <1>0, EarlyParts
<1>2. timer \in [Tasks -> Times \cup {None}]
  BY DEF IInv, TypeOK
<1>3. timer[t] = None /\ ~InRuns(runs, t) /\ ~InQueue(locks, t)
  BY <1>0, <1>1, <1>2 DEF Alone, OnePlace, CallFor
<1>4. UNCHANGED stray /\ \A u \in Tasks : u # t => timer'[u] = timer[u]
  BY <1>1, <1>2, <1>3 DEF Reschedule, Plus
<1>5. \A u \in Tasks : u # t => OnePlace(u)'
  BY <1>1, <1>4, FewerPlaces DEF Alone, Fewer, CallFor
<1>6. OnePlace(t)'
  BY <1>1, <1>3 DEF OnePlace, CallFor
<1>7. OnSchedule' /\ RunsOnce(runs)' /\ WaitsOnce(locks)'
  BY <1>1, <1>4 DEF Alone, OnSchedule
<1> QED
  BY <1>5, <1>6, <1>7 DEF Alone

\* The run that ends gives its task a timer; another task may be called.
LEMMA EndAlone ==
  ASSUME IInv, Alone, runs # <<>>, call = None, NEW s \in Sessions \cup {None}, RunEnds(s)
  PROVE  Alone'
<1>0. PICK t \in Tasks : t = Current.task
  BY RunEndsParts
<1>1. /\ runs' = Tail(runs) /\ Current = runs[1] /\ 1 \in DOMAIN runs
      /\ call' = None \/ ~call'.manual
      /\ UNCHANGED catchup
  BY <1>0, RunEndsParts
<1>2. /\ WaitsOnce(locks')
      /\ \A u \in Tasks : InQueue(locks', u) => InQueue(locks, u)
      /\ call' # None => /\ call'.task \in Tasks
                         /\ InQueue(locks, call'.task) /\ ~InQueue(locks', call'.task)
  BY RunEndsWaits DEF Alone
<1>3. /\ \A i \in DOMAIN runs' : i + 1 \in DOMAIN runs /\ runs'[i] = runs[i + 1]
      /\ RunsOnce(runs') /\ ~InRuns(runs', t)
      /\ \A u : InRuns(runs', u) => InRuns(runs, u)
  BY <1>0, <1>1, TailRuns DEF Alone
<1>4. InRuns(runs, t)
  BY <1>0, <1>1 DEF InRuns
<1>5. timer \in [Tasks -> Times \cup {None}] /\ timer[t] = None
  BY <1>1, <1>4 DEF Alone, OnePlace, IInv, TypeOK
<1>6. UNCHANGED stray /\ \A u \in Tasks : u # t => timer'[u] = timer[u]
  BY <1>0, <1>1, <1>5, RunEndsParts DEF Reschedule, Plus
<1>7. ~InQueue(locks', t) /\ ~CallFor(t)'
  BY <1>1, <1>2, <1>4 DEF Alone, OnePlace, CallFor
<1>8. OnePlace(t)'
  BY <1>3, <1>7 DEF OnePlace
<1>9. ASSUME NEW u \in Tasks, u # t
      PROVE  OnePlace(u)'
  <2>1. CASE ~CallFor(u)'
    BY <1>2, <1>3, <1>6, <1>9, <2>1, FewerPlaces DEF Alone, Fewer
  <2>2. CASE CallFor(u)'
    <3>1. InQueue(locks, u) /\ ~InQueue(locks', u)
      BY <1>2, <2>2 DEF CallFor
    <3>2. timer[u] = None /\ ~InRuns(runs, u)
      BY <3>1 DEF Alone, OnePlace
    <3> QED
      BY <1>3, <1>6, <1>9, <3>1, <3>2 DEF OnePlace
  <2> QED
    BY <2>1, <2>2
<1>10. OnSchedule'
  BY <1>1, <1>3, <1>6 DEF Alone, OnSchedule
<1> QED
  BY <1>2, <1>3, <1>8, <1>9, <1>10 DEF Alone

\* Nothing that happens to an engine on schedule puts a task in two places.
LEMMA AloneStep == IInv /\ AloneInv /\ [Next]_vars => AloneInv'
<1> SUFFICES ASSUME IInv, Undisturbed, Alone, [Next]_vars, Undisturbed' PROVE Alone'
  BY UndisturbedBack DEF AloneInv
<1>1. timer \in [Tasks -> Times \cup {None}] /\ runs \in Seq(Runs)
  BY DEF IInv, TypeOK
<1>2. ASSUME UNCHANGED <<stray, catchup, call>>, locks'.waiting = locks.waiting,
             SameRuns(runs'), \A t \in Tasks : timer'[t] # None => timer[t] # None
      PROVE  Alone'
  <2>1. WaitsOnce(locks') /\ \A u \in Tasks : InQueue(locks', u) <=> InQueue(locks, u)
    BY <1>2 DEF Alone, WaitsOnce, InQueue, IsWaiting
  <2>2. RunsOnce(runs') /\ \A u : InRuns(runs', u) <=> InRuns(runs, u)
    BY <1>2, SameRunsOnce DEF Alone
  <2>3. \A u \in Tasks : OnePlace(u)'
    BY <1>2, <2>1, <2>2, FewerPlaces DEF Alone, Fewer, CallFor
  <2>4. OnSchedule'
    BY <1>2 DEF Alone, OnSchedule, SameRuns, SameRun
  <2> QED
    BY <2>1, <2>2, <2>3, <2>4 DEF Alone
<1>3. UNCHANGED runs => SameRuns(runs')
  BY DEF SameRuns, SameRun
<1>4. CASE Fire
  BY <1>4, FireAlone, EarlyAlone, FireIs
<1>5. CASE DispatchReturns \/ CancelledBeforeDispatch
  BY <1>5, EndsOfRuns, EndAlone
<1>6. CASE StartDispatch
  <2>1. UNCHANGED <<timer, stray, catchup, call, locks>>
    BY <1>6 DEF StartDispatch, timerVars
  <2> QED
    BY <1>2, <1>6, <2>1, StartSame
<1>7. CASE SetBack \/ Demote \/ Tick \/ ExternalUnlink \/ ExternalRename \/ UNCHANGED vars
  <2>1. UNCHANGED <<stray, catchup, call, locks, runs>>
    BY <1>7 DEF SetBack, Demote, Tick, ExternalUnlink, ExternalRename, vars, runVars, timerVars
  <2>2. UNCHANGED timer \/ timer' = [t \in Tasks |-> None]
    BY <1>7 DEF SetBack, Demote, Tick, ExternalUnlink, ExternalRename, vars, timerVars
  <2> QED
    BY <1>2, <1>3, <2>1, <2>2
<1>8. ASSUME NEW t \in Tasks, NEW ask \in {"active", "paused", "deleted"}, ExternalRead(t, ask)
      PROVE  Alone'
  <2>1. UNCHANGED <<timer, stray, catchup, call, locks, runs>>
    BY <1>8 DEF ExternalRead, runVars, timerVars
  <2> QED
    BY <1>2, <1>3, <2>1
<1>9. ASSUME NEW k \in Keys, TimeoutFires(k)
      PROVE  Alone'
  <2>1. locks.holder[k] \in Tasks /\ LockOK(locks)
    BY <1>9, Parts DEF TimeoutFires, LocksOK, LockOK, LockTables, ArmedHeld
  <2>2. SameRuns(runs')
    BY <1>9, <2>1, AbortSame DEF TimeoutFires
  <2>3. UNCHANGED <<timer, stray, catchup, call>> /\ locks'.waiting = locks.waiting
    BY <1>9, <2>1 DEF TimeoutFires, timerVars, LockOK, LockTables
  <2> QED
    BY <1>2, <2>2, <2>3
<1>10. ASSUME NEW t \in Tasks, TimerFires(t)
       PROVE  Alone'
  <2>1. /\ UNCHANGED <<stray, catchup, locks, runs>> /\ call = None /\ timer[t] # None
        /\ timer' = [timer EXCEPT ![t] = None]
        /\ call' = [task |-> t, at |-> timer[t], manual |-> FALSE]
    BY <1>10 DEF TimerFires, Quiet, FireTask
  <2>2. ~InRuns(runs, t) /\ ~InQueue(locks, t) /\ timer'[t] = None
    BY <1>1, <2>1 DEF Alone, OnePlace
  <2>3. \A u \in Tasks : u # t => OnePlace(u)'
    BY <1>1, <2>1, FewerPlaces DEF Alone, Fewer, CallFor
  <2>4. OnePlace(t)'
    BY <2>1, <2>2 DEF OnePlace
  <2>5. OnSchedule'
    BY <2>1 DEF Alone, OnSchedule
  <2> QED
    BY <2>1, <2>3, <2>4, <2>5 DEF Alone
<1>11. ASSUME NEW t \in Tasks, NEW k \in Times, StrayFires(t, k) \/ CatchUpFires(t, k)
       PROVE  FALSE
  <2>1. stray[t][k] > 0 \/ catchup[t][k] > 0
    BY <1>11 DEF StrayFires, CatchUpFires
  <2>2. stray[t][k] = 0 /\ catchup[t][k] = 0
    BY DEF Alone, OnSchedule
  <2> QED
    BY <2>1, <2>2
<1> QED
  BY <1>4, <1>5, <1>6, <1>7, <1>8, <1>9, <1>10, <1>11, UndisturbedSteps

\* A task never has two runs in the queue of the runtime (engine.ts:17-20).
THEOREM RunsDoNotOverlap == Spec => []NoOverlap
<1>1. Init => AloneInv
  BY AloneInit DEF AloneInv
<1>2. AloneInv => NoOverlap
  BY DEF AloneInv, Alone, RunsOnce, NoOverlap
<1> QED
  BY <1>1, <1>2, InitType, StepType, AloneStep, PTL DEF Spec

------------------------------------------------------------------------------
(* An occurrence is dispatched once.                                       *)

\* The dispatches too many that early timers and a clock that is set back excuse.
Extra == used["early"] + used["setback"]

\* From boundary k on, t was dispatched no more often than is excused.
Ahead(t, k) == \A j \in Times : j >= k => fired[t][j] <= Extra
\* An occurrence that is about to be dispatched, and one that fireTask is called for.
Pending(t, k) == /\ Ahead(t, k)
                 /\ k > clock => \A j \in Times : j >= k => fired[t][j] + 1 <= Extra
Called(t, k) == Pending(t, k) /\ (k > clock => \A j \in Times : fired[t][j] <= Extra)

FresherOf(t) ==
  /\ \A k \in Times : fired[t][k] <= 1 + Extra
  /\ Ahead(t, clock + 1)
  /\ timer[t] # None => Ahead(t, timer[t])
  /\ CallFor(t) => Called(t, call.at)
  /\ InQueue(locks, t) => Ahead(t, clock)
RunsFresh(q) == \A i \in DOMAIN q : ~q[i].started => Pending(q[i].task, q[i].at)
Fresher == (\A t \in Tasks : FresherOf(t)) /\ RunsFresh(runs)

FresherInv == Undisturbed => Fresher

LEMMA FresherTypes ==
  ASSUME IInv
  PROVE  /\ timer \in [Tasks -> Times \cup {None}] /\ clock \in Nat /\ runs \in Seq(Runs)
         /\ \A k \in Times : k \in Nat
         /\ fired \in Bags /\ \A t \in Tasks, k \in Times : fired[t][k] \in Nat
         /\ Extra \in Nat
         /\ call # None => call.task \in Tasks /\ call.at \in Times
         /\ \A i \in DOMAIN runs : runs[i].task \in Tasks /\ runs[i].at \in Times
<1>1. used \in [Kinds -> Nat] /\ "early" \in Kinds /\ "setback" \in Kinds
  BY Parts DEF Kinds
<1>2. \A i \in DOMAIN runs : runs[i].task \in Tasks /\ runs[i].at \in Times
  <2>1. runs \in Seq(Runs)
    BY DEF IInv, TypeOK
  <2>2. \A i \in DOMAIN runs : runs[i] \in Runs
    BY <2>1
  <2> QED
    BY <2>2 DEF Runs
<1>3. call # None => call.task \in Tasks /\ call.at \in Times
  BY FreshType DEF IInv
<1>4. timer \in [Tasks -> Times \cup {None}] /\ clock \in Nat /\ runs \in Seq(Runs)
  BY EngineAssumption DEF IInv, TypeOK
<1>5. \A k \in Times : k \in Nat
  BY EngineAssumption DEF Times
<1>6. fired \in Bags /\ \A t \in Tasks, k \in Times : fired[t][k] \in Nat
  BY DEF IInv, TypeOK, Bags
<1>7. Extra \in Nat
  BY <1>1 DEF Extra
<1> QED
  BY <1>2, <1>3, <1>4, <1>5, <1>6, <1>7

LEMMA ExtraGrows ==
  ASSUME IInv, [Next]_vars
  PROVE  Extra \in Nat /\ Extra' \in Nat /\ Extra' >= Extra
<1>1. "early" \in Kinds /\ "setback" \in Kinds
  BY DEF Kinds
<1> QED
  BY <1>1, UsedGrows DEF Extra

LEMMA FresherInit == Init => Fresher
<1> SUFFICES ASSUME Init PROVE Fresher
  OBVIOUS
<1>1. runs = <<>> /\ call = None /\ fired = NoTimers /\ used = [k \in Kinds |-> 0]
  BY DEF Init
<1>2. (\A t \in Tasks, k \in Times : fired[t][k] = 0) /\ Extra = 0
  BY <1>1 DEF NoTimers, Extra, Kinds
<1>3. \A t \in Tasks : \A k : Ahead(t, k)
  BY <1>2 DEF Ahead
<1>4. \A t \in Tasks, k \in Times : fired[t][k] <= 1 + Extra
  BY <1>2
<1> QED
  BY <1>1, <1>3, <1>4 DEF Fresher, FresherOf, RunsFresh, CallFor

\* Time that passes, and a clock that is set back, keep what is known of a task
\* that is not dispatched meanwhile.
LEMMA Later ==
  ASSUME IInv, NEW t \in Tasks, UNCHANGED fired, clock' \in Nat, Extra' \in Nat,
         \/ clock' \in {clock, clock + 1} /\ Extra' >= Extra
         \/ clock' = clock - 1 /\ Extra' >= Extra + 1,
         \A k \in Times : fired[t][k] <= 1 + Extra
  PROVE  /\ \A k \in Times : fired'[t][k] <= 1 + Extra'
         /\ Ahead(t, clock + 1) => Ahead(t, clock + 1)'
         /\ Ahead(t, clock) => Ahead(t, clock)'
         /\ \A k \in Times : Ahead(t, k) => Ahead(t, k)'
         /\ \A k \in Times : Pending(t, k) => Pending(t, k)'
         /\ \A k \in Times : Called(t, k) => Called(t, k)'
<1>1. PICK c, e, E, f : c = clock' /\ E = Extra' /\ e = Extra /\ f = fired[t]
  OBVIOUS
<1>2. /\ clock \in Nat /\ c \in Nat /\ e \in Nat /\ E \in Nat
      /\ \A k \in Times : k \in Nat /\ f[k] \in Nat
  BY <1>1, FresherTypes
<1>3. \/ c \in {clock, clock + 1} /\ E >= e
      \/ c = clock - 1 /\ E >= e + 1
  BY <1>1
<1>4. \A k \in Times : f[k] <= 1 + e
  BY <1>1
<1> DEFINE Ah(k, n) == \A j \in Times : j >= k => f[j] <= n
           Pe(k, n, m) == Ah(k, n) /\ (k > m => \A j \in Times : j >= k => f[j] + 1 <= n)
           Ca(k, n, m) == Pe(k, n, m) /\ (k > m => \A j \in Times : f[j] <= n)
<1>5. /\ Ahead(t, clock + 1) <=> Ah(clock + 1, e)
      /\ Ahead(t, clock) <=> Ah(clock, e)
      /\ \A k : Ahead(t, k) <=> Ah(k, e)
      /\ \A k : Pending(t, k) <=> Pe(k, e, clock)
      /\ \A k : Called(t, k) <=> Ca(k, e, clock)
  BY <1>1 DEF Ahead, Pending, Called
<1>6. /\ Ahead(t, clock + 1)' <=> Ah(c + 1, E)
      /\ Ahead(t, clock)' <=> Ah(c, E)
  BY <1>1 DEF Ahead
<1>7. \A k \in Times : Ahead(t, k)' <=> Ah(k, E)
  BY <1>1 DEF Ahead
<1>8. \A k \in Times : Pending(t, k)' <=> Pe(k, E, c)
  BY <1>1 DEF Ahead, Pending
<1>9. \A k \in Times : Called(t, k)' <=> Ca(k, E, c)
  BY <1>1 DEF Ahead, Pending, Called
<1>10. /\ Ah(clock + 1, e) => Ah(c + 1, E)
       /\ Ah(clock, e) => Ah(c, E)
  BY <1>2, <1>3, <1>4
<1>11. \A k \in Times : Ah(k, e) => Ah(k, E)
  BY <1>2, <1>3
<1>12. \A k \in Times : Pe(k, e, clock) => Pe(k, E, c)
  BY <1>2, <1>3, <1>4
<1>13. \A k \in Times : Ca(k, e, clock) => Ca(k, E, c)
  <2> SUFFICES ASSUME NEW k \in Times, Ca(k, e, clock), k > c
               PROVE  \A j \in Times : f[j] <= E
    BY <1>12
  <2>1. k \in Nat
    BY <1>2
  <2>2. CASE k > clock
    BY <1>2, <1>3, <2>2
  <2>3. CASE ~(k > clock)
    BY <1>2, <1>3, <1>4, <2>1, <2>3
  <2> QED
    BY <2>2, <2>3
<1>14. \A k \in Times : fired'[t][k] <= 1 + Extra'
  <2>1. \A k \in Times : f[k] <= 1 + E
    BY <1>2, <1>3, <1>4
  <2> QED
    BY <1>1, <2>1
<1> HIDE DEF Ah, Pe, Ca
<1> QED
  BY <1>5, <1>6, <1>7, <1>8, <1>9, <1>10, <1>11, <1>12, <1>13, <1>14

\* What a step that dispatches nothing leaves where it was.
LEMMA FresherStays ==
  ASSUME IInv, Fresher, [Next]_vars, UNCHANGED fired, clock' \in Nat,
         clock' \in {clock, clock + 1} \/ (clock' = clock - 1 /\ Extra' >= Extra + 1),
         NEW t \in Tasks,
         timer'[t] \in {None, timer[t]} \/ (timer'[t] = clock + 1 /\ clock' = clock),
         CallFor(t)' => (CallFor(t) /\ call' = call) \/ Called(t, call.at)',
         InQueue(locks', t) => InQueue(locks, t) \/ Ahead(t, clock)
  PROVE  FresherOf(t)'
<1>1. Extra' \in Nat /\ Extra' >= Extra /\ FresherOf(t)
  BY ExtraGrows DEF Fresher
<1>2. /\ \A k \in Times : fired'[t][k] <= 1 + Extra'
      /\ Ahead(t, clock + 1)' /\ (Ahead(t, clock) => Ahead(t, clock)')
      /\ \A k \in Times : Ahead(t, k) => Ahead(t, k)'
      /\ \A k \in Times : Called(t, k) => Called(t, k)'
  BY <1>1, Later DEF FresherOf
<1>3. timer'[t] # None => Ahead(t, timer[t])'
  <2>1. CASE timer'[t] = clock + 1 /\ clock' = clock
    BY <1>2, <2>1 DEF Ahead
  <2>2. CASE timer'[t] = timer[t] /\ timer[t] # None
    <3>1. PICK k \in Times : k = timer[t]
      BY <2>2, FresherTypes
    <3>2. Ahead(t, k)'
      BY <1>1, <1>2, <2>2, <3>1 DEF FresherOf
    <3> QED
      BY <2>2, <3>1, <3>2 DEF Ahead
  <2> QED
    BY <2>1, <2>2
<1>4. CallFor(t)' => Called(t, call.at)'
  <2> SUFFICES ASSUME CallFor(t), call' = call PROVE Called(t, call.at)'
    OBVIOUS
  <2>1. PICK k \in Times : k = call.at
    BY FresherTypes DEF CallFor
  <2>2. Called(t, k)'
    BY <1>1, <1>2, <2>1 DEF FresherOf
  <2> QED
    BY <2>1, <2>2 DEF Called, Pending, Ahead
<1>5. InQueue(locks', t) => Ahead(t, clock)'
  BY <1>1, <1>2 DEF FresherOf
<1> QED
  BY <1>2, <1>3, <1>4, <1>5 DEF FresherOf

\* Likewise an occurrence that is not yet dispatched.
LEMMA PendingStays ==
  ASSUME IInv, Fresher, [Next]_vars, UNCHANGED fired, clock' \in Nat,
         clock' \in {clock, clock + 1} \/ (clock' = clock - 1 /\ Extra' >= Extra + 1),
         NEW t \in Tasks, NEW k \in Times
  PROVE  /\ Pending(t, k) => Pending(t, k)'
         /\ Ahead(t, k) => Ahead(t, k)'
         /\ Called(t, k) => Called(t, k)'
<1>1. Extra' \in Nat /\ Extra' >= Extra /\ FresherOf(t)
  BY ExtraGrows DEF Fresher
<1> QED
  BY <1>1, Later DEF FresherOf


\* What fireTask is called for may as well wait, and join the queue.
LEMMA CalledIs ==
  ASSUME IInv, NEW t \in Tasks, NEW k \in Times, Called(t, k)
  PROVE  Ahead(t, clock) /\ Pending(t, k)
<1>1. /\ clock \in Nat /\ Extra \in Nat
      /\ \A j \in Times : j \in Nat /\ fired[t][j] \in Nat
  BY FresherTypes
<1> QED
  BY <1>1 DEF Called, Pending, Ahead

\* A run that joins the queue is for the occurrence of the call.
LEMMA FireFresher ==
  ASSUME IInv, Alone, Fresher, [Next]_vars, Served
  PROVE  Fresher'
<1>0. PICK t \in Tasks : t = call.task
  BY FireParts
<1>1. /\ call # None /\ call' = None /\ UNCHANGED <<clock, fired, used>>
      /\ UNCHANGED timer \/ timer' = [timer EXCEPT ![t] = None]
  BY <1>0, FireParts
<1>2. PICK k \in Times : k = call.at
  BY <1>1, FresherTypes
<1>3. Called(t, k) /\ Ahead(t, clock) /\ Pending(t, k)
  <2>1. Called(t, k)
    BY <1>0, <1>1, <1>2 DEF Fresher, FresherOf, CallFor
  <2> QED
    BY <2>1, CalledIs
<1>4. clock' \in Nat /\ \A u \in Tasks : timer'[u] \in {None, timer[u]} /\ ~CallFor(u)'
  BY <1>1, FresherTypes DEF CallFor
<1>5. ASSUME \A u \in Tasks : InQueue(locks', u) => InQueue(locks, u) \/ u = t
      PROVE  \A u \in Tasks : FresherOf(u)'
  BY <1>1, <1>3, <1>4, <1>5, FresherStays
<1>6. ASSUME UNCHANGED <<used, fired, clock>>, NEW q \in Seq(Runs), StillRuns(q)
      PROVE  \A i \in DOMAIN q : ~q[i].started => Pending(q[i].task, q[i].at)'
  BY <1>6 DEF Fresher, RunsFresh, StillRuns, SameRuns, SameRun, Pending, Ahead, Extra
<1>7. CASE UNCHANGED <<locks, runs>>
  <2>1. RunsFresh(runs)'
    BY <1>1, <1>7 DEF Fresher, RunsFresh, Pending, Ahead, Extra
  <2> QED
    BY <1>5, <1>7, <2>1 DEF Fresher
<1>8. ASSUME NEW l \in Keys, locks' = Enqueue(locks, t, l), UNCHANGED runs
      PROVE  Fresher'
  <2>1. \A u \in Tasks, m \in Keys :
          IsWaiting(locks', u, m) <=> IsWaiting(locks, u, m) \/ (u = t /\ m = l)
    BY <1>8, EnqueueWaits, Parts DEF LocksOK
  <2>2. \A u \in Tasks : InQueue(locks', u) => InQueue(locks, u) \/ u = t
    BY <2>1 DEF InQueue
  <2>3. RunsFresh(runs)'
    BY <1>1, <1>8 DEF Fresher, RunsFresh, Pending, Ahead, Extra
  <2> QED
    BY <1>5, <2>2, <2>3 DEF Fresher
<1>9. ASSUME Answered, Fires(Fresh), locks'.waiting = locks.waiting,
             NEW q \in Seq(Runs), StillRuns(q), runs' = Append(q, NewRun)
      PROVE  Fresher'
  <2>1. /\ DOMAIN runs' = DOMAIN runs \cup {Len(runs) + 1}
        /\ \A i \in DOMAIN runs : SameRun(runs'[i], runs[i]) /\ runs'[i].started = runs[i].started
        /\ runs'[Len(runs) + 1] = NewRun
    BY <1>9, AppendRuns DEF StillRuns
  <2>2. \A u \in Tasks : InQueue(locks', u) => InQueue(locks, u)
    BY <1>9 DEF InQueue, IsWaiting
  <2>3. NewRun.at = k /\ NewRun.task = t
    BY <1>0, <1>2 DEF NewRun
  <2>4. Pending(t, k)'
    BY <1>1, <1>3 DEF Pending, Ahead, Extra
  <2>5. ASSUME NEW i \in DOMAIN runs', ~runs'[i].started
        PROVE  Pending(runs[i].task, runs[i].at)'
    <3>1. CASE i \in DOMAIN runs
      <4>1. /\ runs'[i].at = runs[i].at /\ runs'[i].task = runs[i].task
            /\ Pending(runs[i].task, runs[i].at)
        BY <2>1, <2>5, <3>1 DEF SameRun, Fresher, RunsFresh
      <4> QED
        BY <1>1, <4>1 DEF Pending, Ahead, Extra
    <3>2. CASE i = Len(runs) + 1
      BY <2>1, <2>3, <2>4, <3>2 DEF Pending, Ahead
    <3> QED
      BY <2>1, <3>1, <3>2
  <2> QED
    BY <1>5, <2>2, <2>5 DEF Fresher, RunsFresh
<1> QED
  BY <1>0, <1>7, <1>8, <1>9, FireParts

\* A call that came too early is followed by a timer for a boundary that comes.
LEMMA EarlyFresher ==
  ASSUME IInv, Alone, Fresher, [Next]_vars, FireEarly
  PROVE  Fresher'
<1>1. /\ call' = None /\ UNCHANGED <<clock, fired, used, locks, runs>>
      /\ call.task \in Tasks /\ Reschedule(call.task, mem[call.task])
  BY EarlyParts
<1>2. \A u \in Tasks : timer'[u] \in {timer[u], clock + 1}
  BY <1>1, FresherTypes DEF Reschedule, ArmFor, NextRunAt
<1>3. \A u \in Tasks : FresherOf(u)'
  BY <1>1, <1>2, FresherStays, FresherTypes DEF CallFor
<1>4. RunsFresh(runs)'
  BY <1>1 DEF Fresher, RunsFresh, Pending, Ahead, Extra
<1> QED
  BY <1>3, <1>4 DEF Fresher

\* The next timer is for a boundary that comes; a handed-over call is for now.
LEMMA EndFresher ==
  ASSUME IInv, Alone, Fresher, [Next]_vars, runs # <<>>, call = None,
         NEW s \in Sessions \cup {None}, RunEnds(s)
  PROVE  Fresher'
<1>0. PICK t \in Tasks : t = Current.task
  BY RunEndsParts
<1>1. /\ runs' = Tail(runs) /\ Current = runs[1] /\ 1 \in DOMAIN runs
      /\ call' = None \/ call'.at = clock
      /\ UNCHANGED <<clock, fired>>
  BY <1>0, RunEndsParts
<1>2. /\ \A u \in Tasks : InQueue(locks', u) => InQueue(locks, u)
      /\ call' # None => /\ call'.task \in Tasks /\ InQueue(locks, call'.task)
  BY RunEndsWaits DEF Alone
<1>3. \A i \in DOMAIN runs' : i + 1 \in DOMAIN runs /\ runs'[i] = runs[i + 1]
  BY <1>1, TailRuns
<1>4. \A u \in Tasks : timer'[u] \in {None, timer[u], clock + 1}
  <2>1. timer \in [Tasks -> Times \cup {None}]
    BY DEF IInv, TypeOK
  <2>2. \A task : ArmFor(t, task, passive) \in {None, clock + 1}
    BY DEF ArmFor, NextRunAt
  <2> QED
    BY <1>0, <2>1, <2>2, RunEndsParts DEF Reschedule
<1>5. clock' \in Nat /\ clock \in Times
  BY <1>1, FresherTypes, TimesAre, Parts
<1>6. ASSUME NEW u \in Tasks
      PROVE  FresherOf(u)'
  <2>1. CallFor(u)' => Called(u, call.at)'
    <3> SUFFICES ASSUME CallFor(u)' PROVE Called(u, call.at)'
      OBVIOUS
    <3>1. Ahead(u, clock) /\ call'.at = clock
      BY <1>1, <1>2 DEF CallFor, Fresher, FresherOf
    <3>2. Ahead(u, clock)' /\ ~(clock > clock)
      BY <1>1, <1>5, <3>1, PendingStays, FresherTypes DEF Ahead
    <3> QED
      BY <1>1, <3>1, <3>2 DEF Called, Pending, Ahead
  <2> QED
    BY <1>1, <1>2, <1>4, <1>5, <2>1, FresherStays
<1>7. ASSUME NEW i \in DOMAIN runs', ~runs'[i].started
      PROVE  Pending(runs[i].task, runs[i].at)'
  <2>1. PICK r : r = runs'[i] /\ r = runs[i + 1] /\ i + 1 \in DOMAIN runs
    BY <1>3
  <2>2. PICK u \in Tasks, k \in Times : u = r.task /\ k = r.at
    BY <2>1, FresherTypes
  <2>3. Pending(u, k)
    BY <1>7, <2>1, <2>2 DEF Fresher, RunsFresh
  <2>4. Pending(u, k)'
    BY <1>1, <1>5, <2>3, PendingStays
  <2> QED
    BY <2>1, <2>2, <2>4 DEF Pending, Ahead
<1> QED
  BY <1>6, <1>7 DEF Fresher, RunsFresh

\* A dispatch of an occurrence is its first, but for those that are excused.
LEMMA StartFresher ==
  ASSUME IInv, Alone, Fresher, [Next]_vars, StartDispatch
  PROVE  Fresher'
<1>0. PICK r \in Runs : r = Current
  BY CurrentType DEF StartDispatch
<1>1. /\ 1 \in DOMAIN runs /\ r = runs[1] /\ r.task \in Tasks /\ r.at \in Times
      /\ ~r.manual /\ ~r.started
  BY <1>0, CurrentType DEF StartDispatch, Alone, OnSchedule
<1>2. /\ UNCHANGED <<timer, locks, call, clock, used>>
      /\ fired' = Plus(fired, r.task, r.at)
      /\ runs' = [runs EXCEPT ![1].started = TRUE]
  BY <1>0, <1>1 DEF StartDispatch, timerVars
<1>3. fired \in Bags /\ r.at # None /\ runs \in Seq(Runs)
  BY <1>1, FresherTypes, EngineAssumption
<1>4. /\ \A u \in Tasks, k \in Times : ~(u = r.task /\ k = r.at) => fired'[u][k] = fired[u][k]
      /\ fired'[r.task][r.at] = fired[r.task][r.at] + 1
  BY <1>1, <1>2, <1>3 DEF Plus, Bags
<1>5. PICK t \in Tasks, k \in Times : t = r.task /\ k = r.at
  BY <1>1
<1>6. Pending(t, k) /\ FresherOf(t)
  BY <1>1, <1>5 DEF Fresher, RunsFresh
<1>7. PICK e : e = Extra /\ e = Extra'
  BY <1>2 DEF Extra
<1>8. ASSUME NEW u \in Tasks, u # t
      PROVE  /\ FresherOf(u)'
             /\ \A j \in Times : Pending(u, j) => Pending(u, j)'
  <2>1. \A j \in Times : fired'[u][j] = fired[u][j]
    BY <1>4, <1>5, <1>8
  <2>2. /\ \A j : Ahead(u, j) => \A m \in Times : m >= j => fired'[u][m] <= Extra'
        /\ \A j : Pending(u, j) =>
             /\ \A m \in Times : m >= j => fired'[u][m] <= Extra'
             /\ j > clock' => \A m \in Times : m >= j => fired'[u][m] + 1 <= Extra'
        /\ \A j : Called(u, j) => (j > clock' => \A m \in Times : fired'[u][m] <= Extra')
    BY <1>2, <1>7, <2>1 DEF Ahead, Pending, Called
  <2>3. FresherOf(u)
    BY DEF Fresher
  <2>4. \A j \in Times : fired'[u][j] <= 1 + Extra'
    BY <1>7, <2>1, <2>3 DEF FresherOf
  <2>5. Ahead(u, clock + 1)'
    BY <1>2, <2>2, <2>3 DEF FresherOf, Ahead
  <2>6. timer'[u] # None => Ahead(u, timer[u])'
    BY <1>2, <2>2, <2>3 DEF FresherOf, Ahead
  <2>7. CallFor(u)' => Called(u, call.at)'
    <3> SUFFICES ASSUME CallFor(u) PROVE Called(u, call.at)'
      BY <1>2 DEF CallFor
    <3>1. Called(u, call.at) /\ Pending(u, call.at)
      BY <2>3 DEF FresherOf, Called
    <3> QED
      BY <1>2, <2>2, <3>1 DEF Called, Pending, Ahead
  <2>8. InQueue(locks', u) => Ahead(u, clock)'
    BY <1>2, <2>2, <2>3 DEF FresherOf, Ahead
  <2> QED
    BY <2>2, <2>4, <2>5, <2>6, <2>7, <2>8 DEF FresherOf, Pending, Ahead
<1>9. FresherOf(t)'
  <2>1. timer[t] = None /\ ~CallFor(t) /\ ~InQueue(locks, t)
    BY <1>1, <1>5 DEF Alone, OnePlace, InRuns
  <2>2. e \in Nat /\ clock \in Nat /\ \A j \in Times : j \in Nat /\ fired[t][j] \in Nat
    BY <1>7, FresherTypes
  <2>3. \A j \in Times : fired'[t][j] = IF j = k THEN fired[t][j] + 1 ELSE fired[t][j]
    BY <1>4, <1>5
  <2>4. \A j \in Times : fired'[t][j] <= 1 + e
    BY <1>6, <1>7, <2>2, <2>3 DEF FresherOf, Pending, Ahead
  <2>5. \A j \in Times : j >= clock + 1 => fired'[t][j] <= e
    <3> SUFFICES ASSUME NEW j \in Times, j >= clock + 1 PROVE fired'[t][j] <= e
      OBVIOUS
    <3>1. fired[t][j] <= e
      BY <1>6, <1>7 DEF FresherOf, Ahead
    <3>2. j = k => fired[t][j] + 1 <= e
      BY <1>6, <1>7, <2>2 DEF Pending
    <3> QED
      BY <2>2, <2>3, <3>1, <3>2
  <2>6. Ahead(t, clock + 1)'
    BY <1>2, <1>7, <2>5 DEF Ahead
  <2> QED
    BY <1>2, <1>7, <2>1, <2>4, <2>6 DEF FresherOf, CallFor
<1>10. ASSUME NEW i \in DOMAIN runs', ~runs'[i].started
       PROVE  Pending(runs[i].task, runs[i].at)'
  <2>1. i \in DOMAIN runs /\ i # 1 /\ runs'[i] = runs[i]
    BY <1>1, <1>2, <1>3, <1>10
  <2>2. PICK u \in Tasks, j \in Times : u = runs[i].task /\ j = runs[i].at
    BY <2>1, FresherTypes
  <2>3. u # t /\ Pending(u, j)
    BY <1>1, <1>5, <1>10, <2>1, <2>2 DEF Alone, RunsOnce, Fresher, RunsFresh
  <2>4. Pending(u, j)'
    BY <1>8, <2>3
  <2> QED
    BY <2>1, <2>2, <2>4 DEF Pending, Ahead
<1> QED
  BY <1>5, <1>8, <1>9, <1>10 DEF Fresher, RunsFresh

\* A timer that fires, perhaps early, which then excuses one dispatch more.
LEMMA TimerFresher ==
  ASSUME IInv, Alone, Fresher, [Next]_vars, NEW t \in Tasks, TimerFires(t)
  PROVE  Fresher'
<1>1. /\ UNCHANGED <<locks, runs, fired, clock>> /\ timer[t] # None
      /\ timer' = [timer EXCEPT ![t] = None]
      /\ call' = [task |-> t, at |-> timer[t], manual |-> FALSE]
  BY DEF TimerFires, Quiet, FireTask, histVars
<1>2. PICK k \in Times : k = timer[t]
  BY <1>1, FresherTypes
<1>3. clock' \in Nat /\ clock \in Nat /\ timer \in [Tasks -> Times \cup {None}]
  BY <1>1, FresherTypes
<1>4. Extra \in Nat /\ Extra' \in Nat /\ Extra' >= Extra /\ (k > clock => Extra' >= Extra + 1)
  <2>1. "early" \in Kinds /\ "setback" \in Kinds /\ used \in [Kinds -> Nat]
    BY Parts DEF Kinds
  <2>2. /\ used'["setback"] = used["setback"] /\ used'["early"] >= used["early"]
        /\ k > clock => used'["early"] > used["early"]
    BY <1>2, <1>3, <2>1, DueUsed DEF TimerFires
  <2>3. used'["early"] \in Nat
    BY <2>1, UsedGrows
  <2> QED
    BY <2>1, <2>2, <2>3 DEF Extra
<1>5. Called(t, k)'
  <2>1. Ahead(t, k) /\ \A j \in Times : fired[t][j] <= 1 + Extra
    BY <1>1, <1>2 DEF Fresher, FresherOf
  <2>2. \A j \in Times : fired[t][j] \in Nat
    BY FresherTypes
  <2>3. PICK E : E = Extra'
    OBVIOUS
  <2>4. /\ \A j \in Times : j >= k => fired[t][j] <= E
        /\ k > clock => \A j \in Times : j >= k => fired[t][j] + 1 <= E
        /\ k > clock => \A j \in Times : fired[t][j] <= E
    BY <1>4, <2>1, <2>2, <2>3 DEF Ahead
  <2> QED
    BY <1>1, <2>3, <2>4 DEF Called, Pending, Ahead
<1>6. CallFor(t)' => Called(t, call.at)'
  BY <1>1, <1>2, <1>5 DEF Called, Pending, Ahead
<1>7. ASSUME NEW u \in Tasks
      PROVE  FresherOf(u)'
  BY <1>1, <1>3, <1>6, FresherStays DEF CallFor
<1>8. RunsFresh(runs)'
  <2> SUFFICES ASSUME NEW i \in DOMAIN runs', ~runs'[i].started
               PROVE  Pending(runs[i].task, runs[i].at)'
    BY DEF RunsFresh
  <2>1. PICK u \in Tasks, j \in Times : u = runs[i].task /\ j = runs[i].at
    BY <1>1, FresherTypes
  <2>2. Pending(u, j)'
    BY <1>1, <1>3, <2>1, PendingStays DEF Fresher, RunsFresh
  <2> QED
    BY <1>1, <2>1, <2>2 DEF Pending, Ahead
<1> QED
  BY <1>7, <1>8 DEF Fresher

LEMMA FresherStep == IInv /\ AloneInv /\ FresherInv /\ [Next]_vars => FresherInv'
<1> SUFFICES ASSUME IInv, Undisturbed, Alone, Fresher, [Next]_vars, Undisturbed' PROVE Fresher'
  BY UndisturbedBack DEF AloneInv, FresherInv
<1>1. clock \in Nat /\ clock + 1 \in Nat
  BY FresherTypes
<1>2. ASSUME UNCHANGED <<call, fired>>, locks'.waiting = locks.waiting,
             \/ clock' \in {clock, clock + 1}
             \/ clock' = clock - 1 /\ clock' \in Nat /\ Extra' >= Extra + 1,
             StillRuns(runs'),
             \A t \in Tasks : timer'[t] \in {None, timer[t]}
      PROVE  Fresher'
  <2>1. \A u \in Tasks : InQueue(locks', u) <=> InQueue(locks, u)
    BY <1>2 DEF InQueue, IsWaiting
  <2>2. ASSUME NEW u \in Tasks
        PROVE  FresherOf(u)'
    BY <1>1, <1>2, <2>1, FresherStays DEF CallFor
  <2>3. RunsFresh(runs)'
    <3> SUFFICES ASSUME NEW i \in DOMAIN runs', ~runs'[i].started
                 PROVE  Pending(runs[i].task, runs[i].at)'
      BY DEF RunsFresh
    <3>1. /\ i \in DOMAIN runs /\ runs'[i].at = runs[i].at /\ runs'[i].task = runs[i].task
          /\ ~runs[i].started
      BY <1>2 DEF StillRuns, SameRuns, SameRun
    <3>2. PICK u \in Tasks, j \in Times : u = runs[i].task /\ j = runs[i].at
      BY <3>1, FresherTypes
    <3>3. Pending(u, j)
      BY <3>1, <3>2 DEF Fresher, RunsFresh
    <3>4. Pending(u, j)'
      BY <1>1, <1>2, <3>3, PendingStays
    <3> QED
      BY <3>1, <3>2, <3>4 DEF Pending, Ahead
  <2> QED
    BY <2>2, <2>3 DEF Fresher
<1>3. UNCHANGED runs => StillRuns(runs')
  BY DEF StillRuns, SameRuns, SameRun
<1>4. CASE Fire
  BY <1>4, FireFresher, EarlyFresher, FireIs
<1>5. CASE DispatchReturns \/ CancelledBeforeDispatch
  BY <1>5, EndsOfRuns, EndFresher
<1>6. CASE StartDispatch
  BY <1>6, StartFresher
<1>7. CASE Demote \/ Tick \/ ExternalUnlink \/ ExternalRename \/ UNCHANGED vars
  <2>1. UNCHANGED <<call, locks, runs, fired>> /\ clock' \in {clock, clock + 1}
    BY <1>7 DEF Demote, Tick, ExternalUnlink, ExternalRename, vars, runVars, histVars
  <2>2. \A t \in Tasks : timer'[t] \in {None, timer[t]}
    BY <1>7 DEF Demote, Tick, ExternalUnlink, ExternalRename, vars, timerVars
  <2> QED
    BY <1>2, <1>3, <2>1, <2>2
<1>12. CASE SetBack
  <2>1. UNCHANGED <<call, locks, runs, fired, timer>> /\ clock' = clock - 1 /\ clock > 0
    BY <1>12 DEF SetBack, runVars, histVars, timerVars
  <2>2. Extra' >= Extra + 1
    <3>1. "early" \in Kinds /\ "setback" \in Kinds /\ used \in [Kinds -> Nat]
      BY Parts DEF Kinds
    <3> QED
      BY <1>12, <3>1 DEF SetBack, Spend, Extra
  <2>3. clock' \in Nat
    BY <1>1, <2>1
  <2> QED
    BY <1>2, <1>3, <2>1, <2>2, <2>3
<1>8. ASSUME NEW t \in Tasks, NEW ask \in {"active", "paused", "deleted"}, ExternalRead(t, ask)
      PROVE  Fresher'
  <2>1. UNCHANGED <<timer, call, locks, runs, fired, clock>>
    BY <1>8 DEF ExternalRead, runVars, timerVars, histVars
  <2> QED
    BY <1>2, <1>3, <2>1
<1>9. ASSUME NEW k \in Keys, TimeoutFires(k)
      PROVE  Fresher'
  <2>1. locks.holder[k] \in Tasks /\ LockOK(locks)
    BY <1>9, Parts DEF TimeoutFires, LocksOK, LockOK, LockTables, ArmedHeld
  <2>2. StillRuns(runs')
    BY <1>9, <2>1, AbortSame DEF TimeoutFires
  <2>3. UNCHANGED <<timer, call, fired, clock>> /\ locks'.waiting = locks.waiting
    BY <1>9, <2>1 DEF TimeoutFires, timerVars, LockOK, LockTables
  <2> QED
    BY <1>2, <2>2, <2>3
<1>10. ASSUME NEW t \in Tasks, TimerFires(t)
       PROVE  Fresher'
  BY <1>10, TimerFresher
<1>11. ASSUME NEW t \in Tasks, NEW k \in Times, StrayFires(t, k) \/ CatchUpFires(t, k)
       PROVE  FALSE
  <2>1. stray[t][k] > 0 \/ catchup[t][k] > 0
    BY <1>11 DEF StrayFires, CatchUpFires
  <2>2. stray[t][k] = 0 /\ catchup[t][k] = 0
    BY DEF Alone, OnSchedule
  <2> QED
    BY <2>1, <2>2
<1> QED
  BY <1>4, <1>5, <1>6, <1>7, <1>8, <1>9, <1>10, <1>11, <1>12, UndisturbedSteps

\* A scheduled occurrence is dispatched once, and once more at most for each timer
\* that is early and each time the clock is set back, whatever times out, is
\* continued elsewhere, demoted or rewritten by another process (engine.ts:17-20).
THEOREM FiresOnce == Spec => []OncePerOccurrence
<1>1. Init => AloneInv /\ FresherInv
  BY AloneInit, FresherInit DEF AloneInv, FresherInv
<1>2. IInv /\ FresherInv => OncePerOccurrence
  <2> SUFFICES ASSUME IInv, Fresher, NEW t \in Tasks, NEW k \in Times
               PROVE  fired[t][k] <= 1 + used["early"] + used["setback"]
    BY DEF FresherInv, OncePerOccurrence
  <2>1. fired[t][k] <= 1 + Extra
    BY DEF Fresher, FresherOf
  <2>2. "early" \in Kinds /\ "setback" \in Kinds /\ used \in [Kinds -> Nat]
    BY Parts DEF Kinds
  <2>3. fired[t][k] \in Nat
    BY FresherTypes
  <2> QED
    BY <2>1, <2>2, <2>3 DEF Extra
<1> QED
  BY <1>1, <1>2, InitType, StepType, AloneStep, FresherStep, PTL DEF Spec

------------------------------------------------------------------------------
(* The file and the cache are one as long as nobody else writes the file.  *)

Saved == used["external"] = 0 => mem = disk /\ ~gap /\ ext = None

\* What fireTask reads back is then what it had.
LEMMA LoadedIsMem ==
  ASSUME IInv, Saved, used["external"] = 0
  PROVE  ReadTasks = mem /\ Fresh = mem[call.task] /\ (call # None => Loaded = mem)
<1>1. ReadTasks = mem /\ Fresh = mem[call.task]
  BY DEF Saved, ReadTasks, Fresh
<1> QED
  BY <1>1 DEF Loaded, IInv, TypeOK, TaskFiles

LEMMA SavedStep == IInv /\ Saved /\ [Next]_vars => Saved'
<1> SUFFICES ASSUME IInv, Saved, [Next]_vars, used'["external"] = 0
             PROVE  mem' = disk' /\ ~gap' /\ ext' = None
  BY DEF Saved
<1>1. used["external"] = 0
  BY UsedGrows DEF Kinds
<1>2. mem = disk /\ ~gap /\ ext = None
  BY <1>1 DEF Saved
<1>3. ReadTasks = mem /\ (call # None => Loaded = mem)
  BY <1>1, LoadedIsMem
<1>4. Persist => mem' = disk' /\ ~gap' /\ ext' = None
  BY <1>2 DEF Persist
<1>5. CASE Fire
  <2>0. CASE FireEarly
    BY <1>2, <2>0, EarlyParts
  <2>1. call # None
    BY <1>5, FireIs, FireParts, EarlyParts
  <2>2. CASE FireDropped \/ FireQueued \/ FireGranted
    BY <1>2, <1>3, <2>1, <2>2 DEF FireDropped, FireQueued, FireGranted, fileVars
  <2>3. CASE FireCapped \/ FireSkipped
    BY <1>4, <2>3 DEF FireCapped, FireSkipped
  <2>4. CASE FirePreempts
    <3> DEFINE old == locks.holder[KeyOf(call.task, Fresh)]
    <3>1. mem' = TimedOut(Loaded, old)
            /\ IF Loaded[old] = None THEN UNCHANGED fileVars ELSE Persist
      BY <2>4 DEF FirePreempts
    <3> HIDE DEF old
    <3>2. CASE Loaded[old] = None
      BY <1>2, <1>3, <2>1, <3>1, <3>2 DEF TimedOut, fileVars
    <3>3. CASE Loaded[old] # None
      BY <1>4, <3>1, <3>3
    <3> QED
      BY <3>2, <3>3
  <2> QED
    BY <1>5, <2>0, <2>2, <2>3, <2>4 DEF Fire
<1>6. CASE DispatchReturns \/ CancelledBeforeDispatch
  <2>1. PICK s \in Sessions \cup {None} : RunEnds(s)
    BY <1>6, EndsOfRuns
  <2>2. IF Current.task \in recorded /\ mem' = mem THEN UNCHANGED fileVars ELSE Persist
    BY <2>1 DEF RunEnds
  <2> QED
    BY <1>2, <1>4, <2>2 DEF fileVars
<1>7. CASE StartDispatch \/ Demote \/ Tick \/ SetBack \/ UNCHANGED vars
  BY <1>2, <1>7 DEF StartDispatch, Demote, Tick, SetBack, vars, fileVars
<1>8. CASE Restart(FALSE) \/ \E active \in BOOLEAN : Reload(active)
  <2>1. mem' = ReadTasks /\ UNCHANGED <<disk, gap, ext>>
    BY <1>8 DEF Restart, Reload, Load, fileVars
  <2> QED
    BY <1>2, <1>3, <2>1
<1>14. CASE Restart(TRUE)
  BY <1>2, <1>14 DEF Restart
<1>9. ASSUME NEW k \in Keys, TimeoutFires(k)
      PROVE  mem' = disk' /\ ~gap' /\ ext' = None
  BY <1>2, <1>4, <1>9 DEF TimeoutFires, TimedOut, fileVars
<1>10. ASSUME NEW t \in Tasks,
              \/ TimerFires(t) \/ RunNow(t)
              \/ \E k \in Times : StrayFires(t, k) \/ CatchUpFires(t, k)
       PROVE  mem' = disk' /\ ~gap' /\ ext' = None
  <2>1. UNCHANGED <<mem, disk, gap, ext>>
    BY <1>10 DEF TimerFires, RunNow, StrayFires, CatchUpFires, fileVars
  <2> QED
    BY <1>2, <2>1
<1>11. ASSUME NEW t \in Tasks,
              \/ Delete(t)
              \/ \E target \in Targets, policy \in {"skip", "queue", "preempt"} :
                   Create(t, target, policy)
              \/ \E enabled \in BOOLEAN, target \in Targets : Update(t, enabled, target)
       PROVE  mem' = disk' /\ ~gap' /\ ext' = None
  BY <1>4, <1>11 DEF Delete, Create, Update
<1>12. CASE ExternalUnlink \/ ExternalRename
  BY <1>2, <1>12 DEF ExternalUnlink, ExternalRename
<1>13. ASSUME NEW t \in Tasks, NEW ask \in {"active", "paused", "deleted"}, ExternalRead(t, ask)
       PROVE  FALSE
  BY <1>13, Happened DEF ExternalRead, Kinds
<1> QED
  BY <1>5, <1>6, <1>7, <1>8, <1>9, <1>10, <1>11, <1>12, <1>13, <1>14 DEF Next

------------------------------------------------------------------------------
(* Which tasks a step takes out of the cache.                              *)

\* A timeout or a preemption counts a run and leaves the rest of the task.
LEMMA TimedOutTask ==
  ASSUME IInv, NEW m \in TaskFiles, NEW t \in Tasks, NEW u \in Tasks
  PROVE  /\ TimedOut(m, t)[u] = None <=> m[u] = None
         /\ m[u] # None =>
              /\ TimedOut(m, t)[u] \in Task
              /\ TimedOut(m, t)[u].enabled = m[u].enabled
              /\ TimedOut(m, t)[u].policy = m[u].policy
              /\ TimedOut(m, t)[u].target = m[u].target
              /\ TimedOut(m, t)[u].count \in {m[u].count, m[u].count + 1}
         /\ u # t => TimedOut(m, t)[u] = m[u]
<1>1. clock \in Times
  BY TimesAre DEF IInv, TypeOK
<1>2. m[u] # None => m[u] \in Task
  BY DEF TaskFiles
<1>3. CASE m[t] = None
  BY <1>2, <1>3 DEF TimedOut
<1>4. CASE m[t] # None
  <2>1. m[t] \in Task /\ Counted(m[t], clock) \in Task /\ Counted(m[t], clock) # None
    BY <1>1, <1>4, CountedType, TaskIsSome DEF TaskFiles
  <2>2. /\ Counted(m[t], clock).enabled = m[t].enabled
        /\ Counted(m[t], clock).policy = m[t].policy
        /\ Counted(m[t], clock).target = m[t].target
        /\ Counted(m[t], clock).count = m[t].count + 1
    BY <2>1 DEF Counted, Task
  <2>3. TimedOut(m, t) = [m EXCEPT ![t] = Counted(m[t], clock)]
    BY <1>4 DEF TimedOut
  <2> HIDE DEF Counted
  <2>4. CASE u = t
    BY <1>4, <2>1, <2>2, <2>3, <2>4 DEF TaskFiles
  <2>5. CASE u # t
    BY <1>2, <2>3, <2>5 DEF TaskFiles
  <2> QED
    BY <2>4, <2>5
<1> QED
  BY <1>3, <1>4

\* The end of a run puts its task back if it is gone, and touches no other.
LEMMA RunEndsTask ==
  ASSUME IInv, runs # <<>>, NEW s \in Sessions \cup {None}, RunEnds(s)
  PROVE  /\ mem'[Current.task] # None
         /\ \A u \in Tasks : u # Current.task => mem'[u] = mem[u]
<1> DEFINE t == Current.task
           m == AfterRow(s)
<1>1. t \in Tasks /\ Current.at \in Times /\ Current.snap \in Task /\ mem \in TaskFiles
  BY CurrentType, Parts
<1>2. m \in TaskFiles /\ WindUp(m, t)
  BY AfterRowType DEF RunEnds
<1>3. \A u \in Tasks : u # t => m[u] = mem[u]
  BY <1>1 DEF AfterRow, TaskFiles
<1> HIDE DEF m
<1>4. Counted(Current.snap, Current.at) # None
  BY <1>1, TaskIsSome
<1>5. m[t] # None => [m[t] EXCEPT !.enabled = FALSE] # None
  BY <1>1, <1>2, TaskIsSome DEF TaskFiles
<1>6. \/ m[t] # None /\ mem' = m
      \/ mem' = [m EXCEPT ![t] = Counted(Current.snap, Current.at)]
      \/ m[t] # None /\ mem' = [m EXCEPT ![t] = [m[t] EXCEPT !.enabled = FALSE]]
  BY <1>2 DEF WindUp, GoesOn
<1> QED
  BY <1>1, <1>2, <1>3, <1>4, <1>5, <1>6 DEF TaskFiles

\* Only fireTask, which reads it back, a deletion and a load lose a task.
LEMMA StaysInMem ==
  ASSUME IInv, [Next]_vars, NEW t \in Tasks, mem[t] # None, mem'[t] = None
  PROVE  \/ call # None /\ call.task = t /\ FireDropped /\ Fresh = None
         \/ Delete(t) \/ (\E cut \in BOOLEAN : Restart(cut)) \/ \E active \in BOOLEAN : Reload(active)
<1>1. mem \in TaskFiles
  BY Parts
<1>10. CASE FireEarly
  BY <1>10, EarlyParts
<1>2. CASE Served
  <2>1. call # None /\ call.task \in Tasks /\ Loaded \in TaskFiles
          /\ Fresh \in Task \cup {None}
    BY <1>2, FireParts, FreshType DEF IInv
  <2>2. /\ Loaded[call.task] = Fresh
        /\ \A u \in Tasks : u # call.task => Loaded[u] = mem[u]
    BY <1>1, <2>1 DEF Loaded, TaskFiles
  <2>3. CASE FireDropped
    BY <2>1, <2>2, <2>3 DEF FireDropped
  <2>4. CASE FireQueued \/ FireGranted
    <3>1. mem' = Loaded /\ Fresh # None
      BY <2>4 DEF FireQueued, FireGranted, MayRun, Fires
    <3> QED
      BY <2>2, <3>1
  <2>5. CASE FireCapped
    <3>1. Fresh # None /\ mem' = [Loaded EXCEPT ![call.task] = [Fresh EXCEPT !.enabled = FALSE]]
      BY <2>2, <2>5 DEF FireCapped, Fires
    <3>2. [Fresh EXCEPT !.enabled = FALSE] # None
      BY <2>1, <3>1, TaskIsSome
    <3> QED
      BY <2>1, <2>2, <3>1, <3>2 DEF TaskFiles
  <2>6. CASE FireSkipped
    <3>1. Fresh # None /\ mem' = [mem EXCEPT ![call.task] = Counted(Fresh, call.at)]
      BY <2>6 DEF FireSkipped, MayRun, Fires
    <3>2. Counted(Fresh, call.at) # None
      BY <2>1, <3>1, TaskIsSome, FreshType DEF IInv
    <3> QED
      BY <1>1, <2>1, <3>1, <3>2 DEF TaskFiles
  <2>7. CASE FirePreempts
    <3> DEFINE old == locks.holder[KeyOf(call.task, Fresh)]
    <3>1. Answered /\ Fires(Fresh) /\ Outcome = "preempt" /\ mem' = TimedOut(Loaded, old)
      BY <2>7 DEF FirePreempts, MayRun
    <3>2. old \in Tasks
      BY <3>1, MayRunType, PreemptedHolds DEF Outcome
    <3> HIDE DEF old
    <3>3. Loaded[t] = None
      BY <2>1, <3>1, <3>2, TimedOutTask
    <3> QED
      BY <2>2, <3>1, <3>3 DEF Fires
  <2> QED
    BY <1>2, <2>3, <2>4, <2>5, <2>6, <2>7 DEF Served
<1>3. CASE DispatchReturns \/ CancelledBeforeDispatch
  BY <1>3, EndsOfRuns, RunEndsTask
<1>4. CASE \/ StartDispatch \/ Demote \/ Tick \/ SetBack \/ ExternalUnlink \/ ExternalRename
           \/ UNCHANGED vars
  BY <1>4 DEF StartDispatch, Demote, Tick, SetBack, ExternalUnlink, ExternalRename, vars
<1>5. ASSUME NEW k \in Keys, TimeoutFires(k)
      PROVE  FALSE
  <2>1. locks.holder[k] \in Tasks
    BY <1>5, Parts DEF TimeoutFires, LocksOK, LockOK, LockTables, ArmedHeld
  <2> QED
    BY <1>1, <1>5, <2>1, TimedOutTask DEF TimeoutFires
<1>6. ASSUME NEW u \in Tasks,
             \/ TimerFires(u) \/ RunNow(u)
             \/ \E k \in Times : StrayFires(u, k) \/ CatchUpFires(u, k)
             \/ \E ask \in {"active", "paused", "deleted"} : ExternalRead(u, ask)
      PROVE  FALSE
  BY <1>6 DEF TimerFires, RunNow, StrayFires, CatchUpFires, ExternalRead
<1>7. ASSUME NEW u \in Tasks, Delete(u)
      PROVE  Delete(t)
  BY <1>1, <1>7 DEF Delete, TaskFiles
<1>8. ASSUME NEW u \in Tasks, NEW target \in Targets,
             NEW policy \in {"skip", "queue", "preempt"}, Create(u, target, policy)
      PROVE  FALSE
  <2>1. NewTask(target, policy) # None
    <3>1. NewTask(target, policy) \in Task
      BY DEF NewTask, Task
    <3> QED
      BY <3>1, TaskIsSome
  <2> QED
    BY <1>1, <1>8, <2>1 DEF Create, TaskFiles
<1>9. ASSUME NEW u \in Tasks, NEW enabled \in BOOLEAN, NEW target \in Targets,
             Update(u, enabled, target)
      PROVE  FALSE
  <2>1. mem[u] \in Task
    BY <1>1, <1>9 DEF Update, TaskFiles
  <2>2. [mem[u] EXCEPT !.enabled = enabled, !.target = target] \in Task
    BY <2>1 DEF Task
  <2>3. mem' = [mem EXCEPT ![u] = [mem[u] EXCEPT !.enabled = enabled, !.target = target]]
    BY <1>1, <1>9 DEF Update, TaskFiles
  <2> QED
    BY <1>1, <2>2, <2>3, TaskIsSome DEF TaskFiles
<1> QED
  BY <1>2, <1>3, <1>4, <1>5, <1>6, <1>7, <1>8, <1>9, <1>10, FireIs DEF Next

------------------------------------------------------------------------------
(* Nobody waits for a key that is free.                                    *)

\* Taking a key, and giving it to another, leaves the queues behind held keys.
LEMMA HolderHeld ==
  ASSUME NEW L, LockOK(L), WaitedHeld(L), NEW t \in Tasks, NEW k \in Keys
  PROVE  WaitedHeld(SetHolder(L, t, k)) /\ WaitedHeld(SetHolder(ClearHolder(L, k), t, k))
<1>1. t # None
  BY LocksAssumption
<1>2. /\ SetHolder(L, t, k).holder = [L.holder EXCEPT ![k] = t]
      /\ SetHolder(L, t, k).waiting = L.waiting
  BY DEF SetHolder, LockOK, LockTables
<1>3. WaitedHeld(SetHolder(L, t, k))
  BY <1>1, <1>2 DEF WaitedHeld, LockOK, LockTables
<1> DEFINE C == ClearHolder(L, k)
<1>4. LockOK(C) /\ C.waiting = L.waiting
  BY ClearHolderType, HolderWaits
<1>5. \A l \in Keys : l # k => C.holder[l] = L.holder[l]
  BY DEF ClearHolder, LockOK, LockTables
<1> HIDE DEF C
<1>6. /\ SetHolder(C, t, k).holder = [C.holder EXCEPT ![k] = t]
      /\ SetHolder(C, t, k).waiting = C.waiting
  BY <1>4 DEF SetHolder, LockOK, LockTables
<1>7. WaitedHeld(SetHolder(C, t, k))
  BY <1>1, <1>4, <1>5, <1>6 DEF WaitedHeld, LockOK, LockTables
<1> QED
  BY <1>3, <1>7 DEF C

\* A released key that somebody waits for is held again at once, and of those who
\* waited only its new holder waits no more.
LEMMA ReleaseHeld ==
  ASSUME NEW L, LockOK(L), WaitedHeld(L), NEW t \in Tasks
  PROVE  /\ WaitedHeld(Release(L, t))
         /\ \A u \in Tasks : InQueue(L, u) => InQueue(Release(L, t), u) \/ u = HandedTo(L, t)
<1> DEFINE k == L.byTask[t]
           C == ClearHolder(L, k)
           W == [C EXCEPT !.waiting[k] = Tail(@)]
           R == Release(L, t)
<1>1. CASE k = None
  BY <1>1 DEF Release
<1>2. CASE k # None
  <2>1. k \in Keys
    BY <1>2, HandedToType
  <2>2. LockOK(C) /\ C.waiting = L.waiting
    BY <2>1, ClearHolderType, HolderWaits
  <2>3. \A l \in Keys : l # k => C.holder[l] = L.holder[l]
    BY DEF ClearHolder, LockOK, LockTables
  <2>4. L.waiting[k] \in Seq(Tasks)
    BY <2>1 DEF LockOK, LockTables
  <2>5. CASE HandedTo(L, t) = None
    <3>1. L.waiting[k] = <<>>
      <4>1. ASSUME L.waiting[k] # <<>>
            PROVE  FALSE
        <5>1. HandedTo(L, t) = Head(L.waiting[k]) /\ Head(L.waiting[k]) \in Tasks
          BY <1>2, <2>4, <4>1 DEF HandedTo
        <5> QED
          BY <2>5, <5>1, LocksAssumption
      <4> QED
        BY <4>1
    <3>2. R = C
      BY <1>2, <2>5 DEF Release
    <3> HIDE DEF R, C
    <3>3. WaitedHeld(R)
      BY <2>2, <2>3, <3>1, <3>2 DEF WaitedHeld
    <3>4. \A u \in Tasks : InQueue(L, u) => InQueue(R, u)
      BY <2>2, <3>2 DEF InQueue, IsWaiting
    <3> QED
      BY <3>3, <3>4 DEF R
  <2>6. CASE HandedTo(L, t) # None
    <3>1. HandedTo(L, t) \in Tasks /\ HandedTo(L, t) = L.waiting[k][1] /\ L.waiting[k] # <<>>
      BY <2>6, HandedToType, ReleaseWaiting
    <3>2. R = SetHolder(W, HandedTo(L, t), k)
      BY <1>2, <2>6 DEF Release
    <3> HIDE DEF C
    <3>3. /\ R.holder = [C.holder EXCEPT ![k] = HandedTo(L, t)]
          /\ R.waiting = [L.waiting EXCEPT ![k] = Tail(@)]
      <4>1. W.holder = C.holder /\ W.waiting = [C.waiting EXCEPT ![k] = Tail(@)]
        BY <2>2 DEF LockOK, LockTables
      <4>2. R.holder = [W.holder EXCEPT ![k] = HandedTo(L, t)] /\ R.waiting = W.waiting
        BY <2>2, <3>2 DEF SetHolder, LockOK, LockTables
      <4> QED
        BY <2>2, <4>1, <4>2
    <3> HIDE DEF R, W
    <3>4. WaitedHeld(R)
      <4> SUFFICES ASSUME NEW l \in Keys, R.waiting[l] # <<>>
                   PROVE  R.holder[l] # None
        BY DEF WaitedHeld
      <4>1. CASE l = k
        BY <2>1, <2>2, <3>1, <3>3, <4>1, LocksAssumption DEF LockOK, LockTables
      <4>2. CASE l # k
        BY <2>1, <2>2, <2>3, <3>3, <4>2 DEF WaitedHeld, LockOK, LockTables
      <4> QED
        BY <4>1, <4>2
    <3>5. ASSUME NEW u \in Tasks, InQueue(L, u), u # HandedTo(L, t)
          PROVE  InQueue(R, u)
      <4>1. PICK l \in Keys : \E i \in DOMAIN L.waiting[l] : L.waiting[l][i] = u
        BY <3>5 DEF InQueue, IsWaiting
      <4>2. PICK i \in DOMAIN L.waiting[l] : L.waiting[l][i] = u
        BY <4>1
      <4>3. CASE l # k
        <5>1. R.waiting[l] = L.waiting[l]
          BY <2>1, <3>3, <4>3 DEF LockOK, LockTables
        <5> QED
          BY <4>2, <5>1 DEF InQueue, IsWaiting
      <4>4. CASE l = k
        <5>1. R.waiting[k] = Tail(L.waiting[k])
          BY <2>1, <3>3 DEF LockOK, LockTables
        <5>2. i \in Nat /\ i # 1 /\ i \in 1..Len(L.waiting[k])
          BY <2>4, <3>1, <3>5, <4>2, <4>4
        <5>3. i - 1 \in DOMAIN Tail(L.waiting[k]) /\ Tail(L.waiting[k])[i - 1] = L.waiting[k][i]
          BY <2>4, <3>1, <5>2
        <5> QED
          BY <2>1, <4>2, <4>4, <5>1, <5>3 DEF InQueue, IsWaiting
      <4> QED
        BY <4>3, <4>4
    <3> QED
      BY <3>4, <3>5 DEF R
  <2> QED
    BY <2>5, <2>6
<1> QED
  BY <1>1, <1>2

\* The queue goes where the holder goes, to a key nobody waits for.
LEMMA ReassignHeld ==
  ASSUME NEW L, LockOK(L), WaitedHeld(L), NEW old \in Keys, NEW new \in Keys
  PROVE  /\ WaitedHeld(Reassign(L, old, new))
         /\ \A u \in Tasks : InQueue(L, u) => InQueue(Reassign(L, old, new), u)
<1> DEFINE R == Reassign(L, old, new)
<1>1. CASE R = L
  BY <1>1
<1>2. CASE old # new /\ L.holder[old] # None /\ L.holder[new] = None
  <2>1. /\ R.holder = [L.holder EXCEPT ![old] = None, ![new] = L.holder[old]]
        /\ R.waiting = IF L.waiting[old] = <<>> THEN L.waiting
                       ELSE [L.waiting EXCEPT ![new] = L.waiting[old], ![old] = <<>>]
    BY <1>2 DEF Reassign
  <2>2. L.waiting[new] = <<>>
    BY <1>2 DEF WaitedHeld
  <2> HIDE DEF R
  <2>3. /\ R.holder[new] # None
        /\ R.waiting[old] = <<>> /\ R.waiting[new] = L.waiting[old]
        /\ \A l \in Keys : l \notin {old, new} => /\ R.holder[l] = L.holder[l]
                                                  /\ R.waiting[l] = L.waiting[l]
    BY <1>2, <2>1, <2>2 DEF LockOK, LockTables
  <2>4. WaitedHeld(R)
    BY <2>3 DEF WaitedHeld
  <2>5. ASSUME NEW u \in Tasks, InQueue(L, u)
        PROVE  InQueue(R, u)
    <3>1. PICK l \in Keys : \E i \in DOMAIN L.waiting[l] : L.waiting[l][i] = u
      BY <2>5 DEF InQueue, IsWaiting
    <3>2. L.waiting[l] # <<>>
      BY <3>1
    <3>3. R.waiting[IF l = old THEN new ELSE l] = L.waiting[l]
      BY <2>2, <2>3, <3>2
    <3> QED
      BY <3>1, <3>3 DEF InQueue, IsWaiting
  <2> QED
    BY <2>4, <2>5 DEF R
<1> QED
  BY <1>1, <1>2 DEF Reassign

\* The end of a run: everybody still waits but the task that is called.
LEMMA RunEndsHeld ==
  ASSUME IInv, WaitedHeld(locks), runs # <<>>, call = None, NEW s \in Sessions \cup {None},
         RunEnds(s)
  PROVE  /\ WaitedHeld(locks')
         /\ \A u \in Tasks : InQueue(locks, u) => InQueue(locks', u) \/ CallFor(u)'
<1> DEFINE L == EndLocks(s)
           t == Current.task
<1>1. LockOK(L) /\ t \in Tasks /\ locks' = Release(L, t)
  BY RunEndsParts
<1>2. WaitedHeld(L) /\ \A u \in Tasks : InQueue(locks, u) => InQueue(L, u)
  BY CurrentType, ReassignHeld, Parts DEF EndLocks, LocksOK, Keys
<1>3. ASSUME NEW u \in Tasks, u = HandedTo(L, t)
      PROVE  CallFor(u)'
  <2>1. call' = [task |-> u, at |-> clock, manual |-> FALSE]
    BY <1>3, RunEndsParts, LocksAssumption
  <2>2. call' \in Calls
    BY <2>1, Parts, TimesAre DEF Calls
  <2> QED
    BY <2>1, <2>2, EngineAssumption DEF CallFor
<1> HIDE DEF L, t
<1> QED
  BY <1>1, <1>2, <1>3, ReleaseHeld

LEMMA WaitedHeldStep == IInv /\ WaitedHeld(locks) /\ [Next]_vars => WaitedHeld(locks)'
<1> SUFFICES ASSUME IInv, WaitedHeld(locks), [Next]_vars PROVE WaitedHeld(locks')
  OBVIOUS
<1>1. LockOK(locks)
  BY Parts DEF LocksOK
<1>2. CASE UNCHANGED locks
  BY <1>2
<1>3. CASE Fire
  <2> DEFINE k == KeyOf(call.task, Fresh)
  <2>1. CASE FireEarly \/ FireDropped \/ FireCapped \/ FireSkipped
    BY <1>2, <2>1 DEF FireEarly, FireDropped, FireCapped, FireSkipped
  <2>2. ASSUME MayRun
        PROVE  k \in Keys /\ call.task \in Tasks
    BY <2>2, MayRunType DEF MayRun
  <2>3. CASE FireQueued
    <3>1. MayRun /\ Outcome = "queue" /\ locks' = Enqueue(locks, call.task, k)
      BY <2>3 DEF FireQueued
    <3>2. locks.holder[k] # None
      BY <3>1 DEF Outcome, AcquireOutcome
    <3> HIDE DEF k
    <3>3. locks'.holder = locks.holder
            /\ \A l \in Keys : l # k => locks'.waiting[l] = locks.waiting[l]
      BY <1>1, <2>2, <3>1 DEF Enqueue, LockOK, LockTables
    <3> QED
      BY <2>2, <3>1, <3>2, <3>3 DEF WaitedHeld
  <2>4. CASE FireGranted
    <3>1. MayRun /\ (locks' = locks \/ locks' = SetHolder(locks, call.task, k))
      BY <2>4 DEF FireGranted
    <3> QED
      BY <1>1, <2>2, <3>1, HolderHeld
  <2>5. CASE FirePreempts
    <3>1. MayRun /\ locks' = SetHolder(ClearHolder(locks, k), call.task, k)
      BY <2>5 DEF FirePreempts
    <3> QED
      BY <1>1, <2>2, <3>1, HolderHeld
  <2> QED
    BY <1>3, <2>1, <2>3, <2>4, <2>5 DEF Fire
<1>4. CASE DispatchReturns \/ CancelledBeforeDispatch
  BY <1>4, EndsOfRuns, RunEndsHeld
<1>5. CASE \E cut \in BOOLEAN : Restart(cut)
  BY <1>5 DEF Restart, WaitedHeld, Unlocked
<1>6. ASSUME NEW k \in Keys, TimeoutFires(k)
      PROVE  WaitedHeld(locks')
  <2>1. locks'.waiting = locks.waiting /\ locks'.holder = locks.holder
    BY <1>1, <1>6 DEF TimeoutFires, LockOK, LockTables
  <2> QED
    BY <2>1 DEF WaitedHeld
<1>7. CASE \/ StartDispatch \/ Tick \/ SetBack \/ Demote \/ ExternalUnlink \/ ExternalRename
           \/ UNCHANGED vars
  BY <1>2, <1>7 DEF StartDispatch, Tick, SetBack, Demote, ExternalUnlink, ExternalRename, vars, runVars
<1>8. ASSUME NEW active \in BOOLEAN, Reload(active)
      PROVE  WaitedHeld(locks')
  BY <1>2, <1>8 DEF Reload, runVars
<1>9. ASSUME NEW t \in Tasks,
             \/ TimerFires(t) \/ RunNow(t) \/ Delete(t)
             \/ \E k \in Times : StrayFires(t, k) \/ CatchUpFires(t, k)
             \/ \E ask \in {"active", "paused", "deleted"} : ExternalRead(t, ask)
      PROVE  WaitedHeld(locks')
  BY <1>2, <1>9 DEF TimerFires, RunNow, Delete, StrayFires, CatchUpFires, ExternalRead, runVars
<1>10. ASSUME NEW t \in Tasks, NEW target \in Targets,
              NEW policy \in {"skip", "queue", "preempt"}, Create(t, target, policy)
       PROVE  WaitedHeld(locks')
  BY <1>2, <1>10 DEF Create, runVars
<1>11. ASSUME NEW t \in Tasks, NEW enabled \in BOOLEAN, NEW target \in Targets,
              Update(t, enabled, target)
       PROVE  WaitedHeld(locks')
  BY <1>2, <1>11 DEF Update, runVars
<1> QED
  BY <1>3, <1>4, <1>5, <1>6, <1>7, <1>8, <1>9, <1>10, <1>11 DEF Next

------------------------------------------------------------------------------
(* What a step leaves of a task.                                           *)

\* One more run may have been counted; the rest is as it was.
Aged(new, old) ==
  /\ new = None <=> old = None
  /\ old # None => /\ new \in Task
                   /\ new.enabled = old.enabled /\ new.policy = old.policy
                   /\ new.target = old.target
                   /\ new.count \in {old.count, old.count + 1}

LEMMA SameAged ==
  ASSUME NEW m \in TaskFiles, NEW t \in Tasks
  PROVE  Aged(m[t], m[t])
BY DEF Aged, TaskFiles

LEMMA TimedOutAged ==
  ASSUME IInv, NEW m \in TaskFiles, NEW t \in Tasks, NEW u \in Tasks
  PROVE  Aged(TimedOut(m, t)[u], m[u])
BY TimedOutTask DEF Aged

\* fireTask takes its own task from the file, and may count a run of another.
LEMMA FireMem ==
  ASSUME IInv, Served
  PROVE  /\ \A u \in Tasks : u # call.task => Aged(mem'[u], mem[u])
         /\ Fires(Fresh) => mem'[call.task] # None
         /\ FireQueued \/ FireGranted => mem' = Loaded
         /\ FirePreempts => Aged(mem'[call.task], Fresh)
<1>1. /\ mem \in TaskFiles /\ call # None /\ call.task \in Tasks /\ Loaded \in TaskFiles
      /\ Fresh \in Task \cup {None} /\ call.at \in Times
  BY FireParts, FreshType, Parts DEF IInv
<1>2. /\ Loaded[call.task] = Fresh
      /\ \A u \in Tasks : u # call.task => Loaded[u] = mem[u] /\ Aged(mem[u], mem[u])
  BY <1>1, SameAged DEF Loaded, TaskFiles
<1>3. CASE FireDropped
  <2>1. mem' = Loaded /\ ~Fires(Fresh) /\ ~FireQueued /\ ~FireGranted /\ ~FirePreempts
    BY <1>3 DEF FireDropped, FireQueued, FireGranted, FirePreempts, MayRun
  <2> QED
    BY <1>2, <2>1
<1>4. CASE FireQueued \/ FireGranted
  <2>1. mem' = Loaded /\ ~FirePreempts
    BY <1>4 DEF FireQueued, FireGranted, FirePreempts
  <2>2. Fires(Fresh) => Fresh # None
    BY DEF Fires
  <2> QED
    BY <1>2, <2>1, <2>2
<1>5. CASE FireCapped
  <2>1. Fresh # None /\ mem' = [Loaded EXCEPT ![call.task] = [Fresh EXCEPT !.enabled = FALSE]]
    BY <1>2, <1>5 DEF FireCapped, Fires
  <2>2. [Fresh EXCEPT !.enabled = FALSE] # None
    BY <1>1, <2>1, TaskIsSome
  <2>3. ~FireQueued /\ ~FireGranted /\ ~FirePreempts
    BY <1>5 DEF FireCapped, FireQueued, FireGranted, FirePreempts, MayRun
  <2> QED
    BY <1>1, <1>2, <2>1, <2>2, <2>3 DEF TaskFiles
<1>6. CASE FireSkipped
  <2>1. Fresh # None /\ mem' = [mem EXCEPT ![call.task] = Counted(Fresh, call.at)]
    BY <1>6 DEF FireSkipped, MayRun, Fires
  <2>2. Counted(Fresh, call.at) # None
    BY <1>1, <2>1, TaskIsSome
  <2>3. ~FireQueued /\ ~FireGranted /\ ~FirePreempts
    BY <1>6 DEF FireSkipped, FireQueued, FireGranted, FirePreempts
  <2> QED
    BY <1>1, <1>2, <2>1, <2>2, <2>3 DEF TaskFiles
<1>7. CASE FirePreempts
  <2> DEFINE old == locks.holder[KeyOf(call.task, Fresh)]
  <2>1. Answered /\ Fires(Fresh) /\ Outcome = "preempt" /\ mem' = TimedOut(Loaded, old)
    BY <1>7 DEF FirePreempts, MayRun
  <2>2. old \in Tasks
    BY <2>1, MayRunType, PreemptedHolds DEF Outcome
  <2> HIDE DEF old
  <2>3. \A u \in Tasks : Aged(mem'[u], Loaded[u])
    BY <1>1, <2>1, <2>2, TimedOutAged
  <2>4. ~FireQueued /\ ~FireGranted /\ Fresh # None
    BY <1>7, <2>1 DEF FireQueued, FireGranted, FirePreempts, Fires
  <2> QED
    BY <1>1, <1>2, <2>3, <2>4 DEF Aged
<1> QED
  BY <1>3, <1>4, <1>5, <1>6, <1>7 DEF Served

\* A run of the queue was there, or is the one fireTask appends.
LEMMA RunsFrom ==
  ASSUME IInv, [Next]_vars, NEW i \in DOMAIN runs'
  PROVE  \/ \E j \in DOMAIN runs : SameRun(runs'[i], runs[j])
         \/ Served /\ Answered /\ Fires(Fresh) /\ runs'[i] = NewRun
<1>1. UNCHANGED runs => SameRuns(runs')
  BY DEF SameRuns, SameRun
<1>2. SameRuns(runs') => \E j \in DOMAIN runs : SameRun(runs'[i], runs[j])
  BY DEF SameRuns
<1>13. CASE FireEarly
  BY <1>1, <1>2, <1>13, EarlyParts
<1>3. CASE Served
  <2>1. CASE UNCHANGED runs
    BY <1>1, <1>2, <2>1
  <2>2. ASSUME Answered, Fires(Fresh), NEW q \in Seq(Runs), StillRuns(q), runs' = Append(q, NewRun)
        PROVE  \/ \E j \in DOMAIN runs : SameRun(runs'[i], runs[j])
               \/ runs'[i] = NewRun
    BY <2>2, AppendRuns DEF StillRuns
  <2> QED
    BY <1>3, <2>1, <2>2, FireParts
<1>4. CASE DispatchReturns \/ CancelledBeforeDispatch
  <2>1. runs # <<>> /\ runs' = Tail(runs)
    BY <1>4, EndsOfRuns, RunEndsParts
  <2> QED
    BY <2>1, TailRuns DEF SameRun
<1>5. CASE StartDispatch
  BY <1>2, <1>5, StartSame
<1>6. CASE \E cut \in BOOLEAN : Restart(cut)
  BY <1>6 DEF Restart
<1>7. CASE Demote \/ Tick \/ SetBack \/ ExternalUnlink \/ ExternalRename \/ UNCHANGED vars
  BY <1>1, <1>2, <1>7 DEF Demote, Tick, SetBack, ExternalUnlink, ExternalRename, vars, runVars
<1>8. ASSUME NEW active \in BOOLEAN, Reload(active)
      PROVE  UNCHANGED runs
  BY <1>8 DEF Reload, runVars
<1>9. ASSUME NEW k \in Keys, TimeoutFires(k)
      PROVE  SameRuns(runs')
  <2>1. locks.holder[k] \in Tasks
    BY <1>9, Parts DEF TimeoutFires, LocksOK, LockOK, LockTables, ArmedHeld
  <2> QED
    BY <1>9, <2>1, AbortSame DEF TimeoutFires
<1>10. ASSUME NEW u \in Tasks,
             \/ TimerFires(u) \/ RunNow(u) \/ Delete(u)
             \/ \E k \in Times : StrayFires(u, k) \/ CatchUpFires(u, k)
             \/ \E ask \in {"active", "paused", "deleted"} : ExternalRead(u, ask)
      PROVE  UNCHANGED runs
  BY <1>10 DEF TimerFires, RunNow, Delete, StrayFires, CatchUpFires, ExternalRead, runVars
<1>11. ASSUME NEW u \in Tasks, NEW target \in Targets,
              NEW policy \in {"skip", "queue", "preempt"}, Create(u, target, policy)
       PROVE  UNCHANGED runs
  BY <1>11 DEF Create, runVars
<1>12. ASSUME NEW u \in Tasks, NEW enabled \in BOOLEAN, NEW target \in Targets,
              Update(u, enabled, target)
       PROVE  UNCHANGED runs
  BY <1>12 DEF Update, runVars
<1> QED
  BY <1>1, <1>2, <1>3, <1>4, <1>5, <1>6, <1>7, <1>8, <1>9, <1>10, <1>11, <1>12, <1>13,
     FireIs DEF Next

\* A run comes from a call of fireTask for a task that is there.
LEMMA NewRuns ==
  ASSUME IInv, [Next]_vars, NEW t \in Tasks, InRuns(runs', t), ~InRuns(runs, t)
  PROVE  call # None /\ call.task = t /\ mem'[t] # None
<1>1. PICK i \in DOMAIN runs' : runs'[i].task = t
  BY DEF InRuns
<1>2. Served /\ Fires(Fresh) /\ runs'[i] = NewRun
  BY <1>1, RunsFrom DEF InRuns, SameRun
<1> QED
  BY <1>1, <1>2, FireMem, FireParts DEF NewRun

\* Neither the user nor another process takes a task away between two calls of it.
LeftIn == Undisturbed \/ Without({"edit", "external"})

LEMMA LeftInBack ==
  ASSUME IInv, [Next]_vars, LeftIn'
  PROVE  LeftIn
<1>1. {"edit", "external"} \in SUBSET Kinds
  BY DEF Kinds
<1> QED
  BY <1>1, WithoutBack, UndisturbedBack DEF LeftIn

\* A task with a run is in the cache.
RunsLive == LeftIn => \A t \in Tasks : InRuns(runs, t) => mem[t] # None

LEMMA RunsLiveStep ==
  IInv /\ AloneInv /\ Saved /\ RunsLive /\ [Next]_vars => RunsLive'
<1> SUFFICES ASSUME IInv, AloneInv, Saved, RunsLive, [Next]_vars, LeftIn',
                    NEW t \in Tasks, InRuns(runs', t), mem'[t] = None
             PROVE  FALSE
  BY DEF RunsLive
<1>1. InRuns(runs, t)
  BY NewRuns
<1>2. mem[t] # None /\ LeftIn
  BY <1>1, LeftInBack DEF RunsLive
<1>3. CASE call # None /\ call.task = t /\ FireDropped /\ Fresh = None
  <2>1. CASE Undisturbed
    BY <1>1, <1>3, <2>1 DEF AloneInv, Alone, OnePlace, CallFor
  <2>2. CASE Without({"edit", "external"})
    BY <1>2, <1>3, <2>2, LoadedIsMem DEF Without
  <2> QED
    BY <1>2, <2>1, <2>2 DEF LeftIn
<1>4. ASSUME Delete(t)
      PROVE  FALSE
  <2>1. used'["edit"] # 0
    BY <1>4, Happened DEF Delete, Kinds
  <2> QED
    BY <2>1 DEF LeftIn, Undisturbed, Without
<1>5. CASE \E cut \in BOOLEAN : Restart(cut)
  BY <1>5 DEF Restart, InRuns
<1>6. ASSUME NEW active \in BOOLEAN, Reload(active)
      PROVE  FALSE
  <2>1. used'["reload"] # 0 /\ mem' = ReadTasks
    BY <1>6, Happened DEF Reload, Load, Kinds
  <2>2. Without({"edit", "external"})'
    BY <2>1 DEF LeftIn, Undisturbed, Without
  <2>3. used["external"] = 0
    BY <2>2, UsedGrows DEF Without, Kinds
  <2> QED
    BY <1>2, <2>1, <2>3, LoadedIsMem
<1> QED
  BY <1>2, <1>3, <1>4, <1>5, <1>6, StaysInMem

------------------------------------------------------------------------------
(* A task whose schedule goes on waits for something.                      *)

\* The schedule of t goes on, and t is not skipped when it comes at a bad time.
Awaited(t, task, now) ==
  /\ task # None /\ task.enabled /\ task.policy # "skip"
  /\ ~CapReached(t, task) /\ now < EndAt[t]

LEMMA AwaitedIs ==
  ASSUME IInv, NEW t \in Tasks
  PROVE  /\ ArmFor(t, mem[t], FALSE) # None /\ mem[t].policy # "skip"
              <=> Awaited(t, mem[t], clock)
         /\ RunsOf(t) # {} <=> InRuns(runs, t)
<1>1. clock + 1 # None
  BY TimesAre, EngineAssumption, Parts
<1>2. RunsOf(t) # {} <=> InRuns(runs, t)
  BY DEF RunsOf, InRuns
<1> QED
  BY <1>1, <1>2 DEF ArmFor, NextRunAt, Awaited

\* Time and counted runs only bring the end nearer.
LEMMA AwaitedAged ==
  ASSUME NEW t \in Tasks, NEW old \in Task \cup {None}, NEW new, Aged(new, old),
         NEW now \in Nat, NEW later \in Nat, now <= later, Awaited(t, new, later)
  PROVE  Awaited(t, old, now)
<1>1. old \in Task /\ new \in Task
  BY DEF Awaited, Aged
<1>2. /\ new.count \in {old.count, old.count + 1} /\ old.count \in Nat
      /\ new.enabled = old.enabled /\ new.policy = old.policy /\ old # None
  BY <1>1, TaskIsSome DEF Aged, Task
<1>3. MaxRuns[t] \in Nat /\ EndAt[t] \in Nat
  BY EngineAssumption
<1>4. CapReached(t, old) => CapReached(t, new)
  BY <1>2, <1>3 DEF CapReached
<1> QED
  BY <1>2, <1>3, <1>4 DEF Awaited

Somewhere(t) ==
  \/ timer[t] # None \/ InRuns(runs, t) \/ CallFor(t) \/ InQueue(locks, t)
  \/ \E k \in Times : stray[t][k] > 0 \/ catchup[t][k] > 0

Future == \A t \in Tasks : Awaited(t, mem[t], clock) => Somewhere(t)

FutureInv == LeftIn /\ Without({"setback"}) /\ ~passive => Future

LEMMA FutureInit == Init => Future
<1> SUFFICES ASSUME Init, NEW t \in Tasks, Awaited(t, mem[t], clock) PROVE Somewhere(t)
  BY DEF Future
<1>1. ArmFor(t, mem[t], FALSE) # None
  BY InitType, AwaitedIs
<1>2. timer[t] = ArmFor(t, mem[t], FALSE)
  BY DEF Init
<1> QED
  BY <1>1, <1>2 DEF Somewhere

\* Whoever has a timer, a run or a place in a queue keeps it or is called.
Onward(t) ==
  /\ timer[t] # None => timer'[t] # None \/ CallFor(t)'
  /\ InRuns(runs, t) => InRuns(runs', t)
  /\ CallFor(t) => CallFor(t)'
  /\ InQueue(locks, t) => InQueue(locks', t) \/ CallFor(t)'
  /\ \A k \in Times : stray[t][k] > 0 => stray'[t][k] > 0 \/ CallFor(t)'
  /\ \A k \in Times : catchup[t][k] > 0 => catchup'[t][k] > 0 \/ CallFor(t)'

LEMMA OnwardIs ==
  ASSUME NEW t, Somewhere(t), Onward(t)
  PROVE  Somewhere(t)'
BY DEF Somewhere, Onward

\* The task that is called is turned away for good, waits, or has a run.
LEMMA FireFuture ==
  ASSUME IInv, Served, NEW t \in Tasks, t = call.task, Awaited(t, mem'[t], clock)
  PROVE  Somewhere(t)'
<1>0. t = call.task
  OBVIOUS
<1>1. /\ mem \in TaskFiles /\ call # None /\ Loaded \in TaskFiles
      /\ Fresh \in Task \cup {None} /\ call.at \in Times
  BY FireParts, FreshType, Parts DEF IInv
<1>3. CASE FireDropped
  <2>1. mem'[t] = Fresh
    BY <1>0, <1>1, <1>3 DEF FireDropped, Loaded, TaskFiles
  <2> QED
    BY <1>0, <1>3, <2>1 DEF FireDropped, Fires, Awaited
<1>4. CASE FireCapped
  <2>1. Fresh \in Task
    BY <1>1, <1>4 DEF FireCapped, Fires
  <2>2. mem' = [Loaded EXCEPT ![t] = [Fresh EXCEPT !.enabled = FALSE]]
    BY <1>0, <1>1, <1>4 DEF FireCapped, Loaded, TaskFiles
  <2>3. mem'[t] = [Fresh EXCEPT !.enabled = FALSE]
    BY <1>1, <2>2 DEF TaskFiles
  <2> QED
    BY <1>0, <2>1, <2>3 DEF Awaited, Task
<1>5. CASE FireSkipped
  <2>1. Fresh \in Task /\ Outcome = "skip"
    BY <1>1, <1>5 DEF FireSkipped, MayRun, Fires
  <2>2. Fresh.policy = "skip"
    BY <2>1 DEF Outcome, AcquireOutcome
  <2>3. mem'[t] = Counted(Fresh, call.at)
    BY <1>0, <1>1, <1>5 DEF FireSkipped, TaskFiles
  <2> QED
    BY <1>0, <2>1, <2>2, <2>3 DEF Awaited, Task, Counted
<1>6. CASE FireQueued
  <2> DEFINE k == KeyOf(call.task, Fresh)
  <2>1. k \in Keys
    BY <1>6, MayRunType DEF FireQueued, MayRun
  <2>2. locks' = Enqueue(locks, t, k) /\ LockOK(locks)
    BY <1>0, <1>6, Parts DEF FireQueued, LocksOK
  <2> HIDE DEF k
  <2>3. IsWaiting(locks', t, k)
    BY <2>1, <2>2, EnqueueWaits
  <2> QED
    BY <1>0, <2>1, <2>3 DEF Somewhere, InQueue
<1>7. CASE FireGranted \/ FirePreempts
  BY <1>0, <1>7, GivenRun DEF Somewhere
<1> QED
  BY <1>3, <1>4, <1>5, <1>6, <1>7 DEF Served

\* The end of a run arms the timer of a task whose schedule goes on.
LEMMA EndFuture ==
  ASSUME IInv, runs # <<>>, call = None, NEW s \in Sessions \cup {None}, RunEnds(s),
         mem[Current.task] # None, ~passive', Awaited(Current.task, mem'[Current.task], clock')
  PROVE  timer'[Current.task] # None
<1>0. PICK t \in Tasks : t = Current.task
  BY RunEndsParts
<1> DEFINE m == AfterRow(s)
<1>1. /\ mem \in TaskFiles /\ Current.at \in Times /\ Current.snap \in Task
      /\ m \in TaskFiles /\ WindUp(m, t)
      /\ clock' = clock /\ passive' = passive
      /\ timer \in [Tasks -> Times \cup {None}]
  BY <1>0, CurrentType, AfterRowType, Parts DEF RunEnds, TimersOK, TimerOK
<1>2. m[t] # None
  <2>1. Pinned(s) \in Task
    BY <1>1 DEF Pinned, Task, Targets
  <2>2. Counted(Pinned(s), Current.at) # None
    BY <1>1, <2>1, TaskIsSome
  <2> QED
    BY <1>0, <1>1, <2>2 DEF AfterRow, TaskFiles
<1> HIDE DEF m
<1>3. m[t] \in Task /\ [m[t] EXCEPT !.enabled = FALSE].enabled = FALSE
  BY <1>1, <1>2 DEF TaskFiles, Task
<1>4. mem'[t] # [m[t] EXCEPT !.enabled = FALSE]
  BY <1>0, <1>3 DEF Awaited
<1>5. mem' # [m EXCEPT ![t] = [m[t] EXCEPT !.enabled = FALSE]]
  BY <1>1, <1>4 DEF TaskFiles
<1>6. mem' = m /\ ~CapReached(t, m[t]) /\ m[t].enabled
      /\ (Reschedule(t, m[t]) \/ clock >= EndAt[t])
  <2>1. CASE ~m[t].enabled
    BY <1>0, <1>1, <1>2, <2>1 DEF WindUp, GoesOn, Awaited
  <2>2. CASE m[t].enabled
    BY <1>1, <1>2, <1>5, <2>2 DEF WindUp, GoesOn
  <2> QED
    BY <2>1, <2>2
<1>7. clock < EndAt[t] /\ EndAt[t] \in Nat /\ clock \in Nat
  BY <1>0, <1>1, EngineAssumption, Parts DEF Awaited
<1>8. ArmFor(t, m[t], passive) = clock + 1 /\ clock + 1 # None /\ clock + 1 \in Times
  BY <1>1, <1>2, <1>6, <1>7, TimesAre, EngineAssumption, Parts DEF ArmFor, NextRunAt
<1>9. timer'[t] = clock + 1
  BY <1>1, <1>6, <1>7, <1>8 DEF Reschedule
<1> QED
  BY <1>0, <1>8, <1>9

\* No step leaves a task whose schedule goes on with nothing to wait for.
LEMMA FutureStep ==
  IInv /\ WaitedHeld(locks) /\ RunsLive /\ FutureInv /\ [Next]_vars => FutureInv'
<1> SUFFICES ASSUME IInv, WaitedHeld(locks), RunsLive, FutureInv, [Next]_vars,
                    LeftIn', Without({"setback"})', ~passive', NEW t \in Tasks,
                    Awaited(t, mem'[t], clock')
             PROVE  Somewhere(t)'
  BY DEF FutureInv, Future
<1>0. Without({"setback"})
  BY WithoutBack DEF Kinds
<1>1. /\ LeftIn /\ mem \in TaskFiles /\ mem[t] \in Task \cup {None} /\ clock \in 0..MaxTime
      /\ timer \in [Tasks -> Times \cup {None}] /\ runs \in Seq(Runs) /\ LockOK(locks)
      /\ stray \in Bags /\ catchup \in Bags /\ passive \in BOOLEAN
  BY LeftInBack, Parts DEF TaskFiles, TimersOK, TimerOK, RunsOK, LocksOK
<1>2. clock \in Nat /\ MaxTime \in Nat
  BY <1>1, EngineAssumption
<1>3. ~passive /\ Awaited(t, mem[t], clock) => Somewhere(t)
  BY <1>0, <1>1 DEF FutureInv, Future
<1>4. ASSUME ~passive, Aged(mem'[t], mem[t]), clock' \in Nat, clock <= clock', Onward(t)
      PROVE  Somewhere(t)'
  <2>1. Awaited(t, mem[t], clock)
    BY <1>1, <1>2, <1>4, AwaitedAged
  <2> QED
    BY <1>3, <1>4, <2>1, OnwardIs
<1>5. ASSUME timer'[t] = ArmFor(t, mem'[t], FALSE), clock' = clock
      PROVE  Somewhere(t)'
  <2>1. clock + 1 # None
    BY <1>1, TimesAre, EngineAssumption
  <2>2. timer'[t] = clock + 1
    BY <1>5 DEF ArmFor, NextRunAt, Awaited
  <2> QED
    BY <2>1, <2>2 DEF Somewhere
<1>6. Aged(mem[t], mem[t])
  BY <1>1, SameAged
<1>22. CASE FireEarly
  <2>1. /\ UNCHANGED <<mem, catchup, passive, locks, runs, clock>> /\ call # None
        /\ call.task \in Tasks /\ Reschedule(call.task, mem[call.task])
    BY <1>22, EarlyParts
  <2>2. CASE t = call.task
    <3>1. ArmFor(t, mem[t], passive) # None
      BY <1>1, <2>1, TimesAre, EngineAssumption DEF ArmFor, NextRunAt, Awaited
    <3>2. timer'[t] = ArmFor(t, mem'[t], FALSE)
      BY <1>1, <2>1, <2>2, <3>1 DEF Reschedule
    <3> QED
      BY <1>5, <2>1, <3>2
  <2>3. CASE t # call.task
    <3>1. timer'[t] = timer[t] /\ stray'[t] = stray[t]
      BY <1>1, <2>1, <2>3 DEF Reschedule, Plus, Bags
    <3>2. Onward(t)
      BY <2>1, <2>3, <3>1 DEF Onward, CallFor
    <3> QED
      BY <1>2, <1>4, <1>6, <2>1, <3>2
  <2> QED
    BY <2>2, <2>3
<1>7. CASE Served
  <2>1. clock' = clock /\ passive' = passive /\ call # None /\ UNCHANGED <<stray, catchup>>
    BY <1>7, FireParts
  <2>2. CASE t = call.task
    BY <1>7, <2>1, <2>2, FireFuture
  <2>3. CASE t # call.task
    <3>1. Aged(mem'[t], mem[t])
      BY <1>7, <2>3, FireMem
    <3>2. timer'[t] = timer[t] /\ ~CallFor(t)
      BY <1>1, <1>7, <2>3, FireParts DEF CallFor
    <3>3. InRuns(runs, t) => InRuns(runs', t)
      <4>1. CASE UNCHANGED runs
        BY <4>1
      <4>2. CASE /\ Answered /\ Fires(Fresh)
                 /\ \E q \in Seq(Runs) : StillRuns(q) /\ runs' = Append(q, NewRun)
        BY <4>2, AppendRuns DEF StillRuns
      <4> QED
        BY <1>7, <4>1, <4>2, FireParts
    <3>4. InQueue(locks, t) => InQueue(locks', t)
      <4>1. CASE locks'.waiting = locks.waiting
        BY <4>1 DEF InQueue, IsWaiting
      <4>2. ASSUME NEW k \in Keys, locks' = Enqueue(locks, call.task, k), call.task \in Tasks
            PROVE  InQueue(locks, t) => InQueue(locks', t)
        BY <1>1, <4>2, EnqueueWaits DEF InQueue
      <4> QED
        BY <1>7, <4>1, <4>2, FireParts
    <3>5. Onward(t)
      BY <2>1, <3>2, <3>3, <3>4 DEF Onward
    <3> QED
      BY <1>2, <1>4, <2>1, <3>1, <3>5
  <2> QED
    BY <2>2, <2>3
<1>8. CASE DispatchReturns \/ CancelledBeforeDispatch
  <2>1. PICK s \in Sessions \cup {None} : RunEnds(s)
    BY <1>8, EndsOfRuns
  <2>2. /\ runs # <<>> /\ call = None /\ runs' = Tail(runs) /\ Current = runs[1]
        /\ 1 \in DOMAIN runs /\ Current.task \in Tasks
        /\ UNCHANGED <<catchup, passive, clock>>
    BY <1>8, <2>1, EndsOfRuns, RunEndsParts
  <2>3. CASE t = Current.task
    <3>1. mem[t] # None
      BY <1>1, <2>2, <2>3 DEF RunsLive, InRuns
    <3> QED
      BY <2>1, <2>2, <2>3, <3>1, EndFuture DEF Somewhere
  <2>4. CASE t # Current.task
    <3>1. mem'[t] = mem[t]
      BY <2>1, <2>2, <2>4, RunEndsTask
    <3>2. timer'[t] = timer[t] /\ stray'[t] = stray[t]
      BY <1>1, <2>1, <2>2, <2>4, RunEndsParts DEF Reschedule, Plus, Bags
    <3>3. InRuns(runs, t) => InRuns(runs', t)
      BY <2>2, <2>4, TailRuns
    <3>4. InQueue(locks, t) => InQueue(locks', t) \/ CallFor(t)'
      BY <2>1, <2>2, RunEndsHeld
    <3>5. Onward(t)
      BY <2>2, <3>2, <3>3, <3>4 DEF Onward, CallFor
    <3> QED
      BY <1>2, <1>4, <1>6, <2>2, <3>1, <3>5
  <2> QED
    BY <2>3, <2>4
<1>9. CASE StartDispatch
  <2>1. SameRuns(runs')
    BY <1>9, StartSame
  <2>2. UNCHANGED <<mem, timer, stray, catchup, passive, locks, call, clock>>
    BY <1>9 DEF StartDispatch, timerVars
  <2>3. Onward(t)
    BY <2>1, <2>2 DEF Onward, CallFor, SameRuns, SameRun, InRuns
  <2> QED
    BY <1>2, <1>4, <1>6, <2>2, <2>3
<1>10. CASE Tick \/ ExternalUnlink \/ ExternalRename \/ UNCHANGED vars
  <2>1. UNCHANGED <<mem, timer, stray, catchup, passive, locks, call, runs>>
    BY <1>10 DEF Tick, ExternalUnlink, ExternalRename, vars, timerVars, runVars
  <2>2. clock' \in Nat /\ clock <= clock'
    BY <1>2, <1>10 DEF Tick, ExternalUnlink, ExternalRename, vars
  <2>3. Onward(t)
    BY <2>1 DEF Onward, CallFor
  <2> QED
    BY <1>4, <1>6, <2>1, <2>2, <2>3
<1>11. CASE \E cut \in BOOLEAN : Restart(cut)
  <2>1. timer'[t] = ArmFor(t, mem'[t], FALSE) /\ clock' = clock
    BY <1>11 DEF Restart
  <2> QED
    BY <1>5, <2>1
<1>12. ASSUME NEW active \in BOOLEAN, Reload(active)
       PROVE  Somewhere(t)'
  <2>1. active /\ clock' = clock
    BY <1>12 DEF Reload, Load
  <2>2. timer'[t] = ArmFor(t, mem'[t], FALSE)
    BY <1>12, <2>1 DEF Reload, Load
  <2> QED
    BY <1>5, <2>1, <2>2
<1>13. ASSUME NEW k \in Keys, TimeoutFires(k)
       PROVE  Somewhere(t)'
  <2>1. locks.holder[k] \in Tasks
    BY <1>1, <1>13 DEF TimeoutFires, LockOK, LockTables, ArmedHeld
  <2>2. SameRuns(runs') /\ Aged(mem'[t], mem[t])
    BY <1>1, <1>13, <2>1, AbortSame, TimedOutAged DEF TimeoutFires
  <2>3. UNCHANGED <<timer, stray, catchup, passive, call, clock>> /\ locks'.waiting = locks.waiting
    BY <1>1, <1>13 DEF TimeoutFires, timerVars, LockOK, LockTables
  <2>4. Onward(t)
    BY <2>2, <2>3 DEF Onward, CallFor, SameRuns, SameRun, InRuns, InQueue, IsWaiting
  <2> QED
    BY <1>2, <1>4, <2>2, <2>3, <2>4
<1>14. CASE Demote \/ SetBack
  <2>1. ~SetBack
    BY Happened DEF SetBack, Without, Kinds
  <2> QED
    BY <1>14, <2>1 DEF Demote
<1>15. ASSUME NEW u \in Tasks, TimerFires(u) \/ \E k \in Times : StrayFires(u, k)
       PROVE  Somewhere(t)'
  <2>1. /\ UNCHANGED <<mem, catchup, passive, locks, runs, clock>> /\ call = None
        /\ timer' = [timer EXCEPT ![u] = None]
    BY <1>15 DEF TimerFires, StrayFires, Quiet
  <2>2. PICK at \in Times : call' = [task |-> u, at |-> at, manual |-> FALSE]
    <3>1. CASE TimerFires(u)
      BY <1>1, <3>1 DEF TimerFires, FireTask
    <3>2. ASSUME NEW k \in Times, StrayFires(u, k)
          PROVE  call' = [task |-> u, at |-> k, manual |-> FALSE]
      BY <3>2 DEF StrayFires, FireTask
    <3> QED
      BY <1>15, <3>1, <3>2
  <2>3. CallFor(u)'
    <3>1. call' \in Calls
      BY <2>2 DEF Calls
    <3> QED
      BY <2>2, <3>1, EngineAssumption DEF CallFor
  <2>4. stray'[t] = stray[t] \/ u = t
    BY <1>1, <1>15 DEF TimerFires, StrayFires, Plus, Minus, Bags
  <2>5. Onward(t)
    BY <1>1, <2>1, <2>3, <2>4 DEF Onward, CallFor
  <2> QED
    BY <1>2, <1>4, <1>6, <2>1, <2>5
<1>16. ASSUME NEW u \in Tasks, NEW k \in Times, CatchUpFires(u, k)
       PROVE  Somewhere(t)'
  <2>1. UNCHANGED <<mem, timer, stray, passive, locks, runs, clock>> /\ call = None
    BY <1>16 DEF CatchUpFires, Quiet
  <2>2. CASE u # t
    <3>1. catchup'[t] = catchup[t]
      BY <1>1, <1>16, <2>2 DEF CatchUpFires, Minus, Bags
    <3>2. Onward(t)
      BY <2>1, <3>1 DEF Onward, CallFor
    <3> QED
      BY <1>2, <1>4, <1>6, <2>1, <3>2
  <2>3. CASE u = t
    <3>1. call' = [task |-> t, at |-> k, manual |-> FALSE]
      BY <1>16, <2>1, <2>3 DEF CatchUpFires, FireTask, Awaited
    <3>2. call' \in Calls
      BY <3>1 DEF Calls
    <3> QED
      BY <3>1, <3>2, EngineAssumption DEF Somewhere, CallFor
  <2> QED
    BY <2>2, <2>3
<1>17. ASSUME NEW u \in Tasks,
              RunNow(u) \/ \E ask \in {"active", "paused", "deleted"} : ExternalRead(u, ask)
       PROVE  Somewhere(t)'
  <2>1. /\ UNCHANGED <<mem, timer, stray, catchup, passive, locks, runs, clock>>
        /\ call' = call \/ call = None
    BY <1>17 DEF RunNow, ExternalRead, timerVars, runVars, Quiet
  <2>2. Onward(t)
    BY <2>1 DEF Onward, CallFor
  <2> QED
    BY <1>2, <1>4, <1>6, <2>1, <2>2
<1>18. ASSUME Spend("edit")
       PROVE  FALSE
  <2>1. used'["edit"] # 0
    BY <1>18, Happened DEF Kinds
  <2> QED
    BY <2>1 DEF LeftIn, Undisturbed, Without
<1>19. ASSUME NEW u \in Tasks, Delete(u)
       PROVE  FALSE
  BY <1>18, <1>19 DEF Delete
<1>20. ASSUME NEW u \in Tasks, NEW target \in Targets,
              NEW policy \in {"skip", "queue", "preempt"}, Create(u, target, policy)
       PROVE  FALSE
  BY <1>18, <1>20 DEF Create
<1>21. ASSUME NEW u \in Tasks, NEW enabled \in BOOLEAN, NEW target \in Targets,
              Update(u, enabled, target)
       PROVE  Somewhere(t)'
  <2>1. /\ UNCHANGED <<stray, catchup, passive, locks, runs, call, clock>>
        /\ timer' = [timer EXCEPT ![u] = ArmFor(u, mem'[u], passive)]
        /\ \E new : mem' = [mem EXCEPT ![u] = new]
    BY <1>21 DEF Update, runVars
  <2>2. CASE u = t
    <3>1. timer'[t] = ArmFor(t, mem'[t], FALSE)
      BY <1>1, <2>1, <2>2
    <3> QED
      BY <1>5, <2>1, <3>1
  <2>3. CASE u # t
    <3>1. timer'[t] = timer[t] /\ mem'[t] = mem[t]
      BY <1>1, <2>1, <2>3 DEF TaskFiles
    <3>2. Onward(t)
      BY <2>1, <3>1 DEF Onward, CallFor
    <3> QED
      BY <1>2, <1>4, <1>6, <2>1, <3>1, <3>2
  <2> QED
    BY <2>2, <2>3
<1> QED
  BY <1>7, <1>8, <1>9, <1>10, <1>11, <1>12, <1>13, <1>14, <1>15, <1>16, <1>17, <1>19,
     <1>20, <1>21, <1>22, FireIs DEF Next

\* While its schedule goes on, an enabled task of an active engine below its cap
\* is waiting for something, as long as the clock is not set back (engine.ts:9-13).
THEOREM NoneIsForgotten == Spec => []EnabledHasFuture
<1>1. Init => AloneInv /\ WaitedHeld(locks) /\ Saved /\ RunsLive /\ FutureInv
  <2>1. Init => WaitedHeld(locks)
    BY DEF Init, WaitedHeld, Unlocked
  <2>2. Init => Saved /\ RunsLive
    BY DEF Init, Saved, RunsLive, InRuns
  <2> QED
    BY <2>1, <2>2, AloneInit, FutureInit DEF AloneInv, FutureInv
<1>2. IInv /\ FutureInv => EnabledHasFuture
  <2> SUFFICES ASSUME IInv, FutureInv, ~passive, Without({"setback"}), LeftIn, NEW t \in Tasks,
                      ArmFor(t, mem[t], FALSE) # None, mem[t].policy # "skip"
               PROVE  HasFuture(t)
    BY DEF EnabledHasFuture, LeftIn
  <2>1. Somewhere(t)
    BY AwaitedIs DEF FutureInv, Future
  <2> QED
    BY <2>1, AwaitedIs DEF Somewhere, HasFuture, InQueue
<1> QED
  BY <1>1, <1>2, InitType, StepType, AloneStep, WaitedHeldStep, SavedStep, RunsLiveStep,
     FutureStep, PTL DEF Spec

------------------------------------------------------------------------------
(* What was dispatched is counted.                                         *)

\* A run of t under way that no row counts yet.
Open(t) == t \notin recorded /\ \E i \in DOMAIN runs : runs[i].task = t /\ runs[i].started

\* A run that no row counts starts from the task as it is, below its cap.
FreshRun(r) == /\ r.snap = mem[r.task]
               /\ MaxRuns[r.task] > 0 => mem[r.task].count < MaxRuns[r.task]

CountedAll(t) ==
  /\ IsFiniteSet(Dispatches(t))
  /\ MaxRuns[t] > 0 => Cardinality(Dispatches(t)) <= MaxRuns[t]
  /\ mem[t] = None => Cardinality(Dispatches(t)) = 0
  /\ mem[t] # None => /\ Cardinality(Dispatches(t)) <= mem[t].count + 1
                      /\ ~Open(t) => Cardinality(Dispatches(t)) <= mem[t].count
  /\ \A i \in DOMAIN runs : runs[i].task = t /\ t \notin recorded => FreshRun(runs[i])

ByItself == Undisturbed /\ Without({"external"})

CountedInv == ByItself => \A t \in Tasks : CountedAll(t)

LEMMA ByItselfBack ==
  ASSUME IInv, [Next]_vars, ByItself'
  PROVE  ByItself /\ Undisturbed /\ Undisturbed' /\ used["external"] = 0
<1>1. {"external"} \in SUBSET Kinds
  BY DEF Kinds
<1> QED
  BY <1>1, WithoutBack, UndisturbedBack DEF ByItself, Without

LEMMA CountedInit == Init => \A t \in Tasks : CountedAll(t)
<1> SUFFICES ASSUME Init, NEW t \in Tasks PROVE CountedAll(t)
  OBVIOUS
<1>1. Dispatches(t) = {}
  <2>1. \A k \in Times : fired[t][k] = 0
    BY DEF Init, NoTimers
  <2> QED
    BY <2>1 DEF Dispatches
<1>2. IsFiniteSet(Dispatches(t)) /\ Cardinality(Dispatches(t)) = 0
  BY <1>1, FS_EmptySet
<1>3. runs = <<>> /\ mem[t] \in Task \cup {None} /\ MaxRuns[t] \in Nat
  BY EngineAssumption DEF Init, TaskFiles
<1> QED
  BY <1>2, <1>3 DEF CountedAll, Task

\* A timeout marks the task it counts a run of, and touches no other.
LEMMA TimedOutCount ==
  ASSUME IInv, NEW old \in Tasks, NEW u \in Tasks
  PROVE  \/ /\ TimedOut(mem, old)[u] = mem[u]
            /\ u \in recorded <=> u \in Marked(mem, old)
         \/ /\ u = old /\ mem[u] \in Task /\ u \in Marked(mem, old)
            /\ TimedOut(mem, old)[u] \in Task
            /\ TimedOut(mem, old)[u].count = mem[u].count + 1
<1>1. mem \in TaskFiles /\ mem[u] \in Task \cup {None} /\ clock \in Times
  BY TimesAre, Parts DEF TaskFiles
<1>2. Marked(mem, old) = IF mem[old] = None THEN recorded ELSE recorded \cup {old}
  BY DEF Marked
<1>3. CASE u # old
  BY <1>1, <1>2, <1>3, TimedOutTask
<1>4. CASE mem[old] = None
  BY <1>2, <1>4 DEF TimedOut
<1>5. CASE u = old /\ mem[old] # None
  <2>1. TimedOut(mem, old)[u] = Counted(mem[u], clock)
    BY <1>1, <1>5 DEF TimedOut, TaskFiles
  <2>2. mem[u] \in Task /\ Counted(mem[u], clock) \in Task
    BY <1>1, <1>5, CountedType
  <2>3. Counted(mem[u], clock).count = mem[u].count + 1
    BY <2>2 DEF Counted, Task
  <2> QED
    BY <1>2, <1>5, <2>1, <2>2, <2>3
<1> QED
  BY <1>3, <1>4, <1>5

\* A step that leaves t, its runs and its dispatches alone.
LEMMA CountedSame ==
  ASSUME NEW t, CountedAll(t), fired'[t] = fired[t], mem'[t] = mem[t],
         t \in recorded <=> t \in recorded', Open(t) => Open(t)',
         \A i \in DOMAIN runs' : runs'[i].task = t =>
           \E j \in DOMAIN runs : runs[j].task = t /\ runs[j].snap = runs'[i].snap
  PROVE  CountedAll(t)'
<1>1. Dispatches(t)' = Dispatches(t)
  BY DEF Dispatches
<1>2. ASSUME NEW i \in DOMAIN runs', runs'[i].task = t, t \notin recorded'
      PROVE  FreshRun(runs[i])'
  BY <1>2 DEF CountedAll, FreshRun
<1> HIDE DEF Dispatches
<1> QED
  BY <1>1, <1>2 DEF CountedAll

\* A step that counts a run of t, or finds none to count.
LEMMA CountedMore ==
  ASSUME IInv, NEW t \in Tasks, CountedAll(t), fired'[t] = fired[t], mem'[t] \in Task,
         \/ mem[t] = None \/ mem'[t].count = mem[t].count + 1
         \/ ~Open(t) /\ mem'[t].count = mem[t].count,
         t \in recorded' \/ ~InRuns(runs', t)
  PROVE  CountedAll(t)'
<1>1. Dispatches(t)' = Dispatches(t)
  BY DEF Dispatches
<1>2. mem[t] \in Task \cup {None} /\ mem'[t] # None
  BY Parts, TaskIsSome DEF TaskFiles
<1>3. Cardinality(Dispatches(t)) \in Nat
  BY FS_CardinalityType DEF CountedAll
<1>4. Cardinality(Dispatches(t)) <= mem'[t].count
  BY <1>2, <1>3 DEF CountedAll, Task
<1>5. ~Open(t)' /\ \A i \in DOMAIN runs' : runs'[i].task # t \/ t \in recorded'
  BY DEF Open, InRuns
<1>6. mem'[t].count \in Nat
  BY DEF Task
<1> HIDE DEF Dispatches
<1> QED
  BY <1>1, <1>2, <1>3, <1>4, <1>5, <1>6 DEF CountedAll

\* A dispatch is one more, of a run below the cap.
LEMMA StartCounted ==
  ASSUME IInv, Alone, StartDispatch, \A t \in Tasks : CountedAll(t), NEW u \in Tasks
  PROVE  CountedAll(u)'
<1>0. PICK r \in Runs : r = Current
  BY CurrentType DEF StartDispatch
<1>1. /\ 1 \in DOMAIN runs /\ r = runs[1] /\ r.task \in Tasks /\ r.at \in Times
      /\ ~r.manual /\ ~r.started /\ r.task \notin recorded
  BY <1>0, CurrentType DEF StartDispatch, Alone, OnSchedule
<1>2. /\ UNCHANGED <<mem, recorded>>
      /\ fired' = Plus(fired, r.task, r.at)
      /\ runs' = [runs EXCEPT ![1].started = TRUE]
  BY <1>0, <1>1 DEF StartDispatch
<1>3. fired \in Bags /\ r.at # None /\ runs \in Seq(Runs)
  BY <1>1, EngineAssumption DEF IInv, TypeOK, Bags
<1>4. SameRuns(runs')
  BY StartSame
<1>5. CASE u # r.task
  <2>1. fired'[u] = fired[u]
    BY <1>2, <1>3, <1>5 DEF Plus, Bags
  <2>2. Open(u) => Open(u)'
    <3>1. \A i \in DOMAIN runs : i # 1 => runs'[i] = runs[i]
      BY <1>2, <1>3
    <3> QED
      BY <1>1, <1>2, <1>4, <1>5, <3>1 DEF Open, SameRuns
  <2> QED
    BY <1>2, <1>4, <2>1, <2>2, CountedSame DEF SameRuns, SameRun
<1>6. CASE u = r.task
  <2> DEFINE D == Dispatches(u)
             e == <<r.at, fired[u][r.at] + 1>>
  <2>1. fired'[u] = [fired[u] EXCEPT ![r.at] = fired[u][r.at] + 1]
    BY <1>2, <1>3, <1>6 DEF Plus, Bags
  <2>2. fired[u] \in [Times -> Nat] /\ r.at \in Times
    BY <1>1, <1>3 DEF Bags
  <2>3. D' = D \cup {e} /\ e \notin D
    <3>1. \A k \in Times : \A n : <<k, n>> \in D <=> n \in 1..fired[u][k]
      BY <2>2 DEF Dispatches
    <3>2. \A k \in Times : \A n : <<k, n>> \in D' <=> n \in 1..fired'[u][k]
      BY DEF Dispatches
    <3>3. \A k \in Times : \A n : n \in 1..fired'[u][k]
                                <=> n \in 1..fired[u][k] \/ (k = r.at /\ n = fired[u][r.at] + 1)
      BY <2>1, <2>2
    <3>4. \A d \in D \cup D' : \E k \in Times, n \in Nat : d = <<k, n>>
      BY DEF Dispatches
    <3> HIDE DEF D
    <3>5. e \notin D
      BY <2>2, <3>1
    <3>6. D' \subseteq D \cup {e}
      BY <3>1, <3>2, <3>3, <3>4
    <3>7. D \subseteq D'
      BY <3>1, <3>2, <3>3, <3>4
    <3>8. e \in D'
      BY <2>2, <3>2, <3>3
    <3> QED
      BY <3>5, <3>6, <3>7, <3>8
  <2>4. IsFiniteSet(D) /\ Cardinality(D) \in Nat
    BY FS_CardinalityType DEF CountedAll
  <2>5. IsFiniteSet(D') /\ Cardinality(D') = Cardinality(D) + 1
    <3> HIDE DEF D, e
    <3> QED
      BY <2>3, <2>4, FS_AddElement
  <2>6. ~Open(u) /\ Open(u)'
    <3>1. runs'[1].task = u /\ runs'[1].started /\ 1 \in DOMAIN runs'
      BY <1>1, <1>2, <1>3, <1>6 DEF Runs
    <3>2. \A i \in DOMAIN runs : runs[i].task = u => i = 1
      BY <1>1, <1>6 DEF Alone, RunsOnce
    <3> QED
      BY <1>1, <1>2, <1>6, <3>1, <3>2 DEF Open
  <2>7. FreshRun(r) /\ r.snap \in Task
    BY <1>1, <1>6 DEF CountedAll, Runs
  <2>8. mem[u] \in Task /\ mem[u] # None /\ MaxRuns[u] \in Nat
    BY <1>6, <2>7, TaskIsSome, EngineAssumption DEF FreshRun
  <2>9. /\ Cardinality(D) + 1 <= mem[u].count + 1
        /\ MaxRuns[u] > 0 => Cardinality(D) + 1 <= MaxRuns[u]
    <3> HIDE DEF D
    <3>1. Cardinality(D) <= mem[u].count
      BY <2>6, <2>8 DEF CountedAll, D
    <3> QED
      BY <1>6, <2>4, <2>7, <2>8, <3>1 DEF FreshRun, Task
  <2>10. ASSUME NEW i \in DOMAIN runs', runs'[i].task = u
         PROVE  FreshRun(runs[i])'
    <3>1. i \in DOMAIN runs /\ runs[i].task = u /\ runs'[i].snap = runs[i].snap
      BY <1>4, <2>10 DEF SameRuns, SameRun
    <3>2. FreshRun(runs[i])
      BY <1>1, <1>6, <3>1 DEF CountedAll
    <3> QED
      BY <1>2, <2>10, <3>1, <3>2 DEF FreshRun
  <2>11. CountedAll(u)'
    <3> HIDE DEF D
    <3> QED
      BY <1>2, <2>5, <2>6, <2>8, <2>9, <2>10 DEF CountedAll, D
  <2> QED
    BY <2>11
<1> QED
  BY <1>5, <1>6

\* The answer to a call: its task has no run, so all its dispatches are counted.
LEMMA FireCounted ==
  ASSUME IInv, Alone, ReadTasks = mem, Loaded = mem, Served, \A t \in Tasks : CountedAll(t),
         NEW u \in Tasks
  PROVE  CountedAll(u)'
<1>0. PICK t \in Tasks : t = call.task
  BY FireParts
<1>1. /\ mem \in TaskFiles /\ runs \in Seq(Runs) /\ call # None /\ ~call.manual
      /\ Fresh = mem[t] /\ fired' = fired /\ call.at \in Times
      /\ mem[t] \in Task \cup {None}
  BY <1>0, FireParts, FreshType, Parts DEF RunsOK, Fresh, TaskFiles, Alone, OnSchedule, IInv
<1>2. ~InRuns(runs, t) /\ ~Open(t)
  BY <1>0, <1>1 DEF Alone, OnePlace, CallFor, Open, InRuns
<1>3. CASE FireDropped \/ FireQueued
  <2>1. UNCHANGED <<mem, recorded, runs>>
    BY <1>3 DEF FireDropped, FireQueued
  <2> QED
    BY <1>1, <2>1, CountedSame DEF Open
<1>4. CASE FireCapped \/ FireSkipped
  <2>1. UNCHANGED <<recorded, runs>> /\ mem[t] \in Task
    BY <1>1, <1>4 DEF FireCapped, FireSkipped, MayRun, Fires
  <2>2. /\ mem'[t] \in Task /\ mem'[t].count \in {mem[t].count, mem[t].count + 1}
        /\ \A v \in Tasks : v # t => mem'[v] = mem[v]
    <3>1. CASE FireCapped
      <4>1. mem' = [mem EXCEPT ![t] = [mem[t] EXCEPT !.enabled = FALSE]]
        BY <1>0, <1>1, <3>1 DEF FireCapped
      <4> QED
        BY <1>1, <2>1, <4>1 DEF Task, TaskFiles
    <3>2. CASE FireSkipped
      <4>1. mem' = [mem EXCEPT ![t] = Counted(mem[t], call.at)]
        BY <1>0, <1>1, <3>2 DEF FireSkipped
      <4>2. Counted(mem[t], call.at) \in Task
        BY <1>1, <2>1, CountedType
      <4>3. Counted(mem[t], call.at).count = mem[t].count + 1
        BY <2>1 DEF Counted, Task
      <4> QED
        BY <1>1, <4>1, <4>2, <4>3 DEF TaskFiles
    <3> QED
      BY <1>4, <3>1, <3>2
  <2>3. CASE u = t
    BY <1>1, <1>2, <2>1, <2>2, <2>3, CountedMore
  <2>4. CASE u # t
    BY <1>1, <2>1, <2>2, <2>4, CountedSame DEF Open
  <2> QED
    BY <2>3, <2>4
<1>5. ASSUME MayRun, NEW q \in Seq(Runs), StillRuns(q), runs' = Append(q, NewRun),
             mem'[u] = mem[u], u \in recorded <=> u \in recorded'
      PROVE  CountedAll(u)'
  <2>1. Answered /\ Fires(Fresh) /\ ~CapReached(t, mem[t])
    BY <1>0, <1>1, <1>5 DEF MayRun
  <2>2. /\ DOMAIN runs' = DOMAIN runs \cup {Len(runs) + 1}
        /\ \A i \in DOMAIN runs : SameRun(runs'[i], runs[i]) /\ runs'[i] = q[i]
        /\ runs'[Len(runs) + 1] = NewRun
    BY <1>5, <2>1, AppendRuns DEF StillRuns
  <2>3. NewRun.task = t /\ NewRun.snap = mem[t]
    BY <1>0, <1>1 DEF NewRun
  <2>4. CASE u # t
    <3>1. \A i \in DOMAIN runs : runs'[i].started = runs[i].started
      BY <1>5, <2>2 DEF StillRuns
    <3>2. Open(u) => Open(u)'
      BY <1>5, <2>2, <3>1 DEF Open, SameRun
    <3> QED
      BY <1>1, <1>5, <2>2, <2>3, <2>4, <3>2, CountedSame DEF SameRun
  <2>5. CASE u = t
    <3>1. Dispatches(t)' = Dispatches(t)
      BY <1>1 DEF Dispatches
    <3>2. mem[t] \in Task /\ (MaxRuns[t] > 0 => mem[t].count < MaxRuns[t])
      BY <1>1, <2>1, EngineAssumption DEF Fires, CapReached, Task
    <3>3. ASSUME NEW i \in DOMAIN runs', runs'[i].task = t
          PROVE  FreshRun(runs[i])'
      <4>1. i = Len(runs) + 1
        BY <1>2, <2>2, <3>3 DEF InRuns, SameRun
      <4> QED
        BY <1>5, <2>2, <2>3, <2>5, <3>2, <4>1 DEF FreshRun
    <3> HIDE DEF Dispatches
    <3> QED
      BY <1>2, <1>5, <2>5, <3>1, <3>3 DEF CountedAll
  <2> QED
    BY <2>4, <2>5
<1>6. CASE FireGranted
  <2>1. mem' = mem /\ recorded' = recorded /\ MayRun /\ runs' = Append(runs, NewRun)
    BY <1>6 DEF FireGranted
  <2>2. runs \in Seq(Runs) /\ StillRuns(runs)
    BY <1>1 DEF StillRuns, SameRuns, SameRun
  <2> QED
    BY <1>5, <2>1, <2>2
<1>7. CASE FirePreempts
  <2>1. PICK old \in Tasks : old = locks.holder[KeyOf(call.task, Fresh)]
    BY <1>7, MayRunType, PreemptedHolds DEF FirePreempts, MayRun, Outcome
  <2>2. /\ MayRun /\ mem' = TimedOut(mem, old) /\ recorded' = Marked(mem, old)
        /\ runs' = Append(Abort(mem, old), NewRun)
    BY <1>7, <2>1 DEF FirePreempts
  <2>3. Abort(mem, old) \in Seq(Runs) /\ StillRuns(Abort(mem, old))
    BY AbortSame
  <2>4. CASE mem'[u] = mem[u] /\ (u \in recorded <=> u \in recorded')
    BY <1>5, <2>2, <2>3, <2>4
  <2>5. CASE /\ mem[u] \in Task /\ u \in recorded' /\ mem'[u] \in Task
             /\ mem'[u].count = mem[u].count + 1
    BY <1>1, <2>5, CountedMore
  <2> QED
    BY <1>1, <2>2, <2>4, <2>5, TimedOutCount
<1> QED
  BY <1>3, <1>4, <1>6, <1>7 DEF Served

\* The end of a run: its row counts it, unless one did before.
LEMMA EndCounted ==
  ASSUME IInv, Alone, runs # <<>>, call = None, NEW s \in Sessions \cup {None}, RunEnds(s),
         \A t \in Tasks : CountedAll(t), NEW u \in Tasks
  PROVE  CountedAll(u)'
<1>0. PICK t \in Tasks : t = Current.task
  BY RunEndsParts
<1>1. /\ runs' = Tail(runs) /\ Current = runs[1] /\ 1 \in DOMAIN runs /\ fired' = fired
      /\ recorded' = recorded \ {t} /\ mem \in TaskFiles
      /\ Current \in Runs /\ Current.snap \in Task /\ Current.at \in Times
  BY <1>0, RunEndsParts, CurrentType, Parts DEF RunEnds
<1>2. /\ \A i \in DOMAIN runs' : i + 1 \in DOMAIN runs /\ runs'[i] = runs[i + 1]
      /\ ~InRuns(runs', t)
  BY <1>0, <1>1, TailRuns DEF Alone
<1>3. CASE u # t
  <2>1. mem'[u] = mem[u]
    BY <1>0, <1>3, RunEndsTask
  <2>2. Open(u) => Open(u)'
    <3>1. ASSUME NEW i \in DOMAIN runs, runs[i].task = u
          PROVE  i - 1 \in DOMAIN runs' /\ runs'[i - 1] = runs[i]
      <4>1. i # 1 /\ runs \in Seq(Runs)
        BY <1>0, <1>1, <1>3, <3>1, Parts DEF RunsOK
      <4> QED
        BY <1>1, <4>1
    <3> QED
      BY <1>1, <1>3, <3>1 DEF Open
  <2> QED
    BY <1>1, <1>2, <1>3, <2>1, <2>2, CountedSame
<1>4. CASE u = t
  <2> DEFINE m == AfterRow(s)
  <2>1. m \in TaskFiles /\ WindUp(m, t)
    BY <1>0, AfterRowType DEF RunEnds
  <2>2. Pinned(s) \in Task /\ Pinned(s).count = Current.snap.count
    BY <1>1 DEF Pinned, Task, Targets
  <2>3. ASSUME NEW task \in Task
        PROVE  /\ Counted(task, Current.at) \in Task
               /\ Counted(task, Current.at).count = task.count + 1
               /\ [task EXCEPT !.enabled = FALSE] \in Task
               /\ [task EXCEPT !.enabled = FALSE].count = task.count
    BY <1>1, CountedType DEF Counted, Task
  <2>4. /\ t \notin recorded => m[t] = Counted(Pinned(s), Current.at)
        /\ t \in recorded => m = mem
    BY <1>0, <1>1 DEF AfterRow, TaskFiles
  <2> HIDE DEF m
  <2>5. \/ m[t] = None /\ mem'[t] = Counted(Current.snap, Current.at)
        \/ m[t] \in Task /\ mem'[t] \in Task /\ mem'[t].count = m[t].count
    <3>1. m[t] # None => m[t] \in Task
      BY <2>1 DEF TaskFiles
    <3>2. \/ m[t] = None /\ mem' = [m EXCEPT ![t] = Counted(Current.snap, Current.at)]
          \/ m[t] # None /\ mem' = m
          \/ m[t] # None /\ mem' = [m EXCEPT ![t] = [m[t] EXCEPT !.enabled = FALSE]]
      BY <2>1 DEF WindUp, GoesOn
    <3>3. \A new : [m EXCEPT ![t] = new][t] = new
      BY <2>1 DEF TaskFiles
    <3>4. CASE m[t] = None /\ mem' = [m EXCEPT ![t] = Counted(Current.snap, Current.at)]
      BY <3>3, <3>4
    <3>5. CASE m[t] # None /\ mem' = m
      BY <3>1, <3>5
    <3>6. CASE m[t] # None /\ mem' = [m EXCEPT ![t] = [m[t] EXCEPT !.enabled = FALSE]]
      <4>1. mem'[t] = [m[t] EXCEPT !.enabled = FALSE]
        BY <3>3, <3>6
      <4> QED
        BY <2>3, <3>1, <3>6, <4>1
    <3> QED
      BY <3>2, <3>4, <3>5, <3>6
  <2>6. CASE t \notin recorded
    <3>1. Current.snap = mem[t]
      BY <1>0, <1>1, <2>6 DEF CountedAll, FreshRun
    <3>2. m[t] \in Task /\ m[t].count = mem[t].count + 1
      <4>1. m[t] = Counted(Pinned(s), Current.at)
        BY <2>4, <2>6
      <4>2. /\ Counted(Pinned(s), Current.at) \in Task
            /\ Counted(Pinned(s), Current.at).count = Pinned(s).count + 1
        BY <2>2, <2>3
      <4>3. Pinned(s).count = mem[t].count
        BY <2>2, <3>1
      <4> QED
        BY <4>1, <4>2, <4>3
    <3>3. mem'[t] \in Task /\ mem'[t].count = mem[t].count + 1
      BY <2>5, <3>2, TaskIsSome
    <3> QED
      BY <1>1, <1>2, <1>4, <3>3, CountedMore
  <2>7. CASE t \in recorded
    <3>1. ~Open(t)
      BY <2>7 DEF Open
    <3>2. mem'[t] \in Task /\ (mem[t] = None \/ mem'[t].count = mem[t].count)
      BY <1>1, <2>3, <2>4, <2>5, <2>7
    <3> QED
      BY <1>1, <1>2, <1>4, <3>1, <3>2, CountedMore
  <2> QED
    BY <2>6, <2>7
<1> QED
  BY <1>3, <1>4

LEMMA CountedStep == IInv /\ AloneInv /\ Saved /\ CountedInv /\ [Next]_vars => CountedInv'
<1> SUFFICES ASSUME IInv, AloneInv, Saved, CountedInv, [Next]_vars, ByItself',
                    NEW u \in Tasks
             PROVE  CountedAll(u)'
  BY DEF CountedInv
<1>1. /\ Undisturbed' /\ used["external"] = 0 /\ Alone /\ \A t \in Tasks : CountedAll(t)
      /\ mem \in TaskFiles
  BY ByItselfBack, Parts DEF CountedInv, AloneInv
<1>2. ASSUME UNCHANGED <<mem, fired, recorded, runs>>
      PROVE  CountedAll(u)'
  BY <1>1, <1>2, CountedSame DEF Open
<1>10. CASE FireEarly
  BY <1>2, <1>10, EarlyParts
<1>3. CASE Served
  BY <1>1, <1>3, FireParts, LoadedIsMem, FireCounted
<1>4. CASE DispatchReturns \/ CancelledBeforeDispatch
  BY <1>1, <1>4, EndsOfRuns, EndCounted
<1>5. CASE StartDispatch
  BY <1>1, <1>5, StartCounted
<1>6. CASE Demote \/ Tick \/ SetBack \/ ExternalUnlink \/ ExternalRename \/ UNCHANGED vars
  BY <1>2, <1>6 DEF Demote, Tick, SetBack, ExternalUnlink, ExternalRename, vars, runVars, histVars
<1>7. ASSUME NEW t \in Tasks, NEW ask \in {"active", "paused", "deleted"}, ExternalRead(t, ask)
      PROVE  CountedAll(u)'
  BY <1>2, <1>7 DEF ExternalRead, runVars, histVars
<1>8. ASSUME NEW t \in Tasks,
             TimerFires(t) \/ \E k \in Times : StrayFires(t, k) \/ CatchUpFires(t, k)
      PROVE  CountedAll(u)'
  BY <1>2, <1>8 DEF TimerFires, StrayFires, CatchUpFires, histVars
<1>9. ASSUME NEW k \in Keys, TimeoutFires(k)
      PROVE  CountedAll(u)'
  <2>1. PICK old \in Tasks : old = locks.holder[k]
    BY <1>9, Parts DEF TimeoutFires, LocksOK, LockOK, LockTables, ArmedHeld
  <2>2. /\ mem' = TimedOut(mem, old) /\ recorded' = Marked(mem, old)
        /\ runs' = Abort(mem, old) /\ fired' = fired
    BY <1>9, <2>1 DEF TimeoutFires
  <2>3. StillRuns(runs')
    BY <2>2, AbortSame
  <2>4. CASE mem'[u] = mem[u] /\ (u \in recorded <=> u \in recorded')
    <3>1. Open(u) => Open(u)'
      BY <2>3, <2>4 DEF Open, StillRuns, SameRuns, SameRun
    <3> QED
      BY <1>1, <2>2, <2>3, <2>4, <3>1, CountedSame DEF StillRuns, SameRuns, SameRun
  <2>5. CASE /\ mem[u] \in Task /\ u \in recorded' /\ mem'[u] \in Task
             /\ mem'[u].count = mem[u].count + 1
    BY <1>1, <2>2, <2>5, CountedMore
  <2> QED
    BY <1>1, <2>2, <2>4, <2>5, TimedOutCount
<1> QED
  BY <1>1, <1>3, <1>4, <1>5, <1>6, <1>7, <1>8, <1>9, <1>10, FireIs, UndisturbedSteps

\* The scheduled dispatches of a capped task never exceed maxRuns (engine.ts:662).
THEOREM CapIsKept == Spec => []CapRespected
<1>1. Init => AloneInv /\ Saved /\ CountedInv
  <2>1. Init => Saved
    BY DEF Init, Saved
  <2> QED
    BY <2>1, AloneInit, CountedInit DEF AloneInv, CountedInv
<1>2. CountedInv => CapRespected
  BY DEF CountedInv, ByItself, CountedAll, CapRespected
<1> QED
  BY <1>1, <1>2, InitType, StepType, AloneStep, SavedStep, CountedStep, PTL DEF Spec

------------------------------------------------------------------------------
(* Tasks that nobody edits.                                                *)

\* Neither the user, nor another process, nor a continued session has changed what
\* a task is: its existence, its target and its policy.
Settled == Without({"edit", "retarget", "external", "continue"})

Fixed(new, old) ==
  /\ new = None <=> old = None
  /\ old # None => new.target = old.target /\ new.policy = old.policy

SnapsFixed == \A i \in DOMAIN runs : Fixed(runs[i].snap, mem[runs[i].task])

SnapsInv == Settled => SnapsFixed

LEMMA SettledBack ==
  ASSUME IInv, [Next]_vars, Settled'
  PROVE  /\ Settled /\ used["external"] = 0
         /\ \A kind \in {"edit", "retarget", "external", "continue"} : ~Spend(kind)
<1>1. {"edit", "retarget", "external", "continue"} \in SUBSET Kinds
  BY DEF Kinds
<1>2. Settled /\ used["external"] = 0
  BY <1>1, WithoutBack DEF Settled, Without
<1>3. ASSUME NEW kind \in {"edit", "retarget", "external", "continue"}, Spend(kind)
      PROVE  FALSE
  BY <1>1, <1>3, Happened DEF Settled, Without
<1> QED
  BY <1>2, <1>3

LEMMA AgedFixed ==
  ASSUME NEW old \in Task \cup {None}, NEW new, Aged(new, old)
  PROVE  Fixed(new, old)
BY DEF Aged, Fixed

\* Counting and disabling leave what a task is.
LEMMA CountedFixed ==
  ASSUME NEW task \in Task, NEW k \in Times
  PROVE  /\ Fixed(Counted(task, k), task)
         /\ Fixed([task EXCEPT !.enabled = FALSE], task)
<1>1. Counted(task, k) # None /\ task # None /\ [task EXCEPT !.enabled = FALSE] # None
  BY TaskIsSome
<1> QED
  BY <1>1 DEF Fixed, Counted, Task

LEMMA FireFixed ==
  ASSUME IInv, Loaded = mem, Served, NEW u \in Tasks
  PROVE  Fixed(mem'[u], mem[u])
<1>0. PICK t \in Tasks : t = call.task
  BY FireParts
<1>1. /\ mem \in TaskFiles /\ mem[u] \in Task \cup {None} /\ call.at \in Times
      /\ Fresh = mem[t]
  <2>1. Loaded[call.task] = Fresh
    BY <1>0, Parts DEF Loaded, TaskFiles
  <2> QED
    BY <1>0, <2>1, FireParts, FreshType, Parts DEF TaskFiles, IInv
<1>2. CASE u # t
  BY <1>0, <1>1, <1>2, FireMem, AgedFixed
<1>3. CASE u = t
  <2>1. CASE FireDropped \/ FireQueued \/ FireGranted
    <3>1. mem' = mem
      BY <2>1 DEF FireDropped, FireQueued, FireGranted
    <3> QED
      BY <3>1 DEF Fixed
  <2>2. CASE FireCapped
    <3>1. mem[t] \in Task /\ mem' = [mem EXCEPT ![t] = [mem[t] EXCEPT !.enabled = FALSE]]
      BY <1>0, <1>1, <1>3, <2>2 DEF FireCapped, Fires
    <3>2. mem'[t] = [mem[t] EXCEPT !.enabled = FALSE]
      BY <1>1, <3>1 DEF TaskFiles
    <3> QED
      BY <1>1, <1>3, <3>1, <3>2, CountedFixed
  <2>3. CASE FireSkipped
    <3>1. mem[t] \in Task /\ mem' = [mem EXCEPT ![t] = Counted(mem[t], call.at)]
      BY <1>0, <1>1, <1>3, <2>3 DEF FireSkipped, MayRun, Fires
    <3>2. mem'[t] = Counted(mem[t], call.at)
      BY <1>1, <3>1 DEF TaskFiles
    <3> QED
      BY <1>1, <1>3, <3>1, <3>2, CountedFixed
  <2>4. CASE FirePreempts
    BY <1>0, <1>1, <1>3, <2>4, FireMem, AgedFixed
  <2> QED
    BY <2>1, <2>2, <2>3, <2>4 DEF Served
<1> QED
  BY <1>2, <1>3

\* The end of a run writes its task back as it was when the run began.
LEMMA EndFixed ==
  ASSUME IInv, SnapsFixed, runs # <<>>, NEW s \in Sessions \cup {None}, RunEnds(s),
         ~Continued(s), NEW u \in Tasks
  PROVE  Fixed(mem'[u], mem[u])
<1>0. PICK t \in Tasks : t = Current.task
  BY CurrentType
<1>1. /\ mem \in TaskFiles /\ Current.at \in Times /\ Current.snap \in Task
      /\ Current = runs[1] /\ 1 \in DOMAIN runs
  BY CurrentType, Parts
<1>2. CASE u # t
  BY <1>0, <1>2, RunEndsTask DEF Fixed
<1>3. Fixed(Current.snap, mem[t])
  BY <1>0, <1>1 DEF SnapsFixed
<1>4. mem[t] \in Task
  BY <1>1, <1>3, TaskIsSome DEF Fixed, TaskFiles
<1> DEFINE m == AfterRow(s)
<1>5. m \in TaskFiles /\ WindUp(m, t)
  BY <1>0, AfterRowType DEF RunEnds
<1>6. m[t] \in Task /\ Fixed(m[t], mem[t])
  <2>1. CASE t \in recorded
    BY <1>0, <1>4, <2>1 DEF AfterRow, Fixed
  <2>2. CASE t \notin recorded
    <3>1. m[t] = Counted(Pinned(s), Current.at)
      BY <1>0, <1>1, <2>2 DEF AfterRow, TaskFiles
    <3>2. Pinned(s) = Current.snap
      BY <1>1 DEF Pinned, Continued, Task
    <3>3. m[t] \in Task /\ Fixed(m[t], Current.snap)
      BY <1>1, <3>1, <3>2, CountedType, CountedFixed
    <3> QED
      BY <1>1, <1>3, <1>4, <3>3, TaskIsSome DEF Fixed
  <2> QED
    BY <2>1, <2>2
<1> HIDE DEF m
<1>7. mem' = m \/ mem' = [m EXCEPT ![t] = [m[t] EXCEPT !.enabled = FALSE]]
  <2>1. m[t] # None
    BY <1>6, TaskIsSome
  <2> QED
    BY <1>5, <2>1 DEF WindUp, GoesOn
<1>8. mem'[t] = m[t] \/ mem'[t] = [m[t] EXCEPT !.enabled = FALSE]
  BY <1>5, <1>7 DEF TaskFiles
<1>9. Fixed(mem'[t], m[t])
  <2>1. 0 \in Times
    BY EngineAssumption DEF Times
  <2> QED
    BY <1>6, <1>8, <2>1, CountedFixed DEF Fixed
<1>10. CASE u = t
  BY <1>6, <1>9, <1>10 DEF Fixed
<1> QED
  BY <1>2, <1>10

LEMMA TasksFixed ==
  ASSUME IInv, Saved, SnapsInv, [Next]_vars, Settled', ~Restart(TRUE), NEW u \in Tasks
  PROVE  Fixed(mem'[u], mem[u])
<1>1. /\ used["external"] = 0 /\ SnapsFixed /\ mem \in TaskFiles
      /\ mem[u] \in Task \cup {None}
      /\ \A kind \in {"edit", "retarget", "external", "continue"} : ~Spend(kind)
  BY SettledBack, Parts DEF SnapsInv, TaskFiles
<1>2. UNCHANGED mem => Fixed(mem'[u], mem[u])
  BY DEF Fixed
<1>10. CASE FireEarly
  BY <1>2, <1>10, EarlyParts
<1>3. CASE Served
  BY <1>1, <1>3, FireParts, LoadedIsMem, FireFixed
<1>4. CASE DispatchReturns \/ CancelledBeforeDispatch
  BY <1>1, <1>4, EndsOfRuns, EndFixed
<1>5. CASE Restart(FALSE) \/ \E active \in BOOLEAN : Reload(active)
  BY <1>1, <1>2, <1>5, LoadedIsMem DEF Restart, Reload, Load
<1>6. CASE StartDispatch \/ Demote \/ Tick \/ SetBack \/ ExternalUnlink \/ ExternalRename \/ UNCHANGED vars
  BY <1>2, <1>6 DEF StartDispatch, Demote, Tick, SetBack, ExternalUnlink, ExternalRename, vars
<1>7. ASSUME NEW k \in Keys, TimeoutFires(k)
      PROVE  Fixed(mem'[u], mem[u])
  <2>1. locks.holder[k] \in Tasks
    BY <1>7, Parts DEF TimeoutFires, LocksOK, LockOK, LockTables, ArmedHeld
  <2> QED
    BY <1>1, <1>7, <2>1, TimedOutAged, AgedFixed DEF TimeoutFires
<1>8. ASSUME NEW t \in Tasks,
             \/ TimerFires(t) \/ RunNow(t)
             \/ \E k \in Times : StrayFires(t, k) \/ CatchUpFires(t, k)
             \/ \E ask \in {"active", "paused", "deleted"} : ExternalRead(t, ask)
      PROVE  UNCHANGED mem
  BY <1>8 DEF TimerFires, RunNow, StrayFires, CatchUpFires, ExternalRead
<1>9. ASSUME NEW t \in Tasks,
             \/ Delete(t)
             \/ \E target \in Targets, policy \in {"skip", "queue", "preempt"} :
                  Create(t, target, policy)
             \/ \E enabled \in BOOLEAN, target \in Targets : Update(t, enabled, target)
      PROVE  FALSE
  BY <1>1, <1>9 DEF Delete, Create, Update
<1> QED
  BY <1>2, <1>3, <1>4, <1>5, <1>6, <1>7, <1>8, <1>9, <1>10, FireIs DEF Next

LEMMA SnapsStep == IInv /\ Saved /\ SnapsInv /\ [Next]_vars => SnapsInv'
<1> SUFFICES ASSUME IInv, Saved, SnapsInv, [Next]_vars, Settled', NEW i \in DOMAIN runs'
             PROVE  Fixed(runs'[i].snap, mem'[runs'[i].task])
  BY DEF SnapsInv, SnapsFixed
<1>1. SnapsFixed /\ used["external"] = 0 /\ ~Restart(TRUE)
  <2>1. ASSUME Restart(TRUE)
        PROVE  FALSE
    <3>1. runs' = <<>>
      BY <2>1 DEF Restart
    <3> QED
      BY <3>1
  <2>2. SnapsFixed /\ used["external"] = 0
    BY SettledBack DEF SnapsInv
  <2> QED
    BY <2>1, <2>2
<1>2. runs \in Seq(Runs)
  BY Parts DEF RunsOK
<1>3. ASSUME NEW j \in DOMAIN runs, SameRun(runs'[i], runs[j])
      PROVE  Fixed(runs'[i].snap, mem'[runs'[i].task])
  <2>1. runs[j].task \in Tasks
    <3>1. runs[j] \in Runs
      BY <1>2
    <3> QED
      BY <3>1 DEF Runs
  <2>2. Fixed(mem'[runs[j].task], mem[runs[j].task])
    BY <1>1, <2>1, TasksFixed
  <2> QED
    BY <1>1, <1>3, <2>2 DEF SnapsFixed, Fixed, SameRun
<1>4. CASE Served /\ Fires(Fresh) /\ runs'[i] = NewRun
  <2>1. call # None /\ call.task \in Tasks /\ Fresh = mem[call.task]
    BY <1>1, <1>4, FireParts, LoadedIsMem
  <2>2. Fixed(mem'[call.task], mem[call.task])
    BY <1>1, <2>1, TasksFixed
  <2> QED
    BY <1>4, <2>1, <2>2 DEF NewRun, Fixed
<1> QED
  BY <1>3, <1>4, RunsFrom

------------------------------------------------------------------------------
(* The index of the locks: which key each task holds.                      *)

\* The key a task is indexed under is held by it, and conversely.
Tracks(L) == \A x \in Tasks : L.byTask[x] # None => L.holder[L.byTask[x]] = x
Indexed(L) == \A k \in Keys : L.holder[k] # None => L.byTask[L.holder[k]] = k

\* A free key is taken.
LEMMA TakeTracks ==
  ASSUME NEW L, LockOK(L), Tracks(L), NEW t \in Tasks, NEW k \in Keys, L.holder[k] = None
  PROVE  /\ SetHolder(L, t, k).holder = [L.holder EXCEPT ![k] = t]
         /\ SetHolder(L, t, k).byTask = [L.byTask EXCEPT ![t] = k]
         /\ Tracks(SetHolder(L, t, k))
         /\ Indexed(L) /\ L.byTask[t] = None => Indexed(SetHolder(L, t, k))
<1> DEFINE S == SetHolder(L, t, k)
<1>1. /\ L.holder \in [Keys -> Tasks \cup {None}] /\ L.byTask \in [Tasks -> Keys \cup {None}]
      /\ t # None /\ k # None
  BY LocksAssumption DEF LockOK, LockTables, Keys
<1>2. S.holder = [L.holder EXCEPT ![k] = t] /\ S.byTask = [L.byTask EXCEPT ![t] = k]
  BY DEF SetHolder, LockOK, LockTables
<1> HIDE DEF S
<1>3. ASSUME NEW x \in Tasks, S.byTask[x] # None
      PROVE  S.holder[S.byTask[x]] = x
  <2>1. CASE x = t
    BY <1>1, <1>2, <2>1
  <2>2. CASE x # t
    <3>1. S.byTask[x] = L.byTask[x] /\ L.byTask[x] \in Keys
      BY <1>1, <1>2, <1>3, <2>2
    <3>2. L.holder[L.byTask[x]] = x /\ L.byTask[x] # k
      BY <1>1, <1>3, <3>1, LocksAssumption DEF Tracks
    <3> QED
      BY <1>1, <1>2, <3>1, <3>2
  <2> QED
    BY <2>1, <2>2
<1>4. ASSUME Indexed(L), L.byTask[t] = None, NEW l \in Keys, S.holder[l] # None
      PROVE  S.byTask[S.holder[l]] = l
  <2>1. CASE l = k
    BY <1>1, <1>2, <2>1
  <2>2. CASE l # k
    <3>1. S.holder[l] = L.holder[l] /\ L.holder[l] \in Tasks
      BY <1>1, <1>2, <1>4, <2>2
    <3>2. L.byTask[L.holder[l]] = l /\ l # None
      BY <1>4, <3>1, LocksAssumption DEF Indexed, Keys
    <3> QED
      BY <1>1, <1>2, <1>4, <3>1, <3>2
  <2> QED
    BY <2>1, <2>2
<1> QED
  BY <1>2, <1>3, <1>4 DEF S, Tracks, Indexed

\* The entry of a key is removed.
LEMMA ClearTracks ==
  ASSUME NEW L, LockOK(L), Tracks(L), NEW k \in Keys, L.holder[k] # None,
         L.byTask[L.holder[k]] = k
  PROVE  /\ ClearHolder(L, k).holder = [L.holder EXCEPT ![k] = None]
         /\ ClearHolder(L, k).byTask = [L.byTask EXCEPT ![L.holder[k]] = None]
         /\ ClearHolder(L, k).armed = L.armed \ {k}
         /\ Tracks(ClearHolder(L, k))
         /\ Indexed(L) => Indexed(ClearHolder(L, k))
<1> DEFINE C == ClearHolder(L, k)
<1>1. /\ L.holder \in [Keys -> Tasks \cup {None}] /\ L.byTask \in [Tasks -> Keys \cup {None}]
      /\ L.holder[k] \in Tasks /\ None \notin Keys /\ None \notin Tasks
  BY LocksAssumption DEF LockOK, LockTables, Keys
<1>2. /\ C.holder = [L.holder EXCEPT ![k] = None]
      /\ C.byTask = [L.byTask EXCEPT ![L.holder[k]] = None]
      /\ C.armed = L.armed \ {k}
  BY DEF ClearHolder, LockOK, LockTables
<1> HIDE DEF C
<1>3. Tracks(C)
  BY <1>1, <1>2 DEF Tracks
<1>4. Indexed(L) => Indexed(C)
  BY <1>1, <1>2 DEF Indexed
<1> QED
  BY <1>2, <1>3, <1>4 DEF C

\* A holder that moves to another key takes its index entry along.
LEMMA ReassignTracks ==
  ASSUME NEW L, LockOK(L), Tracks(L), NEW old \in Keys, NEW new \in Keys
  PROVE  /\ Tracks(Reassign(L, old, new))
         /\ Indexed(L) => Indexed(Reassign(L, old, new))
         /\ \A x \in Tasks : x # L.holder[old] => Reassign(L, old, new).byTask[x] = L.byTask[x]
<1> DEFINE R == Reassign(L, old, new)
<1>1. CASE R = L
  BY <1>1
<1>2. CASE old # new /\ L.holder[old] # None /\ L.holder[new] = None
  <2>1. /\ L.holder \in [Keys -> Tasks \cup {None}] /\ L.byTask \in [Tasks -> Keys \cup {None}]
        /\ L.holder[old] \in Tasks /\ None \notin Keys /\ None \notin Tasks
    BY <1>2, LocksAssumption DEF LockOK, LockTables, Keys
  <2>2. /\ R.holder = [L.holder EXCEPT ![old] = None, ![new] = L.holder[old]]
        /\ R.byTask = [L.byTask EXCEPT ![L.holder[old]] = new]
    BY <1>2 DEF Reassign
  <2> HIDE DEF R
  <2>3. Tracks(R)
    BY <1>2, <2>1, <2>2 DEF Tracks
  <2>4. Indexed(L) => Indexed(R)
    BY <1>2, <2>1, <2>2 DEF Indexed
  <2>5. \A x \in Tasks : x # L.holder[old] => R.byTask[x] = L.byTask[x]
    BY <2>1, <2>2
  <2> QED
    BY <2>3, <2>4, <2>5 DEF R
<1> QED
  BY <1>1, <1>2 DEF Reassign

\* A release changes the entries of the task and of the one the key is handed to.
LEMMA ReleaseTracks ==
  ASSUME NEW L, LockOK(L), Tracks(L), NEW t \in Tasks
  PROVE  /\ Tracks(Release(L, t))
         /\ \A x \in Tasks : x # t /\ x # HandedTo(L, t) =>
              Release(L, t).byTask[x] = L.byTask[x]
         /\ t # HandedTo(L, t) => Release(L, t).byTask[t] = None
         /\ HandedTo(L, t) # None => Release(L, t).byTask[HandedTo(L, t)] = L.byTask[t]
         /\ Indexed(L) /\ (HandedTo(L, t) # None => L.byTask[HandedTo(L, t)] = None) =>
              Indexed(Release(L, t))
         /\ \A x \in Tasks : x # t /\ L.byTask[x] # None /\ L.byTask[x] \notin L.armed =>
              L.byTask[x] \notin Release(L, t).armed
<1> DEFINE k == L.byTask[t]
           C == ClearHolder(L, k)
           W == [C EXCEPT !.waiting[k] = Tail(@)]
           R == Release(L, t)
           u == HandedTo(L, t)
<1>1. /\ L.holder \in [Keys -> Tasks \cup {None}] /\ L.byTask \in [Tasks -> Keys \cup {None}]
      /\ L.armed \subseteq Keys
      /\ None \notin Keys /\ None \notin Tasks /\ k \in Keys \cup {None}
      /\ u \in Tasks \cup {None}
  BY LocksAssumption, HandedToType DEF LockOK, LockTables, Keys
<1>2. CASE k = None
  <2>1. R = L /\ u = None
    BY <1>2 DEF Release, HandedTo
  <2> QED
    BY <1>1, <1>2, <2>1
<1>3. CASE k # None
  <2>1. k \in Keys /\ L.holder[k] = t /\ L.holder[k] # None /\ L.byTask[L.holder[k]] = k
    BY <1>1, <1>3 DEF Tracks
  <2>2. /\ LockOK(C) /\ C.holder = [L.holder EXCEPT ![k] = None]
        /\ C.byTask = [L.byTask EXCEPT ![t] = None] /\ C.armed = L.armed \ {k}
        /\ Tracks(C) /\ (Indexed(L) => Indexed(C))
    BY <2>1, ClearHolderType, ClearTracks
  <2>3. \A x \in Tasks : x # t => L.byTask[x] # k
    BY <1>3, <2>1 DEF Tracks
  <2>4. CASE u = None
    <3>1. R = C
      BY <1>3, <2>4 DEF Release
    <3> HIDE DEF R, C, k, u
    <3> QED
      BY <1>1, <2>2, <2>4, <3>1 DEF R, C, k, u
  <2>5. CASE u # None
    <3>1. R = SetHolder(W, u, k) /\ u \in Tasks /\ L.waiting[k] # <<>>
      BY <1>1, <1>3, <2>5, ReleaseWaiting DEF Release
    <3>2. /\ W.holder = C.holder /\ W.byTask = C.byTask /\ W.armed = C.armed
          /\ W.waiting = [C.waiting EXCEPT ![k] = Tail(@)]
      BY <2>2 DEF LockOK, LockTables
    <3>3. LockOK(W)
      <4>1. C.waiting[k] # <<>> /\ C.waiting[k] \in Seq(Tasks)
        BY <2>1, <2>2, <3>1, HolderWaits DEF LockOK, LockTables
      <4>2. Tail(C.waiting[k]) \in Seq(Tasks)
        BY <4>1
      <4> HIDE DEF C
      <4> QED
        BY <2>1, <2>2, <4>2 DEF LockOK, LockTables, ArmedHeld
    <3>4. Tracks(W) /\ (Indexed(L) => Indexed(W)) /\ W.holder[k] = None
      BY <1>1, <2>1, <2>2, <3>2 DEF Tracks, Indexed
    <3> HIDE DEF W, R, u, k, C
    <3>5. /\ R.byTask = [W.byTask EXCEPT ![u] = k] /\ Tracks(R)
          /\ Indexed(W) /\ W.byTask[u] = None => Indexed(R)
      <4>1. u \in Tasks /\ k \in Keys /\ LockOK(W) /\ Tracks(W) /\ W.holder[k] = None
        BY <2>1, <3>1, <3>3, <3>4
      <4>2. Tracks(SetHolder(W, u, k))
        BY <4>1, TakeTracks
      <4>3. SetHolder(W, u, k).byTask = [W.byTask EXCEPT ![u] = k]
        BY <4>1 DEF SetHolder, LockOK, LockTables
      <4>4. Indexed(W) /\ W.byTask[u] = None => Indexed(SetHolder(W, u, k))
        BY <4>1, TakeTracks
      <4> QED
        BY <3>1, <4>2, <4>3, <4>4
    <3>6. R.armed \subseteq L.armed \cup {k}
      BY <2>2, <3>1, <3>2, <3>3 DEF SetHolder, LockOK, LockTables
    <3>7. \A x \in Tasks : x # t /\ L.byTask[x] # None /\ L.byTask[x] \notin L.armed =>
            L.byTask[x] \notin R.armed
      BY <2>3, <3>6
    <3>8. \A x \in Tasks : x # t /\ x # u => R.byTask[x] = L.byTask[x]
      BY <1>1, <2>2, <3>2, <3>5
    <3>9. (t # u => R.byTask[t] = None) /\ R.byTask[u] = k
      BY <1>1, <2>2, <3>1, <3>2, <3>5
    <3>10. Indexed(L) /\ L.byTask[u] = None => Indexed(R)
      BY <1>1, <2>2, <3>1, <3>2, <3>4, <3>5
    <3> QED
      BY <2>5, <3>5, <3>7, <3>8, <3>9, <3>10 DEF R, u, k
  <2> QED
    BY <2>4, <2>5
<1> QED
  BY <1>2, <1>3

------------------------------------------------------------------------------
(* Which key a settled task holds or waits for.                            *)

\* A task holds only the key its target names, and waits, for a session, only as
\* long as it holds none.
Placed(L, m) ==
  /\ Tracks(L) /\ Indexed(L) /\ WaitsOnce(L)
  /\ \A x \in Tasks : L.byTask[x] # None => m[x] # None /\ L.byTask[x] = KeyOf(x, m[x])
  /\ \A x \in Tasks, k \in Keys : IsWaiting(L, x, k) =>
       /\ m[x] # None /\ m[x].policy = "queue" /\ k = KeyOf(x, m[x]) /\ k \in Sessions
       /\ L.byTask[x] = None

RunKeys == \A i \in DOMAIN runs : runs[i].key = KeyOf(runs[i].task, mem[runs[i].task])

KeysOK == Placed(locks, mem) /\ RunKeys

KeysInv == Settled => KeysOK

LEMMA KeyFixed ==
  ASSUME NEW t, NEW new, NEW old, Fixed(new, old), old # None
  PROVE  KeyOf(t, new) = KeyOf(t, old)
BY DEF Fixed, KeyOf

LEMMA PlacedFixed ==
  ASSUME NEW L, NEW m, NEW n, Placed(L, m), \A x \in Tasks : Fixed(n[x], m[x])
  PROVE  Placed(L, n)
<1>1. \A x \in Tasks : m[x] # None =>
        n[x] # None /\ n[x].policy = m[x].policy /\ KeyOf(x, n[x]) = KeyOf(x, m[x])
  BY KeyFixed DEF Fixed
<1> QED
  BY <1>1 DEF Placed

\* Two tables with the same holders, index and queues.
LEMMA PlacedSame ==
  ASSUME NEW L, NEW M, NEW m, Placed(L, m),
         M.holder = L.holder, M.byTask = L.byTask, M.waiting = L.waiting
  PROVE  Placed(M, m)
<1>1. Tracks(M) /\ Indexed(M) /\ WaitsOnce(M)
  BY DEF Placed, Tracks, Indexed, WaitsOnce
<1>2. \A x \in Tasks, k \in Keys : IsWaiting(M, x, k) <=> IsWaiting(L, x, k)
  BY DEF IsWaiting
<1> QED
  BY <1>1, <1>2 DEF Placed

\* Who holds the key a task wants is another task, and the key a session.
LEMMA PlacedHolder ==
  ASSUME IInv, Placed(locks, mem), NEW t \in Tasks, mem[t] # None,
         locks.byTask[t] # KeyOf(t, mem[t])
  PROVE  /\ KeyOf(t, mem[t]) \in Keys /\ locks.byTask[t] = None
         /\ locks.holder[KeyOf(t, mem[t])] # None =>
              /\ KeyOf(t, mem[t]) \in Sessions
              /\ locks.holder[KeyOf(t, mem[t])] # t
              /\ locks.holder[KeyOf(t, mem[t])] \in Tasks
              /\ locks.byTask[locks.holder[KeyOf(t, mem[t])]] = KeyOf(t, mem[t])
<1> DEFINE k == KeyOf(t, mem[t])
           y == locks.holder[k]
<1>1. LockOK(locks) /\ mem \in TaskFiles
  BY Parts DEF LocksOK
<1>2. k \in Keys /\ (k \in Sessions \/ k = t)
  BY <1>1 DEF KeyOf, TaskFiles, Task, Targets, Keys
<1>3. locks.byTask[t] = None
  BY DEF Placed
<1>4. ASSUME y # None
      PROVE  y \in Tasks /\ locks.byTask[y] = k /\ y # t /\ k \in Sessions
  <2>1. y \in Tasks /\ locks.byTask[y] = k
    BY <1>1, <1>2, <1>4 DEF Placed, Indexed, LockOK, LockTables
  <2>2. k # None
    BY <1>2, LocksAssumption DEF Keys
  <2>3. mem[y] # None /\ k = KeyOf(y, mem[y])
    BY <2>1, <2>2 DEF Placed
  <2>4. k \in Sessions \/ k = y
    BY <1>1, <2>1, <2>3 DEF KeyOf, TaskFiles, Task, Targets
  <2> QED
    BY <1>2, <1>3, <2>1, <2>2, <2>4
<1> QED
  BY <1>2, <1>3, <1>4

\* A task is in the queue of its own key only.
LEMMA PlacedQueue ==
  ASSUME Placed(locks, mem), NEW t \in Tasks, ~IsWaiting(locks, t, KeyOf(t, mem[t]))
  PROVE  ~InQueue(locks, t)
BY DEF Placed, InQueue

\* An answered call: a task without a key waits for it or takes it.
LEMMA FirePlaced ==
  ASSUME IInv, ReadTasks = mem, WaitedHeld(locks), Placed(locks, mem), Served
  PROVE  Placed(locks', mem)
<1>0. PICK t \in Tasks : t = call.task
  BY FireParts
<1> DEFINE k == KeyOf(t, mem[t])
<1>1. LockOK(locks) /\ mem \in TaskFiles /\ Fresh = mem[t]
  BY <1>0, Parts DEF LocksOK, Fresh
<1>2. MayRun => mem[t] # None
  BY <1>1 DEF MayRun, Fires
<1>3. CASE UNCHANGED locks
  BY <1>3
<1>4. CASE FireQueued
  <2>1. /\ MayRun /\ locks.byTask[t] # k /\ locks.holder[k] # None
        /\ mem[t].policy = "queue" /\ locks' = Enqueue(locks, t, k)
    BY <1>0, <1>1, <1>4 DEF FireQueued, Outcome, AcquireOutcome
  <2>2. k \in Keys /\ k \in Sessions /\ locks.byTask[t] = None /\ mem[t] # None
    BY <1>2, <2>1, PlacedHolder
  <2> HIDE DEF k
  <2>3. CASE IsWaiting(locks, t, k)
    BY <2>1, <2>3 DEF Enqueue
  <2>4. CASE ~IsWaiting(locks, t, k)
    <3>1. /\ \A u \in Tasks, l \in Keys :
               IsWaiting(locks', u, l) <=> IsWaiting(locks, u, l) \/ (u = t /\ l = k)
          /\ WaitsOnce(locks')
          /\ locks'.holder = locks.holder /\ locks'.byTask = locks.byTask
      BY <1>1, <2>1, <2>2, <2>4, EnqueueWaits, PlacedQueue DEF Placed, k
    <3>2. Tracks(locks') /\ Indexed(locks')
      BY <3>1 DEF Placed, Tracks, Indexed
    <3> QED
      BY <2>1, <2>2, <3>1, <3>2 DEF Placed, k
  <2> QED
    BY <2>3, <2>4
<1>5. ASSUME NEW C, LockOK(C), Placed(C, mem), C.waiting = locks.waiting, ~InQueue(locks, t),
             k \in Keys, C.holder[k] = None, C.byTask[t] = None, mem[t] # None
      PROVE  Placed(SetHolder(C, t, k), mem)
  <2> DEFINE S == SetHolder(C, t, k)
  <2>1. Tracks(S) /\ Indexed(S) /\ S.waiting = C.waiting
    <3>1. Tracks(C) /\ Indexed(C)
      BY <1>5 DEF Placed
    <3>2. Tracks(S) /\ Indexed(S)
      BY <1>5, <3>1, TakeTracks
    <3> QED
      BY <1>5, <3>2, HolderWaits
  <2>2. S.byTask[t] = k /\ \A x \in Tasks : x # t => S.byTask[x] = C.byTask[x]
    BY <1>5 DEF SetHolder, LockOK, LockTables
  <2> HIDE DEF S
  <2>3. WaitsOnce(S) /\ \A x \in Tasks, l \in Keys : IsWaiting(S, x, l) <=> IsWaiting(C, x, l)
    BY <1>5, <2>1 DEF Placed, WaitsOnce, IsWaiting
  <2>4. \A l \in Keys : ~IsWaiting(S, t, l)
    BY <1>5, <2>1 DEF InQueue, IsWaiting
  <2> QED
    BY <1>5, <2>1, <2>2, <2>3, <2>4 DEF Placed, S
<1>6. CASE FireGranted
  <2>1. CASE Outcome = "held"
    BY <1>3, <1>6, <2>1 DEF FireGranted
  <2>2. CASE Outcome # "held"
    <3>1. /\ MayRun /\ locks.byTask[t] # k /\ locks.holder[k] = None
          /\ locks' = SetHolder(locks, t, k)
      <4>1. MayRun /\ Outcome = "free" /\ locks' = SetHolder(locks, t, k)
        BY <1>0, <1>1, <1>6, <2>2 DEF FireGranted
      <4>2. mem[t].policy # "free"
        BY <1>1, <1>2, <4>1 DEF TaskFiles, Task
      <4> QED
        BY <1>0, <1>1, <2>2, <4>1, <4>2 DEF Outcome, AcquireOutcome
    <3>2. k \in Keys /\ locks.byTask[t] = None /\ mem[t] # None
      BY <1>2, <3>1, PlacedHolder
    <3>3. ~IsWaiting(locks, t, k)
      BY <3>1, <3>2 DEF WaitedHeld, IsWaiting
    <3>4. ~InQueue(locks, t)
      BY <3>3, PlacedQueue
    <3> HIDE DEF k
    <3> QED
      BY <1>1, <1>5, <3>1, <3>2, <3>4
  <2> QED
    BY <2>1, <2>2
<1>7. CASE FirePreempts
  <2> DEFINE C == ClearHolder(locks, k)
  <2>1. /\ MayRun /\ locks.byTask[t] # k /\ locks.holder[k] # None
        /\ mem[t].policy = "preempt" /\ locks' = SetHolder(C, t, k)
    BY <1>0, <1>1, <1>7 DEF FirePreempts, Outcome, AcquireOutcome
  <2>2. /\ k \in Keys /\ locks.byTask[t] = None /\ mem[t] # None
        /\ locks.holder[k] # t /\ locks.holder[k] \in Tasks
        /\ locks.byTask[locks.holder[k]] = k
    BY <1>2, <2>1, PlacedHolder
  <2>3. ~InQueue(locks, t)
    BY <2>1 DEF Placed, InQueue
  <2> HIDE DEF k
  <2>4. LockOK(C) /\ C.waiting = locks.waiting /\ Tracks(C) /\ Indexed(C)
    BY <1>1, <2>1, <2>2, ClearHolderType, HolderWaits, ClearTracks DEF Placed
  <2>5. /\ C.holder[k] = None
        /\ \A x \in Tasks : C.byTask[x] = IF x = locks.holder[k] THEN None ELSE locks.byTask[x]
    BY <1>1, <2>1, <2>2 DEF ClearHolder, LockOK, LockTables
  <2> HIDE DEF C
  <2>6. WaitsOnce(C) /\ \A x \in Tasks, l \in Keys : IsWaiting(C, x, l) <=> IsWaiting(locks, x, l)
    BY <2>4 DEF Placed, WaitsOnce, IsWaiting
  <2>7. Placed(C, mem)
    BY <2>4, <2>5, <2>6 DEF Placed
  <2> QED
    BY <1>5, <2>1, <2>2, <2>3, <2>4, <2>5, <2>7
<1>8. CASE FireDropped \/ FireCapped \/ FireSkipped
  BY <1>3, <1>8 DEF FireDropped, FireCapped, FireSkipped
<1> QED
  BY <1>4, <1>6, <1>7, <1>8 DEF Served

\* The table a settled run is released from: that of the run, or the one in which
\* it has moved from its placeholder to the new session.
LEMMA EndTable ==
  ASSUME IInv, KeysOK, SnapsFixed, runs # <<>>, NEW s \in Sessions \cup {None},
         s \in Reported \cup {None}, ~Continued(s)
  PROVE  /\ Tracks(EndLocks(s)) /\ Indexed(EndLocks(s))
         /\ EndLocks(s).waiting = locks.waiting
         /\ \A x \in Tasks : x # Current.task => EndLocks(s).byTask[x] = locks.byTask[x]
         /\ EndLocks(s) = locks \/ HandedTo(EndLocks(s), Current.task) = None
         /\ EndLocks(s).armed \subseteq locks.armed \cup {s}
         /\ s # None => EndLocks(s) = locks \/ locks.holder[s] = None
<1>0. PICK t \in Tasks : t = Current.task
  BY CurrentType
<1>1. /\ Current = runs[1] /\ 1 \in DOMAIN runs /\ Current.key \in Keys /\ Current.snap \in Task
      /\ mem \in TaskFiles /\ LockOK(locks)
  BY CurrentType, Parts DEF LocksOK
<1>2. Fixed(Current.snap, mem[t]) /\ Current.key = KeyOf(t, mem[t])
  BY <1>0, <1>1 DEF KeysOK, RunKeys, SnapsFixed
<1>3. mem[t] \in Task /\ Current.snap.target = mem[t].target
  BY <1>1, <1>2, TaskIsSome DEF Fixed, TaskFiles
<1>4. Tracks(locks) /\ Indexed(locks)
  BY DEF KeysOK, Placed
<1>5. CASE EndLocks(s) = locks
  BY <1>4, <1>5
<1>6. CASE EndLocks(s) # locks
  <2>1. s # None /\ EndLocks(s) = Reassign(locks, Current.key, s) /\ Current.key # s
    BY <1>6 DEF EndLocks, Reassign
  <2>2. s \in Sessions /\ Current.snap.target = NewSession
    BY <1>2, <1>3, <2>1 DEF Continued, KeyOf
  <2>3. Current.key = t /\ locks.waiting[s] = <<>>
    BY <1>2, <1>3, <2>1, <2>2 DEF KeyOf, Reported
  <2>4. locks.holder[t] # None /\ locks.holder[s] = None
    BY <1>6, <2>1, <2>3 DEF Reassign
  <2>5. locks.holder[t] = t
    <3> DEFINE y == locks.holder[t]
    <3>1. y \in Tasks /\ locks.byTask[y] = t /\ t \in Keys
      BY <1>1, <1>4, <2>4 DEF Indexed, LockOK, LockTables, Keys
    <3>2. mem[y] # None /\ t = KeyOf(y, mem[y])
      BY <3>1, LocksAssumption DEF KeysOK, Placed
    <3>3. mem[y].target \in Sessions \cup {NewSession}
      BY <1>1, <3>1, <3>2 DEF TaskFiles, Task, Targets
    <3> QED
      BY <3>1, <3>2, <3>3, LocksAssumption DEF KeyOf
  <2>6. locks.waiting[t] = <<>>
    <3>1. \A x \in Tasks : ~IsWaiting(locks, x, t)
      BY LocksAssumption DEF KeysOK, Placed, Keys
    <3>2. locks.waiting[t] \in Seq(Tasks)
      BY <1>1 DEF LockOK, LockTables, Keys
    <3>3. ASSUME locks.waiting[t] # <<>>
          PROVE  FALSE
      <4>1. 1 \in DOMAIN locks.waiting[t] /\ locks.waiting[t][1] \in Tasks
        BY <3>2, <3>3
      <4> QED
        BY <3>1, <4>1 DEF IsWaiting
    <3> QED
      BY <3>3
  <2> DEFINE L == Reassign(locks, t, s)
  <2>7. EndLocks(s) = L /\ t \in Keys /\ s \in Keys /\ t # s
    BY <2>1, <2>2, <2>3 DEF Keys
  <2>8. /\ Tracks(L) /\ Indexed(L)
        /\ \A x \in Tasks : x # t => L.byTask[x] = locks.byTask[x]
    BY <1>1, <1>4, <2>5, <2>7, ReassignTracks
  <2>9. L.waiting = locks.waiting /\ L.byTask[t] = s /\ L.armed \subseteq locks.armed \cup {s}
    BY <1>1, <2>4, <2>5, <2>6, <2>7 DEF Reassign, LockOK, LockTables
  <2> HIDE DEF L
  <2>10. HandedTo(L, t) = None
    BY <2>3, <2>9 DEF HandedTo
  <2> QED
    BY <1>0, <2>4, <2>7, <2>8, <2>9, <2>10
<1> QED
  BY <1>5, <1>6

\* The released key goes to a task that held none.
LEMMA EndPlaced ==
  ASSUME IInv, KeysOK, SnapsFixed, runs # <<>>, call = None, NEW s \in Sessions \cup {None},
         s \in Reported \cup {None}, ~Continued(s), RunEnds(s)
  PROVE  /\ Placed(locks', mem)
         /\ locks'.byTask[Current.task] = None
         /\ call' # None => /\ call'.task \in Tasks /\ call'.task # Current.task
                            /\ locks.byTask[call'.task] = None
                            /\ locks'.byTask[call'.task] = locks.byTask[Current.task]
                            /\ IsWaiting(locks, call'.task, locks.byTask[Current.task])
         /\ \A x \in Tasks : x # Current.task /\ (call' = None \/ x # call'.task) =>
              locks'.byTask[x] = locks.byTask[x]
<1>0. PICK t \in Tasks : t = Current.task
  BY CurrentType
<1> DEFINE L == EndLocks(s)
           u == HandedTo(L, t)
<1>1. LockOK(L) /\ locks' = Release(L, t) /\ LockOK(locks)
  BY <1>0, RunEndsParts, Parts DEF LocksOK
<1>2. /\ Tracks(L) /\ Indexed(L) /\ L.waiting = locks.waiting
      /\ \A x \in Tasks : x # t => L.byTask[x] = locks.byTask[x]
      /\ L = locks \/ u = None
  BY <1>0, EndTable
<1>3. /\ u \in Tasks \cup {None} /\ None \notin Tasks
      /\ u = None => call' = None
      /\ u # None => call' # None /\ call'.task = u
  <2>1. \/ u = None /\ call' = None
        \/ u \in Tasks /\ call' = [task |-> u, at |-> clock, manual |-> FALSE]
    BY <1>0, RunEndsParts
  <2>2. ASSUME u \in Tasks, call' = [task |-> u, at |-> clock, manual |-> FALSE]
        PROVE  call' # None /\ call'.task = u
    <3>1. call' \in Calls
      BY <2>2, TimesAre, Parts DEF Calls
    <3> QED
      BY <2>2, <3>1, EngineAssumption
  <2> QED
    BY <2>1, <2>2, LocksAssumption
<1>5. /\ WaitsOnce(locks')
      /\ \A x \in Tasks, l \in Keys : IsWaiting(locks', x, l) => IsWaiting(L, x, l)
      /\ u # None => IsWaiting(L, u, L.byTask[t]) /\ ~InQueue(locks', u)
  <2>1. WaitsOnce(L)
    BY <1>2 DEF KeysOK, Placed, WaitsOnce
  <2> HIDE DEF L
  <2> QED
    BY <1>1, <2>1, ReleaseWaits
<1>6. ASSUME u # None
      PROVE  /\ L = locks /\ locks.byTask[t] \in Keys /\ IsWaiting(locks, u, locks.byTask[t])
             /\ locks.byTask[u] = None /\ u # t
             /\ mem[u] # None /\ locks.byTask[t] = KeyOf(u, mem[u])
  <2>1. L = locks /\ L.byTask[t] \in Keys
    BY <1>1, <1>2, <1>6, ReleaseWaiting
  <2>2. IsWaiting(locks, u, locks.byTask[t]) /\ locks.byTask[t] \in Keys /\ u \in Tasks
    BY <1>3, <1>5, <1>6, <2>1
  <2> HIDE DEF L, u
  <2>3. /\ locks.byTask[u] = None
        /\ mem[u] # None /\ locks.byTask[t] = KeyOf(u, mem[u])
    BY <2>2 DEF KeysOK, Placed
  <2>4. u # t
    BY <2>2, <2>3, LocksAssumption DEF Keys
  <2> QED
    BY <2>1, <2>2, <2>3, <2>4
<1> HIDE DEF L, u
<1>7. /\ Tracks(locks') /\ Indexed(locks')
      /\ \A x \in Tasks : x # t /\ x # u => locks'.byTask[x] = locks.byTask[x]
      /\ locks'.byTask[t] = None
      /\ u # None => locks'.byTask[u] = locks.byTask[t]
  <2>1. /\ Tracks(locks')
        /\ \A x \in Tasks : x # t /\ x # u => locks'.byTask[x] = L.byTask[x]
        /\ t # u => locks'.byTask[t] = None
        /\ u # None => locks'.byTask[u] = L.byTask[t]
        /\ Indexed(L) /\ (u # None => L.byTask[u] = None) => Indexed(locks')
    BY <1>1, <1>2, ReleaseTracks DEF u
  <2>2. t # u
    BY <1>6, LocksAssumption
  <2>3. u # None => L.byTask[u] = None
    BY <1>6
  <2> QED
    BY <1>2, <1>6, <2>1, <2>2, <2>3
<1>8. \A x \in Tasks, l \in Keys : IsWaiting(locks', x, l) => IsWaiting(locks, x, l)
  BY <1>2, <1>5 DEF IsWaiting
<1>9. Placed(locks', mem)
  <2>1. ASSUME NEW x \in Tasks, locks'.byTask[x] # None
        PROVE  mem[x] # None /\ locks'.byTask[x] = KeyOf(x, mem[x])
    <3>1. CASE x = u
      BY <1>3, <1>6, <1>7, <3>1
    <3>2. CASE x # u
      <4>1. x # t /\ locks'.byTask[x] = locks.byTask[x]
        BY <1>7, <2>1, <3>2
      <4> QED
        BY <2>1, <4>1 DEF KeysOK, Placed
    <3> QED
      BY <3>1, <3>2
  <2>2. ASSUME NEW x \in Tasks, NEW l \in Keys, IsWaiting(locks', x, l)
        PROVE  /\ mem[x] # None /\ mem[x].policy = "queue" /\ l = KeyOf(x, mem[x])
               /\ l \in Sessions /\ locks'.byTask[x] = None
    <3>1. x # u
      BY <1>3, <1>5, <2>2 DEF InQueue
    <3>2. IsWaiting(locks, x, l) /\ (x # t => locks'.byTask[x] = locks.byTask[x])
      BY <1>7, <1>8, <2>2, <3>1
    <3> QED
      BY <1>7, <3>2 DEF KeysOK, Placed
  <2> QED
    BY <1>5, <1>7, <2>1, <2>2 DEF Placed
<1> QED
  BY <1>0, <1>3, <1>6, <1>7, <1>9

\* A step, unless it is a death that loses every task.
LEMMA KeysKept ==
  ASSUME IInv, Saved, WaitedHeld(locks), SnapsInv, KeysInv, [Next]_vars, Settled',
         ~Restart(TRUE)
  PROVE  KeysOK'
<1>1. /\ used["external"] = 0 /\ SnapsFixed /\ KeysOK /\ LockOK(locks) /\ runs \in Seq(Runs)
      /\ \A kind \in {"edit", "retarget", "external", "continue"} : ~Spend(kind)
  BY SettledBack, Parts DEF SnapsInv, KeysInv, LocksOK, RunsOK
<1>2. \A x \in Tasks : Fixed(mem'[x], mem[x])
  BY TasksFixed
<1>3. Placed(locks', mem)
  <2>1. Placed(locks, mem)
    BY <1>1 DEF KeysOK
  <2>2. CASE UNCHANGED locks
    BY <2>1, <2>2
  <2>11. CASE FireEarly
    BY <2>2, <2>11, EarlyParts
  <2>3. CASE Served
    BY <1>1, <2>1, <2>3, LoadedIsMem, FirePlaced
  <2>4. CASE DispatchReturns \/ CancelledBeforeDispatch
    BY <1>1, <2>4, EndsOfRuns, EndPlaced
  <2>5. CASE \E cut \in BOOLEAN : Restart(cut)
    <3>1. locks' = Unlocked
      BY <2>5 DEF Restart
    <3> QED
      BY <3>1, LocksAssumption DEF Unlocked, Placed, Tracks, Indexed, WaitsOnce, IsWaiting
  <2>6. ASSUME NEW k \in Keys, TimeoutFires(k)
        PROVE  Placed(locks', mem)
    <3>1. /\ locks'.holder = locks.holder /\ locks'.byTask = locks.byTask
          /\ locks'.waiting = locks.waiting
      BY <1>1, <2>6 DEF TimeoutFires, LockOK, LockTables
    <3> QED
      BY <2>1, <3>1, PlacedSame
  <2>7. CASE StartDispatch \/ Tick \/ SetBack \/ Demote \/ ExternalUnlink \/ ExternalRename \/ UNCHANGED vars
    BY <2>2, <2>7 DEF StartDispatch, Tick, SetBack, Demote, ExternalUnlink, ExternalRename, vars, runVars
  <2>8. ASSUME NEW active \in BOOLEAN, Reload(active)
        PROVE  UNCHANGED locks
    BY <2>8 DEF Reload, runVars
  <2>9. ASSUME NEW t \in Tasks,
               \/ TimerFires(t) \/ RunNow(t)
               \/ \E k \in Times : StrayFires(t, k) \/ CatchUpFires(t, k)
               \/ \E ask \in {"active", "paused", "deleted"} : ExternalRead(t, ask)
        PROVE  UNCHANGED locks
    BY <2>9 DEF TimerFires, RunNow, StrayFires, CatchUpFires, ExternalRead, runVars
  <2>10. ASSUME NEW t \in Tasks,
               \/ Delete(t)
               \/ \E target \in Targets, policy \in {"skip", "queue", "preempt"} :
                    Create(t, target, policy)
               \/ \E enabled \in BOOLEAN, target \in Targets : Update(t, enabled, target)
        PROVE  FALSE
    BY <1>1, <2>10 DEF Delete, Create, Update
  <2> QED
    BY <2>2, <2>3, <2>4, <2>5, <2>6, <2>7, <2>8, <2>9, <2>10, <2>11, FireIs DEF Next
<1>4. Placed(locks', mem')
  BY <1>2, <1>3, PlacedFixed
<1>5. ASSUME NEW i \in DOMAIN runs'
      PROVE  runs'[i].key = KeyOf(runs'[i].task, mem'[runs'[i].task])
  <2>1. ASSUME NEW j \in DOMAIN runs, SameRun(runs'[i], runs[j])
        PROVE  runs'[i].key = KeyOf(runs'[i].task, mem'[runs'[i].task])
    <3>1. runs[j] \in Runs
      BY <1>1
    <3>2. runs[j].task \in Tasks /\ runs[j].snap # None
      BY <3>1, TaskIsSome DEF Runs
    <3>3. mem[runs[j].task] # None /\ runs[j].key = KeyOf(runs[j].task, mem[runs[j].task])
      BY <1>1, <3>2 DEF SnapsFixed, Fixed, KeysOK, RunKeys
    <3> QED
      BY <1>2, <2>1, <3>2, <3>3, KeyFixed DEF SameRun
  <2>2. CASE Served /\ Fires(Fresh) /\ runs'[i] = NewRun
    <3>1. call # None /\ call.task \in Tasks /\ Fresh = mem[call.task] /\ Fresh # None
      BY <1>1, <2>2, FireParts, LoadedIsMem DEF Fires
    <3> QED
      BY <1>2, <2>2, <3>1, KeyFixed DEF NewRun
  <2> QED
    BY <2>1, <2>2, RunsFrom
<1> QED
  BY <1>4, <1>5 DEF KeysOK, RunKeys

LEMMA KeysStep ==
  IInv /\ Saved /\ WaitedHeld(locks) /\ SnapsInv /\ KeysInv /\ [Next]_vars => KeysInv'
<1> SUFFICES ASSUME IInv, Saved, WaitedHeld(locks), SnapsInv, KeysInv, [Next]_vars, Settled'
             PROVE  KeysOK'
  BY DEF KeysInv
<1>1. CASE Restart(TRUE)
  <2>1. locks' = Unlocked /\ runs' = <<>>
    BY <1>1 DEF Restart
  <2>2. Placed(locks', mem')
    BY <2>1, LocksAssumption DEF Unlocked, Placed, Tracks, Indexed, WaitsOnce, IsWaiting
  <2> QED
    BY <2>1, <2>2 DEF KeysOK, RunKeys
<1> QED
  BY <1>1, KeysKept

------------------------------------------------------------------------------
(* Who holds a key, or waits for one.                                      *)

\* The task, when its turn comes, has a run.
May(t) == mem[t] # None /\ mem[t].enabled /\ ~CapReached(t, mem[t])

HeldOK ==
  /\ \A t \in Tasks : locks.byTask[t] # None =>
       InRuns(runs, t) \/ (CallFor(t) /\ call.at <= clock /\ May(t))
  /\ \A t \in Tasks : InQueue(locks, t) => May(t)

OnItsOwn == Undisturbed /\ Without({"external", "continue"})

HeldInv == OnItsOwn => HeldOK

LEMMA OnItsOwnBack ==
  ASSUME IInv, [Next]_vars, OnItsOwn'
  PROVE  /\ OnItsOwn /\ Undisturbed' /\ Undisturbed /\ Settled' /\ Settled
         /\ used["external"] = 0
<1>1. {"external", "continue"} \in SUBSET Kinds
  BY DEF Kinds
<1>2. OnItsOwn /\ Undisturbed' /\ Undisturbed
  BY <1>1, WithoutBack, UndisturbedBack DEF OnItsOwn
<1>3. Settled' /\ Settled /\ used["external"] = 0
  BY <1>2 DEF OnItsOwn, Undisturbed, Without, Settled
<1> QED
  BY <1>2, <1>3

\* An answered call leaves alone whoever is neither its task nor preempted by it.
LEMMA FireBystander ==
  ASSUME IInv, Loaded = mem, Served, NEW u \in Tasks, u # call.task,
         FirePreempts => u # locks.holder[KeyOf(call.task, Fresh)]
  PROVE  mem'[u] = mem[u]
<1>1. mem \in TaskFiles /\ call.task \in Tasks
  BY FireParts, Parts
<1>2. CASE FireDropped \/ FireQueued \/ FireGranted
  BY <1>2 DEF FireDropped, FireQueued, FireGranted
<1>3. CASE FireCapped
  BY <1>1, <1>3 DEF FireCapped, TaskFiles
<1>4. CASE FireSkipped
  BY <1>1, <1>4 DEF FireSkipped, TaskFiles
<1>5. CASE FirePreempts
  <2> DEFINE old == locks.holder[KeyOf(call.task, Fresh)]
  <2>1. old \in Tasks
    BY <1>5, MayRunType, PreemptedHolds DEF FirePreempts, MayRun, Outcome
  <2>2. mem' = TimedOut(mem, old)
    BY <1>5 DEF FirePreempts
  <2> QED
    BY <1>1, <1>5, <2>1, <2>2, TimedOutTask
<1> QED
  BY <1>2, <1>3, <1>4, <1>5 DEF Served

\* An answered call gives a key only to its own task, together with a run, and
\* takes one only from the task it preempts.
LEMMA FireTable ==
  ASSUME IInv, Loaded = mem, Placed(locks, mem), Served, NEW t \in Tasks, t = call.task
  PROVE  /\ \/ InRuns(runs', t)
            \/ UNCHANGED runs /\ locks'.byTask = locks.byTask
         /\ \A u \in Tasks : u # t =>
              locks'.byTask[u] = IF FirePreempts /\ u = locks.holder[KeyOf(t, Fresh)]
                                 THEN None ELSE locks.byTask[u]
         /\ \A u \in Tasks : InRuns(runs, u) => InRuns(runs', u)
<1> DEFINE k == KeyOf(t, Fresh)
           old == locks.holder[k]
<1>1. LockOK(locks) /\ runs \in Seq(Runs)
  BY Parts DEF LocksOK, RunsOK
<1>2. CASE FireDropped \/ FireCapped \/ FireSkipped
  BY <1>2 DEF FireDropped, FireCapped, FireSkipped, FirePreempts, MayRun
<1>3. CASE FireQueued
  <2>1. UNCHANGED runs /\ locks'.byTask = locks.byTask /\ ~FirePreempts
    BY <1>1, <1>3 DEF FireQueued, FirePreempts, Enqueue, LockOK, LockTables
  <2> QED
    BY <2>1
<1>4. CASE FireGranted \/ FirePreempts
  <2>1. Answered /\ Fires(Fresh)
    BY <1>4 DEF FireGranted, FirePreempts, MayRun
  <2>2. \A u : InRuns(runs', u) <=> InRuns(runs, u) \/ u = t
    BY <1>4, GivenRun
  <2>3. k \in Keys
    BY <2>1, MayRunType
  <2>4. CASE FireGranted /\ ~FirePreempts
    <3>1. \A u \in Tasks : u # t => locks'.byTask[u] = locks.byTask[u]
      BY <1>1, <2>3, <2>4 DEF FireGranted, SetHolder, LockOK, LockTables
    <3> QED
      BY <2>2, <2>4, <3>1
  <2>5. CASE FirePreempts
    <3>1. /\ locks' = SetHolder(ClearHolder(locks, k), t, k) /\ old \in Tasks
      BY <2>1, <2>5, MayRunType, PreemptedHolds DEF FirePreempts, Outcome
    <3>2. \A u \in Tasks : u # t =>
            locks'.byTask[u] = IF u = old THEN None ELSE locks.byTask[u]
      <4>1. old # None
        BY <3>1, LocksAssumption
      <4> QED
        BY <1>1, <2>3, <3>1, <4>1 DEF SetHolder, ClearHolder, LockOK, LockTables
    <3> QED
      BY <2>2, <2>5, <3>2
  <2> QED
    BY <1>4, <2>4, <2>5
<1> QED
  BY <1>2, <1>3, <1>4 DEF Served

LEMMA FireHeld ==
  ASSUME IInv, Alone, ReadTasks = mem, Loaded = mem, Placed(locks, mem), HeldOK, Served
  PROVE  HeldOK'
<1>0. PICK t \in Tasks : t = call.task
  BY FireParts
<1> DEFINE k == KeyOf(t, mem[t])
           old == locks.holder[k]
<1>1. /\ call # None /\ Fresh = mem[t] /\ LockOK(locks) /\ ~call.manual
      /\ CallFor(t) /\ ~InRuns(runs, t) /\ ~InQueue(locks, t)
  BY <1>0, FireParts, Parts DEF Alone, OnSchedule, OnePlace, CallFor, Fresh, LocksOK
<1>2. /\ \/ InRuns(runs', t)
         \/ UNCHANGED runs /\ locks'.byTask = locks.byTask
      /\ \A u \in Tasks : u # t =>
           locks'.byTask[u] = IF FirePreempts /\ u = old THEN None ELSE locks.byTask[u]
      /\ \A u \in Tasks : InRuns(runs, u) => InRuns(runs', u)
  BY <1>0, <1>1, FireTable
<1>3. FirePreempts => k \in Keys /\ old \in Tasks /\ locks.byTask[old] # None
  <2>1. ASSUME FirePreempts
        PROVE  k \in Keys /\ old \in Tasks
    BY <1>0, <1>1, <2>1, MayRunType, PreemptedHolds DEF FirePreempts, MayRun, Outcome
  <2> QED
    BY <2>1, LocksAssumption DEF Placed, Indexed, Keys
<1>4. \A u \in Tasks : u # t /\ locks.byTask[u] = None => mem'[u] = mem[u]
  BY <1>0, <1>1, <1>3, FireBystander
<1>5. ASSUME NEW u \in Tasks, locks'.byTask[u] # None
      PROVE  InRuns(runs', u)
  <2>1. CASE u # t
    BY <1>0, <1>2, <1>5, <2>1 DEF HeldOK, CallFor
  <2>2. CASE u = t
    <3>1. CASE locks'.byTask = locks.byTask /\ ~InRuns(runs', t)
      <4>1. locks.byTask[t] # None /\ May(t) /\ locks.byTask[t] = k
        BY <1>1, <1>5, <2>2, <3>1 DEF HeldOK, Placed
      <4>2. ~FireDropped /\ ~FireCapped
        BY <1>0, <1>1, <4>1 DEF May, FireDropped, FireCapped, Fires
      <4>3. ~FireSkipped /\ ~FireQueued
        BY <1>0, <1>1, <4>1 DEF FireSkipped, FireQueued, Outcome, AcquireOutcome
      <4>4. FireGranted \/ FirePreempts
        BY <4>2, <4>3 DEF Served
      <4> QED
        BY <1>0, <3>1, <4>4, GivenRun
    <3> QED
      BY <1>2, <2>2, <3>1
  <2> QED
    BY <2>1, <2>2
<1>6. ASSUME NEW u \in Tasks, InQueue(locks', u)
      PROVE  May(u)'
  <2>1. CASE InQueue(locks, u)
    <3>1. May(u) /\ u # t /\ locks.byTask[u] = None
      BY <1>1, <2>1 DEF HeldOK, Placed, InQueue
    <3> QED
      BY <1>4, <3>1 DEF May, CapReached
  <2>2. CASE ~InQueue(locks, u)
    <3>1. FireQueued /\ u = t
      <4>1. CASE locks'.waiting = locks.waiting
        BY <1>6, <2>2, <4>1 DEF InQueue, IsWaiting
      <4>2. CASE FireQueued
        <5>1. k \in Keys /\ locks' = Enqueue(locks, t, k)
          BY <1>0, <1>1, <4>2, MayRunType DEF FireQueued, MayRun
        <5>2. ~IsWaiting(locks, t, k)
          BY <1>1, <5>1 DEF InQueue
        <5>3. \A v \in Tasks, l \in Keys :
                IsWaiting(locks', v, l) <=> IsWaiting(locks, v, l) \/ (v = t /\ l = k)
          <6> HIDE DEF k
          <6> QED
            BY <1>1, <5>1, <5>2, EnqueueWaits DEF Alone
        <5> QED
          BY <1>6, <2>2, <4>2, <5>3 DEF InQueue
      <4>3. FireQueued \/ locks'.waiting = locks.waiting
        <5>1. FireGranted \/ FirePreempts => locks'.waiting = locks.waiting
          <6>1. CASE FireGranted
            BY <1>1, <6>1, HolderWaits DEF FireGranted
          <6>2. CASE FirePreempts
            <7>1. LockOK(ClearHolder(locks, k)) /\ ClearHolder(locks, k).waiting = locks.waiting
              BY <1>1, <1>3, <6>2, ClearHolderType, HolderWaits
            <7> QED
              BY <1>0, <1>1, <6>2, <7>1, HolderWaits DEF FirePreempts
          <6> QED
            BY <6>1, <6>2
        <5> QED
          BY <5>1 DEF Served, FireDropped, FireCapped, FireSkipped
      <4> QED
        BY <4>1, <4>2, <4>3
    <3>2. mem' = mem /\ May(t)
      BY <1>0, <1>1, <3>1 DEF FireQueued, MayRun, Fires, May
    <3> QED
      BY <3>1, <3>2 DEF May, CapReached
  <2> QED
    BY <2>1, <2>2
<1> QED
  BY <1>5, <1>6 DEF HeldOK

LEMMA EndHeld ==
  ASSUME IInv, Alone, KeysOK, SnapsFixed, HeldOK, runs # <<>>, call = None,
         NEW s \in Sessions \cup {None}, s \in Reported \cup {None}, ~Continued(s), RunEnds(s)
  PROVE  HeldOK'
<1>0. PICK t \in Tasks : t = Current.task
  BY CurrentType
<1>1. /\ locks'.byTask[t] = None
      /\ call' # None => /\ call'.task \in Tasks /\ call'.task # t
                         /\ InQueue(locks, call'.task)
      /\ \A u \in Tasks : u # t /\ (call' = None \/ u # call'.task) =>
           locks'.byTask[u] = locks.byTask[u]
  BY <1>0, EndPlaced, RunEndsWaits DEF Alone
<1>2. /\ runs' = Tail(runs) /\ InRuns(runs, t)
      /\ \A u \in Tasks : InRuns(runs, u) /\ u # t => InRuns(runs', u)
  BY <1>0, CurrentType, TailRuns, RunEndsParts DEF InRuns
<1>3. \A u \in Tasks : u # t => mem'[u] = mem[u]
  BY <1>0, RunEndsTask
<1>4. \A u \in Tasks : u # t /\ May(u) => May(u)'
  BY <1>3 DEF May, CapReached
<1>5. \A u \in Tasks : InQueue(locks, u) => May(u)' /\ u # t
  BY <1>2, <1>4 DEF HeldOK, Alone, OnePlace
<1>6. \A u \in Tasks : InQueue(locks', u) => InQueue(locks, u)
  BY RunEndsWaits DEF Alone
<1>7. ASSUME NEW u \in Tasks, locks'.byTask[u] # None
      PROVE  InRuns(runs', u) \/ (CallFor(u) /\ call.at <= clock /\ May(u))'
  <2>1. CASE call' # None /\ u = call'.task
    <3>1. call'.at = clock /\ clock' = clock /\ clock \in Nat
      BY <2>1, RunEndsParts, TimesAre, Parts DEF RunEnds, FireTask
    <3> QED
      BY <1>1, <1>5, <2>1, <3>1 DEF CallFor
  <2>2. CASE ~(call' # None /\ u = call'.task)
    <3>1. u # t /\ locks.byTask[u] # None
      BY <1>1, <1>7, <2>2
    <3> QED
      BY <1>2, <3>1 DEF HeldOK, CallFor
  <2> QED
    BY <2>1, <2>2
<1> QED
  BY <1>5, <1>6, <1>7 DEF HeldOK

LEMMA HeldStep ==
  IInv /\ AloneInv /\ Saved /\ SnapsInv /\ KeysInv /\ HeldInv /\ [Next]_vars => HeldInv'
<1> SUFFICES ASSUME IInv, AloneInv, Saved, SnapsInv, KeysInv, HeldInv, [Next]_vars, OnItsOwn'
             PROVE  HeldOK'
  BY DEF HeldInv
<1>1. /\ Alone /\ SnapsFixed /\ KeysOK /\ HeldOK /\ Undisturbed' /\ LockOK(locks)
      /\ mem \in TaskFiles
      /\ ReadTasks = mem /\ (call # None => Loaded = mem) /\ ~Spend("continue")
  BY OnItsOwnBack, SettledBack, LoadedIsMem, Parts
     DEF AloneInv, SnapsInv, KeysInv, HeldInv, LocksOK
<1>2. CASE Served
  BY <1>1, <1>2, FireParts, FireHeld DEF KeysOK
<1>9. CASE FireEarly
  <2>1. call # None /\ ~(call.at <= clock) /\ UNCHANGED <<mem, locks, runs>>
    <3>1. call.at \in Nat /\ clock \in Nat
      BY <1>9, EarlyParts, FreshType, TimesAre, FresherTypes DEF IInv
    <3> QED
      BY <1>9, <3>1, EarlyParts
  <2> QED
    BY <1>1, <2>1 DEF HeldOK, May, CapReached
<1>3. CASE DispatchReturns \/ CancelledBeforeDispatch
  BY <1>1, <1>3, EndsOfRuns, EndHeld
<1>4. ASSUME UNCHANGED mem, locks'.byTask = locks.byTask, locks'.waiting = locks.waiting,
             \A u \in Tasks : InRuns(runs, u) => InRuns(runs', u),
             UNCHANGED <<call, clock>> \/ call = None
      PROVE  HeldOK'
  <2>1. \A u \in Tasks : InQueue(locks', u) => InQueue(locks, u)
    BY <1>4 DEF InQueue, IsWaiting
  <2> QED
    BY <1>1, <1>4, <2>1 DEF HeldOK, CallFor, May, CapReached
<1>5. CASE Tick \/ SetBack \/ Demote \/ ExternalUnlink \/ ExternalRename \/ UNCHANGED vars
  BY <1>4, <1>5 DEF Tick, SetBack, Demote, ExternalUnlink, ExternalRename, vars, runVars
<1>6. CASE StartDispatch
  <2>1. UNCHANGED <<mem, locks, call, clock>>
    BY <1>6 DEF StartDispatch
  <2> QED
    BY <1>4, <1>6, <2>1, StartSame, SameRunsOnce
<1>7. ASSUME NEW t \in Tasks,
             \/ TimerFires(t)
             \/ \E k \in Times : StrayFires(t, k) \/ CatchUpFires(t, k)
             \/ \E ask \in {"active", "paused", "deleted"} : ExternalRead(t, ask)
      PROVE  HeldOK'
  BY <1>4, <1>7 DEF TimerFires, StrayFires, CatchUpFires, ExternalRead, Quiet, runVars
<1>8. ASSUME NEW k \in Keys, TimeoutFires(k)
      PROVE  HeldOK'
  <2>1. PICK h \in Tasks : h = locks.holder[k]
    BY <1>1, <1>8 DEF TimeoutFires, LockOK, LockTables, ArmedHeld
  <2>2. locks.byTask[h] # None
    BY <1>1, <2>1, LocksAssumption DEF KeysOK, Placed, Indexed, Keys
  <2>3. /\ mem' = TimedOut(mem, h) /\ runs' = Abort(mem, h) /\ call = None /\ call' = None
        /\ locks' = [locks EXCEPT !.armed = @ \ {k}]
    BY <1>8, <2>1 DEF TimeoutFires, Quiet
  <2>4. locks'.byTask = locks.byTask /\ locks'.waiting = locks.waiting
    BY <1>1, <2>3 DEF LockOK, LockTables
  <2>5. \A u \in Tasks : InRuns(runs', u) <=> InRuns(runs, u)
    BY <2>3, AbortSame, SameRunsOnce
  <2>6. ASSUME NEW u \in Tasks, InQueue(locks', u)
        PROVE  May(u)'
    <3>1. May(u) /\ u # h
      BY <1>1, <2>2, <2>4, <2>6 DEF HeldOK, KeysOK, Placed, InQueue, IsWaiting
    <3>2. mem'[u] = mem[u]
      BY <1>1, <2>3, <3>1, TimedOutTask
    <3> QED
      BY <3>1, <3>2 DEF May, CapReached
  <2> QED
    BY <1>1, <2>3, <2>4, <2>5, <2>6 DEF HeldOK, CallFor
<1> QED
  BY <1>1, <1>2, <1>3, <1>5, <1>6, <1>7, <1>8, <1>9, FireIs, UndisturbedSteps

LEMMA HeldInit ==
  Init => /\ AloneInv /\ Saved /\ WaitedHeld(locks) /\ SnapsInv /\ KeysInv /\ HeldInv
<1> SUFFICES ASSUME Init
             PROVE  AloneInv /\ Saved /\ WaitedHeld(locks) /\ SnapsInv /\ KeysInv /\ HeldInv
  OBVIOUS
<1>1. runs = <<>> /\ locks = Unlocked
  BY DEF Init
<1>2. Saved /\ SnapsInv /\ RunKeys
  BY <1>1 DEF Init, Saved, SnapsInv, SnapsFixed, RunKeys
<1>3. Placed(locks, mem) /\ HeldOK /\ WaitedHeld(locks)
  BY <1>1, LocksAssumption
     DEF Unlocked, Placed, Tracks, Indexed, WaitsOnce, IsWaiting, InQueue, HeldOK, WaitedHeld
<1> QED
  BY <1>2, <1>3, AloneInit DEF AloneInv, KeysInv, KeysOK, HeldInv

\* A held key belongs to a task with a run on that key, or to the one the lock was
\* just handed to (locks.ts:10-13).
THEOREM HeldForItsRun == Spec => []LockHeldOnlyForRun
<1>1. IInv /\ KeysInv /\ HeldInv => LockHeldOnlyForRun
  <2> SUFFICES ASSUME IInv, KeysInv, HeldInv, OnItsOwn, NEW k \in Keys, locks.holder[k] # None
               PROVE  \/ \E i \in RunsOf(locks.holder[k]) : runs[i].key = k
                      \/ CallFor(locks.holder[k])
    BY DEF LockHeldOnlyForRun, OnItsOwn
  <2>1. Settled
    BY DEF OnItsOwn, Undisturbed, Without, Settled
  <2>2. KeysOK /\ HeldOK
    BY <2>1 DEF KeysInv, HeldInv
  <2>3. PICK h \in Tasks : h = locks.holder[k]
    BY Parts DEF LocksOK, LockOK, LockTables
  <2>4. locks.byTask[h] = k /\ k # None
    BY <2>2, <2>3, LocksAssumption DEF KeysOK, Placed, Indexed, Keys
  <2>5. k = KeyOf(h, mem[h])
    BY <2>2, <2>4 DEF KeysOK, Placed
  <2> QED
    BY <2>2, <2>3, <2>4, <2>5 DEF HeldOK, InRuns, RunsOf, KeysOK, RunKeys
<1> QED
  BY <1>1, HeldInit, InitType, StepType, AloneStep, SavedStep, WaitedHeldStep, SnapsStep,
     KeysStep, HeldStep, PTL DEF Spec

------------------------------------------------------------------------------
(* Without preemption no two runs are on one session.                      *)

\* No task comes to have a policy it did not have.
SamePolicy(new, old) == old # None => new # None /\ new.policy = old.policy

LEMMA EndPolicy ==
  ASSUME IInv, \A t \in Tasks : CountedAll(t), runs # <<>>, NEW s \in Sessions \cup {None},
         RunEnds(s), NEW u \in Tasks
  PROVE  SamePolicy(mem'[u], mem[u])
<1>0. PICK t \in Tasks : t = Current.task
  BY CurrentType
<1>1. /\ mem \in TaskFiles /\ Current.at \in Times /\ Current.snap \in Task
      /\ Current = runs[1] /\ 1 \in DOMAIN runs
  BY CurrentType, Parts
<1>2. CASE u # t
  BY <1>0, <1>2, RunEndsTask DEF SamePolicy
<1>3. CASE u = t /\ mem[t] # None
  <2> DEFINE m == AfterRow(s)
  <2>1. m \in TaskFiles /\ WindUp(m, t) /\ mem[t] \in Task
    BY <1>0, <1>1, <1>3, AfterRowType DEF RunEnds, TaskFiles
  <2>2. m[t] \in Task /\ m[t].policy = mem[t].policy
    <3>1. CASE t \in recorded
      BY <1>0, <2>1, <3>1 DEF AfterRow
    <3>2. CASE t \notin recorded
      <4>1. m[t] = Counted(Pinned(s), Current.at) /\ Current.snap = mem[t]
        BY <1>0, <1>1, <3>2 DEF AfterRow, TaskFiles, CountedAll, FreshRun
      <4>2. Pinned(s) \in Task /\ Pinned(s).policy = mem[t].policy
        <5>1. s # None => s \in Targets
          BY DEF Targets
        <5> QED
          BY <1>1, <4>1, <5>1 DEF Pinned, Task
      <4>3. Counted(Pinned(s), Current.at) \in Task
        BY <1>1, <4>2, CountedType
      <4>4. Counted(Pinned(s), Current.at).policy = Pinned(s).policy
        BY <4>2 DEF Counted, Task
      <4> QED
        BY <4>1, <4>2, <4>3, <4>4
    <3> QED
      BY <3>1, <3>2
  <2> HIDE DEF m
  <2>3. mem' = m \/ mem' = [m EXCEPT ![t] = [m[t] EXCEPT !.enabled = FALSE]]
    <3>1. m[t] # None
      BY <2>2, TaskIsSome
    <3> QED
      BY <2>1, <3>1 DEF WindUp, GoesOn
  <2>4. mem'[t] = m[t] \/ mem'[t] = [m[t] EXCEPT !.enabled = FALSE]
    BY <2>1, <2>3 DEF TaskFiles
  <2>5. mem'[t].policy = mem[t].policy
    BY <2>2, <2>4 DEF Task
  <2> QED
    BY <1>0, <1>3, <2>5, RunEndsTask DEF SamePolicy
<1> QED
  BY <1>2, <1>3 DEF SamePolicy

LEMMA PolicyStays ==
  ASSUME IInv, Saved, CountedInv, [Next]_vars, ByItself', NEW u \in Tasks
  PROVE  SamePolicy(mem'[u], mem[u])
<1>1. /\ Undisturbed' /\ used["external"] = 0 /\ mem \in TaskFiles
      /\ \A t \in Tasks : CountedAll(t)
  BY ByItselfBack, Parts DEF CountedInv
<1>2. UNCHANGED mem => SamePolicy(mem'[u], mem[u])
  BY DEF SamePolicy
<1>8. CASE FireEarly
  BY <1>2, <1>8, EarlyParts
<1>3. CASE Served
  BY <1>1, <1>3, FireParts, LoadedIsMem, FireFixed DEF Fixed, SamePolicy
<1>4. CASE DispatchReturns \/ CancelledBeforeDispatch
  BY <1>1, <1>4, EndsOfRuns, EndPolicy
<1>5. CASE StartDispatch \/ Demote \/ Tick \/ SetBack \/ ExternalUnlink \/ ExternalRename \/ UNCHANGED vars
  BY <1>2, <1>5 DEF StartDispatch, Demote, Tick, SetBack, ExternalUnlink, ExternalRename, vars
<1>6. ASSUME NEW k \in Keys, TimeoutFires(k)
      PROVE  SamePolicy(mem'[u], mem[u])
  <2>1. locks.holder[k] \in Tasks
    BY <1>6, Parts DEF TimeoutFires, LocksOK, LockOK, LockTables, ArmedHeld
  <2> QED
    BY <1>1, <1>6, <2>1, TimedOutAged DEF TimeoutFires, Aged, SamePolicy
<1>7. ASSUME NEW t \in Tasks,
             \/ TimerFires(t)
             \/ \E k \in Times : StrayFires(t, k) \/ CatchUpFires(t, k)
             \/ \E ask \in {"active", "paused", "deleted"} : ExternalRead(t, ask)
      PROVE  UNCHANGED mem
  BY <1>7 DEF TimerFires, StrayFires, CatchUpFires, ExternalRead
<1> QED
  BY <1>1, <1>2, <1>3, <1>4, <1>5, <1>6, <1>7, <1>8, FireIs, UndisturbedSteps

\* Each run is on the key that the locks have its task under.
OnKeys == \A i \in DOMAIN runs : locks.byTask[runs[i].task] = runs[i].key

Peaceful == ByItself /\ NoPolicy("preempt")

OnKeysInv == Peaceful => Tracks(locks) /\ OnKeys

LEMMA PeacefulBack ==
  ASSUME IInv, Saved, CountedInv, [Next]_vars, Peaceful'
  PROVE  /\ Peaceful /\ ByItself' /\ Undisturbed' /\ Undisturbed /\ used["external"] = 0
         /\ ~FirePreempts
<1>1. ByItself' /\ ByItself /\ Undisturbed /\ Undisturbed' /\ used["external"] = 0
  BY ByItselfBack DEF Peaceful
<1>2. \A t \in Tasks : SamePolicy(mem'[t], mem[t])
  BY <1>1, PolicyStays
<1>3. NoPolicy("preempt")
  BY <1>2 DEF Peaceful, NoPolicy, SamePolicy
<1>4. ASSUME FirePreempts
      PROVE  FALSE
  <2>1. call.task \in Tasks /\ Fresh = mem[call.task] /\ Fresh # None
    BY <1>1, <1>4, LoadedIsMem, MayRunType DEF FirePreempts, MayRun, Fires
  <2>2. Fresh.policy = "preempt"
    BY <1>4 DEF FirePreempts, Outcome, AcquireOutcome
  <2> QED
    BY <1>3, <2>1, <2>2 DEF NoPolicy
<1> QED
  BY <1>1, <1>3, <1>4 DEF Peaceful

\* A step that moves no key and no run.
LEMMA OnKeysSame ==
  ASSUME OnKeys, SameRuns(runs'), locks'.byTask = locks.byTask
  PROVE  OnKeys'
BY DEF OnKeys, SameRuns, SameRun

LEMMA FireOnKeys ==
  ASSUME IInv, Alone, Tracks(locks), OnKeys, Served, ~FirePreempts
  PROVE  Tracks(locks)' /\ OnKeys'
<1>0. PICK t \in Tasks : t = call.task
  BY FireParts
<1>1. /\ LockOK(locks) /\ runs \in Seq(Runs) /\ call # None
      /\ ~InRuns(runs, t) /\ SameRuns(runs)
  BY <1>0, FireParts, Parts
     DEF Alone, OnePlace, CallFor, LocksOK, RunsOK, SameRuns, SameRun
<1>2. CASE FireDropped \/ FireCapped \/ FireSkipped
  BY <1>2 DEF FireDropped, FireCapped, FireSkipped, OnKeys
<1>3. CASE FireQueued
  <2>1. /\ UNCHANGED runs /\ locks'.byTask = locks.byTask /\ locks'.holder = locks.holder
    BY <1>1, <1>3 DEF FireQueued, Enqueue, LockOK, LockTables
  <2> QED
    BY <2>1 DEF OnKeys, Tracks
<1>4. CASE FireGranted
  <2> DEFINE k == KeyOf(t, Fresh)
  <2>1. /\ Answered /\ Fires(Fresh) /\ k \in Keys /\ Fresh \in Task
        /\ runs' = Append(runs, NewRun)
    BY <1>0, <1>4, MayRunType DEF FireGranted, MayRun
  <2>2. /\ DOMAIN runs' = DOMAIN runs \cup {Len(runs) + 1}
        /\ \A i \in DOMAIN runs : runs'[i] = runs[i]
        /\ runs'[Len(runs) + 1] = NewRun
    BY <1>1, <2>1, AppendRuns
  <2>3. /\ Tracks(locks') /\ locks'.byTask[t] = k
        /\ \A u \in Tasks : u # t => locks'.byTask[u] = locks.byTask[u]
    <3>1. CASE Outcome = "held"
      BY <1>0, <1>4, <2>1, <3>1 DEF FireGranted, Outcome, AcquireOutcome, Task
    <3>2. CASE Outcome # "held"
      <4>1. locks' = SetHolder(locks, t, k) /\ Outcome = "free"
        BY <1>0, <1>4, <3>2 DEF FireGranted
      <4>2. locks.holder[k] = None
        BY <1>0, <2>1, <4>1 DEF Outcome, AcquireOutcome, Task
      <4>3. locks'.byTask = [locks.byTask EXCEPT ![t] = k]
        BY <1>1, <2>1, <4>1 DEF SetHolder, LockOK, LockTables
      <4>4. Tracks(locks')
        <5> HIDE DEF k
        <5> QED
          BY <1>1, <2>1, <4>1, <4>2, TakeTracks
      <4> QED
        BY <1>1, <4>3, <4>4 DEF LockOK, LockTables
    <3> QED
      BY <3>1, <3>2
  <2>4. ASSUME NEW i \in DOMAIN runs
        PROVE  locks'.byTask[runs[i].task] = runs[i].key
    <3>1. runs[i] \in Runs
      BY <1>1
    <3>2. runs[i].task \in Tasks /\ runs[i].task # t
      BY <1>1, <3>1 DEF Runs, InRuns
    <3> QED
      BY <2>3, <3>2 DEF OnKeys
  <2>5. NewRun.task = t /\ NewRun.key = k
    BY <1>0 DEF NewRun
  <2> HIDE DEF k
  <2> QED
    BY <2>2, <2>3, <2>4, <2>5 DEF OnKeys
<1> QED
  BY <1>2, <1>3, <1>4 DEF Served

LEMMA EndOnKeys ==
  ASSUME IInv, Alone, Tracks(locks), OnKeys, runs # <<>>, call = None,
         NEW s \in Sessions \cup {None}, RunEnds(s)
  PROVE  Tracks(locks)' /\ OnKeys'
<1>0. PICK t \in Tasks : t = Current.task
  BY CurrentType
<1> DEFINE L == EndLocks(s)
           u == HandedTo(L, t)
<1>1. /\ LockOK(L) /\ locks' = Release(L, t) /\ runs' = Tail(runs)
      /\ Current = runs[1] /\ 1 \in DOMAIN runs /\ Current.key \in Keys
      /\ runs \in Seq(Runs) /\ LockOK(locks)
  BY <1>0, CurrentType, RunEndsParts, Parts DEF RunsOK, LocksOK
<1>2. locks.byTask[t] = Current.key /\ locks.holder[Current.key] = t
  BY <1>0, <1>1, LocksAssumption DEF OnKeys, Tracks, Keys
<1>3. Tracks(L) /\ \A x \in Tasks : x # t => L.byTask[x] = locks.byTask[x]
  <2>1. CASE s = None
    BY <2>1 DEF EndLocks
  <2>2. CASE s # None
    BY <1>1, <1>2, <2>2, ReassignTracks DEF EndLocks, Keys
  <2> QED
    BY <2>1, <2>2
<1>4. ASSUME u # None
      PROVE  u \in Tasks /\ ~InRuns(runs, u)
  <2>1. call'.task = u /\ u \in Tasks /\ call' # None
    <3>1. /\ u \in Tasks /\ call' = [task |-> u, at |-> clock, manual |-> FALSE]
      BY <1>0, <1>4, RunEndsParts
    <3>2. call' \in Calls
      BY <3>1, TimesAre, Parts DEF Calls
    <3> QED
      BY <3>1, <3>2, EngineAssumption
  <2>2. InQueue(locks, u)
    BY <2>1, RunEndsWaits DEF Alone
  <2> HIDE DEF u
  <2> QED
    BY <2>1, <2>2 DEF Alone, OnePlace
<1> HIDE DEF L, u
<1>5. Tracks(locks') /\ \A x \in Tasks : x # t /\ x # u => locks'.byTask[x] = locks.byTask[x]
  <2>1. /\ Tracks(Release(L, t))
        /\ \A x \in Tasks : x # t /\ x # HandedTo(L, t) => Release(L, t).byTask[x] = L.byTask[x]
    BY <1>1, <1>3, ReleaseTracks
  <2> QED
    BY <1>1, <1>3, <2>1 DEF u
<1>6. ASSUME NEW i \in DOMAIN runs'
      PROVE  locks'.byTask[runs'[i].task] = runs'[i].key
  <2>1. /\ i + 1 \in DOMAIN runs /\ runs'[i] = runs[i + 1] /\ ~InRuns(runs', t)
    BY <1>0, <1>1, <1>6, TailRuns DEF Alone
  <2>2. runs[i + 1] \in Runs
    BY <1>1, <2>1
  <2>3. runs'[i].task \in Tasks /\ InRuns(runs, runs'[i].task) /\ runs'[i].task # t
    BY <1>6, <2>1, <2>2 DEF Runs, InRuns
  <2>4. runs'[i].task # u
    BY <1>4, <2>3, LocksAssumption
  <2> QED
    BY <1>5, <2>1, <2>3, <2>4 DEF OnKeys
<1> QED
  BY <1>5, <1>6 DEF OnKeys

LEMMA OnKeysStep ==
  IInv /\ AloneInv /\ Saved /\ CountedInv /\ OnKeysInv /\ [Next]_vars => OnKeysInv'
<1> SUFFICES ASSUME IInv, AloneInv, Saved, CountedInv, OnKeysInv, [Next]_vars, Peaceful'
             PROVE  Tracks(locks)' /\ OnKeys'
  BY DEF OnKeysInv
<1>1. /\ Alone /\ Tracks(locks) /\ OnKeys /\ Undisturbed' /\ ~FirePreempts /\ LockOK(locks)
  BY PeacefulBack, Parts DEF AloneInv, OnKeysInv, LocksOK
<1>2. ASSUME locks'.byTask = locks.byTask, locks'.holder = locks.holder, SameRuns(runs')
      PROVE  Tracks(locks)' /\ OnKeys'
  BY <1>1, <1>2, OnKeysSame DEF Tracks
<1>3. UNCHANGED runs => SameRuns(runs')
  BY DEF SameRuns, SameRun
<1>10. CASE FireEarly
  BY <1>2, <1>3, <1>10, EarlyParts
<1>4. CASE Served
  BY <1>1, <1>4, FireOnKeys
<1>5. CASE DispatchReturns \/ CancelledBeforeDispatch
  BY <1>1, <1>5, EndsOfRuns, EndOnKeys
<1>6. CASE StartDispatch
  <2>1. UNCHANGED locks
    BY <1>6 DEF StartDispatch
  <2> QED
    BY <1>2, <1>6, <2>1, StartSame
<1>7. CASE Demote \/ Tick \/ SetBack \/ ExternalUnlink \/ ExternalRename \/ UNCHANGED vars
  BY <1>2, <1>3, <1>7 DEF Demote, Tick, SetBack, ExternalUnlink, ExternalRename, vars, runVars
<1>8. ASSUME NEW t \in Tasks,
             \/ TimerFires(t)
             \/ \E k \in Times : StrayFires(t, k) \/ CatchUpFires(t, k)
             \/ \E ask \in {"active", "paused", "deleted"} : ExternalRead(t, ask)
      PROVE  UNCHANGED <<locks, runs>>
  BY <1>8 DEF TimerFires, StrayFires, CatchUpFires, ExternalRead, runVars
<1>9. ASSUME NEW k \in Keys, TimeoutFires(k)
      PROVE  Tracks(locks)' /\ OnKeys'
  <2>1. locks.holder[k] \in Tasks
    BY <1>1, <1>9 DEF TimeoutFires, LockOK, LockTables, ArmedHeld
  <2>2. SameRuns(runs')
    BY <1>9, <2>1, AbortSame DEF TimeoutFires
  <2>3. locks'.byTask = locks.byTask /\ locks'.holder = locks.holder
    BY <1>1, <1>9 DEF TimeoutFires, LockOK, LockTables
  <2> QED
    BY <1>2, <2>2, <2>3
<1> QED
  BY <1>1, <1>2, <1>3, <1>4, <1>5, <1>6, <1>7, <1>8, <1>9, <1>10, FireIs, UndisturbedSteps

\* Runs on the same key are of the task that holds it, which has one.
LEMMA OnKeysExclude ==
  ASSUME IInv, AloneInv, OnKeysInv
  PROVE  SessionExclusive
<1> SUFFICES ASSUME Peaceful, NEW i \in DOMAIN runs, NEW j \in DOMAIN runs,
                    runs[i].key = runs[j].key
             PROVE  i = j
  BY DEF SessionExclusive, Peaceful, ByItself
<1>1. Alone /\ Tracks(locks) /\ OnKeys
  BY DEF Peaceful, ByItself, AloneInv, OnKeysInv
<1>2. runs[i] \in Runs /\ runs[j] \in Runs
  BY Parts DEF RunsOK
<1>3. runs[i].task \in Tasks /\ runs[j].task \in Tasks /\ runs[i].key # None
  BY <1>2, LocksAssumption DEF Runs, Keys
<1>4. runs[i].task = runs[j].task
  BY <1>1, <1>3 DEF Tracks, OnKeys
<1> QED
  BY <1>1, <1>4 DEF Alone, RunsOnce

LEMMA OnKeysInit == Init => AloneInv /\ Saved /\ CountedInv /\ OnKeysInv
<1>1. Init => Saved /\ Tracks(locks) /\ OnKeys
  BY DEF Init, Saved, Tracks, OnKeys, Unlocked
<1> QED
  BY <1>1, AloneInit, CountedInit DEF AloneInv, CountedInv, OnKeysInv

\* Two acquired runs are never on the same session, unless the second preempted
\* the first (engine.ts:623-626).
THEOREM OneRunPerSession == Spec => []SessionExclusive
BY OnKeysInit, OnKeysExclude, InitType, StepType, AloneStep, SavedStep, CountedStep,
   OnKeysStep, PTL DEF Spec

------------------------------------------------------------------------------
(* Only its own turn is aborted for a task.                                *)

OneKey == \A t, u \in Tasks : mem[t] # None /\ mem[u] # None
                                => KeyOf(t, mem[t]) = KeyOf(u, mem[u])

Shared == OnItsOwn /\ NoPolicy("preempt") /\ OneKey

OwnAborts == \A i \in DOMAIN runs : runs[i].abortedFor \in {None, runs[i].task}

OwnInv == Shared => OwnAborts

LEMMA SharedBack ==
  ASSUME IInv, Saved, SnapsInv, [Next]_vars, Shared'
  PROVE  Shared /\ OnItsOwn'
<1>1. OnItsOwn /\ Settled' /\ ~Restart(TRUE)
  <2>1. used'["cut"] = 0
    BY DEF Shared, OnItsOwn, Undisturbed, Without
  <2> QED
    BY <2>1, OnItsOwnBack, Happened DEF Shared, Restart, Kinds
<1>2. \A t \in Tasks : Fixed(mem'[t], mem[t])
  BY <1>1, TasksFixed
<1>3. \A t \in Tasks : mem[t] # None =>
        mem'[t] # None /\ mem'[t].policy = mem[t].policy /\ KeyOf(t, mem'[t]) = KeyOf(t, mem[t])
  BY <1>2, KeyFixed DEF Fixed
<1> QED
  BY <1>1, <1>3 DEF Shared, NoPolicy, OneKey

\* The task whose timeout fires has the run whose dispatch is under way.
LEMMA TimesOutFirst ==
  ASSUME IInv, KeysOK, SnapsFixed, HeldOK, SessionExclusive, Shared, NEW k \in Keys,
         TimeoutFires(k), runs # <<>>
  PROVE  locks.holder[k] = Current.task
<1>1. PICK h \in Tasks : h = locks.holder[k]
  BY Parts DEF TimeoutFires, LocksOK, LockOK, LockTables, ArmedHeld
<1>2. locks.byTask[h] # None
  BY <1>1, LocksAssumption DEF KeysOK, Placed, Indexed, Keys
<1>3. PICK j \in DOMAIN runs : runs[j].task = h
  BY <1>2 DEF HeldOK, CallFor, TimeoutFires, Quiet, InRuns
<1>4. Current = runs[1] /\ 1 \in DOMAIN runs /\ Current.task \in Tasks
  BY CurrentType
<1>5. \A i \in DOMAIN runs : mem[runs[i].task] # None
  <2>1. \A i \in DOMAIN runs : runs[i].snap # None
    <3>1. \A i \in DOMAIN runs : runs[i] \in Runs
      BY Parts DEF RunsOK
    <3> QED
      BY <3>1, TaskIsSome DEF Runs
  <2> QED
    BY <2>1 DEF SnapsFixed, Fixed
<1>6. runs[j].key = runs[1].key
  BY <1>3, <1>4, <1>5 DEF KeysOK, RunKeys, Shared, OneKey
<1>7. j = 1
  <2>1. Undisturbed /\ Without({"external"}) /\ NoPolicy("preempt")
    BY DEF Shared, OnItsOwn, Without
  <2> QED
    BY <1>4, <1>6, <2>1 DEF SessionExclusive
<1> QED
  BY <1>1, <1>3, <1>4, <1>7

LEMMA OwnStep ==
  /\ IInv /\ AloneInv /\ Saved /\ CountedInv /\ OnKeysInv /\ SnapsInv /\ KeysInv /\ HeldInv
  /\ OwnInv /\ [Next]_vars
  => OwnInv'
<1> SUFFICES ASSUME IInv, AloneInv, Saved, CountedInv, OnKeysInv, SnapsInv, KeysInv, HeldInv,
                    OwnInv, [Next]_vars, Shared', NEW i \in DOMAIN runs'
             PROVE  runs'[i].abortedFor \in {None, runs'[i].task}
  BY DEF OwnInv, OwnAborts
<1>1. /\ Shared /\ OwnAborts /\ Undisturbed' /\ SnapsFixed /\ KeysOK /\ HeldOK
      /\ SessionExclusive /\ ~FirePreempts /\ runs \in Seq(Runs)
  <2>1. Shared /\ OnItsOwn' /\ OnItsOwn /\ Settled /\ Undisturbed'
    BY SharedBack, OnItsOwnBack
  <2>2. Peaceful'
    BY <2>1 DEF Shared, OnItsOwn, Peaceful, ByItself, Without
  <2> QED
    BY <2>1, <2>2, PeacefulBack, OnKeysExclude, Parts
       DEF OwnInv, SnapsInv, KeysInv, HeldInv, Shared, RunsOK
<1>2. CASE UNCHANGED runs
  BY <1>1, <1>2 DEF OwnAborts
<1>3. CASE Fire
  <2>1. CASE FireGranted
    <3>1. /\ DOMAIN runs' = DOMAIN runs \cup {Len(runs) + 1}
          /\ \A j \in DOMAIN runs : runs'[j] = runs[j]
          /\ runs'[Len(runs) + 1] = NewRun
      <4>1. Answered /\ Fires(Fresh) /\ runs' = Append(runs, NewRun) /\ SameRuns(runs)
        BY <2>1 DEF FireGranted, MayRun, SameRuns, SameRun
      <4> QED
        BY <1>1, <4>1, AppendRuns
    <3>2. NewRun.abortedFor = None
      BY DEF NewRun
    <3> QED
      BY <1>1, <3>1, <3>2 DEF OwnAborts
  <2>2. CASE FireEarly \/ FireDropped \/ FireCapped \/ FireSkipped \/ FireQueued
    BY <1>2, <2>2 DEF FireEarly, FireDropped, FireCapped, FireSkipped, FireQueued
  <2> QED
    BY <1>1, <1>3, <2>1, <2>2 DEF Fire
<1>4. CASE DispatchReturns \/ CancelledBeforeDispatch
  <2>1. runs # <<>> /\ runs' = Tail(runs)
    BY <1>4, EndsOfRuns DEF RunEnds
  <2>2. i + 1 \in DOMAIN runs /\ runs'[i] = runs[i + 1]
    BY <2>1, TailRuns
  <2> QED
    BY <1>1, <2>2 DEF OwnAborts
<1>5. CASE StartDispatch
  <2>1. /\ runs' = [runs EXCEPT ![1].started = TRUE]
        /\ \A j \in DOMAIN runs : runs[j] \in Runs
    BY <1>1, <1>5 DEF StartDispatch
  <2>2. /\ i \in DOMAIN runs /\ runs'[i].task = runs[i].task
        /\ runs'[i].abortedFor = runs[i].abortedFor
    BY <2>1 DEF Runs
  <2> QED
    BY <1>1, <2>2 DEF OwnAborts
<1>6. ASSUME NEW k \in Keys, TimeoutFires(k)
      PROVE  runs'[i].abortedFor \in {None, runs'[i].task}
  <2>1. PICK h \in Tasks : h = locks.holder[k]
    BY <1>6, Parts DEF TimeoutFires, LocksOK, LockOK, LockTables, ArmedHeld
  <2>2. runs' = Abort(mem, h)
    BY <1>6, <2>1 DEF TimeoutFires
  <2>3. CASE Abort(mem, h) = runs
    BY <1>2, <2>2, <2>3
  <2>4. CASE runs # <<>> /\ Abort(mem, h) = [runs EXCEPT ![1].abortedFor = h]
    <3>1. runs[1].task = h /\ 1 \in DOMAIN runs /\ \A j \in DOMAIN runs : runs[j] \in Runs
      BY <1>1, <1>6, <2>1, <2>4, TimesOutFirst, CurrentType
    <3>2. /\ i \in DOMAIN runs /\ runs'[i].task = runs[i].task
          /\ runs'[i].abortedFor = IF i = 1 THEN h ELSE runs[i].abortedFor
      BY <2>2, <2>4, <3>1 DEF Runs
    <3> QED
      BY <1>1, <3>1, <3>2 DEF OwnAborts
  <2>5. \/ Abort(mem, h) = runs
        \/ runs # <<>> /\ Abort(mem, h) = [runs EXCEPT ![1].abortedFor = h]
    <3>1. CASE mem[h] = None \/ runs = <<>>
      BY <3>1 DEF Abort
    <3>2. CASE mem[h] # None /\ runs # <<>>
      <4>1. 1 \in DOMAIN runs /\ \A j \in DOMAIN runs : runs[j] \in Runs
        BY <1>1, <3>2
      <4>2. ~runs[1].started => Abort(mem, h) = runs
        BY <1>1, <3>2, <4>1 DEF Abort, Runs
      <4>3. runs[1].started => Abort(mem, h) = [runs EXCEPT ![1].abortedFor = h]
        BY <3>2 DEF Abort
      <4> QED
        BY <3>2, <4>2, <4>3
    <3> QED
      BY <3>1, <3>2
  <2> QED
    BY <2>3, <2>4, <2>5
<1>7. ASSUME NEW t \in Tasks,
             \/ TimerFires(t)
             \/ \E k \in Times : StrayFires(t, k) \/ CatchUpFires(t, k)
             \/ \E ask \in {"active", "paused", "deleted"} : ExternalRead(t, ask)
      PROVE  UNCHANGED runs
  BY <1>7 DEF TimerFires, StrayFires, CatchUpFires, ExternalRead, runVars
<1>8. CASE Demote \/ Tick \/ SetBack \/ ExternalUnlink \/ ExternalRename \/ UNCHANGED vars
  BY <1>2, <1>8 DEF Demote, Tick, SetBack, ExternalUnlink, ExternalRename, vars, runVars
<1> QED
  BY <1>1, <1>2, <1>3, <1>4, <1>5, <1>6, <1>7, <1>8, UndisturbedSteps

\* Only its own turn is aborted for a task (engine.ts:194-198), if every task runs in
\* the same session and none preempts.
THEOREM AbortsItsTurn == Spec => []AbortsOwnTurn
<1>1. Init => OwnInv
  BY DEF Init, OwnInv, OwnAborts
<1>2. OwnInv => AbortsOwnTurn
  BY DEF OwnInv, Shared, OnItsOwn, OneKey, OwnAborts, AbortsOwnTurn
<1> QED
  BY <1>1, <1>2, HeldInit, OnKeysInit, InitType, StepType, AloneStep, SavedStep, WaitedHeldStep,
     SnapsStep, KeysStep, HeldStep, CountedStep, OnKeysStep, OwnStep, PTL DEF Spec

------------------------------------------------------------------------------
(* Each run gets one row.                                                  *)

Rows == \A t \in Tasks : surplus[t] = IF t \in recorded THEN 1 ELSE 0

\* The end of a run adds its row, or finds it written.
LEMMA EndRows ==
  ASSUME IInv, SnapsFixed, Rows, runs # <<>>, NEW s \in Sessions \cup {None}, RunEnds(s)
  PROVE  Rows' /\ recorded' = recorded \ {Current.task}
<1>0. PICK t \in Tasks : t = Current.task
  BY CurrentType
<1>1. /\ Current = runs[1] /\ 1 \in DOMAIN runs /\ Current.at \in Times /\ Current.snap \in Task
      /\ mem \in TaskFiles /\ surplus \in [Tasks -> Int]
  BY CurrentType DEF IInv, TypeOK
<1>2. mem[t] # None
  BY <1>0, <1>1, TaskIsSome DEF SnapsFixed, Fixed
<1>3. AfterRow(s)[t] # None
  <2>1. CASE t \in recorded
    BY <1>0, <1>2, <2>1 DEF AfterRow
  <2>2. CASE t \notin recorded
    <3>1. AfterRow(s)[t] = Counted(Pinned(s), Current.at)
      BY <1>0, <1>1, <2>2 DEF AfterRow, TaskFiles
    <3>2. Pinned(s) \in Task
      <4>1. s # None => s \in Targets
        BY DEF Targets
      <4> QED
        BY <1>1, <4>1 DEF Pinned, Task
    <3> QED
      BY <1>1, <3>1, <3>2, TaskIsSome
  <2> QED
    BY <2>1, <2>2
<1>4. /\ recorded' = recorded \ {t}
      /\ surplus' = [surplus EXCEPT ![t] = @ + (IF t \in recorded THEN 0 ELSE 1) - 1]
  <2>1. /\ recorded' = recorded \ {Current.task}
        /\ surplus' = [surplus EXCEPT ![Current.task] =
                         @ + ((IF Current.task \in recorded THEN 0 ELSE 1)
                               + (IF AfterRow(s)[Current.task] = None THEN 1 ELSE 0)) - 1]
    BY DEF RunEnds
  <2> HIDE DEF AfterRow
  <2> QED
    BY <1>0, <1>1, <1>3, <2>1
<1>5. ASSUME NEW u \in Tasks
      PROVE  surplus'[u] = IF u \in recorded' THEN 1 ELSE 0
  <2>1. surplus[u] = IF u \in recorded THEN 1 ELSE 0
    BY DEF Rows
  <2>2. CASE u = t
    <3>1. surplus'[u] = surplus[u] + (IF u \in recorded THEN 0 ELSE 1) - 1
      BY <1>1, <1>4, <2>2
    <3> QED
      BY <1>4, <2>1, <2>2, <3>1
  <2>3. CASE u # t
    BY <1>1, <1>4, <2>1, <2>3
  <2> QED
    BY <2>2, <2>3
<1> QED
  BY <1>0, <1>4, <1>5 DEF Rows

\* A timeout writes a row of a task that has none.
LEMMA MarkRows ==
  ASSUME IInv, Rows, NEW m, NEW t \in Tasks, m[t] # None, t \notin recorded,
         recorded' = Marked(m, t), surplus' = [surplus EXCEPT ![t] = @ + Row(m, t)]
  PROVE  Rows' /\ recorded' = recorded \cup {t}
<1>1. surplus \in [Tasks -> Int]
  BY DEF IInv, TypeOK
<1>2. recorded' = recorded \cup {t} /\ surplus' = [surplus EXCEPT ![t] = @ + 1]
  BY DEF Marked, Row
<1> QED
  BY <1>1, <1>2 DEF Rows

\* Steps that write no row.
LEMMA RowsSame ==
  ASSUME Rows, UNCHANGED <<surplus, recorded>>
  PROVE  Rows'
BY DEF Rows

------------------------------------------------------------------------------
(* Without preemption: a task with a row holds a key whose timeout is over. *)

TimedOutHold == \A t \in recorded : locks.byTask[t] # None /\ locks.byTask[t] \notin locks.armed

Unmoved == Settled /\ NoPolicy("preempt")

UnmovedInv == Unmoved => Rows /\ TimedOutHold

LEMMA UnmovedBack ==
  ASSUME IInv, Saved, SnapsInv, [Next]_vars, Unmoved', ~Restart(TRUE)
  PROVE  Unmoved /\ Settled' /\ ~FirePreempts
<1>1. Settled' /\ Settled /\ used["external"] = 0
  BY SettledBack DEF Unmoved
<1>2. \A t \in Tasks : Fixed(mem'[t], mem[t])
  BY <1>1, TasksFixed
<1>3. NoPolicy("preempt")
  BY <1>2 DEF Unmoved, NoPolicy, Fixed
<1>4. ASSUME FirePreempts
      PROVE  FALSE
  <2>1. call.task \in Tasks /\ Fresh = mem[call.task] /\ Fresh # None
    BY <1>1, <1>4, LoadedIsMem, MayRunType DEF FirePreempts, MayRun, Fires
  <2>2. Fresh.policy = "preempt"
    BY <1>4 DEF FirePreempts, Outcome, AcquireOutcome
  <2> QED
    BY <1>3, <2>1, <2>2 DEF NoPolicy
<1> QED
  BY <1>1, <1>3, <1>4 DEF Unmoved

LEMMA FireTimedOut ==
  ASSUME IInv, ReadTasks = mem, Placed(locks, mem), TimedOutHold, Served, ~FirePreempts
  PROVE  UNCHANGED <<surplus, recorded>> /\ TimedOutHold'
<1>0. PICK t \in Tasks : t = call.task
  BY FireParts
<1>1. LockOK(locks) /\ Fresh = mem[t] /\ recorded \subseteq Tasks
  BY <1>0 DEF IInv, TypeOK, LocksOK, LockOK, Fresh
<1>2. UNCHANGED <<surplus, recorded>>
  BY DEF Served, FireDropped, FireCapped, FireSkipped, FireQueued, FireGranted, histVars
<1>3. CASE locks'.byTask = locks.byTask /\ locks'.armed = locks.armed
  BY <1>2, <1>3 DEF TimedOutHold
<1>4. CASE FireQueued
  BY <1>1, <1>3, <1>4 DEF FireQueued, Enqueue, LockOK, LockTables
<1>5. CASE FireGranted /\ Outcome # "held"
  <2> DEFINE k == KeyOf(t, mem[t])
  <2>1. Answered /\ Fires(Fresh) /\ k \in Keys /\ mem[t] \in Task
    BY <1>0, <1>1, <1>5, MayRunType DEF FireGranted, MayRun
  <2>2. Outcome = "free" /\ locks' = SetHolder(locks, t, k)
    BY <1>0, <1>1, <1>5 DEF FireGranted
  <2>3. locks.holder[k] = None /\ locks.byTask[t] # k
    BY <1>0, <1>1, <2>1, <2>2 DEF Outcome, AcquireOutcome, Task
  <2>4. locks'.byTask = [locks.byTask EXCEPT ![t] = k] /\ locks'.armed \subseteq locks.armed \cup {k}
    BY <1>1, <2>1, <2>2 DEF SetHolder, LockOK, LockTables
  <2>5. ASSUME NEW u \in recorded
        PROVE  u # t /\ locks.byTask[u] # k
    <3>1. u \in Tasks /\ locks.byTask[u] # None
      BY <1>1, <2>5 DEF TimedOutHold
    <3>2. u # t
      BY <2>3, <3>1 DEF Placed
    <3>3. locks.holder[locks.byTask[u]] = u
      BY <3>1 DEF Placed, Tracks
    <3> QED
      BY <2>3, <3>1, <3>2, <3>3, LocksAssumption
  <2> HIDE DEF k
  <2>6. \A u \in recorded : locks'.byTask[u] = locks.byTask[u]
    BY <1>1, <2>4, <2>5 DEF LockOK, LockTables
  <2> QED
    BY <1>2, <2>4, <2>5, <2>6 DEF TimedOutHold
<1>6. CASE FireDropped \/ FireCapped \/ FireSkipped \/ (FireGranted /\ Outcome = "held")
  BY <1>3, <1>6 DEF FireDropped, FireCapped, FireSkipped, FireGranted
<1> QED
  BY <1>2, <1>4, <1>5, <1>6 DEF Served

LEMMA EndTimedOut ==
  ASSUME IInv, KeysOK, SnapsFixed, TimedOutHold, runs # <<>>, call = None,
         NEW s \in Sessions \cup {None}, s \in Reported \cup {None}, ~Continued(s), RunEnds(s),
         recorded' = recorded \ {Current.task}
  PROVE  TimedOutHold'
<1>0. PICK t \in Tasks : t = Current.task
  BY CurrentType
<1> DEFINE L == EndLocks(s)
<1>1. /\ LockOK(L) /\ locks' = Release(L, t) /\ recorded \subseteq Tasks
  BY <1>0, RunEndsParts DEF IInv, TypeOK
<1>2. /\ Tracks(L)
      /\ \A x \in Tasks : x # t => L.byTask[x] = locks.byTask[x]
      /\ L.armed \subseteq locks.armed \cup {s}
      /\ s # None => L = locks \/ locks.holder[s] = None
      /\ s = None => L = locks
  BY <1>0, EndTable DEF EndLocks
<1>3. \A x \in Tasks : x # t /\ L.byTask[x] # None /\ L.byTask[x] \notin L.armed =>
        L.byTask[x] \notin locks'.armed
  BY <1>1, <1>2, ReleaseTracks
<1> HIDE DEF L
<1>4. ASSUME NEW x \in recorded'
      PROVE  locks'.byTask[x] # None /\ locks'.byTask[x] \notin locks'.armed
  <2>1. x \in Tasks /\ x # t /\ locks.byTask[x] # None /\ locks.byTask[x] \notin locks.armed
    BY <1>0, <1>1, <1>4 DEF TimedOutHold
  <2>2. locks'.byTask[x] = locks.byTask[x]
    BY <1>0, <2>1, EndPlaced
  <2>3. locks.holder[locks.byTask[x]] = x
    BY <2>1 DEF KeysOK, Placed, Tracks
  <2>4. L.byTask[x] \notin L.armed /\ L.byTask[x] # None
    BY <1>2, <2>1, <2>3, LocksAssumption
  <2> QED
    BY <1>2, <1>3, <2>1, <2>2, <2>4
<1> QED
  BY <1>4 DEF TimedOutHold

\* A step, unless it is a death that loses every task.
LEMMA UnmovedKept ==
  ASSUME IInv, Saved, SnapsInv, KeysInv, UnmovedInv, [Next]_vars, Unmoved', ~Restart(TRUE)
  PROVE  Rows' /\ TimedOutHold'
<1>1. /\ ~FirePreempts /\ Rows /\ TimedOutHold /\ SnapsFixed /\ KeysOK /\ LockOK(locks)
      /\ ReadTasks = mem
      /\ \A kind \in {"edit", "retarget", "external", "continue"} : ~Spend(kind)
  BY UnmovedBack, SettledBack, LoadedIsMem, Parts
     DEF UnmovedInv, SnapsInv, KeysInv, Unmoved, LocksOK
<1>2. ASSUME UNCHANGED <<surplus, recorded, locks>>
      PROVE  Rows' /\ TimedOutHold'
  BY <1>1, <1>2, RowsSame DEF TimedOutHold
<1>11. CASE FireEarly
  BY <1>2, <1>11, EarlyParts
<1>3. CASE Served
  BY <1>1, <1>3, FireTimedOut, RowsSame DEF KeysOK
<1>4. CASE DispatchReturns \/ CancelledBeforeDispatch
  BY <1>1, <1>4, EndsOfRuns, EndRows, EndTimedOut
<1>5. CASE \E cut \in BOOLEAN : Restart(cut)
  BY <1>5 DEF Restart, Rows, TimedOutHold
<1>6. ASSUME NEW k \in Keys, TimeoutFires(k)
      PROVE  Rows' /\ TimedOutHold'
  <2>1. PICK h \in Tasks : h = locks.holder[k]
    BY <1>1, <1>6 DEF TimeoutFires, LockOK, LockTables, ArmedHeld
  <2>2. locks.byTask[h] = k /\ k # None
    BY <1>1, <2>1, LocksAssumption DEF KeysOK, Placed, Indexed, Keys
  <2>3. mem[h] # None /\ h \notin recorded
    BY <1>1, <1>6, <2>2 DEF KeysOK, Placed, TimedOutHold, TimeoutFires
  <2>4. Rows' /\ recorded' = recorded \cup {h}
    BY <1>1, <1>6, <2>1, <2>3, MarkRows DEF TimeoutFires
  <2>5. locks'.byTask = locks.byTask /\ locks'.armed = locks.armed \ {k}
    BY <1>1, <1>6 DEF TimeoutFires, LockOK, LockTables
  <2> QED
    BY <1>1, <2>2, <2>4, <2>5 DEF TimedOutHold
<1>7. CASE StartDispatch \/ Tick \/ SetBack \/ Demote \/ ExternalUnlink \/ ExternalRename \/ UNCHANGED vars
  BY <1>2, <1>7
     DEF StartDispatch, Tick, SetBack, Demote, ExternalUnlink, ExternalRename, vars, runVars, histVars
<1>8. ASSUME NEW active \in BOOLEAN, Reload(active)
      PROVE  Rows' /\ TimedOutHold'
  BY <1>2, <1>8 DEF Reload, runVars, histVars
<1>9. ASSUME NEW t \in Tasks,
             \/ TimerFires(t) \/ RunNow(t)
             \/ \E k \in Times : StrayFires(t, k) \/ CatchUpFires(t, k)
             \/ \E ask \in {"active", "paused", "deleted"} : ExternalRead(t, ask)
      PROVE  Rows' /\ TimedOutHold'
  BY <1>2, <1>9
     DEF TimerFires, RunNow, StrayFires, CatchUpFires, ExternalRead, runVars, histVars
<1>10. ASSUME NEW t \in Tasks,
             \/ Delete(t)
             \/ \E target \in Targets, policy \in {"skip", "queue", "preempt"} :
                  Create(t, target, policy)
             \/ \E enabled \in BOOLEAN, target \in Targets : Update(t, enabled, target)
      PROVE  FALSE
  BY <1>1, <1>10 DEF Delete, Create, Update
<1> QED
  BY <1>2, <1>3, <1>4, <1>5, <1>6, <1>7, <1>8, <1>9, <1>10, <1>11, FireIs DEF Next

LEMMA UnmovedStep ==
  IInv /\ Saved /\ SnapsInv /\ KeysInv /\ UnmovedInv /\ [Next]_vars => UnmovedInv'
<1> SUFFICES ASSUME IInv, Saved, SnapsInv, KeysInv, UnmovedInv, [Next]_vars, Unmoved'
             PROVE  Rows' /\ TimedOutHold'
  BY DEF UnmovedInv
<1>1. CASE Restart(TRUE)
  BY <1>1 DEF Restart, Rows, TimedOutHold
<1> QED
  BY <1>1, UnmovedKept

------------------------------------------------------------------------------
(* With preemption, on schedule: a task with a row has lost its key and still *)
(* has its run.                                                            *)

PreemptedRuns == \A t \in recorded : locks.byTask[t] = None /\ InRuns(runs, t)

Unhurried == OnItsOwn /\ Without({"timeout"})

UnhurriedInv == Unhurried => Rows /\ PreemptedRuns

LEMMA UnhurriedBack ==
  ASSUME IInv, [Next]_vars, Unhurried'
  PROVE  Unhurried /\ OnItsOwn' /\ ~Spend("timeout")
<1>1. {"timeout"} \in SUBSET Kinds
  BY DEF Kinds
<1>2. ~Spend("timeout")
  BY <1>1, Happened DEF Unhurried, Without
<1> QED
  BY <1>1, <1>2, OnItsOwnBack, WithoutBack DEF Unhurried

LEMMA FirePreempted ==
  ASSUME IInv, Alone, ReadTasks = mem, Loaded = mem, KeysOK, HeldOK, Rows, PreemptedRuns, Served
  PROVE  Rows' /\ PreemptedRuns'
<1>0. PICK t \in Tasks : t = call.task
  BY FireParts
<1> DEFINE k == KeyOf(t, mem[t])
           old == locks.holder[k]
<1>1. /\ call # None /\ Fresh = mem[t] /\ LockOK(locks) /\ recorded \subseteq Tasks
      /\ ~InRuns(runs, t) /\ t \notin recorded /\ Placed(locks, mem)
  BY <1>0, FireParts
     DEF Alone, OnePlace, CallFor, Fresh, PreemptedRuns, KeysOK, IInv, TypeOK, LockOK
<1>2. /\ \A u \in Tasks : u # t =>
           locks'.byTask[u] = IF FirePreempts /\ u = old THEN None ELSE locks.byTask[u]
      /\ \A u \in Tasks : InRuns(runs, u) => InRuns(runs', u)
  BY <1>0, <1>1, FireTable
<1>3. CASE ~FirePreempts
  <2>1. UNCHANGED <<surplus, recorded>>
    BY <1>3 DEF Served, FireDropped, FireCapped, FireSkipped, FireQueued, FireGranted, histVars
  <2> QED
    BY <1>1, <1>2, <1>3, <2>1, RowsSame DEF PreemptedRuns
<1>4. CASE FirePreempts
  <2>1. k \in Keys /\ old \in Tasks /\ locks.byTask[t] # k
    BY <1>0, <1>1, <1>4, MayRunType, PreemptedHolds
       DEF FirePreempts, MayRun, Outcome, AcquireOutcome
  <2>2. locks.byTask[old] = k /\ k # None /\ old # t
    BY <1>1, <2>1, LocksAssumption DEF Placed, Indexed, Keys
  <2>3. mem[old] # None /\ old \notin recorded /\ InRuns(runs, old)
    BY <1>0, <1>1, <2>1, <2>2 DEF Placed, PreemptedRuns, HeldOK, CallFor
  <2>4. recorded' = Marked(mem, old) /\ surplus' = [surplus EXCEPT ![old] = @ + Row(mem, old)]
    BY <1>0, <1>1, <1>4 DEF FirePreempts
  <2>5. Rows' /\ recorded' = recorded \cup {old}
    BY <2>1, <2>3, <2>4, MarkRows
  <2> QED
    BY <1>1, <1>2, <1>4, <2>1, <2>2, <2>3, <2>5 DEF PreemptedRuns
<1> QED
  BY <1>3, <1>4

LEMMA EndPreempted ==
  ASSUME IInv, Alone, KeysOK, SnapsFixed, PreemptedRuns, runs # <<>>, call = None,
         NEW s \in Sessions \cup {None}, s \in Reported \cup {None}, ~Continued(s), RunEnds(s),
         recorded' = recorded \ {Current.task}
  PROVE  PreemptedRuns'
<1>1. recorded \subseteq Tasks
  BY DEF IInv, TypeOK
<1>2. ASSUME NEW x \in recorded'
      PROVE  locks'.byTask[x] = None /\ InRuns(runs', x)
  <2>1. x \in Tasks /\ x # Current.task /\ locks.byTask[x] = None /\ InRuns(runs, x)
    BY <1>1, <1>2 DEF PreemptedRuns
  <2>2. InRuns(runs', x)
    BY <2>1, TailRuns, RunEndsParts
  <2>3. call' = None \/ x # call'.task
    BY <2>1, RunEndsWaits DEF Alone, OnePlace
  <2> QED
    BY <2>1, <2>2, <2>3, EndPlaced
<1> QED
  BY <1>2 DEF PreemptedRuns

LEMMA UnhurriedStep ==
  /\ IInv /\ AloneInv /\ Saved /\ SnapsInv /\ KeysInv /\ HeldInv /\ UnhurriedInv /\ [Next]_vars
  => UnhurriedInv'
<1> SUFFICES ASSUME IInv, AloneInv, Saved, SnapsInv, KeysInv, HeldInv, UnhurriedInv,
                    [Next]_vars, Unhurried'
             PROVE  Rows' /\ PreemptedRuns'
  BY DEF UnhurriedInv
<1>1. /\ Alone /\ Rows /\ PreemptedRuns /\ SnapsFixed /\ KeysOK /\ HeldOK /\ Undisturbed'
      /\ ReadTasks = mem /\ (call # None => Loaded = mem)
      /\ ~Spend("timeout") /\ ~Spend("continue")
  <2>1. OnItsOwn' /\ Unhurried /\ ~Spend("timeout")
    BY UnhurriedBack
  <2> QED
    BY <2>1, OnItsOwnBack, SettledBack, LoadedIsMem
       DEF AloneInv, UnhurriedInv, SnapsInv, KeysInv, HeldInv
<1>2. CASE Served
  BY <1>1, <1>2, FireParts, FirePreempted
<1>3. CASE DispatchReturns \/ CancelledBeforeDispatch
  BY <1>1, <1>3, EndsOfRuns, EndRows, EndPreempted
<1>4. ASSUME UNCHANGED <<surplus, recorded, locks>>,
             \A u \in Tasks : InRuns(runs, u) => InRuns(runs', u)
      PROVE  Rows' /\ PreemptedRuns'
  <2>1. recorded \subseteq Tasks
    BY DEF IInv, TypeOK
  <2> QED
    BY <1>1, <1>4, <2>1, RowsSame DEF PreemptedRuns
<1>9. CASE FireEarly
  BY <1>4, <1>9, EarlyParts
<1>5. CASE StartDispatch
  <2>1. UNCHANGED <<surplus, recorded, locks>>
    BY <1>5 DEF StartDispatch
  <2> QED
    BY <1>4, <1>5, <2>1, StartSame, SameRunsOnce
<1>6. CASE Tick \/ SetBack \/ Demote \/ ExternalUnlink \/ ExternalRename \/ UNCHANGED vars
  BY <1>4, <1>6 DEF Tick, SetBack, Demote, ExternalUnlink, ExternalRename, vars, runVars, histVars
<1>7. ASSUME NEW t \in Tasks,
             \/ TimerFires(t)
             \/ \E k \in Times : StrayFires(t, k) \/ CatchUpFires(t, k)
             \/ \E ask \in {"active", "paused", "deleted"} : ExternalRead(t, ask)
      PROVE  Rows' /\ PreemptedRuns'
  BY <1>4, <1>7 DEF TimerFires, StrayFires, CatchUpFires, ExternalRead, runVars, histVars
<1>8. ASSUME NEW k \in Keys, TimeoutFires(k)
      PROVE  FALSE
  BY <1>1, <1>8 DEF TimeoutFires
<1> QED
  BY <1>1, <1>2, <1>3, <1>5, <1>6, <1>7, <1>8, <1>9, FireIs, UndisturbedSteps

\* Each run gets one row (engine.ts:257-262).
THEOREM EachRunRecordedOnce == Spec => []RecordedOnce
<1>1. Init => UnmovedInv /\ UnhurriedInv
  BY DEF Init, UnmovedInv, UnhurriedInv, Rows, TimedOutHold, PreemptedRuns
<1>2. UnmovedInv /\ UnhurriedInv => RecordedOnce
  <2> SUFFICES ASSUME UnmovedInv, UnhurriedInv, Settled,
                      NoPolicy("preempt") \/ (Undisturbed /\ Without({"timeout"}))
               PROVE  Rows
    BY DEF RecordedOnce, Settled, Rows
  <2>1. CASE NoPolicy("preempt")
    BY <2>1 DEF UnmovedInv, Unmoved
  <2>2. CASE Undisturbed /\ Without({"timeout"})
    BY <2>2 DEF UnhurriedInv, Unhurried, OnItsOwn, Settled, Without
  <2> QED
    BY <2>1, <2>2
<1> QED
  BY <1>1, <1>2, HeldInit, InitType, StepType, AloneStep, SavedStep, WaitedHeldStep, SnapsStep,
     KeysStep, HeldStep, UnmovedStep, UnhurriedStep, PTL DEF Spec
=============================================================================
