----------------------------- MODULE SessionIndex -----------------------------
(***************************************************************************)
(* The session manager (src/core/projection/session-manager.ts): sessions  *)
(* are ranges of one event log, the index of sessions and threads is kept  *)
(* in memory, written through to a snapshot with a sequence watermark, and *)
(* rebuilt from the log by the reducer (session-index-reducer.ts) after a  *)
(* crash.  Several processes may work on one log and one snapshot.         *)
(*                                                                         *)
(* An event is named by its position in the log, which is its sequence;    *)
(* position 0 stands for ORIGIN as a start and for HEAD as an end.  The    *)
(* ids of sessions and threads count up, so they order by created_at.      *)
(* Every method of the manager is synchronous: an operation decides its    *)
(* steps at once, each step appends one event or saves the snapshot, and a *)
(* process can die between any two of them.                                *)
(***************************************************************************)
EXTENDS Integers, Sequences

CONSTANTS
  Procs,       \* the processes that open the workspace
  MaxSessions, \* bound: sessions ever created
  MaxThreads,  \* bound: threads ever created
  MaxLog,      \* bound: no operation begins on a log of this length
  MaxCrashes,  \* bound: processes that die
  Nobody       \* no session, no thread

Sids == 1 .. MaxSessions
Tids == 1 .. MaxThreads
Statuses == {"active", "background"}

VARIABLES
  log,     \* the event log of the workspace
  snap,    \* the snapshot: sessions, threads and the watermark
  mem,     \* per process: its index and which session is active
  head,    \* per process: head_sequence, cached at its own appends
  plan,    \* per process: the steps its operation has left
  task,    \* per process: what the scheduled run under way must restore
  home,    \* history: the session that was active when a message was appended
  seen,    \* history: the threads the user has gone to himself
  runs,    \* history: the threads a scheduled run has been the first to use
  loosed,  \* history: the threads a scheduled run has itself made interactive
  crashes

vars == <<log, snap, mem, head, plan, task, home, seen, runs, loosed, crashes>>

------------------------------------------------------------------------------
(* Index values.                                                           *)

Sessions == [thread : Tids, start : Nat, end : Nat, ctx : Sids \cup {Nobody}, name : Nat]
Tables   == [Sids -> Sessions \cup {Nobody}]
Threads  == [Tids -> Statuses \cup {Nobody}]
EmptyIndex == [sess |-> [s \in Sids |-> Nobody], thr |-> [t \in Tids |-> Nobody]]

\* What the log, a step and a scheduled run are made of.
Kinds   == {"created", "forked", "jumped", "renamed", "status", "message", "boundary"}
Events  == [kind : Kinds, thread : Tids, sid : Sids \cup {Nobody}, start : Nat,
            ctx : Sids \cup {Nobody}, closes : Sids \cup {Nobody},
            status : Statuses \cup {Nobody}]
Effects == [adds : Sids \cup {Nobody}, rec : Sessions \cup {Nobody},
            ends : Sids \cup {Nobody}, names : Sids \cup {Nobody},
            sets : Tids \cup {Nobody}, status : Statuses \cup {Nobody}]
Places  == [s : Sids, t : Tids]
Steps   == [ev : Events \cup {Nobody}, do : Effects, act : Places \cup {Nobody}]
Minds   == [up : BOOLEAN, sess : Tables, thr : Threads,
            act : Sids \cup {Nobody}, actT : Tids \cup {Nobody}]
Runs    == [back : Sids \cup {Nobody}, close : {"always", "same-thread", "never"}]

ASSUME SessionIndexAssumption ==
  /\ MaxSessions \in Nat /\ MaxThreads \in Nat /\ MaxLog \in Nat /\ MaxCrashes \in Nat
  /\ Nobody \notin Nat /\ Nobody \notin Statuses /\ Nobody \notin Sessions
  /\ Nobody \notin Events /\ Nobody \notin Places /\ Nobody \notin Runs

Known(x)   == {s \in Sids : x.sess[s] # Nobody}
Open(x, s) == s \in Known(x) /\ x.sess[s].end = 0
Newest(S)  == CHOOSE s \in S : \A r \in S : r <= s

\* The fields of an event that the index is built from; the rest of its kind.
Ev(kind, thread) ==
  [kind |-> kind, thread |-> thread, sid |-> Nobody, start |-> 0, ctx |-> Nobody,
   closes |-> Nobody, status |-> Nobody]

------------------------------------------------------------------------------
(* The reducer: what an event at a position does to an index.              *)

\* closeSession: only a session that tracks HEAD is closed.
Close(x, s, pos) ==
  IF s # Nobody /\ Open(x, s) THEN [x EXCEPT !.sess[s].end = pos] ELSE x

AddThread(x, e) ==
  IF e.status # Nobody /\ x.thr[e.thread] = Nobody
  THEN [x EXCEPT !.thr[e.thread] = e.status] ELSE x

\* Mutant: a session is added again by the fork event that follows its creation.
AddsAgain(x, e) ==
  [x EXCEPT !.sess[e.sid] =
     [thread |-> e.thread, start |-> e.start, end |-> 0, ctx |-> e.ctx, name |-> 0]]

AddSession(x, e) ==
  IF x.sess[e.sid] # Nobody THEN x
  ELSE [x EXCEPT !.sess[e.sid] =
          [thread |-> e.thread, start |-> e.start, end |-> 0, ctx |-> e.ctx, name |-> 0]]

ApplyIndexEvent(x, e, pos) ==
  CASE e.kind = "created" -> Close(AddSession(AddThread(x, e), e), e.closes, pos)
    [] e.kind = "forked"  -> Close(AddSession(x, e), e.closes, pos)
    [] e.kind = "jumped"  -> Close(x, e.closes, pos)
    [] e.kind = "renamed" -> IF e.sid \in Known(x) THEN [x EXCEPT !.sess[e.sid].name = pos] ELSE x
    [] e.kind = "status"  -> IF x.thr[e.thread] # Nobody
                             THEN [x EXCEPT !.thr[e.thread] = e.status] ELSE x
    [] OTHER -> x

\* Mutant: the event after the watermark is skipped.
ReplaySkipsOne(l, x, after) ==
  LET index[n \in 0 .. Len(l)] ==
        IF n <= after + 1 THEN x ELSE ApplyIndexEvent(index[n - 1], l[n], n)
  IN  index[Len(l)]

\* replayIndexEventsAfter: the events of a log after the watermark, in order.
Replay(l, x, after) ==
  LET index[n \in 0 .. Len(l)] ==
        IF n <= after THEN x ELSE ApplyIndexEvent(index[n - 1], l[n], n)
  IN  index[Len(l)]

\* rebuildSessionIndex, when nothing is known.
Rebuilt == Replay(log, EmptyIndex, 0)

NoSnapshot == snap.sess = EmptyIndex.sess /\ snap.thr = EmptyIndex.thr

\* _loadIndex: an empty snapshot is no snapshot.
Loaded ==
  IF NoSnapshot THEN Rebuilt
  ELSE Replay(log, [sess |-> snap.sess, thr |-> snap.thr], snap.mark)

\* Mutant: the newest session is selected whatever its thread is for.
SelectNewest(x) == [t \in Tids |-> x.thr[t] # Nobody]

\* _loadIndex passes on the threads of the snapshot as its rows are after the replay, not
\* those the replay has added; without a snapshot, the threads of the log.
Listed == IF NoSnapshot THEN Tids ELSE {t \in Tids : snap.thr[t] # Nobody}

\* _selectActiveFromIndex: the interactive thread with the newest session, then
\* the newest one without, and in it the newest open session.
Interactive(x) == [t \in Tids |-> x.thr[t] = "active"]
ActiveThread(x) ==
  LET T == {t \in Listed : Interactive(x)[t]}
      S == {s \in Known(x) : x.sess[s].thread \in T}
  IN  IF S # {} THEN x.sess[Newest(S)].thread ELSE IF T # {} THEN Newest(T) ELSE Nobody
ActiveSession(x) ==
  LET S == {s \in Known(x) : Open(x, s) /\ x.sess[s].thread = ActiveThread(x)}
  IN  IF S # {} THEN Newest(S) ELSE Nobody

------------------------------------------------------------------------------
(* Steps.  "do" is what the manager changes in its own index when the event *)
(* of the step has been appended: the session it adds, the ones it ends,    *)
(* the thread it sets; "act" is the session and thread it leaves active.    *)

NoEffect == [adds |-> Nobody, rec |-> Nobody, ends |-> Nobody, names |-> Nobody,
             sets |-> Nobody, status |-> Nobody]
Emit(e, do, act) == [ev |-> e, do |-> do, act |-> act]
At(s, t) == [s |-> s, t |-> t]
SaveAt(act) == [ev |-> Nobody, do |-> NoEffect, act |-> act]
Save == SaveAt(Nobody)
\* Where a process is once it has taken these steps.
Reached(m, steps) ==
  LET L == {i \in DOMAIN steps : steps[i].act # Nobody}
  IN  IF L = {} THEN At(m.act, m.actT) ELSE steps[Newest(L)].act

Effect(x, do, pos) ==
  LET added == IF do.adds = Nobody THEN x ELSE [x EXCEPT !.sess[do.adds] = do.rec]
      thr   == IF do.sets = Nobody THEN added ELSE [added EXCEPT !.thr[do.sets] = do.status]
      ended == IF do.ends = Nobody THEN thr ELSE [thr EXCEPT !.sess[do.ends].end = pos]
  IN  IF do.names = Nobody THEN ended ELSE [ended EXCEPT !.sess[do.names].name = pos]

CreatedIn(l) == {l[i].sid : i \in {j \in DOMAIN l : l[j].kind \in {"created", "forked"}}}
FreshSid == CHOOSE s \in 1 .. MaxSessions + 1 :
              s \notin CreatedIn(log) /\ \A r \in 1 .. s - 1 : r \in CreatedIn(log)
FreshTid == CHOOSE t \in 1 .. MaxThreads + 1 :
              /\ \A i \in DOMAIN log : log[i].thread # t
              /\ \A r \in 1 .. t - 1 : \E i \in DOMAIN log : log[i].thread = r
RoomForSession == FreshSid <= MaxSessions
RoomForThread  == FreshTid <= MaxThreads

\* The session an operation that moves on to thread t ends: the active one, when
\* it tracks HEAD and is in t.
EndsActive(m, t) ==
  IF m.act # Nobody /\ Open(m, m.act) /\ m.sess[m.act].thread = t THEN m.act ELSE Nobody

\* createSession.  opt: thread, status (of a thread first used here, or Nobody),
\* start, ctx, closeActive.
CreateSession(m, opt) ==
  LET sid  == FreshSid
      ends == IF opt.closeActive THEN EndsActive(m, opt.thread) ELSE Nobody
      e    == [Ev("created", opt.thread) EXCEPT !.sid = sid, !.start = opt.start,
                 !.ctx = opt.ctx, !.closes = ends, !.status = opt.status]
      do   == [NoEffect EXCEPT !.adds = sid, !.ends = ends, !.status = opt.status,
                 !.rec = [thread |-> opt.thread, start |-> opt.start, end |-> 0,
                          ctx |-> opt.ctx, name |-> 0],
                 !.sets = IF opt.status = Nobody THEN Nobody ELSE opt.thread]
  IN  <<Emit(e, do, At(sid, opt.thread)), Save>>

InThread(t) == [thread |-> t, status |-> Nobody, start |-> Len(log), ctx |-> Nobody,
                closeActive |-> TRUE]
NewThread(status) == [InThread(FreshTid) EXCEPT !.status = status]

\* _promoteThreadToActive: no step unless the thread is a background one.
Promote(m, t, act) ==
  IF m.thr[t] = "background"
  THEN <<Emit([Ev("status", t) EXCEPT !.status = "active"],
              [NoEffect EXCEPT !.sets = t, !.status = "active"], act)>>
  ELSE <<>>

\* getActiveSession, when there is none.
EnsureActive(m, actT) ==
  IF actT = Nobody THEN CreateSession(m, NewThread("active")) ELSE CreateSession(m, InThread(actT))

\* switchToExistingSession: only the user's own navigation promotes.
SwitchToExisting(m, s, closePrevious, background) ==
  LET t    == m.sess[s].thread
      act  == At(s, t)
      prom == IF background THEN <<>> ELSE Promote(m, t, act)
      ends == IF /\ m.act # Nobody /\ Open(m, m.act)
                 /\ \/ closePrevious = "always"
                    \/ closePrevious = "same-thread" /\ m.sess[m.act].thread = t
              THEN m.act ELSE Nobody
  IN  IF s = m.act /\ t = m.actT THEN prom \o (IF prom = <<>> THEN <<>> ELSE <<Save>>)
      ELSE prom \o <<Emit([Ev("jumped", t) EXCEPT !.closes = ends],
                          [NoEffect EXCEPT !.ends = ends], act), Save>>

\* switchTo, when a process is started in a given session.
SwitchTo(m, s) ==
  LET act == At(s, m.sess[s].thread) IN Promote(m, act.t, act) \o <<SaveAt(act)>>

\* forkFromSession: the new branch starts where the source does, or where it ends.
ForkFromSession(m, s, preserveHistory) ==
  LET src   == m.sess[s]
      here  == At(s, src.thread)
      prom  == IF src.end = 0 THEN Promote(m, src.thread, here) ELSE <<>>
      from  == IF src.end = 0 THEN [m EXCEPT !.act = s, !.actT = src.thread] ELSE m
      at    == IF src.end = 0 THEN Len(log) ELSE src.end
      made  == CreateSession(from, [InThread(src.thread) EXCEPT
                                      !.start = IF preserveHistory THEN src.start ELSE at])
      prev  == IF /\ m.act # Nobody /\ m.act # s /\ Open(m, m.act)
                  /\ m.act # EndsActive(from, src.thread)
               THEN m.act ELSE Nobody
      new   == Reached(from, made)
  IN  prom \o made
      \o <<Emit([Ev("forked", src.thread) EXCEPT !.sid = new.s, !.closes = prev],
               [NoEffect EXCEPT !.ends = prev], new)>>
      \o (IF prev = Nobody THEN <<>> ELSE <<Save>>)

\* forkAt: the source is the active session; the event is the start of the branch.
ForkAt(m, pos) ==
  LET src  == m.sess[m.act]
      ends == IF src.end = 0 THEN m.act ELSE Nobody
      rec  == [thread |-> src.thread, start |-> pos, end |-> 0, ctx |-> Nobody, name |-> 0]
  IN  <<Emit([Ev("forked", src.thread) EXCEPT !.sid = FreshSid, !.start = pos, !.closes = ends],
             [NoEffect EXCEPT !.adds = FreshSid, !.rec = rec, !.ends = ends],
             At(FreshSid, src.thread)), Save>>

\* jumpToSession: a closed target is reopened as a branch of its own.
JumpTo(m, s) ==
  IF s = m.act /\ Open(m, s) THEN <<>>
  ELSE IF Open(m, s) THEN SwitchToExisting(m, s, "same-thread", FALSE)
  ELSE LET forked == ForkFromSession(m, s, TRUE)
           new    == Reached(m, forked)
       IN  forked \o <<Emit(Ev("jumped", new.t), NoEffect, new)>>

\* Mutant: a prompt is written to the active session even when it has ended.
StayInClosed(m) == <<>>

\* ensureActiveSessionWritable, before every prompt.
Continuations(m, s) == {c \in Known(m) : m.sess[c].ctx = s /\ Open(m, c)}
EnsureWritable(m) ==
  IF m.act = Nobody \/ Open(m, m.act) THEN <<>>
  ELSE IF Continuations(m, m.act) # {}
  THEN SwitchToExisting(m, Newest(Continuations(m, m.act)), "never", TRUE)
  ELSE LET made == CreateSession(m, [NewThread("active") EXCEPT !.ctx = m.act,
                                                                !.closeActive = FALSE])
           new  == Reached(m, made)
       IN  made \o <<Emit(Ev("jumped", new.t), NoEffect, new), Save>>

\* prompt: the message carries the thread that is active when it is appended.
Message(t) == <<Emit(Ev("message", t), NoEffect, Nobody)>>
PromptSteps(m) == EnsureWritable(m) \o Message(Reached(m, EnsureWritable(m)).t)

\* The latest event of a kind (findLastEvent).
LastOf(kind) == LET I == {i \in DOMAIN log : log[i].kind = kind}
                IN  IF I = {} THEN 0 ELSE Newest(I)

\* splitSession: the new session starts before the last message of the log, unless
\* there has been no message since the last split.
SplitSteps(m) ==
  IF LastOf("message") # 0 /\ LastOf("boundary") > LastOf("message") THEN <<>>
  ELSE LET made == CreateSession(m, [InThread(m.actT) EXCEPT
                     !.start = IF LastOf("message") = 0 THEN @ ELSE LastOf("message") - 1])
       IN  made \o <<Emit(Ev("boundary", m.actT), NoEffect, Nobody)>>

\* useThread: the caller names the thread.
UseThread(m, t) ==
  LET O == {s \in Known(m) : Open(m, s) /\ m.sess[s].thread = t}
      opt == [InThread(t) EXCEPT !.closeActive = FALSE]
  IN  IF m.thr[t] = Nobody THEN CreateSession(m, [opt EXCEPT !.status = "active"])
      ELSE IF O # {} THEN SwitchTo(m, Newest(O))
      ELSE CreateSession(m, opt)

------------------------------------------------------------------------------
(* The operations of a process.                                            *)

Idle(p) == mem[p].up /\ plan[p] = <<>>
HasRoom == Len(log) < MaxLog
Do(p, steps) == plan' = [plan EXCEPT ![p] = steps]

\* A run under way makes the commands that change the session structure wait for
\* it (waitForSessionStructureIdle); the agent's own history tools act within it.
AgentTool(p, steps) ==
  /\ Idle(p) /\ HasRoom
  /\ Do(p, steps)
  /\ seen' = IF task[p] = Nobody THEN seen \cup {Reached(mem[p], steps).t} ELSE seen
  /\ UNCHANGED <<log, snap, mem, head, task, home, runs, loosed, crashes>>
Command(p, steps) == task[p] = Nobody /\ AgentTool(p, steps)

NewSession(p) == RoomForSession /\ Command(p, CreateSession(mem[p], InThread(mem[p].actT)))
Rewind(p) ==
  /\ RoomForSession
  /\ \E pos \in DOMAIN log : Command(p, ForkAt(mem[p], pos))
Switch(p) ==
  \E s \in Known(mem[p]) :
    LET C == Continuations(mem[p], s)
        target == IF Open(mem[p], s) \/ C = {} THEN s ELSE Newest(C)
    IN  \E to \in {s, target} : Command(p, SwitchToExisting(mem[p], to, "same-thread", FALSE))
Fork(p) ==
  /\ RoomForSession
  /\ \E s \in Known(mem[p]) : AgentTool(p, ForkFromSession(mem[p], s, FALSE))
Jump(p) ==
  /\ RoomForSession
  /\ \E s \in Known(mem[p]) : AgentTool(p, JumpTo(mem[p], s))
Split(p) == RoomForSession /\ AgentTool(p, SplitSteps(mem[p]))
Rename(p) ==
  \E s \in Known(mem[p]) :
    AgentTool(p, <<Emit([Ev("renamed", mem[p].sess[s].thread) EXCEPT !.sid = s],
                        [NoEffect EXCEPT !.names = s], Nobody), Save>>)
Prompt(p) ==
  /\ RoomForSession /\ RoomForThread
  /\ AgentTool(p, PromptSteps(mem[p]))

\* schedulerDispatcher.dispatch: into a thread of its own or a pinned session, and
\* back to what was active before.
RunScheduled(p, steps, close) ==
  /\ Idle(p) /\ HasRoom /\ task[p] = Nobody
  /\ Do(p, steps)
  /\ task' = [task EXCEPT ![p] = [back |-> mem[p].act, close |-> close]]
  /\ UNCHANGED <<log, snap, mem, head, home, seen, runs, loosed, crashes>>
ScheduleNew(p) ==
  /\ RoomForSession /\ RoomForThread
  /\ RunScheduled(p, CreateSession(mem[p], NewThread("background")), "always")
SchedulePinned(p) ==
  \E s \in Known(mem[p]) :
    RunScheduled(p, SwitchToExisting(mem[p], s, "never", TRUE), "never")
ScheduleEnds(p) ==
  /\ Idle(p) /\ task[p] # Nobody
  /\ Do(p, IF task[p].back = Nobody THEN <<>>
           ELSE SwitchToExisting(mem[p], task[p].back, task[p].close, TRUE))
  /\ task' = [task EXCEPT ![p] = Nobody]
  /\ UNCHANGED <<log, snap, mem, head, home, seen, runs, loosed, crashes>>

------------------------------------------------------------------------------
(* The steps of a process, its start and its end.                          *)

\* saveSessionIndex: the rows the process knows are upserted, none is deleted.
Upserted(m) ==
  [sess |-> [s \in Sids |-> IF s \in Known(m) THEN m.sess[s] ELSE snap.sess[s]],
   thr  |-> [t \in Tids |-> IF m.thr[t] # Nobody THEN m.thr[t] ELSE snap.thr[t]]]

MoveTo(m, act) == IF act = Nobody THEN m ELSE [m EXCEPT !.act = act.s, !.actT = act.t]

\* append: the event is in the log before the manager changes its index.
AppendStep(p) ==
  LET step == Head(plan[p])
      pos  == Len(log) + 1
      x    == Effect([sess |-> mem[p].sess, thr |-> mem[p].thr], step.do, pos)
      m    == MoveTo([mem[p] EXCEPT !.sess = x.sess, !.thr = x.thr], step.act)
  IN  /\ plan[p] # <<>> /\ step.ev # Nobody
      /\ log' = Append(log, step.ev)
      /\ mem' = [mem EXCEPT ![p] = m]
      /\ head' = [head EXCEPT ![p] = pos]
      /\ home' = IF step.ev.kind = "message" THEN Append(home, m.act) ELSE Append(home, Nobody)
      /\ runs' = IF task[p] # Nobody /\ step.ev.kind = "created" /\ step.ev.status # Nobody
                 THEN runs \cup {step.ev.thread} ELSE runs
      /\ loosed' = IF task[p] # Nobody /\ step.ev.status = "active"
                   THEN loosed \cup {step.ev.thread} ELSE loosed
      /\ Do(p, Tail(plan[p]))
      /\ UNCHANGED <<snap, task, seen, crashes>>

\* _persistIndex: the rows and the watermark in one transaction.
SaveStep(p) ==
  LET step == Head(plan[p])
      rows == Upserted(mem[p])
  IN  /\ plan[p] # <<>> /\ step.ev = Nobody
      /\ mem' = [mem EXCEPT ![p] = MoveTo(mem[p], step.act)]
      /\ snap' = [sess |-> rows.sess, thr |-> rows.thr,
                  mark |-> IF snap.mark > head[p] THEN snap.mark ELSE head[p]]
      /\ Do(p, Tail(plan[p]))
      /\ UNCHANGED <<log, head, task, home, seen, runs, loosed, crashes>>

Down == [up |-> FALSE, sess |-> EmptyIndex.sess, thr |-> EmptyIndex.thr,
         act |-> Nobody, actT |-> Nobody]

\* How a process is started: plainly, in a session, in a branch of one, or for a
\* thread of the caller.
Opening(m) ==
  {<<>>}
  \cup {SwitchTo(m, s) : s \in Known(m)}
  \cup (IF RoomForSession THEN {ForkFromSession(m, s, TRUE) : s \in Known(m)} ELSE {})
  \cup (IF RoomForSession
         THEN {UseThread(m, t) : t \in {u \in Tids : u <= FreshTid}} ELSE {})

\* setupEventStore and, for the projection of the facade, getActiveSession.
Start(p) ==
  LET x == Loaded
      m == [up |-> TRUE, sess |-> x.sess, thr |-> x.thr,
            act |-> ActiveSession(x), actT |-> ActiveThread(x)]
  IN  /\ ~mem[p].up /\ HasRoom
      /\ RoomForSession \/ m.act # Nobody
      /\ RoomForThread \/ m.actT # Nobody
      /\ \E steps \in Opening(m) :
           LET ensured == IF Reached(m, steps).s = Nobody THEN EnsureActive(m, m.actT) ELSE <<>>
           IN  /\ Do(p, steps \o ensured)
               /\ seen' = IF steps = <<>> THEN seen ELSE seen \cup {Reached(m, steps).t}
      /\ mem' = [mem EXCEPT ![p] = m]
      /\ head' = [head EXCEPT ![p] = Len(log)]
      /\ UNCHANGED <<log, snap, task, home, runs, loosed, crashes>>

\* The process exits, or dies between two steps.
Crash(p) ==
  /\ mem[p].up /\ crashes < MaxCrashes
  /\ mem' = [mem EXCEPT ![p] = Down]
  /\ plan' = [plan EXCEPT ![p] = <<>>]
  /\ task' = [task EXCEPT ![p] = Nobody]
  /\ crashes' = crashes + 1
  /\ UNCHANGED <<log, snap, head, home, seen, runs, loosed>>

Init ==
  /\ log = <<>>
  /\ snap = [sess |-> EmptyIndex.sess, thr |-> EmptyIndex.thr, mark |-> 0]
  /\ mem = [p \in Procs |-> Down]
  /\ head = [p \in Procs |-> 0]
  /\ plan = [p \in Procs |-> <<>>]
  /\ task = [p \in Procs |-> Nobody]
  /\ home = <<>>
  /\ seen = {} /\ runs = {} /\ loosed = {}
  /\ crashes = 0

Next ==
  \E p \in Procs :
    \/ Start(p) \/ AppendStep(p) \/ SaveStep(p) \/ Crash(p)
    \/ NewSession(p) \/ Rewind(p) \/ Switch(p) \/ Fork(p) \/ Jump(p)
    \/ Split(p) \/ Rename(p) \/ Prompt(p)
    \/ ScheduleNew(p) \/ SchedulePinned(p) \/ ScheduleEnds(p)

Spec == Init /\ [][Next]_vars

------------------------------------------------------------------------------
(* Properties.                                                             *)

\* The log holds events, a row of an index is one the table can hold, a plan is of
\* appends and saves, and every watermark is a position in the log.
TypeOK ==
  /\ log \in Seq(Events)
  /\ snap \in [sess : Tables, thr : Threads, mark : 0 .. Len(log)]
  /\ mem \in [Procs -> Minds] /\ head \in [Procs -> 0 .. Len(log)]
  /\ plan \in [Procs -> Seq(Steps)] /\ task \in [Procs -> Runs \cup {Nobody}]
  /\ home \in Seq(Sids \cup {Nobody}) /\ Len(home) = Len(log)
  /\ seen \subseteq Tids /\ runs \subseteq Tids /\ loosed \subseteq Tids /\ crashes \in Nat

\* Whenever a process may be started - now, if every process died now - what it
\* would load from the snapshot and the events after the watermark is what the
\* whole log says: no boundary, session or promotion is lost in a crash between
\* an append and the save (session-index-reducer.ts, self-healing).
ReloadIsProjection == Loaded = Rebuilt

\* Between two operations the index a process has built by its own hand-written
\* changes is the projection of the log: the live path and the reducer agree.
LiveIsProjection ==
  \A p \in Procs : Idle(p) => [sess |-> mem[p].sess, thr |-> mem[p].thr] = Rebuilt

\* A session's own events: those of its thread within its range.
Covers(x, s, pos) ==
  LET r == x.sess[s]
  IN  /\ pos > r.start /\ (r.end = 0 \/ pos < r.end)
      /\ log[pos].thread = r.thread

\* A message is, and stays, in the context of the session it was written in,
\* whatever branches, ends or continues that session afterwards.
MessageKeepsItsSession ==
  \A pos \in DOMAIN log : log[pos].kind = "message" => Covers(Rebuilt, home[pos], pos)

\* When no scheduled run is under way, the chat is not in a thread that a run has made,
\* unless the user has gone there himself or a run has made the thread interactive:
\* neither the way back from a run, nor a restart in the middle of it or at any time
\* after it, leaves the chat there (rpc-mode.ts, schedulerDispatcher;
\* _selectActiveFromIndex).  The second exemption is a defect (README).
ChatNotHijacked ==
  \A p \in Procs : Idle(p) /\ task[p] = Nobody =>
    mem[p].actT # Nobody /\ (mem[p].actT \in runs => mem[p].actT \in seen \cup loosed)

\* Not so (README): a run that forks its own session, or goes on in a session that has
\* ended, leaves a thread the next start can take the chat to.
NoRunIsSelected ==
  \A p \in Procs : Idle(p) /\ task[p] = Nobody => (mem[p].actT \in runs => mem[p].actT \in seen)

\* Not so (README): a scheduled thread the user has navigated into takes part in
\* the selection of the active thread on later reloads (_promoteThreadToActive).
NavigatedIsPromoted ==
  \A p \in Procs, t \in Tids : Idle(p) /\ t \in seen => mem[p].thr[t] # "background"
=============================================================================
