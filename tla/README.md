# A verification of pizza

pizza is an event-sourced coding agent: a runtime that turns messages into
model calls and tool calls and writes everything to an event log, a scheduler
that prompts it at set times, a gateway daemon that keeps one agent process per
workspace, and user interfaces around them. This directory holds TLA+ models of
the parts where order, failure and concurrency decide whether it works, the TLC
runs that check them, and theorems about them checked by TLAPS.

Paths are relative to the repository; `core/` stands for `src/core/`.

## 1. The system

| component | state | operations | talks to |
|---|---|---|---|
| Turn loop (`core/runtime/reactor.ts`, `runtime.ts`, `turn-state.ts`) | turnInFlight, abort signal, follow-up queue, retry timers, tool-round signatures, compaction in progress, prompt cycle | prompt, steer, followUp, abort, compact, cancel/promote/clear queued, one handler per event | appends to and subscribes to the event store; calls the model and the tools |
| Event store (`core/event-store`) | SQLite tables, sequence numbers, subscribers | append, appendBatch, query, subscribe, snapshots | all of the core; several processes on one database |
| Crash recovery (`runtime/crash-recovery.ts`, `facade/store-setup.ts`) | none | close what a dead process left open | event store; runs only under the workspace lock |
| Workspace lock (`core/main-agent.ts`) | one pid file | acquire, release | store set-up, which goes on without it (no recovery then) |
| Scheduler (`core/scheduler`) | tasks (memory and `tasks.json`), timers, session locks and queues, run history | create, update, delete, run now, fire, catch up, time out, reload, demote | dispatches into the runtime through rpc-mode; other processes edit the file |
| Scope lock (`scheduler/scope-lock.ts`) | lock file with heartbeat | acquire, heartbeat, release | decides which engine is active |
| Goal scheduler (`core/goal`) | projection of goals and tasks | plan, assign, complete | event store; nothing in the product constructs it |
| Session manager, projections (`core/projection`) | index of sessions and threads, active session, snapshot with a watermark | create, switch, fork, jump, split, rename, rebuild; context of a session | event store; commands, tools and scheduled runs |
| Compaction (`core/compaction`) | none | choose a cut, summarise | turn loop |
| Gateway (`packages/gateway`) | agent pool, spawns in flight, turn slots, subscribers | tell, attach, rpc, evict, health check, stop | agents through RpcClient pipes |
| Gateway socket (`gateway-server.ts`, `gateway-lifecycle.ts`) | one socket file | start, probe, take over, watch, stop; a client's ensure | every client that needs a gateway |
| Channel supervisor (`packages/gateway/channel-supervisor.ts`) | adapter processes, restart budgets | spawn, respawn, stop | channel adapters |
| RPC (`packages/rpc`) | pending requests, listeners | send, waitForIdle, command handlers | stdin/stdout of an agent |
| Credentials (`core/auth-storage.ts`) | token file and its lock | get, refresh, set | OAuth providers |
| The rest: settings, packages, models, extensions, tools, UIs, channels | files, screens | | I/O, no protocol of their own |

What is hard. Inside one process nothing runs in parallel, but store
subscribers run synchronously inside `append`, promise continuations run between
any two events, and timers, replies and user input arrive in any order: most of
the state of the turn loop and the scheduler is read before such a gap and used
after it. Between processes there are files (locks, `tasks.json`, tokens), one
SQLite database, and pipes whose ends can die. `PROJECT.json` lists the hazards
at their lines, with the properties that cover each.

What makes each part correct:

* turn loop: one turn at a time; every message answered once or recorded as
  dropped; nothing waiting when it could run; `prompt()` returns, and when it
  does nothing is left running.
* scheduler: each occurrence fires once; runs of one session do not overlap; a
  lock is held only for a run; every enabled task has a future; each run is
  recorded once; what the user sets stays set.
* lock files: one holder; nothing a crash leaves behind locks everybody out.
* gateway: one agent per workspace; one tell at a time; every tell is answered;
  what is acknowledged was delivered, once; replies belong to their tell.
* gateway socket: one gateway in the end; no adapter that nobody knows of.
* event store: one log without gaps, whoever writes; each event once to each
  subscriber.
* sessions: what a restart loads is what the log says; a message stays in its
  session; the chat is not left in the thread of a scheduled run.
* turns in the log: the context is one a provider accepts, after any crash;
  nothing is lost to a compaction.

## 2. Modules

| module | models | EXTENDS |
|---|---|---|
| `TurnReactor` | the turn loop of one runtime | |
| `TurnReactorProofs` | its theorems, on the turns and on the messages | TurnReactor, TLAPS |
| `SessionLocks` | `SessionLockManager` as operators on a table | |
| `SchedulerEngine` | one engine, its locks, `tasks.json`, the runtime it dispatches to, another process | SessionLocks |
| `SchedulerProofs` | its theorems | SchedulerEngine, FiniteSetTheorems, TLAPS |
| `ScopePromise` | what the scope lock promises, of any record of who is active | |
| `ScopeLock` | which engine of a scope is active: `tryAcquire`, `heartbeat` and `release`, one system call per step | ScopePromise |
| `LockProofs` | theorems of ScopeLock and PidLock | PidLock, ScopePromise, ScopeLock (INSTANCE), TLAPS |
| `PidLock` | `acquirePidLock` and `release` by processes, one system call per step | |
| `AppendOnlyLog` | what the event store promises: abstract | |
| `EventLog` | the SQLite event store of several processes, with its subscribers | AppendOnlyLog (INSTANCE) |
| `EventLogProofs` | its refinement, and what subscribers hear | EventLog, TLAPS |
| `SessionIndex` | the session manager over one log and one snapshot | |
| `SessionIndexProofs` | its theorems | SessionIndex, TLAPS |
| `TurnLog` | the events of turns, their recovery, the context read from them, compaction | |
| `TurnLogProofs` | its theorems | TurnLog, TLAPS |
| `GatewayPool` | one workspace of the gateway: requests, pool entry, agent processes, pipes | |
| `GatewayPoolProofs` | its theorems | GatewayPool, TLAPS |
| `ChannelSupervisor` | the channel supervisors of gateways that share `channels.json` | |
| `GatewayDaemon` | who owns the gateway's socket, composed with the supervisors | ChannelSupervisor |
| `GatewayDaemonProofs` | its theorems | GatewayDaemon, TLAPS |
| `MC...` | values for the constants of the runs | the module |

Definitions that begin "Mutant:" are wrong versions of a definition next to
them; no specification uses them. Put in its place, each makes a property fail:
they show that the properties notice. A property whose comment begins "Not so"
does not hold of the code; section 5 says why.

### TurnReactor

State ↔ code: `turnInFlight`, `aborted`, `abortedByUser`, `queue`, `compacting`,
`lastSig`/`streak` are fields of TurnState and of the reactor (signatures are
abstracted to the last one and how often it repeats); `stage`, `attempt`,
`rounds`, `tool` say where each message's turn is (which events of its causal
chain have been appended); `phase`, `cur`, `check`, `background` are `prompt()`
and `compact()` of runtime.ts; `qlog`, `consumed`, `dropped` are what
`replayFollowUpsFromLog` reads from the log.

One JavaScript task is a chain of nested `append`s. `event` is the event whose
subscribers run next and `after` what the outermost caller does when its append
returns, so an `On...` action is one whole handler. Promise continuations
(`Microtask`) wait for the stack, and replies, timers and user input for the
continuations; with `MicroInputs` callers may also act from a continuation.

### SessionLocks, SchedulerEngine

`SessionLocks` is the lock manager as pure operators (acquire, release,
reassign) on a record of holder, index and queues. In `SchedulerEngine`, `mem`
is the engine's cache and `disk` the file; `timer` the registered timer of each
task and `stray` the timers that are no longer registered and still fire;
`catchup` the runs `load()` starts; `call` is the synchronous part of `fireTask`
for one task; `runs` are the dispatches that wait for or hold the runtime, in
order (`runWhenRuntimeIdle`); `locks` the manager. `ext` and `gap` are an edit
of the file by another process, between its unlink and its rename. The engine's
own writes are synchronous, so only a death can cut one in two: `Restart(TRUE)`
is that death, and the next process finds no tasks. Time is the number of the
last schedule boundary passed, which is when `nextRunAt` no longer returns it. A
timer may fire before its boundary (`Due`): `FireEarly` puts it back on a timer
when it is more than the tolerance early, otherwise the run goes on, and if it
ends before the boundary its next run is for the same one. `SetBack` is the wall
clock set back over a boundary.

### ScopeLock

The lock file holds a pid and a heartbeat that is fresh or stale; `opened` is
who has it open for writing (a file that was created or truncated and not yet
written is `Empty`). `place` is the next system call, `seen` and `tries` the
locals of `tryAcquire`, `held` whether the engine of the process is active.
Counters bound the loads, crashes, suspensions of a holder past STALE_MS
(`Lapse`) and calls that overlap. Its effect on an engine (passive, demoted) is
in SchedulerEngine.

### PidLock

A process is its pid. `place` is the next system call inside acquire or
release, `file` the content of the lock file, `opened` who writes to the linked
file. Any call may overlap any other, a process may die at each step, leave a
partial file, and come back; `happened` records which of these occurred, so that
a property can say under which conditions it holds.

### GatewayPool

A request is a tell, or a client that attaches from a window or headless; an
agent is a process with its pool entry. `pool` and `spawning` are the two maps
at this workspace's key, `life` the process, `busy` and `queue` the turn slot and
its waiters, `inbox` and `outbox` the pipe, `turn` and `followUps` what the agent
runs. `coming` are the prompts it acknowledged whose facade is still at one of
its awaits: rpc-mode answers a prompt before its turn begins (`ReadsPrompt`,
`TurnBegins`), and drops one that finds another turn in its way. A follow-up may
fail in the agent (`ReadsFollowUp`, which the client takes for a success) or be
answered too late (`FollowUpTimesOut`). A tell is in the slot from its prompt to
its settling. Promise continuations run before anything else is read (`Quiet`).
Workspaces share nothing but the shutdown flag. Left out: streaming of events to
subscribers, name resolution, prompts that an extension swallows or answers
itself; the socket is in GatewayDaemon.

### EventLog, AppendOnlyLog

`db` is the table by sequence, `lock` the process in a write transaction, `next`
each process's `_nextSequence`, `call` the append under way up to its commit
(look-up of the key, BEGIN, busy retries, insert, commit, constraint failure),
`stack` the events a process is telling its subscribers, innermost last: a
handler may append, subscribe and unsubscribe. `told` and `owed` record who
heard and who should. `AppendOnlyLog` is a log that only grows at its end and
holds a key once; `Log == INSTANCE AppendOnlyLog WITH log <- db` is the mapping.

### SessionIndex

An event is its position in the log. `snap` is the saved index with its
watermark, `mem` and `head` a process's index and cached head sequence. Every
operation is synchronous and decides its steps at once (`plan`): appends and
saves, in the code's order; a process can die between any two. The reducer
(`Replay`, `Loaded`, `Rebuilt`) is the code's; the effect of a step on memory
is translated from the hand-written changes of the manager, so that
LiveIsProjection compares two different pieces of code. `Listed` are the threads
that a start may select from: those of the snapshot, or of the log if there is
none. `task` is the scheduled run under way, `home` the session a message was
written in, `seen` the threads the user has gone to, `runs` those a scheduled run
was the first to use and `loosed` those a run has itself made interactive.

### TurnLog

The log holds the events of turns: user messages, answers with their calls,
starts and ends of calls, completions, shell commands, summaries and masks.
`fac` is each facade's turn and compactions, `opening` and `plan` a recovery
under way, `gaveUp` that it threw and was only logged (`RecoveryFails`), `cont`
where session 1 was continued. `Context` is what `buildContext` and the sanitizer
make of the log, and `RecoveryPlan` what `recoverDanglingTurnState` appends. The
turn's cycle is the reactor's reduced to its appends; TurnReactor has the rest of
it. A compaction reads the context when it is asked for, in the middle of a turn
or between two, and writes its boundary whenever the model has answered; the turn
goes on meanwhile. One that its reactor leaves behind when `prompt()` returns is
`stray`: nothing waits for it, a new turn, a continuation of the session and a
second compaction may come before its end, and its boundary is stamped with the
thread of that moment (`Stamped`). `StopReactor` lets any compaction be left
behind, the code only one that was asked for after the turn had settled
(FinishPrompt of TurnReactor says when). Facade f drives thread f; the
continuation of session 1 in thread 2 is there with one facade only.

### ChannelSupervisor, GatewayDaemon

`file` is `channels.json`, `sup` each gateway's supervisor (its copy of the
configuration and a RuntimeEntry per channel), `adapters` the processes that
run, told to stop or not. A write of the file may throw after the configuration
in memory was changed (`SaveInVain`, recorded in `unsaved`) and leave the old
file or an empty one. A start of a process may throw, or fail a moment later and
leave a child registered that never ran (`Dead`). `path` is who bound the socket
file, `ino` the file each gateway took for its own when it listened, which is read
after the bind (phase `bound`) and may be another's or none: it is what its watch
compares. `gw` is where each gateway is between start and exit, `cl` where each
client is in
`ensureGateway`, `ends` how a gateway that stops will leave its process (a
gateway that was only asked to shut down lives while an adapter of it does).
`late` records the gateways that were killed, or asked to run a channel while
they stopped.

## 3. Runs

| run | question | instance | properties |
|---|---|---|---|
| reactor_steer | prompts, steers, follow-ups, an abort and a queue edit in any order; does `prompt()` return? | 3 messages, 1 tool, 1 signature, retries, approvals, hook | OneTurnAtATime, AnsweredAtMostOnce, NoStrandedFollowUp, NoMessageLost, DroppedStaysDropped, PromptSettles |
| reactor_micro | callers in continuations, compactions of every kind | 2 messages, 2 parallel tools, 2 signatures | RetryNeverStranded, LoopDetectedForOwnRounds |
| sched_queue | three tasks share a session; is every waiting one let in? | 4 boundaries, a cap, an end date, two timeouts or an early timer, queue and preempt | SessionExclusive, CapRespected, AbortsOwnTurn, QueueServed |
| sched_events | restarts, timeouts, edits, runs by hand, retargets, demotion, other processes, continued sessions, early timers, a clock set back, a death in a write | 2 tasks, 2 sessions, every policy, 10 scenarios | OncePerOccurrence, LockHeldOnlyForRun, EnabledHasFuture, RecordedOnce, NoTaskLost |
| scope_lock | loads, heartbeats and disposals at every system call | 3 processes, 4 loads, 2 overlapping calls, a suspension, a crash, reused pids | OneEngineInSequence, DoubleDispatchEnds |
| pid_sequence | every interleaving of acquire and release, crashes, reused pids | 3 processes | ExclusiveInSequence, RefusedByHolder |
| event_log | appends and batches of two processes, nested in handlers, keys, failing writes, a restart | 3 events, 1 key, 1 retry | IsAppendOnlyLog, NeverCollides, ToldOnce |
| session_index | every operation of the session manager, by user, tools and scheduler, and a death between any two steps | 4 sessions, 3 threads, 1 crash | ReloadIsProjection, LiveIsProjection, MessageKeepsItsSession, ChatNotHijacked |
| turn_log | turns, aborts, shell commands, compactions in and between turns, a continued session; deaths in turns and in recoveries, recoveries that fail | 1 facade, 2 calls, 5 events, 2 boundaries and crashes together, budgets of 0 to 3 messages | ContextWellFormed, CallsArePaired, NothingForgotten |
| turn_log_tenants | a second facade is opened while a tool runs | 2 facades | ContextWellFormed, violated |
| gateway_pool | tells and clients meet failures of every kind | 3 requests, 2 agents, 8 pairs of disturbances | OneServingAgent, DeliveredOnce, AckMeansTaken, RelayIsOwn, TellAnswered |
| gateway_daemon | clients start, restart and displace gateways whose channels are saved, crash and respawn | 2 gateways, 2 clients of different versions, 1 channel, two disturbances of 4 pairs | KnownOrTold, OnlyTheKilledLeak, OneGatewayRemains, CrashedComesBack |

All runs say `CHECK_DEADLOCK FALSE`: messages, time, attempts and disturbances
are bounded, so every behaviour ends, and a program with nothing to do stops.
That something which should go on does not stop is what PromptSettles,
QueueServed, TellAnswered, DoubleDispatchEnds, OneGatewayRemains,
CrashedComesBack, NoStrandedFollowUp and EnabledHasFuture say.

The modules state further properties that hold in the same instances and are no
part of a run, because another one implies or nearly implies them: each TypeOK,
InFlightCoversTurn, SettledMeansIdle (TurnReactor), NoOverlap, PassiveHasNoTimer
(SchedulerEngine), HolderRecorded, SomebodyWins (PidLock), SlotExclusive
(GatewayPool). Adding the name to the .cfg checks it. PromptSettles also holds with
two parallel tools, and with two messages and an idle compaction; those
instances take minutes each.

Bounds and why they are enough:

* one process, four sessions and three threads (session_index): a chat, its
  branch, a scheduled thread and a session of a second death's restart; the log
  bound is where no operation begins any more, every one under way ends.
* turn_log: two calls are two of one answer, or one before and one after a
  crash; the second crash falls into the recovery of the first. `MaxLog` stops
  what begins something and the model's answers: calls, completions, boundaries and
  recoveries are written beyond it. `MaxCuts` counts summaries, masks and deaths
  together: two compactions, at once or one after the other, a compaction and a
  death, or two deaths. A budget of one message cuts a call from its
  result, and one of none, below 100 tokens, cuts nothing (`slice(-0)`).
* event_log: three events are a batch and one nested or raced append; one retry
  is the last that succeeds and the first that fails.
* scope_lock: two overlapping calls are enough for two active engines, and three
  processes for a third that judges the lock of either.
* gateway_daemon: two gateways are one and its rival or successor; two clients of
  different versions are the least that replace each other's gateway. `Few` are the
  pairs of disturbances that meet: a channel operation with an exit or a kill, two
  exits (with `RespawnMax` 1 the second is one too many), a lost ping with a kill.
  Failed writes and failed starts are free.
* `MaxMsgs` 3: a running turn, one message behind it, and one that arrives while
  the second is taken over; `LoopLimit` 2 and `MaxAttempts` 1 are the least with
  a round that repeats and a retry that is exhausted.
* `MaxTime` 3: a boundary that passes while the run of the one before it
  waits, and one more to see it rescheduled. Three tasks: a holder, one that is
  handed the lock, one still behind it. `Budgets` bounds the disturbances: each
  scenario names the kinds that interact, early timers twice, or with a clock that
  is set back, or a cut write with a timeout among them. Timeouts beyond the second,
  or restarts beyond the first, repeat a state.
* three processes: a holder and two that contend; `MaxAttempts` 4 and
  `MaxCrashes` 2 allow an acquire, a release and a reacquire by the same
  process, and a crash on either side of one.
* gateway: two agents are one and its replacement, three requests are an owner
  of the turn slot, a waiter and one that is behind it or replaces the agent.
  A third spawn fails by the bound. Each pair of disturbances was chosen for
  what it can do together: a crash while another agent does not start, a
  health check of an agent that is gone, a shutdown during a turn, a turn of the
  agent's own that refuses a tell whose follow-up then fails, a turn that was given
  up and refuses the next tell, whose follow-up is answered too late.

Fairness:

* TurnReactor: handlers, continuations and the completions of model, tools,
  compactions and timers are weakly fair: JavaScript runs what is due, requests
  have timeouts. The user is not: PromptSettles excepts a turn that waits for an
  approval. With alternating tool signatures a model can call tools for ever
  (the detector stops identical rounds only); reactor_steer therefore has one
  signature, which is what the limit promises to stop.
* SchedulerEngine: what is on the call stack proceeds and a dispatch returns
  (rpc-mode bounds it by the turn, the turn by PromptSettles). Not the clock,
  and not the user.
* GatewayPool: an agent reads, answers and ends its turns, a spawn or a kill
  comes to an end (both have timers), a continuation runs; the relay timeout is
  fair only once the process is gone, when nothing else can end the wait.
* ScopeLock: a call that has begun ends. The heartbeat is strongly fair: it is a
  timer that fires every 30 s and takes less than a millisecond, and what
  disables it in the model, another process inside a call with no overlap left,
  is over by its next firing.
* GatewayDaemon: a gateway's own steps, its settings and respawn timers, and the
  exit of an adapter that was told to stop. Not the clients, whose waits have
  timeouts and may throw, and no failure.

## 4. Proofs

TLAPS checks these for all values of the constants; section 3's bounds do not
apply to them.

* `TurnReactorProofs`: TypeCorrect, TurnsAreSerial (OneTurnAtATime),
  FlagCoversTurns (InFlightCoversTurn). Serial turns are not inductive: a handler
  starts a turn because `turnInFlight` is false, so the flag must cover every
  turn, and that includes the turn whose event is on the call stack, the one of a
  stopped reactor whose model call is still out, and a retry timer. The invariant
  `IInv` says which stages are possible with which event on the stack, that at
  most one message has an active stage, and that the flag is set when one has
  except between the end of that turn and what replaces it. One lemma per handler.
  LoopsAreOwn (LoopDetectedForOwnRounds): the streak never exceeds the rounds of
  the turn it is read for, because every start of a turn resets it or precedes its
  first round. RetriesAreNotStranded (RetryNeverStranded): a retry timer waits
  only in a live reactor whose signal is not aborted; an abort, an interrupt and
  the end of `prompt()` clear the timers before anything else, and what a
  continuation is about to do (`IntentsOK`) cannot set one behind them.
* `TurnReactorProofs`, its second part: where each message is. A message that was
  sent is somewhere, in at most one place: in the memory queue, in the log of
  markers not consumed, in an event on the call stack, in the message `prompt()`
  was called with, in a turn, answered or dropped; `Course` lists the eight
  combinations that occur. From it DroppedIsFinal (DroppedStaysDropped),
  NothingIsLost (NoMessageLost), SettledIsIdle (SettledMeansIdle, which no run
  checks as it stands) and AnsweredOnce (AnsweredAtMostOnce); NoneIsStranded
  (NoStrandedFollowUp) says that a waiting message always has something that will
  look at the queue: the turn in flight, a drain that is about to run, or an event
  whose handler drains. Each theorem has hypotheses on the switches of the model,
  the fewest under which it holds: no calls from continuations (`~MicroInputs`)
  and no compaction that begins in the `idle` or `busy` state, or no automatic
  one. Section 5 lists the behaviour of the code that violates each theorem
  without them. NoneIsStranded needs no limit on the callers.
* `LockProofs`, of ScopeLock: OneEngineHolds (OneEngineInSequence). As long as no
  calls overlap, the lock of an active engine is in the file and fresh, except
  while its own heartbeat rewrites it; whoever has decided to write, rename or
  unlink does so while no engine is active; and a judgement is about the active
  lock. Of PidLock: OneDriver (ExclusiveInSequence), FileNamesHolder
  (HolderRecorded), OnlyHoldersRefuse (RefusedByHolder). Without overlapping
  calls, at most one process is inside, so the file does not change under it but
  by itself; a live holder's pid stays in the file until it releases.
* `EventLogProofs`: StoreIsAppendOnlyLog, the refinement of AppendOnlyLog by
  EventLog for any number of processes, events, retries and faults, and
  SequencesNeverCollide (NeverCollides). `LogInv` says that only the process that
  holds the write lock has an insert under way, that its sequence is still the one
  after the end of the table, and that the table holds a key once; the look-up of
  a key outside the transaction proves nothing, the unique index at the commit
  does. EachIsToldOnce (ToldOnce): the loops over the subscribers that are
  suspended below a nested append each own an event of their own, and what a
  subscriber is still owed is what those loops have yet to reach (`ToldInv`); a
  loop ends only when nobody it owes is left, which rests on the least element of
  a set of naturals.
* `SessionIndexProofs`: TypeCorrect for any number of processes on one log and one
  snapshot. `IndexInv`: an index knows only what is in the log; each step an
  operation has decided agrees with its event, is possible when its turn comes,
  and leads to a session that exists. With one process (the hypothesis `Alone`)
  also ReloadsTheProjection (ReloadIsProjection), LivesTheProjection
  (LiveIsProjection), MessagesKeepTheirSession (MessageKeepsItsSession) and
  ChatIsNotHijacked (ChatNotHijacked). `SoloInv`: the rows in memory are the
  projection of the log, and the snapshot is that of the log up to its watermark;
  each hand-written change of the manager is the reducer's. The projection is a
  function on the prefixes of the log, and what holds of it is shown by the least
  prefix that would be an exception. `RunsInv`: in the projection, a thread that a
  run was the first to use is a background one, which no start selects and no way
  back leads to, until the user goes there or a run makes it interactive; and the
  steps the user has caused wake only a thread he goes to. With two processes the
  first three of these fail, without the exemption of what a run has made
  interactive the fourth (§5).
* `TurnLogProofs`: TypeCorrect and NothingIsForgotten (NothingForgotten) for any
  number of facades, from `IInv`: only answers make calls and each call is made
  once; a START or an END is in the thread of the answer; every summary, in the
  log or still being written, covers what its session has before the first event
  it keeps, which later events cannot undo, neither those of the turn that goes on
  while it is written nor those of the thread it is stamped with in the end. With
  one facade also CallsStayPaired (CallsArePaired) and ContextIsWellFormed
  (ContextWellFormed). `SInv`: the log tells each thing of a call once, and what
  the turn or the recovery has yet to tell is not in the log; a START precedes its
  END there or in the plan; while a recovery runs that has not failed, every call
  left behind is told of in the log or in the rest of the plan, so that a death in
  its middle loses nothing. That no call is told of twice, and the context, do not
  rest on the recovery: it may fail. The context follows from lemmas about the
  sanitizer and the budget as functions on sequences: call a sequence clean in
  which no call is made twice and none is answered twice; whatever is drawn from a
  clean sequence in order is clean, and the sanitizer makes a well-formed sequence
  of every clean one. That the sanitizer needs this is no accident of the proof:
  turn_log_tenants shows two facades of one process answer a call twice, and the
  context is not repaired.
* `GatewayPoolProofs`: PoolTypeOK (TypeOK) and OneAgentServes (OneServingAgent),
  with any number of requests and agents and every disturbance at once. A spawn in
  flight excludes an entry in the pool, and whatever removes the entry stops its
  process in the same step. OneTellOwnsTheSlot (SlotExclusive) holds under every
  disturbance too: a relay holds the slot from the moment it is addressed to the
  moment it is over (`TellInv`). DeliveredAtMostOnce (DeliveredOnce),
  EachHearsItsOwn (RelayIsOwn) and AcknowledgedIsTaken (AckMeansTaken) hold as
  long as what their `Without` excludes has not happened: until then a prompt is
  in one place only, the pipe, the agent or nowhere, and the end of a turn on the
  wire is of the tell that the relay waits for. What is acknowledged is taken
  because the agent then has nothing else to do: a prompt meets no turn and no
  other prompt on its way to one (`LoneTurns`), one that is on its way was not
  taken before (`ComingWaits`), and so none is refused and nobody follows up
  (`AcksAreTaken`). With a turn of the agent's own, or one given up or retried,
  the code acknowledges what it then drops (§5).
* `SchedulerProofs`: all the safety properties that the runs check. TypeCorrect,
  NothingIsLost (NoTaskLost), PassiveIsIdle (PassiveHasNoTimer). The types need
  two facts more: the timeout of a lock always has a holder (else a timeout would
  be recorded for nobody), and of the queued runs only the first is under way and
  its occurrence is counted (a restart takes it back). The lemmas on acquire,
  release and reassign say that each leaves a well-formed lock table. No task is
  lost because a wanted task is in the cache *and* in the file: what `fireTask`
  reads back from the file then never removes it from the cache, and `persist`
  never from the file. Its premises are that no other process writes the file and
  that no write is cut by a death between unlink and rename, which loses every
  task (§5). RunsDoNotOverlap (NoOverlap) and FiresOnce (OncePerOccurrence): a
  task that nothing disturbs is in one place, its timer, the call of `fireTask`, a
  waiter of a lock, a queued run or the run under way (`OnePlace`), and each of
  them is for a later occurrence than the last dispatch, but for as many as timers
  were early or the clock was set back (`Fresher`): each of those costs one
  dispatch too many at most. NoneIsForgotten (EnabledHasFuture): the cache is the
  file as long as no other process writes it (`Saved`), a place is left only for
  the next one or for a new timer (`Future`, `RunsLive`); early timers and cut
  writes are allowed, a clock that is set back is not, since it can bring back a
  schedule that was over. CapIsKept (CapRespected) and EachRunRecordedOnce
  (RecordedOnce): a dispatch is counted in the task, or is of the one run under
  way (`CountedAll`); a row is added by the end of a run, and what is to add it is
  gone (`Rows`). HeldForItsRun (LockHeldOnlyForRun), OneRunPerSession
  (SessionExclusive), AbortsItsTurn (AbortsOwnTurn): a task holds or waits for
  only the key its target names and not both, the index and the holders agree
  (`KeysInv`), who holds a key has a run or is called and may run (`HeldOK`), and
  without preemption each run is on the key that its task is indexed under
  (`OnKeys`). A property that speaks of what is undisturbed is proved under the
  premises it states, for any mixture of the other disturbances; the runs check
  one kind at a time.
* `GatewayDaemonProofs`: NoneIsForgotten (KnownOrTold), OnlyTheKilledLeave
  (OnlyTheKilledLeak). An adapter that nobody told to stop is the registered child
  of its supervisor, for an enabled channel or one whose last change could not be
  written, even when the gateway is gone; a gateway that is not yet up has a
  supervisor that has not started, and one that stops has no settings timer and
  has told every adapter, unless a client asked it to run a channel in between
  (`late`).

They assume only the named ASSUMEs of the modules, which TLC evaluates in the
runs, and the hypotheses on constants that a theorem states itself: switches of
the model under which the property holds at all; for four theorems of
SessionIndex, that one process has the workspace, which `main-agent.ts` is there
for; for two of TurnLog, that it has one facade. Section 5 lists what happens
otherwise. Every safety property and every refinement that a run checks is stated
by a theorem. Model-checked only: liveness (PromptSettles, QueueServed,
TellAnswered, DoubleDispatchEnds, OneGatewayRemains, CrashedComesBack), since the
prover does not do fairness.

## 5. Where code and intention differ

One violation run shows a disagreement with what a comment says; PROJECT.json
quotes it. The rest was met while modelling. Each is an exclusion in some
property (`Without`, `Undisturbed`), a property whose comment says "Not so", or
a constant the runs leave off, and can be reproduced by checking the property
with the constants given (in the run of its module, otherwise unchanged):

| what happens | at | reproduce |
|---|---|---|
| a follow-up queued during a compaction stays queued when it ends | reactor.ts:1460 | NoStrandedFollowUp, AutoCompaction TRUE, MaxMsgs 2; PromptSettles fails too |
| a compaction that ends during the first turn settles `prompt()` | runtime.ts:640 | SettledMeansIdle, CompactWhen {"busy"}, MaxCompacts 1 |
| a steer while `prompt()` waits for an idle compaction is lost | runtime.ts:305 | NoMessageLost, CompactWhen {"idle"}, MaxCompacts 1, MaxMsgs 2 |
| a raw marker replayed after a call from a continuation is answered twice | turn-state.ts:259 | AnsweredAtMostOnce, MicroInputs TRUE, MaxMsgs 3; also with AutoCompaction TRUE, CompactWhen {"busy"}, MaxCompacts 1 |
| a boundary after a catch-up, reload or manual run fires twice; `running`, which engine.ts:18-20 says prevents it, is never read | engine.ts:619 | AtMostOnce, one session, two queueing tasks, Events(1, {"restart"}) |
| a manual run during the scheduled one is dispatched too | locks.ts:74 | NoOverlap without `Undisturbed`, Events(1, {"manual"}) |
| a skipped occurrence is the last one | engine.ts:690 | EnabledHasFuture without the policy condition |
| a task deleted, paused, or edited down to its cap while it waits keeps the lock it is handed | engine.ts:647 | LockHeldOnlyForRun without `Undisturbed`, Events(1, {"edit"}) |
| a task deleted while its timed-out run goes on, or missing from the file when that run is fired, is put back by the end of the run: without a timer, or with a second row | engine.ts:760, 785 | EnabledHasFuture without its conditions, Events(1, {"timeout", "edit"}); RecordedOnce without the one on "external", Events(1, {"manual", "timeout", "external"}) |
| a timer that fires early, by no more than the tolerance, runs its task, and when the run ends before the boundary the next run is the same boundary again | engine.ts:636 | AtMostOnce, Events(1, {"early"}) |
| a boundary is dispatched again when the wall clock is set back over it | engine.ts:17-20 | AtMostOnce, Events(1, {"setback"}) |
| the engine's own death between the unlink and the rename of a write leaves no tasks: the next one starts without any | store.ts:80 | NoTaskLost without "cut", Events(1, {"cut"}) |
| a schedule that was over when its task was last rescheduled stays without a timer when the clock is set back before its end | engine.ts:594 | EnabledHasFuture without "setback", Events(1, {"early", "setback"}) |
| an edit during a run is undone when it ends | engine.ts:748, 545 | UserEditKept, Events(1, {"edit"}) or {"external"} |
| a continued session takes its waiters to a key nobody releases | locks.ts:163 | QueueServed, Events(3, {"continue"}), two sessions, no timeouts |
| a timeout of a task that waits for the runtime aborts another task's turn | engine.ts:194 | AbortsOwnTurn without its last condition, two sessions |
| a reader between unlink and rename finds no tasks, and writes that back | store.ts:80 | NoTaskLost without `Without`, Events(1, {"external"}) |
| two processes that start together both hold the lock (against the comments at 394-395, 403-404) | main-agent.ts:340 | MutualExclusion, two processes |
| a refused tell stays in an idle agent | gateway-server.ts:649 | NoTellStranded, one tell, Budget(1, {"local"}) |
| a prompt is acknowledged before its turn begins, and dropped when a turn of the agent's own, or a queued one, begins during the facade's awaits | rpc-mode.ts:947 | AckMeansTaken without `Without`, one tell, Budget(1, {"local"}) |
| a follow-up that the agent could not queue is told as delivered: `followUp` takes every answer for a success | rpc-client.ts:247 | AckMeansTaken without `Without`, one tell, Budget(1, {"local", "append"}) |
| a prompt unanswered for 30 s is delivered again as a follow-up | gateway-server.ts:656 | DeliveredOnce without `Without`, Budget(1, {"refusal"}) |
| the completion of a failed turn that is retried is heard as its end: the slot is given away, and what is relayed is not the answer | reactor.ts:1209, rpc-client.ts:460 | RelayIsOwn without `Without`, Budget(1, {"retry"}) |
| the end of the user's turn is relayed as the answer to a tell | gateway-server.ts:644 | RelayIsOwn without `Without`, Budget(1, {"local"}) |
| a health check tears down the successor of the agent it asked; a window replaces an agent in the middle of a turn | gateway-server.ts:1071, 366 | NoHarm, gateway_pool's scenarios |
| a window that meets a headless spawn in flight gets an agent that cannot ask it | gateway-server.ts:352 | WindowIsAnswerable, gateway_pool's scenarios |
| a contender reads the empty file of a lock that is being created or rewritten and renames the fresh lock away: two engines (the comment at 76-80 says exactly one contender succeeds) | scope-lock.ts:92 | OneEngine with Spec, MaxLapses 0, MaxOverlaps 1 |
| two processes overwrite each other's rows of the session index; the watermark of one covers events it has not heard | session-manager.ts, _persistIndex | ReloadIsProjection, LiveIsProjection, MessageKeepsItsSession, Procs {p1, p2} |
| a fork of a closed background session does not promote its thread, so the next start may not come back to it | session-manager.ts, forkFromSession | NavigatedIsPromoted |
| a scheduled run that forks its own session makes its thread interactive, and one that goes on in a pinned session that has ended gets an interactive one: the next start may take the chat there | session-manager.ts:242, 306 | NoRunIsSelected |
| a recovery that throws is only logged: the facade opens on a log with calls that have no end | store-setup.ts:77 | OpenMeansRepaired |
| a turn cut short before its answer is never closed in the log | crash-recovery.ts | InterruptedTurnsAreClosed |
| what a summary was made of is still sent when it lies in the session that was continued | compaction-engine.ts | SummarizedIsGone |
| a second facade of one process recovers the turn that is running in the first | store-setup.ts:68 | run turn_log_tenants; CallsArePaired fails in it too |
| after a failed write the head is one ahead of the log, and a snapshot saved then is marked with it | sqlite-store.ts, _nextSequence | HeadIsStored |
| a gateway that stops removes the socket of its successor: Node's `server.close` unlinks by name, past the inode check | gateway-server.ts:1252 | OthersFileKept; CloseUnlinks FALSE makes it hold |
| one unanswered ping is enough for a client to remove the socket of a living gateway ("NEVER steal the path", gateway-server.ts:1196) | gateway-lifecycle.ts:223 | `[][(path # Nobody /\ gw[path] = "up") => path' = path]_vars` |
| a change of a channel whose write fails is in force in memory but its adapter is not touched: one that is switched off goes on running | channel-supervisor.ts:340, 359 | KnownOrTold without `unsaved` |
| a gateway that reads no socket file, or another's, right after it has bound its own never notices that it was displaced: two gateways remain | gateway-server.ts:1093, 1173 | OneGatewayAnswers |
| a start that fails after `spawn` has returned (no such program, no memory) leaves a child registered that never ran: nothing starts the adapter again | channel-supervisor.ts:285 | CrashedComesBack without "spawn" |
| a channel operation during shutdown starts an adapter that outlives the gateway, or keeps its process from exiting | channel-supervisor.ts, save | OnlyTheKilledLeak without `late` |

Also seen, and visible in the model's actions, without a property of its own:
a context budget below 100 tokens keeps every message, since the number of
messages to keep is then 0 and `slice(-0)` is the whole (session-projection.ts,
`_truncateByTokens`);
the wait for busy agents before a restart reads one status for ever
(gateway-lifecycle.ts:205), so it lasts its full 30 s; overlapping gateways
write `channels.json` whole, and an edit made through the other is lost; a
spawn that throws is not tried again either, an adapter that exits with 0 is not
started again; clients of different versions restart each other's gateways; after
two overlapping calls every scheduler engine of a scope may be demoted, and a
passive one tries again only at its next reload (engine.ts:294).

## 6. Not modelled

Text and its rendering, token counts, model choice, extensions, tools and user
interfaces: no protocol among concurrent parts, or I/O. Streaming is one step
(chunks are not persisted). The goal scheduler: nothing constructs it. Inside the
modelled parts: duplicate ids of tool calls, provider fallback and checkpoints
(turn loop); pause_until, blackout windows and the cron grammar (scheduler);
prompts that an extension or one of its commands handles before a turn begins
(gateway); the test of a channel and its last error, and a gateway that is killed
in the middle of a write of `channels.json`, or reads it during one (channel
supervisor); pids of different length (lock); sequences given by the caller of
append, queries (event store); timeline and usage (sessions); event fan-out and
the relayed reply as a tell of its own (gateway).

The models stand for a small part of the repository's lines, about a twentieth of
105,000: most of them are terminal, web and desktop interfaces, exports, package
and model management, and adapters to services, where there is no order of events
to get wrong that a model would show.

## 7. Plan

Done: TurnReactor, SessionLocks, SchedulerEngine, ScopeLock, PidLock, EventLog
with AppendOnlyLog, SessionIndex, TurnLog (crash recovery, context, compaction),
GatewayPool, ChannelSupervisor, GatewayDaemon. Left, in this order:

1. The token file of the credentials and its lock (`auth-storage.ts`): a refresh
   by two processes is made once, and the newer token stays.
2. The queue that serialises the tools' writes to one file
   (`tools/file-mutation-queue.ts`).
3. Two SchedulerEngines on one `tasks.json` composed with ScopeLock: what a
   double dispatch costs until the heartbeat ends it.
4. An abstract turn server (messages arrive, are answered one at a time or
   dropped), which TurnReactor implements under a mapping; duplicate tool-call
   ids in the turn loop.
5. Cron's next run as a pure operator against a reference definition.
6. The bridge of the web and desktop clients, and the runtime of the channels.

Theorems worth proving next: the refinement of an abstract turn server, and
whatever safety property a new module states. Runs for new modules make room by
merging those that ask one question of one module.
