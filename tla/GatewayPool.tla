---------------------------- MODULE GatewayPool ----------------------------
(***************************************************************************)
(* One workspace of the gateway daemon                                     *)
(* (packages/gateway/gateway-server.ts): the pool entry that holds its     *)
(* agent process, the requests that spawn, use and replace it, and the     *)
(* pipes to the agent (packages/rpc/rpc-client.ts and rpc-mode.ts).        *)
(* Workspaces share nothing but shutdown, so one is enough.                *)
(*                                                                         *)
(* An agent is a process and its pool entry.  A request is a tell, or the  *)
(* attach or rpc of a client: of a window with a human behind it, or of a  *)
(* headless one (a bot channel, the scheduler guard).                      *)
(*                                                                         *)
(* The gateway is one JavaScript thread: what a promise continues runs     *)
(* before the next event is read from a pipe, a socket or a timer (Quiet). *)
(***************************************************************************)
EXTENDS Naturals, Sequences, FiniteSets

CONSTANTS
  Requests,
  Agents,      \* agent processes, numbers, spawned in that order
  None,
  User,        \* a turn of the agent that no tell asked for
  InitKinds,   \* the kinds the requests can have: functions from Requests
  Budgets      \* bound: how often each disturbance happens, one function per scenario

Kinds == {"tell", "window", "headless"}

Disturbances ==
  {"local",    \* the agent starts a turn of its own: a channel's prompt, a scheduled task
   "crash",    \* an agent process dies
   "spawn",    \* an agent process does not start
   "idle",     \* the idle timer evicts the agent
   "probe",    \* a health check begins
   "stuck",    \* an agent does not answer one
   "refusal",  \* an accepted or refused prompt is not answered for 30 s
   "long",     \* a turn outlasts the relay timeout
   "retry",    \* a turn completes with an error and is tried again
   "append",   \* an agent cannot write a follow-up to its log
   "stop"}     \* the gateway shuts down

ASSUME PoolAssumption ==
  /\ Agents \subseteq Nat
  /\ None \notin Requests \cup Agents /\ User \notin Requests \cup {None}
  /\ InitKinds \subseteq [Requests -> Kinds]
  /\ Budgets \subseteq [Disturbances -> Nat]

VARIABLES
  \* the gateway
  pool,        \* the workspace's entry
  spawning,    \* the spawn in flight
  shutdown,    \* "no", "begun" (channels are stopped first), "done"
  probed,      \* the agent the health check waits for
  \* the entries and their processes
  life, headless, busy, queue,
  turn,        \* whose turn the agent runs
  followUps,   \* messages queued inside it
  coming,      \* prompts it acknowledged and has not started, or died before it did
  inbox, outbox,
  \* the requests
  kind, pc,
  given,       \* the entry a request works with
  settled,     \* waitForIdle: "no", "listening", "yes"
  heard,       \* whose turn settled it
  accepted,    \* ghost: how often an agent took the message
  \* ghosts
  harmed,      \* agents torn down for the wrong reason
  allowed, used

poolVars == <<pool, spawning, shutdown, probed>>
agentVars == <<life, headless, busy, queue>>
turnVars == <<turn, followUps, coming>>
pipes == <<inbox, outbox>>
requestVars == <<kind, pc, given, settled, heard, accepted>>
ghosts == <<harmed, allowed, used>>
vars == <<poolVars, agentVars, turnVars, pipes, requestVars, ghosts>>

Spend(what) ==
  /\ used[what] < allowed[what]
  /\ used' = [used EXCEPT ![what] = @ + 1]

\* A continuation is due: it runs before anything else does.
Continuing(r) ==
  \/ pc[r] \in {"ready", "granted"}
  \/ pc[r] = "replacing" /\ life[given[r]] = "gone"
Quiet == \A r \in Requests : ~Continuing(r)

Goes(r, place) == pc' = [pc EXCEPT ![r] = place]

Prompted == {"prompting", "settling"}   \* where a tell owns the turn slot
Owners(a) == {r \in Requests : given[r] = a /\ pc[r] \in Prompted}
-----------------------------------------------------------------------------
(* Teardown *)

\* What teardownAgent does before it awaits client.stop(), of a process that is
\* "stopping" or has "exited".
Teardown(a, stage) ==
  /\ pool' = None
  /\ life' = [life EXCEPT ![a] = stage]
  /\ queue' = [queue EXCEPT ![a] = <<>>]
  /\ outbox' = [outbox EXCEPT ![a] = <<>>]

Waiting(a) == {r \in Requests : given[r] = a /\ pc[r] = "spawning"}
Rejected(a) == {queue[a][i] : i \in DOMAIN queue[a]}
PcWithout(some) == [r \in Requests |-> IF r \in some THEN "failed" ELSE pc[r]]

\* The process is gone: the turn with it, and every command still unanswered.
\* A tell whose prompt failed so gives its slot back, and cannot follow up.
Stopped(a) ==
  /\ Quiet /\ life[a] \in {"stopping", "exited"}
  /\ LET unanswered == {r \in Requests : given[r] = a /\ pc[r] \in {"prompting", "following"}}
     IN /\ pc' = PcWithout(unanswered \cup Waiting(a))
        /\ busy' = [busy EXCEPT ![a] = @ /\ \A r \in unanswered : pc[r] # "prompting"]
  /\ life' = [life EXCEPT ![a] = "gone"]
  /\ spawning' = IF spawning = a THEN None ELSE spawning
  /\ turn' = [turn EXCEPT ![a] = None] /\ followUps' = [followUps EXCEPT ![a] = <<>>]
  /\ inbox' = [inbox EXCEPT ![a] = <<>>]
  /\ UNCHANGED <<pool, shutdown, probed, headless, queue, outbox, coming, kind, given, settled,
                 heard, accepted, ghosts>>
-----------------------------------------------------------------------------
(* Finding or spawning the agent *)

\* Mutant: concurrent requests each spawn an agent of their own.
NoSpawnInFlight == TRUE

MaySpawn == spawning = None

Fresh == {a \in Agents : life[a] = "none" /\ \A b \in Agents : b < a => life[b] # "none"}

\* getOrCreateAgent
GetOrCreate(r) ==
  \/ /\ pool # None
     /\ given' = [given EXCEPT ![r] = pool] /\ Goes(r, "ready")
     /\ UNCHANGED <<spawning, life, headless>>
  \/ /\ pool = None /\ ~MaySpawn
     /\ given' = [given EXCEPT ![r] = spawning] /\ Goes(r, "spawning")
     /\ UNCHANGED <<spawning, life, headless>>
  \/ /\ pool = None /\ MaySpawn /\ shutdown = "no"
     /\ \E a \in Fresh :
          /\ spawning' = a
          /\ life' = [life EXCEPT ![a] = "starting"]
          /\ headless' = [headless EXCEPT ![a] = (kind[r] # "window")]
          /\ given' = [given EXCEPT ![r] = a]
     /\ Goes(r, "spawning")
  \/ /\ pool = None /\ MaySpawn
     /\ shutdown # "no" \/ Fresh = {}   \* bound: the last agent was used
     /\ Goes(r, "failed")
     /\ UNCHANGED <<given, spawning, life, headless>>

Replaceable(a) == headless[a] /\ ~busy[a] /\ queue[a] = <<>>

\* ensureInteractiveAgent: a window replaces a headless agent that is idle.
ArriveToReplace(r) ==
  /\ Quiet /\ pc[r] = "new" /\ kind[r] = "window"
  /\ pool # None /\ Replaceable(pool)
  /\ Teardown(pool, "stopping")
  /\ given' = [given EXCEPT ![r] = pool]
  /\ pc' = [PcWithout(Rejected(pool)) EXCEPT ![r] = "replacing"]
  /\ harmed' = IF turn[pool] # None THEN harmed \cup {pool} ELSE harmed
  /\ UNCHANGED <<spawning, shutdown, probed, headless, busy, turnVars, inbox, kind,
                 settled, heard, accepted, allowed, used>>

Arrive(r) ==
  /\ Quiet /\ pc[r] = "new"
  /\ ~(kind[r] = "window" /\ pool # None /\ Replaceable(pool))
  /\ GetOrCreate(r)
  /\ UNCHANGED <<pool, shutdown, probed, busy, queue, turnVars, pipes, kind, settled,
                 heard, accepted, ghosts>>

Replaced(r) ==
  /\ pc[r] = "replacing" /\ life[given[r]] = "gone"
  /\ GetOrCreate(r)
  /\ UNCHANGED <<pool, shutdown, probed, busy, queue, turnVars, pipes, kind, settled,
                 heard, accepted, ghosts>>

JoinsPool == shutdown = "no"

\* client.start() has returned; an agent too late for the pool is stopped.
SpawnSucceeds(a) ==
  /\ Quiet /\ life[a] = "starting"
  /\ IF JoinsPool
     THEN /\ pool' = a /\ spawning' = IF spawning = a THEN None ELSE spawning
          /\ life' = [life EXCEPT ![a] = "running"]
          /\ pc' = [r \in Requests |-> IF r \in Waiting(a) THEN "ready" ELSE pc[r]]
     ELSE life' = [life EXCEPT ![a] = "stopping"] /\ UNCHANGED <<pool, spawning, pc>>
  /\ UNCHANGED <<shutdown, probed, headless, busy, queue, turnVars, pipes, kind, given,
                 settled, heard, accepted, ghosts>>

SpawnFails(a) ==
  /\ Quiet /\ life[a] = "starting" /\ Spend("spawn")
  /\ spawning' = IF spawning = a THEN None ELSE spawning
  /\ life' = [life EXCEPT ![a] = "gone"]
  /\ pc' = PcWithout(Waiting(a))
  /\ UNCHANGED <<pool, shutdown, probed, headless, busy, queue, turnVars, pipes, kind,
                 given, settled, heard, accepted, harmed, allowed>>

\* A client is attached: its events come from whatever agent is in the pool.
Attached(r) ==
  /\ pc[r] = "ready" /\ kind[r] # "tell"
  /\ Goes(r, "attached")
  /\ UNCHANGED <<poolVars, agentVars, turnVars, pipes, kind, given, settled, heard,
                 accepted, ghosts>>

Detach(r) ==
  /\ Quiet /\ pc[r] = "attached"
  /\ Goes(r, "left")
  /\ UNCHANGED <<poolVars, agentVars, turnVars, pipes, kind, given, settled, heard,
                 accepted, ghosts>>
-----------------------------------------------------------------------------
(* The turn slot *)

\* waitForIdle, then the prompt: the slot is taken until the turn settles.
TakeSlot(r) ==
  LET a == given[r] IN
  /\ busy' = [busy EXCEPT ![a] = TRUE]
  /\ settled' = [settled EXCEPT ![r] = "listening"]
  /\ inbox' = [inbox EXCEPT ![a] = Append(@, [op |-> "prompt", by |-> r])]
  /\ Goes(r, "prompting")

\* Mutant: a tell does not look at the slot.
NeverBusy(a) == FALSE

IsBusy(a) == busy[a]

TellTakes(r) ==
  /\ pc[r] = "ready" /\ kind[r] = "tell" /\ ~IsBusy(given[r])
  /\ TakeSlot(r)
  /\ UNCHANGED <<poolVars, life, headless, queue, turnVars, outbox, kind, given, heard,
                 accepted, ghosts>>

TellWaits(r) ==
  /\ pc[r] = "ready" /\ kind[r] = "tell" /\ IsBusy(given[r])
  /\ queue' = [queue EXCEPT ![given[r]] = Append(@, r)]
  /\ Goes(r, "queued")
  /\ UNCHANGED <<poolVars, life, headless, busy, turnVars, pipes, kind, given, settled,
                 heard, accepted, ghosts>>

TellGranted(r) ==
  /\ pc[r] = "granted"
  /\ IF pool = given[r]
     THEN TakeSlot(r)
     ELSE Goes(r, "failed") /\ UNCHANGED <<busy, settled, inbox>>
  /\ UNCHANGED <<poolVars, life, headless, queue, turnVars, outbox, kind, given, heard,
                 accepted, ghosts>>

\* Mutant: the slot goes free, but nobody is told.
JustFree(a, places) ==
  /\ busy' = [busy EXCEPT ![a] = FALSE]
  /\ pc' = places /\ UNCHANGED queue

\* releaseTurnSlot, when the requests are otherwise at the given places.
Release(a, places) ==
  /\ busy' = [busy EXCEPT ![a] = FALSE]
  /\ queue' = [queue EXCEPT ![a] = IF @ = <<>> THEN @ ELSE Tail(@)]
  /\ pc' = IF queue[a] = <<>> THEN places ELSE [places EXCEPT ![Head(queue[a])] = "granted"]
-----------------------------------------------------------------------------
(* The pipes *)

Alive(a) == life[a] \in {"running", "stopping"}

IsRunning(a) == turn[a] # None

\* What the agent writes is lost once the gateway has stopped reading.
Write(a, what, r) ==
  outbox' = IF life[a] = "running"
            THEN [outbox EXCEPT ![a] = Append(@, [line |-> what, by |-> r])]
            ELSE outbox

Reads(a, op) ==
  /\ Quiet /\ Alive(a) /\ inbox[a] # <<>> /\ Head(inbox[a]).op = op
  /\ inbox' = [inbox EXCEPT ![a] = Tail(@)]

\* A prompt is refused while a turn runs.  Otherwise it is acknowledged at once,
\* and the facade goes on by itself.
ReadsPrompt(a) ==
  /\ Reads(a, "prompt")
  /\ LET r == Head(inbox[a]).by IN
     IF IsRunning(a)
     THEN Write(a, "error", r) /\ UNCHANGED coming
     ELSE Write(a, "success", r) /\ coming' = [coming EXCEPT ![a] = @ \cup {r}]
  /\ UNCHANGED <<poolVars, agentVars, turn, followUps, requestVars, ghosts>>

\* The facade, past its awaits, comes to the runtime, which throws if another
\* turn has begun meanwhile: nobody waits for that error.
TurnBegins(a, r) ==
  /\ Quiet /\ Alive(a) /\ r \in coming[a]
  /\ coming' = [coming EXCEPT ![a] = @ \ {r}]
  /\ IF IsRunning(a) THEN UNCHANGED <<turn, accepted>>
     ELSE /\ turn' = [turn EXCEPT ![a] = r]
          /\ accepted' = [accepted EXCEPT ![r] = @ + 1]
  /\ UNCHANGED <<poolVars, agentVars, followUps, pipes, kind, pc, given, settled, heard, ghosts>>

\* A follow-up is queued in any case, for the end of the turn or for the next
\* prompt, unless its event cannot be appended.
ReadsFollowUp(a) ==
  /\ Reads(a, "followUp")
  /\ LET r == Head(inbox[a]).by IN
     \/ /\ Write(a, "success", r)
        /\ followUps' = [followUps EXCEPT ![a] = Append(@, r)]
        /\ accepted' = [accepted EXCEPT ![r] = @ + 1]
        /\ UNCHANGED used
     \/ /\ Spend("append")
        /\ Write(a, "error", r)
        /\ UNCHANGED <<followUps, accepted>>
  /\ UNCHANGED <<poolVars, agentVars, turn, coming, kind, pc, given, settled, heard,
                 harmed, allowed>>

\* A turn completes; a follow-up queued meanwhile is the next one.
TurnEnds(a) ==
  /\ Quiet /\ Alive(a) /\ turn[a] # None
  /\ Write(a, "completed", turn[a])
  /\ turn' = [turn EXCEPT ![a] = IF followUps[a] = <<>> THEN None ELSE Head(followUps[a])]
  /\ followUps' = [followUps EXCEPT ![a] = IF @ = <<>> THEN @ ELSE Tail(@)]
  /\ UNCHANGED <<poolVars, agentVars, inbox, coming, requestVars, ghosts>>

\* A failed turn completes before its retry is scheduled: it is heard as over.
TurnFails(a) ==
  /\ Quiet /\ Alive(a) /\ turn[a] # None /\ Spend("retry")
  /\ Write(a, "completed", turn[a])
  /\ UNCHANGED <<poolVars, agentVars, turnVars, inbox, requestVars, harmed, allowed>>

LocalTurn(a) ==
  /\ Quiet /\ life[a] = "running" /\ turn[a] = None /\ Spend("local")
  /\ turn' = [turn EXCEPT ![a] = User]
  /\ UNCHANGED <<poolVars, agentVars, followUps, coming, pipes, requestVars, harmed, allowed>>

\* Mutant: the follow-up is queued, and the prompt is tried again.
PromptAgain(r) ==
  /\ Release(given[r], [pc EXCEPT ![r] = "granted"])
  /\ settled' = [settled EXCEPT ![r] = "no"]
  /\ inbox' = [inbox EXCEPT ![given[r]] = Append(@, [op |-> "followUp", by |-> r])]

\* A refused prompt gives the slot back and queues the message in the agent.
Refuse(r) ==
  /\ Release(given[r], [pc EXCEPT ![r] = "following"])
  /\ settled' = [settled EXCEPT ![r] = "no"]
  /\ inbox' = [inbox EXCEPT ![given[r]] = Append(@, [op |-> "followUp", by |-> r])]

ReadLine(a, line) ==
  /\ Quiet /\ life[a] = "running" /\ outbox[a] # <<>> /\ Head(outbox[a]).line = line
  /\ outbox' = [outbox EXCEPT ![a] = Tail(@)]

\* AGENT_TURN_COMPLETED settles every waitForIdle of the agent, whosever turn
\* it was; a tell whose prompt is answered then gives its slot back.
ReadCompleted(a) ==
  /\ ReadLine(a, "completed")
  /\ LET listening == {r \in Requests : given[r] = a /\ settled[r] = "listening"}
         over == {r \in listening : pc[r] = "settling"}
         places == [r \in Requests |-> IF r \in over THEN "acked" ELSE pc[r]]
     IN /\ settled' = [r \in Requests |-> IF r \in listening THEN "yes" ELSE settled[r]]
        /\ heard' = [r \in Requests |-> IF r \in listening THEN Head(outbox[a]).by ELSE heard[r]]
        /\ IF over # {} THEN Release(a, places) ELSE UNCHANGED <<busy, queue, pc>>
  /\ UNCHANGED <<poolVars, life, headless, turnVars, inbox, kind, given, accepted, ghosts>>

\* The answer to a prompt, or to a follow-up.
ReadSuccess(a) ==
  /\ ReadLine(a, "success")
  /\ LET r == Head(outbox[a]).by IN
     IF pc[r] = "prompting" /\ settled[r] = "yes"
     THEN Release(a, [pc EXCEPT ![r] = "acked"])
     ELSE /\ pc' = CASE pc[r] = "prompting" -> [pc EXCEPT ![r] = "settling"]
                     [] pc[r] = "following" -> [pc EXCEPT ![r] = "acked"]
                     [] OTHER -> pc
          /\ UNCHANGED <<busy, queue>>
  /\ UNCHANGED <<poolVars, life, headless, turnVars, inbox, kind, given, settled, heard,
                 accepted, ghosts>>

\* followUp() of the client takes every answer for a success.
ReadError(a) ==
  /\ ReadLine(a, "error")
  /\ LET r == Head(outbox[a]).by IN
     CASE pc[r] = "prompting" -> Refuse(r)
       [] pc[r] = "following" -> Goes(r, "acked") /\ UNCHANGED <<busy, queue, settled, inbox>>
       [] OTHER -> UNCHANGED <<busy, queue, pc, settled, inbox>>
  /\ UNCHANGED <<poolVars, life, headless, turnVars, kind, given, heard, accepted, ghosts>>
-----------------------------------------------------------------------------
(* Timers, failures and shutdown *)

\* sendCommand gives up on an answer; handleTell takes that for a refusal.
PromptTimesOut(r) ==
  /\ Quiet /\ pc[r] = "prompting" /\ life[given[r]] = "running" /\ Spend("refusal")
  /\ Refuse(r)
  /\ UNCHANGED <<poolVars, life, headless, turnVars, outbox, kind, given, heard, accepted,
                 harmed, allowed>>

\* A follow-up without an answer is one refused.
FollowUpTimesOut(r) ==
  /\ Quiet /\ pc[r] = "following" /\ life[given[r]] = "running" /\ Spend("refusal")
  /\ Goes(r, "failed")
  /\ UNCHANGED <<poolVars, agentVars, turnVars, pipes, kind, given, settled, heard, accepted,
                 harmed, allowed>>

\* waitForIdle gives up; it is the only end when the agent is gone.
SettleTimesOut(r) ==
  /\ Quiet /\ pc[r] = "settling"
  /\ IF life[given[r]] \in {"stopping", "exited", "gone"} THEN UNCHANGED used ELSE Spend("long")
  /\ Release(given[r], [pc EXCEPT ![r] = "acked"])
  /\ UNCHANGED <<poolVars, life, headless, turnVars, pipes, kind, given, settled, heard,
                 accepted, harmed, allowed>>

TornDown(why, stage) ==
  /\ Quiet /\ pool # None /\ Spend(why)
  /\ Teardown(pool, stage)
  /\ pc' = PcWithout(Rejected(pool))
  /\ UNCHANGED <<spawning, headless, busy, kind, given, settled, heard, accepted, allowed>>

\* The process has exited by itself, with all it knew; onExit evicts its entry.
Crash ==
  /\ TornDown("crash", "exited")
  /\ turn' = [turn EXCEPT ![pool] = None] /\ followUps' = [followUps EXCEPT ![pool] = <<>>]
  /\ inbox' = [inbox EXCEPT ![pool] = <<>>]
  /\ UNCHANGED <<shutdown, probed, coming, harmed>>

\* Activity keeps the timer away (a command, an event of a turn), and so do
\* the attached clients.
IdleEviction ==
  /\ pool # None /\ ~busy[pool] /\ queue[pool] = <<>> /\ turn[pool] = None
  /\ inbox[pool] = <<>> /\ outbox[pool] = <<>> /\ coming[pool] = {}
  /\ \A r \in Requests : pc[r] # "attached"
  /\ TornDown("idle", "stopping")
  /\ UNCHANGED <<shutdown, probed, turnVars, inbox, harmed>>

StartProbe ==
  /\ Quiet /\ probed = None /\ pool # None /\ ~busy[pool] /\ Spend("probe")
  /\ probed' = pool
  /\ UNCHANGED <<pool, spawning, shutdown, agentVars, turnVars, pipes, requestVars,
                 harmed, allowed>>

\* The answer, or an entry that became busy meanwhile.
ProbeEnds ==
  /\ Quiet /\ probed # None /\ (life[probed] = "running" \/ busy[probed])
  /\ probed' = None
  /\ UNCHANGED <<pool, spawning, shutdown, agentVars, turnVars, pipes, requestVars,
                 ghosts>>

TornDownIfAny ==
  /\ Quiet
  /\ IF pool # None THEN Teardown(pool, "stopping") /\ pc' = PcWithout(Rejected(pool))
                    ELSE UNCHANGED <<pool, life, queue, outbox, pc>>
  /\ UNCHANGED <<spawning, headless, busy, kind, given, settled, heard, accepted, allowed>>

\* No answer, from an agent that is stuck or gone: whatever agent is in the
\* pool by now is torn down.
ProbeFails ==
  /\ probed # None /\ ~busy[probed]
  /\ IF life[probed] = "running" THEN TornDown("stuck", "stopping")
                                 ELSE TornDownIfAny /\ UNCHANGED used
  /\ probed' = None
  /\ harmed' = IF pool \notin {None, probed} THEN harmed \cup {pool} ELSE harmed
  /\ UNCHANGED <<shutdown, turnVars, inbox>>

StopBegins ==
  /\ Quiet /\ shutdown = "no" /\ Spend("stop")
  /\ shutdown' = "begun"
  /\ UNCHANGED <<pool, spawning, probed, agentVars, turnVars, pipes, requestVars, harmed, allowed>>

\* The channels are down: the agents are next.
StopAgents ==
  /\ shutdown = "begun" /\ TornDownIfAny
  /\ shutdown' = "done"
  /\ UNCHANGED <<probed, turnVars, inbox, harmed, used>>
-----------------------------------------------------------------------------
Init ==
  /\ pool = None /\ spawning = None /\ shutdown = "no" /\ probed = None
  /\ life = [a \in Agents |-> "none"] /\ headless = [a \in Agents |-> FALSE]
  /\ busy = [a \in Agents |-> FALSE] /\ queue = [a \in Agents |-> <<>>]
  /\ turn = [a \in Agents |-> None] /\ followUps = [a \in Agents |-> <<>>]
  /\ coming = [a \in Agents |-> {}]
  /\ inbox = [a \in Agents |-> <<>>] /\ outbox = [a \in Agents |-> <<>>]
  /\ kind \in InitKinds
  /\ pc = [r \in Requests |-> "new"] /\ given = [r \in Requests |-> None]
  /\ settled = [r \in Requests |-> "no"] /\ heard = [r \in Requests |-> None]
  /\ accepted = [r \in Requests |-> 0]
  /\ harmed = {} /\ allowed \in Budgets /\ used = [d \in Disturbances |-> 0]

Continuation(r) ==
  Replaced(r) \/ Attached(r) \/ TellTakes(r) \/ TellWaits(r) \/ TellGranted(r)

Pipe(a) ==
  \/ ReadsPrompt(a) \/ ReadsFollowUp(a) \/ TurnEnds(a)
  \/ ReadCompleted(a) \/ ReadSuccess(a) \/ ReadError(a)
  \/ \E r \in Requests : TurnBegins(a, r)

Process(a) == SpawnSucceeds(a) \/ Stopped(a)

Next ==
  \/ \E r \in Requests :
       Arrive(r) \/ ArriveToReplace(r) \/ Continuation(r) \/ Detach(r)
       \/ PromptTimesOut(r) \/ FollowUpTimesOut(r) \/ SettleTimesOut(r)
  \/ \E a \in Agents : Pipe(a) \/ Process(a) \/ SpawnFails(a) \/ LocalTurn(a) \/ TurnFails(a)
  \/ Crash \/ IdleEviction \/ StartProbe \/ ProbeEnds \/ ProbeFails
  \/ StopBegins \/ StopAgents

Spec == Init /\ [][Next]_vars

\* The gateway's event loop, the agents and the two pipes go on; a turn ends;
\* a timer fires when nothing else will settle what it guards.
Fairness ==
  /\ \A r \in Requests :
       /\ WF_vars(Continuation(r))
       /\ WF_vars(SettleTimesOut(r) /\ life[given[r]] = "gone")
  /\ \A a \in Agents : WF_vars(Process(a)) /\ WF_vars(Pipe(a))

FairSpec == Spec /\ Fairness
-----------------------------------------------------------------------------
(* Properties *)

Places == {"new", "replacing", "spawning", "ready", "attached", "queued", "granted",
           "prompting", "settling", "following", "acked", "failed", "left"}

TypeOK ==
  /\ {pool, spawning, probed} \subseteq Agents \cup {None} /\ shutdown \in {"no", "begun", "done"}
  /\ life \in [Agents -> {"none", "starting", "running", "stopping", "exited", "gone"}]
  /\ headless \in [Agents -> BOOLEAN] /\ busy \in [Agents -> BOOLEAN]
  /\ \A a \in Agents : queue[a] \in Seq(Requests) /\ followUps[a] \in Seq(Requests)
  /\ turn \in [Agents -> Requests \cup {User, None}] /\ coming \in [Agents -> SUBSET Requests]
  /\ kind \in [Requests -> Kinds] /\ pc \in [Requests -> Places]
  /\ given \in [Requests -> Agents \cup {None}]
  /\ settled \in [Requests -> {"no", "listening", "yes"}]
  /\ accepted \in [Requests -> Nat] /\ harmed \subseteq Agents

Without(kinds) == \A k \in kinds : used[k] = 0

\* Concurrent requests, spawns that fail and agents that die never leave two
\* agents of one workspace serving at once (the spawning map), and none is
\* left outside the pool, where nobody would stop it (spawnAgent's checks).
OneServingAgent ==
  \A a \in Agents :
    /\ life[a] = "running" => pool = a /\ shutdown # "done"
    /\ life[a] = "starting" => spawning = a

\* One tell at a time owns an agent's turn slot, and the slot is busy exactly
\* as long as somebody owns it.
SlotExclusive ==
  \A a \in Agents :
    /\ Cardinality(Owners(a)) <= 1
    /\ pool = a => (busy[a] <=> Owners(a) # {})

\* A message is handed to an agent once, as a prompt or as a follow-up, even
\* when the agent refuses it, dies or is replaced in between.
DeliveredOnce == Without({"refusal"}) => \A r \in Requests : accepted[r] <= 1

\* "delivered: true" is told only of a message that an agent took, or has yet to
\* start (unless it dies first).  A turn of its own, or a tell that follows a turn
\* given up or retried, may come first and make the agent drop the prompt it
\* acknowledged, and an error of a follow-up is taken for success.
AckMeansTaken ==
  Without({"local", "long", "refusal", "retry"}) =>
    \A r \in Requests : pc[r] \in {"settling", "acked"} =>
      accepted[r] >= 1 \/ r \in coming[given[r]]

\* The reply relayed to the sender is that of the told turn: tells that share
\* an agent never hear each other's turns end.  Turns the gateway does not own
\* break this, and so do turns it believes to be over and prompts it gave up.
RelayIsOwn ==
  Without({"local", "long", "refusal", "retry"}) =>
    \A r \in Requests : settled[r] = "yes" => heard[r] = r

\* Not so (README): a healthy agent is not torn down by the check of another
\* one, and one in the middle of a turn is not torn down for a window.
NoHarm == harmed = {}

\* Not so (README): a message queued in an agent is picked up when
\* the turn that was in its way is over.
NoTellStranded ==
  \A a \in Agents : life[a] = "running" /\ turn[a] = None => followUps[a] = <<>>

\* Not so (README): a window gets an agent that can ask its human.
WindowIsAnswerable ==
  \A r \in Requests : pc[r] = "attached" /\ kind[r] = "window" => ~headless[given[r]]

\* Every tell is answered, with an acknowledgement or an error.
TellAnswered ==
  \A r \in Requests :
    pc[r] = "ready" /\ kind[r] = "tell" ~> pc[r] \in {"settling", "acked", "failed"}
=============================================================================
