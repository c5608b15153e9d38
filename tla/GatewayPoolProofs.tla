------------------------ MODULE GatewayPoolProofs ------------------------
(***************************************************************************)
(* One agent of a workspace serves at a time, one tell at a time owns its  *)
(* turn slot, and what a tell is told of its message is so: for any number *)
(* of requests and agents, with every disturbance as often as it likes.    *)
(*                                                                         *)
(* The pool (PoolInv): only getOrCreateAgent spawns, with no entry in the pool   *)
(* and no spawn in flight, so a spawn in flight excludes an entry          *)
(* (SpawnExcludesEntry); whatever takes an agent out of the pool stops it  *)
(* in the same step (ServingIsPooled).                                     *)
(*                                                                         *)
(* The tells (TellInv): whoever owns a slot is placed with the agent of    *)
(* the pool (Slots), what is in a pipe is of a request that was told to    *)
(* that agent (Addressed), and a pipe is empty when its agent is gone      *)
(* (Drained).  The rest holds under a condition that only ever gets false: *)
(* while no prompt was given up, a message is in one place (OnePlace);     *)
(* while also no agent turned for itself, an agent is at its owner's turn  *)
(* (OwnTurns, LoneTurns), and takes what it acknowledged (AcksAreTaken).   *)
(***************************************************************************)
EXTENDS GatewayPool, FiniteSetTheorems, TLAPS

\* What the pool's variables hold.
Stages == {"none", "starting", "running", "stopping", "exited", "gone"}

\* An agent reads a command, and goes on to the turn of one it acknowledged.
AgentReads(a) == ReadsPrompt(a) \/ ReadsFollowUp(a)
Begins(a) == \E r \in Requests : TurnBegins(a, r)

PoolTypes ==
  /\ pool \in Agents \cup {None} /\ spawning \in Agents \cup {None}
  /\ life \in [Agents -> Stages]

\* An agent serves exactly while it is the pool's entry.
ServingIsPooled == \A a \in Agents : life[a] = "running" <=> pool = a

\* An agent that starts is the spawn in flight, and none is with an entry.
StartingIsInFlight == \A a \in Agents : life[a] = "starting" => spawning = a

SpawnExcludesEntry == spawning # None => pool = None

\* Nothing serves after the shutdown.
ShutDownIsEmpty == shutdown = "done" => pool = None /\ \A a \in Agents : life[a] # "running"

\* The inductive invariant of the pool.
PoolInv ==
  /\ PoolTypes /\ ServingIsPooled /\ StartingIsInFlight /\ SpawnExcludesEntry
  /\ ShutDownIsEmpty

\* What the invariant speaks of.
core == <<pool, spawning, shutdown, life>>

\* Steps that change none of what the invariant speaks of.
LEMMA PoolInvIfUnchanged == ASSUME PoolInv, UNCHANGED core PROVE PoolInv'
BY DEF PoolInv, PoolTypes, ServingIsPooled, StartingIsInFlight, SpawnExcludesEntry,
       ShutDownIsEmpty, core

\* An agent leaves the pool, and is stopped: teardownAgent.
LEMMA PoolInvIfTornDown ==
  ASSUME PoolInv, pool \in Agents, pool' = None, spawning' = spawning,
         NEW stage \in {"stopping", "exited"}, life' = [life EXCEPT ![pool] = stage]
  PROVE  PoolInv'
<1> USE PoolAssumption DEF PoolInv, PoolTypes
<1>1. PoolTypes'
  BY DEF Stages
<1>2. \A a \in Agents : life'[a] = "running" <=> pool' = a
  BY DEF ServingIsPooled
<1>3. StartingIsInFlight' /\ SpawnExcludesEntry' /\ ShutDownIsEmpty'
  BY <1>2 DEF StartingIsInFlight, SpawnExcludesEntry, ShutDownIsEmpty
<1> QED BY <1>1, <1>2, <1>3 DEF ServingIsPooled

\* An agent outside the pool, starting or stopping, goes one stage on.
LEMMA PoolInvIfGone ==
  ASSUME PoolInv, NEW a \in Agents, life[a] \in {"starting", "stopping", "exited"},
         NEW stage \in {"stopping", "gone"}, life' = [life EXCEPT ![a] = stage],
         pool' = pool, shutdown' = shutdown,
         spawning' = spawning \/ spawning' = IF spawning = a THEN None ELSE spawning,
         stage = "gone" \/ spawning' = spawning
  PROVE  PoolInv'
BY PoolAssumption DEF PoolInv, PoolTypes, Stages, ServingIsPooled, StartingIsInFlight,
   SpawnExcludesEntry, ShutDownIsEmpty

\* getOrCreate finds an entry, joins a spawn in flight, or starts one.
LEMMA GetOrCreateKeeps ==
  ASSUME PoolInv, NEW r \in Requests, GetOrCreate(r), UNCHANGED <<pool, shutdown>>
  PROVE  PoolInv'
<1> USE PoolAssumption
<1>1. CASE UNCHANGED <<spawning, life>>
  BY <1>1, PoolInvIfUnchanged DEF core
<1>2. ASSUME pool = None, spawning = None, shutdown = "no",
             NEW a \in Agents, life[a] = "none", spawning' = a,
             life' = [life EXCEPT ![a] = "starting"]
      PROVE  PoolInv'
  BY <1>2 DEF PoolInv, PoolTypes, Stages, ServingIsPooled, StartingIsInFlight,
     SpawnExcludesEntry, ShutDownIsEmpty
<1> QED BY <1>1, <1>2 DEF GetOrCreate, MaySpawn, Fresh

\* A spawn that succeeds joins the pool, or is stopped when the gateway is.
LEMMA SpawnKeeps ==
  ASSUME PoolInv, NEW a \in Agents, SpawnSucceeds(a) PROVE PoolInv'
<1> USE PoolAssumption DEF SpawnSucceeds
<1>1. CASE JoinsPool
  <2>1. spawning = a /\ pool = None
    BY DEF PoolInv, StartingIsInFlight, SpawnExcludesEntry
  <2> QED BY <1>1, <2>1 DEF JoinsPool, PoolInv, PoolTypes, Stages, ServingIsPooled,
             StartingIsInFlight, SpawnExcludesEntry, ShutDownIsEmpty
<1>2. CASE ~JoinsPool
  BY <1>2, PoolInvIfGone
<1> QED BY <1>1, <1>2

\* The teardown of whatever agent is in the pool.
LEMMA TornDownIfAnyKeeps ==
  ASSUME PoolInv, TornDownIfAny, shutdown' = shutdown \/ shutdown' = "done" PROVE PoolInv'
<1>1. CASE pool # None
  BY <1>1, PoolInvIfTornDown DEF TornDownIfAny, Teardown, PoolInv, PoolTypes
<1>2. CASE pool = None
  BY <1>2, PoolAssumption DEF TornDownIfAny, PoolInv, PoolTypes, ServingIsPooled,
     StartingIsInFlight, SpawnExcludesEntry, ShutDownIsEmpty
<1> QED BY <1>1, <1>2

\* The teardown of the agent in the pool, with a reason for its tells.
LEMMA TornDownKeeps ==
  ASSUME PoolInv, NEW why, NEW stage \in {"stopping", "exited"}, TornDown(why, stage)
  PROVE  PoolInv'
BY PoolInvIfTornDown DEF TornDown, Teardown, PoolInv, PoolTypes

\* What a request does.
LEMMA RequestKeeps ==
  ASSUME PoolInv, NEW r \in Requests,
         \/ Arrive(r) \/ ArriveToReplace(r) \/ Continuation(r) \/ Detach(r)
         \/ PromptTimesOut(r) \/ FollowUpTimesOut(r) \/ SettleTimesOut(r)
  PROVE  PoolInv'
<1>1. CASE Arrive(r)
  BY <1>1, GetOrCreateKeeps DEF Arrive
<1>2. CASE ArriveToReplace(r)
  BY <1>2, PoolInvIfTornDown DEF ArriveToReplace, Teardown, PoolInv, PoolTypes
<1>3. CASE Continuation(r)
  <2>1. CASE Replaced(r)
    BY <2>1, GetOrCreateKeeps DEF Replaced
  <2>2. CASE Attached(r) \/ TellTakes(r) \/ TellWaits(r) \/ TellGranted(r)
    <3>1. UNCHANGED core
      BY <2>2 DEF Attached, TellTakes, TellWaits, TellGranted, core, poolVars, agentVars
    <3> QED BY <3>1, PoolInvIfUnchanged
  <2> QED BY <1>3, <2>1, <2>2 DEF Continuation
<1>4. CASE Detach(r) \/ PromptTimesOut(r) \/ FollowUpTimesOut(r) \/ SettleTimesOut(r)
  <2>1. UNCHANGED core
    BY <1>4 DEF Detach, PromptTimesOut, FollowUpTimesOut, SettleTimesOut, core, poolVars, agentVars
  <2> QED BY <2>1, PoolInvIfUnchanged
<1> QED BY <1>1, <1>2, <1>3, <1>4

\* What an agent process does, and what is heard of it.
LEMMA AgentKeeps ==
  ASSUME PoolInv, NEW a \in Agents,
         Pipe(a) \/ Process(a) \/ SpawnFails(a) \/ LocalTurn(a) \/ TurnFails(a)
  PROVE  PoolInv'
<1>1. CASE Pipe(a) \/ LocalTurn(a) \/ TurnFails(a)
  <2>1. UNCHANGED core
    BY <1>1 DEF Pipe, AgentReads, Begins, ReadsPrompt, ReadsFollowUp, TurnBegins, Reads, TurnEnds,
       ReadCompleted, ReadSuccess, ReadError, LocalTurn, TurnFails, core, poolVars, agentVars
  <2> QED BY <2>1, PoolInvIfUnchanged
<1>2. CASE SpawnSucceeds(a)
  BY <1>2, SpawnKeeps
<1>3. CASE Stopped(a)
  BY <1>3, PoolInvIfGone DEF Stopped
<1>4. CASE SpawnFails(a)
  BY <1>4, PoolInvIfGone DEF SpawnFails
<1> QED BY <1>1, <1>2, <1>3, <1>4 DEF Process

\* The steps of the gateway's own timers and of its shutdown.
LEMMA GatewayKeeps ==
  ASSUME PoolInv,
         Crash \/ IdleEviction \/ StartProbe \/ ProbeEnds \/ ProbeFails \/ StopBegins \/ StopAgents
  PROVE  PoolInv'
<1>1. CASE Crash \/ IdleEviction
  BY <1>1, TornDownKeeps DEF Crash, IdleEviction
<1>2. CASE StartProbe \/ ProbeEnds
  <2>1. UNCHANGED core
    BY <1>2 DEF StartProbe, ProbeEnds, core, agentVars
  <2> QED BY <2>1, PoolInvIfUnchanged
<1>3. CASE ProbeFails
  BY <1>3, TornDownKeeps, TornDownIfAnyKeeps DEF ProbeFails
<1>4. CASE StopBegins
  BY <1>4 DEF StopBegins, agentVars, PoolInv, PoolTypes, ServingIsPooled,
     StartingIsInFlight, SpawnExcludesEntry, ShutDownIsEmpty
<1>5. CASE StopAgents
  BY <1>5, TornDownIfAnyKeeps DEF StopAgents
<1> QED BY <1>1, <1>2, <1>3, <1>4, <1>5

\* The empty pool.
LEMMA PoolInvInitially == Init => PoolInv
BY PoolAssumption DEF Init, PoolInv, PoolTypes, Stages, ServingIsPooled, StartingIsInFlight,
   SpawnExcludesEntry, ShutDownIsEmpty

\* Every step keeps the invariant.
LEMMA PoolInvKept == PoolInv /\ [Next]_vars => PoolInv'
<1> SUFFICES ASSUME PoolInv, [Next]_vars PROVE PoolInv'
  OBVIOUS
<1>1. CASE UNCHANGED vars
  BY <1>1, PoolInvIfUnchanged DEF vars, core, poolVars, agentVars
<1>2. CASE Next
  BY <1>2, RequestKeeps, AgentKeeps, GatewayKeeps DEF Next
<1> QED BY <1>1, <1>2

\* For any number of requests and agents, concurrent spawns, failed ones,
\* crashes, replacements and a shutdown never leave two agents of a workspace
\* serving, nor one outside the pool (getOrCreateAgent, spawnAgent, teardownAgent).
THEOREM OneAgentServes == Spec => []OneServingAgent
<1>1. PoolInv => OneServingAgent
  BY DEF PoolInv, ServingIsPooled, StartingIsInFlight, ShutDownIsEmpty, OneServingAgent
<1> QED BY <1>1, PoolInvInitially, PoolInvKept, PTL DEF Spec
-----------------------------------------------------------------------------
(* What the variables hold. *)

\* What is in the pipes: commands to an agent, its answers and its turns' ends.
Commands == [op : {"prompt", "followUp"}, by : Requests]
Answers == [line : {"success", "error"}, by : Requests]
Lines == Answers \cup [line : {"completed"}, by : Requests \cup {User}]

GatewayTypes ==
  /\ {pool, spawning, probed} \subseteq Agents \cup {None} /\ shutdown \in {"no", "begun", "done"}
  /\ life \in [Agents -> Stages] /\ headless \in [Agents -> BOOLEAN] /\ harmed \subseteq Agents

SlotTypes ==
  /\ busy \in [Agents -> BOOLEAN] /\ queue \in [Agents -> Seq(Requests)]
  /\ pc \in [Requests -> Places] /\ given \in [Requests -> Agents \cup {None}]

AgentTypes ==
  /\ turn \in [Agents -> Requests \cup {User, None}] /\ followUps \in [Agents -> Seq(Requests)]
  /\ coming \in [Agents -> SUBSET Requests]
  /\ inbox \in [Agents -> Seq(Commands)] /\ outbox \in [Agents -> Seq(Lines)]

TellTypes ==
  /\ kind \in [Requests -> Kinds]
  /\ settled \in [Requests -> {"no", "listening", "yes"}]
  /\ heard \in [Requests -> Requests \cup {User, None}]
  /\ accepted \in [Requests -> Nat] /\ used \in [Disturbances -> Nat]

Types == GatewayTypes /\ SlotTypes /\ AgentTypes /\ TellTypes

\* A request that works with an agent has one, and one that is about to use it
\* has an agent that serves; an agent that starts has only requests that wait.
Placed ==
  /\ spawning # None => life[spawning] # "none"
  /\ \A r \in Requests :
       /\ given[r] = None => pc[r] \in {"new", "failed"}
       /\ given[r] # None => life[given[r]] # "none"
       /\ given[r] # None /\ life[given[r]] = "starting" => pc[r] = "spawning"
       /\ pc[r] \in {"ready", "granted"} => life[given[r]] = "running"

\* What is read from a sequence.
LEMMA InSeq ==
  ASSUME NEW S, NEW s \in Seq(S)
  PROVE  /\ DOMAIN s = 1 .. Len(s) /\ Len(s) \in Nat
         /\ \A i \in DOMAIN s : s[i] \in S
         /\ s # <<>> <=> 1 \in DOMAIN s
OBVIOUS

\* What is appended comes last, and nothing else changes.
LEMMA Appended ==
  ASSUME NEW S, NEW s \in Seq(S), NEW x \in S
  PROVE  /\ Append(s, x) \in Seq(S)
         /\ DOMAIN Append(s, x) = 1 .. Len(s) + 1
         /\ Append(s, x)[Len(s) + 1] = x
         /\ \A i \in DOMAIN s : i \in DOMAIN Append(s, x) /\ Append(s, x)[i] = s[i]
         /\ \A i \in DOMAIN Append(s, x) : i = Len(s) + 1 \/ i \in DOMAIN s
OBVIOUS

\* What is left of a sequence when its head is taken.
LEMMA Tailed ==
  ASSUME NEW S, NEW s \in Seq(S), s # <<>>
  PROVE  /\ Tail(s) \in Seq(S) /\ Head(s) \in S /\ Head(s) = s[1] /\ 1 \in DOMAIN s
         /\ Len(Tail(s)) = Len(s) - 1
         /\ \A i \in DOMAIN Tail(s) : i + 1 \in DOMAIN s /\ Tail(s)[i] = s[i + 1] /\ i \in Nat \ {0}
OBVIOUS

\* Nothing is left when the last is taken.
LEMMA LastTaken == ASSUME NEW S, NEW s \in Seq(S), s # <<>>, Len(s) <= 1 PROVE Tail(s) = <<>>
OBVIOUS

\* releaseTurnSlot keeps the types.
LEMMA ReleaseTypes ==
  ASSUME SlotTypes, NEW a \in Agents, NEW places \in [Requests -> Places], Release(a, places),
         UNCHANGED given
  PROVE  SlotTypes'
<1>1. busy' \in [Agents -> BOOLEAN] /\ given' \in [Requests -> Agents \cup {None}]
  BY DEF SlotTypes, Release
<1>2. queue[a] # <<>> => Head(queue[a]) \in Requests /\ Tail(queue[a]) \in Seq(Requests)
  BY Tailed DEF SlotTypes
<1>3. queue' \in [Agents -> Seq(Requests)]
  BY <1>2 DEF SlotTypes, Release
<1>4. pc' \in [Requests -> Places]
  BY <1>2 DEF SlotTypes, Release, Places
<1> QED BY <1>1, <1>3, <1>4 DEF SlotTypes

\* So does an entry that is torn down.
LEMMA TeardownTypes ==
  ASSUME Types, pool # None, NEW stage \in {"stopping", "exited"}, Teardown(pool, stage)
  PROVE  /\ {pool', spawning, probed} \subseteq Agents \cup {None} /\ life' \in [Agents -> Stages]
         /\ queue' \in [Agents -> Seq(Requests)] /\ outbox' \in [Agents -> Seq(Lines)]
         /\ \A some : PcWithout(some) \in [Requests -> Places]
<1>1. <<>> \in Seq(Requests) /\ <<>> \in Seq(Lines)
  OBVIOUS
<1>2. \A some : PcWithout(some) \in [Requests -> Places]
  BY DEF Types, SlotTypes, PcWithout, Places
<1> QED BY <1>1, <1>2, PoolAssumption DEF Types, GatewayTypes, SlotTypes, AgentTypes, Teardown, Stages

\* Requests that find, spawn or leave an agent keep the types.
LEMMA ArrivalTypes ==
  ASSUME Types, NEW r \in Requests,
         Arrive(r) \/ Replaced(r) \/ ArriveToReplace(r) \/ Attached(r) \/ Detach(r)
  PROVE  Types'
<1> USE DEF Types
<1>1. CASE Arrive(r) \/ Replaced(r)
  <2>1. AgentTypes' /\ TellTypes'
    BY <1>1 DEF Arrive, Replaced, AgentTypes, TellTypes, turnVars, pipes, ghosts
  <2>2. GetOrCreate(r) /\ UNCHANGED <<pool, shutdown, probed, busy, queue, harmed>>
    BY <1>1 DEF Arrive, Replaced, ghosts
  <2>3. pc' \in [Requests -> Places]
    BY <2>2 DEF GetOrCreate, Goes, SlotTypes, Places
  <2>4. given' \in [Requests -> Agents \cup {None}]
    BY <2>2 DEF GetOrCreate, Fresh, SlotTypes, GatewayTypes
  <2>5. spawning' \in Agents \cup {None} /\ life' \in [Agents -> Stages]
    BY <2>2 DEF GetOrCreate, Fresh, GatewayTypes, Stages
  <2>6. headless' \in [Agents -> BOOLEAN]
    BY <2>2 DEF GetOrCreate, Fresh, GatewayTypes
  <2> QED BY <2>1, <2>2, <2>3, <2>4, <2>5, <2>6 DEF GatewayTypes, SlotTypes
<1>2. CASE ArriveToReplace(r)
  <2>1. TellTypes'
    BY <1>2 DEF ArriveToReplace, TellTypes
  <2>2. pc' \in [Requests -> Places]
    BY <1>2, TeardownTypes DEF ArriveToReplace, Places
  <2>3. given' \in [Requests -> Agents \cup {None}] /\ harmed' \subseteq Agents
    BY <1>2 DEF ArriveToReplace, GatewayTypes, SlotTypes
  <2> QED BY <1>2, <2>1, <2>2, <2>3, TeardownTypes
          DEF ArriveToReplace, GatewayTypes, SlotTypes, AgentTypes, turnVars
<1>3. CASE Attached(r) \/ Detach(r)
  <2>1. GatewayTypes' /\ AgentTypes' /\ TellTypes'
    BY <1>3 DEF Attached, Detach, GatewayTypes, AgentTypes, TellTypes, poolVars, agentVars, turnVars,
       pipes, ghosts
  <2>2. SlotTypes'
    BY <1>3 DEF Attached, Detach, Goes, SlotTypes, Places, agentVars
  <2> QED BY <2>1, <2>2
<1> QED BY <1>1, <1>2, <1>3

\* So do tells at the turn slot.
LEMMA SlotStepTypes ==
  ASSUME Types, PoolInv, NEW r \in Requests, Placed,
         \/ TellTakes(r) \/ TellWaits(r) \/ TellGranted(r)
         \/ PromptTimesOut(r) \/ FollowUpTimesOut(r) \/ SettleTimesOut(r)
  PROVE  Types'
<1> USE PoolAssumption DEF Types
<1>1. given[r] \in Agents
  BY DEF Placed, SlotTypes, TellTakes, TellWaits, TellGranted, PromptTimesOut, FollowUpTimesOut,
     SettleTimesOut
<1>2. GatewayTypes'
  BY DEF TellTakes, TellWaits, TellGranted, PromptTimesOut, FollowUpTimesOut, SettleTimesOut,
     GatewayTypes, poolVars,
     agentVars, ghosts
<1>3. ASSUME NEW op \in {"prompt", "followUp"}
      PROVE  Append(inbox[given[r]], [op |-> op, by |-> r]) \in Seq(Commands)
  <2>1. [op |-> op, by |-> r] \in Commands
    BY DEF Commands
  <2> QED BY <1>1, <2>1, Appended DEF AgentTypes
<1>4. AgentTypes'
  <2>1. \/ UNCHANGED <<turn, followUps, coming, outbox, inbox>>
        \/ /\ UNCHANGED <<turn, followUps, coming, outbox>>
           /\ \E op \in {"prompt", "followUp"} :
                inbox' = [inbox EXCEPT ![given[r]] = Append(@, [op |-> op, by |-> r])]
    BY DEF TellTakes, TellWaits, TellGranted, PromptTimesOut, FollowUpTimesOut, SettleTimesOut,
       turnVars, pipes,
       TakeSlot, Refuse
  <2>2. inbox' = inbox \/ \E op \in {"prompt", "followUp"} :
                inbox' = [inbox EXCEPT ![given[r]] = Append(@, [op |-> op, by |-> r])]
    BY <2>1
  <2>3. inbox' \in [Agents -> Seq(Commands)]
    <3>1. inbox \in [Agents -> Seq(Commands)]
      BY DEF AgentTypes
    <3>2. ASSUME NEW op \in {"prompt", "followUp"},
                 inbox' = [inbox EXCEPT ![given[r]] = Append(@, [op |-> op, by |-> r])]
          PROVE  inbox' \in [Agents -> Seq(Commands)]
      <4>1. PICK new \in Seq(Commands) : new = Append(inbox[given[r]], [op |-> op, by |-> r])
        BY <1>3
      <4>2. inbox' = [inbox EXCEPT ![given[r]] = new]
        BY <3>2, <4>1
      <4> QED BY <3>1, <4>2
    <3> QED BY <2>2, <3>1, <3>2
  <2> QED BY <2>1, <2>3 DEF AgentTypes
<1>5. TellTypes'
  <2>1. /\ UNCHANGED <<kind, heard, accepted>>
        /\ settled' = settled \/ \E v \in {"no", "listening"} : settled' = [settled EXCEPT ![r] = v]
        /\ used' = used \/ \E d \in {"refusal", "long"} : used' = [used EXCEPT ![d] = @ + 1]
    BY DEF TellTakes, TellWaits, TellGranted, PromptTimesOut, FollowUpTimesOut, SettleTimesOut,
       TakeSlot, Refuse,
       ghosts, Spend
  <2> QED BY <2>1 DEF TellTypes
<1>6. CASE TellTakes(r) \/ TellWaits(r) \/ TellGranted(r)
  <2>1. Append(queue[given[r]], r) \in Seq(Requests)
    BY <1>1, Appended DEF SlotTypes
  <2>2. SlotTypes'
    <3>1. /\ given' = given
          /\ busy' = busy \/ busy' = [busy EXCEPT ![given[r]] = TRUE]
          /\ queue' = queue \/ queue' = [queue EXCEPT ![given[r]] = Append(@, r)]
          /\ \E p \in {"prompting", "queued", "failed"} : pc' = [pc EXCEPT ![r] = p]
      BY <1>6 DEF TellTakes, TellWaits, TellGranted, TakeSlot, Goes
    <3>2. pc' \in [Requests -> Places]
      BY <3>1 DEF SlotTypes, Places
    <3>3. queue' \in [Agents -> Seq(Requests)]
      BY <1>1, <2>1, <3>1 DEF SlotTypes
    <3>4. busy' \in [Agents -> BOOLEAN]
      BY <1>1, <3>1 DEF SlotTypes
    <3> QED BY <3>1, <3>2, <3>3, <3>4 DEF SlotTypes
  <2> QED BY <1>2, <1>4, <1>5, <2>2
<1>7. CASE PromptTimesOut(r) \/ SettleTimesOut(r)
  <2>1. \A p \in {"acked", "following"} : [pc EXCEPT ![r] = p] \in [Requests -> Places]
    BY DEF SlotTypes, Places
  <2>2. SlotTypes'
    BY <1>1, <1>7, <2>1, ReleaseTypes DEF PromptTimesOut, FollowUpTimesOut, SettleTimesOut, Refuse
  <2> QED BY <1>2, <1>4, <1>5, <2>2
<1>8. CASE FollowUpTimesOut(r)
  <2>1. SlotTypes'
    BY <1>8 DEF FollowUpTimesOut, Goes, SlotTypes, Places, agentVars
  <2> QED BY <1>2, <1>4, <1>5, <2>1
<1> QED BY <1>6, <1>7, <1>8

\* So does what an agent writes.
LEMMA WriteTypes ==
  ASSUME AgentTypes, NEW a \in Agents, NEW what, NEW r, [line |-> what, by |-> r] \in Lines,
         Write(a, what, r)
  PROVE  outbox' \in [Agents -> Seq(Lines)]
BY Appended DEF Write, AgentTypes

\* So do the agents and their processes.
LEMMA AgentStepTypes ==
  ASSUME Types, NEW a \in Agents,
         \/ AgentReads(a) \/ Begins(a) \/ TurnEnds(a) \/ TurnFails(a) \/ LocalTurn(a)
         \/ SpawnSucceeds(a) \/ SpawnFails(a) \/ Stopped(a)
  PROVE  Types'
<1> USE PoolAssumption DEF Types
<1>1. CASE AgentReads(a)
  <2>1. GatewayTypes' /\ SlotTypes'
    BY <1>1 DEF AgentReads, ReadsPrompt, ReadsFollowUp, GatewayTypes, SlotTypes, poolVars, agentVars,
       requestVars, ghosts
  <2>2. Head(inbox[a]) \in Commands /\ Tail(inbox[a]) \in Seq(Commands)
    BY <1>1, Tailed DEF AgentReads, ReadsPrompt, ReadsFollowUp, Reads, AgentTypes
  <2>3. Head(inbox[a]).by \in Requests
    BY <2>2 DEF Commands
  <2>4. \A what \in {"success", "error"} : [line |-> what, by |-> Head(inbox[a]).by] \in Lines
    BY <2>3 DEF Lines, Answers
  <2>5. outbox' \in [Agents -> Seq(Lines)]
    BY <1>1, <2>4, WriteTypes DEF AgentReads, ReadsPrompt, ReadsFollowUp
  <2>6. coming' \in [Agents -> SUBSET Requests] /\ turn' \in [Agents -> Requests \cup {User, None}]
    <3>1. UNCHANGED turn /\ (coming' = coming \/ coming' = [coming EXCEPT ![a] = @ \cup {Head(inbox[a]).by}])
      BY <1>1 DEF AgentReads, ReadsPrompt, ReadsFollowUp
    <3>2. PICK some \in SUBSET Requests : some = coming[a] \cup {Head(inbox[a]).by}
      BY <2>3 DEF AgentTypes
    <3>3. coming' = coming \/ coming' = [coming EXCEPT ![a] = some]
      BY <3>1, <3>2
    <3> QED BY <3>1, <3>3 DEF AgentTypes
  <2>7. Append(followUps[a], Head(inbox[a]).by) \in Seq(Requests)
    BY <2>3, Appended DEF AgentTypes
  <2>8. AgentTypes'
    <3>1. inbox' \in [Agents -> Seq(Commands)]
      BY <1>1, <2>2 DEF AgentReads, ReadsPrompt, ReadsFollowUp, Reads, AgentTypes
    <3>2. followUps' \in [Agents -> Seq(Requests)]
      BY <1>1, <2>7 DEF AgentReads, ReadsPrompt, ReadsFollowUp, AgentTypes
    <3> QED BY <2>5, <2>6, <3>1, <3>2 DEF AgentTypes
  <2>9. TellTypes'
    <3>1. /\ UNCHANGED <<kind, settled, heard>>
          /\ accepted' = accepted \/ accepted' = [accepted EXCEPT ![Head(inbox[a]).by] = @ + 1]
          /\ used' = used \/ Spend("append")
      BY <1>1 DEF AgentReads, ReadsPrompt, ReadsFollowUp, requestVars, ghosts
    <3>2. accepted' \in [Requests -> Nat]
      BY <2>3, <3>1 DEF TellTypes
    <3>3. used' \in [Disturbances -> Nat]
      BY <3>1 DEF TellTypes, Spend, Disturbances
    <3> QED BY <3>1, <3>2, <3>3 DEF TellTypes
  <2> QED BY <2>1, <2>8, <2>9
<1>6. ASSUME NEW r \in Requests, TurnBegins(a, r) PROVE Types'
  <2>1. GatewayTypes' /\ SlotTypes'
    BY <1>6 DEF TurnBegins, GatewayTypes, SlotTypes, poolVars, agentVars, ghosts
  <2>2. AgentTypes'
    <3>1. PICK some \in SUBSET Requests : some = coming[a] \ {r}
      BY DEF AgentTypes
    <3>2. UNCHANGED <<followUps, inbox, outbox>> /\ coming' = [coming EXCEPT ![a] = some]
      BY <1>6, <3>1 DEF TurnBegins, pipes
    <3>3. turn' = turn \/ turn' = [turn EXCEPT ![a] = r]
      BY <1>6 DEF TurnBegins
    <3>4. turn' \in [Agents -> Requests \cup {User, None}]
      BY <3>3 DEF AgentTypes
    <3>5. coming' \in [Agents -> SUBSET Requests]
      BY <3>2 DEF AgentTypes
    <3> QED BY <3>2, <3>4, <3>5 DEF AgentTypes
  <2>3. TellTypes'
    BY <1>6 DEF TurnBegins, TellTypes, ghosts
  <2> QED BY <2>1, <2>2, <2>3
<1>2. CASE TurnEnds(a) \/ TurnFails(a)
  <2>1. GatewayTypes' /\ SlotTypes' /\ TellTypes'
    BY <1>2 DEF TurnEnds, TurnFails, GatewayTypes, SlotTypes, TellTypes, poolVars, agentVars,
       requestVars, ghosts, Spend
  <2>2. [line |-> "completed", by |-> turn[a]] \in Lines
    BY <1>2 DEF TurnEnds, TurnFails, Lines, AgentTypes
  <2>3. outbox' \in [Agents -> Seq(Lines)]
    BY <1>2, <2>2, WriteTypes DEF TurnEnds, TurnFails
  <2>4. followUps[a] # <<>> => Head(followUps[a]) \in Requests /\ Tail(followUps[a]) \in Seq(Requests)
    BY Tailed DEF AgentTypes
  <2>5. turn' \in [Agents -> Requests \cup {User, None}]
    BY <1>2, <2>4 DEF TurnEnds, TurnFails, AgentTypes, turnVars
  <2>6. followUps' \in [Agents -> Seq(Requests)]
    BY <1>2, <2>4 DEF TurnEnds, TurnFails, AgentTypes, turnVars
  <2>7. UNCHANGED <<inbox, coming>>
    BY <1>2 DEF TurnEnds, TurnFails, turnVars
  <2> QED BY <2>1, <2>3, <2>5, <2>6, <2>7 DEF AgentTypes
<1>3. CASE LocalTurn(a)
  <2>1. GatewayTypes' /\ SlotTypes'
    BY <1>3 DEF LocalTurn, GatewayTypes, SlotTypes, poolVars, agentVars, requestVars
  <2>2. AgentTypes'
    BY <1>3 DEF LocalTurn, AgentTypes, pipes
  <2>3. TellTypes'
    BY <1>3 DEF LocalTurn, TellTypes, requestVars, Spend, Disturbances
  <2> QED BY <2>1, <2>2, <2>3
<1>4. CASE SpawnSucceeds(a) \/ SpawnFails(a)
  <2>1. GatewayTypes'
    BY <1>4 DEF SpawnSucceeds, SpawnFails, GatewayTypes, Stages, ghosts
  <2>2. SlotTypes'
    BY <1>4 DEF SpawnSucceeds, SpawnFails, SlotTypes, Places, PcWithout
  <2>3. AgentTypes' /\ TellTypes'
    <3>1. UNCHANGED <<turn, followUps, coming, inbox, outbox, kind, settled, heard, accepted>>
      BY <1>4 DEF SpawnSucceeds, SpawnFails, turnVars, pipes, ghosts
    <3>2. used' \in [Disturbances -> Nat]
      BY <1>4 DEF SpawnSucceeds, SpawnFails, ghosts, Spend, TellTypes, Disturbances
    <3> QED BY <3>1, <3>2 DEF AgentTypes, TellTypes
  <2> QED BY <2>1, <2>2, <2>3
<1>5. CASE Stopped(a)
  <2>1. GatewayTypes'
    BY <1>5 DEF Stopped, GatewayTypes, Stages, ghosts
  <2>2. SlotTypes'
    BY <1>5 DEF Stopped, SlotTypes, Places, PcWithout
  <2>3. AgentTypes' /\ TellTypes'
    BY <1>5 DEF Stopped, AgentTypes, TellTypes, ghosts
  <2> QED BY <2>1, <2>2, <2>3
<1> QED BY <1>1, <1>2, <1>3, <1>4, <1>5, <1>6 DEF Begins

\* So does what the gateway hears of them.
LEMMA ReadTypes ==
  ASSUME Types, NEW a \in Agents, ReadCompleted(a) \/ ReadSuccess(a) \/ ReadError(a), Placed
  PROVE  Types'
<1> USE PoolAssumption DEF Types
<1> DEFINE r == Head(outbox[a]).by
<1>1. Head(outbox[a]) \in Lines /\ Tail(outbox[a]) \in Seq(Lines)
  BY Tailed DEF ReadCompleted, ReadSuccess, ReadError, ReadLine, AgentTypes
<1>2. r \in Requests \cup {User} /\ (~ReadCompleted(a) => r \in Requests)
  BY <1>1 DEF Lines, Answers, ReadCompleted, ReadSuccess, ReadError, ReadLine
<1>3. GatewayTypes'
  BY DEF ReadCompleted, ReadSuccess, ReadError, GatewayTypes, poolVars, ghosts
<1>4. CASE ReadCompleted(a)
  <2>1. AgentTypes'
    BY <1>1, <1>4 DEF ReadCompleted, ReadLine, AgentTypes, turnVars
  <2>2. TellTypes'
    BY <1>2, <1>4 DEF ReadCompleted, TellTypes, ghosts
  <2>3. \A some : [s \in Requests |-> IF s \in some THEN "acked" ELSE pc[s]] \in [Requests -> Places]
    BY DEF SlotTypes, Places
  <2>4. SlotTypes'
    BY <1>4, <2>3, ReleaseTypes DEF ReadCompleted, SlotTypes
  <2> QED BY <1>3, <2>1, <2>2, <2>4
<1>5. CASE ReadSuccess(a)
  <2>1. AgentTypes' /\ TellTypes'
    BY <1>1, <1>5 DEF ReadSuccess, ReadLine, AgentTypes, TellTypes, turnVars, ghosts
  <2>2. \A p \in {"acked", "settling"} : [pc EXCEPT ![r] = p] \in [Requests -> Places]
    BY <1>2, <1>5 DEF SlotTypes, Places
  <2>3. SlotTypes'
    BY <1>5, <2>2, ReleaseTypes DEF ReadSuccess, SlotTypes
  <2> QED BY <1>3, <2>1, <2>3
<1>6. CASE ReadError(a)
  <2>1. r \in Requests
    BY <1>2, <1>6, <1>1 DEF Lines, Answers, ReadError, ReadLine
  <2>2. TellTypes'
    BY <1>6, <2>1 DEF ReadError, Refuse, TellTypes, ghosts
  <2>3. pc[r] = "prompting" => given[r] \in Agents
    BY <2>1 DEF Placed, SlotTypes
  <2>4. [op |-> "followUp", by |-> r] \in Commands
    BY <2>1 DEF Commands
  <2>5. pc[r] = "prompting" => Append(inbox[given[r]], [op |-> "followUp", by |-> r]) \in Seq(Commands)
    BY <2>3, <2>4, Appended DEF AgentTypes
  <2>6. AgentTypes'
    <3>1. outbox' \in [Agents -> Seq(Lines)] /\ UNCHANGED <<turn, followUps, coming>>
      BY <1>1, <1>6 DEF ReadError, ReadLine, AgentTypes, turnVars
    <3>2. inbox' \in [Agents -> Seq(Commands)]
      BY <1>6, <2>3, <2>5 DEF ReadError, Refuse, AgentTypes
    <3> QED BY <3>1, <3>2 DEF AgentTypes
  <2>7. \A p \in {"following", "acked"} : [pc EXCEPT ![r] = p] \in [Requests -> Places]
    BY <2>1 DEF SlotTypes, Places
  <2>8. SlotTypes'
    BY <1>6, <2>3, <2>7, ReleaseTypes DEF ReadError, Refuse, Goes, SlotTypes
  <2> QED BY <1>3, <2>2, <2>6, <2>8
<1> QED BY <1>4, <1>5, <1>6

\* The teardown of whatever agent is in the pool keeps the types.
LEMMA TornDownIfAnyTypes ==
  ASSUME Types, TornDownIfAny
  PROVE  /\ {pool', spawning', probed} \subseteq Agents \cup {None} /\ life' \in [Agents -> Stages]
         /\ headless' = headless /\ SlotTypes' /\ outbox' \in [Agents -> Seq(Lines)]
         /\ UNCHANGED <<kind, settled, heard, accepted>>
<1>1. SlotTypes' /\ headless' = headless /\ UNCHANGED <<kind, settled, heard, accepted>>
  BY TeardownTypes DEF TornDownIfAny, Types, SlotTypes
<1>2. /\ {pool', spawning', probed} \subseteq Agents \cup {None} /\ life' \in [Agents -> Stages]
      /\ outbox' \in [Agents -> Seq(Lines)]
  BY TeardownTypes DEF TornDownIfAny, Types, GatewayTypes, AgentTypes
<1> QED BY <1>1, <1>2

\* A torn down agent is one reason spent.
LEMMA TornDownSpends ==
  ASSUME Types, NEW why \in Disturbances, NEW stage \in {"stopping", "exited"}, TornDown(why, stage)
  PROVE  /\ {pool', spawning', probed} \subseteq Agents \cup {None} /\ life' \in [Agents -> Stages]
         /\ headless' = headless /\ SlotTypes' /\ outbox' \in [Agents -> Seq(Lines)]
         /\ UNCHANGED <<kind, settled, heard, accepted>> /\ used' \in [Disturbances -> Nat]
<1>1. UNCHANGED <<headless, kind, settled, heard, accepted>> /\ used' \in [Disturbances -> Nat]
  BY DEF TornDown, Spend, Types, TellTypes
<1>2. SlotTypes'
  BY TeardownTypes DEF TornDown, Types, SlotTypes
<1>3. /\ {pool', spawning', probed} \subseteq Agents \cup {None} /\ life' \in [Agents -> Stages]
      /\ outbox' \in [Agents -> Seq(Lines)]
  BY TeardownTypes DEF TornDown, Types, GatewayTypes, AgentTypes
<1> QED BY <1>1, <1>2, <1>3

\* So do the timers and the shutdown of the gateway.
LEMMA GatewayStepTypes ==
  ASSUME Types,
         Crash \/ IdleEviction \/ StartProbe \/ ProbeEnds \/ ProbeFails \/ StopBegins \/ StopAgents
  PROVE  Types'
<1> USE PoolAssumption DEF Types
<1>2. CASE Crash
  <2>1. <<>> \in Seq(Requests) /\ <<>> \in Seq(Commands) /\ "crash" \in Disturbances
    BY DEF Disturbances
  <2>2. TornDown("crash", "exited")
    BY <1>2 DEF Crash
  <2>3. AgentTypes'
    BY <1>2, <2>1, <2>2, TornDownSpends DEF Crash, AgentTypes
  <2>4. GatewayTypes' /\ TellTypes' /\ SlotTypes'
    BY <1>2, <2>1, <2>2, TornDownSpends DEF Crash, GatewayTypes, TellTypes
  <2> QED BY <2>3, <2>4
<1>3. CASE IdleEviction
  <2>1. "idle" \in Disturbances
    BY DEF Disturbances
  <2>2. TornDown("idle", "stopping")
    BY <1>3 DEF IdleEviction
  <2>3. AgentTypes'
    BY <1>3, <2>1, <2>2, TornDownSpends DEF IdleEviction, AgentTypes, turnVars
  <2>4. GatewayTypes' /\ TellTypes' /\ SlotTypes'
    BY <1>3, <2>1, <2>2, TornDownSpends DEF IdleEviction, GatewayTypes, TellTypes
  <2> QED BY <2>3, <2>4
<1>4. CASE StartProbe \/ ProbeEnds \/ StopBegins
  <2>1. GatewayTypes'
    BY <1>4 DEF StartProbe, ProbeEnds, StopBegins, GatewayTypes, agentVars, ghosts
  <2>2. SlotTypes' /\ AgentTypes'
    BY <1>4 DEF StartProbe, ProbeEnds, StopBegins, SlotTypes, AgentTypes, agentVars, turnVars,
       pipes, requestVars
  <2>3. /\ UNCHANGED <<kind, settled, heard, accepted>>
        /\ used' = used \/ \E d \in {"probe", "stop"} : used' = [used EXCEPT ![d] = @ + 1]
    BY <1>4 DEF StartProbe, ProbeEnds, StopBegins, Spend, requestVars, ghosts
  <2> QED BY <2>1, <2>2, <2>3 DEF TellTypes
<1>5. CASE ProbeFails \/ StopAgents
  <2>1. "stuck" \in Disturbances
    BY DEF Disturbances
  <2>2. shutdown' \in {"no", "begun", "done"} /\ harmed' \subseteq Agents
    BY <1>5 DEF ProbeFails, StopAgents, GatewayTypes
  <2>3. {probed'} \subseteq Agents \cup {None} /\ UNCHANGED <<turn, followUps, coming, inbox>>
    BY <1>5 DEF ProbeFails, StopAgents, GatewayTypes, turnVars
  <2>4. /\ {pool', spawning', probed} \subseteq Agents \cup {None} /\ life' \in [Agents -> Stages]
        /\ headless' = headless /\ SlotTypes' /\ outbox' \in [Agents -> Seq(Lines)]
        /\ UNCHANGED <<kind, settled, heard, accepted>> /\ used' \in [Disturbances -> Nat]
    <3>1. CASE TornDown("stuck", "stopping")
      BY <2>1, <3>1, TornDownSpends
    <3>2. CASE TornDownIfAny /\ used' = used
      BY <3>2, TornDownIfAnyTypes DEF TellTypes
    <3> QED BY <1>5, <3>1, <3>2 DEF ProbeFails, StopAgents
  <2>5. GatewayTypes'
    BY <2>2, <2>3, <2>4 DEF GatewayTypes
  <2>6. AgentTypes'
    BY <2>3, <2>4 DEF AgentTypes
  <2>7. SlotTypes' /\ TellTypes'
    BY <2>4 DEF TellTypes
  <2> QED BY <2>5, <2>6, <2>7
<1> QED BY <1>2, <1>3, <1>4, <1>5
-----------------------------------------------------------------------------
(* The turn slot. *)

\* Owning the turn slot, or about to: one request at a time with one agent.
Slotted == Prompted \cup {"granted"}

OneSlotted ==
  \A r, s \in Requests : pc[r] \in Slotted /\ pc[s] \in Slotted /\ given[r] = given[s] => r = s

\* A tell that was granted the slot takes it before anything else goes on.
GrantedAlone == \A r, s \in Requests : pc[r] = "granted" /\ Continuing(s) => r = s

\* The busy flag of the agent in the pool says whether somebody owns its slot.
BusyIsOwned ==
  \A a \in Agents :
    /\ pool = a => (busy[a] <=> Owners(a) # {})
    /\ life[a] \in {"none", "starting"} => ~busy[a]

\* Who is in an agent's queue waits there, once, and the agent serves.
QueueWaits ==
  \A a \in Agents :
    /\ queue[a] # <<>> => life[a] = "running"
    /\ \A i \in DOMAIN queue[a] : pc[queue[a][i]] = "queued" /\ given[queue[a][i]] = a
    /\ \A i, j \in DOMAIN queue[a] : queue[a][i] = queue[a][j] => i = j

Slots == Placed /\ OneSlotted /\ GrantedAlone /\ BusyIsOwned /\ QueueWaits

\* x is somewhere in the sequence s.
In(x, s) == \E i \in DOMAIN s : s[i] = x

\* The agent r works with is a, and r does not look for another one any more.
Told(r, a) ==
  given[r] = a /\ pc[r] \in {"prompting", "settling", "following", "acked", "failed"}

\* Commands and answers go between a request and the agent it works with.
Addressed ==
  \A a \in Agents :
    /\ \A c \in Commands : In(c, inbox[a]) => Told(c.by, a)
    /\ \A l \in Answers : In(l, outbox[a]) => Told(l.by, a)

\* What the slots speak of.
slotVars == <<pool, spawning, life, busy, queue, pc, given>>

\* Steps that leave the slots alone.
LEMMA SlotsFramed == ASSUME Slots, UNCHANGED slotVars PROVE Slots'
BY DEF Slots, slotVars, Placed, OneSlotted, GrantedAlone, BusyIsOwned, QueueWaits, Continuing, Owners

\* A request goes on to a place that has nothing to do with the slot, or keeps it.
LEMMA SlotsMoved ==
  ASSUME Types, Slots, NEW r \in Requests, NEW p, pc' = [pc EXCEPT ![r] = p],
         UNCHANGED <<pool, spawning, life, busy, queue, given>>,
         \/ pc[r] \in Prompted /\ p \in Prompted
         \/ pc[r] \in {"ready", "attached", "following"} /\ p \in {"attached", "left", "acked", "failed"}
  PROVE  Slots'
<1> USE DEF Types, SlotTypes, Prompted
<1>1. given[r] # None /\ life[given[r]] # "starting"
  BY DEF Slots, Placed
<1>2. Placed'
  BY <1>1 DEF Slots, Placed
<1>3. OneSlotted'
  BY DEF Slots, OneSlotted, Slotted
<1>4. GrantedAlone'
  BY DEF Slots, GrantedAlone, Continuing
<1>5. ASSUME NEW a \in Agents PROVE Owners(a)' = Owners(a)
  BY DEF Owners
<1>6. BusyIsOwned'
  BY <1>5 DEF Slots, BusyIsOwned
<1>7. QueueWaits'
  BY InSeq DEF Slots, QueueWaits
<1> QED BY <1>2, <1>3, <1>4, <1>6, <1>7 DEF Slots

\* A request finds, awaits or starts an agent, or fails.
LEMMA SlotsFound ==
  ASSUME Types, PoolInv, Slots, NEW r \in Requests, GetOrCreate(r),
         Quiet \/ Continuing(r), pc[r] \in {"new", "replacing"},
         UNCHANGED <<pool, busy, queue>>
  PROVE  Slots'
<1> USE PoolAssumption DEF Types, SlotTypes
<1>1. \A s \in Requests : pc[s] # "granted"
  BY DEF Slots, GrantedAlone, Quiet, Continuing
<1>2. PICK p \in {"ready", "spawning", "failed"}, a \in Agents \cup {None} :
        /\ pc' = [pc EXCEPT ![r] = p] /\ given' = [given EXCEPT ![r] = a]
        /\ \/ p = "ready" /\ a \in Agents /\ life[a] = "running" /\ UNCHANGED <<life, spawning>>
           \/ p = "spawning" /\ a \in Agents /\ life[a] # "none" /\ UNCHANGED <<life, spawning>>
           \/ p = "spawning" /\ a \in Agents /\ life[a] = "none" /\ spawning' = a
              /\ life' = [life EXCEPT ![a] = "starting"]
           \/ p = "failed" /\ a = given[r] /\ UNCHANGED <<life, spawning>>
  <2>1. given = [given EXCEPT ![r] = given[r]] /\ given[r] \in Agents \cup {None}
    OBVIOUS
  <2>2. CASE pool # None
    <3>1. pool \in Agents /\ life[pool] = "running"
      BY <2>2 DEF PoolInv, PoolTypes, ServingIsPooled
    <3> QED BY <2>2, <3>1 DEF GetOrCreate, Goes
  <2>3. CASE pool = None /\ ~MaySpawn
    <3>1. spawning \in Agents /\ life[spawning] # "none"
      BY <2>3 DEF MaySpawn, Slots, Placed, GatewayTypes
    <3> QED BY <2>3, <3>1 DEF GetOrCreate, Goes
  <2>4. CASE pool = None /\ MaySpawn
    <3>1. CASE Goes(r, "failed") /\ UNCHANGED <<given, spawning, life, headless>>
      BY <2>1, <3>1 DEF Goes
    <3>2. CASE Goes(r, "spawning") /\ \E b \in Fresh : /\ spawning' = b
                                                     /\ life' = [life EXCEPT ![b] = "starting"]
                                                     /\ given' = [given EXCEPT ![r] = b]
      BY <3>2 DEF Goes, Fresh
    <3> QED BY <2>4, <3>1, <3>2 DEF GetOrCreate
  <2> QED BY <2>2, <2>3, <2>4
<1>3. given[r] = None \/ life[given[r]] # "starting"
  BY DEF Slots, Placed
<1>4. Placed'
  <2>1. ASSUME NEW s \in Requests
        PROVE  /\ given'[s] = None => pc'[s] \in {"new", "failed"}
               /\ given'[s] # None => life'[given'[s]] # "none"
               /\ given'[s] # None /\ life'[given'[s]] = "starting" => pc'[s] = "spawning"
               /\ pc'[s] \in {"ready", "granted"} => life'[given'[s]] = "running"
    <3>1. CASE s = r
      BY <1>1, <1>2, <1>3, <3>1 DEF Slots, Placed, GatewayTypes, Stages
    <3>2. CASE s # r
      <4>1. pc'[s] = pc[s] /\ given'[s] = given[s]
        BY <1>2, <3>2
      <4>2. given[s] # None => life'[given[s]] = life[given[s]]
        BY <1>2 DEF Slots, Placed, GatewayTypes
      <4> QED BY <4>1, <4>2 DEF Slots, Placed
    <3> QED BY <3>1, <3>2
  <2>2. spawning' # None => life'[spawning'] # "none"
    BY <1>2 DEF Slots, Placed, GatewayTypes
  <2> QED BY <2>1, <2>2 DEF Placed
<1>5. OneSlotted'
  BY <1>2 DEF Slots, OneSlotted, Slotted, Prompted
<1>6. GrantedAlone'
  BY <1>1, <1>2 DEF Slots, GrantedAlone
<1>7. ASSUME NEW c \in Agents PROVE Owners(c)' = Owners(c)
  BY <1>2 DEF Owners, Prompted
<1>8. BusyIsOwned'
  BY <1>2, <1>7 DEF Slots, BusyIsOwned, GatewayTypes, Stages
<1>9. QueueWaits'
  BY <1>2, InSeq DEF Slots, QueueWaits, GatewayTypes, Stages
<1> QED BY <1>4, <1>5, <1>6, <1>8, <1>9 DEF Slots

\* The agent in the pool is torn down, with the tells in its queue.
LEMMA SlotsTornDown ==
  ASSUME Types, PoolInv, Slots, Quiet, pool # None,
         NEW stage \in {"stopping", "exited"}, Teardown(pool, stage),
         \/ pc' = PcWithout(Rejected(pool)) /\ given' = given
         \/ \E r \in Requests : /\ pc[r] = "new" /\ given' = [given EXCEPT ![r] = pool]
                                /\ pc' = [PcWithout(Rejected(pool)) EXCEPT ![r] = "replacing"],
         UNCHANGED <<spawning, busy>>
  PROVE  Slots'
<1> USE PoolAssumption DEF Types, SlotTypes
<1>0. pool \in Agents /\ life[pool] = "running"
  BY DEF PoolInv, PoolTypes, ServingIsPooled
<1>1. \A s \in Requests : pc[s] # "granted"
  BY DEF Quiet, Continuing
<1>2. \A s \in Requests : s \in Rejected(pool) => pc[s] = "queued" /\ given[s] = pool
  BY <1>0 DEF Rejected, Slots, QueueWaits
<1>3. \A s \in Requests :
        \/ pc'[s] = pc[s] /\ given'[s] = given[s] /\ s \notin Rejected(pool)
        \/ pc'[s] = "failed" /\ given'[s] = given[s] /\ pc[s] = "queued"
        \/ pc'[s] = "replacing" /\ given'[s] = pool /\ pc[s] = "new"
  BY <1>2 DEF PcWithout
<1>4. life' = [life EXCEPT ![pool] = stage] /\ queue' = [queue EXCEPT ![pool] = <<>>] /\ pool' = None
  BY DEF Teardown
<1>5. Placed'
  BY <1>0, <1>3, <1>4 DEF Slots, Placed, GatewayTypes, Quiet, Continuing
<1>6. OneSlotted'
  BY <1>3 DEF Slots, OneSlotted, Slotted, Prompted
<1>7. GrantedAlone'
  BY <1>1, <1>3 DEF GrantedAlone
<1>8. BusyIsOwned'
  BY <1>0, <1>4 DEF Slots, BusyIsOwned, GatewayTypes
<1>9. QueueWaits'
  <2> SUFFICES ASSUME NEW a \in Agents
               PROVE  /\ queue'[a] # <<>> => life'[a] = "running"
                      /\ \A i \in DOMAIN queue'[a] : pc'[queue'[a][i]] = "queued" /\ given'[queue'[a][i]] = a
                      /\ \A i, j \in DOMAIN queue'[a] : queue'[a][i] = queue'[a][j] => i = j
    BY DEF QueueWaits
  <2>1. CASE a = pool
    <3>1. queue'[a] = <<>>
      BY <1>0, <1>4, <2>1
    <3> QED BY <3>1, InSeq
  <2>2. CASE a # pool
    <3>1. queue'[a] = queue[a] /\ life'[a] = life[a]
      BY <1>4, <2>2
    <3>2. \A i \in DOMAIN queue[a] : queue[a][i] \in Requests
      BY InSeq
    <3>3. queue[a] = <<>>
      BY <1>0, <2>2 DEF Slots, QueueWaits, PoolInv, ServingIsPooled
    <3> QED BY <3>1, <3>3, InSeq
  <2> QED BY <2>1, <2>2
<1> QED BY <1>5, <1>6, <1>7, <1>8, <1>9 DEF Slots

\* A tell takes a slot that nobody has.
LEMMA SlotsTaken ==
  ASSUME Types, PoolInv, Slots, NEW r \in Requests, TakeSlot(r),
         (pc[r] = "ready" /\ ~busy[given[r]]) \/ pc[r] = "granted",
         UNCHANGED <<pool, spawning, life, queue, given>>
  PROVE  Slots'
<1>0. given[r] \in Agents /\ life[given[r]] = "running"
  <2>1. pc[r] \in {"ready", "granted"} /\ given[r] \in Agents \cup {None}
    BY DEF Types, SlotTypes
  <2>2. given[r] # None /\ life[given[r]] = "running"
    BY <2>1 DEF Slots, Placed
  <2> QED BY <2>1, <2>2
<1>1. given[r] \in Agents /\ pool = given[r] /\ life[given[r]] = "running"
  BY <1>0 DEF PoolInv, ServingIsPooled
<1> USE PoolAssumption DEF Types, SlotTypes
<1>2. \A s \in Requests : given[s] = given[r] /\ pc[s] \in Slotted => s = r
  BY <1>1 DEF Slots, OneSlotted, BusyIsOwned, Owners, Slotted, GrantedAlone, Continuing
<1>3. pc' = [pc EXCEPT ![r] = "prompting"] /\ busy' = [busy EXCEPT ![given[r]] = TRUE]
  BY DEF TakeSlot, Goes
<1>4. Placed'
  BY <1>1, <1>3 DEF Slots, Placed
<1>5. OneSlotted'
  BY <1>2, <1>3 DEF Slots, OneSlotted, Slotted, Prompted
<1>6. GrantedAlone'
  BY <1>3 DEF Slots, GrantedAlone, Continuing
<1>7. r \in Owners(given[r])'
  BY <1>3 DEF Owners, Prompted
<1>8. BusyIsOwned'
  BY <1>1, <1>3, <1>7 DEF Slots, BusyIsOwned
<1>9. QueueWaits'
  BY <1>3, InSeq DEF Slots, QueueWaits
<1> QED BY <1>4, <1>5, <1>6, <1>8, <1>9 DEF Slots

\* A tell waits for the slot.
LEMMA SlotsAwaited ==
  ASSUME Types, PoolInv, Slots, NEW r \in Requests, TellWaits(r)
  PROVE  Slots'
<1> USE PoolAssumption DEF Types, SlotTypes
<1>0. UNCHANGED <<pool, spawning, life, busy, given>> /\ pc[r] = "ready"
  BY DEF TellWaits, poolVars
<1>1. given[r] \in Agents /\ life[given[r]] = "running"
  BY <1>0 DEF Slots, Placed
<1>2. pc' = [pc EXCEPT ![r] = "queued"] /\ queue' = [queue EXCEPT ![given[r]] = Append(@, r)]
  BY DEF TellWaits, Goes
<1>3. Placed' /\ OneSlotted' /\ GrantedAlone'
  BY <1>0, <1>1, <1>2 DEF Slots, Placed, OneSlotted, Slotted, Prompted, GrantedAlone, Continuing
<1>4. ASSUME NEW a \in Agents PROVE Owners(a)' = Owners(a)
  BY <1>0, <1>2 DEF Owners, Prompted
<1>5. BusyIsOwned'
  BY <1>0, <1>4 DEF Slots, BusyIsOwned
<1>6. QueueWaits'
  <2> SUFFICES ASSUME NEW a \in Agents
               PROVE  /\ queue'[a] # <<>> => life'[a] = "running"
                      /\ \A i \in DOMAIN queue'[a] : pc'[queue'[a][i]] = "queued" /\ given'[queue'[a][i]] = a
                      /\ \A i, j \in DOMAIN queue'[a] : queue'[a][i] = queue'[a][j] => i = j
    BY DEF QueueWaits
  <2>1. \A i \in DOMAIN queue[a] : queue[a][i] \in Requests /\ queue[a][i] # r
    BY <1>0, InSeq DEF Slots, QueueWaits
  <2>2. CASE a = given[r]
    <3>1. queue'[a] = Append(queue[a], r)
      BY <1>1, <1>2, <2>2
    <3>2. \A i \in DOMAIN queue'[a] : \/ i = Len(queue[a]) + 1 /\ queue'[a][i] = r
                                      \/ i \in DOMAIN queue[a] /\ queue'[a][i] = queue[a][i]
      BY <3>1, Appended
    <3> QED BY <1>0, <1>1, <1>2, <2>1, <2>2, <3>2 DEF Slots, QueueWaits
  <2>3. CASE a # given[r]
    BY <1>0, <1>2, <2>1, <2>3 DEF Slots, QueueWaits
  <2> QED BY <2>2, <2>3
<1> QED BY <1>3, <1>5, <1>6 DEF Slots

\* An owner gives the slot back, and the head of the queue is granted it.
LEMMA SlotsReleased ==
  ASSUME Types, PoolInv, Slots, Quiet, NEW r \in Requests, pc[r] \in Prompted,
         NEW p \in {"acked", "following"}, Release(given[r], [pc EXCEPT ![r] = p]),
         UNCHANGED <<pool, spawning, life, given>>
  PROVE  Slots'
<1> USE PoolAssumption DEF Types, SlotTypes
<1> DEFINE a == given[r]
           q == queue[given[r]]
<1>1. a \in Agents /\ life[a] # "starting" /\ r \in Owners(a)
  BY DEF Slots, Placed, Prompted, Owners
<1>2. \A s \in Requests : pc[s] \notin {"granted", "ready"} /\ (pc[s] = "replacing" => life[given[s]] # "gone")
  BY DEF Quiet, Continuing
<1>3. \A s \in Requests : s # r /\ given[s] = a => pc[s] \notin Slotted
  BY DEF Slots, OneSlotted, Slotted
<1>4. q # <<>> => /\ Head(q) \in Requests /\ Head(q) = q[1] /\ 1 \in DOMAIN q
                  /\ pc[Head(q)] = "queued" /\ given[Head(q)] = a /\ Head(q) # r /\ life[a] = "running"
  BY <1>1, Tailed DEF Slots, QueueWaits, Prompted
<1>5. \A s \in Requests : \/ q # <<>> /\ s = Head(q) /\ pc'[s] = "granted"
                          \/ s = r /\ pc'[s] = p
                          \/ s # r /\ (q # <<>> => s # Head(q)) /\ pc'[s] = pc[s]
  BY <1>4 DEF Release
<1>6. busy' = [busy EXCEPT ![a] = FALSE] /\ queue' = [queue EXCEPT ![a] = IF @ = <<>> THEN @ ELSE Tail(@)]
  BY DEF Release
<1>7. Placed'
  <2> SUFFICES ASSUME NEW s \in Requests
               PROVE  /\ given[s] = None => pc'[s] \in {"new", "failed"}
                      /\ given[s] # None => life[given[s]] # "none"
                      /\ given[s] # None /\ life[given[s]] = "starting" => pc'[s] = "spawning"
                      /\ pc'[s] \in {"ready", "granted"} => life[given[s]] = "running"
    BY DEF Slots, Placed
  <2> QED BY <1>1, <1>2, <1>4, <1>5 DEF Slots, Placed
<1>8. OneSlotted'
  BY <1>1, <1>3, <1>4, <1>5 DEF Slots, OneSlotted, Slotted, Prompted
<1>9. GrantedAlone'
  BY <1>2, <1>4, <1>5 DEF GrantedAlone, Continuing
<1>10. Owners(a)' = {} /\ \A b \in Agents : b # a => Owners(b)' = Owners(b)
  <2>1. \A s \in Requests : given[s] = a => pc'[s] \notin Prompted
    BY <1>3, <1>5 DEF Slotted, Prompted
  <2>2. \A s \in Requests : given[s] # a => pc'[s] = pc[s]
    BY <1>4, <1>5
  <2> QED BY <2>1, <2>2 DEF Owners
<1>11. BusyIsOwned'
  BY <1>1, <1>6, <1>10 DEF Slots, BusyIsOwned
<1>12. QueueWaits'
  <2> SUFFICES ASSUME NEW b \in Agents
               PROVE  /\ queue'[b] # <<>> => life'[b] = "running"
                      /\ \A i \in DOMAIN queue'[b] : pc'[queue'[b][i]] = "queued" /\ given'[queue'[b][i]] = b
                      /\ \A i, j \in DOMAIN queue'[b] : queue'[b][i] = queue'[b][j] => i = j
    BY DEF QueueWaits
  <2>1. \A i \in DOMAIN queue[b] : queue[b][i] \in Requests /\ pc[queue[b][i]] = "queued" /\ given[queue[b][i]] = b
    BY InSeq DEF Slots, QueueWaits
  <2>2. CASE b # a \/ q = <<>>
    <3>1. queue'[b] = queue[b]
      BY <1>1, <1>6, <2>2
    <3>2. \A i \in DOMAIN queue[b] : queue[b][i] # r /\ (q # <<>> => queue[b][i] # Head(q))
      BY <1>4, <2>1, <2>2 DEF Prompted
    <3> QED BY <1>5, <2>1, <3>1, <3>2 DEF Slots, QueueWaits
  <2>3. CASE b = a /\ q # <<>>
    <3>1. queue'[b] = Tail(q)
      BY <1>1, <1>6, <2>3
    <3>2. \A i \in DOMAIN Tail(q) : i + 1 \in DOMAIN q /\ Tail(q)[i] = q[i + 1] /\ i \in Nat \ {0}
      BY <1>1, <2>3, Tailed
    <3>3. \A i \in DOMAIN Tail(q) : Tail(q)[i] # q[1]
      BY <1>1, <1>4, <2>3, <3>2 DEF Slots, QueueWaits
    <3>4. \A i \in DOMAIN Tail(q) : Tail(q)[i] # r /\ Tail(q)[i] # Head(q)
      BY <1>4, <2>1, <2>3, <3>2, <3>3 DEF Prompted
    <3>5. \A i, j \in DOMAIN Tail(q) : Tail(q)[i] = Tail(q)[j] => i = j
      BY <1>1, <3>2 DEF Slots, QueueWaits
    <3> QED BY <1>4, <1>5, <2>1, <2>3, <3>1, <3>2, <3>4, <3>5
  <2> QED BY <2>2, <2>3
<1> QED BY <1>7, <1>8, <1>9, <1>11, <1>12 DEF Slots
\* A spawn ends, or the process of an agent that was torn down does: nobody
\* owns the slot of an agent outside the pool for the gateway's purposes.
LEMMA SlotsProcess ==
  ASSUME Types, PoolInv, Slots, NEW a \in Agents, SpawnSucceeds(a) \/ SpawnFails(a) \/ Stopped(a)
  PROVE  Slots'
<1> USE PoolAssumption DEF Types, SlotTypes
<1>1. PICK l \in {"running", "stopping", "gone"} :
        /\ life' = [life EXCEPT ![a] = l]
        /\ l = "running" => pool' = a /\ life[a] = "starting"
        /\ l # "running" => pool' = pool
  BY DEF SpawnSucceeds, SpawnFails, Stopped
<1>2. /\ life[a] \in {"starting", "stopping", "exited"} /\ pool # a /\ Quiet
      /\ UNCHANGED <<queue, given>>
      /\ spawning' \in {spawning, None}
      /\ \A b \in Agents : b # a => busy'[b] = busy[b]
      /\ busy'[a] => busy[a]
  BY DEF SpawnSucceeds, SpawnFails, Stopped, PoolInv, ServingIsPooled
<1>3. \A s \in Requests : pc[s] # "granted" /\ pc[s] # "ready"
  BY <1>2 DEF Quiet, Continuing
<1>4. \A s \in Requests :
        \/ pc'[s] = pc[s] /\ (given[s] = a /\ pc[s] = "spawning" => l = "stopping")
        \/ pc'[s] = "ready" /\ given[s] = a /\ pc[s] = "spawning" /\ l = "running"
        \/ pc'[s] = "failed" /\ given[s] = a /\ pc[s] \in {"spawning", "prompting", "following"}
  <2>1. CASE SpawnSucceeds(a)
    BY <1>1, <2>1 DEF SpawnSucceeds, Waiting, GatewayTypes
  <2>2. CASE SpawnFails(a)
    BY <1>1, <2>2 DEF SpawnFails, Waiting, PcWithout
  <2>3. CASE Stopped(a)
    BY <1>1, <2>3 DEF Stopped, Waiting, PcWithout
  <2> QED BY <2>1, <2>2, <2>3
<1>5. Placed'
  <2>1. ASSUME NEW s \in Requests
        PROVE  /\ given'[s] = None => pc'[s] \in {"new", "failed"}
               /\ given'[s] # None => life'[given'[s]] # "none"
               /\ given'[s] # None /\ life'[given'[s]] = "starting" => pc'[s] = "spawning"
               /\ pc'[s] \in {"ready", "granted"} => life'[given'[s]] = "running"
    <3>1. CASE given[s] = a
      BY <1>1, <1>2, <1>3, <1>4, <3>1 DEF Slots, Placed, GatewayTypes
    <3>2. CASE given[s] # a
      <4>1. given[s] # None => life'[given[s]] = life[given[s]]
        BY <1>1, <3>2 DEF GatewayTypes
      <4>2. pc'[s] = pc[s] /\ given'[s] = given[s]
        BY <1>2, <1>4, <3>2
      <4> QED BY <4>1, <4>2 DEF Slots, Placed
    <3> QED BY <3>1, <3>2
  <2>2. spawning' # None => life'[spawning'] # "none"
    BY <1>1, <1>2 DEF Slots, Placed, GatewayTypes
  <2> QED BY <2>1, <2>2 DEF Placed
<1>6. OneSlotted'
  BY <1>2, <1>4 DEF Slots, OneSlotted, Slotted, Prompted
<1>7. GrantedAlone'
  BY <1>3, <1>4 DEF GrantedAlone
<1>8. \A b \in Agents : b # a => Owners(b)' = Owners(b)
  BY <1>2, <1>4 DEF Owners, Prompted
<1>9. BusyIsOwned'
  <2>1. life[a] = "starting" => Owners(a)' = {} /\ ~busy'[a]
    <3>1. life[a] = "starting" => \A s \in Requests : given[s] = a => pc'[s] \notin Prompted
      BY <1>4 DEF Slots, Placed, Prompted
    <3>2. life[a] = "starting" => ~busy'[a]
      BY <1>2 DEF Slots, BusyIsOwned
    <3> QED BY <1>2, <3>1, <3>2 DEF Owners
  <2>2. life[a] \in {"stopping", "exited"} => pool' # a
    BY <1>1, <1>2
  <2>3. ASSUME NEW b \in Agents
        PROVE  /\ pool' = b => (busy'[b] <=> Owners(b)' # {})
               /\ life'[b] \in {"none", "starting"} => ~busy'[b]
    <3>1. CASE b = a
      BY <1>1, <1>2, <2>1, <2>2, <3>1 DEF GatewayTypes
    <3>2. CASE b # a
      BY <1>1, <1>2, <1>8, <3>2 DEF Slots, BusyIsOwned, GatewayTypes
    <3> QED BY <3>1, <3>2
  <2> QED BY <2>3 DEF BusyIsOwned
<1>10. QueueWaits'
  <2>1. ASSUME NEW b \in Agents
        PROVE  /\ queue[b] # <<>> => life'[b] = "running"
               /\ \A i \in DOMAIN queue[b] : queue[b][i] \in Requests /\ pc'[queue[b][i]] = "queued"
    <3>1. queue[b] # <<>> => b # a
      BY <1>2 DEF Slots, QueueWaits
    <3>2. \A i \in DOMAIN queue[b] : queue[b][i] \in Requests /\ pc[queue[b][i]] = "queued"
      BY InSeq DEF Slots, QueueWaits
    <3> QED BY <1>1, <1>4, <3>1, <3>2 DEF Slots, QueueWaits, GatewayTypes
  <2> QED BY <1>2, <2>1 DEF Slots, QueueWaits
<1> QED BY <1>5, <1>6, <1>7, <1>9, <1>10 DEF Slots

\* What a request does keeps the slots.
LEMMA SlotsRequest ==
  ASSUME Types, PoolInv, Slots, NEW r \in Requests,
         \/ Arrive(r) \/ ArriveToReplace(r) \/ Continuation(r) \/ Detach(r)
         \/ PromptTimesOut(r) \/ FollowUpTimesOut(r) \/ SettleTimesOut(r)
  PROVE  Slots'
<1>1. CASE Arrive(r) \/ Replaced(r)
  BY <1>1, SlotsFound DEF Arrive, Replaced, Continuing
<1>2. CASE ArriveToReplace(r)
  BY <1>2, SlotsTornDown DEF ArriveToReplace
<1>3. CASE Attached(r) \/ Detach(r)
  BY <1>3, SlotsMoved DEF Attached, Detach, Goes, poolVars, agentVars
<1>4. CASE TellTakes(r)
  BY <1>4, SlotsTaken DEF TellTakes, IsBusy, poolVars
<1>5. CASE TellWaits(r)
  BY <1>5, SlotsAwaited
<1>6. CASE TellGranted(r)
  <2>1. pool = given[r]
    BY <1>6 DEF TellGranted, Slots, Placed, PoolInv, ServingIsPooled, Types, SlotTypes
  <2> QED BY <1>6, <2>1, SlotsTaken DEF TellGranted, poolVars
<1>7. CASE PromptTimesOut(r)
  BY <1>7, SlotsReleased DEF PromptTimesOut, Refuse, Prompted, poolVars
<1>8. CASE SettleTimesOut(r)
  BY <1>8, SlotsReleased DEF SettleTimesOut, Prompted, poolVars
<1>9. CASE FollowUpTimesOut(r)
  BY <1>9, SlotsMoved DEF FollowUpTimesOut, Goes, poolVars, agentVars
<1> QED BY <1>1, <1>2, <1>3, <1>4, <1>5, <1>6, <1>7, <1>8, <1>9 DEF Continuation

\* What is heard of an agent: at most the owner of the slot gives it back.
LEMMA SlotsRead ==
  ASSUME Types, PoolInv, Slots, Addressed, NEW a \in Agents,
         ReadCompleted(a) \/ ReadSuccess(a) \/ ReadError(a)
  PROVE  Slots'
<1> DEFINE r == Head(outbox[a]).by
<1>1. UNCHANGED <<pool, spawning, life, given>> /\ Quiet
  BY DEF ReadCompleted, ReadSuccess, ReadError, ReadLine, poolVars
<1>2. Head(outbox[a]) \in Lines
  BY Tailed DEF ReadCompleted, ReadSuccess, ReadError, ReadLine, Types, AgentTypes
<1>3. CASE ReadCompleted(a)
  <2> DEFINE over == {s \in Requests : given[s] = a /\ settled[s] = "listening" /\ pc[s] = "settling"}
             places == [s \in Requests |-> IF s \in over THEN "acked" ELSE pc[s]]
  <2>1. IF over # {} THEN Release(a, places) ELSE UNCHANGED <<busy, queue, pc>>
    BY <1>3 DEF ReadCompleted
  <2>2. CASE over = {}
    BY <1>1, <2>1, <2>2, SlotsFramed DEF slotVars
  <2>3. ASSUME NEW s \in over PROVE Slots'
    <3>1. \A t \in Requests : t \in over <=> t = s
      BY <2>3 DEF Slots, OneSlotted, Slotted, Prompted
    <3>2. places = [pc EXCEPT ![s] = "acked"]
      BY <3>1 DEF Types, SlotTypes
    <3> QED BY <1>1, <2>1, <2>3, <3>2, SlotsReleased DEF Prompted
  <2> QED BY <2>2, <2>3
<1>4. CASE ReadSuccess(a)
  <2>1. r \in Requests /\ Head(outbox[a]) \in Answers
    BY <1>2, <1>4 DEF Lines, Answers, ReadSuccess, ReadLine
  <2>0. given[r] = a
    BY <1>4, <2>1, Tailed DEF ReadSuccess, ReadLine, Types, AgentTypes, Addressed, In, Told
  <2>2. CASE pc[r] = "prompting" /\ settled[r] = "yes"
    <3>1. Release(a, [pc EXCEPT ![r] = "acked"])
      BY <1>4, <2>2 DEF ReadSuccess
    <3> QED BY <1>1, <2>0, <2>1, <2>2, <3>1, SlotsReleased DEF Prompted
  <2>3. CASE ~(pc[r] = "prompting" /\ settled[r] = "yes") /\ pc[r] \in {"prompting", "following"}
    <3>1. \E p \in {"settling", "acked"} : /\ pc' = [pc EXCEPT ![r] = p]
                                           /\ (p = "settling") <=> (pc[r] = "prompting")
      BY <1>4, <2>3 DEF ReadSuccess
    <3>2. UNCHANGED <<busy, queue>>
      BY <1>4, <2>3 DEF ReadSuccess
    <3> QED BY <1>1, <2>1, <2>3, <3>1, <3>2, SlotsMoved DEF Prompted
  <2>4. CASE pc[r] \notin {"prompting", "following"}
    <3>1. UNCHANGED <<busy, queue, pc>>
      BY <1>4, <2>4 DEF ReadSuccess
    <3> QED BY <1>1, <3>1, SlotsFramed DEF slotVars
  <2> QED BY <2>2, <2>3, <2>4
<1>5. CASE ReadError(a)
  <2>1. r \in Requests
    BY <1>2, <1>5 DEF Lines, Answers, ReadError, ReadLine
  <2>2. CASE pc[r] = "prompting"
    BY <1>1, <1>5, <2>1, <2>2, SlotsReleased DEF ReadError, Refuse, Prompted
  <2>3. CASE pc[r] = "following"
    BY <1>1, <1>5, <2>1, <2>3, SlotsMoved DEF ReadError, Goes
  <2>4. CASE pc[r] \notin {"prompting", "following"}
    BY <1>1, <1>5, <2>4, SlotsFramed DEF ReadError, slotVars
  <2> QED BY <2>2, <2>3, <2>4
<1> QED BY <1>3, <1>4, <1>5

\* Everything else leaves them alone, or tears the agent down.
LEMMA SlotsElsewhere ==
  ASSUME Types, PoolInv, Slots,
         \/ \E a \in Agents : AgentReads(a) \/ Begins(a) \/ TurnEnds(a) \/ TurnFails(a) \/ LocalTurn(a)
         \/ Crash \/ IdleEviction \/ StartProbe \/ ProbeEnds \/ ProbeFails \/ StopBegins \/ StopAgents
  PROVE  Slots'
<1>1. CASE \E a \in Agents : AgentReads(a) \/ Begins(a) \/ TurnEnds(a) \/ TurnFails(a) \/ LocalTurn(a)
  <2>1. UNCHANGED slotVars
    BY <1>1 DEF AgentReads, Begins, ReadsPrompt, ReadsFollowUp, TurnBegins, Reads, TurnEnds,
       TurnFails, LocalTurn, slotVars, poolVars, agentVars, requestVars
  <2> QED BY <2>1, SlotsFramed
<1>2. CASE StartProbe \/ ProbeEnds \/ StopBegins
  <2>1. UNCHANGED slotVars
    BY <1>2 DEF StartProbe, ProbeEnds, StopBegins, slotVars, agentVars, requestVars
  <2> QED BY <2>1, SlotsFramed
<1>3. ASSUME Quiet, pool # None, NEW stage \in {"stopping", "exited"}, Teardown(pool, stage),
             pc' = PcWithout(Rejected(pool)), UNCHANGED <<given, spawning, busy>>
      PROVE  Slots'
  BY <1>3, SlotsTornDown
<1>4. CASE Crash \/ IdleEviction
  BY <1>3, <1>4 DEF Crash, IdleEviction, TornDown
<1>5. CASE ProbeFails \/ StopAgents
  <2>1. CASE pool # None
    BY <1>3, <1>5, <2>1 DEF ProbeFails, StopAgents, TornDown, TornDownIfAny
  <2>2. CASE pool = None
    <3>1. UNCHANGED slotVars
      BY <1>5, <2>2 DEF ProbeFails, StopAgents, TornDown, TornDownIfAny, slotVars
    <3> QED BY <3>1, SlotsFramed
  <2> QED BY <2>1, <2>2
<1> QED BY <1>1, <1>2, <1>4, <1>5
-----------------------------------------------------------------------------
(* Commands and answers. *)

\* What is in a sequence after an append.
LEMMA InAppended ==
  ASSUME NEW S, NEW s \in Seq(S), NEW x \in S, NEW y PROVE In(y, Append(s, x)) <=> In(y, s) \/ y = x
BY Appended, InSeq DEF In

\* What is left in a sequence without its head was in it.
LEMMA InTailed ==
  ASSUME NEW S, NEW s \in Seq(S), s # <<>>, NEW y
  PROVE  (In(y, Tail(s)) => In(y, s)) /\ In(Head(s), s)
BY Tailed DEF In

\* Nothing is in an empty sequence.
LEMMA NotInEmpty == ASSUME NEW y PROVE ~In(y, <<>>)
BY DEF In

\* A request that is told stays told to the same agent, and is acknowledged
\* after the agent's answer only, whatever it is when it is to a follow-up.
GoesOn(r) ==
  /\ \A a \in Agents : Told(r, a) => Told(r, a)'
  /\ pc'[r] \in {"settling", "acked"} =>
       \/ pc[r] \in {"settling", "acked", "following"}
       \/ \E a \in Agents : In([line |-> "success", by |-> r], outbox[a])

\* A step that moves no request lets each of them go on.
LEMMA GoesOnUnmoved == ASSUME NEW r \in Requests, UNCHANGED <<pc, given>> PROVE GoesOn(r)
BY DEF GoesOn, Told

\* The requests' own steps let every request go on (the one that leaves its slot
\* hands it to the head of the queue).
LEMMA GoesOnRequest ==
  ASSUME Types, PoolInv, Slots, NEW r \in Requests, NEW s \in Requests,
         \/ Arrive(r) \/ ArriveToReplace(r) \/ Continuation(r) \/ Detach(r)
         \/ PromptTimesOut(r) \/ FollowUpTimesOut(r) \/ SettleTimesOut(r)
  PROVE  GoesOn(s)
<1> USE DEF Types, SlotTypes
<1>1. CASE Arrive(r) \/ Replaced(r)
  <2>1. /\ pc[r] \in {"new", "replacing"} /\ \E p \in {"ready", "spawning", "failed"} : pc' = [pc EXCEPT ![r] = p]
        /\ s # r => given'[s] = given[s]
    BY <1>1 DEF Arrive, Replaced, GetOrCreate, Goes
  <2> QED BY <2>1 DEF GoesOn, Told
<1>2. CASE ArriveToReplace(r)
  <2>1. /\ pc[r] = "new" /\ pc'[s] \in {pc[s], "failed", "replacing"} /\ (pc'[s] = "replacing" => s = r \/ pc[s] = "replacing")
        /\ s # r => given'[s] = given[s]
    BY <1>2 DEF ArriveToReplace, PcWithout
  <2> QED BY <2>1 DEF GoesOn, Told
<1>3. CASE Attached(r) \/ Detach(r) \/ TellTakes(r) \/ TellWaits(r) \/ TellGranted(r)
  <2>1. /\ given' = given /\ pc[r] \in {"ready", "attached", "granted"}
        /\ \E p \in {"attached", "left", "prompting", "queued", "failed"} : pc' = [pc EXCEPT ![r] = p]
    BY <1>3 DEF Attached, Detach, TellTakes, TellWaits, TellGranted, TakeSlot, Goes
  <2> QED BY <2>1 DEF GoesOn, Told
<1>4. CASE PromptTimesOut(r) \/ SettleTimesOut(r)
  <2>0. given[r] \in Agents
    BY <1>4 DEF PromptTimesOut, SettleTimesOut, Slots, Placed
  <2>1. \E p \in {"following", "acked"} :
          /\ Release(given[r], [pc EXCEPT ![r] = p]) /\ given' = given
          /\ pc[r] = IF p = "acked" THEN "settling" ELSE "prompting"
    BY <1>4 DEF PromptTimesOut, SettleTimesOut, Refuse
  <2>2. queue[given[r]] # <<>> => Head(queue[given[r]]) \in Requests /\ pc[Head(queue[given[r]])] = "queued"
    BY <2>0, Tailed DEF Slots, QueueWaits
  <2> QED BY <2>1, <2>2 DEF Release, GoesOn, Told
<1>5. CASE FollowUpTimesOut(r)
  BY <1>5 DEF FollowUpTimesOut, Goes, GoesOn, Told
<1> QED BY <1>1, <1>2, <1>3, <1>4, <1>5 DEF Continuation

\* So does the gateway when it reads a line of an agent.
LEMMA GoesOnRead ==
  ASSUME Types, PoolInv, Slots, Addressed, NEW a \in Agents, NEW s \in Requests,
         ReadCompleted(a) \/ ReadSuccess(a) \/ ReadError(a)
  PROVE  GoesOn(s)
<1> USE DEF Types, SlotTypes
<1> DEFINE r == Head(outbox[a]).by
           over == {t \in Requests : given[t] = a /\ settled[t] = "listening" /\ pc[t] = "settling"}
           places == [t \in Requests |-> IF t \in over THEN "acked" ELSE pc[t]]
<1>1. given' = given
  BY DEF ReadCompleted, ReadSuccess, ReadError
<1>2. Head(outbox[a]) \in Lines /\ In(Head(outbox[a]), outbox[a])
  BY Tailed, InTailed DEF ReadCompleted, ReadSuccess, ReadError, ReadLine, AgentTypes
<1>3. ASSUME NEW b \in Agents
      PROVE  queue[b] # <<>> => Head(queue[b]) \in Requests /\ pc[Head(queue[b])] = "queued"
  BY Tailed DEF Slots, QueueWaits
<1>4. CASE ReadCompleted(a)
  <2>0. places[s] = pc[s] \/ (pc[s] = "settling" /\ places[s] = "acked")
    OBVIOUS
  <2>1. UNCHANGED pc \/ Release(a, places)
    BY <1>4 DEF ReadCompleted
  <2>3. places \in [Requests -> Places]
    BY DEF Places
  <2> HIDE DEF places
  <2>2. \/ pc'[s] = places[s]
        \/ pc[s] = "queued" /\ pc'[s] = "granted"
        \/ pc'[s] = pc[s]
    BY <1>3, <2>1, <2>3 DEF Release
  <2> QED BY <1>1, <2>0, <2>2 DEF GoesOn, Told
<1>5. CASE ReadSuccess(a)
  <2>1. Head(outbox[a]) = [line |-> "success", by |-> r] /\ r \in Requests
    BY <1>2, <1>5 DEF ReadSuccess, ReadLine, Lines, Answers
  <2>2. \/ pc'[s] = pc[s]
        \/ pc[s] = "queued" /\ pc'[s] = "granted"
        \/ s = r /\ pc[s] \in {"prompting", "following"} /\ pc'[s] \in {"settling", "acked"}
    BY <1>3, <1>5, <2>1 DEF ReadSuccess, Release
  <2> QED BY <1>1, <1>2, <2>1, <2>2 DEF GoesOn, Told
<1>6. CASE ReadError(a)
  <2>1. r \in Requests
    BY <1>2, <1>6 DEF ReadError, ReadLine, Lines, Answers
  <2>2. \A t \in Requests : pc[t] = "prompting" => given[t] \in Agents
    BY DEF Slots, Placed
  <2>3. \/ pc'[s] = pc[s]
        \/ pc[s] = "queued" /\ pc'[s] = "granted"
        \/ s = r /\ pc[s] = "prompting" /\ pc'[s] = "following"
        \/ pc[s] = "following" /\ pc'[s] = "acked"
    <3>1. pc[r] # "prompting" => pc' = pc \/ (pc[r] = "following" /\ pc' = [pc EXCEPT ![r] = "acked"])
      BY <1>6 DEF ReadError, Goes
    <3>2. pc[r] = "prompting" => Release(given[r], [pc EXCEPT ![r] = "following"])
      BY <1>6 DEF ReadError, Refuse
    <3> HIDE DEF r
    <3> QED BY <1>3, <2>1, <2>2, <3>1, <3>2 DEF Release
  <2> QED BY <1>1, <2>3 DEF GoesOn, Told
<1> QED BY <1>4, <1>5, <1>6

\* So do the agents, their processes and the gateway's timers and teardowns.
LEMMA GoesOnElsewhere ==
  ASSUME Types, PoolInv, Slots, NEW s \in Requests,
         \/ \E a \in Agents : \/ AgentReads(a) \/ Begins(a) \/ TurnEnds(a) \/ TurnFails(a) \/ LocalTurn(a)
                              \/ SpawnSucceeds(a) \/ SpawnFails(a) \/ Stopped(a)
         \/ Crash \/ IdleEviction \/ StartProbe \/ ProbeEnds \/ ProbeFails \/ StopBegins \/ StopAgents
  PROVE  GoesOn(s)
<1> USE DEF Types, SlotTypes
<1>1. CASE \E a \in Agents : AgentReads(a) \/ Begins(a) \/ TurnEnds(a) \/ TurnFails(a) \/ LocalTurn(a)
  BY <1>1, GoesOnUnmoved DEF AgentReads, Begins, ReadsPrompt, ReadsFollowUp, TurnBegins, Reads,
     TurnEnds, TurnFails, LocalTurn, requestVars
<1>2. ASSUME NEW a \in Agents, SpawnSucceeds(a) \/ SpawnFails(a) \/ Stopped(a)
      PROVE  GoesOn(s)
  <2>1. given' = given /\ (pc'[s] \in {pc[s], "failed"} \/ (pc'[s] = "ready" /\ pc[s] = "spawning"))
    BY <1>2 DEF SpawnSucceeds, SpawnFails, Stopped, PcWithout, Waiting
  <2> QED BY <2>1 DEF GoesOn, Told
<1>3. CASE StartProbe \/ ProbeEnds \/ StopBegins
  BY <1>3, GoesOnUnmoved DEF StartProbe, ProbeEnds, StopBegins, requestVars
<1>4. CASE Crash \/ IdleEviction \/ ProbeFails \/ StopAgents
  <2>1. given' = given /\ pc'[s] \in {pc[s], "failed"}
    BY <1>4 DEF Crash, IdleEviction, ProbeFails, StopAgents, TornDown, TornDownIfAny, PcWithout
  <2> QED BY <2>1 DEF GoesOn, Told
<1> QED BY <1>1, <1>2, <1>3, <1>4
\* What a step adds to the pipes is owed to a request or answers a command, and
\* no message is taken back.
Carried ==
  /\ \A a \in Agents, c \in Commands : In(c, inbox'[a]) => In(c, inbox[a]) \/ Told(c.by, a)'
  /\ \A a \in Agents, l \in Answers :
       In(l, outbox'[a]) =>
         \/ In(l, outbox[a])
         \/ /\ \E c \in Commands : In(c, inbox[a]) /\ c.by = l.by
            /\ l.line = "success" => accepted'[l.by] >= 1 \/ l.by \in coming'[a]
  /\ \A r \in Requests : accepted'[r] >= accepted[r]

\* The pipes are as they were, or emptied.
LEMMA CarriedNothing ==
  ASSUME Types, accepted' = accepted,
         \A a \in Agents : inbox'[a] \in {inbox[a], <<>>} /\ outbox'[a] \in {outbox[a], <<>>}
  PROVE  Carried
BY NotInEmpty DEF Carried, Types, TellTypes

\* The head of a refusal: the tell follows up in the agent it prompted.
LEMMA Refused ==
  ASSUME Types, Slots, NEW r \in Requests, pc[r] = "prompting", Refuse(r), given' = given
  PROVE  /\ given[r] \in Agents /\ pc'[r] = "following"
         /\ \A b \in Agents : b = given[r] => Told(r, b)'
         /\ inbox' = [inbox EXCEPT ![given[r]] = Append(@, [op |-> "followUp", by |-> r])]
         /\ [op |-> "followUp", by |-> r] \in Commands
<1> USE DEF Types, SlotTypes
<1>1. given[r] \in Agents
  BY DEF Slots, Placed
<1>2. queue[given[r]] # <<>> => Head(queue[given[r]]) \in Requests /\ pc[Head(queue[given[r]])] = "queued"
  BY <1>1, Tailed DEF Slots, QueueWaits
<1>3. pc'[r] = "following"
  BY <1>2 DEF Refuse, Release
<1> QED BY <1>1, <1>3 DEF Refuse, Told, Commands

\* A request's own step adds at most the command of a request that it tells.
LEMMA CarriedRequest ==
  ASSUME Types, PoolInv, Slots, NEW r \in Requests,
         \/ Arrive(r) \/ ArriveToReplace(r) \/ Continuation(r) \/ Detach(r)
         \/ PromptTimesOut(r) \/ FollowUpTimesOut(r) \/ SettleTimesOut(r)
  PROVE  Carried
<1> USE DEF Types
<1>1. CASE Arrive(r) \/ Replaced(r) \/ Attached(r) \/ TellWaits(r) \/ Detach(r)
           \/ SettleTimesOut(r) \/ FollowUpTimesOut(r)
  BY <1>1, CarriedNothing DEF Arrive, Replaced, Attached, TellWaits, Detach, SettleTimesOut,
     FollowUpTimesOut, pipes
<1>2. CASE ArriveToReplace(r)
  BY <1>2, CarriedNothing DEF ArriveToReplace, Teardown, AgentTypes
<1>3. ASSUME NEW op \in {"prompt", "followUp"}, given[r] \in Agents,
             \A b \in Agents : b = given[r] => Told(r, b)',
             inbox' = [inbox EXCEPT ![given[r]] = Append(@, [op |-> op, by |-> r])],
             UNCHANGED <<outbox, accepted>>
      PROVE  Carried
  <2>1. [op |-> op, by |-> r] \in Commands
    BY DEF Commands
  <2>2. \A b \in Agents, c \in Commands :
          In(c, inbox'[b]) => In(c, inbox[b]) \/ (b = given[r] /\ c = [op |-> op, by |-> r])
    BY <1>3, <2>1, InAppended DEF AgentTypes
  <2> QED BY <1>3, <2>2 DEF Carried, TellTypes
<1>4. CASE TellTakes(r) \/ TellGranted(r)
  <2>1. given[r] \in Agents
    BY <1>4 DEF TellTakes, TellGranted, Slots, Placed, SlotTypes
  <2>2. CASE TakeSlot(r)
    <3>1. \A b \in Agents : b = given[r] => Told(r, b)'
      BY <1>4, <2>2 DEF TellTakes, TellGranted, TakeSlot, Goes, Told, SlotTypes
    <3> QED BY <1>3, <1>4, <2>1, <2>2, <3>1 DEF TellTakes, TellGranted, TakeSlot
  <2>3. CASE ~TakeSlot(r)
    BY <1>4, <2>3, CarriedNothing DEF TellTakes, TellGranted
  <2> QED BY <2>2, <2>3
<1>5. CASE PromptTimesOut(r)
  <2>1. pc[r] = "prompting" /\ Refuse(r) /\ UNCHANGED <<given, outbox, accepted>>
    BY <1>5 DEF PromptTimesOut
  <2> QED BY <1>3, <2>1, Refused
<1> QED BY <1>1, <1>2, <1>4, <1>5 DEF Continuation

\* Reading a line adds at most the follow-up after a refusal.
LEMMA CarriedRead ==
  ASSUME Types, PoolInv, Slots, NEW a \in Agents, ReadCompleted(a) \/ ReadSuccess(a) \/ ReadError(a)
  PROVE  Carried
<1> USE DEF Types
<1> DEFINE r == Head(outbox[a]).by
<1>1. /\ outbox[a] # <<>> /\ outbox' = [outbox EXCEPT ![a] = Tail(@)] /\ accepted' = accepted
      /\ given' = given
  BY DEF ReadCompleted, ReadSuccess, ReadError, ReadLine
<1>2. \A b \in Agents, l \in Answers : In(l, outbox'[b]) => In(l, outbox[b])
  BY <1>1, InTailed DEF AgentTypes
<1>3. \A b \in Agents, c \in Commands : In(c, inbox'[b]) => In(c, inbox[b]) \/ Told(c.by, b)'
  <2>1. CASE inbox' = inbox
    BY <2>1
  <2>2. CASE inbox' # inbox
    <3>1. ReadError(a) /\ pc[r] = "prompting"
      BY <2>2 DEF ReadCompleted, ReadSuccess, ReadError
    <3>2. r \in Requests
      BY <1>1, <3>1, Tailed DEF ReadError, ReadLine, AgentTypes, Lines, Answers
    <3>3. PICK s \in Requests : pc[s] = "prompting" /\ Refuse(s)
      BY <3>1, <3>2 DEF ReadError
    <3>4. /\ given[s] \in Agents /\ \A b \in Agents : b = given[s] => Told(s, b)'
          /\ inbox' = [inbox EXCEPT ![given[s]] = Append(@, [op |-> "followUp", by |-> s])]
          /\ [op |-> "followUp", by |-> s] \in Commands
      BY <1>1, <3>3, Refused
    <3>5. \A b \in Agents, c \in Commands :
            In(c, inbox'[b]) => In(c, inbox[b]) \/ (b = given[s] /\ c = [op |-> "followUp", by |-> s])
      BY <3>4, InAppended DEF AgentTypes
    <3> QED BY <3>4, <3>5
  <2> QED BY <2>1, <2>2
<1> QED BY <1>1, <1>2, <1>3 DEF Carried, TellTypes

\* A command c is answered: one that succeeds is taken, a prompt when its turn begins.
Answered(a, c, what) ==
  /\ inbox[a] # <<>> /\ c = Head(inbox[a]) /\ inbox' = [inbox EXCEPT ![a] = Tail(@)]
  /\ Write(a, what, c.by) /\ UNCHANGED <<life, turn, pc, given>>
  /\ IF what = "success" /\ c.op = "followUp"
     THEN /\ accepted' = [accepted EXCEPT ![c.by] = @ + 1]
          /\ followUps' = [followUps EXCEPT ![a] = Append(@, c.by)]
     ELSE UNCHANGED <<accepted, followUps>>
  /\ IF what = "success" /\ c.op = "prompt"
     THEN coming' = [coming EXCEPT ![a] = @ \cup {c.by}] ELSE UNCHANGED coming

\* What an agent reads it answers so.
LEMMA AnswersRead ==
  ASSUME Types, NEW a \in Agents, AgentReads(a)
  PROVE  \E what \in {"success", "error"} : Answered(a, Head(inbox[a]), what)
<1>1. CASE ReadsPrompt(a)
  <2>1. PICK what \in {"success", "error"} : what = IF IsRunning(a) THEN "error" ELSE "success"
    OBVIOUS
  <2>2. Answered(a, Head(inbox[a]), what)
    BY <1>1, <2>1 DEF ReadsPrompt, Reads, Answered, agentVars, requestVars
  <2> QED BY <2>2
<1>2. CASE ReadsFollowUp(a)
  BY <1>2 DEF ReadsFollowUp, Reads, Answered, agentVars
<1> QED BY <1>1, <1>2 DEF AgentReads

\* An agent answers the commands it was sent only; the others empty pipes.
LEMMA CarriedElsewhere ==
  ASSUME Types, PoolInv, Slots,
         \/ \E a \in Agents : \/ AgentReads(a) \/ Begins(a) \/ TurnEnds(a) \/ TurnFails(a) \/ LocalTurn(a)
                              \/ SpawnSucceeds(a) \/ SpawnFails(a) \/ Stopped(a)
         \/ Crash \/ IdleEviction \/ StartProbe \/ ProbeEnds \/ ProbeFails \/ StopBegins \/ StopAgents
  PROVE  Carried
<1> USE DEF Types
<1>1. ASSUME NEW a \in Agents, AgentReads(a) PROVE Carried
  <2>1. PICK what \in {"success", "error"}, c \in {Head(inbox[a])} : Answered(a, c, what)
    BY <1>1, AnswersRead
  <2>2. c \in Commands /\ c.by \in Requests /\ In(c, inbox[a])
    <3>1. inbox[a] \in Seq(Commands)
      BY DEF AgentTypes
    <3>2. c \in Commands /\ In(c, inbox[a])
      BY <2>1, <3>1, Tailed, InTailed DEF Answered
    <3> QED BY <3>2 DEF Commands
  <2>5. [line |-> what, by |-> c.by] \in Lines
    BY <2>2 DEF Lines, Answers
  <2>6. \A b \in Agents, l \in Answers :
          In(l, outbox'[b]) => In(l, outbox[b]) \/ (b = a /\ l = [line |-> what, by |-> c.by])
    BY <2>1, <2>5, InAppended DEF Answered, Write, AgentTypes
  <2>7. what = "success" => accepted'[c.by] >= 1 \/ c.by \in coming'[a]
    <3>1. CASE c.op = "followUp"
      <4>1. what = "success" => accepted' = [accepted EXCEPT ![c.by] = @ + 1]
        BY <2>1, <3>1 DEF Answered
      <4> QED BY <2>2, <4>1 DEF TellTypes
    <3>2. CASE c.op = "prompt"
      <4>1. what = "success" => coming' = [coming EXCEPT ![a] = @ \cup {c.by}]
        BY <2>1, <3>2 DEF Answered
      <4> QED BY <2>2, <4>1 DEF AgentTypes
    <3> QED BY <2>2, <3>1, <3>2 DEF Commands
  <2>8. \A b \in Agents, d \in Commands : In(d, inbox'[b]) => In(d, inbox[b])
    BY <2>1, InTailed DEF Answered, AgentTypes
  <2>9. \A r \in Requests : accepted'[r] >= accepted[r]
    <3>1. accepted' = accepted \/ accepted' = [accepted EXCEPT ![c.by] = @ + 1]
      BY <2>1 DEF Answered
    <3> QED BY <2>2, <3>1 DEF TellTypes
  <2> QED BY <2>2, <2>6, <2>7, <2>8, <2>9 DEF Carried
<1>7. ASSUME NEW a \in Agents, NEW r \in Requests, TurnBegins(a, r) PROVE Carried
  <2>1. UNCHANGED <<inbox, outbox>> /\ (accepted' = accepted \/ accepted' = [accepted EXCEPT ![r] = @ + 1])
    BY <1>7 DEF TurnBegins, pipes
  <2> QED BY <2>1 DEF Carried, TellTypes
<1>2. ASSUME NEW a \in Agents, TurnEnds(a) \/ TurnFails(a) PROVE Carried
  <2>1. /\ UNCHANGED <<inbox, accepted>> /\ Write(a, "completed", turn[a])
        /\ [line |-> "completed", by |-> turn[a]] \in Lines
    BY <1>2 DEF TurnEnds, TurnFails, requestVars, Lines, AgentTypes
  <2>2. \A l \in Answers : l # [line |-> "completed", by |-> turn[a]]
    BY DEF Answers
  <2>3. \A b \in Agents, l \in Answers : In(l, outbox'[b]) => In(l, outbox[b])
    BY <2>1, <2>2, InAppended DEF Write, AgentTypes
  <2> QED BY <2>1, <2>3 DEF Carried, TellTypes
<1>3. CASE \E a \in Agents : LocalTurn(a) \/ SpawnSucceeds(a) \/ SpawnFails(a)
  BY <1>3, CarriedNothing DEF LocalTurn, SpawnSucceeds, SpawnFails, pipes, requestVars
<1>4. ASSUME NEW a \in Agents, Stopped(a) PROVE Carried
  BY <1>4, CarriedNothing DEF Stopped, AgentTypes
<1>5. CASE StartProbe \/ ProbeEnds \/ StopBegins
  BY <1>5, CarriedNothing DEF StartProbe, ProbeEnds, StopBegins, pipes, requestVars
<1>6. CASE Crash \/ IdleEviction \/ ProbeFails \/ StopAgents
  <2>1. accepted' = accepted /\ (outbox' = outbox \/ outbox' = [outbox EXCEPT ![pool] = <<>>])
    BY <1>6 DEF Crash, IdleEviction, ProbeFails, StopAgents, TornDown, TornDownIfAny, Teardown
  <2>2. inbox' = inbox \/ inbox' = [inbox EXCEPT ![pool] = <<>>]
    BY <1>6 DEF Crash, IdleEviction, ProbeFails, StopAgents
  <2> QED BY <2>1, <2>2, CarriedNothing DEF AgentTypes
<1> QED BY <1>1, <1>2, <1>3, <1>4, <1>5, <1>6, <1>7 DEF Begins

\* Told requests stay so under the steps of those shapes.
LEMMA TellsGoOn ==
  ASSUME Types, Addressed, Carried, \A r \in Requests : GoesOn(r)
  PROVE  Addressed'
<1>1. (\A c \in Commands : c.by \in Requests) /\ (\A l \in Answers : l.by \in Requests)
  BY DEF Commands, Answers
<1>2. ASSUME NEW a \in Agents, NEW c \in Commands, In(c, inbox'[a]) PROVE Told(c.by, a)'
  BY <1>1, <1>2 DEF Addressed, Carried, GoesOn
<1>3. ASSUME NEW a \in Agents, NEW l \in Answers, In(l, outbox'[a]) PROVE Told(l.by, a)'
  BY <1>1, <1>3 DEF Addressed, Carried, GoesOn
<1> QED BY <1>2, <1>3 DEF Addressed
-----------------------------------------------------------------------------
(* Delivery. *)

\* Nothing is read of an agent that does not serve, and one that has not begun
\* to has nothing to do.
Drained ==
  \A a \in Agents :
    /\ life[a] # "running" => outbox[a] = <<>>
    /\ life[a] \in {"none", "starting"} => inbox[a] = <<>> /\ coming[a] = {}
                                           /\ turn[a] = None /\ followUps[a] = <<>>

\* A request writes to an agent that serves.
LEMMA DrainedRequest ==
  ASSUME Types, PoolInv, Slots, Drained, NEW r \in Requests,
         \/ Arrive(r) \/ ArriveToReplace(r) \/ Continuation(r) \/ Detach(r)
         \/ PromptTimesOut(r) \/ FollowUpTimesOut(r) \/ SettleTimesOut(r)
  PROVE  Drained'
<1> USE DEF Types
<1>1. CASE Arrive(r) \/ Replaced(r)
  <2>1. UNCHANGED <<inbox, outbox, turn, followUps, coming>>
    BY <1>1 DEF Arrive, Replaced, turnVars, pipes
  <2>2. \A a \in Agents : life'[a] = life[a] \/ (life[a] = "none" /\ life'[a] = "starting")
    BY <1>1 DEF Arrive, Replaced, GetOrCreate, Fresh, GatewayTypes
  <2> QED BY <2>1, <2>2 DEF Drained
<1>2. CASE ArriveToReplace(r)
  <2>1. UNCHANGED <<inbox, turn, followUps, coming>> /\ Teardown(pool, "stopping") /\ pool \in Agents
    BY <1>2 DEF ArriveToReplace, turnVars, GatewayTypes
  <2> QED BY <2>1 DEF Drained, Teardown, GatewayTypes, AgentTypes
<1>3. CASE Attached(r) \/ TellWaits(r) \/ Detach(r) \/ FollowUpTimesOut(r) \/ SettleTimesOut(r)
  <2>1. UNCHANGED <<life, inbox, outbox, turn, followUps, coming>>
    BY <1>3 DEF Attached, TellWaits, Detach, FollowUpTimesOut, SettleTimesOut, agentVars, turnVars, pipes
  <2> QED BY <2>1 DEF Drained
<1>4. CASE TellTakes(r) \/ TellGranted(r) \/ PromptTimesOut(r)
  <2>1. UNCHANGED <<life, outbox, turn, followUps, coming>> /\ life[given[r]] = "running"
    BY <1>4 DEF TellTakes, TellGranted, PromptTimesOut, turnVars, Slots, Placed
  <2>2. \A a \in Agents : life[a] # "running" => inbox'[a] = inbox[a]
    BY <1>4, <2>1 DEF TellTakes, TellGranted, PromptTimesOut, TakeSlot, Refuse, AgentTypes
  <2> QED BY <2>1, <2>2 DEF Drained
<1> QED BY <1>1, <1>2, <1>3, <1>4 DEF Continuation

\* So does the gateway in answer to a line, and an agent writes while it serves.
LEMMA DrainedAgent ==
  ASSUME Types, PoolInv, Slots, Addressed, Drained, NEW a \in Agents,
         \/ AgentReads(a) \/ Begins(a) \/ TurnEnds(a) \/ TurnFails(a) \/ LocalTurn(a)
         \/ SpawnSucceeds(a) \/ SpawnFails(a) \/ Stopped(a)
         \/ ReadCompleted(a) \/ ReadSuccess(a) \/ ReadError(a)
  PROVE  Drained'
<1> USE DEF Types
<1>1. CASE AgentReads(a) \/ Begins(a) \/ TurnEnds(a) \/ TurnFails(a) \/ LocalTurn(a)
  <2>1. UNCHANGED life /\ life[a] \in {"running", "stopping"}
    BY <1>1 DEF AgentReads, Begins, ReadsPrompt, ReadsFollowUp, TurnBegins, Reads, TurnEnds,
       TurnFails, LocalTurn, agentVars, Alive
  <2>2. \A b \in Agents : b # a \/ life[a] # "running" => outbox'[b] = outbox[b]
    BY <1>1, <2>1 DEF AgentReads, Begins, ReadsPrompt, ReadsFollowUp, TurnBegins, Reads, TurnEnds,
       TurnFails, LocalTurn, Write, pipes, AgentTypes
  <2>3. \A b \in Agents : b # a => UNCHANGED <<inbox[b], turn[b], followUps[b], coming[b]>>
    BY <1>1 DEF AgentReads, Begins, ReadsPrompt, ReadsFollowUp, TurnBegins, Reads, TurnEnds,
       TurnFails, LocalTurn, pipes, turnVars, AgentTypes
  <2> QED BY <2>1, <2>2, <2>3 DEF Drained
<1>2. CASE SpawnSucceeds(a) \/ SpawnFails(a)
  <2>1. UNCHANGED <<inbox, outbox, turn, followUps, coming>> /\ life[a] = "starting"
    BY <1>2 DEF SpawnSucceeds, SpawnFails, turnVars, pipes
  <2>2. \A b \in Agents : b # a => life'[b] = life[b]
    BY <1>2 DEF SpawnSucceeds, SpawnFails, GatewayTypes
  <2>3. life'[a] \in {"running", "stopping", "gone"}
    BY <1>2 DEF SpawnSucceeds, SpawnFails, GatewayTypes
  <2> QED BY <2>1, <2>2, <2>3 DEF Drained
<1>3. CASE Stopped(a)
  BY <1>3 DEF Stopped, Drained, GatewayTypes, AgentTypes
<1>4. CASE ReadCompleted(a) \/ ReadSuccess(a) \/ ReadError(a)
  <2>1. UNCHANGED <<life, turn, followUps, coming>> /\ life[a] = "running"
    BY <1>4 DEF ReadCompleted, ReadSuccess, ReadError, ReadLine, turnVars
  <2>2. \A b \in Agents : b # a => outbox'[b] = outbox[b]
    BY <1>4 DEF ReadCompleted, ReadSuccess, ReadError, ReadLine, AgentTypes
  <2>3. \A b \in Agents : b # a => inbox'[b] = inbox[b]
    <3>1. CASE ReadError(a)
      <4>1. Head(outbox[a]) \in Answers /\ In(Head(outbox[a]), outbox[a])
        BY <3>1, Tailed, InTailed DEF ReadError, ReadLine, AgentTypes, Lines, Answers
      <4>2. given[Head(outbox[a]).by] = a
        BY <4>1 DEF Addressed, Told
      <4> QED BY <3>1, <4>2 DEF ReadError, Refuse, AgentTypes
    <3> QED BY <1>4, <3>1 DEF ReadCompleted, ReadSuccess
  <2> QED BY <2>1, <2>2, <2>3 DEF Drained
<1> QED BY <1>1, <1>2, <1>3, <1>4

\* Whatever takes an agent out of the pool empties its pipes.
LEMMA DrainedGateway ==
  ASSUME Types, PoolInv, Drained,
         Crash \/ IdleEviction \/ StartProbe \/ ProbeEnds \/ ProbeFails \/ StopBegins \/ StopAgents
  PROVE  Drained'
<1> USE DEF Types
<1>1. CASE StartProbe \/ ProbeEnds \/ StopBegins
  <2>1. UNCHANGED <<life, inbox, outbox, turn, followUps, coming>>
    BY <1>1 DEF StartProbe, ProbeEnds, StopBegins, agentVars, pipes, turnVars
  <2> QED BY <2>1 DEF Drained
<1>2. CASE Crash
  <2>1. /\ pool \in Agents /\ Teardown(pool, "exited") /\ coming' = coming
        /\ turn' = [turn EXCEPT ![pool] = None] /\ followUps' = [followUps EXCEPT ![pool] = <<>>]
        /\ inbox' = [inbox EXCEPT ![pool] = <<>>]
    BY <1>2 DEF Crash, TornDown, GatewayTypes
  <2> QED BY <2>1 DEF Teardown, Drained, GatewayTypes, AgentTypes
<1>3. CASE IdleEviction \/ ProbeFails \/ StopAgents
  <2>1. UNCHANGED <<inbox, turn, followUps, coming>>
    BY <1>3 DEF IdleEviction, ProbeFails, StopAgents, turnVars
  <2>2. UNCHANGED <<life, outbox>> \/ (pool \in Agents /\ Teardown(pool, "stopping"))
    BY <1>3 DEF IdleEviction, ProbeFails, StopAgents, TornDown, TornDownIfAny, GatewayTypes
  <2> QED BY <2>1, <2>2 DEF Teardown, Drained, GatewayTypes, AgentTypes
<1> QED BY <1>1, <1>2, <1>3

\* Disturbances are only ever counted up.
LEMMA UsedGrows ==
  ASSUME Types, [Next]_vars, NEW d \in Disturbances PROVE used'[d] >= used[d]
<1> USE DEF Types, TellTypes
<1>1. ASSUME NEW x \in Disturbances, Spend(x) PROVE used'[d] >= used[d]
  BY <1>1 DEF Spend
<1>2. ASSUME used' = used PROVE used'[d] >= used[d]
  BY <1>2
<1>3. {"local", "crash", "spawn", "idle", "probe", "stuck", "refusal", "long", "retry",
       "append", "stop"} = Disturbances
  BY DEF Disturbances
<1>4. ASSUME NEW r \in Requests,
             \/ Arrive(r) \/ ArriveToReplace(r) \/ Continuation(r) \/ Detach(r)
             \/ PromptTimesOut(r) \/ FollowUpTimesOut(r) \/ SettleTimesOut(r)
      PROVE  used' = used \/ Spend("refusal") \/ Spend("long")
  BY <1>4 DEF Arrive, ArriveToReplace, Continuation, Replaced, Attached, TellTakes, TellWaits,
     TellGranted, Detach, PromptTimesOut, FollowUpTimesOut, SettleTimesOut, ghosts
<1>5. ASSUME NEW a \in Agents, Pipe(a) \/ Process(a) \/ SpawnFails(a) \/ LocalTurn(a) \/ TurnFails(a)
      PROVE  used' = used \/ Spend("spawn") \/ Spend("local") \/ Spend("retry") \/ Spend("append")
  BY <1>5 DEF Pipe, AgentReads, Begins, ReadsPrompt, ReadsFollowUp, TurnBegins, Reads, TurnEnds,
     ReadCompleted, ReadSuccess, ReadError, Process,
     SpawnSucceeds, Stopped, SpawnFails, LocalTurn, TurnFails, ghosts
<1>6. ASSUME Crash \/ IdleEviction \/ StartProbe \/ ProbeEnds \/ ProbeFails \/ StopBegins \/ StopAgents
      PROVE  \/ used' = used \/ Spend("crash") \/ Spend("idle") \/ Spend("probe")
             \/ Spend("stuck") \/ Spend("stop")
  BY <1>6 DEF Crash, IdleEviction, StartProbe, ProbeEnds, ProbeFails, StopBegins, StopAgents,
     TornDown, ghosts
<1>7. CASE UNCHANGED vars
  BY <1>2, <1>7 DEF vars, ghosts
<1>8. CASE Next
  BY <1>1, <1>2, <1>3, <1>4, <1>5, <1>6, <1>8 DEF Next
<1> QED BY <1>7, <1>8

\* A command is of a message that is not taken yet, with no answer on its way.
CommandWaits ==
  \A a \in Agents, c \in Commands : In(c, inbox[a]) =>
    /\ accepted[c.by] = 0
    /\ pc[c.by] = IF c.op = "prompt" THEN "prompting" ELSE "following"
    /\ \A l \in Answers : In(l, outbox[a]) => l.by # c.by

\* An answer finds its request waiting; a refused message was not taken.
AnswerWaits ==
  \A a \in Agents, l \in Answers : In(l, outbox[a]) =>
    /\ pc[l.by] \in {"prompting", "following"}
    /\ l.line = "error" => accepted[l.by] = 0 /\ \A b \in Agents : l.by \notin coming[b]

\* An acknowledged prompt waits for its turn, and no command of it does.
ComingWaits ==
  \A a \in Agents : \A r \in coming[a] :
    /\ accepted[r] = 0 /\ Told(r, a)
    /\ \A b \in Agents, c \in Commands : In(c, inbox[b]) => c.by # r

\* No pipe holds two commands of one request, nor two answers to it.
OneCommand ==
  \A a \in Agents : \A i, j \in DOMAIN inbox[a] : inbox[a][i].by = inbox[a][j].by => i = j

OneAnswer ==
  \A a \in Agents : \A i, j \in DOMAIN outbox[a] :
    outbox[a][i] \in Answers /\ outbox[a][j] \in Answers /\ outbox[a][i].by = outbox[a][j].by => i = j

\* What an agent took, once, was told to it.
TakenOnce ==
  \A r \in Requests : accepted[r] \in {0, 1} /\ (accepted[r] = 1 => \E a \in Agents : Told(r, a))

\* A message is in one place at a time: on its way to the agent, before its turn or
\* taken by it, or refused by an answer that is on its way back.
OnePlace == CommandWaits /\ AnswerWaits /\ ComingWaits /\ OneCommand /\ OneAnswer /\ TakenOnce

\* A request with nothing in the pipes.
Unheard(r) ==
  \A a \in Agents : /\ \A c \in Commands : In(c, inbox[a]) => c.by # r
                    /\ \A l \in Answers : In(l, outbox[a]) => l.by # r

\* The pipes only get shorter, and a request that still has something in them
\* stays where it is.
LEMMA OnePlaceShrinks ==
  ASSUME Types, Addressed, OnePlace, UNCHANGED <<accepted, coming>>, \A r \in Requests : GoesOn(r),
         \A a \in Agents : inbox'[a] \in {inbox[a], <<>>},
         \A a \in Agents : \/ outbox'[a] \in {outbox[a], <<>>}
                           \/ outbox[a] # <<>> /\ outbox'[a] = Tail(outbox[a]),
         \A r \in Requests : pc'[r] = pc[r] \/ Unheard(r) \/ Unheard(r)'
  PROVE  OnePlace'
<1> USE DEF Types, AgentTypes
<1>1. \A a \in Agents, c \in Commands : In(c, inbox'[a]) => In(c, inbox[a]) /\ c.by \in Requests
  BY NotInEmpty DEF Commands
<1>2. \A a \in Agents, l \in Answers : In(l, outbox'[a]) => In(l, outbox[a]) /\ l.by \in Requests
  <2>1. \A l \in Answers : l.by \in Requests
    BY DEF Answers
  <2>2. ASSUME NEW a \in Agents, NEW l \in Answers, In(l, outbox'[a]) PROVE In(l, outbox[a])
    <3>1. outbox[a] \in Seq(Lines)
      OBVIOUS
    <3>2. CASE outbox'[a] = outbox[a] \/ outbox'[a] = <<>>
      BY <2>2, <3>2, NotInEmpty
    <3>3. CASE outbox[a] # <<>> /\ outbox'[a] = Tail(outbox[a])
      <4>1. In(l, Tail(outbox[a]))
        BY <2>2, <3>3
      <4> QED BY <3>1, <3>3, <4>1, InTailed
    <3> QED BY <3>2, <3>3
  <2> QED BY <2>1, <2>2
<1>3. ASSUME NEW a \in Agents, NEW c \in Commands, In(c, inbox'[a])
      PROVE  /\ accepted'[c.by] = 0 /\ pc'[c.by] = IF c.op = "prompt" THEN "prompting" ELSE "following"
             /\ \A l \in Answers : In(l, outbox'[a]) => l.by # c.by
  <2>1. pc'[c.by] = pc[c.by]
    BY <1>1, <1>3 DEF Unheard
  <2> QED BY <1>1, <1>2, <1>3, <2>1 DEF OnePlace, CommandWaits
<1>4. ASSUME NEW a \in Agents, NEW l \in Answers, In(l, outbox'[a])
      PROVE  /\ pc'[l.by] \in {"prompting", "following"}
             /\ l.line = "error" => accepted'[l.by] = 0 /\ \A b \in Agents : l.by \notin coming'[b]
  <2>1. pc'[l.by] = pc[l.by]
    BY <1>2, <1>4 DEF Unheard
  <2> QED BY <1>2, <1>4, <2>1 DEF OnePlace, AnswerWaits
<1>5. ASSUME NEW a \in Agents, NEW i \in DOMAIN inbox'[a], NEW j \in DOMAIN inbox'[a],
             inbox'[a][i].by = inbox'[a][j].by
      PROVE  i = j
  <2>1. inbox'[a] = inbox[a] \/ DOMAIN inbox'[a] = {}
    OBVIOUS
  <2> QED BY <1>5, <2>1 DEF OnePlace, OneCommand
<1>6. ASSUME NEW a \in Agents, NEW i \in DOMAIN outbox'[a], NEW j \in DOMAIN outbox'[a],
             outbox'[a][i] \in Answers, outbox'[a][j] \in Answers, outbox'[a][i].by = outbox'[a][j].by
      PROVE  i = j
  <2>1. CASE outbox'[a] = outbox[a]
    BY <1>6, <2>1 DEF OnePlace, OneAnswer
  <2>2. CASE outbox'[a] = <<>>
    BY <1>6, <2>2
  <2>3. CASE outbox[a] # <<>> /\ outbox'[a] = Tail(outbox[a])
    <3>1. \A k \in DOMAIN outbox'[a] : k \in Nat /\ k + 1 \in DOMAIN outbox[a] /\ outbox'[a][k] = outbox[a][k + 1]
      BY <2>3, Tailed
    <3>2. i + 1 = j + 1
      BY <1>6, <3>1 DEF OnePlace, OneAnswer
    <3> QED BY <3>1, <3>2
  <2> QED BY <2>1, <2>2, <2>3
<1>7. ASSUME NEW r \in Requests
      PROVE  accepted'[r] \in {0, 1} /\ (accepted'[r] = 1 => \E a \in Agents : Told(r, a)')
  BY <1>7 DEF OnePlace, TakenOnce, GoesOn
<1>8. CommandWaits'
  BY <1>3 DEF CommandWaits
<1>9. AnswerWaits'
  BY <1>4 DEF AnswerWaits
<1>12. ComingWaits'
  <2> SUFFICES ASSUME NEW a \in Agents, NEW r \in coming[a]
               PROVE  /\ accepted'[r] = 0 /\ Told(r, a)'
                      /\ \A b \in Agents, c \in Commands : In(c, inbox'[b]) => c.by # r
    BY DEF ComingWaits
  <2>1. r \in Requests
    OBVIOUS
  <2> QED BY <1>1, <2>1 DEF OnePlace, ComingWaits, GoesOn
<1>10. OneCommand' /\ OneAnswer'
  BY <1>5, <1>6 DEF OneCommand, OneAnswer
<1>11. TakenOnce'
  BY <1>7 DEF TakenOnce
<1> QED BY <1>8, <1>9, <1>10, <1>11, <1>12 DEF OnePlace

\* A request that has nothing in the pipes sends a command to its agent.
LEMMA OnePlaceSent ==
  ASSUME Types, Addressed, OnePlace, UNCHANGED <<accepted, coming>>, \A s \in Requests : GoesOn(s),
         NEW r \in Requests, NEW op \in {"prompt", "followUp"}, given[r] \in Agents, accepted[r] = 0,
         \A a \in Agents : r \notin coming[a],
         inbox' = [inbox EXCEPT ![given[r]] = Append(@, [op |-> op, by |-> r])],
         \A a \in Agents, c \in Commands : In(c, inbox[a]) => c.by # r,
         \A a \in Agents, l \in Answers : In(l, outbox'[a]) => l.by # r,
         \A a \in Agents : outbox'[a] = outbox[a] \/ (outbox[a] # <<>> /\ outbox'[a] = Tail(outbox[a])),
         pc'[r] = IF op = "prompt" THEN "prompting" ELSE "following",
         \A s \in Requests : s = r \/ pc'[s] = pc[s] \/ Unheard(s)
  PROVE  OnePlace'
<1> USE DEF Types, AgentTypes
<1> DEFINE new == [op |-> op, by |-> r]
<1>0. new \in Commands /\ new.by = r /\ new.op = op
  BY DEF Commands
<1> HIDE DEF new
<1>1. \A a \in Agents, c \in Commands :
        In(c, inbox'[a]) => c.by \in Requests /\ (In(c, inbox[a]) \/ (a = given[r] /\ c = new))
  <2>1. \A c \in Commands : c.by \in Requests
    BY DEF Commands
  <2>2. ASSUME NEW a \in Agents, NEW c \in Commands, In(c, inbox'[a])
        PROVE  In(c, inbox[a]) \/ (a = given[r] /\ c = new)
    <3>1. CASE a # given[r]
      BY <2>2, <3>1
    <3>2. CASE a = given[r]
      <4>1. inbox'[a] = Append(inbox[a], new) /\ inbox[a] \in Seq(Commands)
        BY <3>2 DEF new
      <4> QED BY <1>0, <2>2, <3>2, <4>1, InAppended
    <3> QED BY <3>1, <3>2
  <2> QED BY <2>1, <2>2
<1>2. \A a \in Agents, l \in Answers : In(l, outbox'[a]) => In(l, outbox[a]) /\ l.by \in Requests
  <2>1. \A l \in Answers : l.by \in Requests
    BY DEF Answers
  <2>2. ASSUME NEW a \in Agents, NEW l \in Answers, In(l, outbox'[a]) PROVE In(l, outbox[a])
    <3>1. outbox[a] \in Seq(Lines)
      OBVIOUS
    <3>2. CASE outbox'[a] = outbox[a]
      BY <2>2, <3>2
    <3>3. CASE outbox[a] # <<>> /\ outbox'[a] = Tail(outbox[a])
      <4>1. In(l, Tail(outbox[a]))
        BY <2>2, <3>3
      <4> QED BY <3>1, <3>3, <4>1, InTailed
    <3> QED BY <3>2, <3>3
  <2> QED BY <2>1, <2>2
<1>3. ASSUME NEW a \in Agents, NEW c \in Commands, In(c, inbox'[a])
      PROVE  /\ accepted'[c.by] = 0 /\ pc'[c.by] = IF c.op = "prompt" THEN "prompting" ELSE "following"
             /\ \A l \in Answers : In(l, outbox'[a]) => l.by # c.by
  <2>1. CASE c = new
    BY <1>0, <2>1
  <2>2. CASE In(c, inbox[a])
    <3>1. pc'[c.by] = pc[c.by]
      BY <1>1, <1>3, <2>2 DEF Unheard
    <3> QED BY <1>1, <1>2, <1>3, <2>2, <3>1 DEF OnePlace, CommandWaits
  <2> QED BY <1>1, <1>3, <2>1, <2>2
<1>4. ASSUME NEW a \in Agents, NEW l \in Answers, In(l, outbox'[a])
      PROVE  /\ pc'[l.by] \in {"prompting", "following"}
             /\ l.line = "error" => accepted'[l.by] = 0 /\ \A b \in Agents : l.by \notin coming'[b]
  <2>1. pc'[l.by] = pc[l.by]
    BY <1>2, <1>4 DEF Unheard
  <2> QED BY <1>2, <1>4, <2>1 DEF OnePlace, AnswerWaits
<1>5. ASSUME NEW a \in Agents, NEW i \in DOMAIN inbox'[a], NEW j \in DOMAIN inbox'[a],
             inbox'[a][i].by = inbox'[a][j].by
      PROVE  i = j
  <2>1. CASE a # given[r]
    BY <1>5, <2>1 DEF OnePlace, OneCommand
  <2>2. CASE a = given[r]
    <3>1. inbox'[a] = Append(inbox[a], new)
      BY <2>2 DEF new
    <3>2. \A k \in DOMAIN inbox'[a] :
            \/ k = Len(inbox[a]) + 1 /\ inbox'[a][k] = new
            \/ k \in DOMAIN inbox[a] /\ inbox'[a][k] = inbox[a][k]
      BY <1>0, <3>1, Appended
    <3>3. \A k \in DOMAIN inbox[a] : inbox[a][k].by # r
      BY InSeq DEF In
    <3> QED BY <1>0, <1>5, <3>2, <3>3 DEF OnePlace, OneCommand
  <2> QED BY <2>1, <2>2
<1>6. ASSUME NEW a \in Agents, NEW i \in DOMAIN outbox'[a], NEW j \in DOMAIN outbox'[a],
             outbox'[a][i] \in Answers, outbox'[a][j] \in Answers, outbox'[a][i].by = outbox'[a][j].by
      PROVE  i = j
  <2>1. CASE outbox'[a] = outbox[a]
    BY <1>6, <2>1 DEF OnePlace, OneAnswer
  <2>3. CASE outbox[a] # <<>> /\ outbox'[a] = Tail(outbox[a])
    <3>1. \A k \in DOMAIN outbox'[a] : k \in Nat /\ k + 1 \in DOMAIN outbox[a] /\ outbox'[a][k] = outbox[a][k + 1]
      BY <2>3, Tailed
    <3>2. i + 1 = j + 1
      BY <1>6, <3>1 DEF OnePlace, OneAnswer
    <3> QED BY <3>1, <3>2
  <2> QED BY <2>1, <2>3
<1>7. ASSUME NEW s \in Requests
      PROVE  accepted'[s] \in {0, 1} /\ (accepted'[s] = 1 => \E a \in Agents : Told(s, a)')
  BY <1>7 DEF OnePlace, TakenOnce, GoesOn
<1>8. CommandWaits'
  BY <1>3 DEF CommandWaits
<1>9. AnswerWaits'
  BY <1>4 DEF AnswerWaits
<1>12. ComingWaits'
  <2> SUFFICES ASSUME NEW a \in Agents, NEW s \in coming[a]
               PROVE  /\ accepted'[s] = 0 /\ Told(s, a)'
                      /\ \A b \in Agents, c \in Commands : In(c, inbox'[b]) => c.by # s
    BY DEF ComingWaits
  <2>1. s \in Requests /\ s # r
    OBVIOUS
  <2>2. accepted'[s] = 0 /\ Told(s, a)'
    BY <2>1 DEF OnePlace, ComingWaits, GoesOn
  <2>3. ASSUME NEW b \in Agents, NEW c \in Commands, In(c, inbox'[b]) PROVE c.by # s
    BY <1>0, <1>1, <2>1, <2>3 DEF OnePlace, ComingWaits
  <2> QED BY <2>2, <2>3
<1>10. OneCommand' /\ OneAnswer'
  BY <1>5, <1>6 DEF OneCommand, OneAnswer
<1>11. TakenOnce'
  BY <1>7 DEF TakenOnce
<1> QED BY <1>8, <1>9, <1>10, <1>11, <1>12 DEF OnePlace
\* A request that waits for no answer has nothing in the pipes.
LEMMA UnheardOtherwise ==
  ASSUME OnePlace, NEW r \in Requests, pc[r] \notin {"prompting", "following"} PROVE Unheard(r)
BY DEF OnePlace, CommandWaits, AnswerWaits, Unheard, Commands, Answers

\* The requests that a step moves wait for no answer, and nothing is sent.
LEMMA OnePlaceStill ==
  ASSUME Types, Addressed, OnePlace, UNCHANGED <<accepted, coming>>, \A r \in Requests : GoesOn(r),
         \A a \in Agents : inbox'[a] \in {inbox[a], <<>>} /\ outbox'[a] \in {outbox[a], <<>>},
         \A r \in Requests : pc'[r] = pc[r] \/ pc[r] \notin {"prompting", "following"}
  PROVE  OnePlace'
BY OnePlaceShrinks, UnheardOtherwise

\* The requests' own steps, short of a timeout of the prompt.
LEMMA OnePlaceRequest ==
  ASSUME Types, PoolInv, Slots, Addressed, OnePlace, NEW r \in Requests,
         \A s \in Requests : GoesOn(s),
         \/ Arrive(r) \/ ArriveToReplace(r) \/ Continuation(r) \/ Detach(r) \/ SettleTimesOut(r)
  PROVE  OnePlace'
<1> USE DEF Types, SlotTypes
<1>1. CASE Arrive(r) \/ Replaced(r) \/ Attached(r) \/ TellWaits(r) \/ Detach(r)
  <2>1. UNCHANGED <<accepted, coming, inbox, outbox>> /\ pc[r] \in {"new", "replacing", "ready", "attached"}
    BY <1>1 DEF Arrive, Replaced, Attached, TellWaits, Detach, pipes, turnVars
  <2>2. \A s \in Requests : s # r => pc'[s] = pc[s]
    BY <1>1 DEF Arrive, Replaced, Attached, TellWaits, Detach, GetOrCreate, Goes
  <2> QED BY <2>1, <2>2, OnePlaceStill
<1>2. CASE ArriveToReplace(r)
  <2>1. pool \in Agents
    BY <1>2 DEF ArriveToReplace, GatewayTypes
  <2>2. \A s \in Rejected(pool) : pc[s] = "queued"
    BY <2>1 DEF Rejected, Slots, QueueWaits
  <2>3. \A s \in Requests : pc'[s] = pc[s] \/ pc[s] \in {"queued", "new"}
    BY <1>2, <2>2 DEF ArriveToReplace, PcWithout
  <2>4. UNCHANGED <<accepted, coming, inbox>> /\ outbox' = [outbox EXCEPT ![pool] = <<>>]
    BY <1>2 DEF ArriveToReplace, Teardown, turnVars
  <2> QED BY <2>3, <2>4, OnePlaceStill DEF AgentTypes
<1>3. CASE SettleTimesOut(r)
  <2>1. given[r] \in Agents
    BY <1>3 DEF SettleTimesOut, Slots, Placed
  <2>2. queue[given[r]] # <<>> => Head(queue[given[r]]) \in Requests /\ pc[Head(queue[given[r]])] = "queued"
    BY <2>1, Tailed DEF Slots, QueueWaits
  <2>3. \A s \in Requests : pc'[s] = pc[s] \/ pc[s] \in {"queued", "settling"}
    BY <1>3, <2>2 DEF SettleTimesOut, Release
  <2> QED BY <1>3, <2>3, OnePlaceStill DEF SettleTimesOut, pipes, turnVars
<1>4. CASE TellTakes(r) \/ TellGranted(r)
  <2>1. pc[r] \in {"ready", "granted"} /\ given[r] \in Agents
    BY <1>4 DEF TellTakes, TellGranted, Slots, Placed
  <2>2. accepted[r] = 0 /\ Unheard(r) /\ \A a \in Agents : r \notin coming[a]
    BY <2>1, UnheardOtherwise DEF OnePlace, TakenOnce, ComingWaits, Told
  <2>3. CASE TakeSlot(r)
    <3>1. /\ inbox' = [inbox EXCEPT ![given[r]] = Append(@, [op |-> "prompt", by |-> r])]
          /\ pc' = [pc EXCEPT ![r] = "prompting"] /\ UNCHANGED <<accepted, coming, outbox>>
      BY <1>4, <2>3 DEF TellTakes, TellGranted, TakeSlot, Goes, turnVars
    <3>2. /\ \A a \in Agents, c \in Commands : In(c, inbox[a]) => c.by # r
          /\ \A a \in Agents, l \in Answers : In(l, outbox'[a]) => l.by # r
      BY <2>2, <3>1 DEF Unheard
    <3>3. pc'[r] = "prompting" /\ \A s \in Requests : s = r \/ pc'[s] = pc[s]
      BY <3>1
    <3> QED BY <2>1, <2>2, <3>1, <3>2, <3>3, OnePlaceSent
  <2>4. CASE ~TakeSlot(r)
    <3>1. UNCHANGED <<accepted, coming, inbox, outbox>> /\ \A s \in Requests : s # r => pc'[s] = pc[s]
      BY <1>4, <2>4 DEF TellTakes, TellGranted, Goes, turnVars
    <3> QED BY <2>1, <3>1, OnePlaceStill
  <2> QED BY <2>3, <2>4
<1> QED BY <1>1, <1>2, <1>3, <1>4 DEF Continuation

\* The gateway reads an answer, which is then gone from the pipe.
LEMMA OnePlaceRead ==
  ASSUME Types, PoolInv, Slots, Addressed, OnePlace, NEW a \in Agents,
         \A s \in Requests : GoesOn(s), ReadCompleted(a) \/ ReadSuccess(a) \/ ReadError(a)
  PROVE  OnePlace'
<1> USE DEF Types, SlotTypes
<1>1. /\ outbox[a] # <<>> /\ outbox' = [outbox EXCEPT ![a] = Tail(@)] /\ UNCHANGED <<accepted, coming>>
      /\ given' = given
  BY DEF ReadCompleted, ReadSuccess, ReadError, ReadLine, turnVars
<1>2. /\ outbox[a] \in Seq(Lines)
      /\ \A b \in Agents : \/ outbox'[b] = outbox[b]
                           \/ outbox[b] # <<>> /\ outbox'[b] = Tail(outbox[b])
  BY <1>1 DEF AgentTypes
<1>3. Head(outbox[a]) \in Lines /\ In(Head(outbox[a]), outbox[a])
  BY <1>1, <1>2, Tailed, InTailed
<1>4. ASSUME NEW b \in Agents
      PROVE  queue[b] # <<>> => Head(queue[b]) \in Requests /\ pc[Head(queue[b])] = "queued"
  BY Tailed DEF Slots, QueueWaits
<1>5. CASE ReadCompleted(a)
  <2> DEFINE over == {t \in Requests : given[t] = a /\ settled[t] = "listening" /\ pc[t] = "settling"}
             places == [t \in Requests |-> IF t \in over THEN "acked" ELSE pc[t]]
  <2>1. UNCHANGED pc \/ Release(a, places)
    BY <1>5 DEF ReadCompleted
  <2>2. places \in [Requests -> Places] /\ \A s \in Requests : places[s] = pc[s] \/ pc[s] = "settling"
    BY DEF Places
  <2> HIDE DEF places
  <2>3. \A s \in Requests : pc'[s] = pc[s] \/ pc[s] \in {"settling", "queued"}
    BY <1>4, <2>1, <2>2 DEF Release
  <2>4. inbox' = inbox
    BY <1>5 DEF ReadCompleted
  <2> QED BY <1>1, <1>2, <2>3, <2>4, OnePlaceShrinks, UnheardOtherwise
<1>6. ASSUME ReadSuccess(a) \/ ReadError(a)
      PROVE  \E r \in Requests, line \in {"success", "error"} :
               /\ Head(outbox[a]) = [line |-> line, by |-> r] /\ [line |-> line, by |-> r] \in Answers
               /\ given[r] = a /\ pc[r] \in {"prompting", "following"}
               /\ \A b \in Agents, c \in Commands : In(c, inbox[b]) => c.by # r
               /\ \A b \in Agents, l \in Answers : In(l, outbox'[b]) => l.by # r
               /\ line = "error" => /\ accepted[r] = 0 /\ \A b \in Agents : r \notin coming[b]
                                    /\ pc[r] = "prompting" => Refuse(r)
               /\ line = "success" \/ pc[r] = "following" =>
                    /\ inbox' = inbox
                    /\ \A s \in Requests : s = r \/ pc'[s] = pc[s] \/ pc[s] = "queued"
  <2>1. PICK r \in Requests, line \in {"success", "error"} :
          /\ Head(outbox[a]) = [line |-> line, by |-> r] /\ [line |-> line, by |-> r] \in Answers
          /\ line = "error" => ReadError(a)
          /\ line = "success" => ReadSuccess(a)
    BY <1>3, <1>6 DEF ReadSuccess, ReadError, ReadLine, Lines, Answers
  <2> DEFINE h == [line |-> line, by |-> r]
  <2>0. h.by = r /\ h.line = line /\ h \in Answers /\ In(h, outbox[a])
    BY <1>3, <2>1
  <2> HIDE DEF h
  <2>2. given[r] = a /\ pc[r] \in {"prompting", "following"}
    BY <2>0 DEF Addressed, Told, OnePlace, AnswerWaits
  <2>3. \A b \in Agents, c \in Commands : In(c, inbox[b]) => c.by # r
    BY <2>0, <2>2 DEF Addressed, Told, OnePlace, CommandWaits
  <2>4. ASSUME NEW b \in Agents, NEW l \in Answers, In(l, outbox'[b]) PROVE l.by # r
    <3>1. CASE b # a
      BY <1>1, <2>2, <2>4, <3>1 DEF Addressed, Told
    <3>2. CASE b = a
      <4>1. PICK i \in DOMAIN Tail(outbox[a]) : Tail(outbox[a])[i] = l
        BY <1>1, <1>2, <2>4, <3>2 DEF In, AgentTypes
      <4>2. /\ i + 1 \in DOMAIN outbox[a] /\ outbox[a][i + 1] = l /\ i \in Nat \ {0}
            /\ 1 \in DOMAIN outbox[a] /\ outbox[a][1] = h
        BY <1>1, <1>2, <2>1, <4>1, Tailed DEF h
      <4>3. \A k, j \in DOMAIN outbox[a] :
              outbox[a][k] \in Answers /\ outbox[a][j] \in Answers /\ outbox[a][k].by = outbox[a][j].by => k = j
        BY DEF OnePlace, OneAnswer
      <4>4. CASE l.by = r
        <5>1. i + 1 = 1
          BY <2>0, <4>2, <4>3, <4>4
        <5> QED BY <4>2, <5>1
      <4> QED BY <4>4
    <3> QED BY <3>1, <3>2
  <2>5. line = "error" => /\ accepted[r] = 0 /\ \A b \in Agents : r \notin coming[b]
                          /\ pc[r] = "prompting" => Refuse(r)
    <3>1. line = "error" => accepted[r] = 0 /\ \A b \in Agents : r \notin coming[b]
      BY <2>0 DEF OnePlace, AnswerWaits
    <3>2. Head(outbox[a]).by = r
      BY <2>1
    <3> QED BY <2>1, <3>1, <3>2 DEF ReadError
  <2>6. line = "success" \/ pc[r] = "following" =>
          /\ inbox' = inbox
          /\ \A s \in Requests : s = r \/ pc'[s] = pc[s] \/ pc[s] = "queued"
    <3>1. Head(outbox[a]).by = r
      BY <2>1
    <3>2. line = "error" /\ pc[r] = "following" => inbox' = inbox /\ pc' = [pc EXCEPT ![r] = "acked"]
      BY <2>1, <3>1 DEF ReadError, Goes
    <3> QED BY <1>4, <2>1, <3>1, <3>2 DEF ReadSuccess, Release
  <2> QED BY <2>1, <2>2, <2>3, <2>4, <2>5, <2>6
<1>7. ASSUME ReadSuccess(a) \/ ReadError(a) PROVE OnePlace'
  <2>1. PICK r \in Requests, line \in {"success", "error"} :
               /\ given[r] = a /\ pc[r] \in {"prompting", "following"}
               /\ \A b \in Agents, c \in Commands : In(c, inbox[b]) => c.by # r
               /\ \A b \in Agents, l \in Answers : In(l, outbox'[b]) => l.by # r
               /\ line = "error" => /\ accepted[r] = 0 /\ \A b \in Agents : r \notin coming[b]
                                    /\ pc[r] = "prompting" => Refuse(r)
               /\ line = "success" \/ pc[r] = "following" =>
                    /\ inbox' = inbox
                    /\ \A s \in Requests : s = r \/ pc'[s] = pc[s] \/ pc[s] = "queued"
    BY <1>6, <1>7
  <2>2. CASE line = "success" \/ pc[r] = "following"
    <3>1. \A b \in Agents, c \in Commands : In(c, inbox'[b]) => c.by # r
      BY <2>1, <2>2
    <3>2. Unheard(r)'
      BY <2>1, <3>1 DEF Unheard
    <3> QED BY <1>1, <1>2, <2>1, <2>2, <3>2, OnePlaceShrinks, UnheardOtherwise
  <2>3. CASE line = "error" /\ pc[r] = "prompting"
    <3>1. /\ pc'[r] = "following"
          /\ inbox' = [inbox EXCEPT ![given[r]] = Append(@, [op |-> "followUp", by |-> r])]
      BY <1>1, <2>1, <2>3, Refused
    <3>2. \A s \in Requests : s = r \/ pc'[s] = pc[s] \/ pc[s] = "queued"
      BY <1>4, <2>1, <2>3 DEF Refuse, Release
    <3>3. \A s \in Requests : s = r \/ pc'[s] = pc[s] \/ Unheard(s)
      BY <3>2, UnheardOtherwise
    <3> QED BY <1>1, <1>2, <2>1, <2>3, <3>1, <3>3, OnePlaceSent
  <2> QED BY <2>1, <2>2, <2>3
<1> QED BY <1>5, <1>7
\* A line that no tell waits for is written.
LEMMA OnePlaceNoted ==
  ASSUME Types, Addressed, OnePlace, UNCHANGED <<accepted, coming, inbox, pc, given>>, NEW a \in Agents,
         NEW l \in Lines, l \notin Answers,
         outbox' = outbox \/ outbox' = [outbox EXCEPT ![a] = Append(@, l)]
  PROVE  OnePlace'
<1> USE DEF Types, AgentTypes
<1>1. ASSUME NEW b \in Agents PROVE \A k \in Answers : In(k, outbox'[b]) => In(k, outbox[b])
  <2>1. CASE outbox'[b] = outbox[b]
    BY <2>1
  <2>2. CASE outbox'[b] = Append(outbox[b], l)
    <3>1. outbox[b] \in Seq(Lines)
      OBVIOUS
    <3>2. \A k \in Answers : In(k, Append(outbox[b], l)) => In(k, outbox[b])
      BY <3>1, InAppended
    <3> QED BY <2>2, <3>2
  <2> QED BY <2>1, <2>2
<1>2. CommandWaits' /\ AnswerWaits'
  BY <1>1 DEF OnePlace, CommandWaits, AnswerWaits
<1>3. OneCommand' /\ TakenOnce' /\ ComingWaits'
  BY DEF OnePlace, OneCommand, TakenOnce, ComingWaits, Told
<1>4. ASSUME NEW b \in Agents, NEW i \in DOMAIN outbox'[b], NEW j \in DOMAIN outbox'[b],
             outbox'[b][i] \in Answers, outbox'[b][j] \in Answers, outbox'[b][i].by = outbox'[b][j].by
      PROVE  i = j
  <2>1. CASE outbox'[b] = outbox[b]
    BY <1>4, <2>1 DEF OnePlace, OneAnswer
  <2>2. CASE outbox'[b] = Append(outbox[b], l)
    <3>1. \A k \in DOMAIN outbox'[b] :
            \/ k = Len(outbox[b]) + 1 /\ outbox'[b][k] = l
            \/ k \in DOMAIN outbox[b] /\ outbox'[b][k] = outbox[b][k]
      BY <2>2, Appended
    <3> QED BY <1>4, <3>1 DEF OnePlace, OneAnswer
  <2> QED BY <2>1, <2>2
<1>5. OneAnswer'
  BY <1>4 DEF OneAnswer
<1> QED BY <1>2, <1>3, <1>5 DEF OnePlace

\* The agent reads a command: it takes the message, or its answer refuses it.
LEMMA OnePlaceTaken ==
  ASSUME Types, Addressed, OnePlace, NEW a \in Agents, AgentReads(a), \A s \in Requests : GoesOn(s)
  PROVE  OnePlace'
<1> USE DEF Types, AgentTypes
<1>1. inbox[a] # <<>> /\ inbox[a] \in Seq(Commands) /\ inbox' = [inbox EXCEPT ![a] = Tail(@)]
  BY AnswersRead DEF Answered
<1>2. PICK c \in Commands : c = Head(inbox[a])
  BY <1>1, Tailed
<1>3. PICK what \in {"success", "error"} : Answered(a, c, what)
  BY <1>2, AnswersRead
<1>4. /\ Write(a, what, c.by) /\ UNCHANGED <<pc, given>>
      /\ accepted' = accepted \/ (what = "success" /\ accepted' = [accepted EXCEPT ![c.by] = @ + 1] /\ coming' = coming)
      /\ coming' = coming \/ (what = "success" /\ coming' = [coming EXCEPT ![a] = @ \cup {c.by}] /\ accepted' = accepted)
  BY <1>3 DEF Answered, Commands
<1>5. /\ In(c, inbox[a]) /\ c.by \in Requests /\ Told(c.by, a) /\ accepted[c.by] = 0
      /\ pc[c.by] = IF c.op = "prompt" THEN "prompting" ELSE "following"
      /\ \A l \in Answers : In(l, outbox[a]) => l.by # c.by
  <2>1. In(c, inbox[a])
    BY <1>1, <1>2, InTailed
  <2>2. c.by \in Requests
    BY DEF Commands
  <2> QED BY <2>1, <2>2 DEF Addressed, OnePlace, CommandWaits
<1>6. \A b \in Agents : c.by \notin coming[b]
  BY <1>5 DEF OnePlace, ComingWaits
<1> DEFINE h == [line |-> what, by |-> c.by]
<1>7. h \in Answers /\ h \in Lines /\ h.by = c.by /\ h.line = what
  BY <1>5 DEF Answers, Lines
<1>8. outbox' = outbox \/ outbox' = [outbox EXCEPT ![a] = Append(@, h)]
  BY <1>4 DEF Write
<1> HIDE DEF h
<1>9. ASSUME NEW b \in Agents
      PROVE  /\ \A l \in Answers : In(l, outbox'[b]) => In(l, outbox[b]) \/ (b = a /\ l = h)
             /\ outbox'[b] = outbox[b] \/ (b = a /\ outbox'[b] = Append(outbox[b], h))
  <2>1. outbox'[b] = outbox[b] \/ (b = a /\ outbox'[b] = Append(outbox[b], h))
    BY <1>8
  <2>2. outbox[b] \in Seq(Lines)
    OBVIOUS
  <2>3. \A l \in Answers : In(l, Append(outbox[b], h)) => In(l, outbox[b]) \/ l = h
    BY <1>7, <2>2, InAppended
  <2> QED BY <2>1, <2>3
<1>10. ASSUME NEW b \in Agents, NEW d \in Commands, In(d, inbox'[b])
       PROVE  In(d, inbox[b]) /\ d.by # c.by /\ d.by \in Requests
  <2>1. CASE b # a
    BY <1>1, <1>5, <1>10, <2>1 DEF Addressed, Told, Commands
  <2>2. CASE b = a
    <3>1. PICK i \in DOMAIN Tail(inbox[a]) : Tail(inbox[a])[i] = d
      BY <1>1, <1>10, <2>2 DEF In
    <3>2. /\ i + 1 \in DOMAIN inbox[a] /\ inbox[a][i + 1] = d /\ i \in Nat \ {0}
          /\ 1 \in DOMAIN inbox[a] /\ inbox[a][1] = c
      BY <1>1, <1>2, <3>1, Tailed
    <3>3. \A k, j \in DOMAIN inbox[a] : inbox[a][k].by = inbox[a][j].by => k = j
      BY DEF OnePlace, OneCommand
    <3>4. CASE d.by = c.by
      <4>1. i + 1 = 1
        BY <3>2, <3>3, <3>4
      <4> QED BY <3>2, <4>1
    <3>5. In(d, inbox[a]) /\ d.by \in Requests
      BY <3>2 DEF In, Commands
    <3> QED BY <2>2, <3>4, <3>5
  <2> QED BY <2>1, <2>2
<1>11. \A r \in Requests : r # c.by => accepted'[r] = accepted[r]
  BY <1>4 DEF TellTypes
<1>17. \A b \in Agents : \A r \in coming'[b] : r \in coming[b] \/ (b = a /\ r = c.by /\ accepted' = accepted)
  <2> SUFFICES ASSUME NEW b \in Agents, NEW r, r \in coming'[b], r \notin coming[b]
               PROVE  b = a /\ r = c.by /\ accepted' = accepted
    OBVIOUS
  <2>1. coming' = [coming EXCEPT ![a] = @ \cup {c.by}] /\ accepted' = accepted
    BY <1>4
  <2> QED BY <2>1 DEF AgentTypes
<1>18. ComingWaits'
  <2> SUFFICES ASSUME NEW b \in Agents, NEW r \in coming'[b]
               PROVE  /\ accepted'[r] = 0 /\ Told(r, b)'
                      /\ \A e \in Agents, d \in Commands : In(d, inbox'[e]) => d.by # r
    BY DEF ComingWaits
  <2>0. r \in Requests
    <3>1. coming[b] \subseteq Requests
      BY DEF AgentTypes
    <3> QED BY <1>5, <1>17, <3>1
  <2>1. CASE r \in coming[b]
    <3>1. r # c.by
      BY <1>6, <2>1
    <3>2. accepted'[r] = 0 /\ Told(r, b)'
      BY <1>11, <2>0, <2>1, <3>1 DEF OnePlace, ComingWaits, GoesOn
    <3>3. ASSUME NEW e \in Agents, NEW d \in Commands, In(d, inbox'[e]) PROVE d.by # r
      BY <1>10, <2>1, <3>3 DEF OnePlace, ComingWaits
    <3> QED BY <3>2, <3>3
  <2>2. CASE b = a /\ r = c.by /\ accepted' = accepted
    BY <1>5, <1>10, <2>2 DEF GoesOn
  <2> QED BY <1>17, <2>0, <2>1, <2>2
<1>12. CommandWaits'
  <2> SUFFICES ASSUME NEW b \in Agents, NEW d \in Commands, In(d, inbox'[b])
               PROVE  /\ accepted'[d.by] = 0
                      /\ pc'[d.by] = IF d.op = "prompt" THEN "prompting" ELSE "following"
                      /\ \A l \in Answers : In(l, outbox'[b]) => l.by # d.by
    BY DEF CommandWaits
  <2>1. In(d, inbox[b]) /\ d.by # c.by /\ d.by \in Requests
    BY <1>10
  <2> QED BY <1>4, <1>7, <1>9, <1>11, <2>1 DEF OnePlace, CommandWaits
<1>13. AnswerWaits'
  <2> SUFFICES ASSUME NEW b \in Agents, NEW l \in Answers, In(l, outbox'[b])
               PROVE  /\ pc'[l.by] \in {"prompting", "following"}
                      /\ l.line = "error" => accepted'[l.by] = 0 /\ \A e \in Agents : l.by \notin coming'[e]
    BY DEF AnswerWaits
  <2>1. CASE l = h
    BY <1>4, <1>5, <1>6, <1>7, <2>1
  <2>2. CASE In(l, outbox[b])
    <3>1. l.by # c.by /\ l.by \in Requests
      BY <1>5, <2>2 DEF Addressed, Told, Answers
    <3> QED BY <1>4, <1>11, <1>17, <2>2, <3>1 DEF OnePlace, AnswerWaits
  <2> QED BY <1>9, <2>1, <2>2
<1>14. ASSUME NEW b \in Agents, NEW i \in DOMAIN inbox'[b], NEW j \in DOMAIN inbox'[b],
              inbox'[b][i].by = inbox'[b][j].by
       PROVE  i = j
  <2>1. CASE b # a
    BY <1>1, <1>14, <2>1 DEF OnePlace, OneCommand
  <2>2. CASE b = a
    <3>1. \A k \in DOMAIN inbox'[b] : k \in Nat /\ k + 1 \in DOMAIN inbox[a] /\ inbox'[b][k] = inbox[a][k + 1]
      BY <1>1, <2>2, Tailed
    <3>2. i + 1 = j + 1
      BY <1>14, <3>1 DEF OnePlace, OneCommand
    <3> QED BY <3>1, <3>2
  <2> QED BY <2>1, <2>2
<1>15. ASSUME NEW b \in Agents, NEW i \in DOMAIN outbox'[b], NEW j \in DOMAIN outbox'[b],
              outbox'[b][i] \in Answers, outbox'[b][j] \in Answers, outbox'[b][i].by = outbox'[b][j].by
       PROVE  i = j
  <2>1. CASE outbox'[b] = outbox[b]
    BY <1>15, <2>1 DEF OnePlace, OneAnswer
  <2>2. CASE b = a /\ outbox'[b] = Append(outbox[b], h)
    <3>1. \A k \in DOMAIN outbox'[b] :
            \/ k = Len(outbox[b]) + 1 /\ outbox'[b][k] = h
            \/ k \in DOMAIN outbox[b] /\ outbox'[b][k] = outbox[b][k]
      BY <1>7, <2>2, Appended
    <3>2. \A k \in DOMAIN outbox[b] : outbox[b][k] \in Answers => outbox[b][k].by # c.by
      BY <1>5, <2>2 DEF In
    <3> QED BY <1>7, <1>15, <3>1, <3>2 DEF OnePlace, OneAnswer
  <2> QED BY <1>9, <2>1, <2>2
<1>16. TakenOnce'
  <2> SUFFICES ASSUME NEW r \in Requests
               PROVE  accepted'[r] \in {0, 1} /\ (accepted'[r] = 1 => \E b \in Agents : Told(r, b)')
    BY DEF TakenOnce
  <2>1. CASE r = c.by
    <3>1. accepted'[r] \in {0, 1}
      BY <1>4, <1>5, <2>1 DEF TellTypes
    <3>2. Told(r, a)'
      BY <1>5, <2>1 DEF GoesOn
    <3> QED BY <3>1, <3>2
  <2>2. CASE r # c.by
    BY <1>11, <2>2 DEF OnePlace, TakenOnce, GoesOn
  <2> QED BY <2>1, <2>2
<1> QED BY <1>12, <1>13, <1>14, <1>15, <1>16, <1>18 DEF OnePlace, OneCommand, OneAnswer

\* The turn of a prompt begins, or the agent drops it for another one.
LEMMA OnePlaceBegun ==
  ASSUME Types, OnePlace, NEW a \in Agents, NEW r \in Requests, TurnBegins(a, r)
  PROVE  OnePlace'
<1> USE DEF Types, AgentTypes
<1>1. /\ r \in coming[a] /\ coming' = [coming EXCEPT ![a] = @ \ {r}]
      /\ UNCHANGED <<inbox, outbox, pc, given>>
      /\ accepted' = accepted \/ accepted' = [accepted EXCEPT ![r] = @ + 1]
  BY DEF TurnBegins, pipes
<1>2. /\ accepted[r] = 0 /\ Told(r, a)
      /\ \A b \in Agents, c \in Commands : In(c, inbox[b]) => c.by # r
      /\ \A b \in Agents, l \in Answers : In(l, outbox[b]) /\ l.line = "error" => l.by # r
  BY <1>1 DEF OnePlace, ComingWaits, AnswerWaits
<1>3. \A b \in Agents, s \in Requests : s \in coming'[b] => s \in coming[b] /\ s # r
  <2>1. \A b \in Agents : r \in coming[b] => b = a
    BY <1>2 DEF OnePlace, ComingWaits, Told
  <2> QED BY <1>1, <2>1
<1>4. \A s \in Requests : s # r => accepted'[s] = accepted[s]
  BY <1>1 DEF TellTypes
<1>5. (\A c \in Commands : c.by \in Requests) /\ (\A l \in Answers : l.by \in Requests)
  BY DEF Commands, Answers
<1>6. CommandWaits'
  BY <1>1, <1>2, <1>4, <1>5 DEF OnePlace, CommandWaits
<1>7. AnswerWaits'
  BY <1>1, <1>2, <1>3, <1>4, <1>5 DEF OnePlace, AnswerWaits
<1>8. ComingWaits'
  <2> SUFFICES ASSUME NEW b \in Agents, NEW s \in coming'[b]
               PROVE  /\ accepted'[s] = 0 /\ Told(s, b)'
                      /\ \A e \in Agents, c \in Commands : In(c, inbox'[e]) => c.by # s
    BY DEF ComingWaits
  <2>1. s \in Requests
    BY <1>1
  <2>2. s \in coming[b] /\ s # r
    BY <1>3, <2>1
  <2> QED BY <1>1, <1>4, <2>1, <2>2 DEF OnePlace, ComingWaits, Told
<1>9. OneCommand' /\ OneAnswer'
  BY <1>1 DEF OnePlace, OneCommand, OneAnswer
<1>10. TakenOnce'
  <2> SUFFICES ASSUME NEW s \in Requests
               PROVE  accepted'[s] \in {0, 1} /\ (accepted'[s] = 1 => \E b \in Agents : Told(s, b)')
    BY DEF TakenOnce
  <2>1. CASE s = r
    <3>1. accepted'[s] \in {0, 1}
      BY <1>1, <1>2, <2>1 DEF TellTypes
    <3> QED BY <1>1, <1>2, <2>1, <3>1 DEF Told
  <2>2. CASE s # r
    BY <1>1, <1>4, <2>2 DEF OnePlace, TakenOnce, Told
  <2> QED BY <2>1, <2>2
<1> QED BY <1>6, <1>7, <1>8, <1>9, <1>10 DEF OnePlace

\* The agents take messages and answer them; the others empty pipes.
LEMMA OnePlaceElsewhere ==
  ASSUME Types, PoolInv, Slots, Addressed, Drained, OnePlace, \A s \in Requests : GoesOn(s),
         \/ \E a \in Agents : \/ AgentReads(a) \/ Begins(a) \/ TurnEnds(a) \/ TurnFails(a) \/ LocalTurn(a)
                              \/ SpawnSucceeds(a) \/ SpawnFails(a) \/ Stopped(a)
         \/ Crash \/ IdleEviction \/ StartProbe \/ ProbeEnds \/ ProbeFails \/ StopBegins \/ StopAgents
  PROVE  OnePlace'
<1> USE DEF Types
<1>1. ASSUME NEW a \in Agents, AgentReads(a) PROVE OnePlace'
  BY <1>1, OnePlaceTaken
<1>2. ASSUME NEW a \in Agents, TurnEnds(a) \/ TurnFails(a) PROVE OnePlace'
  <2>1. /\ UNCHANGED <<inbox, accepted, coming, pc, given>> /\ Write(a, "completed", turn[a])
        /\ [line |-> "completed", by |-> turn[a]] \in Lines
    BY <1>2 DEF TurnEnds, TurnFails, requestVars, turnVars, Lines, AgentTypes
  <2>2. [line |-> "completed", by |-> turn[a]] \notin Answers
    BY DEF Answers
  <2>3. \/ outbox' = outbox
        \/ outbox' = [outbox EXCEPT ![a] = Append(@, [line |-> "completed", by |-> turn[a]])]
    BY <2>1 DEF Write
  <2> QED BY <2>1, <2>2, <2>3, OnePlaceNoted
<1>3. ASSUME NEW a \in Agents, LocalTurn(a) PROVE OnePlace'
  BY <1>3, OnePlaceStill DEF LocalTurn, pipes, turnVars, requestVars
<1>4. ASSUME NEW a \in Agents, SpawnSucceeds(a) \/ SpawnFails(a) PROVE OnePlace'
  <2>1. \A r \in Requests : pc'[r] = pc[r] \/ pc[r] = "spawning"
    BY <1>4 DEF SpawnSucceeds, SpawnFails, PcWithout, Waiting
  <2> QED BY <1>4, <2>1, OnePlaceStill DEF SpawnSucceeds, SpawnFails, pipes, turnVars
<1>5. ASSUME NEW a \in Agents, Stopped(a) PROVE OnePlace'
  <2>1. /\ UNCHANGED <<outbox, accepted, coming, given>> /\ inbox' = [inbox EXCEPT ![a] = <<>>]
        /\ outbox[a] = <<>>
    BY <1>5 DEF Stopped, Drained
  <2>2. \A r \in Requests : given[r] # a => pc'[r] = pc[r]
    BY <1>5 DEF Stopped, Waiting, PcWithout
  <2>3. ASSUME NEW r \in Requests, given[r] = a PROVE Unheard(r)'
    <3>1. ASSUME NEW b \in Agents, NEW c \in Commands, In(c, inbox'[b]) PROVE c.by # r
      BY <2>1, <2>3, <3>1, NotInEmpty DEF Addressed, Told, AgentTypes
    <3>2. ASSUME NEW b \in Agents, NEW l \in Answers, In(l, outbox'[b]) PROVE l.by # r
      BY <2>1, <2>3, <3>2, NotInEmpty DEF Addressed, Told
    <3> QED BY <3>1, <3>2 DEF Unheard
  <2>4. \A b \in Agents : inbox'[b] \in {inbox[b], <<>>} /\ outbox'[b] \in {outbox[b], <<>>}
    BY <2>1 DEF AgentTypes
  <2> QED BY <2>1, <2>2, <2>3, <2>4, OnePlaceShrinks
<1>6. CASE StartProbe \/ ProbeEnds \/ StopBegins
  BY <1>6, OnePlaceStill DEF StartProbe, ProbeEnds, StopBegins, pipes, turnVars, requestVars
<1>7. CASE Crash \/ IdleEviction \/ ProbeFails \/ StopAgents
  <2>1. UNCHANGED <<accepted, coming>> /\ (outbox' = outbox \/ outbox' = [outbox EXCEPT ![pool] = <<>>])
    BY <1>7 DEF Crash, IdleEviction, ProbeFails, StopAgents, TornDown, TornDownIfAny, Teardown, turnVars
  <2>2. inbox' = inbox \/ inbox' = [inbox EXCEPT ![pool] = <<>>]
    BY <1>7 DEF Crash, IdleEviction, ProbeFails, StopAgents
  <2>3. pool # None => \A r \in Rejected(pool) : pc[r] = "queued"
    BY DEF Rejected, Slots, QueueWaits, GatewayTypes
  <2>4. \A r \in Requests : pc'[r] = pc[r] \/ pc[r] = "queued"
    BY <1>7, <2>3
       DEF Crash, IdleEviction, ProbeFails, StopAgents, TornDown, TornDownIfAny, PcWithout
  <2> QED BY <2>1, <2>2, <2>4, OnePlaceStill DEF AgentTypes
<1> QED BY <1>1, <1>2, <1>3, <1>4, <1>5, <1>6, <1>7, OnePlaceBegun DEF Begins
-----------------------------------------------------------------------------
(* Whose turn is heard. *)

\* The stages of a tell's turn: the prompt is unread; acknowledged, and heard to
\* be, before its turn begins; taken, its answer on the way; over before the answer
\* is read; settling; over before its end is read.
Prompt(r) == [op |-> "prompt", by |-> r]
Line(what, r) == [line |-> what, by |-> r]

Unread(a, r) ==
  /\ pc[r] = "prompting" /\ turn[a] = None /\ coming[a] = {}
  /\ Len(inbox[a]) = 1 /\ inbox[a][1] = Prompt(r) /\ outbox[a] = <<>>

Acknowledged(a, r) ==
  /\ pc[r] = "prompting" /\ turn[a] = None /\ coming[a] = {r}
  /\ inbox[a] = <<>> /\ Len(outbox[a]) = 1 /\ outbox[a][1] = Line("success", r)

AckHeard(a, r) ==
  /\ pc[r] = "settling" /\ turn[a] = None /\ coming[a] = {r}
  /\ inbox[a] = <<>> /\ outbox[a] = <<>>

Taken(a, r) ==
  /\ pc[r] = "prompting" /\ turn[a] = r /\ coming[a] = {}
  /\ inbox[a] = <<>> /\ Len(outbox[a]) = 1 /\ outbox[a][1] = Line("success", r)

TakenAndOver(a, r) ==
  /\ pc[r] = "prompting" /\ turn[a] = None /\ coming[a] = {}
  /\ inbox[a] = <<>> /\ Len(outbox[a]) = 2
  /\ outbox[a][1] = Line("success", r) /\ outbox[a][2] = Line("completed", r)

Settling(a, r) ==
  /\ pc[r] = "settling" /\ turn[a] = r /\ coming[a] = {} /\ inbox[a] = <<>> /\ outbox[a] = <<>>

Over(a, r) ==
  /\ pc[r] = "settling" /\ turn[a] = None /\ coming[a] = {}
  /\ inbox[a] = <<>> /\ Len(outbox[a]) = 1 /\ outbox[a][1] = Line("completed", r)

AtRest(a) == inbox[a] = <<>> /\ outbox[a] = <<>> /\ turn[a] = None /\ coming[a] = {}

InTurn(a, r) ==
  \/ Unread(a, r) \/ Acknowledged(a, r) \/ AckHeard(a, r) \/ Taken(a, r)
  \/ TakenAndOver(a, r) \/ Settling(a, r) \/ Over(a, r)

\* Without turns of its own, refusals, timeouts and retries, an agent is at the
\* turn of the tell that owns its slot, in one of those stages, or at rest.
OwnTurn(a) ==
  /\ followUps[a] = <<>>
  /\ Owners(a) = {} => AtRest(a)
  /\ \A r \in Owners(a) : InTurn(a, r)
  /\ \A r \in Requests : given[r] = a => (settled[r] = "listening" <=> r \in Owners(a))

\* A tell that settled heard its own end; before its slot it settled not at all.
HeardOwn ==
  \A r \in Requests :
    /\ settled[r] = "yes" => heard[r] = r
    /\ pc[r] \in {"new", "replacing", "spawning", "ready", "queued", "granted"} => settled[r] = "no"

OwnTurns == HeardOwn /\ \A a \in Agents : life[a] = "running" => OwnTurn(a)

Waits(r) == pc[r] \in {"new", "replacing", "spawning", "ready", "queued", "granted"}

\* Steps that leave the agents that serve alone: a request goes on that owns no
\* slot, or works with an agent that serves no more.
LEMMA OwnTurnsFramed ==
  ASSUME Types, OwnTurns, UNCHANGED <<settled, heard>>,
         \A a \in Agents :
           life'[a] = "running" =>
             /\ life[a] = "running"
             /\ inbox'[a] = inbox[a] /\ outbox'[a] = outbox[a]
             /\ turn'[a] = turn[a] /\ followUps'[a] = followUps[a] /\ coming'[a] = coming[a],
         \A r \in Requests :
           \/ pc'[r] = pc[r] /\ given'[r] = given[r]
           \/ Waits(r) /\ pc'[r] \notin Prompted
           \/ pc[r] \notin Prompted /\ pc'[r] = "left" /\ given'[r] = given[r]
           \/ /\ given'[r] = given[r] /\ pc'[r] \in {"acked", "failed"}
              /\ \A a \in Agents : given[r] = a => life'[a] # "running"
  PROVE  OwnTurns'
<1> USE DEF Types
<1>1. HeardOwn'
  BY DEF OwnTurns, HeardOwn, Prompted, Waits
<1>2. ASSUME NEW a \in Agents, life'[a] = "running" PROVE OwnTurn(a)'
  <2>1. OwnTurn(a)
    BY <1>2 DEF OwnTurns
  <2>2. \A r \in Requests : r \in Owners(a)' <=> r \in Owners(a)
    BY <1>2 DEF Owners, Prompted, Waits
  <2>3. \A r \in Owners(a) : pc'[r] = pc[r]
    BY <1>2 DEF Owners, Prompted, Waits
  <2>4. Owners(a)' = Owners(a)
    BY <2>2 DEF Owners
  <2>5. \A r \in Requests : given'[r] = a => (settled'[r] = "listening" <=> r \in Owners(a)')
    <3> SUFFICES ASSUME NEW r \in Requests, given'[r] = a
                 PROVE  settled'[r] = "listening" <=> r \in Owners(a)'
      OBVIOUS
    <3>1. CASE given[r] = a
      BY <2>1, <2>2, <3>1 DEF OwnTurn
    <3>2. CASE given[r] # a
      BY <2>2, <3>2 DEF OwnTurns, HeardOwn, Waits, Owners
    <3> QED BY <3>1, <3>2
  <2> QED BY <1>2, <2>1, <2>3, <2>4, <2>5 DEF OwnTurn, AtRest, InTurn, Unread, Acknowledged, AckHeard, 
     Taken, TakenAndOver, Settling, Over
<1> QED BY <1>1, <1>2 DEF OwnTurns

\* Steps at one agent that serves: the others are left alone.
LEMMA OwnTurnsAt ==
  ASSUME Types, OwnTurns, NEW a \in Agents, UNCHANGED <<life, given>>, HeardOwn', OwnTurn(a)',
         \A b \in Agents : b # a => /\ inbox'[b] = inbox[b] /\ outbox'[b] = outbox[b]
                                    /\ turn'[b] = turn[b] /\ followUps'[b] = followUps[b] /\ coming'[b] = coming[b],
         \A r \in Requests : given[r] # a => pc'[r] = pc[r] /\ settled'[r] = settled[r]
  PROVE  OwnTurns'
<1> SUFFICES ASSUME NEW b \in Agents, life'[b] = "running", b # a PROVE OwnTurn(b)'
  BY DEF OwnTurns
<1>1. OwnTurn(b)
  BY DEF OwnTurns
<1>2. Owners(b)' = Owners(b)
  BY DEF Owners
<1>3. \A r \in Owners(b) : pc'[r] = pc[r]
  BY DEF Owners
<1>4. \A r \in Requests : given'[r] = b => (settled'[r] = "listening" <=> r \in Owners(b)')
  BY <1>1, <1>2 DEF OwnTurn
<1> QED BY <1>1, <1>2, <1>3, <1>4 DEF OwnTurn, AtRest, InTurn, Unread, Acknowledged, AckHeard, 
     Taken, TakenAndOver, Settling, Over

\* Without the disturbances that break it.
Orderly == Without({"local", "long", "refusal", "retry"})

\* Whose turn is heard, across the requests' own steps.
LEMMA OwnTurnsRequest ==
  ASSUME Types, PoolInv, Slots, Drained, OwnTurns, Orderly', NEW r \in Requests,
         \/ Arrive(r) \/ ArriveToReplace(r) \/ Continuation(r) \/ Detach(r)
         \/ PromptTimesOut(r) \/ FollowUpTimesOut(r) \/ SettleTimesOut(r)
  PROVE  OwnTurns'
<1> USE DEF Types, SlotTypes
<1>0. used["refusal"] \in Nat /\ used["long"] \in Nat /\ used'["refusal"] = 0 /\ used'["long"] = 0
  BY DEF Orderly, Without, TellTypes, Disturbances
<1>1. CASE Arrive(r) \/ Replaced(r) \/ Attached(r) \/ TellWaits(r) \/ Detach(r)
  <2>1. UNCHANGED <<settled, heard, inbox, outbox, turn, followUps, coming>>
    BY <1>1 DEF Arrive, Replaced, Attached, TellWaits, Detach, pipes, turnVars
  <2>2. \A a \in Agents : life'[a] = "running" => life[a] = "running"
    BY <1>1 DEF Arrive, Replaced, Attached, TellWaits, Detach, agentVars, GetOrCreate, Fresh,
       GatewayTypes
  <2>3. \A s \in Requests : s # r => pc'[s] = pc[s] /\ given'[s] = given[s]
    BY <1>1 DEF Arrive, Replaced, Attached, TellWaits, Detach, GetOrCreate, Goes
  <2>4. (Waits(r) /\ pc'[r] \notin Prompted) \/ (pc[r] \notin Prompted /\ pc'[r] = "left" /\ given'[r] = given[r])
    BY <1>1 DEF Arrive, Replaced, Attached, TellWaits, Detach, GetOrCreate, Goes, Waits, Prompted
  <2> QED BY <2>1, <2>2, <2>3, <2>4, OwnTurnsFramed
<1>2. CASE ArriveToReplace(r)
  <2>0. pool \in Agents
    BY <1>2 DEF ArriveToReplace, GatewayTypes
  <2>1. \A s \in Rejected(pool) : pc[s] = "queued"
    BY <2>0 DEF Rejected, Slots, QueueWaits
  <2>2. UNCHANGED <<settled, heard, inbox, turn, followUps, coming>> /\ Teardown(pool, "stopping")
    BY <1>2 DEF ArriveToReplace, turnVars
  <2>3. \A s \in Requests : s # r => given'[s] = given[s] /\ (pc'[s] = pc[s] \/ (pc[s] = "queued" /\ pc'[s] = "failed"))
    BY <1>2, <2>1 DEF ArriveToReplace, PcWithout
  <2>4. pc[r] = "new" /\ pc'[r] = "replacing"
    BY <1>2 DEF ArriveToReplace, PcWithout
  <2>5. \A a \in Agents : life'[a] = "running" => life[a] = "running" /\ outbox'[a] = outbox[a]
    BY <2>0, <2>2 DEF Teardown, GatewayTypes, AgentTypes
  <2>6. \A s \in Requests : (pc'[s] = pc[s] /\ given'[s] = given[s]) \/ (Waits(s) /\ pc'[s] \notin Prompted)
    BY <2>3, <2>4 DEF Waits, Prompted
  <2> QED BY <2>2, <2>5, <2>6, OwnTurnsFramed
<1>3. CASE TellTakes(r) \/ TellGranted(r)
  <2>1. /\ given[r] \in Agents /\ life[given[r]] = "running" /\ pool = given[r]
        /\ pc[r] \in {"ready", "granted"}
    BY <1>3 DEF TellTakes, TellGranted, Slots, Placed, PoolInv, ServingIsPooled
  <2>2. TakeSlot(r)
    BY <1>3, <2>1 DEF TellTakes, TellGranted
  <2>3. \A s \in Requests : given[s] = given[r] /\ pc[s] \in Slotted => s = r
    BY <1>3, <2>1 DEF TellTakes, TellGranted, IsBusy, Slots, OneSlotted, BusyIsOwned, Owners, Slotted,
       GrantedAlone, Continuing
  <2>4. PICK a \in Agents : a = given[r]
    BY <2>1
  <2>5. Owners(a) = {} /\ AtRest(a) /\ followUps[a] = <<>>
    <3>1. Owners(a) = {}
      BY <2>1, <2>3, <2>4 DEF Owners, Prompted, Slotted
    <3> QED BY <2>1, <2>4, <3>1 DEF OwnTurns, OwnTurn
  <2>6. /\ UNCHANGED <<life, given, heard, outbox, turn, followUps, coming>>
        /\ inbox' = [inbox EXCEPT ![a] = Append(@, Prompt(r))]
        /\ pc' = [pc EXCEPT ![r] = "prompting"]
        /\ settled' = [settled EXCEPT ![r] = "listening"]
    BY <1>3, <2>2, <2>4 DEF TellTakes, TellGranted, TakeSlot, Goes, turnVars, Prompt
  <2>7. Owners(a)' = {r}
    BY <2>1, <2>4, <2>5, <2>6 DEF Owners, Prompted
  <2>8. Prompt(r) \in Commands
    BY DEF Prompt, Commands
  <2>9. Len(inbox'[a]) = 1 /\ inbox'[a][1] = Prompt(r)
    BY <2>5, <2>6, <2>8 DEF AtRest, AgentTypes
  <2>10. OwnTurn(a)'
    <3>1. Unread(a, r)'
      BY <2>5, <2>6, <2>9 DEF Unread, AtRest, Prompt
    <3>2. \A s \in Requests : given'[s] = a => (settled'[s] = "listening" <=> s \in Owners(a)')
      BY <2>1, <2>4, <2>5, <2>6, <2>7 DEF OwnTurns, OwnTurn, TellTypes
    <3> QED BY <2>5, <2>6, <2>7, <3>1, <3>2 DEF OwnTurn, InTurn
  <2>11. HeardOwn'
    BY <2>6 DEF OwnTurns, HeardOwn, TellTypes
  <2>12. \A b \in Agents : b # a => /\ inbox'[b] = inbox[b] /\ outbox'[b] = outbox[b]
                                    /\ turn'[b] = turn[b] /\ followUps'[b] = followUps[b] /\ coming'[b] = coming[b]
    BY <2>6 DEF AgentTypes
  <2>13. \A s \in Requests : given[s] # a => pc'[s] = pc[s] /\ settled'[s] = settled[s]
    BY <2>4, <2>6 DEF TellTypes
  <2> QED BY <2>6, <2>10, <2>11, <2>12, <2>13, OwnTurnsAt
<1>4. CASE PromptTimesOut(r)
  BY <1>0, <1>4 DEF PromptTimesOut, Spend, TellTypes, Disturbances
<1>6. CASE FollowUpTimesOut(r)
  BY <1>0, <1>6 DEF FollowUpTimesOut, Spend, TellTypes, Disturbances
<1>5. CASE SettleTimesOut(r)
  <2>0. given[r] \in Agents
    BY <1>5 DEF SettleTimesOut, Slots, Placed
  <2>1. life[given[r]] \in {"stopping", "exited", "gone"}
    BY <1>0, <1>5 DEF SettleTimesOut, Spend, TellTypes, Disturbances
  <2>2. queue[given[r]] = <<>>
    BY <2>0, <2>1 DEF Slots, QueueWaits
  <2>3. UNCHANGED <<life, settled, heard, inbox, outbox, turn, followUps, coming, given>>
    BY <1>5 DEF SettleTimesOut, pipes, turnVars
  <2>4. pc' = [pc EXCEPT ![r] = "acked"]
    BY <1>5, <2>2 DEF SettleTimesOut, Release
  <2> QED BY <2>1, <2>3, <2>4, OwnTurnsFramed
<1> QED BY <1>1, <1>2, <1>3, <1>4, <1>5, <1>6 DEF Continuation

\* Across the gateway's timers, crashes and teardowns.
LEMMA OwnTurnsGateway ==
  ASSUME Types, PoolInv, Slots, Drained, OwnTurns,
         Crash \/ IdleEviction \/ StartProbe \/ ProbeEnds \/ ProbeFails \/ StopBegins \/ StopAgents
  PROVE  OwnTurns'
<1> USE DEF Types, SlotTypes
<1>1. CASE StartProbe \/ ProbeEnds \/ StopBegins
  BY <1>1, OwnTurnsFramed DEF StartProbe, ProbeEnds, StopBegins, agentVars, pipes, turnVars, requestVars
<1>2. CASE Crash \/ IdleEviction \/ ProbeFails \/ StopAgents
  <2>1. pool # None => \A s \in Rejected(pool) : pc[s] = "queued"
    BY DEF Rejected, Slots, QueueWaits, GatewayTypes
  <2>2. UNCHANGED <<settled, heard, given>>
    BY <1>2 DEF Crash, IdleEviction, ProbeFails, StopAgents, TornDown, TornDownIfAny
  <2>3. \A s \in Requests : pc'[s] = pc[s] \/ (pc[s] = "queued" /\ pc'[s] = "failed")
    BY <1>2, <2>1
       DEF Crash, IdleEviction, ProbeFails, StopAgents, TornDown, TornDownIfAny, PcWithout
  <2>4. UNCHANGED <<life, outbox>> \/ (pool \in Agents /\ \E stage \in {"stopping", "exited"} : Teardown(pool, stage))
    BY <1>2 DEF Crash, IdleEviction, ProbeFails, StopAgents, TornDown, TornDownIfAny, GatewayTypes
  <2>5. \A a \in Agents :
          life'[a] = "running" => life[a] = "running" /\ outbox'[a] = outbox[a] /\ (Crash => a # pool)
    BY <2>4 DEF Teardown, GatewayTypes, AgentTypes, Crash, TornDown
  <2>6. \A a \in Agents : ~Crash \/ a # pool =>
          inbox'[a] = inbox[a] /\ turn'[a] = turn[a] /\ followUps'[a] = followUps[a] /\ coming'[a] = coming[a]
    BY <1>2 DEF Crash, IdleEviction, ProbeFails, StopAgents, turnVars, AgentTypes
  <2>7. \A s \in Requests : (pc'[s] = pc[s] /\ given'[s] = given[s]) \/ (Waits(s) /\ pc'[s] \notin Prompted)
    BY <2>2, <2>3 DEF Waits, Prompted
  <2> QED BY <2>2, <2>5, <2>6, <2>7, OwnTurnsFramed
<1> QED BY <1>1, <1>2

\* Across the start and the stop of an agent.
LEMMA OwnTurnsProcess ==
  ASSUME Types, PoolInv, Slots, Drained, OwnTurns, NEW a \in Agents,
         SpawnSucceeds(a) \/ SpawnFails(a) \/ Stopped(a)
  PROVE  OwnTurns'
<1> USE DEF Types, SlotTypes
<1>1. CASE SpawnFails(a) \/ Stopped(a) \/ (SpawnSucceeds(a) /\ ~JoinsPool)
  <2>1. UNCHANGED <<settled, heard, given, outbox>> /\ life'[a] # "running"
    BY <1>1 DEF SpawnFails, Stopped, SpawnSucceeds, pipes, GatewayTypes
  <2>2. \A b \in Agents : b # a => /\ life'[b] = life[b] /\ inbox'[b] = inbox[b]
                                   /\ turn'[b] = turn[b] /\ followUps'[b] = followUps[b] /\ coming'[b] = coming[b]
    BY <1>1 DEF SpawnFails, Stopped, SpawnSucceeds, pipes, turnVars, GatewayTypes, AgentTypes
  <2>3. \A r \in Requests : pc'[r] = pc[r] \/ (pc'[r] = "failed" /\ given[r] = a)
    BY <1>1 DEF SpawnFails, Stopped, SpawnSucceeds, PcWithout, Waiting
  <2> QED BY <2>1, <2>2, <2>3, OwnTurnsFramed
<1>2. CASE SpawnSucceeds(a) /\ JoinsPool
  <2>1. UNCHANGED <<settled, heard, given, inbox, outbox, turn, followUps, coming>> /\ life[a] = "starting"
    BY <1>2 DEF SpawnSucceeds, pipes, turnVars
  <2>2. \A b \in Agents : b # a => life'[b] = life[b]
    BY <1>2 DEF SpawnSucceeds, GatewayTypes
  <2>3. \A r \in Requests : IF given[r] = a THEN pc[r] = "spawning" /\ pc'[r] = "ready" ELSE pc'[r] = pc[r]
    BY <1>2, <2>1, PoolAssumption DEF SpawnSucceeds, Waiting, Slots, Placed
  <2>4. HeardOwn'
    BY <2>1, <2>3 DEF OwnTurns, HeardOwn
  <2>5. Owners(a)' = {}
    BY <2>1, <2>3 DEF Owners, Prompted
  <2>6. OwnTurn(a)'
    BY <2>1, <2>3, <2>5 DEF OwnTurn, AtRest, Drained, OwnTurns, HeardOwn
  <2>7. ASSUME NEW b \in Agents, life'[b] = "running", b # a PROVE OwnTurn(b)'
    <3>1. OwnTurn(b)
      BY <2>2, <2>7 DEF OwnTurns
    <3>2. Owners(b)' = Owners(b) /\ \A r \in Owners(b) : pc'[r] = pc[r]
      BY <2>1, <2>3, <2>7 DEF Owners
    <3> QED BY <2>1, <3>1, <3>2 DEF OwnTurn, AtRest, InTurn, Unread, Acknowledged, AckHeard, 
     Taken, TakenAndOver, Settling, Over
  <2> QED BY <2>4, <2>6, <2>7 DEF OwnTurns
<1> QED BY <1>1, <1>2

\* Across the turns: without follow-ups an agent turns for its owner only.
LEMMA OwnTurnsAgent ==
  ASSUME Types, PoolInv, Slots, Drained, OwnTurns, Orderly', NEW a \in Agents,
         AgentReads(a) \/ Begins(a) \/ TurnEnds(a) \/ TurnFails(a) \/ LocalTurn(a)
  PROVE  OwnTurns'
<1> USE DEF Types, SlotTypes
<1>0. \A d \in {"local", "retry"} : used[d] \in Nat /\ used'[d] = 0 /\ d \in Disturbances
  BY DEF Orderly, Without, TellTypes, Disturbances
<1>1. ~LocalTurn(a) /\ ~TurnFails(a)
  BY <1>0 DEF LocalTurn, TurnFails, Spend, TellTypes
<1>2. /\ UNCHANGED <<life, pc, given, settled, heard>> /\ (AgentReads(a) \/ Begins(a) \/ TurnEnds(a))
      /\ life[a] \in {"running", "stopping"}
  BY <1>1 DEF AgentReads, Begins, ReadsPrompt, ReadsFollowUp, TurnBegins, Reads, TurnEnds,
     agentVars, requestVars, Alive
<1>3. \A b \in Agents : b # a => /\ inbox'[b] = inbox[b] /\ outbox'[b] = outbox[b]
                                 /\ turn'[b] = turn[b] /\ followUps'[b] = followUps[b] /\ coming'[b] = coming[b]
  <2>1. CASE AgentReads(a)
    BY <2>1 DEF AgentReads, ReadsPrompt, ReadsFollowUp, Reads, Write, AgentTypes
  <2>2. CASE Begins(a)
    BY <2>2 DEF Begins, TurnBegins, pipes, AgentTypes
  <2>3. CASE TurnEnds(a)
    BY <2>3 DEF TurnEnds, Write, AgentTypes
  <2> QED BY <1>2, <2>1, <2>2, <2>3
<1>4. CASE life[a] # "running"
  BY <1>2, <1>3, <1>4, OwnTurnsFramed
<1>5. CASE life[a] = "running"
  <2>1. OwnTurn(a) /\ HeardOwn' /\ Owners(a)' = Owners(a)
    BY <1>2, <1>5 DEF OwnTurns, HeardOwn, Owners
  <2>2. \A r \in Requests : given'[r] = a => (settled'[r] = "listening" <=> r \in Owners(a)')
    BY <1>2, <2>1 DEF OwnTurn
  <2>3. \A r, s \in Owners(a) : r = s
    BY DEF Slots, OneSlotted, Owners, Slotted
  <2>4. CASE AgentReads(a)
    <3>1. PICK r \in Owners(a) : Unread(a, r)
      BY <2>1, <2>4 DEF AgentReads, ReadsPrompt, ReadsFollowUp, Reads, OwnTurn, AtRest, InTurn,
         Acknowledged, AckHeard, Taken, TakenAndOver, Settling, Over
    <3>2. inbox[a] # <<>> /\ inbox[a] \in Seq(Commands)
      BY <2>4 DEF AgentReads, ReadsPrompt, ReadsFollowUp, Reads, AgentTypes
    <3>3. Head(inbox[a]) = Prompt(r) /\ Tail(inbox[a]) = <<>>
      BY <3>1, <3>2, Tailed DEF Unread
    <3>4. r \in Requests /\ Head(inbox[a]).op = "prompt" /\ Head(inbox[a]).by = r
      BY <3>3 DEF Prompt, Owners
    <3>10. ReadsPrompt(a) /\ ~IsRunning(a)
      BY <2>4, <3>1, <3>4 DEF AgentReads, ReadsFollowUp, Reads, IsRunning, Unread
    <3>5. /\ inbox' = [inbox EXCEPT ![a] = <<>>] /\ coming' = [coming EXCEPT ![a] = @ \cup {r}]
          /\ UNCHANGED <<turn, followUps>>
          /\ outbox' = [outbox EXCEPT ![a] = Append(@, Line("success", r))]
      BY <1>5, <3>3, <3>4, <3>10 DEF ReadsPrompt, Reads, Write, Line
    <3>6. Line("success", r) \in Lines
      BY <3>4 DEF Line, Lines, Answers
    <3>7. Len(outbox'[a]) = 1 /\ outbox'[a][1] = Line("success", r)
      BY <3>1, <3>5, <3>6 DEF Unread, AgentTypes
    <3>8. Acknowledged(a, r)'
      BY <1>2, <3>1, <3>5, <3>7 DEF Acknowledged, Unread, AgentTypes, Line
    <3>9. OwnTurn(a)'
      BY <2>1, <2>2, <2>3, <3>1, <3>5, <3>8 DEF OwnTurn, InTurn
    <3> QED BY <1>2, <1>3, <2>1, <3>9, OwnTurnsAt
  <2>6. CASE Begins(a)
    <3>1. PICK s \in Requests : TurnBegins(a, s)
      BY <2>6 DEF Begins
    <3>2. PICK r \in Owners(a) : Acknowledged(a, r) \/ AckHeard(a, r)
      BY <2>1, <3>1 DEF TurnBegins, OwnTurn, AtRest, InTurn, Unread, Taken, TakenAndOver, Settling, Over
    <3>3. s = r /\ r \in Requests /\ turn[a] = None
      BY <3>1, <3>2 DEF TurnBegins, Acknowledged, AckHeard
    <3>4. /\ coming' = [coming EXCEPT ![a] = @ \ {r}] /\ turn' = [turn EXCEPT ![a] = r]
          /\ UNCHANGED <<inbox, outbox, followUps>>
      BY <3>1, <3>3 DEF TurnBegins, IsRunning, pipes
    <3>5. Taken(a, r)' \/ Settling(a, r)'
      BY <1>2, <3>2, <3>4 DEF Acknowledged, AckHeard, Taken, Settling, AgentTypes, Line
    <3>6. OwnTurn(a)'
      BY <2>1, <2>2, <2>3, <3>2, <3>4, <3>5 DEF OwnTurn, InTurn
    <3> QED BY <1>2, <1>3, <2>1, <3>6, OwnTurnsAt
  <2>5. CASE TurnEnds(a)
    <3>1. PICK r \in Owners(a) : Taken(a, r) \/ Settling(a, r)
      BY <2>1, <2>5 DEF TurnEnds, OwnTurn, AtRest, InTurn, Unread, Acknowledged, AckHeard,
         TakenAndOver, Over
    <3>2. r \in Requests /\ turn[a] = r /\ followUps[a] = <<>>
      BY <2>1, <3>1 DEF Owners, Taken, Settling, OwnTurn
    <3>3. /\ inbox' = inbox /\ turn' = [turn EXCEPT ![a] = None] /\ UNCHANGED <<followUps, coming>>
          /\ outbox' = [outbox EXCEPT ![a] = Append(@, Line("completed", r))]
      BY <1>5, <2>5, <3>2 DEF TurnEnds, Write, Line, AgentTypes
    <3>4. Line("completed", r) \in Lines
      BY <3>2 DEF Line, Lines
    <3>5. outbox[a] \in Seq(Lines) /\ outbox'[a] = Append(outbox[a], Line("completed", r))
      BY <3>3 DEF AgentTypes
    <3>6. TakenAndOver(a, r)' \/ Over(a, r)'
      <4>1. CASE Taken(a, r)
        <5>1. /\ Len(outbox'[a]) = 2 /\ outbox'[a][1] = Line("success", r)
              /\ outbox'[a][2] = Line("completed", r)
          <6>1. /\ DOMAIN outbox'[a] = 1 .. 2 /\ outbox'[a] \in Seq(Lines)
                /\ outbox'[a][2] = Line("completed", r) /\ outbox'[a][1] = outbox[a][1]
            BY <3>4, <3>5, <4>1, Appended DEF Taken
          <6>2. Len(outbox'[a]) = Len(outbox[a]) + 1
            BY <3>4, <3>5
          <6> QED BY <4>1, <6>1, <6>2 DEF Taken
        <5> QED BY <1>2, <3>3, <4>1, <5>1 DEF Taken, TakenAndOver, AgentTypes, Line
      <4>2. CASE Settling(a, r)
        <5>1. Len(outbox'[a]) = 1 /\ outbox'[a][1] = Line("completed", r)
          BY <3>4, <3>5, <4>2 DEF Settling
        <5> QED BY <1>2, <3>3, <4>2, <5>1 DEF Settling, Over, AgentTypes, Line
      <4> QED BY <3>1, <4>1, <4>2
    <3>7. OwnTurn(a)'
      BY <2>1, <2>2, <2>3, <3>1, <3>3, <3>6 DEF OwnTurn, InTurn
    <3> QED BY <1>2, <1>3, <2>1, <3>7, OwnTurnsAt
  <2> QED BY <1>2, <2>4, <2>5, <2>6
<1> QED BY <1>4, <1>5

\* Across the lines read: the end that a tell hears is that of its own turn.
LEMMA OwnTurnsRead ==
  ASSUME Types, PoolInv, Slots, OwnTurns, NEW a \in Agents,
         ReadCompleted(a) \/ ReadSuccess(a) \/ ReadError(a)
  PROVE  OwnTurns'
<1> USE DEF Types, SlotTypes
<1>1. /\ life[a] = "running" /\ outbox[a] # <<>> /\ outbox[a] \in Seq(Lines)
      /\ outbox' = [outbox EXCEPT ![a] = Tail(@)] /\ UNCHANGED <<life, given, turn, followUps, coming>>
  BY DEF ReadCompleted, ReadSuccess, ReadError, ReadLine, turnVars, AgentTypes
<1>2. OwnTurn(a)
  BY <1>1 DEF OwnTurns
<1>3. PICK r \in Owners(a) : Acknowledged(a, r) \/ Taken(a, r) \/ TakenAndOver(a, r) \/ Over(a, r)
  BY <1>1, <1>2 DEF OwnTurn, AtRest, InTurn, Unread, AckHeard, Settling
<1>4. /\ r \in Requests /\ given[r] = a /\ settled[r] = "listening"
      /\ \A s \in Requests : given[s] = a /\ (settled[s] = "listening" \/ pc[s] \in Prompted) => s = r
  BY <1>2, <1>3 DEF OwnTurn, Owners, Slots, OneSlotted, Slotted
<1>5. Head(outbox[a]) = outbox[a][1] /\ Head(outbox[a]).by = r
      /\ Head(outbox[a]).line = (IF Over(a, r) THEN "completed" ELSE "success")
  BY <1>1, <1>3, Tailed DEF Acknowledged, Taken, TakenAndOver, Over, Line
<1>6. ~ReadError(a)
  BY <1>5 DEF ReadError, ReadLine
<1>7. \A b \in Agents : b # a => /\ inbox'[b] = inbox[b] /\ outbox'[b] = outbox[b]
                                 /\ turn'[b] = turn[b] /\ followUps'[b] = followUps[b] /\ coming'[b] = coming[b]
  BY <1>1, <1>6 DEF ReadCompleted, ReadSuccess, AgentTypes
<1>8. inbox' = inbox /\ inbox[a] = <<>> /\ outbox'[a] = Tail(outbox[a])
  BY <1>1, <1>3, <1>6 DEF ReadCompleted, ReadSuccess, Acknowledged, Taken, TakenAndOver, Over, AgentTypes
<1>9. CASE Over(a, r)
  <2>1. ReadCompleted(a)
    BY <1>5, <1>6, <1>9 DEF ReadSuccess, ReadLine
  <2>2. /\ {s \in Requests : given[s] = a /\ settled[s] = "listening"} = {r}
        /\ {s \in {r} : pc[s] = "settling"} = {r}
    BY <1>4, <1>9 DEF Over
  <2>3. /\ settled' = [s \in Requests |-> IF s \in {r} THEN "yes" ELSE settled[s]]
        /\ heard' = [s \in Requests |-> IF s \in {r} THEN r ELSE heard[s]]
        /\ Release(a, [s \in Requests |-> IF s \in {r} THEN "acked" ELSE pc[s]])
    BY <1>5, <2>1, <2>2 DEF ReadCompleted
  <2>4. queue[a] # <<>> => /\ Head(queue[a]) \in Requests /\ pc[Head(queue[a])] = "queued"
                           /\ given[Head(queue[a])] = a
    BY Tailed DEF Slots, QueueWaits
  <2>5. \A s \in Requests : \/ s = r /\ pc'[s] = "acked"
                            \/ s # r /\ pc'[s] = pc[s]
                            \/ s # r /\ pc[s] = "queued" /\ pc'[s] = "granted" /\ given[s] = a
    BY <1>4, <1>9, <2>3, <2>4 DEF Release, Over
  <2>6. Owners(a)' = {}
    BY <1>1, <1>4, <2>5 DEF Owners, Prompted
  <2>7. Tail(outbox[a]) = <<>>
    BY <1>1, <1>9, Tailed DEF Over
  <2>8. OwnTurn(a)'
    <3>1. AtRest(a)'
      BY <1>1, <1>8, <1>9, <2>7 DEF AtRest, Over
    <3>2. \A s \in Requests : given'[s] = a => settled'[s] # "listening"
      BY <1>1, <1>4, <2>3
    <3> QED BY <1>1, <1>2, <2>6, <3>1, <3>2 DEF OwnTurn
  <2>9. HeardOwn'
    BY <2>3, <2>5 DEF OwnTurns, HeardOwn
  <2>10. \A s \in Requests : given[s] # a => pc'[s] = pc[s] /\ settled'[s] = settled[s]
    BY <1>4, <2>3, <2>5
  <2> QED BY <1>1, <1>7, <2>8, <2>9, <2>10, OwnTurnsAt
<1>10. CASE Acknowledged(a, r) \/ Taken(a, r) \/ TakenAndOver(a, r)
  <2>1. ReadSuccess(a) /\ ~Over(a, r)
    BY <1>5, <1>6, <1>10 DEF ReadCompleted, ReadLine, Over, Acknowledged, Taken, TakenAndOver
  <2>2. pc' = [pc EXCEPT ![r] = "settling"] /\ UNCHANGED <<settled, heard>>
    BY <1>4, <1>5, <1>10, <2>1 DEF ReadSuccess, Acknowledged, Taken, TakenAndOver
  <2>3. Owners(a)' = {r}
    BY <1>1, <1>3, <1>4, <2>2 DEF Owners, Prompted
  <2>4. AckHeard(a, r)' \/ Settling(a, r)' \/ Over(a, r)'
    <3>1. CASE Taken(a, r)
      <4>1. Tail(outbox[a]) = <<>>
        BY <1>1, <3>1, Tailed DEF Taken
      <4> QED BY <1>1, <1>4, <1>8, <2>2, <3>1, <4>1 DEF Taken, Settling
    <3>2. CASE TakenAndOver(a, r)
      <4>1. Len(Tail(outbox[a])) = 1 /\ Tail(outbox[a])[1] = Line("completed", r)
        BY <1>1, <3>2, Tailed DEF TakenAndOver
      <4> QED BY <1>1, <1>4, <1>8, <2>2, <3>2, <4>1 DEF TakenAndOver, Over, Line
    <3>3. CASE Acknowledged(a, r)
      <4>1. Tail(outbox[a]) = <<>>
        BY <1>1, <3>3, Tailed DEF Acknowledged
      <4> QED BY <1>1, <1>4, <1>8, <2>2, <3>3, <4>1 DEF Acknowledged, AckHeard
    <3> QED BY <1>10, <3>1, <3>2, <3>3
  <2>5. OwnTurn(a)'
    BY <1>1, <1>2, <1>4, <2>2, <2>3, <2>4 DEF OwnTurn, InTurn
  <2>6. HeardOwn'
    BY <1>4, <2>2 DEF OwnTurns, HeardOwn
  <2>7. \A s \in Requests : given[s] # a => pc'[s] = pc[s] /\ settled'[s] = settled[s]
    BY <1>4, <2>2
  <2> QED BY <1>1, <1>7, <2>5, <2>6, <2>7, OwnTurnsAt
<1> QED BY <1>3, <1>9, <1>10
-----------------------------------------------------------------------------
(* What becomes of a prompt that is acknowledged. *)

\* While an agent stops nothing is sent to it: it is at one message at most.
Lone(a) ==
  /\ followUps[a] = <<>> /\ Len(inbox[a]) <= 1
  /\ inbox[a] # <<>> => inbox[a][1].op = "prompt" /\ coming[a] = {} /\ turn[a] = None
  /\ coming[a] # {} => turn[a] = None /\ \E r \in Requests : coming[a] = {r}

LoneTurns == \A a \in Agents : life[a] = "stopping" => Lone(a)

\* An agent at its owner's turn is so, and one that has not begun.
LEMMA LoneBefore ==
  ASSUME Types, Drained, OwnTurns, LoneTurns, NEW a \in Agents,
         life[a] \in {"starting", "running", "stopping"}
  PROVE  Lone(a)
<1>1. CASE life[a] = "starting"
  BY <1>1 DEF Drained, Lone
<1>2. CASE life[a] = "running"
  <2>1. OwnTurn(a)
    BY <1>2 DEF OwnTurns
  <2>2. CASE Owners(a) = {}
    BY <2>1, <2>2 DEF OwnTurn, AtRest, Lone
  <2>3. ASSUME NEW r \in Owners(a) PROVE Lone(a)
    <3>1. InTurn(a, r) /\ r \in Requests
      BY <2>1 DEF OwnTurn, Owners
    <3>2. inbox[a] \in Seq(Commands)
      BY DEF Types, AgentTypes
    <3>3. inbox[a] = <<>> => Len(inbox[a]) = 0
      OBVIOUS
    <3>4. CASE Unread(a, r)
      BY <2>1, <3>4 DEF OwnTurn, Unread, Prompt, Lone
    <3>5. CASE ~Unread(a, r)
      BY <2>1, <3>1, <3>3, <3>5 DEF OwnTurn, InTurn, Acknowledged, AckHeard, Taken, TakenAndOver,
         Settling,
         Over, Lone
    <3> QED BY <3>4, <3>5
  <2> QED BY <2>2, <2>3
<1>3. CASE life[a] = "stopping"
  BY <1>3 DEF LoneTurns
<1> QED BY <1>1, <1>2, <1>3

\* Steps that leave the agents that stop alone.
LEMMA LoneFramed ==
  ASSUME Types, Drained, OwnTurns, LoneTurns,
         \A a \in Agents : life'[a] = "stopping" =>
           /\ life[a] \in {"starting", "running", "stopping"}
           /\ inbox'[a] = inbox[a] /\ coming'[a] = coming[a]
           /\ turn'[a] = turn[a] /\ followUps'[a] = followUps[a]
  PROVE  LoneTurns'
BY LoneBefore DEF LoneTurns, Lone

\* A request writes to an agent that serves.
LEMMA LoneRequest ==
  ASSUME Types, PoolInv, Slots, Drained, OwnTurns, LoneTurns, NEW r \in Requests,
         \/ Arrive(r) \/ ArriveToReplace(r) \/ Continuation(r) \/ Detach(r)
         \/ PromptTimesOut(r) \/ FollowUpTimesOut(r) \/ SettleTimesOut(r)
  PROVE  LoneTurns'
<1> USE DEF Types
<1>1. UNCHANGED <<turn, followUps, coming>>
  BY DEF Arrive, ArriveToReplace, Continuation, Replaced, Attached, TellTakes, TellWaits, TellGranted,
     Detach, PromptTimesOut, FollowUpTimesOut, SettleTimesOut, turnVars
<1>2. CASE Arrive(r) \/ Replaced(r)
  <2>1. inbox' = inbox /\ \A a \in Agents : life'[a] = "stopping" => life[a] = "stopping"
    BY <1>2 DEF Arrive, Replaced, GetOrCreate, Fresh, GatewayTypes, pipes
  <2> QED BY <1>1, <2>1, LoneFramed
<1>3. CASE ArriveToReplace(r)
  <2>1. /\ inbox' = inbox /\ pool \in Agents /\ life[pool] = "running"
        /\ life' = [life EXCEPT ![pool] = "stopping"]
    BY <1>3 DEF ArriveToReplace, Teardown, PoolInv, PoolTypes, ServingIsPooled
  <2>2. \A a \in Agents : life'[a] = "stopping" => life[a] \in {"running", "stopping"}
    BY <2>1 DEF GatewayTypes
  <2> QED BY <1>1, <2>1, <2>2, LoneFramed
<1>4. CASE Attached(r) \/ TellWaits(r) \/ Detach(r) \/ SettleTimesOut(r) \/ FollowUpTimesOut(r)
  <2>1. UNCHANGED <<life, inbox>>
    BY <1>4 DEF Attached, TellWaits, Detach, SettleTimesOut, FollowUpTimesOut, agentVars, pipes
  <2> QED BY <1>1, <2>1, LoneFramed
<1>5. CASE TellTakes(r) \/ TellGranted(r) \/ PromptTimesOut(r)
  <2>1. UNCHANGED life /\ life[given[r]] = "running"
    BY <1>5 DEF TellTakes, TellGranted, PromptTimesOut, Slots, Placed
  <2>2. \A a \in Agents : life[a] # "running" => inbox'[a] = inbox[a]
    BY <1>5, <2>1 DEF TellTakes, TellGranted, PromptTimesOut, TakeSlot, Refuse, AgentTypes
  <2> QED BY <1>1, <2>1, <2>2, LoneFramed
<1> QED BY <1>2, <1>3, <1>4, <1>5 DEF Continuation

\* Nothing that an agent at its owner's turn writes is an error.
LEMMA NoErrorRead == ASSUME Types, OwnTurns, NEW a \in Agents PROVE ~ReadError(a)
<1> SUFFICES ASSUME ReadError(a) PROVE FALSE
  OBVIOUS
<1>1. life[a] = "running" /\ outbox[a] # <<>> /\ outbox[a] \in Seq(Lines) /\ Head(outbox[a]).line = "error"
  BY DEF ReadError, ReadLine, Types, AgentTypes
<1>2. OwnTurn(a)
  BY <1>1 DEF OwnTurns
<1>3. PICK r \in Owners(a) : Acknowledged(a, r) \/ Taken(a, r) \/ TakenAndOver(a, r) \/ Over(a, r)
  BY <1>1, <1>2 DEF OwnTurn, AtRest, InTurn, Unread, AckHeard, Settling
<1>4. Head(outbox[a]) = outbox[a][1]
  BY <1>1, Tailed
<1> QED BY <1>1, <1>3, <1>4 DEF Acknowledged, Taken, TakenAndOver, Over, Line

\* Reading a line leaves the agents that stop alone.
LEMMA LoneRead ==
  ASSUME Types, Drained, OwnTurns, LoneTurns, NEW a \in Agents,
         ReadCompleted(a) \/ ReadSuccess(a) \/ ReadError(a)
  PROVE  LoneTurns'
<1>1. UNCHANGED <<life, turn, followUps, coming, inbox>>
  BY NoErrorRead DEF ReadCompleted, ReadSuccess, turnVars
<1> QED BY <1>1, LoneFramed

\* An agent that stops goes on with its one message.
LEMMA LoneAgent ==
  ASSUME Types, PoolInv, Drained, OwnTurns, LoneTurns, Orderly', NEW a \in Agents,
         \/ AgentReads(a) \/ Begins(a) \/ TurnEnds(a) \/ TurnFails(a) \/ LocalTurn(a)
         \/ SpawnSucceeds(a) \/ SpawnFails(a) \/ Stopped(a)
  PROVE  LoneTurns'
<1> USE DEF Types
<1>0. \A d \in {"local", "retry"} : used[d] \in Nat /\ used'[d] = 0 /\ d \in Disturbances
  BY DEF Orderly, Without, TellTypes, Disturbances
<1>1. ~LocalTurn(a) /\ ~TurnFails(a)
  BY <1>0 DEF LocalTurn, TurnFails, Spend, TellTypes
<1>2. CASE SpawnSucceeds(a) \/ SpawnFails(a) \/ Stopped(a)
  <2>1. \A b \in Agents : life'[b] = "stopping" => (b # a /\ life[b] = "stopping") \/ life[b] = "starting"
    BY <1>2 DEF SpawnSucceeds, SpawnFails, Stopped, GatewayTypes
  <2>2. \A b \in Agents : life'[b] = "stopping" => /\ inbox'[b] = inbox[b] /\ coming'[b] = coming[b]
                                                   /\ turn'[b] = turn[b] /\ followUps'[b] = followUps[b]
    BY <1>2 DEF SpawnSucceeds, SpawnFails, Stopped, pipes, turnVars, AgentTypes, GatewayTypes
  <2> QED BY <2>1, <2>2, LoneFramed
<1>3. CASE AgentReads(a) \/ Begins(a) \/ TurnEnds(a)
  <2>1. UNCHANGED life /\ life[a] \in {"running", "stopping"}
    BY <1>3 DEF AgentReads, Begins, ReadsPrompt, ReadsFollowUp, TurnBegins, Reads, TurnEnds,
       agentVars, Alive
  <2>2. \A b \in Agents : b # a => /\ inbox'[b] = inbox[b] /\ coming'[b] = coming[b]
                                   /\ turn'[b] = turn[b] /\ followUps'[b] = followUps[b]
    BY <1>3 DEF AgentReads, Begins, ReadsPrompt, ReadsFollowUp, TurnBegins, Reads, TurnEnds, pipes,
       AgentTypes
  <2>3. Lone(a)
    BY <2>1, LoneBefore
  <2>4. Lone(a)'
    <3>1. CASE AgentReads(a)
      <4>1. inbox[a] # <<>> /\ inbox[a] \in Seq(Commands)
        BY <3>1 DEF AgentReads, ReadsPrompt, ReadsFollowUp, Reads, AgentTypes
      <4>2. Head(inbox[a]) = inbox[a][1] /\ Head(inbox[a]).by \in Requests /\ Tail(inbox[a]) = <<>>
        <5>1. Len(inbox[a]) <= 1
          BY <2>3 DEF Lone
        <5>2. Head(inbox[a]) \in Commands /\ Head(inbox[a]) = inbox[a][1]
          BY <4>1, Tailed
        <5>3. Tail(inbox[a]) = <<>>
          BY <4>1, <5>1, LastTaken
        <5> QED BY <5>2, <5>3 DEF Commands
      <4>3. ReadsPrompt(a)
        BY <2>3, <3>1, <4>1, <4>2 DEF AgentReads, ReadsFollowUp, Reads, Lone
      <4>4. inbox'[a] = <<>> /\ UNCHANGED <<turn, followUps>> /\ coming'[a] \in {coming[a], {Head(inbox[a]).by}}
        BY <2>3, <4>1, <4>2, <4>3 DEF ReadsPrompt, Reads, Lone, AgentTypes
      <4> QED BY <2>3, <4>1, <4>2, <4>4 DEF Lone
    <3>2. CASE Begins(a)
      <4>1. PICK r \in Requests : TurnBegins(a, r)
        BY <3>2 DEF Begins
      <4>2. inbox'[a] = inbox[a] /\ inbox[a] = <<>> /\ followUps' = followUps /\ coming'[a] = {}
        BY <2>3, <4>1 DEF TurnBegins, Lone, pipes, AgentTypes
      <4> QED BY <2>3, <4>2 DEF Lone
    <3>3. CASE TurnEnds(a)
      <4>1. /\ inbox'[a] = inbox[a] /\ inbox[a] = <<>> /\ followUps'[a] = <<>>
            /\ coming'[a] = coming[a] /\ coming[a] = {}
        BY <2>3, <3>3 DEF TurnEnds, Lone, AgentTypes
      <4> QED BY <2>3, <4>1 DEF Lone
    <3> QED BY <1>3, <3>1, <3>2, <3>3
  <2>5. ASSUME NEW b \in Agents, life'[b] = "stopping", b # a PROVE Lone(b)'
    <3>1. Lone(b)
      BY <2>1, <2>5 DEF LoneTurns
    <3> QED BY <2>2, <2>5, <3>1 DEF Lone
  <2> QED BY <2>4, <2>5 DEF LoneTurns
<1> QED BY <1>1, <1>2, <1>3

\* Whatever stops an agent leaves it with what it is at.
LEMMA LoneGateway ==
  ASSUME Types, PoolInv, Drained, OwnTurns, LoneTurns,
         Crash \/ IdleEviction \/ StartProbe \/ ProbeEnds \/ ProbeFails \/ StopBegins \/ StopAgents
  PROVE  LoneTurns'
<1> USE DEF Types
<1>1. CASE StartProbe \/ ProbeEnds \/ StopBegins
  BY <1>1, LoneFramed DEF StartProbe, ProbeEnds, StopBegins, agentVars, pipes, turnVars
<1>2. CASE Crash
  <2>1. /\ pool \in Agents /\ life' = [life EXCEPT ![pool] = "exited"] /\ coming' = coming
        /\ turn' = [turn EXCEPT ![pool] = None] /\ followUps' = [followUps EXCEPT ![pool] = <<>>]
        /\ inbox' = [inbox EXCEPT ![pool] = <<>>]
    BY <1>2 DEF Crash, TornDown, Teardown, GatewayTypes
  <2> QED BY <2>1, LoneFramed DEF GatewayTypes, AgentTypes
<1>3. CASE IdleEviction \/ ProbeFails \/ StopAgents
  <2>1. UNCHANGED <<inbox, turn, followUps, coming>>
    BY <1>3 DEF IdleEviction, ProbeFails, StopAgents, turnVars
  <2>2. UNCHANGED life \/ (pool \in Agents /\ life' = [life EXCEPT ![pool] = "stopping"])
    BY <1>3 DEF IdleEviction, ProbeFails, StopAgents, TornDown, TornDownIfAny, Teardown, GatewayTypes
  <2>3. pool \in Agents => life[pool] = "running"
    BY DEF PoolInv, ServingIsPooled
  <2>4. \A a \in Agents : life'[a] = "stopping" => life[a] \in {"running", "stopping"}
    BY <2>2, <2>3 DEF GatewayTypes
  <2> QED BY <2>1, <2>4, LoneFramed
<1> QED BY <1>1, <1>2, <1>3

\* A prompt acknowledged is taken, or is yet to be; nobody follows one up.
AcksAreTaken ==
  /\ \A a \in Agents, r \in Requests :
       In(Line("success", r), outbox[a]) => accepted[r] >= 1 \/ r \in coming[a]
  /\ \A r \in Requests :
       pc[r] \in {"settling", "acked"} => accepted[r] >= 1 \/ r \in coming[given[r]]
  /\ \A r \in Requests : pc[r] # "following"

\* A step drops no prompt that is acknowledged.
NoneDropped == \A a \in Agents : \A r \in coming[a] : r \in coming'[a] \/ accepted'[r] >= 1

\* Under such steps acknowledgements stay right.
LEMMA AcksGoOn ==
  ASSUME Types, Types', Slots, Addressed, AcksAreTaken, Carried, NoneDropped,
         \A r \in Requests : GoesOn(r), \A r \in Requests : pc'[r] # "following"
  PROVE  AcksAreTaken'
<1> USE DEF Types
<1>1. \A r \in Requests : Line("success", r) \in Answers /\ Line("success", r).by = r /\ Line("success", r).line = "success"
  BY DEF Answers, Line
<1>2. \A r \in Requests : accepted[r] \in Nat /\ accepted'[r] \in Nat /\ accepted'[r] >= accepted[r]
  BY DEF Carried, TellTypes
<1>3. ASSUME NEW a \in Agents, NEW r \in Requests, accepted[r] >= 1 \/ r \in coming[a]
      PROVE  accepted'[r] >= 1 \/ r \in coming'[a]
  BY <1>2, <1>3 DEF NoneDropped
<1>4. ASSUME NEW a \in Agents, NEW r \in Requests, In(Line("success", r), outbox'[a])
      PROVE  accepted'[r] >= 1 \/ r \in coming'[a]
  <2>1. CASE In(Line("success", r), outbox[a])
    BY <1>3, <2>1 DEF AcksAreTaken
  <2>2. CASE ~In(Line("success", r), outbox[a])
    BY <1>1, <1>4, <2>2 DEF Carried
  <2> QED BY <2>1, <2>2
<1>5. ASSUME NEW r \in Requests, pc'[r] \in {"settling", "acked"}
      PROVE  accepted'[r] >= 1 \/ r \in coming'[given'[r]]
  <2>1. PICK a \in Agents : Told(r, a) /\ (accepted[r] >= 1 \/ r \in coming[a])
    <3>1. CASE pc[r] \in {"settling", "acked"}
      BY <3>1 DEF AcksAreTaken, Told, Slots, Placed, SlotTypes
    <3>2. CASE pc[r] \notin {"settling", "acked"}
      <4>1. PICK a \in Agents : In([line |-> "success", by |-> r], outbox[a])
        BY <1>5, <3>2 DEF GoesOn, AcksAreTaken
      <4>2. In(Line("success", r), outbox[a])
        BY <4>1 DEF Line
      <4> QED BY <1>1, <4>2 DEF AcksAreTaken, Addressed
    <3> QED BY <3>1, <3>2
  <2>2. given'[r] = a
    BY <2>1 DEF GoesOn, Told
  <2> QED BY <1>3, <2>1, <2>2
<1> QED BY <1>4, <1>5 DEF AcksAreTaken

\* The requests' own steps drop none, and none follows up.
LEMMA NoneDroppedRequest ==
  ASSUME Types, PoolInv, Slots, AcksAreTaken, Orderly', NEW r \in Requests,
         \/ Arrive(r) \/ ArriveToReplace(r) \/ Continuation(r) \/ Detach(r)
         \/ PromptTimesOut(r) \/ FollowUpTimesOut(r) \/ SettleTimesOut(r)
  PROVE  NoneDropped /\ \A s \in Requests : pc'[s] # "following"
<1> USE DEF Types, SlotTypes
<1>0. used["refusal"] \in Nat /\ used'["refusal"] = 0 /\ "refusal" \in Disturbances
  BY DEF Orderly, Without, TellTypes, Disturbances
<1>1. ~PromptTimesOut(r) /\ ~FollowUpTimesOut(r)
  BY <1>0 DEF PromptTimesOut, FollowUpTimesOut, Spend, TellTypes
<1>2. coming' = coming
  BY <1>1 DEF Arrive, ArriveToReplace, Continuation, Replaced, Attached, TellTakes, TellWaits,
     TellGranted, Detach, SettleTimesOut, turnVars
<1>3. \A s \in Requests : pc[s] # "following"
  BY DEF AcksAreTaken
<1>4. CASE SettleTimesOut(r)
  <2>1. given[r] \in Agents
    BY <1>4 DEF SettleTimesOut, Slots, Placed
  <2>2. queue[given[r]] # <<>> => Head(queue[given[r]]) \in Requests
    BY <2>1, Tailed
  <2> QED BY <1>2, <1>3, <1>4, <2>2 DEF SettleTimesOut, Release, NoneDropped
<1>5. CASE ~SettleTimesOut(r)
  <2>1. \A s \in Requests : pc'[s] # "following"
    BY <1>1, <1>3, <1>5 DEF Arrive, ArriveToReplace, Continuation, Replaced, Attached, TellTakes,
       TellWaits,
       TellGranted, Detach, GetOrCreate, Goes, TakeSlot, PcWithout
  <2> QED BY <1>2, <2>1 DEF NoneDropped
<1> QED BY <1>4, <1>5

\* Neither does the gateway when it reads a line.
LEMMA NoneDroppedRead ==
  ASSUME Types, PoolInv, Slots, OwnTurns, AcksAreTaken, NEW a \in Agents,
         ReadCompleted(a) \/ ReadSuccess(a) \/ ReadError(a)
  PROVE  NoneDropped /\ \A s \in Requests : pc'[s] # "following"
<1> USE DEF Types, SlotTypes
<1> DEFINE over == {t \in Requests : given[t] = a /\ settled[t] = "listening" /\ pc[t] = "settling"}
           places == [t \in Requests |-> IF t \in over THEN "acked" ELSE pc[t]]
<1>1. coming' = coming /\ (ReadCompleted(a) \/ ReadSuccess(a))
  BY NoErrorRead DEF ReadCompleted, ReadSuccess, turnVars
<1>2. \A s \in Requests : pc[s] # "following"
  BY DEF AcksAreTaken
<1>3. queue[a] # <<>> => Head(queue[a]) \in Requests
  BY Tailed
<1>4. CASE ReadCompleted(a)
  <2>1. UNCHANGED pc \/ Release(a, places)
    BY <1>4 DEF ReadCompleted
  <2>2. places \in [Requests -> Places] /\ \A s \in Requests : places[s] # "following"
    BY <1>2 DEF Places
  <2> HIDE DEF places
  <2> QED BY <1>1, <1>2, <1>3, <2>1, <2>2 DEF Release, NoneDropped
<1>5. CASE ReadSuccess(a)
  BY <1>1, <1>2, <1>3, <1>5 DEF ReadSuccess, Release, NoneDropped
<1> QED BY <1>1, <1>4, <1>5

\* An agent begins the turn of a prompt with no other one in its way.
LEMMA NoneDroppedElsewhere ==
  ASSUME Types, Drained, OwnTurns, LoneTurns, AcksAreTaken,
         \/ \E a \in Agents : \/ AgentReads(a) \/ Begins(a) \/ TurnEnds(a) \/ TurnFails(a) \/ LocalTurn(a)
                              \/ SpawnSucceeds(a) \/ SpawnFails(a) \/ Stopped(a)
         \/ Crash \/ IdleEviction \/ StartProbe \/ ProbeEnds \/ ProbeFails \/ StopBegins \/ StopAgents
  PROVE  NoneDropped /\ \A s \in Requests : pc'[s] # "following"
<1> USE DEF Types
<1>1. \A s \in Requests : pc[s] # "following"
  BY DEF AcksAreTaken
<1>2. ASSUME NEW a \in Agents, NEW r \in Requests, TurnBegins(a, r)
      PROVE  NoneDropped /\ \A s \in Requests : pc'[s] # "following"
  <2>1. Lone(a) /\ r \in coming[a]
    BY <1>2, LoneBefore DEF TurnBegins, Alive
  <2>2. /\ accepted' = [accepted EXCEPT ![r] = @ + 1] /\ coming' = [coming EXCEPT ![a] = @ \ {r}]
        /\ pc' = pc
    BY <1>2, <2>1 DEF TurnBegins, IsRunning, Lone
  <2>3. accepted'[r] >= 1
    BY <2>2 DEF TellTypes
  <2>4. \A b \in Agents : \A s \in coming[b] : s = r \/ s \in coming'[b]
    BY <2>2 DEF AgentTypes
  <2> QED BY <1>1, <2>2, <2>3, <2>4 DEF NoneDropped
<1>3. ASSUME NEW a \in Agents, AgentReads(a) \/ TurnEnds(a) \/ TurnFails(a) \/ LocalTurn(a)
      PROVE  NoneDropped /\ \A s \in Requests : pc'[s] # "following"
  <2>1. pc' = pc /\ (coming' = coming \/ \E r : coming' = [coming EXCEPT ![a] = @ \cup {r}])
    BY <1>3 DEF AgentReads, ReadsPrompt, ReadsFollowUp, TurnEnds, TurnFails, LocalTurn, turnVars,
       requestVars
  <2> QED BY <1>1, <2>1 DEF NoneDropped, AgentTypes
<1>4. ASSUME NEW a \in Agents, SpawnSucceeds(a) \/ SpawnFails(a) \/ Stopped(a)
      PROVE  NoneDropped /\ \A s \in Requests : pc'[s] # "following"
  <2>1. coming' = coming /\ \A s \in Requests : pc'[s] \in {pc[s], "failed", "ready"}
    BY <1>4 DEF SpawnSucceeds, SpawnFails, Stopped, PcWithout, turnVars
  <2> QED BY <1>1, <2>1 DEF NoneDropped
<1>5. CASE Crash \/ IdleEviction \/ StartProbe \/ ProbeEnds \/ ProbeFails \/ StopBegins \/ StopAgents
  <2>1. coming' = coming /\ \A s \in Requests : pc'[s] \in {pc[s], "failed"}
    BY <1>5 DEF Crash, IdleEviction, StartProbe, ProbeEnds, ProbeFails, StopBegins, StopAgents, TornDown,
       TornDownIfAny, PcWithout, turnVars, requestVars
  <2> QED BY <1>1, <2>1 DEF NoneDropped
<1> QED BY <1>2, <1>3, <1>4, <1>5 DEF Begins
-----------------------------------------------------------------------------
(* The inductive invariant of the tells. *)

TellInv ==
  /\ PoolInv /\ Types /\ Slots /\ Drained /\ Addressed
  /\ Without({"refusal"}) => OnePlace
  /\ Orderly => OwnTurns /\ LoneTurns /\ AcksAreTaken

\* The disturbances that have not happened yet had not happened before.
LEMMA WithoutBefore ==
  ASSUME Types, [Next]_vars
  PROVE  (Without({"refusal"})' => Without({"refusal"})) /\ (Orderly' => Orderly)
<1>1. \A d \in Disturbances : used'[d] = 0 /\ used'[d] >= used[d] => used[d] = 0
  BY DEF Types, TellTypes
<1>2. {"local", "long", "refusal", "retry"} \subseteq Disturbances
  BY DEF Disturbances
<1>3. \A d \in {"local", "long", "refusal", "retry"} : used'[d] = 0 => used[d] = 0
  BY <1>1, <1>2, UsedGrows
<1> QED BY <1>3 DEF Orderly, Without

\* The steps of a request keep the invariant.
LEMMA TellInvRequest ==
  ASSUME TellInv, [Next]_vars, NEW r \in Requests,
         \/ Arrive(r) \/ ArriveToReplace(r) \/ Continuation(r) \/ Detach(r)
         \/ PromptTimesOut(r) \/ FollowUpTimesOut(r) \/ SettleTimesOut(r)
  PROVE  TellInv'
<1> USE DEF TellInv
<1>1. PoolInv' /\ Slots' /\ Drained'
  BY RequestKeeps, SlotsRequest, DrainedRequest
<1>2. Types'
  BY ArrivalTypes, SlotStepTypes DEF Continuation, Slots
<1>3. \A s \in Requests : GoesOn(s)
  BY GoesOnRequest
<1>4. Addressed'
  BY <1>2, <1>3, CarriedRequest, TellsGoOn
<1>5. ASSUME Without({"refusal"})' PROVE OnePlace'
  <2>1. ~PromptTimesOut(r) /\ ~FollowUpTimesOut(r)
    BY <1>5 DEF PromptTimesOut, FollowUpTimesOut, Spend, Without, Types, TellTypes, Disturbances
  <2> QED BY <1>3, <1>5, <2>1, WithoutBefore, OnePlaceRequest
<1>6. Orderly' => OwnTurns'
  BY WithoutBefore, OwnTurnsRequest
<1>7. Orderly' => LoneTurns'
  BY WithoutBefore, LoneRequest
<1>8. ASSUME Orderly' PROVE AcksAreTaken'
  <2>1. NoneDropped /\ \A s \in Requests : pc'[s] # "following"
    BY <1>8, WithoutBefore, NoneDroppedRequest
  <2>2. Carried
    BY CarriedRequest
  <2> QED BY <1>2, <1>3, <1>8, <2>1, <2>2, WithoutBefore, AcksGoOn
<1> QED BY <1>1, <1>2, <1>4, <1>5, <1>6, <1>7, <1>8

\* The lines the gateway reads keep it.
LEMMA TellInvRead ==
  ASSUME TellInv, [Next]_vars, NEW a \in Agents, ReadCompleted(a) \/ ReadSuccess(a) \/ ReadError(a)
  PROVE  TellInv'
<1> USE DEF TellInv
<1>1. PoolInv' /\ Slots' /\ Drained'
  BY AgentKeeps, SlotsRead, DrainedAgent DEF Pipe
<1>2. Types'
  BY ReadTypes DEF Slots
<1>3. \A s \in Requests : GoesOn(s)
  BY GoesOnRead
<1>4. Addressed'
  BY <1>2, <1>3, CarriedRead, TellsGoOn
<1>5. Without({"refusal"})' => OnePlace'
  BY <1>3, WithoutBefore, OnePlaceRead
<1>6. Orderly' => OwnTurns'
  BY WithoutBefore, OwnTurnsRead
<1>7. Orderly' => LoneTurns'
  BY WithoutBefore, LoneRead
<1>8. ASSUME Orderly' PROVE AcksAreTaken'
  <2>1. NoneDropped /\ \A s \in Requests : pc'[s] # "following"
    BY <1>8, WithoutBefore, NoneDroppedRead
  <2>2. Carried
    BY CarriedRead
  <2> QED BY <1>2, <1>3, <1>8, <2>1, <2>2, WithoutBefore, AcksGoOn
<1> QED BY <1>1, <1>2, <1>4, <1>5, <1>6, <1>7, <1>8

\* The agents and their processes keep it.
LEMMA TellInvAgent ==
  ASSUME TellInv, [Next]_vars, NEW a \in Agents,
         \/ AgentReads(a) \/ Begins(a) \/ TurnEnds(a) \/ TurnFails(a) \/ LocalTurn(a)
         \/ SpawnSucceeds(a) \/ SpawnFails(a) \/ Stopped(a)
  PROVE  TellInv'
<1> USE DEF TellInv
<1>1. PoolInv' /\ Drained'
  <2>1. PoolInv'
    BY AgentKeeps DEF Pipe, Process, AgentReads, Begins
  <2>2. Drained'
    BY DrainedAgent
  <2> QED BY <2>1, <2>2
<1>2. Types' /\ Slots'
  BY AgentStepTypes, SlotsElsewhere, SlotsProcess
<1>3. \A s \in Requests : GoesOn(s)
  BY GoesOnElsewhere
<1>4. Addressed'
  BY <1>2, <1>3, CarriedElsewhere, TellsGoOn
<1>5. Without({"refusal"})' => OnePlace'
  BY <1>3, WithoutBefore, OnePlaceElsewhere
<1>6. Orderly' => OwnTurns'
  BY WithoutBefore, OwnTurnsAgent, OwnTurnsProcess
<1>7. Orderly' => LoneTurns'
  BY WithoutBefore, LoneAgent
<1>8. ASSUME Orderly' PROVE AcksAreTaken'
  <2>1. NoneDropped /\ \A s \in Requests : pc'[s] # "following"
    BY <1>8, WithoutBefore, NoneDroppedElsewhere
  <2>2. Carried
    BY CarriedElsewhere
  <2> QED BY <1>2, <1>3, <1>8, <2>1, <2>2, WithoutBefore, AcksGoOn
<1> QED BY <1>1, <1>2, <1>4, <1>5, <1>6, <1>7, <1>8

\* Timers, crashes and teardowns keep it.
LEMMA TellInvGateway ==
  ASSUME TellInv, [Next]_vars,
         Crash \/ IdleEviction \/ StartProbe \/ ProbeEnds \/ ProbeFails \/ StopBegins \/ StopAgents
  PROVE  TellInv'
<1> USE DEF TellInv
<1>1. PoolInv' /\ Drained' /\ Types' /\ Slots'
  BY GatewayKeeps, DrainedGateway, GatewayStepTypes, SlotsElsewhere
<1>2. \A s \in Requests : GoesOn(s)
  BY GoesOnElsewhere
<1>3. Addressed'
  BY <1>1, <1>2, CarriedElsewhere, TellsGoOn
<1>4. Without({"refusal"})' => OnePlace'
  BY <1>2, WithoutBefore, OnePlaceElsewhere
<1>5. Orderly' => OwnTurns'
  BY WithoutBefore, OwnTurnsGateway
<1>6. Orderly' => LoneTurns'
  BY WithoutBefore, LoneGateway
<1>7. ASSUME Orderly' PROVE AcksAreTaken'
  <2>1. NoneDropped /\ \A s \in Requests : pc'[s] # "following"
    BY <1>7, WithoutBefore, NoneDroppedElsewhere
  <2>2. Carried
    BY CarriedElsewhere
  <2> QED BY <1>1, <1>2, <1>7, <2>1, <2>2, WithoutBefore, AcksGoOn
<1> QED BY <1>1, <1>3, <1>4, <1>5, <1>6, <1>7

\* A step of nothing the model has keeps it.
LEMMA TellInvStutter == ASSUME TellInv, UNCHANGED vars PROVE TellInv'
<1> USE DEF TellInv, vars, poolVars, agentVars, turnVars, pipes, requestVars, ghosts
<1>1. PoolInv' /\ Slots'
  BY PoolInvIfUnchanged, SlotsFramed DEF core, slotVars
<1>2. Types' /\ Drained'
  BY DEF Types, GatewayTypes, SlotTypes, AgentTypes, TellTypes, Drained
<1>3. Addressed'
  BY DEF Addressed, Told, In
<1>4. Without({"refusal"})' => OnePlace'
  BY DEF Without, OnePlace, CommandWaits, AnswerWaits, ComingWaits, OneCommand, OneAnswer,
     TakenOnce, Told, In
<1>5. ASSUME Orderly' PROVE OwnTurns' /\ LoneTurns' /\ AcksAreTaken'
  <2>1. OwnTurns /\ LoneTurns /\ AcksAreTaken
    BY <1>5 DEF Orderly, Without
  <2>2. OwnTurns' /\ LoneTurns'
    BY <2>1, OwnTurnsFramed, LoneFramed
  <2>3. AcksAreTaken'
    BY <2>1 DEF AcksAreTaken, In
  <2> QED BY <2>2, <2>3
<1> QED BY <1>1, <1>2, <1>3, <1>4, <1>5

\* Every step keeps it.
LEMMA TellInvKept == TellInv /\ [Next]_vars => TellInv'
<1> SUFFICES ASSUME TellInv, [Next]_vars PROVE TellInv'
  OBVIOUS
<1>1. CASE UNCHANGED vars
  BY <1>1, TellInvStutter
<1>2. CASE Next
  <2>1. CASE \E r \in Requests : \/ Arrive(r) \/ ArriveToReplace(r) \/ Continuation(r) \/ Detach(r)
                                 \/ PromptTimesOut(r) \/ FollowUpTimesOut(r) \/ SettleTimesOut(r)
    BY <2>1, TellInvRequest
  <2>2. CASE \E a \in Agents : ReadCompleted(a) \/ ReadSuccess(a) \/ ReadError(a)
    BY <2>2, TellInvRead
  <2>3. CASE \E a \in Agents :
               \/ AgentReads(a) \/ Begins(a) \/ TurnEnds(a) \/ TurnFails(a) \/ LocalTurn(a)
               \/ SpawnSucceeds(a) \/ SpawnFails(a) \/ Stopped(a)
    BY <2>3, TellInvAgent
  <2>4. CASE Crash \/ IdleEviction \/ StartProbe \/ ProbeEnds \/ ProbeFails \/ StopBegins \/ StopAgents
    BY <2>4, TellInvGateway
  <2> QED BY <1>2, <2>1, <2>2, <2>3, <2>4 DEF Next, Pipe, Process, AgentReads, Begins
<1> QED BY <1>1, <1>2

\* It holds when the gateway starts.
LEMMA TellInvInitially == Init => TellInv
<1> SUFFICES ASSUME Init PROVE TellInv
  OBVIOUS
<1> USE PoolAssumption DEF Init
<1>1. <<>> \in Seq(Requests) /\ <<>> \in Seq(Commands) /\ <<>> \in Seq(Lines)
  OBVIOUS
<1>2. GatewayTypes /\ SlotTypes
  BY <1>1 DEF GatewayTypes, SlotTypes, Stages, Places
<1>3. AgentTypes /\ TellTypes
  BY <1>1 DEF AgentTypes, TellTypes
<1>4. Slots
  <2>1. Placed /\ OneSlotted /\ GrantedAlone /\ QueueWaits
    BY InSeq, <1>1 DEF Placed, OneSlotted, Slotted, Prompted, GrantedAlone, QueueWaits
  <2>2. BusyIsOwned
    BY DEF BusyIsOwned, Owners, Prompted
  <2> QED BY <2>1, <2>2 DEF Slots
<1>5. Drained /\ Addressed /\ AcksAreTaken
  BY NotInEmpty DEF Drained, Addressed, AcksAreTaken
<1>6. OnePlace
  BY NotInEmpty, InSeq, <1>1 DEF OnePlace, CommandWaits, AnswerWaits, ComingWaits,
     OneCommand, OneAnswer, TakenOnce
<1>7. OwnTurns /\ LoneTurns
  BY DEF OwnTurns, HeardOwn, LoneTurns
<1> QED BY <1>2, <1>3, <1>4, <1>5, <1>6, <1>7, PoolInvInitially DEF TellInv, Types

\* The variables hold what they are declared to, whatever happens.
THEOREM PoolTypeOK == Spec => []TypeOK
<1>1. TellInv => TypeOK
  BY DEF TellInv, Types, GatewayTypes, SlotTypes, AgentTypes, TellTypes, TypeOK, Stages
<1> QED BY <1>1, TellInvInitially, TellInvKept, PTL DEF Spec

\* For any number of tells, with refusals, timeouts and crashes: one of them at a
\* time owns an agent's turn slot, and the slot of the agent in the pool is busy
\* exactly as long as somebody owns it (handleTell, releaseTurnSlot).
THEOREM OneTellOwnsTheSlot == Spec => []SlotExclusive
<1>1. ASSUME TellInv, NEW a \in Agents PROVE Cardinality(Owners(a)) <= 1
  <2>1. \A r, s \in Owners(a) : r = s
    BY <1>1 DEF TellInv, Slots, OneSlotted, Slotted, Owners
  <2>2. CASE Owners(a) = {}
    BY <2>2, FS_EmptySet
  <2>3. ASSUME NEW r \in Owners(a) PROVE Cardinality(Owners(a)) <= 1
    <3>1. Owners(a) = {r}
      BY <2>1
    <3> QED BY <3>1, FS_Singleton
  <2> QED BY <2>2, <2>3
<1>2. TellInv => SlotExclusive
  BY <1>1 DEF TellInv, Slots, BusyIsOwned, SlotExclusive
<1> QED BY <1>2, TellInvInitially, TellInvKept, PTL DEF Spec

\* With the turns of the tells only, and none given up or retried: a tell is
\* acknowledged, or owns a turn that settles, when an agent took its message or is
\* about to, though the agent acknowledges a prompt before it begins the turn, and
\* whoever crashes, is replaced or evicted.  No other prompt can come in between.
THEOREM AcknowledgedIsTaken == Spec => []AckMeansTaken
<1>1. TellInv => AckMeansTaken
  BY DEF TellInv, AcksAreTaken, Orderly, AckMeansTaken
<1> QED BY <1>1, TellInvInitially, TellInvKept, PTL DEF Spec

\* As long as the gateway gives no prompt up unanswered, no message is handed to
\* an agent twice: not by the follow-up after a refusal, nor across teardowns.
THEOREM DeliveredAtMostOnce == Spec => []DeliveredOnce
<1>1. TellInv => DeliveredOnce
  BY DEF TellInv, OnePlace, TakenOnce, DeliveredOnce
<1> QED BY <1>1, TellInvInitially, TellInvKept, PTL DEF Spec

\* With the turns of the tells only, and none given up or retried, each tell
\* hears the end of its own turn, however many share the agent and whoever
\* crashes, is replaced or evicted (waitForIdle hears any turn's end).
THEOREM EachHearsItsOwn == Spec => []RelayIsOwn
<1>1. TellInv => RelayIsOwn
  BY DEF TellInv, OwnTurns, HeardOwn, Orderly, RelayIsOwn
<1> QED BY <1>1, TellInvInitially, TellInvKept, PTL DEF Spec
=============================================================================
