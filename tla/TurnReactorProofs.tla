------------------------- MODULE TurnReactorProofs -------------------------
(***************************************************************************)
(* TurnReactor is type correct, never runs two turns at once, and its      *)
(* turnInFlight flag covers every turn there is; its loop detector stops a *)
(* turn for rounds of its own only, and a retry timer is never left to an  *)
(* aborted signal or to a stopped reactor: for any number of messages,     *)
(* tools, signatures, aborts, compactions and queue edits, and whether or  *)
(* not callers act from microtasks.                                        *)
(*                                                                         *)
(* OneTurnAtATime is not inductive: a handler trusts the event it is       *)
(* given, so the argument needs what the call stack promises (StackOK):    *)
(* the next event of a turn names a turn that is being dispatched, and a   *)
(* completion that names no turn is emitted only when none is left.  The   *)
(* detector (LoopInv) and the timers (RetryInv) rest on it: what a turn    *)
(* resets when it starts belongs to nobody else.                           *)
(***************************************************************************)
EXTENDS TurnReactor, FiniteSetTheorems, SequenceTheorems, TLAPS

TurnEvents == {"AGENT_TURN_REQUESTED", "LLM_CALL_REQUESTED", "AGENT_MESSAGE_END",
               "LLM_CALL_FAILED", "TOOL_RESULTS_AGGREGATED"}

\* What the event on the call stack promises its handler.
StackOK ==
  /\ event.type = "USER_MESSAGE" => event.msg \in Msgs
  /\ event.type = "USER_FOLLOWUP_QUEUED" => event.msg \in Msgs /\ event.arg \in Forms
  /\ event.type \in TurnEvents => event.msg \in Msgs /\ stage[event.msg] = "dispatch"
  /\ event.type = "AGENT_TURN_COMPLETED" =>
       \/ event.msg \in Msgs /\ stage[event.msg] = "dispatch"
       \/ event.msg = NoMsg /\ event.arg = "aborted" /\ \A m \in Msgs : ~Active(m)
  /\ event.type = "TOOL_EXECUTION_END" =>
       event.msg \in Msgs /\ event.tool \in Tools /\ stage[event.msg] = "tools"

\* Only a turn that waits for tool results has tool calls.
ToolsOK == \A m \in Msgs : \A t \in Tools : tool[m][t] # "none" => stage[m] = "tools"

\* A prompt() in progress has a message; a settled check outlives none.
PromptOK == (phase # "idle" => cur \in Msgs) /\ (check => phase = "settling")

IInv == TypeOK /\ StackOK /\ ToolsOK /\ PromptOK /\ OneTurnAtATime /\ InFlightCoversTurn

\* Past its hook, a turn has had at least the rounds that the detector counts.
StreakIsOwn ==
  \A m \in Msgs :
    stage[m] \in {"dispatch", "llm", "stray", "tools", "retry"} => streak <= rounds[m]

LoopInv == StreakIsOwn /\ LoopDetectedForOwnRounds

Replies == {"AGENT_MESSAGE_END", "LLM_CALL_FAILED"}
Failed == event.type = "AGENT_TURN_COMPLETED" /\ event.arg = "error"

\* A timer is set only while the signal is not aborted; an abort clears the timers
\* before it aborts the signal; no retry is scheduled between the two.
TimersOK   == Retrying # {} => Live /\ ~aborted
RepliesOK  == (event.type \in Replies \/ Failed) => after = "none"
FailedOK   == Failed => ~aborted
AbortingOK == after = "interrupt" /\ event.type # "USER_INTERRUPT" => Retrying = {}
LiveOK     == (event # NoEvent => Live) /\ (compacting => Live)
IntentsOK  == Intents # {} => Live
RetryInv   == TimersOK /\ RepliesOK /\ FailedOK /\ AbortingOK /\ LiveOK
-----------------------------------------------------------------------------
(* Events and queues *)

\* Every event constructor builds an event.
LEMMA EventTypeLemma ==
  /\ NoEvent \in Event
  /\ \A type \in EventTypes, m \in Msgs \cup {NoMsg} : Ev(type, m) \in Event
  /\ \A m \in Msgs \cup {NoMsg}, reason \in Reasons : Completed(m, reason) \in Event
  /\ \A m \in Msgs, form \in Forms : Queued(m, form) \in Event
  /\ \A m \in Msgs, t \in Tools : ToolEnd(m, t) \in Event
BY DEF NoEvent, Event, EventTypes, Ev, Completed, Queued, ToolEnd, Reasons, Forms

\* Removing an entry, as TurnState.removeFollowUp does, leaves a queue.
LEMMA WithoutType ==
  ASSUME NEW q \in Seq(Entry), NEW i \in DOMAIN q
  PROVE  Without(q, i) \in Seq(Entry)
<1>1. i \in 1 .. Len(q) /\ Len(q) \in Nat
  BY LenProperties
<1>2. SubSeq(q, 1, i - 1) \in Seq(Entry)
  BY <1>1, SubSeqProperties
<1>3. SubSeq(q, i + 1, Len(q)) \in Seq(Entry)
  BY <1>1, SubSeqProperties
<1>4. QED
  BY <1>2, <1>3, ConcatProperties DEF Without

\* A cancelled or steered entry leaves a queue behind and is on the record.
LEMMA TakeType ==
  ASSUME TypeOK, NEW i \in DOMAIN queue, Take(i)
  PROVE  queue' \in Seq(Entry) /\ dropped' \subseteq Entry
<1>1. queue \in Seq(Entry) /\ dropped \subseteq Entry
  BY DEF TypeOK, QueueType
<1>2. queue[i] \in Entry
  BY <1>1, ElementOfSeq, LenProperties
<1>3. QED
  BY <1>1, <1>2, WithoutType DEF Take

\* The replay of the log queues entries of the log.
LEMMA ReplayType ==
  ASSUME NEW log \in Seq(Entry), NEW q \in Seq(Entry), NEW S \in SUBSET (DOMAIN log),
         NEW f \in [1 .. Cardinality(S) -> S]
  PROVE  q \o [k \in 1 .. Cardinality(S) |-> log[f[k]]] \in Seq(Entry)
<1>1. IsFiniteSet(S)
  <2>1. DOMAIN log = 1 .. Len(log) /\ Len(log) \in Nat
    BY LenProperties
  <2>2. IsFiniteSet(1 .. Len(log))
    BY <2>1, FS_Interval
  <2>3. QED
    BY <2>1, <2>2, FS_Subset
<1>2. Cardinality(S) \in Nat
  BY <1>1, FS_CardinalityType
<1>3. \A k \in 1 .. Cardinality(S) : log[f[k]] \in Entry
  BY ElementOfSeq, LenProperties
<1>4. [k \in 1 .. Cardinality(S) |-> log[f[k]]] \in Seq(Entry)
  BY <1>2, <1>3
<1>5. QED
  BY <1>4, ConcatProperties

\* A message the user enters is one of Msgs.
LEMMA NewMsgType ==
  ASSUME TypeOK, NewMsg
  PROVE  nextMsg \in Msgs /\ nextMsg' \in 1 .. MaxMsgs + 1
BY ReactorAssumption DEF TypeOK, EnvType, NewMsg, Msgs

\* Whatever head of a queue is delivered, every variable keeps its type.
LEMMA DeliverType ==
  ASSUME TypeOK, NEW q \in Seq(Entry), q # <<>>, NEW st \in [Msgs -> Stages],
         DeliverFrom(q, st)
  PROVE  /\ event' \in Event /\ aborted' \in BOOLEAN /\ turnInFlight' \in BOOLEAN
         /\ queue' \in Seq(Entry) /\ consumed' \subseteq Msgs
         /\ starts' \in [Msgs -> Nat] /\ LoopType' /\ TurnType'
<1>1. Head(q) \in Entry /\ Tail(q) \in Seq(Entry)
  BY HeadTailProperties
<1>2. Head(q).msg \in Msgs /\ Head(q).form \in Forms
  BY <1>1 DEF Entry
<1>3. aborted' \in BOOLEAN /\ turnInFlight' \in BOOLEAN
  BY Zenon DEF DeliverFrom
<1>4. queue' \in Seq(Entry)
  BY <1>1 DEF DeliverFrom
<1>5. CASE Head(q).form = "raw"
  <2>1. event' \in Event
    BY <1>2, <1>5, EventTypeLemma DEF DeliverFrom, EventTypes
  <2>2. consumed' \subseteq Msgs /\ starts' \in [Msgs -> Nat]
    BY <1>2, <1>5 DEF DeliverFrom, TypeOK, QueueType
  <2>3. LoopType'
    BY <1>5, ReactorAssumption DEF DeliverFrom, LoopType, ResetLoop
  <2>4. stage' \in [Msgs -> Stages] /\ tool' = tool
    BY <1>2, <1>5 DEF DeliverFrom, Stages
  <2>5. attempt' \in [Msgs -> 0 .. MaxAttempts] /\ rounds' \in [Msgs -> 0 .. LoopLimit]
    <3>1. 0 \in 0 .. MaxAttempts /\ 0 \in 0 .. LoopLimit
      BY ReactorAssumption
    <3>2. QED
      BY <1>2, <1>5, <3>1 DEF DeliverFrom, TypeOK, TurnType
  <2>6. QED
    BY <1>3, <1>4, <2>1, <2>2, <2>3, <2>4, <2>5 DEF TypeOK, TurnType
<1>6. CASE Head(q).form # "raw"
  <2>1. event' \in Event
    BY <1>2, <1>6, EventTypeLemma DEF DeliverFrom, EventTypes
  <2>2. consumed' \subseteq Msgs /\ starts' \in [Msgs -> Nat]
    BY <1>2, <1>6 DEF DeliverFrom, TypeOK, QueueType
  <2>3. LoopType' /\ TurnType'
    BY <1>2, <1>6 DEF DeliverFrom, TypeOK, LoopType, TurnType
  <2>4. QED
    BY <1>3, <1>4, <2>1, <2>2, <2>3
<1>7. QED
  BY <1>5, <1>6

\* Delivered when no turn is left, the head of the queue starts at most one.
LEMMA DeliverStartsOneTurn ==
  ASSUME TypeOK, ToolsOK, NEW q \in Seq(Entry), q # <<>>, NEW st \in [Msgs -> Stages],
         \A m \in Msgs : stage[m] # "tools" /\ st[m] \in {"none", "done"},
         DeliverFrom(q, st)
  PROVE  StackOK' /\ ToolsOK' /\ OneTurnAtATime' /\ InFlightCoversTurn'
<1>1. Head(q) \in Entry
  BY HeadTailProperties
<1>2. Head(q).msg \in Msgs /\ Head(q).form \in Forms
  BY <1>1 DEF Entry
<1>3. ToolsOK'
  BY DEF ToolsOK, DeliverFrom
<1>4. CASE Head(q).form = "raw"
  <2>1. /\ event' = Ev("AGENT_TURN_REQUESTED", Head(q).msg) /\ turnInFlight' = TRUE
        /\ stage' = [st EXCEPT ![Head(q).msg] = "dispatch"]
    BY <1>4 DEF DeliverFrom
  <2>2. StackOK'
    BY <1>2, <2>1 DEF StackOK, TurnEvents, Ev
  <2>3. OneTurnAtATime' /\ InFlightCoversTurn'
    BY <1>2, <2>1 DEF OneTurnAtATime, InFlightCoversTurn, Active
  <2>4. QED
    BY <1>3, <2>2, <2>3
<1>5. CASE Head(q).form # "raw"
  <2>1. event' = Ev("USER_MESSAGE", Head(q).msg) /\ stage' = st
    BY <1>5 DEF DeliverFrom
  <2>2. StackOK'
    BY <1>2, <2>1 DEF StackOK, TurnEvents, Ev
  <2>3. OneTurnAtATime' /\ InFlightCoversTurn'
    BY <2>1 DEF OneTurnAtATime, InFlightCoversTurn, Active
  <2>4. QED
    BY <1>3, <2>2, <2>3
<1>6. QED
  BY <1>4, <1>5
-----------------------------------------------------------------------------
(* Handlers *)

\* _onUserMessage starts a turn only when CanDeliver holds, so when none exists.
LEMMA OnUserMessagePreserves ==
  ASSUME IInv, OnUserMessage
  PROVE  IInv'
<1> DEFINE m == event.msg
<1>1. m \in Msgs
  BY DEF IInv, StackOK, OnUserMessage
<1>2. PromptType' /\ EnvType' /\ PromptOK' /\ UNCHANGED <<after, aborted, tool>>
  BY DEF IInv, TypeOK, PromptType, EnvType, PromptOK, OnUserMessage, promptVars,
     envVars, turnVars
<1>3. abortedByUser' \in BOOLEAN /\ compacting' \in BOOLEAN /\ aborted' \in BOOLEAN
  BY DEF IInv, TypeOK, FlagType, OnUserMessage
<1>4. MarkType'
  BY DEF IInv, TypeOK, MarkType, OnUserMessage
<1>5. CASE aborted
  <2>1. event' = NoEvent /\ UNCHANGED <<turnInFlight, loopVars, turnVars, queueVars>>
    BY <1>5 DEF OnUserMessage, queueVars
  <2>2. StackType' /\ FlagType' /\ LoopType' /\ TurnType' /\ QueueType'
    BY <1>2, <1>3, <2>1, EventTypeLemma DEF IInv, TypeOK, StackType, FlagType, LoopType,
       TurnType, QueueType, loopVars, turnVars, queueVars
  <2>3. StackOK' /\ ToolsOK' /\ OneTurnAtATime' /\ InFlightCoversTurn'
    BY <2>1 DEF IInv, StackOK, TurnEvents, NoEvent, ToolsOK, OneTurnAtATime,
       InFlightCoversTurn, Active, turnVars
  <2>4. QED
    BY <1>2, <1>4, <2>2, <2>3 DEF IInv, TypeOK
<1>6. CASE ~aborted /\ ~CanDeliver
  <2>1. /\ event' = Queued(m, "raw") /\ qlog' = Append(qlog, [msg |-> m, form |-> "raw"])
        /\ UNCHANGED <<turnInFlight, loopVars, turnVars, queue, consumed, dropped, starts>>
    BY <1>6 DEF OnUserMessage
  <2>2. [msg |-> m, form |-> "raw"] \in Entry
    BY <1>1 DEF Entry, Forms
  <2>3. QueueType'
    BY <2>1, <2>2 DEF IInv, TypeOK, QueueType
  <2>4. StackType' /\ FlagType' /\ LoopType' /\ TurnType'
    BY <1>1, <1>2, <1>3, <2>1, EventTypeLemma DEF IInv, TypeOK, StackType, FlagType,
       LoopType, TurnType, loopVars, turnVars, Forms
  <2>5. StackOK' /\ ToolsOK' /\ OneTurnAtATime' /\ InFlightCoversTurn'
    BY <1>1, <2>1 DEF IInv, StackOK, TurnEvents, Queued, Forms, ToolsOK,
       OneTurnAtATime, InFlightCoversTurn, Active, turnVars
  <2>6. QED
    BY <1>2, <1>4, <2>3, <2>4, <2>5 DEF IInv, TypeOK
<1>7. CASE ~aborted /\ CanDeliver
  <2>1. \A n \in Msgs : ~Active(n)
    BY <1>7 DEF IInv, InFlightCoversTurn, CanDeliver
  <2>2. /\ turnInFlight' = TRUE /\ starts' = [starts EXCEPT ![m] = @ + 1]
        /\ attempt' = [attempt EXCEPT ![m] = 0] /\ rounds' = [rounds EXCEPT ![m] = 0]
        /\ \/ /\ event' = NoEvent /\ UNCHANGED loopVars
              /\ stage' = [stage EXCEPT ![m] = "hook"]
           \/ /\ event' = Ev("AGENT_TURN_REQUESTED", m) /\ ResetLoop
              /\ stage' = [stage EXCEPT ![m] = "dispatch"]
        /\ UNCHANGED <<queue, qlog, consumed, dropped>>
    BY <1>7 DEF OnUserMessage
  <2>3. LoopType'
    BY <2>2, ReactorAssumption DEF IInv, TypeOK, LoopType, ResetLoop, loopVars
  <2>4. StackType' /\ FlagType'
    BY <1>1, <1>2, <1>3, <2>2, EventTypeLemma DEF IInv, TypeOK, StackType, FlagType, EventTypes
  <2>5. TurnType' /\ QueueType'
    <3>1. 0 \in 0 .. MaxAttempts /\ 0 \in 0 .. LoopLimit
      BY ReactorAssumption
    <3>2. TurnType'
      BY <1>1, <1>2, <2>2, <3>1 DEF IInv, TypeOK, TurnType, Stages
    <3>3. QueueType'
      BY <1>1, <2>2 DEF IInv, TypeOK, QueueType
    <3>4. QED
      BY <3>2, <3>3
  <2>6. StackOK'
    BY <1>1, <2>2 DEF IInv, TypeOK, TurnType, StackOK, TurnEvents, NoEvent, Ev
  <2>7. ToolsOK' /\ OneTurnAtATime' /\ InFlightCoversTurn'
    BY <1>1, <1>2, <2>1, <2>2 DEF IInv, TypeOK, TurnType, ToolsOK, OneTurnAtATime,
       InFlightCoversTurn, Active
  <2>8. QED
    BY <1>2, <1>4, <2>3, <2>4, <2>5, <2>6, <2>7 DEF IInv, TypeOK
<1>8. QED
  BY <1>5, <1>6, <1>7

\* _onUserInterrupt either delivers at once, when no turn exists, or ends the
\* retrying turn and reports a completion that names none.
LEMMA OnUserInterruptPreserves ==
  ASSUME IInv, OnUserInterrupt
  PROVE  IInv'
<1> DEFINE m == event.msg
           pushed == IF m # NoMsg
                     THEN Append(queue, [msg |-> m, form |-> "steer"]) ELSE queue
<1>1. m \in Msgs \cup {NoMsg}
  BY DEF IInv, TypeOK, StackType, Event
<1>2. PromptType' /\ MarkType' /\ EnvType' /\ PromptOK' /\ UNCHANGED <<after, compacting, qlog, dropped>>
  BY DEF IInv, TypeOK, PromptType, MarkType, EnvType, PromptOK, OnUserInterrupt,
     promptVars, markVars, envVars
<1>3. pushed \in Seq(Entry)
  <2>1. m # NoMsg => [msg |-> m, form |-> "steer"] \in Entry
    BY <1>1 DEF Entry, Forms
  <2>2. QED
    BY <2>1 DEF IInv, TypeOK, QueueType
<1>4. CASE m # NoMsg /\ CanDeliver
  <2>1. DeliverFrom(pushed, stage) /\ UNCHANGED abortedByUser
    BY <1>4 DEF OnUserInterrupt
  <2>2. \A n \in Msgs : ~Active(n)
    BY <1>4 DEF IInv, InFlightCoversTurn, CanDeliver
  <2>3. \A n \in Msgs : stage[n] # "tools" /\ stage[n] \in {"none", "done"}
    BY <2>2 DEF IInv, TypeOK, TurnType, Stages, Active
  <2>4. pushed # <<>> /\ stage \in [Msgs -> Stages]
    <3>1. [msg |-> m, form |-> "steer"] \in Entry
      BY <1>1, <1>4 DEF Entry, Forms
    <3>2. Append(queue, [msg |-> m, form |-> "steer"]) # <<>>
      BY <3>1, AppendProperties DEF IInv, TypeOK, QueueType
    <3>3. QED
      BY <1>4, <3>2 DEF IInv, TypeOK, TurnType
  <2>5. StackOK' /\ ToolsOK' /\ OneTurnAtATime' /\ InFlightCoversTurn'
    <3> HIDE DEF pushed
    <3> QED
      BY <1>3, <2>1, <2>3, <2>4, DeliverStartsOneTurn DEF IInv
  <2>6. /\ event' \in Event /\ aborted' \in BOOLEAN /\ turnInFlight' \in BOOLEAN
        /\ queue' \in Seq(Entry) /\ consumed' \subseteq Msgs
        /\ starts' \in [Msgs -> Nat] /\ LoopType' /\ TurnType'
    <3> HIDE DEF pushed
    <3> QED
      BY <1>3, <2>1, <2>4, DeliverType DEF IInv
  <2>7. FlagType' /\ QueueType' /\ StackType'
    BY <1>2, <2>1, <2>6 DEF IInv, TypeOK, FlagType, QueueType, StackType
  <2>8. QED
    BY <1>2, <2>5, <2>6, <2>7 DEF IInv, TypeOK
<1>5. CASE ~(m # NoMsg /\ CanDeliver)
  <2>1. /\ aborted' = TRUE /\ abortedByUser' = (abortedByUser \/ ~(m # NoMsg))
        /\ queue' = pushed /\ tool' = DrainedApprovals /\ stage' = ClearRetries
        /\ event' = IF Retrying # {} \/ (m = NoMsg /\ ~turnInFlight)
                    THEN Completed(NoMsg, "aborted") ELSE NoEvent
        /\ UNCHANGED <<turnInFlight, consumed, starts, attempt, rounds, loopVars>>
    BY <1>5 DEF OnUserInterrupt
  <2>2. abortedByUser' \in BOOLEAN
    BY <2>1, Zenon
  <2>3. FlagType' /\ LoopType'
    BY <1>2, <2>1, <2>2 DEF IInv, TypeOK, FlagType, LoopType, loopVars
  <2>4. QueueType'
    BY <1>2, <1>3, <2>1 DEF IInv, TypeOK, QueueType
  <2>5. TurnType'
    BY <2>1 DEF IInv, TypeOK, TurnType, Stages, ToolStates, ClearRetries, DrainedApprovals
  <2>6. StackType'
    BY <1>2, <2>1, EventTypeLemma DEF IInv, TypeOK, StackType, Reasons
  <2>7. ToolsOK' /\ OneTurnAtATime' /\ InFlightCoversTurn'
    BY <2>1 DEF IInv, TypeOK, TurnType, ToolsOK, OneTurnAtATime, InFlightCoversTurn,
       Active, ClearRetries, Retrying, DrainedApprovals
  <2>8. event'.type = "AGENT_TURN_COMPLETED" => \A n \in Msgs : ~Active(n)'
    <3>1. CASE Retrying # {}
      <4>1. PICK r \in Msgs : stage[r] = "retry"
        BY <3>1 DEF Retrying
      <4>2. \A n \in Msgs : Active(n) => n = r
        BY <4>1 DEF IInv, OneTurnAtATime, Active
      <4>3. QED
        BY <2>1, <4>1, <4>2 DEF IInv, TypeOK, TurnType, Active, ClearRetries, Retrying
    <3>2. CASE Retrying = {} /\ ~turnInFlight
      BY <2>1, <3>2 DEF IInv, InFlightCoversTurn, Active, ClearRetries
    <3>3. CASE Retrying = {} /\ turnInFlight
      BY <2>1, <3>3 DEF NoEvent
    <3>4. QED
      BY <3>1, <3>2, <3>3
  <2>9. StackOK'
    BY <2>1, <2>8 DEF StackOK, TurnEvents, Completed, NoEvent
  <2>10. QED
    BY <1>2, <2>3, <2>4, <2>5, <2>6, <2>7, <2>9 DEF IInv, TypeOK
<1>6. QED
  BY <1>4, <1>5

\* _onUserFollowupQueued delivers only when no turn exists.
LEMMA OnUserFollowupQueuedPreserves ==
  ASSUME IInv, OnUserFollowupQueued
  PROVE  IInv'
<1> DEFINE pushed == Append(queue, [msg |-> event.msg, form |-> event.arg])
<1>1. PromptType' /\ MarkType' /\ EnvType' /\ PromptOK'
      /\ UNCHANGED <<after, abortedByUser, compacting, qlog, dropped>>
  BY DEF IInv, TypeOK, PromptType, MarkType, EnvType, PromptOK, OnUserFollowupQueued,
     promptVars, markVars, envVars
<1>2. pushed \in Seq(Entry) /\ pushed # <<>>
  <2>1. [msg |-> event.msg, form |-> event.arg] \in Entry
    BY DEF IInv, StackOK, OnUserFollowupQueued, Entry
  <2>2. QED
    BY <2>1 DEF IInv, TypeOK, QueueType
<1>3. CASE CanDeliver
  <2>1. DeliverFrom(pushed, stage)
    BY <1>3 DEF OnUserFollowupQueued
  <2>2. \A n \in Msgs : ~Active(n)
    BY <1>3 DEF IInv, InFlightCoversTurn, CanDeliver
  <2>3. \A n \in Msgs : stage[n] # "tools" /\ stage[n] \in {"none", "done"}
    BY <2>2 DEF IInv, TypeOK, TurnType, Stages, Active
  <2>4. stage \in [Msgs -> Stages]
    BY DEF IInv, TypeOK, TurnType
  <2> HIDE DEF pushed
  <2>5. StackOK' /\ ToolsOK' /\ OneTurnAtATime' /\ InFlightCoversTurn'
    BY <1>2, <2>1, <2>3, <2>4, DeliverStartsOneTurn DEF IInv
  <2>6. /\ event' \in Event /\ aborted' \in BOOLEAN /\ turnInFlight' \in BOOLEAN
        /\ queue' \in Seq(Entry) /\ consumed' \subseteq Msgs
        /\ starts' \in [Msgs -> Nat] /\ LoopType' /\ TurnType'
    BY <1>2, <2>1, <2>4, DeliverType DEF IInv
  <2>7. FlagType' /\ QueueType' /\ StackType'
    BY <1>1, <2>6 DEF IInv, TypeOK, FlagType, QueueType, StackType
  <2>8. QED
    BY <1>1, <2>5, <2>6, <2>7 DEF IInv, TypeOK
<1>4. CASE ~CanDeliver
  <2>1. /\ queue' = pushed /\ event' = NoEvent
        /\ UNCHANGED <<aborted, turnInFlight, turnVars, consumed, starts, loopVars>>
    BY <1>4 DEF OnUserFollowupQueued
  <2>2. QueueType' /\ StackType'
    BY <1>1, <1>2, <2>1, EventTypeLemma DEF IInv, TypeOK, QueueType, StackType
  <2>3. FlagType' /\ LoopType' /\ TurnType'
    BY <1>1, <2>1 DEF IInv, TypeOK, FlagType, LoopType, TurnType, loopVars, turnVars
  <2>4. StackOK' /\ ToolsOK' /\ OneTurnAtATime' /\ InFlightCoversTurn'
    BY <2>1 DEF IInv, StackOK, TurnEvents, NoEvent, ToolsOK, OneTurnAtATime,
       InFlightCoversTurn, Active, turnVars
  <2>5. QED
    BY <1>1, <2>2, <2>3, <2>4 DEF IInv, TypeOK
<1>5. QED
  BY <1>3, <1>4

\* A step of Reactor._onAgentTurnRequested preserves the invariant.
LEMMA OnAgentTurnRequestedPreserves ==
  ASSUME IInv, OnAgentTurnRequested
  PROVE  IInv'
<1>1. PromptType' /\ FlagType' /\ LoopType' /\ MarkType' /\ EnvType'
  BY ReactorAssumption DEF IInv, TypeOK, PromptType, FlagType, LoopType,
     MarkType, EnvType, OnAgentTurnRequested, promptVars, loopVars, turnVars,
     queueVars, markVars, envVars
<1>2. StackType'
  BY EventTypeLemma DEF IInv, TypeOK, StackType, StackOK, TurnEvents,
     EventTypes, Reasons, OnAgentTurnRequested, promptVars, loopVars, turnVars,
     queueVars, markVars, envVars
<1>3. TurnType' /\ QueueType'
  BY DEF IInv, TypeOK, TurnType, QueueType, StackOK, TurnEvents,
     OnAgentTurnRequested, promptVars, loopVars, turnVars, queueVars, markVars,
     envVars
<1>4. StackOK' /\ ToolsOK'
  BY DEF IInv, StackOK, ToolsOK, TurnEvents, TypeOK, TurnType, Active,
     OneTurnAtATime, InFlightCoversTurn, Ev, Completed, OnAgentTurnRequested,
     promptVars, loopVars, turnVars, queueVars, markVars, envVars
<1>5. PromptOK'
  BY DEF IInv, PromptOK, OnAgentTurnRequested, promptVars, loopVars, turnVars,
     queueVars, markVars, envVars
<1>6. OneTurnAtATime' /\ InFlightCoversTurn'
  BY DEF IInv, OneTurnAtATime, InFlightCoversTurn, Active, StackOK, TurnEvents,
     OnAgentTurnRequested, promptVars, loopVars, turnVars, queueVars, markVars,
     envVars
<1>7. QED
  BY <1>1, <1>2, <1>3, <1>4, <1>5, <1>6 DEF IInv, TypeOK

\* A step of Reactor._onLlmCallRequested preserves the invariant.
LEMMA OnLlmCallRequestedPreserves ==
  ASSUME IInv, OnLlmCallRequested
  PROVE  IInv'
<1>1. PromptType' /\ FlagType' /\ LoopType' /\ MarkType' /\ EnvType'
  BY ReactorAssumption DEF IInv, TypeOK, PromptType, FlagType, LoopType,
     MarkType, EnvType, OnLlmCallRequested, promptVars, flagVars, loopVars,
     queueVars, markVars, envVars
<1>2. StackType'
  BY EventTypeLemma DEF IInv, TypeOK, StackType, StackOK, TurnEvents,
     EventTypes, OnLlmCallRequested, promptVars, flagVars, loopVars, queueVars,
     markVars, envVars
<1>3. TurnType' /\ QueueType'
  BY DEF IInv, TypeOK, TurnType, QueueType, StackOK, TurnEvents, Stages,
     OnLlmCallRequested, promptVars, flagVars, loopVars, queueVars, markVars,
     envVars
<1>4. StackOK' /\ ToolsOK'
  BY DEF IInv, StackOK, ToolsOK, TurnEvents, TypeOK, TurnType, Active,
     OneTurnAtATime, InFlightCoversTurn, NoEvent, OnLlmCallRequested,
     promptVars, flagVars, loopVars, queueVars, markVars, envVars
<1>5. PromptOK'
  BY DEF IInv, PromptOK, OnLlmCallRequested, promptVars, flagVars, loopVars,
     queueVars, markVars, envVars
<1>6. OneTurnAtATime' /\ InFlightCoversTurn'
  BY DEF IInv, OneTurnAtATime, InFlightCoversTurn, Active, TypeOK, TurnType,
     StackOK, TurnEvents, OnLlmCallRequested, promptVars, flagVars, loopVars,
     queueVars, markVars, envVars
<1>7. QED
  BY <1>1, <1>2, <1>3, <1>4, <1>5, <1>6 DEF IInv, TypeOK

\* A step of Reactor._onAgentMessageEnd preserves the invariant.
LEMMA OnAgentMessageEndPreserves ==
  ASSUME IInv, OnAgentMessageEnd
  PROVE  IInv'
<1> DEFINE m == event.msg
<1>1. m \in Msgs /\ stage[m] = "dispatch"
  BY DEF IInv, StackOK, TurnEvents, OnAgentMessageEnd
<1>2. PromptType' /\ FlagType' /\ QueueType' /\ MarkType' /\ EnvType' /\ PromptOK'
      /\ UNCHANGED <<after, attempt, turnInFlight>>
  BY DEF IInv, TypeOK, PromptType, FlagType, QueueType, MarkType, EnvType, PromptOK,
     OnAgentMessageEnd, promptVars, flagVars, queueVars, markVars, envVars
<1>3. CASE /\ \E reason \in Reasons : event' = Completed(m, reason)
           /\ UNCHANGED <<stage, rounds, tool, loopVars>>
  <2>1. StackType' /\ LoopType' /\ TurnType'
    BY <1>1, <1>2, <1>3, EventTypeLemma DEF IInv, TypeOK, StackType, LoopType, TurnType, loopVars
  <2>2. StackOK' /\ ToolsOK' /\ OneTurnAtATime' /\ InFlightCoversTurn'
    BY <1>1, <1>2, <1>3 DEF IInv, StackOK, TurnEvents, Completed, ToolsOK,
       OneTurnAtATime, InFlightCoversTurn, Active
  <2>3. QED
    BY <1>2, <2>1, <2>2 DEF IInv, TypeOK
<1>4. CASE /\ \E calls \in SUBSET Tools, sig \in Sigs :
                /\ tool' = [tool EXCEPT ![m] = [t \in Tools |->
                              IF t \in calls THEN "intent" ELSE "none"]]
                /\ lastSig' = sig /\ streak' = StreakWith(sig)
           /\ stage' = [stage EXCEPT ![m] = "tools"]
           /\ rounds' = [rounds EXCEPT ![m] = IF @ < LoopLimit THEN @ + 1 ELSE @]
           /\ event' = NoEvent
  <2>1. PICK calls \in SUBSET Tools, sig \in Sigs :
           /\ tool' = [tool EXCEPT ![m] = [t \in Tools |->
                         IF t \in calls THEN "intent" ELSE "none"]]
           /\ lastSig' = sig /\ streak' = StreakWith(sig)
    BY <1>4
  <2>2. LoopType'
    BY <2>1, ReactorAssumption DEF IInv, TypeOK, LoopType, StreakWith
  <2>3. tool' \in [Msgs -> [Tools -> ToolStates]]
    <3>1. [t \in Tools |-> IF t \in calls THEN "intent" ELSE "none"] \in [Tools -> ToolStates]
      BY DEF ToolStates
    <3>2. QED
      BY <2>1, <3>1 DEF IInv, TypeOK, TurnType
  <2>4. stage' \in [Msgs -> Stages] /\ rounds' \in [Msgs -> 0 .. LoopLimit]
    BY <1>1, <1>4, ReactorAssumption DEF IInv, TypeOK, TurnType, Stages
  <2>5. StackType'
    BY <1>2, <1>4, EventTypeLemma DEF IInv, TypeOK, StackType
  <2>6. TurnType'
    BY <1>2, <2>3, <2>4 DEF IInv, TypeOK, TurnType
  <2>7. StackOK' /\ OneTurnAtATime' /\ InFlightCoversTurn'
    BY <1>1, <1>2, <1>4 DEF IInv, TypeOK, TurnType, StackOK, TurnEvents, NoEvent,
       OneTurnAtATime, InFlightCoversTurn, Active
  <2>8. ToolsOK'
    BY <1>1, <1>4, <2>1 DEF IInv, TypeOK, TurnType, ToolsOK
  <2>9. QED
    BY <1>2, <2>2, <2>5, <2>6, <2>7, <2>8 DEF IInv, TypeOK
<1>5. QED
  BY <1>3, <1>4 DEF OnAgentMessageEnd, Reasons

\* A step of Reactor._onIntentToolCall preserves the invariant.
LEMMA OnIntentToolCallPreserves ==
  ASSUME IInv, OnIntentToolCall
  PROVE  IInv'
<1>1. PromptType' /\ FlagType' /\ LoopType' /\ MarkType' /\ EnvType'
  BY ReactorAssumption DEF IInv, TypeOK, PromptType, FlagType, LoopType,
     MarkType, EnvType, OnIntentToolCall, Intents, promptVars, flagVars,
     loopVars, queueVars, markVars, envVars
<1>2. StackType'
  BY EventTypeLemma DEF IInv, TypeOK, StackType, EventTypes, OnIntentToolCall,
     Intents, promptVars, flagVars, loopVars, queueVars, markVars, envVars
<1>3. TurnType' /\ QueueType'
  BY DEF IInv, TypeOK, TurnType, QueueType, ToolStates, OnIntentToolCall,
     Intents, promptVars, flagVars, loopVars, queueVars, markVars, envVars
<1>4. StackOK' /\ ToolsOK'
  BY DEF IInv, StackOK, ToolsOK, TurnEvents, TypeOK, TurnType, Active,
     OneTurnAtATime, InFlightCoversTurn, NoEvent, ToolEnd, OnIntentToolCall,
     Intents, promptVars, flagVars, loopVars, queueVars, markVars, envVars
<1>5. PromptOK'
  BY DEF IInv, PromptOK, OnIntentToolCall, Intents, promptVars, flagVars,
     loopVars, queueVars, markVars, envVars
<1>6. OneTurnAtATime' /\ InFlightCoversTurn'
  BY DEF IInv, OneTurnAtATime, InFlightCoversTurn, Active, OnIntentToolCall,
     Intents, promptVars, flagVars, loopVars, queueVars, markVars, envVars
<1>7. QED
  BY <1>1, <1>2, <1>3, <1>4, <1>5, <1>6 DEF IInv, TypeOK

\* The tracker's join ends the round of the one turn that waits for tools.
LEMMA OnToolExecutionEndPreserves ==
  ASSUME IInv, OnToolExecutionEnd
  PROVE  IInv'
<1>1. PromptType' /\ FlagType' /\ LoopType' /\ MarkType' /\ EnvType'
  BY ReactorAssumption DEF IInv, TypeOK, PromptType, FlagType, LoopType,
     MarkType, EnvType, OnToolExecutionEnd, promptVars, flagVars, loopVars,
     queueVars, markVars, envVars
<1>2. StackType'
  BY EventTypeLemma DEF IInv, TypeOK, StackType, StackOK, TurnEvents,
     EventTypes, OnToolExecutionEnd, promptVars, flagVars, loopVars, queueVars,
     markVars, envVars
<1>3. TurnType' /\ QueueType'
  BY DEF IInv, TypeOK, TurnType, QueueType, StackOK, TurnEvents, Stages,
     ToolStates, OnToolExecutionEnd, promptVars, flagVars, loopVars, queueVars,
     markVars, envVars
<1>4. StackOK' /\ ToolsOK'
  BY DEF IInv, StackOK, ToolsOK, TurnEvents, TypeOK, TurnType, Active,
     OneTurnAtATime, InFlightCoversTurn, Ev, NoEvent, OnToolExecutionEnd,
     promptVars, flagVars, loopVars, queueVars, markVars, envVars
<1>5. PromptOK'
  BY DEF IInv, PromptOK, OnToolExecutionEnd, promptVars, flagVars, loopVars,
     queueVars, markVars, envVars
<1>6. OneTurnAtATime' /\ InFlightCoversTurn'
  BY DEF IInv, OneTurnAtATime, InFlightCoversTurn, Active, TypeOK, TurnType,
     StackOK, TurnEvents, OnToolExecutionEnd, promptVars, flagVars, loopVars,
     queueVars, markVars, envVars
<1>7. QED
  BY <1>1, <1>2, <1>3, <1>4, <1>5, <1>6 DEF IInv, TypeOK

\* A step of Reactor._onToolResultsAggregated preserves the invariant.
LEMMA OnToolResultsAggregatedPreserves ==
  ASSUME IInv, OnToolResultsAggregated
  PROVE  IInv'
<1>1. PromptType' /\ FlagType' /\ LoopType' /\ MarkType' /\ EnvType'
  BY ReactorAssumption DEF IInv, TypeOK, PromptType, FlagType, LoopType,
     MarkType, EnvType, OnToolResultsAggregated, promptVars, flagVars,
     loopVars, turnVars, queueVars, markVars, envVars
<1>2. StackType'
  BY EventTypeLemma DEF IInv, TypeOK, StackType, StackOK, TurnEvents,
     EventTypes, Reasons, OnToolResultsAggregated, promptVars, flagVars,
     loopVars, turnVars, queueVars, markVars, envVars
<1>3. TurnType' /\ QueueType'
  BY DEF IInv, TypeOK, TurnType, QueueType, StackOK, TurnEvents,
     OnToolResultsAggregated, promptVars, flagVars, loopVars, turnVars,
     queueVars, markVars, envVars
<1>4. StackOK' /\ ToolsOK'
  BY DEF IInv, StackOK, ToolsOK, TurnEvents, TypeOK, TurnType, Active,
     OneTurnAtATime, InFlightCoversTurn, Ev, Completed,
     OnToolResultsAggregated, promptVars, flagVars, loopVars, turnVars,
     queueVars, markVars, envVars
<1>5. PromptOK'
  BY DEF IInv, PromptOK, OnToolResultsAggregated, promptVars, flagVars,
     loopVars, turnVars, queueVars, markVars, envVars
<1>6. OneTurnAtATime' /\ InFlightCoversTurn'
  BY DEF IInv, OneTurnAtATime, InFlightCoversTurn, Active, StackOK, TurnEvents,
     OnToolResultsAggregated, promptVars, flagVars, loopVars, turnVars,
     queueVars, markVars, envVars
<1>7. QED
  BY <1>1, <1>2, <1>3, <1>4, <1>5, <1>6 DEF IInv, TypeOK

\* A step of Reactor._onLlmCallFailed preserves the invariant.
LEMMA OnLlmCallFailedPreserves ==
  ASSUME IInv, OnLlmCallFailed
  PROVE  IInv'
<1> DEFINE m == event.msg
<1>1. m \in Msgs /\ stage[m] = "dispatch"
  BY DEF IInv, StackOK, TurnEvents, OnLlmCallFailed
<1>2. PromptType' /\ FlagType' /\ LoopType' /\ QueueType' /\ MarkType' /\ EnvType'
      /\ PromptOK' /\ UNCHANGED <<after, turnInFlight, rounds, tool>>
  BY DEF IInv, TypeOK, PromptType, FlagType, LoopType, QueueType, MarkType, EnvType,
     PromptOK, OnLlmCallFailed, promptVars, flagVars, loopVars, queueVars, markVars, envVars
<1>3. CASE /\ \E reason \in Reasons : event' = Completed(m, reason)
           /\ UNCHANGED <<stage, attempt>>
  <2>1. StackType' /\ TurnType'
    BY <1>1, <1>2, <1>3, EventTypeLemma DEF IInv, TypeOK, StackType, TurnType
  <2>2. StackOK' /\ ToolsOK' /\ OneTurnAtATime' /\ InFlightCoversTurn'
    BY <1>1, <1>2, <1>3 DEF IInv, StackOK, TurnEvents, Completed, ToolsOK,
       OneTurnAtATime, InFlightCoversTurn, Active
  <2>3. QED
    BY <1>2, <2>1, <2>2 DEF IInv, TypeOK
<1>4. CASE ScheduleRetry(m)
  <2>1. StackType'
    BY <1>2, <1>4, EventTypeLemma DEF IInv, TypeOK, StackType, ScheduleRetry
  <2>2. TurnType'
    BY <1>1, <1>2, <1>4, ReactorAssumption DEF IInv, TypeOK, TurnType, Stages, ScheduleRetry
  <2>3. StackOK' /\ ToolsOK' /\ OneTurnAtATime' /\ InFlightCoversTurn'
    BY <1>1, <1>2, <1>4 DEF IInv, TypeOK, TurnType, StackOK, TurnEvents, NoEvent, ToolsOK,
       OneTurnAtATime, InFlightCoversTurn, Active, ScheduleRetry
  <2>4. QED
    BY <1>2, <2>1, <2>2, <2>3 DEF IInv, TypeOK
<1>5. QED
  BY <1>3, <1>4 DEF OnLlmCallFailed, Reasons

\* _onAgentTurnCompleted ends the one turn there is before it retries it,
\* delivers the next message or goes idle.
LEMMA OnAgentTurnCompletedPreserves ==
  ASSUME IInv, OnAgentTurnCompleted
  PROVE  IInv'
<1> DEFINE m    == event.msg
           over == IF m = NoMsg THEN stage ELSE [stage EXCEPT ![m] = "done"]
<1>1. \/ m \in Msgs /\ stage[m] = "dispatch"
      \/ m = NoMsg /\ event.arg = "aborted" /\ \A n \in Msgs : ~Active(n)
  BY DEF IInv, StackOK, OnAgentTurnCompleted
<1>2. NoMsg \notin Msgs
  BY DEF NoMsg, Msgs
<1>3. /\ over \in [Msgs -> Stages]
      /\ \A n \in Msgs : stage[n] # "tools" /\ over[n] \in {"none", "done"}
  <2>1. CASE m \in Msgs /\ stage[m] = "dispatch"
    <3>1. \A n \in Msgs : n # m => ~Active(n)
      BY <2>1 DEF IInv, OneTurnAtATime, Active
    <3>2. QED
      BY <1>2, <2>1, <3>1 DEF IInv, TypeOK, TurnType, Active, Stages
  <2>2. CASE m = NoMsg /\ \A n \in Msgs : ~Active(n)
    BY <2>2 DEF IInv, TypeOK, TurnType, Active, Stages
  <2>3. QED
    BY <1>1, <2>1, <2>2
<1>4. PromptType' /\ MarkType' /\ EnvType' /\ PromptOK' /\ UNCHANGED <<after, compacting, qlog>>
  <2>1. check' \in BOOLEAN /\ (check' => check \/ phase = "settling")
    BY Zenon DEF OnAgentTurnCompleted, ScheduleCheck
  <2>2. QED
    BY <2>1 DEF IInv, TypeOK, PromptType, MarkType, EnvType, PromptOK,
       OnAgentTurnCompleted, envVars
<1>5. CASE abortedByUser /\ DiscardQueue(over)
  <2>1. /\ stage' = over /\ event' = NoEvent /\ abortedByUser' = FALSE /\ turnInFlight' = FALSE
        /\ UNCHANGED <<aborted, attempt, rounds, tool, loopVars>>
    BY <1>5 DEF DiscardQueue
  <2>2. QueueType'
    <3>1. {queue[i] : i \in DOMAIN queue} \subseteq Entry
      BY ElementOfSeq, LenProperties DEF IInv, TypeOK, QueueType
    <3>2. QED
      BY <1>4, <1>5, <3>1 DEF IInv, TypeOK, QueueType, DiscardQueue
  <2> HIDE DEF over
  <2>3. StackType' /\ FlagType' /\ LoopType' /\ TurnType'
    BY <1>3, <1>4, <2>1, EventTypeLemma DEF IInv, TypeOK, StackType, FlagType,
       LoopType, TurnType, loopVars
  <2>4. StackOK' /\ ToolsOK' /\ OneTurnAtATime' /\ InFlightCoversTurn'
    BY <1>3, <2>1 DEF IInv, StackOK, TurnEvents, NoEvent, ToolsOK, OneTurnAtATime,
       InFlightCoversTurn, Active
  <2>5. QED
    BY <1>4, <2>2, <2>3, <2>4 DEF IInv, TypeOK
<1>6. CASE RetryCompletion(m)
  <2>1. /\ m \in Msgs /\ stage[m] = "dispatch"
        /\ attempt[m] < MaxAttempts /\ attempt' = [attempt EXCEPT ![m] = @ + 1]
        /\ stage' = [stage EXCEPT ![m] = "retry"] /\ event' = NoEvent /\ turnInFlight' = TRUE
        /\ UNCHANGED <<aborted, abortedByUser, rounds, tool, queue, consumed, starts,
                       dropped, loopVars>>
    BY <1>1, <1>6 DEF RetryCompletion, ScheduleRetry
  <2>2. TurnType'
    BY <2>1, ReactorAssumption DEF IInv, TypeOK, TurnType, Stages
  <2>3. StackType' /\ FlagType' /\ LoopType' /\ QueueType'
    BY <1>4, <2>1, EventTypeLemma DEF IInv, TypeOK, StackType, FlagType, LoopType,
       QueueType, loopVars
  <2>4. StackOK' /\ ToolsOK' /\ OneTurnAtATime' /\ InFlightCoversTurn'
    BY <2>1 DEF IInv, TypeOK, TurnType, StackOK, TurnEvents, NoEvent, ToolsOK,
       OneTurnAtATime, InFlightCoversTurn, Active
  <2>5. QED
    BY <1>4, <2>2, <2>3, <2>4 DEF IInv, TypeOK
<1>7. CASE DrainQueue(over)
  <2>1. /\ queue # <<>> /\ queue \in Seq(Entry) /\ DeliverFrom(queue, over)
        /\ UNCHANGED <<abortedByUser, dropped>>
    BY <1>7 DEF IInv, TypeOK, QueueType, DrainQueue
  <2> HIDE DEF over
  <2>2. StackOK' /\ ToolsOK' /\ OneTurnAtATime' /\ InFlightCoversTurn'
    BY <1>3, <2>1, DeliverStartsOneTurn DEF IInv
  <2>3. /\ event' \in Event /\ aborted' \in BOOLEAN /\ turnInFlight' \in BOOLEAN
        /\ queue' \in Seq(Entry) /\ consumed' \subseteq Msgs
        /\ starts' \in [Msgs -> Nat] /\ LoopType' /\ TurnType'
    BY <1>3, <2>1, DeliverType DEF IInv
  <2>4. FlagType' /\ QueueType' /\ StackType'
    BY <1>4, <2>1, <2>3 DEF IInv, TypeOK, FlagType, QueueType, StackType
  <2>5. QED
    BY <1>4, <2>2, <2>3, <2>4 DEF IInv, TypeOK
<1>8. CASE GoIdle(over)
  <2>1. /\ stage' = over /\ turnInFlight' = FALSE
        /\ event' \in {NoEvent, Ev("COMPACTION_REQUESTED", NoMsg)}
        /\ UNCHANGED <<aborted, abortedByUser, attempt, rounds, tool, queue, consumed,
                       starts, dropped, loopVars>>
    BY <1>8 DEF GoIdle
  <2> HIDE DEF over
  <2>2. event' \in Event
    BY <2>1, EventTypeLemma DEF EventTypes
  <2>3. StackType' /\ FlagType' /\ LoopType' /\ TurnType' /\ QueueType'
    BY <1>3, <1>4, <2>1, <2>2 DEF IInv, TypeOK, StackType, FlagType, LoopType,
       TurnType, QueueType, loopVars
  <2>4. StackOK' /\ ToolsOK' /\ OneTurnAtATime' /\ InFlightCoversTurn'
    BY <1>3, <2>1 DEF IInv, StackOK, TurnEvents, NoEvent, Ev, ToolsOK, OneTurnAtATime,
       InFlightCoversTurn, Active
  <2>5. QED
    BY <1>4, <2>3, <2>4 DEF IInv, TypeOK
<1>9. QED
  BY <1>5, <1>6, <1>7, <1>8 DEF OnAgentTurnCompleted

\* A step of Reactor._onCompactionRequested preserves the invariant.
LEMMA OnCompactionRequestedPreserves ==
  ASSUME IInv, OnCompactionRequested
  PROVE  IInv'
<1>1. PromptType' /\ FlagType' /\ LoopType' /\ MarkType' /\ EnvType'
  BY ReactorAssumption DEF IInv, TypeOK, PromptType, FlagType, LoopType,
     MarkType, EnvType, OnCompactionRequested, promptVars, loopVars, turnVars,
     queueVars, markVars, envVars
<1>2. StackType'
  BY EventTypeLemma DEF IInv, TypeOK, StackType, StackOK, TurnEvents,
     EventTypes, OnCompactionRequested, promptVars, loopVars, turnVars,
     queueVars, markVars, envVars
<1>3. TurnType' /\ QueueType'
  BY DEF IInv, TypeOK, TurnType, QueueType, StackOK, TurnEvents,
     OnCompactionRequested, promptVars, loopVars, turnVars, queueVars,
     markVars, envVars
<1>4. StackOK' /\ ToolsOK'
  BY DEF IInv, StackOK, ToolsOK, TurnEvents, TypeOK, TurnType, Active,
     OneTurnAtATime, InFlightCoversTurn, NoEvent, OnCompactionRequested,
     promptVars, loopVars, turnVars, queueVars, markVars, envVars
<1>5. PromptOK'
  BY DEF IInv, PromptOK, OnCompactionRequested, promptVars, loopVars, turnVars,
     queueVars, markVars, envVars
<1>6. OneTurnAtATime' /\ InFlightCoversTurn'
  BY DEF IInv, OneTurnAtATime, InFlightCoversTurn, Active, StackOK, TurnEvents,
     OnCompactionRequested, promptVars, loopVars, turnVars, queueVars,
     markVars, envVars
<1>7. QED
  BY <1>1, <1>2, <1>3, <1>4, <1>5, <1>6 DEF IInv, TypeOK

\* _onCompactionSettled delivers only when no turn exists.
LEMMA OnCompactionSettledPreserves ==
  ASSUME IInv, OnCompactionSettled
  PROVE  IInv'
<1>1. PromptType' /\ MarkType' /\ EnvType' /\ PromptOK'
      /\ UNCHANGED <<after, abortedByUser, compacting, qlog, dropped>>
  <2>1. check' \in BOOLEAN /\ (check' => check \/ phase = "settling")
    BY Zenon DEF OnCompactionSettled, ScheduleCheck
  <2>2. QED
    BY <2>1 DEF IInv, TypeOK, PromptType, MarkType, EnvType, PromptOK, OnCompactionSettled,
       markVars, envVars
<1>2. CASE CanDeliver /\ queue # <<>>
  <2>1. DeliverFrom(queue, stage)
    BY <1>2 DEF OnCompactionSettled
  <2>2. \A n \in Msgs : ~Active(n)
    BY <1>2 DEF IInv, InFlightCoversTurn, CanDeliver
  <2>3. \A n \in Msgs : stage[n] # "tools" /\ stage[n] \in {"none", "done"}
    BY <2>2 DEF IInv, TypeOK, TurnType, Stages, Active
  <2>4. stage \in [Msgs -> Stages] /\ queue \in Seq(Entry)
    BY DEF IInv, TypeOK, TurnType, QueueType
  <2>5. StackOK' /\ ToolsOK' /\ OneTurnAtATime' /\ InFlightCoversTurn'
    BY <1>2, <2>1, <2>3, <2>4, DeliverStartsOneTurn DEF IInv
  <2>6. /\ event' \in Event /\ aborted' \in BOOLEAN /\ turnInFlight' \in BOOLEAN
        /\ queue' \in Seq(Entry) /\ consumed' \subseteq Msgs
        /\ starts' \in [Msgs -> Nat] /\ LoopType' /\ TurnType'
    BY <1>2, <2>1, <2>4, DeliverType DEF IInv
  <2>7. FlagType' /\ QueueType' /\ StackType'
    BY <1>1, <2>6 DEF IInv, TypeOK, FlagType, QueueType, StackType
  <2>8. QED
    BY <1>1, <2>5, <2>6, <2>7 DEF IInv, TypeOK
<1>3. CASE ~(CanDeliver /\ queue # <<>>)
  <2>1. /\ event' = NoEvent
        /\ UNCHANGED <<aborted, turnInFlight, turnVars, queue, consumed, starts, loopVars>>
    BY <1>3 DEF OnCompactionSettled
  <2>2. QueueType' /\ StackType'
    BY <1>1, <2>1, EventTypeLemma DEF IInv, TypeOK, QueueType, StackType
  <2>3. FlagType' /\ LoopType' /\ TurnType'
    BY <1>1, <2>1 DEF IInv, TypeOK, FlagType, LoopType, TurnType, loopVars, turnVars
  <2>4. StackOK' /\ ToolsOK' /\ OneTurnAtATime' /\ InFlightCoversTurn'
    BY <2>1 DEF IInv, StackOK, TurnEvents, NoEvent, ToolsOK, OneTurnAtATime,
       InFlightCoversTurn, Active, turnVars
  <2>5. QED
    BY <1>1, <2>2, <2>3, <2>4 DEF IInv, TypeOK
<1>4. QED
  BY <1>2, <1>3

\* What abort, steerQueuedFollowUp and _onCompactionRequested do after append.
LEMMA AfterAppendPreserves ==
  ASSUME IInv, AfterAppend
  PROVE  IInv'
<1>1. PromptType' /\ LoopType' /\ TurnType' /\ MarkType' /\ EnvType'
  BY DEF IInv, TypeOK, PromptType, LoopType, TurnType, MarkType, EnvType, AfterAppend,
     promptVars, loopVars, turnVars, markVars, envVars
<1>2. StackType'
  BY DEF IInv, TypeOK, StackType, AfterAppend
<1>3. FlagType'
  <2>1. aborted' \in BOOLEAN /\ compacting' \in BOOLEAN
    BY Zenon DEF AfterAppend, StillCompacting
  <2>2. QED
    BY <2>1 DEF IInv, TypeOK, FlagType, AfterAppend
<1>4. queue' \in Seq(Entry)
  <2>1. queue \in Seq(Entry)
    BY DEF IInv, TypeOK, QueueType
  <2>2. ASSUME NEW i \in DOMAIN queue, queue' = <<queue[i]>> \o Without(queue, i)
        PROVE  queue' \in Seq(Entry)
    <3>1. queue[i] \in Entry
      BY <2>1, ElementOfSeq, LenProperties
    <3>2. <<queue[i]>> \in Seq(Entry)
      BY <3>1
    <3>3. QED
      BY <2>1, <2>2, <3>2, WithoutType, ConcatProperties
  <2>3. queue' = queue \/ \E i \in DOMAIN queue : queue' = <<queue[i]>> \o Without(queue, i)
    BY DEF AfterAppend
  <2>4. QED
    BY <2>1, <2>2, <2>3
<1>5. QueueType'
  BY <1>4 DEF IInv, TypeOK, QueueType, AfterAppend
<1>6. StackOK' /\ ToolsOK' /\ PromptOK' /\ OneTurnAtATime' /\ InFlightCoversTurn'
  BY DEF IInv, StackOK, TurnEvents, ToolsOK, PromptOK, OneTurnAtATime, InFlightCoversTurn,
     Active, AfterAppend, promptVars, turnVars
<1>7. QED
  BY <1>1, <1>2, <1>3, <1>5, <1>6 DEF IInv, TypeOK

-----------------------------------------------------------------------------
(* Microtasks *)

\* The replay at Reactor.start adds entries of the log, and starts no turn.
LEMMA StartReactorPreserves ==
  ASSUME IInv, StartReactor
  PROVE  IInv'
<1>1. PromptType' /\ FlagType' /\ LoopType' /\ TurnType' /\ MarkType' /\ EnvType' /\ StackType'
  BY DEF IInv, TypeOK, PromptType, FlagType, LoopType, TurnType, MarkType, EnvType,
     StackType, StartReactor, Phases, loopVars, turnVars, markVars, envVars
<1>2. queue' \in Seq(Entry)
  <2> DEFINE places == {i \in DOMAIN qlog : Undelivered(qlog[i])}
  <2>1. PICK f \in [1 .. Cardinality(places) -> places] :
          queue' = queue \o [k \in 1 .. Cardinality(places) |-> qlog[f[k]]]
    BY DEF StartReactor
  <2>2. places \in SUBSET (DOMAIN qlog)
    OBVIOUS
  <2>3. queue \in Seq(Entry) /\ qlog \in Seq(Entry)
    BY DEF IInv, TypeOK, QueueType
  <2> HIDE DEF places
  <2>4. QED
    BY <2>1, <2>2, <2>3, ReplayType
<1>3. QueueType'
  BY <1>2 DEF IInv, TypeOK, QueueType, StartReactor
<1>4. StackOK' /\ ToolsOK' /\ PromptOK' /\ OneTurnAtATime' /\ InFlightCoversTurn'
  BY DEF IInv, StackOK, TurnEvents, ToolsOK, PromptOK, OneTurnAtATime, InFlightCoversTurn,
     Active, StartReactor, turnVars
<1>5. QED
  BY <1>1, <1>3, <1>4 DEF IInv, TypeOK

\* A step of EventSourcedRuntime.prompt preserves the invariant.
LEMMA AppendPromptPreserves ==
  ASSUME IInv, AppendPrompt
  PROVE  IInv'
<1>1. PromptType' /\ FlagType' /\ LoopType' /\ MarkType' /\ EnvType'
  BY ReactorAssumption DEF IInv, TypeOK, PromptType, FlagType, LoopType,
     MarkType, EnvType, Phases, AppendPrompt, flagVars, loopVars, turnVars,
     queueVars, markVars, envVars
<1>2. StackType'
  BY EventTypeLemma DEF IInv, TypeOK, StackType, PromptOK, EventTypes,
     AppendPrompt, flagVars, loopVars, turnVars, queueVars, markVars, envVars
<1>3. TurnType' /\ QueueType'
  BY DEF IInv, TypeOK, TurnType, QueueType, AppendPrompt, flagVars, loopVars,
     turnVars, queueVars, markVars, envVars
<1>4. StackOK' /\ ToolsOK'
  BY DEF IInv, StackOK, ToolsOK, TurnEvents, PromptOK, TypeOK, TurnType,
     Active, OneTurnAtATime, InFlightCoversTurn, Ev, AppendPrompt, flagVars,
     loopVars, turnVars, queueVars, markVars, envVars
<1>5. PromptOK'
  BY DEF IInv, PromptOK, AppendPrompt, flagVars, loopVars, turnVars, queueVars,
     markVars, envVars
<1>6. OneTurnAtATime' /\ InFlightCoversTurn'
  BY DEF IInv, OneTurnAtATime, InFlightCoversTurn, Active, AppendPrompt,
     flagVars, loopVars, turnVars, queueVars, markVars, envVars
<1>7. QED
  BY <1>1, <1>2, <1>3, <1>4, <1>5, <1>6 DEF IInv, TypeOK

\* A step of EventSourcedRuntime._waitUntilSettled preserves the invariant.
LEMMA SettledCheckPreserves ==
  ASSUME IInv, SettledCheck
  PROVE  IInv'
<1>1. PromptType' /\ FlagType' /\ LoopType' /\ MarkType' /\ EnvType'
  BY ReactorAssumption DEF IInv, TypeOK, PromptType, FlagType, LoopType,
     MarkType, EnvType, Phases, SettledCheck, flagVars, loopVars, turnVars,
     queueVars, markVars, envVars
<1>2. StackType'
  BY DEF IInv, TypeOK, StackType, SettledCheck, flagVars, loopVars, turnVars,
     queueVars, markVars, envVars
<1>3. TurnType' /\ QueueType'
  BY DEF IInv, TypeOK, TurnType, QueueType, SettledCheck, flagVars, loopVars,
     turnVars, queueVars, markVars, envVars
<1>4. StackOK' /\ ToolsOK'
  BY DEF IInv, StackOK, ToolsOK, TurnEvents, TypeOK, TurnType, Active,
     OneTurnAtATime, InFlightCoversTurn, SettledCheck, flagVars, loopVars,
     turnVars, queueVars, markVars, envVars
<1>5. PromptOK'
  BY DEF IInv, PromptOK, SettledCheck, flagVars, loopVars, turnVars, queueVars,
     markVars, envVars
<1>6. OneTurnAtATime' /\ InFlightCoversTurn'
  BY DEF IInv, OneTurnAtATime, InFlightCoversTurn, Active, SettledCheck,
     flagVars, loopVars, turnVars, queueVars, markVars, envVars
<1>7. QED
  BY <1>1, <1>2, <1>3, <1>4, <1>5, <1>6 DEF IInv, TypeOK

\* Reactor.stop leaves behind at most the turn there was.
LEMMA FinishPromptPreserves ==
  ASSUME IInv, FinishPrompt
  PROVE  IInv'
<1>1. PromptType' /\ FlagType' /\ LoopType' /\ MarkType' /\ EnvType' /\ PromptOK'
  BY DEF IInv, TypeOK, PromptType, FlagType, LoopType, MarkType, EnvType, PromptOK,
     Phases, NoMsg, FinishPrompt, loopVars, markVars, envVars
<1>2. StackType' /\ QueueType'
  BY DEF IInv, TypeOK, StackType, QueueType, FinishPrompt, queueVars
<1>3. TurnType'
  BY DEF IInv, TypeOK, TurnType, Stages, ToolStates, FinishPrompt, ClearRetries,
     DrainedApprovals
<1>4. ToolsOK' /\ OneTurnAtATime' /\ InFlightCoversTurn'
  BY DEF IInv, TypeOK, TurnType, ToolsOK, OneTurnAtATime, InFlightCoversTurn, Active,
     FinishPrompt, ClearRetries, Retrying, DrainedApprovals
<1>5. StackOK'
  BY DEF StackOK, TurnEvents, NoEvent, FinishPrompt, StackEmpty
<1>6. QED
  BY <1>1, <1>2, <1>3, <1>4, <1>5 DEF IInv, TypeOK

\* A step of Reactor._onIntentToolCall preserves the invariant.
LEMMA ApprovalDecidedPreserves ==
  ASSUME IInv, ApprovalDecided
  PROVE  IInv'
<1>1. PromptType' /\ FlagType' /\ LoopType' /\ MarkType' /\ EnvType'
  BY ReactorAssumption DEF IInv, TypeOK, PromptType, FlagType, LoopType,
     MarkType, EnvType, ApprovalDecided, Decided, promptVars, flagVars,
     loopVars, queueVars, markVars, envVars
<1>2. StackType'
  BY EventTypeLemma DEF IInv, TypeOK, StackType, EventTypes, ApprovalDecided,
     Decided, promptVars, flagVars, loopVars, queueVars, markVars, envVars
<1>3. TurnType' /\ QueueType'
  BY DEF IInv, TypeOK, TurnType, QueueType, ToolStates, ApprovalDecided,
     Decided, promptVars, flagVars, loopVars, queueVars, markVars, envVars
<1>4. StackOK' /\ ToolsOK'
  BY DEF IInv, StackOK, ToolsOK, TurnEvents, TypeOK, TurnType, Active,
     OneTurnAtATime, InFlightCoversTurn, NoEvent, ToolEnd, ApprovalDecided,
     Decided, promptVars, flagVars, loopVars, queueVars, markVars, envVars
<1>5. PromptOK'
  BY DEF IInv, PromptOK, ApprovalDecided, Decided, promptVars, flagVars,
     loopVars, queueVars, markVars, envVars
<1>6. OneTurnAtATime' /\ InFlightCoversTurn'
  BY DEF IInv, OneTurnAtATime, InFlightCoversTurn, Active, ApprovalDecided,
     Decided, promptVars, flagVars, loopVars, queueVars, markVars, envVars
<1>7. QED
  BY <1>1, <1>2, <1>3, <1>4, <1>5, <1>6 DEF IInv, TypeOK

-----------------------------------------------------------------------------
(* Macrotasks *)

\* A step of Reactor._onUserMessage preserves the invariant.
LEMMA HookReturnsPreserves ==
  ASSUME IInv, NEW m \in Msgs, HookReturns(m)
  PROVE  IInv'
<1>1. PromptType' /\ FlagType' /\ LoopType' /\ MarkType' /\ EnvType'
  BY ReactorAssumption DEF IInv, TypeOK, PromptType, FlagType, LoopType,
     MarkType, EnvType, HookReturns, Emit, ResetLoop, promptVars, flagVars,
     queueVars, markVars, envVars, NoSig
<1>2. StackType'
  BY EventTypeLemma DEF IInv, TypeOK, StackType, EventTypes, HookReturns, Emit,
     ResetLoop, promptVars, flagVars, queueVars, markVars, envVars
<1>3. TurnType' /\ QueueType'
  BY DEF IInv, TypeOK, TurnType, QueueType, Stages, HookReturns, Emit,
     ResetLoop, promptVars, flagVars, queueVars, markVars, envVars
<1>4. StackOK' /\ ToolsOK'
  BY DEF IInv, StackOK, ToolsOK, TurnEvents, TypeOK, TurnType, Active,
     OneTurnAtATime, InFlightCoversTurn, Ev, NoEvent, HookReturns, Emit,
     ResetLoop, promptVars, flagVars, queueVars, markVars, envVars
<1>5. PromptOK'
  BY DEF IInv, PromptOK, HookReturns, Emit, ResetLoop, promptVars, flagVars,
     queueVars, markVars, envVars
<1>6. OneTurnAtATime' /\ InFlightCoversTurn'
  BY DEF IInv, OneTurnAtATime, InFlightCoversTurn, Active, TypeOK, TurnType,
     HookReturns, Emit, ResetLoop, promptVars, flagVars, queueVars, markVars,
     envVars
<1>7. QED
  BY <1>1, <1>2, <1>3, <1>4, <1>5, <1>6 DEF IInv, TypeOK

\* A step of Reactor._handleLlmResponse preserves the invariant.
LEMMA LlmRespondsPreserves ==
  ASSUME IInv, NEW m \in Msgs, LlmResponds(m)
  PROVE  IInv'
<1>1. PromptType' /\ FlagType' /\ LoopType' /\ MarkType' /\ EnvType'
  BY ReactorAssumption DEF IInv, TypeOK, PromptType, FlagType, LoopType,
     MarkType, EnvType, LlmResponds, Emit, promptVars, flagVars, loopVars,
     queueVars, markVars, envVars
<1>2. StackType'
  BY EventTypeLemma DEF IInv, TypeOK, StackType, EventTypes, LlmResponds, Emit,
     promptVars, flagVars, loopVars, queueVars, markVars, envVars
<1>3. TurnType' /\ QueueType'
  BY DEF IInv, TypeOK, TurnType, QueueType, Stages, LlmResponds, Emit,
     promptVars, flagVars, loopVars, queueVars, markVars, envVars
<1>4. StackOK' /\ ToolsOK'
  BY DEF IInv, StackOK, ToolsOK, TurnEvents, TypeOK, TurnType, Active,
     OneTurnAtATime, InFlightCoversTurn, Ev, NoEvent, LlmResponds, Emit,
     promptVars, flagVars, loopVars, queueVars, markVars, envVars
<1>5. PromptOK'
  BY DEF IInv, PromptOK, LlmResponds, Emit, promptVars, flagVars, loopVars,
     queueVars, markVars, envVars
<1>6. OneTurnAtATime' /\ InFlightCoversTurn'
  BY DEF IInv, OneTurnAtATime, InFlightCoversTurn, Active, TypeOK, TurnType,
     LlmResponds, Emit, promptVars, flagVars, loopVars, queueVars, markVars,
     envVars
<1>7. QED
  BY <1>1, <1>2, <1>3, <1>4, <1>5, <1>6 DEF IInv, TypeOK

\* A step of Reactor._onLlmCallRequested preserves the invariant.
LEMMA LlmFailsPreserves ==
  ASSUME IInv, NEW m \in Msgs, LlmFails(m)
  PROVE  IInv'
<1>1. PromptType' /\ FlagType' /\ LoopType' /\ MarkType' /\ EnvType'
  BY ReactorAssumption DEF IInv, TypeOK, PromptType, FlagType, LoopType,
     MarkType, EnvType, LlmFails, Emit, promptVars, flagVars, loopVars,
     queueVars, markVars, envVars
<1>2. StackType'
  BY EventTypeLemma DEF IInv, TypeOK, StackType, EventTypes, LlmFails, Emit,
     promptVars, flagVars, loopVars, queueVars, markVars, envVars
<1>3. TurnType' /\ QueueType'
  BY DEF IInv, TypeOK, TurnType, QueueType, Stages, LlmFails, Emit, promptVars,
     flagVars, loopVars, queueVars, markVars, envVars
<1>4. StackOK' /\ ToolsOK'
  BY DEF IInv, StackOK, ToolsOK, TurnEvents, TypeOK, TurnType, Active,
     OneTurnAtATime, InFlightCoversTurn, Ev, NoEvent, LlmFails, Emit,
     promptVars, flagVars, loopVars, queueVars, markVars, envVars
<1>5. PromptOK'
  BY DEF IInv, PromptOK, LlmFails, Emit, promptVars, flagVars, loopVars,
     queueVars, markVars, envVars
<1>6. OneTurnAtATime' /\ InFlightCoversTurn'
  BY DEF IInv, OneTurnAtATime, InFlightCoversTurn, Active, TypeOK, TurnType,
     LlmFails, Emit, promptVars, flagVars, loopVars, queueVars, markVars,
     envVars
<1>7. QED
  BY <1>1, <1>2, <1>3, <1>4, <1>5, <1>6 DEF IInv, TypeOK

\* A step of Reactor._resetStreamIdleWatchdog preserves the invariant.
LEMMA StreamIdlePreserves ==
  ASSUME IInv, NEW m \in Msgs, StreamIdle(m)
  PROVE  IInv'
<1>1. PromptType' /\ FlagType' /\ LoopType' /\ MarkType' /\ EnvType'
  BY ReactorAssumption DEF IInv, TypeOK, PromptType, FlagType, LoopType,
     MarkType, EnvType, StreamIdle, promptVars, loopVars, turnVars, queueVars,
     markVars, envVars
<1>2. StackType'
  BY DEF IInv, TypeOK, StackType, StreamIdle, promptVars, loopVars, turnVars,
     queueVars, markVars, envVars
<1>3. TurnType' /\ QueueType'
  BY DEF IInv, TypeOK, TurnType, QueueType, StreamIdle, promptVars, loopVars,
     turnVars, queueVars, markVars, envVars
<1>4. StackOK' /\ ToolsOK'
  BY DEF IInv, StackOK, ToolsOK, TurnEvents, TypeOK, TurnType, Active,
     OneTurnAtATime, InFlightCoversTurn, StreamIdle, promptVars, loopVars,
     turnVars, queueVars, markVars, envVars
<1>5. PromptOK'
  BY DEF IInv, PromptOK, StreamIdle, promptVars, loopVars, turnVars, queueVars,
     markVars, envVars
<1>6. OneTurnAtATime' /\ InFlightCoversTurn'
  BY DEF IInv, OneTurnAtATime, InFlightCoversTurn, Active, StreamIdle,
     promptVars, loopVars, turnVars, queueVars, markVars, envVars
<1>7. QED
  BY <1>1, <1>2, <1>3, <1>4, <1>5, <1>6 DEF IInv, TypeOK

\* A step of Reactor._executeTool preserves the invariant.
LEMMA ToolReturnsPreserves ==
  ASSUME IInv, NEW m \in Msgs, NEW t \in Tools, ToolReturns(m, t)
  PROVE  IInv'
<1>1. PromptType' /\ FlagType' /\ LoopType' /\ MarkType' /\ EnvType'
  BY ReactorAssumption DEF IInv, TypeOK, PromptType, FlagType, LoopType,
     MarkType, EnvType, ToolReturns, promptVars, flagVars, loopVars, queueVars,
     markVars, envVars
<1>2. StackType'
  BY EventTypeLemma DEF IInv, TypeOK, StackType, EventTypes, ToolReturns,
     promptVars, flagVars, loopVars, queueVars, markVars, envVars
<1>3. TurnType' /\ QueueType'
  BY DEF IInv, TypeOK, TurnType, QueueType, ToolStates, ToolReturns,
     promptVars, flagVars, loopVars, queueVars, markVars, envVars
<1>4. StackOK' /\ ToolsOK'
  BY DEF IInv, StackOK, ToolsOK, TurnEvents, TypeOK, TurnType, Active,
     OneTurnAtATime, InFlightCoversTurn, NoEvent, ToolEnd, ToolReturns,
     promptVars, flagVars, loopVars, queueVars, markVars, envVars
<1>5. PromptOK'
  BY DEF IInv, PromptOK, ToolReturns, promptVars, flagVars, loopVars,
     queueVars, markVars, envVars
<1>6. OneTurnAtATime' /\ InFlightCoversTurn'
  BY DEF IInv, OneTurnAtATime, InFlightCoversTurn, Active, ToolReturns,
     promptVars, flagVars, loopVars, queueVars, markVars, envVars
<1>7. QED
  BY <1>1, <1>2, <1>3, <1>4, <1>5, <1>6 DEF IInv, TypeOK

\* A step of Reactor._scheduleRetry preserves the invariant.
LEMMA RetryFiresPreserves ==
  ASSUME IInv, NEW m \in Msgs, RetryFires(m)
  PROVE  IInv'
<1>1. PromptType' /\ FlagType' /\ LoopType' /\ MarkType' /\ EnvType'
  BY ReactorAssumption DEF IInv, TypeOK, PromptType, FlagType, LoopType,
     MarkType, EnvType, RetryFires, Emit, promptVars, flagVars, loopVars,
     queueVars, markVars, envVars
<1>2. StackType'
  BY EventTypeLemma DEF IInv, TypeOK, StackType, EventTypes, RetryFires, Emit,
     promptVars, flagVars, loopVars, queueVars, markVars, envVars
<1>3. TurnType' /\ QueueType'
  BY DEF IInv, TypeOK, TurnType, QueueType, Stages, RetryFires, Emit,
     promptVars, flagVars, loopVars, queueVars, markVars, envVars
<1>4. StackOK' /\ ToolsOK'
  BY DEF IInv, StackOK, ToolsOK, TurnEvents, TypeOK, TurnType, Active,
     OneTurnAtATime, InFlightCoversTurn, Ev, NoEvent, RetryFires, Emit,
     promptVars, flagVars, loopVars, queueVars, markVars, envVars
<1>5. PromptOK'
  BY DEF IInv, PromptOK, RetryFires, Emit, promptVars, flagVars, loopVars,
     queueVars, markVars, envVars
<1>6. OneTurnAtATime' /\ InFlightCoversTurn'
  BY DEF IInv, OneTurnAtATime, InFlightCoversTurn, Active, TypeOK, TurnType,
     RetryFires, Emit, promptVars, flagVars, loopVars, queueVars, markVars,
     envVars
<1>7. QED
  BY <1>1, <1>2, <1>3, <1>4, <1>5, <1>6 DEF IInv, TypeOK

\* A step of Reactor._onCompactionRequested preserves the invariant.
LEMMA CompactionReturnsPreserves ==
  ASSUME IInv, CompactionReturns
  PROVE  IInv'
<1>1. PromptType' /\ FlagType' /\ LoopType' /\ MarkType' /\ EnvType'
  BY ReactorAssumption DEF IInv, TypeOK, PromptType, FlagType, LoopType,
     MarkType, EnvType, CompactionReturns, promptVars, flagVars, loopVars,
     turnVars, queueVars, markVars, envVars
<1>2. StackType'
  BY EventTypeLemma DEF IInv, TypeOK, StackType, EventTypes, CompactionReturns,
     promptVars, flagVars, loopVars, turnVars, queueVars, markVars, envVars
<1>3. TurnType' /\ QueueType'
  BY DEF IInv, TypeOK, TurnType, QueueType, CompactionReturns, promptVars,
     flagVars, loopVars, turnVars, queueVars, markVars, envVars
<1>4. StackOK' /\ ToolsOK'
  BY DEF IInv, StackOK, ToolsOK, TurnEvents, TypeOK, TurnType, Active,
     OneTurnAtATime, InFlightCoversTurn, Ev, CompactionReturns, promptVars,
     flagVars, loopVars, turnVars, queueVars, markVars, envVars
<1>5. PromptOK'
  BY DEF IInv, PromptOK, CompactionReturns, promptVars, flagVars, loopVars,
     turnVars, queueVars, markVars, envVars
<1>6. OneTurnAtATime' /\ InFlightCoversTurn'
  BY DEF IInv, OneTurnAtATime, InFlightCoversTurn, Active, CompactionReturns,
     promptVars, flagVars, loopVars, turnVars, queueVars, markVars, envVars
<1>7. QED
  BY <1>1, <1>2, <1>3, <1>4, <1>5, <1>6 DEF IInv, TypeOK

\* A step of EventSourcedRuntime._runIdleCompaction preserves the invariant.
LEMMA BackgroundCompactionReturnsPreserves ==
  ASSUME IInv, NEW c \in {"idle", "stray"}, BackgroundCompactionReturns(c)
  PROVE  IInv'
<1>1. PromptType' /\ FlagType' /\ LoopType' /\ MarkType' /\ EnvType'
  BY ReactorAssumption DEF IInv, TypeOK, PromptType, FlagType, LoopType,
     MarkType, EnvType, Phases, BackgroundCompactionReturns, flagVars,
     loopVars, turnVars, queueVars, markVars, envVars
<1>2. StackType'
  BY EventTypeLemma DEF IInv, TypeOK, StackType, EventTypes,
     BackgroundCompactionReturns, flagVars, loopVars, turnVars, queueVars,
     markVars, envVars
<1>3. TurnType' /\ QueueType'
  BY DEF IInv, TypeOK, TurnType, QueueType, BackgroundCompactionReturns,
     flagVars, loopVars, turnVars, queueVars, markVars, envVars
<1>4. StackOK' /\ ToolsOK'
  BY DEF IInv, StackOK, ToolsOK, TurnEvents, TypeOK, TurnType, Active,
     OneTurnAtATime, InFlightCoversTurn, Ev, NoEvent,
     BackgroundCompactionReturns, flagVars, loopVars, turnVars, queueVars,
     markVars, envVars
<1>5. PromptOK'
  BY DEF IInv, PromptOK, BackgroundCompactionReturns, flagVars, loopVars,
     turnVars, queueVars, markVars, envVars
<1>6. OneTurnAtATime' /\ InFlightCoversTurn'
  BY DEF IInv, OneTurnAtATime, InFlightCoversTurn, Active,
     BackgroundCompactionReturns, flagVars, loopVars, turnVars, queueVars,
     markVars, envVars
<1>7. QED
  BY <1>1, <1>2, <1>3, <1>4, <1>5, <1>6 DEF IInv, TypeOK

-----------------------------------------------------------------------------
(* Calls of the user interface *)

\* A step of EventSourcedRuntime.prompt preserves the invariant.
LEMMA PromptPreserves ==
  ASSUME IInv, Prompt
  PROVE  IInv'
<1>1. nextMsg \in Msgs /\ nextMsg' \in 1 .. MaxMsgs + 1
  BY NewMsgType DEF IInv, Prompt
<1>2. PromptType' /\ PromptOK'
  BY <1>1 DEF IInv, TypeOK, PromptType, PromptOK, Phases, Prompt
<1>3. StackType' /\ FlagType' /\ LoopType' /\ TurnType' /\ QueueType' /\ MarkType' /\ EnvType'
  BY <1>1 DEF IInv, TypeOK, StackType, FlagType, LoopType, TurnType, QueueType, MarkType,
     EnvType, Prompt, flagVars, loopVars, turnVars, queueVars, markVars
<1>4. StackOK' /\ ToolsOK' /\ OneTurnAtATime' /\ InFlightCoversTurn'
  BY DEF IInv, StackOK, TurnEvents, ToolsOK, OneTurnAtATime, InFlightCoversTurn, Active,
     Prompt, flagVars, turnVars
<1>5. QED
  BY <1>2, <1>3, <1>4 DEF IInv, TypeOK

\* A step of EventSourcedRuntime.steer preserves the invariant.
LEMMA SteerPreserves ==
  ASSUME IInv, Steer
  PROVE  IInv'
<1>1. nextMsg \in Msgs /\ nextMsg' \in 1 .. MaxMsgs + 1
  BY NewMsgType DEF IInv, Steer
<1>2. PromptType' /\ FlagType' /\ LoopType' /\ TurnType' /\ QueueType' /\ MarkType' /\ EnvType'
  BY <1>1 DEF IInv, TypeOK, PromptType, FlagType, LoopType, TurnType, QueueType, MarkType,
     EnvType, Steer, promptVars, flagVars, loopVars, turnVars, queueVars, markVars
<1>3. StackType'
  BY <1>1, EventTypeLemma DEF IInv, TypeOK, StackType, Steer, EventTypes
<1>4. StackOK' /\ ToolsOK' /\ PromptOK' /\ OneTurnAtATime' /\ InFlightCoversTurn'
  BY DEF IInv, StackOK, TurnEvents, Ev, NoEvent, ToolsOK, PromptOK, OneTurnAtATime,
     InFlightCoversTurn, Active, Steer, promptVars, flagVars, turnVars
<1>5. QED
  BY <1>2, <1>3, <1>4 DEF IInv, TypeOK

\* A step of EventSourcedRuntime.followUp preserves the invariant.
LEMMA FollowUpPreserves ==
  ASSUME IInv, FollowUp
  PROVE  IInv'
<1>1. nextMsg \in Msgs /\ nextMsg' \in 1 .. MaxMsgs + 1
  BY NewMsgType DEF IInv, FollowUp
<1>2. PromptType' /\ FlagType' /\ LoopType' /\ TurnType' /\ MarkType' /\ EnvType'
  BY <1>1 DEF IInv, TypeOK, PromptType, FlagType, LoopType, TurnType, MarkType, EnvType,
     FollowUp, promptVars, flagVars, loopVars, turnVars, markVars
<1>3. QueueType'
  <2>1. [msg |-> nextMsg, form |-> "followUp"] \in Entry
    BY <1>1 DEF Entry, Forms
  <2>2. QED
    BY <2>1 DEF IInv, TypeOK, QueueType, FollowUp
<1>4. StackType'
  BY <1>1, EventTypeLemma DEF IInv, TypeOK, StackType, FollowUp, Forms
<1>5. StackOK' /\ ToolsOK' /\ PromptOK' /\ OneTurnAtATime' /\ InFlightCoversTurn'
  BY <1>1 DEF IInv, StackOK, TurnEvents, Queued, NoEvent, Forms, ToolsOK, PromptOK,
     OneTurnAtATime, InFlightCoversTurn, Active, FollowUp, promptVars, flagVars, turnVars
<1>6. QED
  BY <1>2, <1>3, <1>4, <1>5 DEF IInv, TypeOK

\* A step of EventSourcedRuntime.abort preserves the invariant.
LEMMA AbortPreserves ==
  ASSUME IInv, Abort
  PROVE  IInv'
<1>1. PromptType' /\ FlagType' /\ LoopType' /\ MarkType' /\ EnvType'
  BY ReactorAssumption DEF IInv, TypeOK, PromptType, FlagType, LoopType,
     MarkType, EnvType, Abort, promptVars, flagVars, loopVars, turnVars,
     queueVars, markVars
<1>2. StackType'
  BY EventTypeLemma DEF IInv, TypeOK, StackType, EventTypes, Abort, promptVars,
     flagVars, loopVars, turnVars, queueVars, markVars
<1>3. TurnType' /\ QueueType'
  BY DEF IInv, TypeOK, TurnType, QueueType, Abort, promptVars, flagVars,
     loopVars, turnVars, queueVars, markVars
<1>4. StackOK' /\ ToolsOK'
  BY DEF IInv, StackOK, ToolsOK, TurnEvents, TypeOK, TurnType, Active,
     OneTurnAtATime, InFlightCoversTurn, Ev, Abort, promptVars, flagVars,
     loopVars, turnVars, queueVars, markVars
<1>5. PromptOK'
  BY DEF IInv, PromptOK, Abort, promptVars, flagVars, loopVars, turnVars,
     queueVars, markVars
<1>6. OneTurnAtATime' /\ InFlightCoversTurn'
  BY DEF IInv, OneTurnAtATime, InFlightCoversTurn, Active, Abort, promptVars,
     flagVars, loopVars, turnVars, queueVars, markVars
<1>7. QED
  BY <1>1, <1>2, <1>3, <1>4, <1>5, <1>6 DEF IInv, TypeOK

\* A step of EventSourcedRuntime.compact preserves the invariant.
LEMMA CompactPreserves ==
  ASSUME IInv, Compact
  PROVE  IInv'
<1>1. EnvType'
  BY ReactorAssumption DEF IInv, TypeOK, EnvType, Compact
<1>2. PromptType' /\ PromptOK'
  BY DEF IInv, TypeOK, PromptType, PromptOK, Compact
<1>3. StackType'
  BY EventTypeLemma DEF IInv, TypeOK, StackType, Compact, EventTypes
<1>4. FlagType' /\ LoopType' /\ TurnType' /\ QueueType' /\ MarkType'
  BY DEF IInv, TypeOK, FlagType, LoopType, TurnType, QueueType, MarkType,
     Compact, flagVars, loopVars, turnVars, queueVars, markVars
<1>5. StackOK' /\ ToolsOK' /\ OneTurnAtATime' /\ InFlightCoversTurn'
  BY DEF IInv, StackOK, TurnEvents, Ev, ToolsOK, OneTurnAtATime, InFlightCoversTurn,
     Active, Compact, flagVars, turnVars
<1>6. QED
  BY <1>1, <1>2, <1>3, <1>4, <1>5 DEF IInv, TypeOK

\* A step of EventSourcedRuntime.approve preserves the invariant.
LEMMA DecidePreserves ==
  ASSUME IInv, NEW m \in Msgs, NEW t \in Tools, Decide(m, t)
  PROVE  IInv'
<1>1. PromptType' /\ FlagType' /\ LoopType' /\ MarkType' /\ EnvType'
  BY ReactorAssumption DEF IInv, TypeOK, PromptType, FlagType, LoopType,
     MarkType, EnvType, Decide, promptVars, flagVars, loopVars, queueVars,
     markVars, envVars
<1>2. StackType'
  BY DEF IInv, TypeOK, StackType, Decide, promptVars, flagVars, loopVars,
     queueVars, markVars, envVars
<1>3. TurnType' /\ QueueType'
  BY DEF IInv, TypeOK, TurnType, QueueType, ToolStates, Decide, promptVars,
     flagVars, loopVars, queueVars, markVars, envVars
<1>4. StackOK' /\ ToolsOK'
  BY DEF IInv, StackOK, ToolsOK, TurnEvents, TypeOK, TurnType, Active,
     OneTurnAtATime, InFlightCoversTurn, Decide, promptVars, flagVars,
     loopVars, queueVars, markVars, envVars
<1>5. PromptOK'
  BY DEF IInv, PromptOK, Decide, promptVars, flagVars, loopVars, queueVars,
     markVars, envVars
<1>6. OneTurnAtATime' /\ InFlightCoversTurn'
  BY DEF IInv, OneTurnAtATime, InFlightCoversTurn, Active, Decide, promptVars,
     flagVars, loopVars, queueVars, markVars, envVars
<1>7. QED
  BY <1>1, <1>2, <1>3, <1>4, <1>5, <1>6 DEF IInv, TypeOK

\* A step of EventSourcedRuntime.cancelQueuedFollowUp preserves the invariant.
LEMMA CancelQueuedPreserves ==
  ASSUME IInv, CancelQueued
  PROVE  IInv'
<1>1. PICK i \in DOMAIN queue : Take(i)
  BY DEF CancelQueued
<1>2. PromptType' /\ StackType' /\ FlagType' /\ LoopType' /\ TurnType' /\ MarkType'
  BY DEF IInv, TypeOK, PromptType, StackType, FlagType, LoopType, TurnType, MarkType,
     CancelQueued, promptVars, flagVars, loopVars, turnVars, markVars
<1>3. EnvType'
  BY <1>1, ReactorAssumption DEF IInv, TypeOK, EnvType, CancelQueued, Take
<1>4. QueueType'
  BY <1>1, TakeType DEF IInv, TypeOK, QueueType, CancelQueued
<1>5. StackOK' /\ ToolsOK' /\ PromptOK' /\ OneTurnAtATime' /\ InFlightCoversTurn'
  BY DEF IInv, StackOK, TurnEvents, ToolsOK, PromptOK, OneTurnAtATime,
     InFlightCoversTurn, Active, CancelQueued, promptVars, flagVars, turnVars
<1>6. QED
  BY <1>2, <1>3, <1>4, <1>5 DEF IInv, TypeOK

\* A step of EventSourcedRuntime.clearQueuedFollowUps preserves the invariant.
LEMMA ClearQueuedPreserves ==
  ASSUME IInv, ClearQueued
  PROVE  IInv'
<1>1. PromptType' /\ FlagType' /\ LoopType' /\ MarkType' /\ EnvType'
  BY ReactorAssumption DEF IInv, TypeOK, PromptType, FlagType, LoopType,
     MarkType, EnvType, ClearQueued, promptVars, flagVars, loopVars, turnVars,
     markVars
<1>2. StackType'
  BY DEF IInv, TypeOK, StackType, ClearQueued, promptVars, flagVars, loopVars,
     turnVars, markVars
<1>3. TurnType' /\ QueueType'
  BY DEF IInv, TypeOK, TurnType, QueueType, ClearQueued, promptVars, flagVars,
     loopVars, turnVars, markVars
<1>4. StackOK' /\ ToolsOK'
  BY DEF IInv, StackOK, ToolsOK, TurnEvents, TypeOK, TurnType, Active,
     OneTurnAtATime, InFlightCoversTurn, ClearQueued, promptVars, flagVars,
     loopVars, turnVars, markVars
<1>5. PromptOK'
  BY DEF IInv, PromptOK, ClearQueued, promptVars, flagVars, loopVars, turnVars,
     markVars
<1>6. OneTurnAtATime' /\ InFlightCoversTurn'
  BY DEF IInv, OneTurnAtATime, InFlightCoversTurn, Active, ClearQueued,
     promptVars, flagVars, loopVars, turnVars, markVars
<1>7. QED
  BY <1>1, <1>2, <1>3, <1>4, <1>5, <1>6 DEF IInv, TypeOK

\* A step of EventSourcedRuntime.steerQueuedFollowUp preserves the invariant.
LEMMA SteerQueuedPreserves ==
  ASSUME IInv, SteerQueued
  PROVE  IInv'
<1>1. PICK i \in DOMAIN queue : Take(i)
  BY DEF SteerQueued
<1>2. nextMsg \in Msgs /\ nextMsg' \in 1 .. MaxMsgs + 1
  BY NewMsgType DEF IInv, SteerQueued
<1>3. PromptType' /\ FlagType' /\ LoopType' /\ TurnType' /\ MarkType'
  BY DEF IInv, TypeOK, PromptType, FlagType, LoopType, TurnType, MarkType, SteerQueued,
     promptVars, flagVars, loopVars, turnVars, markVars
<1>4. EnvType'
  BY <1>1, <1>2, ReactorAssumption DEF IInv, TypeOK, EnvType, SteerQueued, Take
<1>5. QueueType'
  BY <1>1, TakeType DEF IInv, TypeOK, QueueType, SteerQueued
<1>6. StackType'
  BY <1>2, EventTypeLemma DEF StackType, SteerQueued, EventTypes
<1>7. StackOK' /\ ToolsOK' /\ PromptOK' /\ OneTurnAtATime' /\ InFlightCoversTurn'
  BY <1>2 DEF IInv, StackOK, TurnEvents, Ev, ToolsOK, PromptOK, OneTurnAtATime,
     InFlightCoversTurn, Active, SteerQueued, promptVars, flagVars, turnVars
<1>8. QED
  BY <1>3, <1>4, <1>5, <1>6, <1>7 DEF IInv, TypeOK

-----------------------------------------------------------------------------
(* The theorems *)

\* A fresh TurnState and an idle runtime satisfy the invariant.
LEMMA InitIInv == Init => IInv
<1> SUFFICES ASSUME Init PROVE IInv
  OBVIOUS
<1>1. TypeOK
  <2>1. 0 \in 0 .. MaxAttempts /\ 0 \in 0 .. LoopLimit
    BY ReactorAssumption
  <2>2. 1 \in 1 .. MaxMsgs + 1 /\ 0 \in 0 .. MaxAborts /\ 0 \in 0 .. MaxCompacts
        /\ 0 \in 0 .. MaxEdits
    BY ReactorAssumption
  <2>3. PromptType /\ StackType /\ FlagType /\ MarkType /\ LoopType /\ EnvType
    BY <2>1, <2>2, EventTypeLemma DEF Init, PromptType, StackType, FlagType, MarkType,
       LoopType, EnvType, Phases
  <2>4. TurnType /\ QueueType
    BY <2>1 DEF Init, TurnType, QueueType, Stages, ToolStates
  <2>5. QED
    BY <2>3, <2>4 DEF TypeOK
<1>2. StackOK /\ ToolsOK /\ PromptOK /\ OneTurnAtATime /\ InFlightCoversTurn
  BY DEF Init, StackOK, TurnEvents, NoEvent, ToolsOK, PromptOK, OneTurnAtATime,
     InFlightCoversTurn, Active
<1>3. QED
  BY <1>1, <1>2 DEF IInv

\* No handler, continuation, completion or call of the interface breaks it.
LEMMA NextIInv == IInv /\ [Next]_vars => IInv'
<1> SUFFICES ASSUME IInv, [Next]_vars PROVE IInv'
  OBVIOUS
<1>1. CASE Handler
  BY <1>1, OnUserMessagePreserves, OnUserInterruptPreserves,
     OnUserFollowupQueuedPreserves, OnAgentTurnRequestedPreserves,
     OnLlmCallRequestedPreserves, OnAgentMessageEndPreserves,
     OnIntentToolCallPreserves, OnToolExecutionEndPreserves,
     OnToolResultsAggregatedPreserves, OnLlmCallFailedPreserves,
     OnAgentTurnCompletedPreserves, OnCompactionRequestedPreserves,
     OnCompactionSettledPreserves, AfterAppendPreserves
     DEF Handler
<1>2. CASE Microtask
  BY <1>2, StartReactorPreserves, AppendPromptPreserves, SettledCheckPreserves,
     FinishPromptPreserves, ApprovalDecidedPreserves
     DEF Microtask
<1>3. CASE Completion
  <2>1. CASE \E m \in Msgs :
               \/ HookReturns(m) \/ LlmResponds(m) \/ LlmFails(m) \/ RetryFires(m)
               \/ \E t \in Tools : ToolReturns(m, t)
    BY <2>1, HookReturnsPreserves, LlmRespondsPreserves, LlmFailsPreserves,
       RetryFiresPreserves, ToolReturnsPreserves
  <2>2. CASE CompactionReturns \/ \E c \in {"idle", "stray"} : BackgroundCompactionReturns(c)
    BY <2>2, CompactionReturnsPreserves, BackgroundCompactionReturnsPreserves
  <2>3. QED
    BY <1>3, <2>1, <2>2 DEF Completion
<1>4. CASE User
  <2>1. CASE \E m \in Msgs, t \in Tools : Decide(m, t)
    BY <2>1, DecidePreserves
  <2>2. CASE Prompt \/ Steer \/ FollowUp \/ Abort \/ Compact
    BY <2>2, PromptPreserves, SteerPreserves, FollowUpPreserves, AbortPreserves,
       CompactPreserves
  <2>3. CASE CancelQueued \/ ClearQueued \/ SteerQueued
    BY <2>3, CancelQueuedPreserves, ClearQueuedPreserves, SteerQueuedPreserves
  <2>4. QED
    BY <1>4, <2>1, <2>2, <2>3 DEF User
<1>5. CASE \E m \in Msgs : StreamIdle(m)
  BY <1>5, StreamIdlePreserves
<1>6. CASE UNCHANGED vars
  BY <1>6 DEF IInv, TypeOK, PromptType, StackType, FlagType, LoopType, TurnType, QueueType,
     MarkType, EnvType, StackOK, TurnEvents, ToolsOK, PromptOK, OneTurnAtATime,
     InFlightCoversTurn, Active, vars, promptVars, flagVars, loopVars, turnVars, queueVars,
     markVars, envVars
<1>7. QED
  BY <1>1, <1>2, <1>3, <1>4, <1>5, <1>6 DEF Next

\* So the invariant holds of every behaviour of the turn loop.
LEMMA Invariance == Spec => []IInv
<1>1. QED
  BY InitIInv, NextIInv, PTL DEF Spec

\* The state of the turn loop stays well formed; above all, no turn is retried
\* more than MaxAttempts times (_attemptCount).
THEOREM TypeCorrect == Spec => []TypeOK
<1>1. IInv => TypeOK
  BY DEF IInv
<1>2. QED
  BY <1>1, Invariance, PTL

\* Two turns never run at once, whoever calls what in which order.
THEOREM TurnsAreSerial == Spec => []OneTurnAtATime
<1>1. IInv => OneTurnAtATime
  BY DEF IInv
<1>2. QED
  BY <1>1, Invariance, PTL

\* The flag that every "may I start a turn?" decision reads is set whenever a
\* turn exists, one that an earlier reactor left behind included.
THEOREM FlagCoversTurns == Spec => []InFlightCoversTurn
<1>1. IInv => InFlightCoversTurn
  BY DEF IInv
<1>2. QED
  BY <1>1, Invariance, PTL
-----------------------------------------------------------------------------
(* The loop detector *)

\* Delivered when no turn is left, the head of the queue starts with no streak.
LEMMA DeliverKeepsStreak ==
  ASSUME TypeOK, NEW q \in Seq(Entry), q # <<>>, NEW st \in [Msgs -> Stages],
         \A m \in Msgs : st[m] \in {"none", "done"}, DeliverFrom(q, st)
  PROVE  LoopInv'
<1>0. Head(q) \in Entry
  BY HeadTailProperties
<1>1. Head(q).msg \in Msgs
  BY <1>0 DEF Entry
<1>2. rounds \in [Msgs -> 0 .. LoopLimit] /\ LoopLimit \in Nat
  BY ReactorAssumption DEF TypeOK, TurnType
<1>3. CASE Head(q).form = "raw"
  <2>1. /\ event' = Ev("AGENT_TURN_REQUESTED", Head(q).msg) /\ streak' = 0
        /\ stage' = [st EXCEPT ![Head(q).msg] = "dispatch"]
        /\ rounds' = [rounds EXCEPT ![Head(q).msg] = 0]
    BY <1>3 DEF DeliverFrom, ResetLoop
  <2>2. QED
    BY <1>1, <1>2, <2>1 DEF LoopInv, StreakIsOwn, LoopDetectedForOwnRounds, Ev
<1>4. CASE Head(q).form # "raw"
  BY <1>4 DEF DeliverFrom, LoopInv, StreakIsOwn, LoopDetectedForOwnRounds, Ev
<1>5. QED
  BY <1>3, <1>4

\* The stages a delivery starts from, when no turn is active.
LEMMA NobodyActive ==
  ASSUME IInv, CanDeliver
  PROVE  \A m \in Msgs : stage[m] \in {"none", "done"}
BY DEF IInv, TypeOK, TurnType, Stages, InFlightCoversTurn, Active, CanDeliver

\* A handler that goes past a hook, or adds a round, keeps streak and rounds together.
LEMMA HandlersKeepLoopInv ==
  ASSUME IInv, LoopInv, Handler
  PROVE  LoopInv'
<1> USE DEF LoopInv, StreakIsOwn, LoopDetectedForOwnRounds
<1>0. /\ rounds \in [Msgs -> 0 .. LoopLimit] /\ streak \in 0 .. LoopLimit /\ LoopLimit \in Nat \ {0}
      /\ stage \in [Msgs -> Stages] /\ queue \in Seq(Entry)
  BY ReactorAssumption DEF IInv, TypeOK, TurnType, LoopType, QueueType
<1>1. CASE OnUserMessage
  <2>1. CASE ~aborted /\ CanDeliver
    BY <1>0, <1>1, <2>1, NobodyActive DEF OnUserMessage, ResetLoop, loopVars, turnVars, NoEvent, Ev, IInv, StackOK
  <2>2. CASE ~(~aborted /\ CanDeliver)
    BY <1>1, <2>2 DEF OnUserMessage, loopVars, turnVars, NoEvent, Queued
  <2>3. QED
    BY <2>1, <2>2
<1>2. CASE OnUserInterrupt
  <2> DEFINE pushed == IF event.msg # NoMsg
                       THEN Append(queue, [msg |-> event.msg, form |-> "steer"]) ELSE queue
  <2>1. CASE event.msg # NoMsg /\ CanDeliver
    <3>1. [msg |-> event.msg, form |-> "steer"] \in Entry
      BY <2>1 DEF IInv, TypeOK, StackType, Event, Entry, Forms
    <3>2. pushed \in Seq(Entry) /\ pushed # <<>>
      BY <1>0, <2>1, <3>1, AppendProperties
    <3>3. DeliverFrom(pushed, stage)
      BY <1>2, <2>1 DEF OnUserInterrupt
    <3> HIDE DEF pushed, LoopInv
    <3>4. QED
      BY <1>0, <2>1, <3>2, <3>3, NobodyActive, DeliverKeepsStreak DEF IInv
  <2>2. CASE ~(event.msg # NoMsg /\ CanDeliver)
    BY <1>0, <1>2, <2>2 DEF OnUserInterrupt, ClearRetries, loopVars, Completed, NoEvent
  <2>3. QED
    BY <2>1, <2>2
<1>3. CASE OnUserFollowupQueued
  <2> DEFINE pushed == Append(queue, [msg |-> event.msg, form |-> event.arg])
  <2>1. CASE CanDeliver
    <3>1. [msg |-> event.msg, form |-> event.arg] \in Entry
      BY <1>3 DEF OnUserFollowupQueued, IInv, StackOK, Entry
    <3>2. pushed \in Seq(Entry) /\ pushed # <<>>
      BY <1>0, <3>1, AppendProperties
    <3>3. DeliverFrom(pushed, stage)
      BY <1>3, <2>1 DEF OnUserFollowupQueued
    <3> HIDE DEF pushed, LoopInv
    <3>4. QED
      BY <1>0, <2>1, <3>2, <3>3, NobodyActive, DeliverKeepsStreak DEF IInv
  <2>2. CASE ~CanDeliver
    BY <1>3, <2>2 DEF OnUserFollowupQueued, loopVars, turnVars, NoEvent
  <2>3. QED
    BY <2>1, <2>2
<1>4. CASE OnAgentTurnRequested
  BY <1>4 DEF OnAgentTurnRequested, Completed, Ev, loopVars, turnVars
<1>5. CASE OnLlmCallRequested
  BY <1>0, <1>5 DEF OnLlmCallRequested, NoEvent, loopVars, IInv, StackOK, TurnEvents
<1>6. CASE OnAgentMessageEnd
  <2> DEFINE m == event.msg
  <2>1. m \in Msgs /\ stage[m] = "dispatch"
    BY <1>6 DEF OnAgentMessageEnd, IInv, StackOK, TurnEvents
  <2>2. CASE UNCHANGED <<stage, rounds, tool, loopVars>>
    BY <1>6, <2>2 DEF OnAgentMessageEnd, Completed, loopVars, NoEvent
  <2>3. CASE /\ stage' = [stage EXCEPT ![m] = "tools"] /\ event' = NoEvent
             /\ rounds' = [rounds EXCEPT ![m] = IF @ < LoopLimit THEN @ + 1 ELSE @]
             /\ \E sig \in Sigs : streak' = StreakWith(sig)
    <3>1. \A n \in Msgs : n # m => ~Active(n)
      BY <2>1 DEF IInv, OneTurnAtATime, Active
    <3>2. streak <= rounds[m]
      BY <2>1
    <3>3. streak' <= rounds'[m]
      BY <1>0, <2>1, <2>3, <3>2 DEF StreakWith
    <3>4. QED
      BY <1>0, <2>1, <2>3, <3>1, <3>3 DEF Active, NoEvent
  <2>4. QED
    BY <1>6, <2>2, <2>3 DEF OnAgentMessageEnd
<1>7. CASE OnIntentToolCall
  BY <1>7 DEF OnIntentToolCall, NoEvent, ToolEnd, loopVars
<1>8. CASE OnToolExecutionEnd
  BY <1>0, <1>8 DEF OnToolExecutionEnd, NoEvent, Ev, loopVars, IInv, StackOK
<1>9. CASE OnToolResultsAggregated
  <2>1. event.msg \in Msgs /\ stage[event.msg] = "dispatch"
    BY <1>9 DEF OnToolResultsAggregated, IInv, StackOK, TurnEvents
  <2>2. QED
    BY <1>0, <1>9, <2>1 DEF OnToolResultsAggregated, Completed, Ev, loopVars, turnVars
<1>10. CASE OnLlmCallFailed
  BY <1>0, <1>10 DEF OnLlmCallFailed, ScheduleRetry, Completed, NoEvent, loopVars, IInv, StackOK, TurnEvents
<1>11. CASE OnAgentTurnCompleted
  <2> DEFINE over == IF event.msg = NoMsg THEN stage ELSE [stage EXCEPT ![event.msg] = "done"]
  <2>1. \/ event.msg \in Msgs /\ stage[event.msg] = "dispatch"
        \/ event.msg = NoMsg /\ event.arg = "aborted" /\ \A n \in Msgs : ~Active(n)
    BY <1>11 DEF OnAgentTurnCompleted, IInv, StackOK
  <2>2. over \in [Msgs -> Stages] /\ \A n \in Msgs : over[n] \in {"none", "done"}
    BY <1>0, <2>1 DEF IInv, OneTurnAtATime, Active, Stages, NoMsg, Msgs
  <2>3. CASE DiscardQueue(over) \/ GoIdle(over)
    BY <2>2, <2>3 DEF DiscardQueue, GoIdle, NoEvent, Ev
  <2>4. CASE RetryCompletion(event.msg)
    BY <1>0, <2>1, <2>4 DEF RetryCompletion, ScheduleRetry, loopVars, NoEvent
  <2>5. CASE DrainQueue(over)
    <3> HIDE DEF over, LoopInv
    <3> QED
      BY <1>0, <2>2, <2>5, DeliverKeepsStreak DEF DrainQueue, IInv
  <2>6. QED
    BY <1>11, <2>3, <2>4, <2>5 DEF OnAgentTurnCompleted
<1>12. CASE OnCompactionRequested
  BY <1>12 DEF OnCompactionRequested, NoEvent, loopVars, turnVars
<1>13. CASE OnCompactionSettled
  <2>1. CASE CanDeliver /\ queue # <<>>
    <3> HIDE DEF LoopInv
    <3> QED
      BY <1>0, <1>13, <2>1, NobodyActive, DeliverKeepsStreak DEF OnCompactionSettled, IInv
  <2>2. CASE ~(CanDeliver /\ queue # <<>>)
    BY <1>13, <2>2 DEF OnCompactionSettled, NoEvent, loopVars, turnVars
  <2>3. QED
    BY <2>1, <2>2
<1>14. CASE AfterAppend
  BY <1>14 DEF AfterAppend, loopVars, turnVars
<1>15. QED
  BY <1>1, <1>2, <1>3, <1>4, <1>5, <1>6, <1>7, <1>8, <1>9, <1>10, <1>11, <1>12, <1>13, <1>14
  DEF Handler

\* What is not a handler starts turns with a new streak or leaves both alone.
LEMMA NextKeepsLoopInv ==
  ASSUME IInv, LoopInv, [Next]_vars
  PROVE  LoopInv'
<1>0. /\ rounds \in [Msgs -> 0 .. LoopLimit] /\ streak \in 0 .. LoopLimit /\ LoopLimit \in Nat \ {0}
      /\ stage \in [Msgs -> Stages]
  BY ReactorAssumption DEF IInv, TypeOK, TurnType, LoopType
<1> USE DEF LoopInv, StreakIsOwn, LoopDetectedForOwnRounds
<1>1. CASE Handler
  BY <1>1, HandlersKeepLoopInv
<1>2. CASE Microtask
  <2>1. CASE StartReactor
    BY <2>1 DEF StartReactor, loopVars, turnVars
  <2>2. CASE AppendPrompt \/ SettledCheck
    BY <2>2 DEF AppendPrompt, SettledCheck, Ev, loopVars, turnVars
  <2>3. CASE ApprovalDecided
    BY <2>3 DEF ApprovalDecided, ToolEnd, NoEvent, loopVars
  <2>4. CASE FinishPrompt
    BY <1>0, <2>4 DEF FinishPrompt, ClearRetries, loopVars
  <2>5. QED
    BY <1>2, <2>1, <2>2, <2>3, <2>4 DEF Microtask
<1>3. CASE Completion
  <2>1. ASSUME NEW m \in Msgs, HookReturns(m) PROVE LoopInv'
    BY <1>0, <2>1 DEF HookReturns, ResetLoop, Emit, Ev, NoEvent
  <2>2. ASSUME NEW m \in Msgs, LlmResponds(m) \/ LlmFails(m) \/ RetryFires(m) PROVE LoopInv'
    BY <1>0, <2>2 DEF LlmResponds, LlmFails, RetryFires, Emit, Ev, NoEvent, loopVars
  <2>3. CASE \E m \in Msgs, t \in Tools : ToolReturns(m, t)
    BY <2>3 DEF ToolReturns, ToolEnd, NoEvent, loopVars
  <2>4. CASE CompactionReturns \/ \E c \in {"idle", "stray"} : BackgroundCompactionReturns(c)
    BY <2>4 DEF CompactionReturns, BackgroundCompactionReturns, Ev, NoEvent, loopVars, turnVars
  <2>5. QED
    BY <1>3, <2>1, <2>2, <2>3, <2>4 DEF Completion
<1>4. CASE User
  <2>1. CASE Prompt \/ Steer \/ FollowUp \/ Abort \/ Compact
    BY <2>1 DEF Prompt, Steer, FollowUp, Abort, Compact, Ev, Queued, NoEvent, loopVars, turnVars
  <2>2. CASE CancelQueued \/ ClearQueued \/ SteerQueued
    BY <2>2 DEF CancelQueued, ClearQueued, SteerQueued, Ev, loopVars, turnVars
  <2>3. CASE \E m \in Msgs, t \in Tools : Decide(m, t)
    BY <2>3 DEF Decide, loopVars
  <2>4. QED
    BY <1>4, <2>1, <2>2, <2>3 DEF User
<1>5. CASE (\E m \in Msgs : StreamIdle(m)) \/ UNCHANGED vars
  BY <1>5 DEF StreamIdle, vars, loopVars, turnVars
<1>6. QED
  BY <1>1, <1>2, <1>3, <1>4, <1>5 DEF Next

\* The detector stops a turn only for rounds of its own, whatever turns, retries
\* and reactors came before it.
THEOREM LoopsAreOwn == Spec => []LoopDetectedForOwnRounds
<1>1. Init => LoopInv
  BY DEF Init, LoopInv, StreakIsOwn, LoopDetectedForOwnRounds, NoEvent
<1>2. IInv /\ LoopInv /\ [Next]_vars => LoopInv'
  BY NextKeepsLoopInv
<1>3. LoopInv => LoopDetectedForOwnRounds
  BY DEF LoopInv
<1>4. QED
  BY <1>1, <1>2, <1>3, Invariance, PTL DEF Spec
-----------------------------------------------------------------------------
(* The retry timers *)

\* What a delivery changes, as far as the timers are concerned.
LEMMA DeliverSetsNoTimer ==
  ASSUME NEW q \in Seq(Entry), q # <<>>, NEW st \in [Msgs -> Stages],
         \A m \in Msgs : st[m] # "retry", DeliverFrom(q, st)
  PROVE  /\ Retrying' = {} /\ event'.type \notin Replies \cup {"AGENT_TURN_COMPLETED"}
         /\ event' # NoEvent
<1>0. Head(q) \in Entry
  BY HeadTailProperties
<1>1. Head(q).msg \in Msgs
  BY <1>0 DEF Entry
<1>2. CASE Head(q).form = "raw"
  <2>1. event' = Ev("AGENT_TURN_REQUESTED", Head(q).msg) /\ stage' = [st EXCEPT ![Head(q).msg] = "dispatch"]
    BY <1>2 DEF DeliverFrom
  <2>2. QED
    BY <1>1, <2>1 DEF Retrying, Ev, Replies, NoEvent
<1>3. CASE Head(q).form # "raw"
  <2>1. event' = Ev("USER_MESSAGE", Head(q).msg) /\ stage' = st
    BY <1>3 DEF DeliverFrom
  <2>2. QED
    BY <2>1 DEF Retrying, Ev, Replies, NoEvent
<1>4. QED
  BY <1>2, <1>3

\* A handler sets a timer only for a turn that ended or failed with its signal unaborted.
LEMMA HandlersKeepRetryInv ==
  ASSUME IInv, RetryInv, IntentsOK, Handler
  PROVE  RetryInv'
<1> USE DEF RetryInv, TimersOK, RepliesOK, FailedOK, AbortingOK, LiveOK, Failed, Replies, Retrying
<1>0. stage \in [Msgs -> Stages] /\ queue \in Seq(Entry)
  BY DEF IInv, TypeOK, TurnType, QueueType
<1>1. CASE OnUserMessage
  <2>1. Live /\ Live' /\ UNCHANGED <<after, aborted, compacting>>
    BY <1>1 DEF OnUserMessage, NoEvent, Live, promptVars
  <2>2. CASE UNCHANGED stage
    BY <1>1, <2>1, <2>2 DEF OnUserMessage, NoEvent, Queued, Ev
  <2>3. CASE \E s \in {"hook", "dispatch"} : stage' = [stage EXCEPT ![event.msg] = s]
    BY <1>0, <1>1, <2>1, <2>3 DEF OnUserMessage, NoEvent, Queued, Ev
  <2>4. QED
    BY <1>1, <2>2, <2>3 DEF OnUserMessage, turnVars
<1>2. CASE OnUserInterrupt
  <2> DEFINE pushed == IF event.msg # NoMsg
                       THEN Append(queue, [msg |-> event.msg, form |-> "steer"]) ELSE queue
  <2>0. Live /\ Live' /\ UNCHANGED <<after, compacting>>
    BY <1>2 DEF OnUserInterrupt, NoEvent, Live, promptVars
  <2>1. CASE event.msg # NoMsg /\ CanDeliver
    <3>1. [msg |-> event.msg, form |-> "steer"] \in Entry
      BY <2>1 DEF IInv, TypeOK, StackType, Event, Entry, Forms
    <3>2. pushed \in Seq(Entry) /\ pushed # <<>>
      BY <1>0, <2>1, <3>1, AppendProperties
    <3>3. DeliverFrom(pushed, stage)
      BY <1>2, <2>1 DEF OnUserInterrupt
    <3> HIDE DEF pushed
    <3>4. Retrying' = {} /\ event'.type \notin Replies \cup {"AGENT_TURN_COMPLETED"}
      BY <1>0, <2>1, <3>2, <3>3, NobodyActive, DeliverSetsNoTimer DEF IInv
    <3>5. QED
      BY <2>0, <3>4
  <2>2. CASE ~(event.msg # NoMsg /\ CanDeliver)
    <3>1. stage' = ClearRetries /\ event' \in {Completed(NoMsg, "aborted"), NoEvent}
      BY <1>2, <2>2 DEF OnUserInterrupt
    <3>2. Retrying' = {}
      BY <1>0, <3>1 DEF ClearRetries
    <3>3. QED
      BY <2>0, <3>1, <3>2 DEF Completed, NoEvent
  <2>3. QED
    BY <2>1, <2>2
<1>3. CASE OnUserFollowupQueued
  <2> DEFINE pushed == Append(queue, [msg |-> event.msg, form |-> event.arg])
  <2>0. Live /\ Live' /\ UNCHANGED <<after, compacting>>
    BY <1>3 DEF OnUserFollowupQueued, NoEvent, Live, promptVars
  <2>1. CASE CanDeliver
    <3>1. [msg |-> event.msg, form |-> event.arg] \in Entry
      BY <1>3 DEF OnUserFollowupQueued, IInv, StackOK, Entry
    <3>2. pushed \in Seq(Entry) /\ pushed # <<>>
      BY <1>0, <3>1, AppendProperties
    <3>3. DeliverFrom(pushed, stage)
      BY <1>3, <2>1 DEF OnUserFollowupQueued
    <3> HIDE DEF pushed
    <3>4. Retrying' = {} /\ event'.type \notin Replies \cup {"AGENT_TURN_COMPLETED"}
      BY <1>0, <2>1, <3>2, <3>3, NobodyActive, DeliverSetsNoTimer
    <3>5. QED
      BY <2>0, <3>4
  <2>2. CASE ~CanDeliver
    BY <1>3, <2>0, <2>2 DEF OnUserFollowupQueued, turnVars, NoEvent
  <2>3. QED
    BY <2>1, <2>2
<1>4. CASE OnAgentTurnRequested \/ OnToolResultsAggregated
  <2>1. /\ Live /\ Live' /\ UNCHANGED <<after, aborted, compacting, stage>>
        /\ event'.type \notin Replies /\ event'.type # "USER_INTERRUPT" /\ event'.arg # "error"
    BY <1>4 DEF OnAgentTurnRequested, OnToolResultsAggregated, NoEvent, Live, promptVars, flagVars,
       turnVars, Ev, Completed
  <2>2. QED
    BY <1>4, <2>1 DEF OnAgentTurnRequested, OnToolResultsAggregated
<1>5. CASE OnLlmCallRequested
  <2>1. Live /\ Live' /\ UNCHANGED <<after, aborted, compacting>> /\ event' = NoEvent
    BY <1>5 DEF OnLlmCallRequested, NoEvent, Live, promptVars, flagVars
  <2>2. Retrying' \subseteq Retrying
    BY <1>0, <1>5 DEF OnLlmCallRequested
  <2>3. QED
    BY <1>5, <2>1, <2>2 DEF OnLlmCallRequested, NoEvent
<1>6. CASE OnAgentMessageEnd
  <2>1. Live /\ Live' /\ UNCHANGED <<after, aborted, compacting>> /\ after = "none"
    BY <1>6 DEF OnAgentMessageEnd, NoEvent, Live, promptVars, flagVars
  <2>2. Retrying' \subseteq Retrying
    BY <1>0, <1>6 DEF OnAgentMessageEnd
  <2>3. event'.type \notin Replies /\ (event'.arg = "error" => ~aborted)
    BY <1>6 DEF OnAgentMessageEnd, NoEvent, Completed
  <2>4. QED
    BY <2>1, <2>2, <2>3
<1>7. CASE OnIntentToolCall
  <2>1. UNCHANGED <<phase, after, aborted, compacting, stage>>
    BY <1>7 DEF OnIntentToolCall, promptVars, flagVars
  <2>2. event' = NoEvent \/ \E m \in Msgs, t \in Tools : event' = ToolEnd(m, t) /\ tool[m][t] = "intent"
    BY <1>7 DEF OnIntentToolCall, Intents
  <2>3. Live /\ Live' /\ event.type \notin Replies \cup {"USER_INTERRUPT"}
    BY <1>7, <2>1 DEF OnIntentToolCall, IntentsOK, NoEvent, Live
  <2>4. event'.type \notin Replies \cup {"AGENT_TURN_COMPLETED"}
    BY <2>2 DEF NoEvent, ToolEnd
  <2>5. QED
    BY <2>1, <2>3, <2>4
<1>8. CASE OnToolExecutionEnd
  <2>1. Live /\ Live' /\ UNCHANGED <<after, aborted, compacting>>
    BY <1>8 DEF OnToolExecutionEnd, NoEvent, Live, promptVars, flagVars
  <2>2. Retrying' \subseteq Retrying
    BY <1>0, <1>8 DEF OnToolExecutionEnd
  <2>3. event'.type \notin Replies \cup {"USER_INTERRUPT", "AGENT_TURN_COMPLETED"}
    BY <1>8 DEF OnToolExecutionEnd, NoEvent, Ev
  <2>4. QED
    BY <1>8, <2>1, <2>2, <2>3 DEF OnToolExecutionEnd
<1>9. CASE OnLlmCallFailed
  <2>1. Live /\ Live' /\ UNCHANGED <<after, aborted, compacting>> /\ after = "none"
    BY <1>9 DEF OnLlmCallFailed, NoEvent, Live, promptVars, flagVars
  <2>2. ~aborted \/ Retrying' \subseteq Retrying
    BY <1>0, <1>9 DEF OnLlmCallFailed
  <2>3. event'.type \notin Replies /\ event'.arg # "error"
    BY <1>9 DEF OnLlmCallFailed, ScheduleRetry, NoEvent, Completed
  <2>4. QED
    BY <2>1, <2>2, <2>3
<1>10. CASE OnAgentTurnCompleted
  <2> DEFINE over == IF event.msg = NoMsg THEN stage ELSE [stage EXCEPT ![event.msg] = "done"]
  <2>0. Live /\ Live' /\ UNCHANGED <<after, compacting>>
    BY <1>10 DEF OnAgentTurnCompleted, NoEvent, Live
  <2>1. \/ event.msg \in Msgs /\ stage[event.msg] = "dispatch"
        \/ event.msg = NoMsg /\ event.arg = "aborted" /\ \A n \in Msgs : ~Active(n)
    BY <1>10 DEF OnAgentTurnCompleted, IInv, StackOK
  <2>2. over \in [Msgs -> Stages] /\ \A n \in Msgs : over[n] # "retry"
    BY <1>0, <2>1 DEF IInv, OneTurnAtATime, Active, Stages, NoMsg, Msgs
  <2>3. CASE DiscardQueue(over) \/ GoIdle(over)
    <3>1. Retrying' = {} /\ event'.type \notin Replies \cup {"AGENT_TURN_COMPLETED"}
      BY <2>2, <2>3 DEF DiscardQueue, GoIdle, NoEvent, Ev
    <3>2. QED
      BY <2>0, <3>1
  <2>4. CASE RetryCompletion(event.msg)
    <3>1. event.arg = "error" /\ UNCHANGED aborted /\ event' = NoEvent
      BY <2>4 DEF RetryCompletion, ScheduleRetry
    <3>2. ~aborted /\ after = "none"
      BY <1>10, <3>1 DEF OnAgentTurnCompleted
    <3>3. QED
      BY <2>0, <3>1, <3>2 DEF NoEvent
  <2>5. CASE DrainQueue(over)
    <3> HIDE DEF over
    <3>1. Retrying' = {} /\ event'.type \notin Replies \cup {"AGENT_TURN_COMPLETED"}
      BY <1>0, <2>2, <2>5, DeliverSetsNoTimer DEF DrainQueue
    <3>2. QED
      BY <2>0, <3>1
  <2>6. QED
    BY <1>10, <2>3, <2>4, <2>5 DEF OnAgentTurnCompleted
<1>11. CASE OnCompactionRequested
  <2>1. Live /\ Live' /\ UNCHANGED <<after, aborted, stage>> /\ event' = NoEvent
    BY <1>11 DEF OnCompactionRequested, NoEvent, Live, promptVars, turnVars
  <2>2. QED
    BY <1>11, <2>1 DEF OnCompactionRequested, NoEvent
<1>12. CASE OnCompactionSettled
  <2>0. Live /\ Live' /\ UNCHANGED <<after, compacting>>
    BY <1>12 DEF OnCompactionSettled, NoEvent, Live
  <2>1. CASE CanDeliver /\ queue # <<>>
    <3>1. Retrying' = {} /\ event'.type \notin Replies \cup {"AGENT_TURN_COMPLETED"}
      BY <1>0, <1>12, <2>1, NobodyActive, DeliverSetsNoTimer DEF OnCompactionSettled
    <3>2. QED
      BY <2>0, <3>1
  <2>2. CASE ~(CanDeliver /\ queue # <<>>)
    BY <1>12, <2>0, <2>2 DEF OnCompactionSettled, NoEvent, turnVars
  <2>3. QED
    BY <2>1, <2>2
<1>13. CASE AfterAppend
  <2>1. /\ UNCHANGED <<phase, event, stage>> /\ event = NoEvent /\ after' = "none"
        /\ aborted' = (aborted \/ after = "interrupt") /\ compacting' = StillCompacting
    BY <1>13 DEF AfterAppend, promptVars, turnVars
  <2>2. QED
    BY <2>1 DEF StillCompacting, NoEvent, Live
<1>14. QED
  BY <1>1, <1>2, <1>3, <1>4, <1>5, <1>6, <1>7, <1>8, <1>9, <1>10, <1>11, <1>12, <1>13
  DEF Handler

\* Tool calls wait for their INTENT_TOOL_CALL only while the reactor that appends it lives:
\* a stop waits for an empty stack, and only a handler announces calls.
LEMMA NextKeepsIntents ==
  ASSUME IInv, RetryInv, IntentsOK, [Next]_vars
  PROVE  IntentsOK'
<1>0. tool \in [Msgs -> [Tools -> ToolStates]]
  BY DEF IInv, TypeOK, TurnType
<1> USE DEF IntentsOK, Intents
<1>1. CASE Handler
  <2>1. CASE OnIntentToolCall \/ AfterAppend
    <3>1. phase' = phase /\ (OnIntentToolCall => Live) /\ (AfterAppend => tool' = tool)
      BY <2>1 DEF OnIntentToolCall, AfterAppend, promptVars, turnVars
    <3>2. QED
      BY <2>1, <3>1 DEF Live
  <2>2. CASE ~(OnIntentToolCall \/ AfterAppend)
    <3>1. event # NoEvent
      BY <1>1, <2>2 DEF Handler, OnUserMessage, OnUserInterrupt, OnUserFollowupQueued,
         OnAgentTurnRequested, OnLlmCallRequested, OnAgentMessageEnd, OnToolExecutionEnd,
         OnToolResultsAggregated, OnLlmCallFailed, OnAgentTurnCompleted, OnCompactionRequested,
         OnCompactionSettled, NoEvent
    <3>2. phase' = phase
      BY <1>1, <2>2 DEF Handler, OnUserMessage, OnUserInterrupt, OnUserFollowupQueued,
         OnAgentTurnRequested, OnLlmCallRequested, OnAgentMessageEnd, OnToolExecutionEnd,
         OnToolResultsAggregated, OnLlmCallFailed, OnAgentTurnCompleted, OnCompactionRequested,
         OnCompactionSettled, promptVars
    <3>3. QED
      BY <3>1, <3>2 DEF RetryInv, LiveOK, Live
  <2>3. QED
    BY <2>1, <2>2
<1>2. ASSUME Intents = {}, \A m \in Msgs, t \in Tools : tool'[m][t] = "intent" => tool[m][t] = "intent"
      PROVE  IntentsOK'
  BY <1>2
<1>3. CASE Microtask
  <2>1. Intents = {}
    BY <1>3 DEF Microtask, StartReactor, AppendPrompt, SettledCheck, FinishPrompt,
       ApprovalDecided, StackEmpty
  <2>2. \A m \in Msgs, t \in Tools : tool'[m][t] = "intent" => tool[m][t] = "intent"
    <3>1. CASE StartReactor \/ AppendPrompt \/ SettledCheck
      BY <3>1 DEF StartReactor, AppendPrompt, SettledCheck, turnVars
    <3>2. CASE FinishPrompt
      BY <1>0, <3>2 DEF FinishPrompt, DrainedApprovals
    <3>3. CASE ApprovalDecided
      <4>1. PICK mt \in Msgs \X Tools, v \in {"running", "lost"} :
              tool' = [tool EXCEPT ![mt[1]][mt[2]] = v]
        BY <3>3 DEF ApprovalDecided, Decided
      <4>2. QED
        BY <1>0, <4>1
    <3>4. QED
      BY <1>3, <3>1, <3>2, <3>3 DEF Microtask
  <2>3. QED
    BY <1>2, <2>1, <2>2
<1>4. CASE Completion
  <2>1. Intents = {}
    BY <1>4 DEF Completion, HookReturns, LlmResponds, LlmFails, RetryFires, ToolReturns,
       CompactionReturns, BackgroundCompactionReturns, MacroTask, StackEmpty
  <2>2. \A m \in Msgs, t \in Tools : tool'[m][t] = "intent" => tool[m][t] = "intent"
    BY <1>0, <1>4 DEF Completion, HookReturns, LlmResponds, LlmFails, RetryFires, ToolReturns,
       CompactionReturns, BackgroundCompactionReturns, turnVars
  <2>3. QED
    BY <1>2, <2>1, <2>2
<1>5. CASE User
  <2>1. Intents = {}
    BY <1>5 DEF User, Prompt, Steer, FollowUp, Abort, Compact, CancelQueued, ClearQueued,
       SteerQueued, Take, Decide, UserCall, StackEmpty
  <2>2. \A m \in Msgs, t \in Tools : tool'[m][t] = "intent" => tool[m][t] = "intent"
    BY <1>0, <1>5 DEF User, Prompt, Steer, FollowUp, Abort, Compact, CancelQueued, ClearQueued,
       SteerQueued, Take, Decide, turnVars
  <2>3. QED
    BY <1>2, <2>1, <2>2
<1>6. CASE UNCHANGED vars \/ \E m \in Msgs : StreamIdle(m)
  BY <1>6 DEF StreamIdle, vars, promptVars, turnVars, Live, MacroTask, StackEmpty
<1>7. QED
  BY <1>1, <1>3, <1>4, <1>5, <1>6 DEF Next

\* Prompts, steers, completions and the user's calls leave RetryInv as it is.
LEMMA NextKeepsRetryInv ==
  ASSUME IInv, RetryInv, IntentsOK, [Next]_vars
  PROVE  RetryInv'
<1>0. stage \in [Msgs -> Stages]
  BY DEF IInv, TypeOK, TurnType
<1> USE DEF RetryInv, TimersOK, RepliesOK, FailedOK, AbortingOK, LiveOK, Failed, Replies, Retrying
<1>1. CASE Handler
  BY <1>1, HandlersKeepRetryInv
<1>2. CASE Microtask
  <2>1. CASE StartReactor
    BY <2>1 DEF StartReactor, StackEmpty, NoEvent, Live, turnVars
  <2>2. CASE AppendPrompt \/ SettledCheck
    BY <2>2 DEF AppendPrompt, SettledCheck, StackEmpty, Ev, NoEvent, Live, PromptOK, IInv, flagVars, turnVars
  <2>3. CASE ApprovalDecided
    BY <2>3 DEF ApprovalDecided, StackEmpty, ToolEnd, NoEvent, Live, promptVars, flagVars
  <2>4. CASE FinishPrompt
    <3>1. Retrying' = {}
      BY <1>0, <2>4 DEF FinishPrompt, ClearRetries
    <3>2. QED
      BY <2>4, <3>1 DEF FinishPrompt, StackEmpty, NoEvent
  <2>5. QED
    BY <1>2, <2>1, <2>2, <2>3, <2>4 DEF Microtask
<1>3. CASE Completion
  <2>1. ASSUME NEW m \in Msgs, HookReturns(m) \/ LlmResponds(m) \/ LlmFails(m) \/ RetryFires(m)
        PROVE  RetryInv'
    <3>1. /\ after = "none" /\ UNCHANGED <<phase, after, aborted, compacting>> /\ event = NoEvent
      BY <2>1 DEF HookReturns, LlmResponds, LlmFails, RetryFires, MacroTask, StackEmpty, promptVars,
         flagVars
    <3>2. Retrying' \subseteq Retrying
      BY <1>0, <2>1 DEF HookReturns, LlmResponds, LlmFails, RetryFires, Emit
    <3>3. event' = NoEvent \/ (Live /\ event'.type # "AGENT_TURN_COMPLETED")
      BY <2>1, <3>1 DEF HookReturns, LlmResponds, LlmFails, RetryFires, Emit, Ev
    <3>4. QED
      BY <3>1, <3>2, <3>3 DEF NoEvent, Live
  <2>2. ASSUME NEW m \in Msgs, NEW t \in Tools, ToolReturns(m, t) PROVE RetryInv'
    BY <2>2 DEF ToolReturns, MacroTask, StackEmpty, ToolEnd, NoEvent, Live, promptVars, flagVars
  <2>3. CASE CompactionReturns
    BY <2>3 DEF CompactionReturns, Ev, NoEvent, Live, promptVars, flagVars, turnVars
  <2>4. ASSUME NEW c \in {"idle", "stray"}, BackgroundCompactionReturns(c) PROVE RetryInv'
    BY <2>4 DEF BackgroundCompactionReturns, MacroTask, StackEmpty, Ev, NoEvent, Live, flagVars, turnVars
  <2>5. QED
    BY <1>3, <2>1, <2>2, <2>3, <2>4 DEF Completion
<1>4. CASE User
  <2>1. CASE Prompt
    BY <2>1 DEF Prompt, UserCall, StackEmpty, NoEvent, Live, flagVars, turnVars
  <2>2. CASE Steer \/ FollowUp \/ Abort \/ Compact
    BY <2>2 DEF Steer, FollowUp, Abort, Compact, UserCall, StackEmpty, Ev, Queued, NoEvent, Live,
       promptVars, flagVars, turnVars
  <2>3. CASE CancelQueued \/ ClearQueued
    BY <2>3 DEF CancelQueued, ClearQueued, Live, promptVars, flagVars, turnVars
  <2>4. CASE SteerQueued
    BY <2>4 DEF SteerQueued, Take, UserCall, StackEmpty, Ev, NoEvent, Live, promptVars, flagVars, turnVars
  <2>5. ASSUME NEW m \in Msgs, NEW t \in Tools, Decide(m, t) PROVE RetryInv'
    BY <2>5 DEF Decide, Live, promptVars, flagVars
  <2>6. QED
    BY <1>4, <2>1, <2>2, <2>3, <2>4, <2>5 DEF User
<1>5. ASSUME NEW m \in Msgs, StreamIdle(m) PROVE RetryInv'
  <2>1. stage[m] = "llm" /\ Retrying = {}
    BY <1>5 DEF StreamIdle, IInv, OneTurnAtATime, Active
  <2>2. QED
    BY <1>5, <2>1 DEF StreamIdle, MacroTask, StackEmpty, NoEvent, Live, promptVars, turnVars
<1>6. CASE UNCHANGED vars
  BY <1>6 DEF vars, promptVars, flagVars, turnVars, Live
<1>7. QED
  BY <1>1, <1>2, <1>3, <1>4, <1>5, <1>6 DEF Next

LEMMA RetryInvariance == Spec => [](RetryInv /\ IntentsOK)
<1>1. Init => RetryInv /\ IntentsOK
  BY DEF Init, RetryInv, IntentsOK, Intents, TimersOK, RepliesOK, FailedOK, AbortingOK,
     LiveOK, Failed, Replies, Retrying, Live, NoEvent
<1>2. IInv /\ (RetryInv /\ IntentsOK) /\ [Next]_vars => (RetryInv /\ IntentsOK)'
  BY NextKeepsRetryInv, NextKeepsIntents
<1>3. QED
  BY <1>1, <1>2, Invariance, PTL DEF Spec

\* A retry timer belongs to a live reactor whose signal is not aborted: what would
\* strand it, an abort, an interrupt or the end of prompt(), clears it first.
THEOREM RetriesAreNotStranded == Spec => []RetryNeverStranded
<1>1. RetryInv /\ IntentsOK => RetryNeverStranded
  BY DEF RetryInv, TimersOK, RetryNeverStranded
<1>2. QED
  BY <1>1, RetryInvariance, PTL

------------------------------------------------------------------------------
(***************************************************************************)
(* What becomes of a message in TurnReactor: it is answered by at most one *)
(* turn (AnsweredOnce), it is not lost (NothingIsLost), once dropped it is *)
(* not answered (DroppedIsFinal), and a reactor that could answer it does  *)
(* not leave it in the queue (NoneIsStranded).                             *)
(*                                                                         *)
(* The first three follow one argument.  A message is in one place: in the *)
(* queue, in the log for the next reactor, named by the user's event on    *)
(* the call stack, or held by the prompt() that is to append it            *)
(* (PlacesOK).  Every step of the turn loop does to these places one of    *)
(* eight things (Course), and none of them brings back a message that is   *)
(* nowhere (NowhereStays).                                                 *)
(*                                                                         *)
(* Each theorem names the calls that it excludes; without any one of its   *)
(* hypotheses TLC finds it violated in some configuration.  ~MicroInputs:  *)
(* callers call between macrotasks, not from the continuations of the      *)
(* loop's own promises.  "idle" and "busy" not in CompactWhen: nobody asks *)
(* for a compaction while no reactor, or while one, is alive.              *)
(* ~AutoCompaction: nor does the policy.                                   *)
(***************************************************************************)

\* The entries of a queue, and: none twice.
Entries(q)  == {e \in Entry : \E i \in DOMAIN q : q[i] = e}
Distinct(q) == \A i, j \in DOMAIN q : q[i].msg = q[j].msg => i = j

\* What is read from a queue is an entry.
LEMMA InQueue ==
  ASSUME NEW q \in Seq(Entry)
  PROVE  /\ DOMAIN q = 1 .. Len(q) /\ Len(q) \in Nat
         /\ \A i \in DOMAIN q : q[i] \in Entries(q) /\ q[i] \in Entry
<1>1. DOMAIN q = 1 .. Len(q) /\ Len(q) \in Nat
  OBVIOUS
<1>2. \A i \in DOMAIN q : q[i] \in Entry
  OBVIOUS
<1> QED BY <1>1, <1>2 DEF Entries

\* An entry of a message the queue does not have is added.
LEMMA Added ==
  ASSUME NEW q \in Seq(Entry), NEW e \in Entry
  PROVE  /\ Append(q, e) \in Seq(Entry) /\ Append(q, e) # <<>>
         /\ Entries(Append(q, e)) = Entries(q) \cup {e}
         /\ Distinct(q) /\ (\A a \in Entries(q) : a.msg # e.msg) => Distinct(Append(q, e))
<1>1. /\ Append(q, e) \in Seq(Entry) /\ Append(q, e) # <<>> /\ Len(Append(q, e)) = Len(q) + 1
      /\ \A i \in 1 .. Len(q) : Append(q, e)[i] = q[i]
      /\ Append(q, e)[Len(q) + 1] = e
  BY AppendProperties
<1>2. DOMAIN q = 1 .. Len(q) /\ Len(q) \in Nat
  BY InQueue
<1>3. DOMAIN Append(q, e) = 1 .. Len(q) + 1
  BY <1>1, <1>2
<1>4. Entries(Append(q, e)) = Entries(q) \cup {e}
  BY <1>1, <1>2, <1>3 DEF Entries
<1>5. ASSUME Distinct(q), \A a \in Entries(q) : a.msg # e.msg PROVE Distinct(Append(q, e))
  BY <1>1, <1>2, <1>3, <1>5, InQueue DEF Distinct
<1> QED BY <1>1, <1>4, <1>5

\* What is read from a queue with one entry more.
LEMMA LastAdded ==
  ASSUME NEW q \in Seq(Entry), NEW e \in Entry
  PROVE  /\ \A i \in DOMAIN Append(q, e) :
              Append(q, e)[i] = e \/ (i \in DOMAIN q /\ Append(q, e)[i] = q[i])
         /\ \A i, j \in DOMAIN Append(q, e) :
              i # j => \/ i \in DOMAIN q /\ Append(q, e)[i] = q[i]
                       \/ j \in DOMAIN q /\ Append(q, e)[j] = q[j]
<1> DEFINE w == Append(q, e)
<1>1. /\ w \in Seq(Entry) /\ Len(w) = Len(q) + 1
      /\ \A i \in 1 .. Len(q) : w[i] = q[i]
      /\ w[Len(q) + 1] = e
  BY AppendProperties
<1>2. DOMAIN q = 1 .. Len(q) /\ Len(q) \in Nat
  BY InQueue
<1>3. DOMAIN w = 1 .. Len(q) + 1
  BY <1>1, <1>2
<1> HIDE DEF w
<1>4. ASSUME NEW i \in DOMAIN w
      PROVE  (i = Len(q) + 1 /\ w[i] = e) \/ (i \in DOMAIN q /\ w[i] = q[i])
  BY <1>1, <1>2, <1>3
<1>5. ASSUME NEW i \in DOMAIN w, NEW j \in DOMAIN w, i # j
      PROVE  (i \in DOMAIN q /\ w[i] = q[i]) \/ (j \in DOMAIN q /\ w[j] = q[j])
  BY <1>4, <1>5
<1>6. ASSUME NEW i \in DOMAIN w PROVE w[i] = e \/ (i \in DOMAIN q /\ w[i] = q[i])
  BY <1>4
<1> QED BY <1>5, <1>6 DEF w

\* The head of the queue is taken.
LEMMA Taken ==
  ASSUME NEW q \in Seq(Entry), q # <<>>, Distinct(q)
  PROVE  /\ Head(q) \in Entries(q) /\ Head(q) \in Entry
         /\ Entries(Tail(q)) = Entries(q) \ {Head(q)} /\ Distinct(Tail(q))
<1>1. /\ Head(q) \in Entry /\ Tail(q) \in Seq(Entry) /\ Head(q) = q[1] /\ Len(Tail(q)) = Len(q) - 1
      /\ \A i \in 1 .. Len(q) - 1 : Tail(q)[i] = q[i + 1]
  BY HeadTailProperties
<1>2. DOMAIN q = 1 .. Len(q) /\ Len(q) \in Nat /\ Len(q) > 0
  BY InQueue, EmptySeq
<1>3. DOMAIN Tail(q) = 1 .. Len(q) - 1
  BY <1>1, <1>2
<1>4. Entries(Tail(q)) \subseteq Entries(q) \ {Head(q)}
  <2> SUFFICES ASSUME NEW i \in 1 .. Len(q) - 1 PROVE Tail(q)[i] \in Entries(q) \ {q[1]}
    BY <1>1, <1>3 DEF Entries
  <2>1. i + 1 \in DOMAIN q /\ 1 \in DOMAIN q /\ i + 1 # 1
    BY <1>2
  <2>2. q[i + 1] # q[1]
    BY <2>1 DEF Distinct
  <2> QED BY <1>1, <2>1, <2>2, InQueue
<1>5. Entries(q) \ {Head(q)} \subseteq Entries(Tail(q))
  <2> SUFFICES ASSUME NEW j \in DOMAIN q, j # 1 PROVE q[j] \in Entries(Tail(q))
    BY <1>1 DEF Entries
  <2>1. j - 1 \in 1 .. Len(q) - 1 /\ (j - 1) + 1 = j
    BY <1>2
  <2>2. Tail(q)[j - 1] = q[j]
    BY <1>1, <2>1
  <2> QED BY <1>1, <1>3, <2>1, <2>2, InQueue
<1>6. Distinct(Tail(q))
  <2> SUFFICES ASSUME NEW i \in 1 .. Len(q) - 1, NEW j \in 1 .. Len(q) - 1,
                      Tail(q)[i].msg = Tail(q)[j].msg
               PROVE  i = j
    BY <1>3 DEF Distinct
  <2>1. i + 1 \in DOMAIN q /\ j + 1 \in DOMAIN q /\ q[i + 1].msg = q[j + 1].msg
    BY <1>1, <1>2
  <2>2. i + 1 = j + 1
    BY <2>1 DEF Distinct
  <2> QED BY <2>2
<1>7. Head(q) \in Entries(q)
  BY <1>1, <1>2, InQueue
<1> QED BY <1>1, <1>4, <1>5, <1>6, <1>7

\* An entry is taken out of the queue, wherever it is.
LEMMA TakenOut ==
  ASSUME NEW q \in Seq(Entry), NEW i \in DOMAIN q, Distinct(q)
  PROVE  /\ Without(q, i) \in Seq(Entry)
         /\ Entries(Without(q, i)) = Entries(q) \ {q[i]} /\ Distinct(Without(q, i))
<1> DEFINE n == Len(q)  w == Without(q, i)
<1>0. n \in Nat /\ DOMAIN q = 1 .. n /\ i \in 1 .. n
  BY InQueue
<1>1. w \in Seq(Entry) /\ Len(w) = n - 1 /\ DOMAIN w = 1 .. n - 1
      /\ \A k \in 1 .. n - 1 : w[k] = IF k < i THEN q[k] ELSE q[k + 1]
  <2> DEFINE a == SubSeq(q, 1, i - 1)  b == SubSeq(q, i + 1, n)
  <2>1. /\ a \in Seq(Entry) /\ Len(a) = i - 1
        /\ \A k \in 1 .. i - 1 : a[k] = q[k]
    <3>1. \A k \in 1 .. i - 1 : q[k] \in Entry
      BY <1>0, InQueue
    <3>2. /\ a \in Seq(Entry) /\ Len(a) = IF 1 <= i - 1 THEN (i - 1) - 1 + 1 ELSE 0
          /\ \A k \in 1 .. (i - 1) - 1 + 1 : a[k] = q[1 + k - 1]
      BY <1>0, <3>1, SubSeqProperties
    <3> QED BY <1>0, <3>2
  <2>2. /\ b \in Seq(Entry) /\ Len(b) = n - i
        /\ \A k \in 1 .. n - i : b[k] = q[i + k]
    <3>1. \A k \in i + 1 .. n : q[k] \in Entry
      BY <1>0, InQueue
    <3>2. /\ b \in Seq(Entry) /\ Len(b) = IF i + 1 <= n THEN n - (i + 1) + 1 ELSE 0
          /\ \A k \in 1 .. n - (i + 1) + 1 : b[k] = q[(i + 1) + k - 1]
      BY <1>0, <3>1, SubSeqProperties
    <3> QED BY <1>0, <3>2
  <2>3. w = a \o b
    BY DEF Without
  <2> HIDE DEF a, b, w
  <2>4. /\ w \in Seq(Entry) /\ Len(w) = Len(a) + Len(b)
        /\ \A k \in 1 .. Len(a) + Len(b) : w[k] = IF k <= Len(a) THEN a[k] ELSE b[k - Len(a)]
    BY <2>1, <2>2, <2>3, ConcatProperties
  <2>5. DOMAIN w = 1 .. Len(w)
    BY <2>4
  <2>6. ASSUME NEW k \in 1 .. n - 1 PROVE w[k] = IF k < i THEN q[k] ELSE q[k + 1]
    <3>1. CASE k < i
      BY <1>0, <2>1, <2>2, <2>4, <3>1
    <3>2. CASE ~(k < i)
      <4>1. k - (i - 1) \in 1 .. n - i /\ i + (k - (i - 1)) = k + 1 /\ ~(k <= i - 1)
        BY <1>0, <3>2
      <4>2. k \in 1 .. Len(a) + Len(b) /\ Len(a) = i - 1
        BY <1>0, <2>1, <2>2
      <4>3. w[k] = b[k - Len(a)]
        BY <2>4, <4>1, <4>2
      <4> QED BY <2>2, <3>2, <4>1, <4>2, <4>3
    <3> QED BY <3>1, <3>2
  <2> QED BY <1>0, <2>1, <2>2, <2>4, <2>5, <2>6
<1> HIDE DEF n, w
<1>2. Entries(w) \subseteq Entries(q) \ {q[i]}
  <2> SUFFICES ASSUME NEW k \in 1 .. n - 1 PROVE w[k] \in Entries(q) \ {q[i]}
    BY <1>1 DEF Entries
  <2>1. PICK j \in DOMAIN q : w[k] = q[j] /\ j # i
    <3>1. CASE k < i
      BY <1>0, <1>1, <3>1
    <3>2. CASE ~(k < i)
      <4>1. k + 1 \in DOMAIN q /\ k + 1 # i /\ w[k] = q[k + 1]
        BY <1>0, <1>1, <3>2
      <4> QED BY <4>1
    <3> QED BY <3>1, <3>2
  <2> QED BY <2>1, InQueue DEF Distinct
<1>3. Entries(q) \ {q[i]} \subseteq Entries(w)
  <2> SUFFICES ASSUME NEW j \in DOMAIN q, j # i PROVE q[j] \in Entries(w)
    BY DEF Entries
  <2>1. PICK k \in 1 .. n - 1 : w[k] = q[j]
    <3>1. CASE j < i
      BY <1>0, <1>1, <3>1
    <3>2. CASE j > i
      <4>1. j - 1 \in 1 .. n - 1 /\ ~(j - 1 < i) /\ (j - 1) + 1 = j
        BY <1>0, <3>2
      <4> QED BY <1>1, <4>1
    <3> QED BY <1>0, <3>1, <3>2
  <2> QED BY <1>1, <2>1, InQueue
<1>4. Distinct(w)
  <2> SUFFICES ASSUME NEW j \in 1 .. n - 1, NEW k \in 1 .. n - 1, w[j].msg = w[k].msg PROVE j = k
    BY <1>1 DEF Distinct
  <2> DEFINE p(x) == IF x < i THEN x ELSE x + 1
  <2>1. p(j) \in DOMAIN q /\ p(k) \in DOMAIN q /\ w[j] = q[p(j)] /\ w[k] = q[p(k)]
    BY <1>0, <1>1
  <2>2. p(j) = p(k)
    BY <2>1 DEF Distinct
  <2> QED BY <1>0, <2>2
<1> QED BY <1>1, <1>2, <1>3, <1>4 DEF w

\* An entry of the queue is moved to its front.
LEMMA Promoted ==
  ASSUME NEW q \in Seq(Entry), NEW i \in DOMAIN q, Distinct(q)
  PROVE  /\ <<q[i]>> \o Without(q, i) \in Seq(Entry)
         /\ Entries(<<q[i]>> \o Without(q, i)) = Entries(q)
         /\ Distinct(<<q[i]>> \o Without(q, i))
<1> DEFINE w == Without(q, i)  p == <<q[i]>> \o w
<1>1. w \in Seq(Entry) /\ Entries(w) = Entries(q) \ {q[i]} /\ Distinct(w)
  BY TakenOut
<1>2. q[i] \in Entry /\ q[i] \in Entries(q)
  BY InQueue
<1> HIDE DEF w
<1>3. Len(w) \in Nat /\ DOMAIN w = 1 .. Len(w) /\ \A k \in DOMAIN w : w[k] \in Entries(w)
  BY <1>1, InQueue
<1>4. /\ p \in Seq(Entry) /\ Len(p) = Len(w) + 1 /\ p[1] = q[i]
      /\ \A k \in 1 .. Len(w) : p[k + 1] = w[k]
  <2>1. <<q[i]>> \in Seq(Entry) /\ Len(<<q[i]>>) = 1 /\ <<q[i]>>[1] = q[i]
    BY <1>2
  <2>2. /\ p \in Seq(Entry) /\ Len(p) = 1 + Len(w)
        /\ \A k \in 1 .. 1 + Len(w) : p[k] = IF k <= 1 THEN <<q[i]>>[k] ELSE w[k - 1]
    BY <1>1, <2>1, ConcatProperties
  <2> HIDE DEF p
  <2>3. p[1] = q[i]
    BY <1>3, <2>1, <2>2
  <2>4. ASSUME NEW k \in 1 .. Len(w) PROVE p[k + 1] = w[k]
    <3>1. k + 1 \in 1 .. 1 + Len(w) /\ ~(k + 1 <= 1) /\ (k + 1) - 1 = k
      BY <1>3
    <3> QED BY <2>2, <3>1
  <2> QED BY <1>3, <2>2, <2>3, <2>4
<1> HIDE DEF p
<1>5. DOMAIN p = 1 .. Len(w) + 1
  BY <1>4
<1>6. \A k \in DOMAIN p : p[k] = q[i] \/ p[k] \in Entries(w)
  <2> SUFFICES ASSUME NEW k \in DOMAIN p, k # 1 PROVE p[k] \in Entries(w)
    BY <1>4
  <2>1. k - 1 \in 1 .. Len(w) /\ (k - 1) + 1 = k
    BY <1>3, <1>5
  <2> QED BY <1>3, <1>4, <2>1
<1>7. Entries(p) = Entries(q)
  <2>1. Entries(p) \subseteq Entries(q)
    BY <1>1, <1>2, <1>6 DEF Entries
  <2>2. ASSUME NEW e \in Entries(w) PROVE e \in Entries(p)
    <3>1. PICK k \in DOMAIN w : w[k] = e /\ e \in Entry
      BY DEF Entries
    <3>2. k + 1 \in DOMAIN p /\ p[k + 1] = e
      BY <1>3, <1>4, <1>5, <3>1
    <3> QED BY <3>1, <3>2 DEF Entries
  <2>3. q[i] \in Entries(p)
    BY <1>2, <1>3, <1>4, <1>5 DEF Entries
  <2> QED BY <1>1, <2>1, <2>2, <2>3
<1>8. Distinct(p)
  <2> SUFFICES ASSUME NEW j \in DOMAIN p, NEW k \in DOMAIN p, p[j].msg = p[k].msg PROVE j = k
    BY DEF Distinct
  <2>1. \A e \in Entries(w) : e.msg # q[i].msg
    <3> SUFFICES ASSUME NEW e \in Entries(w) PROVE e.msg # q[i].msg
      OBVIOUS
    <3>1. PICK x \in DOMAIN q : q[x] = e /\ e # q[i]
      BY <1>1 DEF Entries
    <3> QED BY <3>1 DEF Distinct
  <2>2. \A x \in DOMAIN p : x # 1 => x - 1 \in DOMAIN w /\ p[x] = w[x - 1] /\ p[x] \in Entries(w)
    <3> SUFFICES ASSUME NEW x \in DOMAIN p, x # 1
                 PROVE x - 1 \in DOMAIN w /\ p[x] = w[x - 1] /\ p[x] \in Entries(w)
      OBVIOUS
    <3>1. x - 1 \in 1 .. Len(w) /\ (x - 1) + 1 = x
      BY <1>3, <1>5
    <3> QED BY <1>3, <1>4, <3>1
  <2>3. CASE j = 1 \/ k = 1
    BY <1>4, <2>1, <2>2, <2>3
  <2>4. CASE j # 1 /\ k # 1
    <3>1. j - 1 = k - 1
      BY <1>1, <2>2, <2>4 DEF Distinct
    <3> QED BY <1>5, <3>1
  <2> QED BY <2>3, <2>4
<1> QED BY <1>4, <1>7, <1>8 DEF p, w

-----------------------------------------------------------------------------
(* Where a message can be *)

Inputs  == {"USER_MESSAGE", "USER_INTERRUPT", "USER_FOLLOWUP_QUEUED"}
Waiting == {"awaitIdle", "resuming", "starting"}

\* The messages in the queue, those of the log no reactor has delivered or dropped,
\* the one the user's event on the call stack names, the one prompt() is to append.
Held    == Entries(queue)
Pending == {e \in Entry : Undelivered(e) /\ \E i \in DOMAIN qlog : qlog[i] = e}
Said    == IF event.type \in Inputs THEN event.msg ELSE NoMsg
Asked   == IF phase \in Waiting THEN cur ELSE NoMsg

InPlace(m) == \/ \E e \in Held \cup Pending : e.msg = m
              \/ m = Said \/ m = Asked \/ m >= nextMsg

\* The user calls between macrotasks: an abort or a steer finds a prompt() that
\* settles, a message finds a signal that is not aborted, and without a reactor
\* nothing is queued.
CallsOK ==
  /\ after # "none" \/ event.type = "USER_INTERRUPT" => phase = "settling"
  /\ event.type = "USER_MESSAGE" \/ phase = "starting" => ~aborted
  /\ phase \notin {"starting", "settling"} => queue = <<>> /\ event.type \notin Inputs

\* What a queued event carries.
FormsOK ==
  /\ \A i \in DOMAIN qlog : qlog[i].form # "steer"
  /\ event.type = "USER_FOLLOWUP_QUEUED" => event.arg # "steer"

\* A message is in one place, but that what is queued may be in the log too.
OneEntry  == \A a, b \in Held \cup Pending : a.msg = b.msg => a = b
LogOnce   == \A i, j \in DOMAIN qlog :
               Undelivered(qlog[i]) /\ Undelivered(qlog[j]) /\ qlog[i].msg = qlog[j].msg => i = j
SaidOnce  == Said # NoMsg =>
               /\ Said # Asked /\ \A e \in Held : e.msg # Said
               /\ \A e \in Pending : e.msg = Said =>
                    event.type = "USER_FOLLOWUP_QUEUED" /\ e.form = event.arg
AskedOnce == Asked # NoMsg => \A e \in Held \cup Pending : e.msg # Asked
Entered   == /\ \A e \in Held \cup Pending : e.msg < nextMsg
             /\ Said < nextMsg /\ Asked < nextMsg /\ \A m \in consumed : m < nextMsg
OnePlace  == Distinct(queue) /\ OneEntry /\ LogOnce /\ SaidOnce /\ AskedOnce /\ Entered

\* A message on the record as dropped is nowhere.
DroppedGone == \A e \in dropped : ~InPlace(e.msg)

PlacesOK == CallsOK /\ FormsOK /\ OnePlace /\ DroppedGone
-----------------------------------------------------------------------------
(* The calls *)

\* Without calls from microtasks, the user finds no microtask left to run.
LEMMA UserFindsMacrotask ==
  ASSUME UserCall, ~MicroInputs
  PROVE  StackEmpty /\ phase \notin {"resuming", "starting", "settled"} /\ (Live => phase = "settling")
BY DEF UserCall, MicroPending, Live

\* A delivery clears the signal, and takes from a queue that is not empty.
LEMMA DeliverKeepsCalls ==
  ASSUME IInv, CallsOK, FormsOK, NEW q \in Seq(Entry), q # <<>>, NEW st, DeliverFrom(q, st),
         phase \in {"starting", "settling"}, phase' = phase, after' = after, qlog' = qlog,
         after # "none" => phase = "settling"
  PROVE  CallsOK' /\ FormsOK'
BY DEF CallsOK, FormsOK, DeliverFrom, Ev

LEMMA HandlersKeepCalls ==
  ASSUME IInv, RetryInv, CallsOK, FormsOK, Handler
  PROVE  CallsOK' /\ FormsOK'
<1>0. queue \in Seq(Entry) /\ qlog \in Seq(Entry)
  BY DEF IInv, TypeOK, QueueType
<1>1. CASE OnUserMessage
  <2>1. phase \in {"starting", "settling"} /\ ~aborted
    BY <1>1 DEF CallsOK, OnUserMessage, Inputs
  <2>2. UNCHANGED <<phase, after, aborted, queue>> /\ event'.type # "USER_INTERRUPT" /\ event'.type # "USER_MESSAGE"
    BY <1>1 DEF OnUserMessage, promptVars, NoEvent, Ev, Queued
  <2>3. CallsOK'
    BY <2>1, <2>2 DEF CallsOK
  <2>4. FormsOK'
    <3>1. CASE event' = Queued(event.msg, "raw") /\ qlog' = Append(qlog, [msg |-> event.msg, form |-> "raw"])
      <4>1. [msg |-> event.msg, form |-> "raw"] \in Entry
        BY <1>1 DEF IInv, StackOK, OnUserMessage, Entry, Forms
      <4>2. \A i \in DOMAIN qlog' : qlog'[i] = [msg |-> event.msg, form |-> "raw"]
                                     \/ (i \in DOMAIN qlog /\ qlog'[i] = qlog[i])
        BY <1>0, <3>1, <4>1, LastAdded
      <4> QED BY <3>1, <4>2 DEF FormsOK, Queued
    <3>2. CASE qlog' = qlog /\ event'.type # "USER_FOLLOWUP_QUEUED"
      BY <3>2 DEF FormsOK
    <3> QED BY <1>1, <3>1, <3>2 DEF OnUserMessage, NoEvent, Ev
  <2> QED BY <2>3, <2>4
<1>2. CASE OnUserInterrupt
  <2> DEFINE m == event.msg
             pushed == IF m # NoMsg THEN Append(queue, [msg |-> m, form |-> "steer"]) ELSE queue
  <2>1. phase = "settling" /\ UNCHANGED <<phase, after, qlog>>
    BY <1>2 DEF CallsOK, OnUserInterrupt, promptVars
  <2>2. CASE m # NoMsg /\ CanDeliver
    <3>1. [msg |-> m, form |-> "steer"] \in Entry
      BY <2>2 DEF IInv, TypeOK, StackType, Event, Entry, Forms
    <3>2. pushed \in Seq(Entry) /\ pushed # <<>>
      BY <1>0, <2>2, <3>1, Added
    <3>3. DeliverFrom(pushed, stage)
      BY <1>2, <2>2 DEF OnUserInterrupt
    <3> HIDE DEF pushed
    <3> QED BY <2>1, <3>2, <3>3, DeliverKeepsCalls
  <2>3. CASE ~(m # NoMsg /\ CanDeliver)
    <3>1. event' = NoEvent \/ event' = Completed(NoMsg, "aborted")
      BY <1>2, <2>3 DEF OnUserInterrupt
    <3> QED BY <2>1, <3>1 DEF CallsOK, FormsOK, NoEvent, Completed, Inputs
  <2> QED BY <2>2, <2>3
<1>3. CASE OnUserFollowupQueued
  <2> DEFINE pushed == Append(queue, [msg |-> event.msg, form |-> event.arg])
  <2>1. phase \in {"starting", "settling"} /\ UNCHANGED <<phase, after, qlog>>
    BY <1>3 DEF CallsOK, OnUserFollowupQueued, promptVars, Inputs
  <2>2. CASE CanDeliver
    <3>1. [msg |-> event.msg, form |-> event.arg] \in Entry
      BY <1>3 DEF IInv, StackOK, OnUserFollowupQueued, Entry
    <3>2. pushed \in Seq(Entry) /\ pushed # <<>>
      BY <1>0, <3>1, Added
    <3>3. DeliverFrom(pushed, stage)
      BY <1>3, <2>2 DEF OnUserFollowupQueued
    <3>4. after # "none" => phase = "settling"
      BY DEF CallsOK
    <3> HIDE DEF pushed
    <3> QED BY <2>1, <3>2, <3>3, <3>4, DeliverKeepsCalls
  <2>3. CASE ~CanDeliver
    <3>1. event' = NoEvent /\ aborted' = aborted
      BY <1>3, <2>3 DEF OnUserFollowupQueued
    <3> QED BY <2>1, <3>1 DEF CallsOK, FormsOK, NoEvent, Inputs
  <2> QED BY <2>2, <2>3
<1>4. CASE OnAgentTurnCompleted
  <2>1. UNCHANGED <<phase, after, qlog>>
    BY <1>4 DEF OnAgentTurnCompleted
  <2>2. after # "none" => phase = "settling"
    BY DEF CallsOK
  <2>3. ASSUME NEW st, DrainQueue(st) PROVE CallsOK' /\ FormsOK'
    <3>1. queue # <<>> /\ DeliverFrom(queue, st)
      BY <2>3 DEF DrainQueue
    <3>2. phase \in {"starting", "settling"}
      BY <3>1 DEF CallsOK
    <3> QED BY <1>0, <2>1, <2>2, <3>1, <3>2, DeliverKeepsCalls
  <2>4. CASE /\ aborted' = aborted /\ event'.type \notin Inputs /\ (queue' = queue \/ queue' = <<>>)
    BY <2>1, <2>4 DEF CallsOK, FormsOK, Inputs
  <2>5. ASSUME NEW st, DiscardQueue(st) \/ GoIdle(st)
        PROVE  aborted' = aborted /\ event'.type \notin Inputs /\ (queue' = queue \/ queue' = <<>>)
    BY <2>5 DEF DiscardQueue, GoIdle, NoEvent, Ev, Inputs
  <2>6. ASSUME NEW m, RetryCompletion(m)
        PROVE  aborted' = aborted /\ event'.type \notin Inputs /\ (queue' = queue \/ queue' = <<>>)
    BY <2>6 DEF RetryCompletion, ScheduleRetry, NoEvent, Inputs
  <2> QED BY <1>4, <2>3, <2>4, <2>5, <2>6 DEF OnAgentTurnCompleted
<1>5. CASE OnCompactionSettled
  <2>1. UNCHANGED <<phase, after, qlog>>
    BY <1>5 DEF OnCompactionSettled
  <2>2. CASE CanDeliver /\ queue # <<>>
    <3>1. DeliverFrom(queue, stage)
      BY <1>5, <2>2 DEF OnCompactionSettled
    <3>2. phase \in {"starting", "settling"} /\ (after # "none" => phase = "settling")
      BY <2>2 DEF CallsOK
    <3> QED BY <1>0, <2>1, <2>2, <3>1, <3>2, DeliverKeepsCalls
  <2>3. CASE ~(CanDeliver /\ queue # <<>>)
    <3>1. event' = NoEvent /\ UNCHANGED <<aborted, queue>>
      BY <1>5, <2>3 DEF OnCompactionSettled
    <3> QED BY <2>1, <3>1 DEF CallsOK, FormsOK, NoEvent, Inputs
  <2> QED BY <2>2, <2>3
<1>6. CASE AfterAppend
  <2>1. UNCHANGED <<phase, event, qlog>> /\ after' = "none" /\ (phase = "starting" => aborted' = aborted)
        /\ event = NoEvent /\ phase = "settling"
    BY <1>6 DEF AfterAppend, promptVars, CallsOK
  <2> QED BY <2>1 DEF CallsOK, FormsOK, NoEvent, Inputs
<1>7. CASE \/ OnAgentTurnRequested \/ OnLlmCallRequested \/ OnAgentMessageEnd \/ OnIntentToolCall
           \/ OnToolExecutionEnd \/ OnToolResultsAggregated \/ OnLlmCallFailed \/ OnCompactionRequested
  <2>1. UNCHANGED <<phase, after, qlog, queue, aborted>>
    BY <1>7 DEF OnAgentTurnRequested, OnLlmCallRequested, OnAgentMessageEnd, OnIntentToolCall,
       OnToolExecutionEnd, OnToolResultsAggregated, OnLlmCallFailed, OnCompactionRequested,
       promptVars, queueVars, flagVars
  <2>2. event'.type \notin Inputs
    <3> USE DEF Ev, NoEvent, Completed, ToolEnd, Inputs
    <3>1. CASE OnAgentTurnRequested \/ OnLlmCallRequested \/ OnAgentMessageEnd
      BY <3>1 DEF OnAgentTurnRequested, OnLlmCallRequested, OnAgentMessageEnd
    <3>2. CASE OnIntentToolCall
      BY <3>2 DEF OnIntentToolCall
    <3>3. CASE OnToolExecutionEnd \/ OnToolResultsAggregated
      BY <3>3 DEF OnToolExecutionEnd, OnToolResultsAggregated
    <3>4. CASE OnLlmCallFailed \/ OnCompactionRequested
      BY <3>4 DEF OnLlmCallFailed, OnCompactionRequested, ScheduleRetry
    <3> QED BY <1>7, <3>1, <3>2, <3>3, <3>4
  <2> QED BY <2>1, <2>2 DEF CallsOK, FormsOK, Inputs
<1> QED BY <1>1, <1>2, <1>3, <1>4, <1>5, <1>6, <1>7 DEF Handler

\* Only in the settling phase does the user find a reactor.
LEMMA NextKeepsCalls ==
  ASSUME IInv, RetryInv, CallsOK, FormsOK, ~MicroInputs, [Next]_vars
  PROVE  CallsOK' /\ FormsOK'
<1>0. queue \in Seq(Entry) /\ qlog \in Seq(Entry)
  BY DEF IInv, TypeOK, QueueType
<1> USE DEF CallsOK, FormsOK, Inputs
<1>1. CASE Handler
  BY <1>1, HandlersKeepCalls
<1>2. CASE Microtask
  <2>1. CASE StartReactor \/ SettledCheck \/ FinishPrompt \/ ApprovalDecided
    <3>1. event' = NoEvent \/ event'.type = "TOOL_EXECUTION_END"
      <4>1. CASE StartReactor \/ SettledCheck \/ FinishPrompt
        BY <4>1 DEF StartReactor, SettledCheck, FinishPrompt, StackEmpty
      <4>2. CASE ApprovalDecided
        BY <4>2 DEF ApprovalDecided, ToolEnd
      <4> QED BY <2>1, <4>1, <4>2
    <3>2. qlog' = qlog /\ after' = "none"
      BY <2>1 DEF StartReactor, SettledCheck, FinishPrompt, ApprovalDecided, StackEmpty, queueVars
    <3>3. phase' = "starting" => ~aborted'
      BY <2>1 DEF StartReactor, SettledCheck, FinishPrompt, ApprovalDecided, promptVars, flagVars
    <3>4. phase' \notin {"starting", "settling"} => queue' = <<>>
      BY <2>1 DEF StartReactor, SettledCheck, FinishPrompt, ApprovalDecided, promptVars, queueVars, StillBusy,
         IInv, PromptOK
    <3> QED BY <3>1, <3>2, <3>3, <3>4 DEF NoEvent
  <2>2. CASE AppendPrompt
    BY <2>2 DEF AppendPrompt, StackEmpty, Ev, flagVars, queueVars
  <2> QED BY <1>2, <2>1, <2>2 DEF Microtask
<1>3. CASE Completion \/ \E m \in Msgs : StreamIdle(m)
  <2>1. ASSUME NEW m \in Msgs, HookReturns(m) \/ LlmResponds(m) \/ LlmFails(m) \/ RetryFires(m)
        PROVE  CallsOK' /\ FormsOK'
    BY <2>1 DEF HookReturns, LlmResponds, LlmFails, RetryFires, MacroTask, StackEmpty, Emit, Ev, NoEvent,
       promptVars, flagVars, queueVars
  <2>2. ASSUME NEW m \in Msgs, NEW t \in Tools, ToolReturns(m, t) PROVE CallsOK' /\ FormsOK'
    BY <2>2 DEF ToolReturns, MacroTask, StackEmpty, ToolEnd, NoEvent, promptVars, flagVars, queueVars
  <2>3. CASE CompactionReturns
    BY <2>3 DEF CompactionReturns, MacroTask, MicroPending, RetryInv, LiveOK, Live, Ev, promptVars, flagVars, queueVars
  <2>4. ASSUME NEW c \in {"idle", "stray"}, BackgroundCompactionReturns(c) PROVE CallsOK' /\ FormsOK'
    BY <2>4 DEF BackgroundCompactionReturns, MacroTask, MicroPending, StackEmpty, Ev, NoEvent, flagVars, queueVars
  <2>5. ASSUME NEW m \in Msgs, StreamIdle(m) PROVE CallsOK' /\ FormsOK'
    BY <2>5 DEF StreamIdle, MacroTask, MicroPending, StackEmpty, NoEvent, promptVars, queueVars
  <2> QED BY <1>3, <2>1, <2>2, <2>3, <2>4, <2>5 DEF Completion
<1>4. CASE User
  <2>1. CASE Prompt
    BY <2>1, UserFindsMacrotask DEF Prompt, StackEmpty, NoEvent, flagVars, queueVars
  <2>2. CASE Steer \/ Abort \/ Compact
    BY <2>2, UserFindsMacrotask DEF Steer, Abort, Compact, StackEmpty, Live, Ev, NoEvent, promptVars, flagVars, queueVars
  <2>3. CASE FollowUp
    <3>1. [msg |-> nextMsg, form |-> "followUp"] \in Entry
      BY <2>3, NewMsgType DEF FollowUp, IInv, Entry, Forms
    <3>2. \A i \in DOMAIN qlog' : qlog'[i] = [msg |-> nextMsg, form |-> "followUp"]
                                  \/ (i \in DOMAIN qlog /\ qlog'[i] = qlog[i])
      BY <1>0, <2>3, <3>1, LastAdded DEF FollowUp
    <3>3. FormsOK'
      BY <2>3, <3>2 DEF FollowUp, Queued, NoEvent
    <3>4. CallsOK'
      BY <2>3, UserFindsMacrotask DEF FollowUp, StackEmpty, Live, Queued, NoEvent, promptVars, flagVars
    <3> QED BY <3>3, <3>4
  <2>4. CASE CancelQueued \/ ClearQueued
    <3>1. phase = "settling" /\ phase' = phase /\ after' = "none" /\ event' = NoEvent /\ qlog' = qlog
      BY <2>4, UserFindsMacrotask DEF CancelQueued, ClearQueued, Take, StackEmpty, promptVars
    <3> QED BY <3>1 DEF NoEvent
  <2>5. CASE SteerQueued
    <3>1. phase = "settling" /\ phase' = phase /\ event' = Ev("USER_INTERRUPT", nextMsg) /\ qlog' = qlog
      BY <2>5, UserFindsMacrotask DEF SteerQueued, Take, StackEmpty, promptVars
    <3> QED BY <3>1 DEF Ev
  <2>6. ASSUME NEW m \in Msgs, NEW t \in Tools, Decide(m, t) PROVE CallsOK' /\ FormsOK'
    BY <2>6 DEF Decide, promptVars, flagVars, queueVars
  <2> QED BY <1>4, <2>1, <2>2, <2>3, <2>4, <2>5, <2>6 DEF User
<1>5. CASE UNCHANGED vars
  BY <1>5 DEF vars, promptVars, flagVars, queueVars
<1> QED BY <1>1, <1>2, <1>3, <1>4, <1>5 DEF Next
-----------------------------------------------------------------------------
(* What a step does to the messages *)

\* The message of the user's event joins what is queued.
Bring(P) ==
  \/ Said = NoMsg /\ P = Held
  \/ \E e \in Entry : /\ e.msg = Said /\ P = Held \cup {e}
                      /\ \A a \in Pending : a.msg = Said => a = e

Started(m) == m \in Msgs /\ starts' = [starts EXCEPT ![m] = @ + 1]

Rest == UNCHANGED <<dropped, nextMsg>> /\ (Live' => Live)

\* What was said is queued, if anything was.
Keep ==
  /\ Bring(Held') /\ Said' = NoMsg /\ Pending' = Pending /\ Asked' = Asked /\ starts' = starts
  /\ Rest

\* The turn of a USER_MESSAGE starts.
Start ==
  /\ event.type = "USER_MESSAGE" /\ Started(Said) /\ Said' = NoMsg
  /\ Held' = Held /\ Pending' = Pending /\ Asked' = Asked /\ Rest

\* A USER_MESSAGE that finds a turn leaves its marker in the log.
Mark ==
  /\ event.type = "USER_MESSAGE" /\ Said \in Msgs /\ Said' = Said
  /\ event'.type = "USER_FOLLOWUP_QUEUED" /\ event'.arg = "raw"
  /\ Pending' \subseteq Pending \cup {[msg |-> Said, form |-> "raw"]}
  /\ Held' = Held /\ Asked' = Asked /\ starts' = starts /\ Live /\ Rest

\* An entry leaves the queue: its turn starts, or it is said again.
Deliver ==
  \E P \in SUBSET Entry : \E h \in P :
    /\ Bring(P) /\ Held' = P \ {h} /\ Asked' = Asked /\ Live /\ Rest
    /\ \/ /\ h.form = "raw" /\ Started(h.msg) /\ Said' = NoMsg /\ Pending' = Pending
       \/ /\ h.form # "raw" /\ Said' = h.msg /\ event'.type = "USER_MESSAGE"
          /\ Pending' = Pending \ {h} /\ starts' = starts

\* Entries leave the queue on the record; one of them may come back as a steer.
Drop ==
  \E R \in SUBSET Held :
    /\ Said = NoMsg /\ Held' = Held \ R /\ dropped' = dropped \cup R /\ Pending' = Pending \ R
    /\ Asked' = Asked /\ starts' = starts /\ Live
    /\ \/ Said' = NoMsg /\ nextMsg' = nextMsg
       \/ Said' = nextMsg /\ event'.type = "USER_INTERRUPT" /\ nextMsg' = nextMsg + 1

\* The log is queued again.
Replay ==
  /\ Held = {} /\ Held' = Pending /\ Pending' = Pending /\ Said = NoMsg /\ Said' = NoMsg
  /\ Asked' = Asked /\ starts' = starts /\ UNCHANGED <<dropped, nextMsg>>

\* prompt() appends its message.
Open ==
  /\ Asked \in Msgs /\ Said = NoMsg /\ Said' = Asked /\ Asked' = NoMsg /\ event'.type = "USER_MESSAGE"
  /\ Held' = Held /\ Pending' = Pending /\ starts' = starts /\ Rest

\* The user enters a message: a prompt, a steer or a follow-up.
Enter ==
  /\ Said = NoMsg /\ Held' = Held /\ starts' = starts /\ dropped' = dropped
  /\ nextMsg \in Msgs /\ nextMsg' = nextMsg + 1 /\ (Live' => Live)
  /\ \/ Asked = NoMsg /\ Asked' = nextMsg /\ Said' = NoMsg /\ Pending' = Pending
     \/ /\ Asked' = Asked /\ Pending' = Pending
        /\ \/ Said' = nextMsg /\ event'.type = "USER_INTERRUPT"
           \/ Said' = NoMsg /\ phase = "awaitIdle"
     \/ /\ Asked' = Asked /\ Pending' = Pending \cup {[msg |-> nextMsg, form |-> "followUp"]}
        /\ \/ /\ Said' = nextMsg /\ event'.type = "USER_FOLLOWUP_QUEUED"
              /\ event'.arg = "followUp"
           \/ Said' = NoMsg /\ ~Live

Course == Keep \/ Start \/ Mark \/ Deliver \/ Drop \/ Replay \/ Open \/ Enter

\* The messages are numbered.
Numbers == /\ nextMsg \in Nat \ {0} /\ Said \in Msgs \cup {NoMsg} /\ Asked \in Msgs \cup {NoMsg}
           /\ Held \subseteq Entry /\ Pending \subseteq Entry

LEMMA Numbered ==
  ASSUME IInv
  PROVE  Numbers
BY ReactorAssumption DEF IInv, TypeOK, EnvType, StackType, PromptType, Event, Numbers, Said, Asked, Held,
   Entries, Pending

\* A message that is nowhere comes nowhere again.
LEMMA NowhereStays ==
  ASSUME Numbers, Course, NEW m \in Msgs, ~InPlace(m)
  PROVE  ~InPlace(m)'
<1> USE DEF Numbers, InPlace, Msgs, NoMsg, Rest, Entry
<1>0. /\ m # Said /\ m # Asked /\ m < nextMsg
      /\ \A e \in Held : e.msg # m
      /\ \A e \in Pending : e.msg # m
  BY ReactorAssumption
<1>1. ASSUME NEW P, Bring(P) PROVE \A e \in P : e.msg # m
  BY <1>0, <1>1 DEF Bring
<1>2. CASE Keep
  BY <1>0, <1>1, <1>2, ReactorAssumption DEF Keep
<1>3. CASE Start \/ Mark
  BY <1>0, <1>3, ReactorAssumption DEF Start, Mark
<1>4. CASE Deliver
  <2>1. PICK P \in SUBSET Entry, h \in Entry :
          /\ h \in P /\ Bring(P) /\ Held' = P \ {h} /\ Asked' = Asked /\ Rest
          /\ Said' \in {NoMsg, h.msg} /\ Pending' \subseteq Pending
    BY <1>4 DEF Deliver
  <2>2. \A e \in P : e.msg # m
    BY <1>1, <2>1
  <2> QED BY <1>0, <2>1, <2>2, ReactorAssumption
<1>5. CASE Drop
  BY <1>0, <1>5, ReactorAssumption DEF Drop
<1>6. CASE Replay \/ Open
  BY <1>0, <1>6, ReactorAssumption DEF Replay, Open
<1>7. CASE Enter
  BY <1>0, <1>7, ReactorAssumption DEF Enter
<1> QED BY <1>2, <1>3, <1>4, <1>5, <1>6, <1>7 DEF Course

\* A step that follows the course leaves every message in one place.
LEMMA CourseKeepsOnePlace ==
  ASSUME Numbers, Course, OneEntry, SaidOnce, AskedOnce, Entered, DroppedGone
  PROVE  /\ OneEntry' /\ SaidOnce' /\ AskedOnce'
         /\ \A e \in (Held \cup Pending)' : e.msg < nextMsg'
         /\ Said' < nextMsg' /\ Asked' < nextMsg' /\ nextMsg' >= nextMsg
<1> USE DEF Numbers, NoMsg, Rest, Entry, Msgs
<1> DEFINE Kept == /\ OneEntry' /\ SaidOnce' /\ AskedOnce'
                   /\ \A e \in (Held \cup Pending)' : e.msg < nextMsg'
                   /\ Said' < nextMsg' /\ Asked' < nextMsg' /\ nextMsg' >= nextMsg
\* What is brought to the queue.
<1>1. ASSUME NEW P \in SUBSET Entry, Bring(P)
      PROVE  /\ \A a, b \in P \cup Pending : a.msg = b.msg => a = b
             /\ \A a \in P \cup Pending : a.msg < nextMsg /\ (Asked # NoMsg => a.msg # Asked)
  <2>1. CASE Said = NoMsg /\ P = Held
    BY <2>1 DEF OneEntry, AskedOnce, Entered
  <2>2. CASE Said # NoMsg \/ P # Held
    <3>1. PICK e \in Entry : /\ e.msg = Said /\ P = Held \cup {e}
                             /\ \A a \in Pending : a.msg = Said => a = e
      BY <1>1, <2>2 DEF Bring
    <3>2. Said # NoMsg
      BY <3>1
    <3> QED BY <3>1, <3>2 DEF OneEntry, AskedOnce, Entered, SaidOnce
  <2> QED BY <2>1, <2>2
<1>2. CASE Keep
  <2>1. Held' \in SUBSET Entry
    BY <1>2 DEF Keep, Bring
  <2>2. OneEntry' /\ AskedOnce' /\ SaidOnce'
    BY <1>1, <1>2, <2>1 DEF Keep, OneEntry, AskedOnce, SaidOnce
  <2> QED BY <1>1, <1>2, <2>1, <2>2 DEF Keep, Entered
<1>3. CASE Start
  BY <1>3 DEF Start, OneEntry, AskedOnce, SaidOnce, Entered
<1>4. CASE Mark
  <2>1. Said # NoMsg /\ \A e \in Pending : e.msg # Said
    BY <1>4 DEF Mark, SaidOnce
  <2>2. OneEntry' /\ AskedOnce' /\ SaidOnce'
    BY <1>4, <2>1 DEF Mark, OneEntry, AskedOnce, SaidOnce
  <2> QED BY <1>4, <2>2 DEF Mark, Entered
<1>5. CASE Deliver
  <2>1. PICK P \in SUBSET Entry, h \in Entry :
          /\ h \in P /\ Bring(P) /\ Held' = P \ {h} /\ Asked' = Asked /\ Rest
          /\ \/ /\ Said' = NoMsg /\ Pending' = Pending
             \/ /\ Said' = h.msg /\ event'.type = "USER_MESSAGE" /\ Pending' = Pending \ {h}
    BY <1>5 DEF Deliver
  <2>2. /\ \A a, b \in P \cup Pending : a.msg = b.msg => a = b
        /\ \A a \in P \cup Pending : a.msg < nextMsg /\ (Asked # NoMsg => a.msg # Asked)
    BY <1>1, <2>1
  <2>3. OneEntry' /\ AskedOnce'
    BY <2>1, <2>2 DEF OneEntry, AskedOnce
  <2>4. SaidOnce'
    BY <2>1, <2>2 DEF SaidOnce
  <2> QED BY <2>1, <2>2, <2>3, <2>4 DEF Entered
<1>6. CASE Drop
  <2>1. PICK R \in SUBSET Held :
          /\ Held' = Held \ R /\ Pending' = Pending \ R /\ Asked' = Asked
          /\ \/ Said' = NoMsg /\ nextMsg' = nextMsg
             \/ Said' = nextMsg /\ nextMsg' = nextMsg + 1
    BY <1>6 DEF Drop
  <2>2. OneEntry' /\ AskedOnce' /\ SaidOnce'
    BY <2>1 DEF OneEntry, AskedOnce, SaidOnce, Entered
  <2> QED BY <2>1, <2>2 DEF Entered
<1>7. CASE Replay
  BY <1>7 DEF Replay, OneEntry, AskedOnce, SaidOnce, Entered
<1>8. CASE Open
  <2>1. OneEntry' /\ AskedOnce'
    BY <1>8 DEF Open, OneEntry, AskedOnce
  <2>2. SaidOnce'
    BY <1>8 DEF Open, AskedOnce, SaidOnce
  <2> QED BY <1>8, <2>1, <2>2 DEF Open, Entered
<1>9. CASE Enter
  <2>1. OneEntry'
    BY <1>9 DEF Enter, OneEntry, Entered
  <2>2. AskedOnce'
    BY <1>9 DEF Enter, AskedOnce, Entered
  <2>3. SaidOnce'
    BY <1>9 DEF Enter, SaidOnce, Entered
  <2> QED BY <1>9, <2>1, <2>2, <2>3 DEF Enter, Entered
<1> QED BY <1>2, <1>3, <1>4, <1>5, <1>6, <1>7, <1>8, <1>9 DEF Course

\* What is dropped leaves the only place it has.
LEMMA CourseKeepsDropped ==
  ASSUME Numbers, Course, OneEntry, SaidOnce, AskedOnce, Entered, DroppedGone, dropped \subseteq Entry
  PROVE  DroppedGone'
<1> USE DEF Numbers, NoMsg, Entry, Msgs
<1>1. CASE dropped' = dropped
  <2> SUFFICES ASSUME NEW e \in dropped PROVE ~InPlace(e.msg)'
    BY <1>1 DEF DroppedGone
  <2> QED BY NowhereStays DEF DroppedGone
<1>2. CASE dropped' # dropped
  <2>1. Drop
    BY <1>2 DEF Course, Keep, Start, Mark, Deliver, Replay, Open, Enter, Rest
  <2>2. PICK R \in SUBSET Held :
          /\ Said = NoMsg /\ Held' = Held \ R /\ dropped' = dropped \cup R /\ Pending' = Pending \ R
          /\ Asked' = Asked
          /\ \/ Said' = NoMsg /\ nextMsg' = nextMsg
             \/ Said' = nextMsg /\ nextMsg' = nextMsg + 1
    BY <2>1 DEF Drop
  <2>3. ASSUME NEW e \in dropped PROVE ~InPlace(e.msg)'
    BY NowhereStays DEF DroppedGone
  <2>4. ASSUME NEW e \in R PROVE ~InPlace(e.msg)'
    <3>1. e \in Held /\ e.msg # NoMsg /\ e.msg < nextMsg
      BY DEF Entered
    <3>2. \A a \in Held' \cup Pending' : a.msg # e.msg
      BY <2>2, <3>1 DEF OneEntry
    <3>3. e.msg # Asked
      BY <3>1 DEF AskedOnce
    <3> QED BY <2>2, <3>1, <3>2, <3>3 DEF InPlace
  <2> QED BY <2>2, <2>3, <2>4 DEF DroppedGone
<1> QED BY <1>1, <1>2
-----------------------------------------------------------------------------
(* Every step of the turn loop follows the course *)

\* What the steps keep of the order of the entries, besides.
Filed == Distinct(queue)' /\ LogOnce' /\ \A m \in consumed' : m < nextMsg'

\* What the log has to say of an entry only settles it.
LEMMA LogOnceStays ==
  ASSUME LogOnce, qlog' = qlog, consumed \subseteq consumed', dropped \subseteq dropped'
  PROVE  LogOnce'
BY DEF LogOnce, Undelivered

LEMMA Unmoved ==
  ASSUME OnePlace, Said = NoMsg, Said' = NoMsg, Asked' = Asked, Live' => Live,
         UNCHANGED <<queue, qlog, consumed, dropped, starts, nextMsg>>
  PROVE  Course /\ Filed
<1>1. Held' = Held
  BY DEF Held
<1>2. Pending' = Pending
  BY DEF Pending, Undelivered
<1>3. LogOnce'
  BY LogOnceStays DEF OnePlace
<1>4. Keep
  BY <1>1, <1>2 DEF Keep, Bring, Rest
<1> QED BY <1>3, <1>4 DEF Course, Filed, OnePlace, Entered

\* The entry made of what was said goes to the end of the queue.
LEMMA Pushed ==
  ASSUME IInv, OnePlace, Said # NoMsg, NEW e \in Entry, e.msg = Said,
         event.type = "USER_FOLLOWUP_QUEUED" => e.form = event.arg
  PROVE  /\ Append(queue, e) \in Seq(Entry) /\ Append(queue, e) # <<>>
         /\ Distinct(Append(queue, e)) /\ Bring(Entries(Append(queue, e)))
<1>1. queue \in Seq(Entry)
  BY DEF IInv, TypeOK, QueueType
<1>2. \A a \in Held : a.msg # e.msg
  BY DEF OnePlace, SaidOnce
<1>3. \A a \in Pending : a.msg = Said => a = e
  BY DEF OnePlace, SaidOnce, Pending, Entry
<1>4. /\ Append(queue, e) \in Seq(Entry) /\ Append(queue, e) # <<>> /\ Distinct(Append(queue, e))
      /\ Entries(Append(queue, e)) = Held \cup {e}
  BY <1>1, <1>2, Added DEF OnePlace, Held
<1> QED BY <1>3, <1>4 DEF Bring

\* A delivery from the queue, with what was said at its end, if anything was.
LEMMA DeliverCourse ==
  ASSUME IInv, OnePlace, FormsOK, NEW q \in Seq(Entry), q # <<>>, Distinct(q), Bring(Entries(q)),
         NEW st, DeliverFrom(q, st), Live, UNCHANGED <<phase, cur, qlog, dropped, nextMsg>>
  PROVE  Course /\ Filed
<1> DEFINE h == Head(q)  P == Entries(q)
<1>1. h \in P /\ h \in Entry /\ Entries(Tail(q)) = P \ {h} /\ Distinct(Tail(q)) /\ P \in SUBSET Entry
  BY Taken DEF Entries
<1>2. queue' = Tail(q)
  BY DEF DeliverFrom
<1>3. Held' = P \ {h} /\ Distinct(queue)'
  BY <1>1, <1>2 DEF Held
<1>4. h.msg \in Msgs /\ h.form \in Forms /\ h.msg < nextMsg
  <2>1. \A a \in P : a.msg < nextMsg
    BY DEF Bring, OnePlace, Entered
  <2> QED BY <1>1, <2>1 DEF Entry
<1>5. Asked' = Asked /\ Rest
  BY DEF Asked, Rest, Live
<1> HIDE DEF h, P
<1>6. CASE h.form = "raw"
  <2>1. /\ event' = Ev("AGENT_TURN_REQUESTED", h.msg) /\ consumed' = consumed
        /\ starts' = [starts EXCEPT ![h.msg] = @ + 1]
    BY <1>6 DEF DeliverFrom, h
  <2>2. Said' = NoMsg /\ Pending' = Pending
    BY <2>1 DEF Said, Ev, Inputs, Pending, Undelivered
  <2>3. LogOnce'
    BY <2>1, LogOnceStays DEF OnePlace
  <2>4. Deliver
    BY <1>1, <1>3, <1>4, <1>5, <1>6, <2>1, <2>2 DEF Deliver, Started, P
  <2> QED BY <1>3, <2>1, <2>3, <2>4 DEF Course, Filed, OnePlace, Entered
<1>7. CASE h.form # "raw"
  <2>1. /\ event' = Ev("USER_MESSAGE", h.msg) /\ starts' = starts
        /\ consumed' = IF h.form = "followUp" THEN consumed \cup {h.msg} ELSE consumed
    BY <1>7 DEF DeliverFrom, h
  <2>2. Said' = h.msg /\ event'.type = "USER_MESSAGE"
    BY <2>1 DEF Said, Ev, Inputs
  <2>3. Pending' = Pending \ {h}
    <3>1. CASE h.form = "followUp"
      <4>1. \A e \in Entry : Undelivered(e)' <=> Undelivered(e) /\ e # h
        BY <1>1, <2>1, <3>1 DEF Undelivered, Entry
      <4> QED BY <4>1 DEF Pending
    <3>2. CASE h.form = "steer"
      <4>1. h \notin Pending
        BY <3>2 DEF Pending, FormsOK
      <4>2. Pending' = Pending
        BY <2>1, <3>2 DEF Pending, Undelivered
      <4> QED BY <4>1, <4>2
    <3> QED BY <1>4, <1>7, <3>1, <3>2 DEF Forms
  <2>4. LogOnce'
    BY <2>1, LogOnceStays DEF OnePlace
  <2>5. Deliver
    BY <1>1, <1>3, <1>5, <1>7, <2>1, <2>2, <2>3 DEF Deliver, P
  <2>6. \A m \in consumed' : m < nextMsg'
    BY <1>4, <2>1 DEF OnePlace, Entered
  <2> QED BY <1>3, <2>4, <2>5, <2>6 DEF Course, Filed
<1> QED BY <1>6, <1>7

\* Entries of the queue go on the record.
LEMMA DropCourse ==
  ASSUME OnePlace, NEW R \in SUBSET Held, Said = NoMsg, queue' \in Seq(Entry), Distinct(queue)',
         Held' = Held \ R, dropped' = dropped \cup R, Live, Asked' = Asked,
         UNCHANGED <<qlog, consumed, starts>>, nextMsg \in Nat, consumed \subseteq Nat,
         \/ Said' = NoMsg /\ nextMsg' = nextMsg
         \/ Said' = nextMsg /\ event'.type = "USER_INTERRUPT" /\ nextMsg' = nextMsg + 1
  PROVE  Course /\ Filed
<1>1. Pending' = Pending \ R
  BY DEF Pending, Undelivered
<1>2. LogOnce'
  BY LogOnceStays DEF OnePlace
<1>3. Drop
  BY <1>1 DEF Drop
<1>4. \A m \in consumed' : m < nextMsg'
  <2>1. ASSUME NEW m \in consumed PROVE m < nextMsg'
    <3>1. m < nextMsg
      BY DEF OnePlace, Entered
    <3>2. nextMsg' = nextMsg \/ nextMsg' = nextMsg + 1
      OBVIOUS
    <3> QED BY <3>1, <3>2
  <2> QED BY <2>1
<1> QED BY <1>2, <1>3, <1>4 DEF Course, Filed

LEMMA HandlersFollowCourse ==
  ASSUME IInv, RetryInv, PlacesOK, Handler
  PROVE  Course /\ Filed
<1>0. queue \in Seq(Entry) /\ qlog \in Seq(Entry) /\ nextMsg \in Nat /\ consumed \subseteq Nat
  BY ReactorAssumption DEF IInv, TypeOK, QueueType, EnvType, Msgs
<1>a. OnePlace /\ CallsOK /\ FormsOK /\ (event # NoEvent => Live)
  BY DEF PlacesOK, RetryInv, LiveOK
<1>1. CASE OnUserMessage
  <2> DEFINE m == event.msg
  <2>1. m \in Msgs /\ Said = m /\ ~aborted /\ Live /\ event.type = "USER_MESSAGE"
    BY <1>1, <1>a DEF OnUserMessage, IInv, StackOK, Said, Inputs, CallsOK, NoEvent
  <2>2. Asked' = Asked /\ Held' = Held /\ Distinct(queue)' /\ Rest /\ consumed' = consumed
    BY <1>1, <1>a DEF OnUserMessage, promptVars, envVars, Asked, Held, Rest, Live, OnePlace
  <2>3. CASE ~CanDeliver
    <3> DEFINE e == [msg |-> m, form |-> "raw"]
    <3>1. /\ event' = Queued(m, "raw") /\ qlog' = Append(qlog, e) /\ starts' = starts
          /\ UNCHANGED <<consumed, dropped>>
      BY <1>1, <2>1, <2>3 DEF OnUserMessage
    <3>2. e \in Entry
      BY <2>1 DEF Entry, Forms
    <3>3. Said' = Said /\ event'.type = "USER_FOLLOWUP_QUEUED" /\ event'.arg = "raw"
      BY <2>1, <3>1 DEF Said, Queued, Inputs
    <3>4. Pending' \subseteq Pending \cup {e}
      BY <1>0, <3>1, <3>2, LastAdded DEF Pending, Undelivered
    <3>5. Mark
      BY <2>1, <2>2, <3>1, <3>3, <3>4 DEF Mark
    <3>6. \A i \in DOMAIN qlog : Undelivered(qlog[i]) => qlog[i].msg # m
      <4>1. \A i \in DOMAIN qlog : qlog[i] \in Entry
        BY <1>0, InQueue
      <4>2. m # NoMsg
        BY <2>1 DEF Msgs, NoMsg
      <4> QED BY <1>a, <2>1, <4>1, <4>2 DEF OnePlace, SaidOnce, Pending
    <3>7. LogOnce'
      <4> SUFFICES ASSUME NEW i \in DOMAIN qlog', NEW j \in DOMAIN qlog', i # j,
                          Undelivered(qlog[i])', Undelivered(qlog[j])', qlog'[i].msg = qlog'[j].msg
                   PROVE  FALSE
        BY DEF LogOnce
      <4>1. Undelivered(qlog'[i]) /\ Undelivered(qlog'[j])
        BY <3>1 DEF Undelivered
      <4>2. /\ qlog'[i] = e \/ (i \in DOMAIN qlog /\ qlog'[i] = qlog[i])
            /\ qlog'[j] = e \/ (j \in DOMAIN qlog /\ qlog'[j] = qlog[j])
            /\ \/ i \in DOMAIN qlog /\ qlog'[i] = qlog[i]
               \/ j \in DOMAIN qlog /\ qlog'[j] = qlog[j]
        BY <1>0, <3>1, <3>2, LastAdded
      <4> QED BY <1>a, <3>6, <4>1, <4>2 DEF OnePlace, LogOnce
    <3> QED BY <1>a, <2>2, <3>5, <3>7 DEF Course, Filed, OnePlace, Entered, Rest
  <2>4. CASE CanDeliver
    <3>1. /\ starts' = [starts EXCEPT ![m] = @ + 1] /\ qlog' = qlog
          /\ event' = NoEvent \/ event' = Ev("AGENT_TURN_REQUESTED", m)
          /\ UNCHANGED <<consumed, dropped>>
      BY <1>1, <2>1, <2>4 DEF OnUserMessage
    <3>2. Said' = NoMsg /\ Pending' = Pending
      BY <3>1 DEF Said, NoEvent, Ev, Inputs, Pending, Undelivered
    <3>3. Start
      BY <2>1, <2>2, <3>1, <3>2 DEF Start, Started
    <3>4. LogOnce'
      BY <1>a, <3>1, LogOnceStays DEF OnePlace
    <3> QED BY <1>a, <2>2, <3>3, <3>4 DEF Course, Filed, OnePlace, Entered, Rest
  <2> QED BY <2>3, <2>4
<1>2. CASE OnUserInterrupt
  <2> DEFINE m == event.msg
             e == [msg |-> m, form |-> "steer"]
  <2>1. Said = m /\ Live /\ event.type # "USER_FOLLOWUP_QUEUED" /\ m \in Msgs \cup {NoMsg}
        /\ UNCHANGED <<phase, cur, qlog, dropped, nextMsg>>
    BY <1>2, <1>a DEF OnUserInterrupt, Said, Inputs, NoEvent, promptVars, envVars, IInv, TypeOK, StackType, Event
  <2>2. CASE m # NoMsg
    <3>1. e \in Entry /\ e.msg = Said
      BY <2>1, <2>2 DEF Entry, Forms
    <3> DEFINE q == Append(queue, e)
    <3>2. q \in Seq(Entry) /\ q # <<>> /\ Distinct(q) /\ Bring(Entries(q))
      BY <1>a, <2>1, <2>2, <3>1, Pushed
    <3>3. CASE CanDeliver
      <4>1. DeliverFrom(q, stage)
        BY <1>2, <2>2, <3>3 DEF OnUserInterrupt
      <4> HIDE DEF q
      <4> QED BY <1>a, <2>1, <3>2, <4>1, DeliverCourse
    <3>4. CASE ~CanDeliver
      <4>1. queue' = q /\ UNCHANGED <<consumed, starts>> /\ event'.type \notin Inputs
        BY <1>2, <2>2, <3>4 DEF OnUserInterrupt, Completed, NoEvent, Inputs
      <4> HIDE DEF q
      <4>2. Held' = Entries(q) /\ Distinct(queue)' /\ Said' = NoMsg /\ Asked' = Asked /\ Pending' = Pending
        BY <2>1, <3>2, <4>1 DEF Held, Said, Asked, Pending, Undelivered
      <4>3. Keep
        BY <2>1, <3>2, <4>1, <4>2 DEF Keep, Rest, Live
      <4>4. LogOnce'
        BY <1>a, <2>1, <4>1, LogOnceStays DEF OnePlace
      <4> QED BY <1>a, <2>1, <4>1, <4>2, <4>3, <4>4 DEF Course, Filed, OnePlace, Entered
    <3> QED BY <3>3, <3>4
  <2>3. CASE m = NoMsg
    <3>1. UNCHANGED <<queue, consumed, starts>> /\ event'.type \notin Inputs
      BY <1>2, <2>3 DEF OnUserInterrupt, Completed, NoEvent, Inputs
    <3> QED BY <1>a, <2>1, <2>3, <3>1, Unmoved DEF Said, Asked, Live
  <2> QED BY <2>2, <2>3
<1>3. CASE OnUserFollowupQueued
  <2> DEFINE e == [msg |-> event.msg, form |-> event.arg]
             q == Append(queue, e)
  <2>1. Said = event.msg /\ Live /\ e \in Entry /\ e.msg = Said /\ Said # NoMsg
        /\ UNCHANGED <<phase, cur, qlog, dropped, nextMsg>>
    BY <1>3, <1>a DEF OnUserFollowupQueued, Said, Inputs, NoEvent, promptVars, envVars, IInv, StackOK, Entry,
       Msgs, NoMsg
  <2>2. q \in Seq(Entry) /\ q # <<>> /\ Distinct(q) /\ Bring(Entries(q))
    BY <1>a, <2>1, Pushed
  <2>3. CASE CanDeliver
    <3>1. DeliverFrom(q, stage)
      BY <1>3, <2>3 DEF OnUserFollowupQueued
    <3> HIDE DEF q
    <3> QED BY <1>a, <2>1, <2>2, <3>1, DeliverCourse
  <2>4. CASE ~CanDeliver
    <3>1. queue' = q /\ UNCHANGED <<consumed, starts>> /\ event'.type \notin Inputs
      BY <1>3, <2>4 DEF OnUserFollowupQueued, NoEvent, Inputs
    <3> HIDE DEF q
    <3>2. Held' = Entries(q) /\ Distinct(queue)' /\ Said' = NoMsg /\ Asked' = Asked /\ Pending' = Pending
      BY <2>1, <2>2, <3>1 DEF Held, Said, Asked, Pending, Undelivered
    <3>3. Keep
      BY <2>1, <2>2, <3>1, <3>2 DEF Keep, Rest, Live
    <3>4. LogOnce'
      BY <1>a, <2>1, <3>1, LogOnceStays DEF OnePlace
    <3> QED BY <1>a, <2>1, <3>1, <3>2, <3>3, <3>4 DEF Course, Filed, OnePlace, Entered
  <2> QED BY <2>3, <2>4
<1>4. CASE OnAgentTurnCompleted
  <2>1. Said = NoMsg /\ Live /\ Asked' = Asked /\ UNCHANGED <<phase, cur, qlog, nextMsg>>
    BY <1>4, <1>a DEF OnAgentTurnCompleted, Said, Inputs, NoEvent, envVars, Asked
  <2>2. ASSUME NEW st, DiscardQueue(st) PROVE Course /\ Filed
    <3>1. /\ queue' = <<>> /\ dropped' = dropped \cup {queue[i] : i \in DOMAIN queue} /\ Said' = NoMsg
          /\ UNCHANGED <<consumed, starts>>
      BY <2>2 DEF DiscardQueue, Said, NoEvent, Inputs
    <3>2. {queue[i] : i \in DOMAIN queue} = Held
      BY <1>0, InQueue DEF Held, Entries
    <3>3. Held' = {} /\ queue' \in Seq(Entry) /\ Distinct(queue)'
      BY <3>1 DEF Held, Entries, Distinct
    <3> QED BY <1>0, <1>a, <2>1, <3>1, <3>2, <3>3, DropCourse
  <2>3. ASSUME NEW st, DrainQueue(st) PROVE Course /\ Filed
    <3>1. queue # <<>> /\ DeliverFrom(queue, st) /\ dropped' = dropped
      BY <2>3 DEF DrainQueue
    <3>2. Bring(Entries(queue)) /\ Distinct(queue)
      BY <1>a, <2>1 DEF Bring, Held, OnePlace
    <3> QED BY <1>0, <1>a, <2>1, <3>1, <3>2, DeliverCourse
  <2>4. CASE UNCHANGED <<queue, consumed, dropped, starts>> /\ Said' = NoMsg
    BY <1>a, <2>1, <2>4, Unmoved DEF Live
  <2>5. ASSUME NEW st, GoIdle(st) PROVE UNCHANGED <<queue, consumed, dropped, starts>> /\ Said' = NoMsg
    BY <2>5 DEF GoIdle, Said, NoEvent, Ev, Inputs
  <2>6. ASSUME NEW m, RetryCompletion(m)
        PROVE  UNCHANGED <<queue, consumed, dropped, starts>> /\ Said' = NoMsg
    BY <2>6 DEF RetryCompletion, ScheduleRetry, Said, NoEvent, Inputs
  <2> QED BY <1>4, <2>2, <2>3, <2>4, <2>5, <2>6 DEF OnAgentTurnCompleted
<1>5. CASE OnCompactionSettled
  <2>1. Said = NoMsg /\ Live /\ UNCHANGED <<phase, cur, qlog, dropped, nextMsg>>
    BY <1>5, <1>a DEF OnCompactionSettled, Said, Inputs, NoEvent, envVars
  <2>2. CASE CanDeliver /\ queue # <<>>
    <3>1. DeliverFrom(queue, stage)
      BY <1>5, <2>2 DEF OnCompactionSettled
    <3>2. Bring(Entries(queue)) /\ Distinct(queue)
      BY <1>a, <2>1 DEF Bring, Held, OnePlace
    <3> QED BY <1>0, <1>a, <2>1, <2>2, <3>1, <3>2, DeliverCourse
  <2>3. CASE ~(CanDeliver /\ queue # <<>>)
    <3>1. event' = NoEvent /\ UNCHANGED <<queue, consumed, starts>>
      BY <1>5, <2>3 DEF OnCompactionSettled
    <3> QED BY <1>a, <2>1, <3>1, Unmoved DEF Said, NoEvent, Inputs, Asked, Live
  <2> QED BY <2>2, <2>3
<1>6. CASE AfterAppend
  <2>1. /\ Said = NoMsg /\ Said' = NoMsg /\ Asked' = Asked /\ (Live' => Live)
        /\ UNCHANGED <<qlog, consumed, dropped, starts, nextMsg>>
    BY <1>6 DEF AfterAppend, Said, NoEvent, Inputs, promptVars, envVars, Asked, Live
  <2>2. Distinct(queue)
    BY <1>a DEF OnePlace
  <2>3. Held' = Held /\ Distinct(queue)'
    <3>1. CASE queue' = queue
      BY <2>2, <3>1 DEF Held
    <3>2. CASE queue' # queue
      <4>1. PICK i \in DOMAIN queue : queue' = <<queue[i]>> \o Without(queue, i)
        BY <1>6, <3>2 DEF AfterAppend
      <4> QED BY <1>0, <2>2, <4>1, Promoted DEF Held
    <3> QED BY <3>1, <3>2
  <2>4. Pending' = Pending
    BY <2>1 DEF Pending, Undelivered
  <2>5. Keep
    BY <2>1, <2>3, <2>4 DEF Keep, Bring, Rest
  <2>6. LogOnce'
    BY <1>a, <2>1, LogOnceStays DEF OnePlace
  <2> QED BY <1>a, <2>1, <2>3, <2>5, <2>6 DEF Course, Filed, OnePlace, Entered
<1>7. CASE \/ OnAgentTurnRequested \/ OnLlmCallRequested \/ OnAgentMessageEnd \/ OnIntentToolCall
           \/ OnToolExecutionEnd \/ OnToolResultsAggregated \/ OnLlmCallFailed \/ OnCompactionRequested
  <2>1. UNCHANGED <<phase, cur, queue, qlog, consumed, dropped, starts, nextMsg>>
    BY <1>7 DEF OnAgentTurnRequested, OnLlmCallRequested, OnAgentMessageEnd, OnIntentToolCall,
       OnToolExecutionEnd, OnToolResultsAggregated, OnLlmCallFailed, OnCompactionRequested,
       promptVars, queueVars, envVars
  <2>2. event.type \notin Inputs
    BY <1>7 DEF OnAgentTurnRequested, OnLlmCallRequested, OnAgentMessageEnd, OnIntentToolCall,
       OnToolExecutionEnd, OnToolResultsAggregated, OnLlmCallFailed, OnCompactionRequested, NoEvent, Inputs
  <2>3. event'.type \notin Inputs
    <3> USE DEF Ev, NoEvent, Completed, ToolEnd, Inputs
    <3>1. CASE OnAgentTurnRequested \/ OnLlmCallRequested \/ OnAgentMessageEnd
      BY <3>1 DEF OnAgentTurnRequested, OnLlmCallRequested, OnAgentMessageEnd
    <3>2. CASE OnIntentToolCall
      BY <3>2 DEF OnIntentToolCall
    <3>3. CASE OnToolExecutionEnd \/ OnToolResultsAggregated
      BY <3>3 DEF OnToolExecutionEnd, OnToolResultsAggregated
    <3>4. CASE OnLlmCallFailed \/ OnCompactionRequested
      BY <3>4 DEF OnLlmCallFailed, OnCompactionRequested, ScheduleRetry
    <3> QED BY <1>7, <3>1, <3>2, <3>3, <3>4
  <2> QED BY <1>a, <2>1, <2>2, <2>3, Unmoved DEF Said, Asked, Live
<1> QED BY <1>1, <1>2, <1>3, <1>4, <1>5, <1>6, <1>7 DEF Handler

\* The start of a reactor queues what the log says is owed, once.
LEMMA StartReactorFollowsCourse ==
  ASSUME IInv, PlacesOK, StartReactor
  PROVE  Replay /\ Filed
<1>0. qlog \in Seq(Entry)
  BY DEF IInv, TypeOK, QueueType
<1> DEFINE places == {i \in DOMAIN qlog : Undelivered(qlog[i])}
<1>1. /\ event = NoEvent /\ event' = event /\ phase = "resuming" /\ phase' = "starting" /\ cur' = cur
      /\ UNCHANGED <<qlog, consumed, dropped, starts, nextMsg>>
  BY DEF StartReactor, StackEmpty, envVars
<1>2. Said = NoMsg /\ Said' = NoMsg /\ Asked' = Asked /\ Pending' = Pending
  BY <1>1 DEF Said, NoEvent, Inputs, Asked, Waiting, Pending, Undelivered
<1>3. queue = <<>>
  BY <1>1 DEF PlacesOK, CallsOK
<1>4. PICK f \in [1 .. Cardinality(places) -> places] :
        Increasing(f) /\ queue' = queue \o [k \in 1 .. Cardinality(places) |-> qlog[f[k]]]
  BY DEF StartReactor
<1>5. \A i, j \in places : qlog[i].msg = qlog[j].msg => i = j
  BY DEF PlacesOK, OnePlace, LogOnce
<1>6. places \subseteq DOMAIN qlog
  OBVIOUS
<1> HIDE DEF places
<1>a. PICK n, q : n = Cardinality(places) /\ q = queue'
  OBVIOUS
<1>b. IsFiniteSet(places) /\ n \in Nat /\ DOMAIN qlog = 1 .. Len(qlog)
  <2>1. DOMAIN qlog = 1 .. Len(qlog) /\ Len(qlog) \in Nat
    BY <1>0, LenProperties
  <2>2. IsFiniteSet(1 .. Len(qlog))
    BY <2>1, FS_Interval
  <2>3. IsFiniteSet(places)
    BY <1>6, <2>1, <2>2, FS_Subset
  <2> QED BY <1>a, <2>1, <2>3, FS_CardinalityType
<1>c. DOMAIN q = 1 .. n /\ f \in [1 .. n -> places] /\ \A k \in 1 .. n : q[k] = qlog[f[k]]
  <2> DEFINE r == [k \in 1 .. n |-> qlog[f[k]]]
  <2>1. f \in [1 .. n -> places]
    BY <1>a
  <2>2. \A k \in 1 .. n : qlog[f[k]] \in Entry
    BY <1>0, <1>6, <2>1, InQueue
  <2>3. r \in Seq(Entry)
    BY <1>b, <2>2
  <2>4. q = r
    BY <1>3, <1>4, <1>a, <2>3, ConcatEmptySeq
  <2> QED BY <2>1, <2>4
<1>g. \A k \in 1 .. n : f[k] \in places
  BY <1>c, Zenon
<1>h. \A k \in 1 .. n : f[k] \in Int
  <2>1. \A i \in places : i \in Int
    BY <1>6, <1>b
  <2> QED BY <1>g, <2>1
\* The places are queued in order, so each once; and they are all queued.
<1>d. \A i, j \in 1 .. n : f[i] = f[j] => i = j
  <2> SUFFICES ASSUME NEW i \in 1 .. n, NEW j \in 1 .. n, f[i] = f[j], i # j PROVE FALSE
    OBVIOUS
  <2>1. f[i] \in Int /\ f[j] \in Int
    BY <1>h
  <2>2. i < j \/ j < i
    BY <1>b
  <2>3. DOMAIN f = 1 .. n
    BY <1>c
  <2> QED BY <1>4, <2>1, <2>2, <2>3 DEF Increasing
<1>e. \A i \in places : \E k \in 1 .. n : f[k] = i
  <2>1. f \in Injection(1 .. n, places)
    BY <1>c, <1>d DEF Injection, IsInjective
  <2>2. Cardinality(1 .. n) = n
    BY <1>b, FS_Interval
  <2>3. f \in Surjection(1 .. n, places)
    BY <1>a, <1>b, <2>1, <2>2, FS_Injection
  <2> QED BY <2>3 DEF Surjection
<1>7. Distinct(queue)' /\ \A e \in Entry : e \in Held' <=> \E i \in places : qlog[i] = e
  <2>1. Distinct(q)
    BY <1>5, <1>c, <1>d, <1>g DEF Distinct
  <2>2. ASSUME NEW e \in Entry PROVE e \in Entries(q) <=> \E i \in places : qlog[i] = e
    BY <1>c, <1>e, <1>g DEF Entries
  <2> QED BY <1>a, <2>1, <2>2 DEF Held
<1>8. Held' = Pending
  BY <1>7 DEF Pending, places, Held, Entries
<1>9. Held = {}
  BY <1>3 DEF Held, Entries
<1>10. Replay
  BY <1>1, <1>2, <1>8, <1>9 DEF Replay
<1>11. LogOnce'
  BY <1>1, LogOnceStays DEF PlacesOK, OnePlace
<1> QED BY <1>1, <1>7, <1>10, <1>11 DEF Filed, PlacesOK, OnePlace, Entered

\* A new follow-up is in the log, and neither delivered nor dropped.
LEMMA FollowUpFollowsCourse ==
  ASSUME IInv, PlacesOK, FollowUp, ~MicroInputs
  PROVE  Course /\ Filed
<1> DEFINE e == [msg |-> nextMsg, form |-> "followUp"]
<1>0. qlog \in Seq(Entry) /\ dropped \subseteq Entry
  BY DEF IInv, TypeOK, QueueType
<1>1. /\ event = NoEvent /\ nextMsg \in Msgs /\ nextMsg' = nextMsg + 1 /\ qlog' = Append(qlog, e)
      /\ event' = IF Live THEN Queued(nextMsg, "followUp") ELSE NoEvent
      /\ UNCHANGED <<phase, cur, queue, consumed, dropped, starts>>
  BY UserFindsMacrotask, NewMsgType DEF FollowUp, StackEmpty, NewMsg, IInv, promptVars
<1>2. e \in Entry /\ Numbers
  BY <1>1, Numbered DEF Entry, Forms
<1>3. Said = NoMsg /\ Asked' = Asked /\ Held' = Held
  BY <1>1 DEF Said, NoEvent, Inputs, Asked, Held
<1>4. \/ /\ Said' = nextMsg /\ event'.type = "USER_FOLLOWUP_QUEUED" /\ event'.arg = "followUp"
      \/ Said' = NoMsg /\ ~Live
  BY <1>1 DEF Said, Queued, NoEvent, Inputs
<1>5. Undelivered(e)
  <2>1. nextMsg \notin consumed
    BY <1>1 DEF PlacesOK, OnePlace, Entered, Msgs
  <2>2. e \notin dropped
    BY <1>1 DEF PlacesOK, DroppedGone, InPlace, Msgs
  <2> QED BY <2>1, <2>2 DEF Undelivered
<1>6. Append(qlog, e) \in Seq(Entry) /\ Entries(Append(qlog, e)) = Entries(qlog) \cup {e}
  BY <1>0, <1>2, Added
<1>7. Pending' = Pending \cup {e}
  <2>1. Pending = {x \in Entries(qlog) : Undelivered(x)}
    BY DEF Pending, Entries
  <2>2. Pending' = {x \in Entries(qlog)' : Undelivered(x)}
    BY <1>1 DEF Pending, Entries, Undelivered
  <2>3. Entries(qlog)' = Entries(qlog) \cup {e}
    BY <1>1, <1>6
  <2> QED BY <1>5, <2>1, <2>2, <2>3
<1>8. Enter
  BY <1>1, <1>3, <1>4, <1>7 DEF Enter, Live
<1>9. LogOnce'
  <2>1. \A i \in DOMAIN qlog : Undelivered(qlog[i]) => qlog[i].msg # nextMsg
    <3> SUFFICES ASSUME NEW i \in DOMAIN qlog, Undelivered(qlog[i]) PROVE qlog[i].msg # nextMsg
      OBVIOUS
    <3>1. qlog[i] \in Pending
      BY <1>0, InQueue DEF Pending
    <3>2. qlog[i].msg < nextMsg
      BY <3>1 DEF PlacesOK, OnePlace, Entered
    <3> QED BY <1>1, <3>2 DEF Msgs
  <2> SUFFICES ASSUME NEW i \in DOMAIN qlog', NEW j \in DOMAIN qlog', i # j,
                      Undelivered(qlog[i])', Undelivered(qlog[j])', qlog'[i].msg = qlog'[j].msg
               PROVE  FALSE
    BY DEF LogOnce
  <2>2. Undelivered(qlog'[i]) /\ Undelivered(qlog'[j])
    BY <1>1 DEF Undelivered
  <2>3. /\ qlog'[i] = e \/ (i \in DOMAIN qlog /\ qlog'[i] = qlog[i])
        /\ qlog'[j] = e \/ (j \in DOMAIN qlog /\ qlog'[j] = qlog[j])
        /\ \/ i \in DOMAIN qlog /\ qlog'[i] = qlog[i]
           \/ j \in DOMAIN qlog /\ qlog'[j] = qlog[j]
    BY <1>0, <1>1, <1>2, LastAdded
  <2> QED BY <2>1, <2>2, <2>3 DEF PlacesOK, OnePlace, LogOnce
<1>10. \A m \in consumed' : m < nextMsg'
  <2> SUFFICES ASSUME NEW m \in consumed PROVE m < nextMsg + 1
    BY <1>1
  <2>1. m \in Nat /\ m < nextMsg
    BY DEF IInv, TypeOK, QueueType, Msgs, PlacesOK, OnePlace, Entered
  <2> QED BY <1>1, <2>1 DEF Msgs
<1> QED BY <1>1, <1>8, <1>9, <1>10 DEF Course, Filed, PlacesOK, OnePlace

\* An entry is taken out of the queue, on the record.
LEMMA TakeDrops ==
  ASSUME IInv, PlacesOK, NEW i \in DOMAIN queue, Take(i)
  PROVE  /\ queue' \in Seq(Entry) /\ Distinct(queue)' /\ Live
         /\ \E R \in SUBSET Held : Held' = Held \ R /\ dropped' = dropped \cup R
<1>1. queue \in Seq(Entry) /\ Distinct(queue)
  BY DEF IInv, TypeOK, QueueType, PlacesOK, OnePlace
<1>2. queue' = Without(queue, i) /\ dropped' = dropped \cup {queue[i]} /\ Live
  BY DEF Take
<1>3. queue' \in Seq(Entry) /\ Entries(queue') = Entries(queue) \ {queue[i]} /\ Distinct(queue')
  BY <1>1, <1>2, TakenOut
<1>4. {queue[i]} \in SUBSET Held
  BY <1>1, InQueue DEF Held
<1> QED BY <1>2, <1>3, <1>4 DEF Held

\* What the user does between macrotasks follows the course.
LEMMA UserFollowsCourse ==
  ASSUME IInv, PlacesOK, ~MicroInputs, User
  PROVE  Course /\ Filed
<1>0. /\ queue \in Seq(Entry) /\ qlog \in Seq(Entry) /\ nextMsg \in Nat /\ consumed \subseteq Nat
      /\ OnePlace /\ CallsOK /\ FormsOK
  BY ReactorAssumption DEF IInv, TypeOK, QueueType, EnvType, Msgs, PlacesOK
<1>a. ASSUME nextMsg' = nextMsg + 1, consumed' = consumed PROVE \A m \in consumed' : m < nextMsg'
  BY <1>0, <1>a DEF OnePlace, Entered
<1>1. CASE Prompt \/ Steer
  <2>1. /\ event = NoEvent /\ nextMsg \in Msgs /\ nextMsg' = nextMsg + 1
        /\ UNCHANGED <<queue, qlog, consumed, dropped, starts>>
    BY <1>1, UserFindsMacrotask, NewMsgType DEF Prompt, Steer, StackEmpty, NewMsg, IInv, queueVars
  <2>2. Said = NoMsg /\ Held' = Held /\ Pending' = Pending
    BY <2>1 DEF Said, NoEvent, Inputs, Held, Pending, Undelivered
  <2>3. \/ Asked = NoMsg /\ Asked' = nextMsg /\ Said' = NoMsg
        \/ /\ Asked' = Asked
           /\ \/ Said' = nextMsg /\ event'.type = "USER_INTERRUPT"
              \/ Said' = NoMsg /\ phase = "awaitIdle"
    <3>1. CASE Prompt
      BY <2>1, <3>1 DEF Prompt, Asked, Waiting, Said, NoEvent, Inputs
    <3>2. CASE Steer
      <4>1. Asked' = Asked
        BY <3>2 DEF Steer, promptVars, Asked
      <4>2. CASE Live
        BY <3>2, <4>1, <4>2 DEF Steer, Said, Ev, Inputs
      <4>3. CASE ~Live
        <5>1. phase = "awaitIdle"
          BY <3>2, <4>3, UserFindsMacrotask DEF Steer, Live, IInv, TypeOK, PromptType, Phases
        <5> QED BY <3>2, <4>1, <4>3, <5>1 DEF Steer, Said, NoEvent, Inputs
      <4> QED BY <4>2, <4>3
    <3> QED BY <1>1, <3>1, <3>2
  <2>4. Live' => Live
    BY <1>1 DEF Prompt, Steer, promptVars, Live
  <2>5. Enter
    BY <2>1, <2>2, <2>3, <2>4 DEF Enter
  <2>6. LogOnce'
    BY <1>0, <2>1, LogOnceStays DEF OnePlace
  <2> QED BY <1>0, <1>a, <2>1, <2>5, <2>6 DEF Course, Filed, OnePlace
<1>2. CASE FollowUp
  BY <1>2, FollowUpFollowsCourse
<1>3. CASE Abort \/ Compact \/ \E m \in Msgs, t \in Tools : Decide(m, t)
  <2>1. /\ event = NoEvent /\ UNCHANGED <<phase, cur, queue, qlog, consumed, dropped, starts, nextMsg>>
    BY <1>3, UserFindsMacrotask DEF Abort, Compact, Decide, StackEmpty, promptVars, queueVars, envVars
  <2>2. event' = Ev("USER_INTERRUPT", NoMsg) \/ event' = Ev("COMPACTION_REQUESTED", NoMsg) \/ event' = event
    BY <1>3 DEF Abort, Compact, Decide
  <2>3. Said = NoMsg /\ Said' = NoMsg /\ Asked' = Asked /\ (Live' => Live)
    BY <2>1, <2>2 DEF Said, NoEvent, Ev, Inputs, Asked, Live
  <2> QED BY <1>0, <2>1, <2>3, Unmoved
<1>4. CASE CancelQueued
  <2>1. PICK i \in DOMAIN queue : Take(i)
    BY <1>4 DEF CancelQueued
  <2>2. /\ event = NoEvent /\ event' = event /\ UNCHANGED <<phase, cur, qlog, consumed, starts, nextMsg>>
    BY <1>4, <2>1, UserFindsMacrotask DEF CancelQueued, Take, StackEmpty, promptVars
  <2>3. Said = NoMsg /\ Said' = NoMsg /\ Asked' = Asked
    BY <2>2 DEF Said, NoEvent, Inputs, Asked
  <2>4. PICK R \in SUBSET Held : /\ queue' \in Seq(Entry) /\ Distinct(queue)' /\ Live
                                 /\ Held' = Held \ R /\ dropped' = dropped \cup R
    BY <2>1, TakeDrops
  <2> QED BY <1>0, <2>2, <2>3, <2>4, DropCourse
<1>5. CASE ClearQueued
  <2>1. /\ event = NoEvent /\ event' = event /\ UNCHANGED <<phase, cur, qlog, consumed, starts, nextMsg>>
        /\ queue' = <<>> /\ dropped' = dropped \cup {queue[i] : i \in DOMAIN queue} /\ Live
    BY <1>5, UserFindsMacrotask DEF ClearQueued, StackEmpty, promptVars
  <2>2. Said = NoMsg /\ Said' = NoMsg /\ Asked' = Asked
    BY <2>1 DEF Said, NoEvent, Inputs, Asked
  <2>3. {queue[i] : i \in DOMAIN queue} = Held
    BY <1>0, InQueue DEF Held, Entries
  <2>4. Held' = {} /\ queue' \in Seq(Entry) /\ Distinct(queue)'
    BY <2>1 DEF Held, Entries, Distinct
  <2> QED BY <1>0, <2>1, <2>2, <2>3, <2>4, DropCourse
<1>6. CASE SteerQueued
  <2>1. PICK i \in DOMAIN queue : Take(i)
    BY <1>6 DEF SteerQueued
  <2>2. /\ event = NoEvent /\ event' = Ev("USER_INTERRUPT", nextMsg) /\ nextMsg' = nextMsg + 1
        /\ UNCHANGED <<phase, cur, qlog, consumed, starts>>
    BY <1>6, <2>1, UserFindsMacrotask DEF SteerQueued, Take, StackEmpty, NewMsg, promptVars
  <2>3. Said = NoMsg /\ Said' = nextMsg /\ event'.type = "USER_INTERRUPT" /\ Asked' = Asked
    BY <2>2 DEF Said, NoEvent, Ev, Inputs, Asked
  <2>4. PICK R \in SUBSET Held : /\ queue' \in Seq(Entry) /\ Distinct(queue)' /\ Live
                                 /\ Held' = Held \ R /\ dropped' = dropped \cup R
    BY <2>1, TakeDrops
  <2> QED BY <1>0, <2>2, <2>3, <2>4, DropCourse
<1> QED BY <1>1, <1>2, <1>3, <1>4, <1>5, <1>6 DEF User, Prompt, Steer

LEMMA NextFollowsCourse ==
  ASSUME IInv, RetryInv, PlacesOK, ~MicroInputs, Next
  PROVE  Course /\ Filed
<1>0. OnePlace /\ (event # NoEvent => Live)
  BY DEF PlacesOK, RetryInv, LiveOK
<1>1. CASE Handler
  BY <1>1, HandlersFollowCourse
<1>2. CASE Microtask
  <2>1. CASE StartReactor
    BY <2>1, StartReactorFollowsCourse DEF Course
  <2>2. CASE AppendPrompt
    <3>1. /\ phase = "starting" /\ phase' = "settling" /\ event = NoEvent /\ event' = Ev("USER_MESSAGE", cur)
          /\ cur \in Msgs /\ UNCHANGED <<queue, qlog, consumed, dropped, starts, nextMsg>>
      BY <2>2 DEF AppendPrompt, StackEmpty, IInv, PromptOK, queueVars, envVars
    <3>2. /\ Asked = cur /\ Asked' = NoMsg /\ Said = NoMsg /\ Said' = cur /\ event'.type = "USER_MESSAGE"
          /\ Held' = Held /\ Pending' = Pending /\ Live
      BY <3>1 DEF Asked, Waiting, Said, NoEvent, Ev, Inputs, Held, Pending, Undelivered, Live
    <3>3. Open
      BY <3>1, <3>2 DEF Open, Rest
    <3>4. LogOnce'
      BY <1>0, <3>1, LogOnceStays DEF OnePlace
    <3> QED BY <1>0, <3>1, <3>3, <3>4 DEF Course, Filed, OnePlace, Entered
  <2>3. CASE SettledCheck \/ FinishPrompt \/ ApprovalDecided
    <3>1. event = NoEvent /\ UNCHANGED <<queue, qlog, consumed, dropped, starts, nextMsg>>
      BY <2>3 DEF SettledCheck, FinishPrompt, ApprovalDecided, StackEmpty, queueVars, envVars
    <3>2. event'.type \notin Inputs
      <4>1. CASE SettledCheck \/ FinishPrompt
        BY <4>1 DEF SettledCheck, FinishPrompt, StackEmpty, NoEvent, Inputs
      <4>2. CASE ApprovalDecided
        BY <4>2 DEF ApprovalDecided, ToolEnd, NoEvent, Inputs
      <4> QED BY <2>3, <4>1, <4>2
    <3>3. Asked' = Asked /\ (Live' => Live)
      BY <2>3 DEF SettledCheck, FinishPrompt, ApprovalDecided, promptVars, Asked, Waiting, Live, IInv, PromptOK
    <3> QED BY <1>0, <3>1, <3>2, <3>3, Unmoved DEF Said, NoEvent, Inputs
  <2> QED BY <1>2, <2>1, <2>2, <2>3 DEF Microtask
<1>3. CASE Completion \/ \E m \in Msgs : StreamIdle(m)
  <2>1. event = NoEvent /\ UNCHANGED <<queue, qlog, consumed, dropped, starts, nextMsg>>
    BY <1>3 DEF Completion, HookReturns, LlmResponds, LlmFails, RetryFires, ToolReturns, CompactionReturns,
       BackgroundCompactionReturns, StreamIdle, MacroTask, StackEmpty, queueVars, envVars
  <2>2. event'.type \notin Inputs
    BY <1>3, <2>1 DEF Completion, HookReturns, LlmResponds, LlmFails, RetryFires, ToolReturns, CompactionReturns,
       BackgroundCompactionReturns, StreamIdle, Emit, Ev, ToolEnd, NoEvent, Inputs
  <2>3. Asked' = Asked /\ (Live' => Live)
    BY <1>3 DEF Completion, HookReturns, LlmResponds, LlmFails, RetryFires, ToolReturns, CompactionReturns,
       BackgroundCompactionReturns, StreamIdle, promptVars, Asked, Waiting, Live
  <2> QED BY <1>0, <2>1, <2>2, <2>3, Unmoved DEF Said, NoEvent, Inputs
<1>4. CASE User
  BY <1>4, UserFollowsCourse
<1> QED BY <1>1, <1>2, <1>3, <1>4 DEF Next

LEMMA NextKeepsPlaces ==
  ASSUME IInv, RetryInv, PlacesOK, ~MicroInputs, [Next]_vars
  PROVE  PlacesOK'
<1>1. CASE Next
  <2>1. CallsOK' /\ FormsOK'
    BY NextKeepsCalls DEF PlacesOK
  <2>2. Course /\ Filed
    BY <1>1, NextFollowsCourse
  <2>3. OneEntry /\ SaidOnce /\ AskedOnce /\ Entered /\ DroppedGone /\ dropped \subseteq Entry
    BY DEF PlacesOK, OnePlace, IInv, TypeOK, QueueType
  <2>4. Numbers
    BY Numbered
  <2>5. /\ OneEntry' /\ SaidOnce' /\ AskedOnce'
        /\ \A e \in (Held \cup Pending)' : e.msg < nextMsg'
        /\ Said' < nextMsg' /\ Asked' < nextMsg'
    BY <2>2, <2>3, <2>4, CourseKeepsOnePlace
  <2>6. DroppedGone'
    BY <2>2, <2>3, <2>4, CourseKeepsDropped
  <2>7. OnePlace'
    BY <2>2, <2>5 DEF Filed, OnePlace, Entered
  <2> QED BY <2>1, <2>6, <2>7 DEF PlacesOK
<1>2. CASE UNCHANGED vars
  <2>1. UNCHANGED <<phase, cur, event, after, aborted, queue, qlog, consumed, dropped, nextMsg>>
    BY <1>2 DEF vars, promptVars, flagVars, queueVars, envVars
  <2>2. UNCHANGED <<Held, Pending, Said, Asked>>
    BY <2>1 DEF Held, Pending, Undelivered, Said, Asked
  <2>3. CallsOK' /\ FormsOK'
    BY <2>1 DEF PlacesOK, CallsOK, FormsOK
  <2>4. Distinct(queue)' /\ LogOnce'
    BY <2>1 DEF PlacesOK, OnePlace, LogOnce, Undelivered
  <2>5. OneEntry' /\ SaidOnce' /\ AskedOnce' /\ Entered'
    BY <2>1, <2>2 DEF PlacesOK, OnePlace, OneEntry, SaidOnce, AskedOnce, Entered
  <2>6. DroppedGone'
    BY <2>1, <2>2 DEF PlacesOK, DroppedGone, InPlace
  <2> QED BY <2>3, <2>4, <2>5, <2>6 DEF PlacesOK, OnePlace
<1> QED BY <1>1, <1>2

LEMMA InitPlaces == Init => PlacesOK
<1> SUFFICES ASSUME Init PROVE PlacesOK
  OBVIOUS
<1>1. Said = NoMsg /\ Asked = NoMsg /\ Held = {} /\ Pending = {}
  BY DEF Init, Said, NoEvent, Inputs, Asked, Waiting, Held, Entries, Pending
<1>2. CallsOK /\ FormsOK
  BY DEF Init, CallsOK, FormsOK, NoEvent, Inputs
<1>3. OnePlace
  BY <1>1 DEF Init, OnePlace, Distinct, OneEntry, LogOnce, SaidOnce, AskedOnce, Entered, NoMsg
<1>4. DroppedGone
  BY DEF Init, DroppedGone
<1> QED BY <1>2, <1>3, <1>4 DEF PlacesOK

LEMMA PlacesInvariance ==
  ASSUME ~MicroInputs
  PROVE  Spec => []PlacesOK
<1>1. Init => PlacesOK
  BY InitPlaces
<1>2. IInv /\ RetryInv /\ PlacesOK /\ [Next]_vars => PlacesOK'
  BY NextKeepsPlaces
<1>3. (RetryInv /\ IntentsOK) => RetryInv
  OBVIOUS
<1> QED BY <1>1, <1>2, <1>3, Invariance, RetryInvariance, PTL DEF Spec

\* A turn starts for a message that is somewhere.
LEMMA StartsInPlace ==
  ASSUME Numbers, Course, starts \in [Msgs -> Nat], NEW m \in Msgs, ~InPlace(m)
  PROVE  starts'[m] = starts[m]
<1>1. CASE Start
  BY <1>1 DEF Start, Started, InPlace
<1>2. CASE Deliver
  <2>1. PICK P \in SUBSET Entry, h \in Entry :
          h \in P /\ Bring(P) /\ (starts' = starts \/ Started(h.msg))
    BY <1>2 DEF Deliver
  <2>2. h \in Held \/ h.msg = Said
    BY <2>1 DEF Bring
  <2>3. h.msg # m
    BY <2>2 DEF InPlace
  <2> QED BY <2>1, <2>3 DEF Started
<1>3. CASE starts' = starts
  BY <1>3
<1> QED BY <1>1, <1>2, <1>3 DEF Course, Keep, Mark, Drop, Replay, Open, Enter

\* Dropped is dropped: as long as callers run between macrotasks, no queue, reactor or
\* replay starts a turn for a message on the record as dropped.
THEOREM DroppedIsFinal ==
  ASSUME ~MicroInputs
  PROVE  Spec => DroppedStaysDropped
<1>1. IInv /\ RetryInv /\ PlacesOK /\ [Next]_vars
        => [\A e \in dropped : starts'[e.msg] = starts[e.msg]]_vars
  <2> SUFFICES ASSUME IInv, RetryInv, PlacesOK, Next, NEW e \in dropped
               PROVE  starts'[e.msg] = starts[e.msg]
    OBVIOUS
  <2>1. e.msg \in Msgs /\ starts \in [Msgs -> Nat]
    BY DEF IInv, TypeOK, QueueType, Entry
  <2>2. ~InPlace(e.msg)
    BY DEF PlacesOK, DroppedGone
  <2> QED BY <2>1, <2>2, Numbered, NextFollowsCourse, StartsInPlace
<1>2. (RetryInv /\ IntentsOK) => RetryInv
  OBVIOUS
<1> QED BY <1>1, <1>2, Invariance, RetryInvariance, PlacesInvariance, PTL DEF Spec, DroppedStaysDropped
-----------------------------------------------------------------------------
(* No message is lost *)

\* Without compactions while nothing runs, prompt() never waits for one.
NoIdleWait == "idle" \notin background /\ phase # "awaitIdle"

\* A message that was entered is answered, dropped or in a place it leaves only so.
Accounted ==
  \A m \in Msgs : m < nextMsg =>
    \/ starts[m] > 0 \/ (\E e \in dropped : e.msg = m)
    \/ (\E e \in Held : e.msg = m) \/ m = Said \/ m = Asked
    \/ ~Live /\ \E e \in Pending : e.msg = m

LEMMA NextKeepsNoIdleWait ==
  ASSUME NoIdleWait, "idle" \notin CompactWhen, [Next]_vars
  PROVE  NoIdleWait'
<1> USE DEF NoIdleWait
<1>1. CASE Handler
  BY <1>1 DEF Handler, OnUserMessage, OnUserInterrupt, OnUserFollowupQueued, OnAgentTurnRequested,
     OnLlmCallRequested, OnAgentMessageEnd, OnIntentToolCall, OnToolExecutionEnd, OnToolResultsAggregated,
     OnLlmCallFailed, OnAgentTurnCompleted, OnCompactionRequested, OnCompactionSettled, AfterAppend, promptVars
<1>2. CASE Microtask
  BY <1>2 DEF Microtask, StartReactor, AppendPrompt, SettledCheck, FinishPrompt, ApprovalDecided, promptVars
<1>3. CASE Completion \/ \E m \in Msgs : StreamIdle(m)
  BY <1>3 DEF Completion, HookReturns, LlmResponds, LlmFails, RetryFires, ToolReturns, CompactionReturns,
     BackgroundCompactionReturns, StreamIdle, promptVars
<1>4. CASE User
  BY <1>4 DEF User, Prompt, Steer, FollowUp, Abort, Compact, CancelQueued, ClearQueued, SteerQueued, Decide,
     promptVars
<1>5. CASE UNCHANGED vars
  BY <1>5 DEF vars, promptVars
<1> QED BY <1>1, <1>2, <1>3, <1>4, <1>5 DEF Next

\* Turns that were started stay started.
LEMMA StartsGrow ==
  ASSUME Course, starts \in [Msgs -> Nat], NEW m \in Msgs, starts[m] > 0
  PROVE  starts'[m] > 0
<1>1. ASSUME NEW n, Started(n) PROVE starts'[m] > 0
  BY <1>1 DEF Started
<1>2. starts' = starts \/ \E n \in Msgs : Started(n)
  BY DEF Course, Keep, Start, Mark, Deliver, Drop, Replay, Open, Enter, Started
<1> QED BY <1>1, <1>2

LEMMA StartedCounts ==
  ASSUME starts \in [Msgs -> Nat], NEW m \in Msgs, Started(m)
  PROVE  starts'[m] = starts[m] + 1
BY DEF Started

\* The number of turns a message was given stays a number.
LEMMA StartsNat ==
  ASSUME Course, starts \in [Msgs -> Nat], NEW m \in Msgs
  PROVE  starts'[m] \in Nat
<1>1. ASSUME NEW n, Started(n) PROVE starts'[m] \in Nat
  BY <1>1 DEF Started
<1>2. starts' = starts \/ \E n \in Msgs : Started(n)
  BY DEF Course, Keep, Start, Mark, Deliver, Drop, Replay, Open, Enter, Started
<1> QED BY <1>1, <1>2

LEMMA CourseKeepsAccounted ==
  ASSUME Numbers, Course, Accounted, NoIdleWait, starts \in [Msgs -> Nat]
  PROVE  Accounted'
<1> USE DEF Numbers, NoMsg, Msgs, Entry
<1> SUFFICES ASSUME NEW m \in Msgs, m < nextMsg', starts'[m] = 0,
                    \A e \in dropped' : e.msg # m, \A e \in Held' : e.msg # m, m # Said', m # Asked'
             PROVE  ~Live' /\ \E e \in Pending' : e.msg = m
  BY StartsNat DEF Accounted
<1>1. starts[m] = 0
  BY StartsGrow
<1>2. ASSUME NEW P, Bring(P), m = Said PROVE \E e \in P : e.msg = m
  BY <1>2 DEF Bring
<1>3. ASSUME NEW P, Bring(P), NEW e \in Held, e.msg = m PROVE e \in P
  BY <1>3 DEF Bring
<1>4. CASE Keep
  BY <1>1, <1>2, <1>3, <1>4 DEF Keep, Rest, Accounted
<1>5. CASE Start
  BY <1>1, <1>5 DEF Start, Started, Rest, Accounted
<1>6. CASE Mark
  BY <1>1, <1>6 DEF Mark, Rest, Accounted
<1>7. CASE Deliver
  <2>1. PICK P \in SUBSET Entry, h \in Entry :
          /\ h \in P /\ Bring(P) /\ Held' = P \ {h} /\ Asked' = Asked /\ Rest /\ Live
          /\ Started(h.msg) \/ Said' = h.msg
    BY <1>7 DEF Deliver
  <2>2. ASSUME Started(m) PROVE FALSE
    BY <1>1, <2>2, StartedCounts
  <2>3. h.msg # m
    BY <2>1, <2>2
  <2> QED BY <1>1, <1>2, <1>3, <2>1, <2>3 DEF Rest, Accounted
<1>8. CASE Drop
  <2>1. PICK R \in SUBSET Held :
          /\ Said = NoMsg /\ Held' = Held \ R /\ dropped' = dropped \cup R /\ Asked' = Asked /\ Live
          /\ nextMsg' = nextMsg \/ (nextMsg' = nextMsg + 1 /\ Said' = nextMsg)
    BY <1>8 DEF Drop
  <2>2. m < nextMsg
    BY <2>1
  <2> QED BY <1>1, <2>1, <2>2 DEF Accounted
<1>9. CASE Replay
  BY <1>1, <1>9 DEF Replay, Accounted
<1>10. CASE Open
  BY <1>1, <1>10 DEF Open, Rest, Accounted
<1>11. CASE Enter
  <2>1. m < nextMsg \/ m = nextMsg
    BY <1>11 DEF Enter
  <2>2. CASE m = nextMsg
    <3>1. Asked' # nextMsg /\ Said' # nextMsg /\ phase # "awaitIdle" /\ (Live' => Live)
      BY <1>11, <2>2 DEF Enter, NoIdleWait
    <3>2. /\ Pending' = Pending \cup {[msg |-> nextMsg, form |-> "followUp"]} /\ ~Live
          /\ nextMsg \in Msgs
      BY <1>11, <3>1 DEF Enter
    <3>3. [msg |-> nextMsg, form |-> "followUp"].msg = m
      BY <2>2
    <3> QED BY <3>1, <3>2, <3>3
  <2>3. CASE m < nextMsg
    BY <1>1, <1>11, <2>3 DEF Enter, Accounted
  <2> QED BY <2>1, <2>2, <2>3
<1> QED BY <1>4, <1>5, <1>6, <1>7, <1>8, <1>9, <1>10, <1>11 DEF Course

LEMMA StutterKeepsAccounted ==
  ASSUME Accounted, UNCHANGED vars
  PROVE  Accounted'
BY DEF Accounted, vars, promptVars, queueVars, envVars, Held, Entries, Pending, Undelivered, Said, Asked, Live

\* What the property says of a message, when it is in one of these places.
LEMMA AccountedIsNotLost ==
  ASSUME IInv, Accounted
  PROVE  NoMessageLost
<1> SUFFICES ASSUME NEW m \in 1 .. nextMsg - 1, starts[m] <= 0, \A e \in dropped : e.msg # m
             PROVE  \/ \E i \in DOMAIN queue : queue[i].msg = m
                    \/ cur = m /\ phase \in {"awaitIdle", "resuming", "starting"}
                    \/ event.msg = m
                    \/ ~Live /\ \E i \in DOMAIN qlog : qlog[i].msg = m /\ Undelivered(qlog[i])
  <2>1. nextMsg \in 1 .. MaxMsgs + 1 /\ starts \in [Msgs -> Nat]
    BY DEF IInv, TypeOK, EnvType, QueueType
  <2>2. ASSUME NEW m \in 1 .. nextMsg - 1 PROVE starts[m] \in Nat
    BY <2>1, ReactorAssumption DEF Msgs
  <2> QED BY <2>2 DEF NoMessageLost
<1>1. m \in Msgs /\ m < nextMsg /\ m # NoMsg
  BY ReactorAssumption DEF IInv, TypeOK, EnvType, Msgs, NoMsg
<1>2. starts[m] \in Nat
  BY <1>1 DEF IInv, TypeOK, QueueType
<1>3. CASE \E e \in Held : e.msg = m
  BY <1>3 DEF Held, Entries
<1>4. CASE m = Said
  BY <1>1, <1>4 DEF Said
<1>5. CASE m = Asked
  BY <1>1, <1>5 DEF Asked, Waiting
<1>6. CASE ~Live /\ \E e \in Pending : e.msg = m
  BY <1>6 DEF Pending
<1> QED BY <1>1, <1>2, <1>3, <1>4, <1>5, <1>6 DEF Accounted

\* No message is lost between prompts, reactors and edits: as long as callers run between
\* macrotasks and ask for no compaction while nothing runs (a steer that meets a prompt()
\* waiting for one finds no reactor).
THEOREM NothingIsLost ==
  ASSUME ~MicroInputs, "idle" \notin CompactWhen
  PROVE  Spec => []NoMessageLost
<1>1. Init => NoIdleWait /\ Accounted
  BY DEF Init, NoIdleWait, Accounted, Msgs
<1>2. IInv /\ RetryInv /\ IntentsOK /\ PlacesOK /\ NoIdleWait /\ Accounted /\ [Next]_vars
        => (NoIdleWait /\ Accounted)'
  <2> SUFFICES ASSUME IInv, RetryInv, IntentsOK, PlacesOK, NoIdleWait, Accounted, [Next]_vars
               PROVE  NoIdleWait' /\ Accounted'
    OBVIOUS
  <2>1. NoIdleWait'
    BY NextKeepsNoIdleWait
  <2>2. CASE Next
    <3>1. Course
      BY <2>2, NextFollowsCourse
    <3>2. Numbers /\ starts \in [Msgs -> Nat]
      BY Numbered DEF IInv, TypeOK, QueueType
    <3> QED BY <2>1, <3>1, <3>2, CourseKeepsAccounted
  <2>3. CASE UNCHANGED vars
    BY <2>1, <2>3, StutterKeepsAccounted
  <2> QED BY <2>1, <2>2, <2>3
<1>3. IInv /\ Accounted => NoMessageLost
  BY AccountedIsNotLost
<1> QED BY <1>1, <1>2, <1>3, Invariance, RetryInvariance, PlacesInvariance, PTL DEF Spec
-----------------------------------------------------------------------------
(* A prompt that settled left nothing behind *)

Nobody == \A m \in Msgs : ~Active(m)

\* Outside the settling phase nothing runs.
QuietOK   == phase # "settling" =>
               ~turnInFlight /\ ~compacting /\ event = NoEvent /\ after = "none" /\ Nobody
\* A call is made under a signal that is not aborted: no turn is left behind.
CallOK    == event.type = "LLM_CALL_REQUESTED" => ~aborted
FlightOK  == turnInFlight => event.type = "AGENT_TURN_COMPLETED" \/ \E m \in Msgs : Active(m)
\* A reactor compacts after the turn it completed, until the caller of its end returns.
CompactOK ==
  /\ compacting \/ event.type \in {"COMPACTION_REQUESTED", "COMPACTION_END"} \/ after = "clearCompaction"
       => ~turnInFlight /\ Nobody /\ everCompleted
  /\ event.type = "COMPACTION_END" => after = "clearCompaction"
  /\ after = "clearCompaction" => compacting
  /\ event.type = "AGENT_TURN_COMPLETED" /\ compacting => abortedByUser
\* A USER_MESSAGE finds nothing in flight.
MessageOK == event.type = "USER_MESSAGE" => CanDeliver
\* A settled check is only due when a turn completed, and no turn started unnoticed since.
CheckOK   == check => everCompleted /\ \A m \in Msgs : Active(m) => stage[m] = "retry" \/ msgAfter
BackOK    == background \subseteq {"idle"} /\ (background # {} => phase \in {"idle", "awaitIdle"})
\* So no message leaves the marker of a busy reactor.
NoRaw     ==
  /\ \A e \in Held : e.form # "raw"
  /\ \A i \in DOMAIN qlog : qlog[i].form # "raw"
  /\ event.type = "USER_FOLLOWUP_QUEUED" => event.arg # "raw"

SettleInv == QuietOK /\ CallOK /\ FlightOK /\ CompactOK /\ MessageOK /\ CheckOK /\ BackOK /\ NoRaw

\* A step of a turn that leaves the turn active.
LEMMA TurnStep ==
  ASSUME SettleInv, NEW m \in Msgs, Active(m), Active(m)', \A n \in Msgs : n # m => stage'[n] = stage[n],
         UNCHANGED <<phase, check, background, after, compacting, abortedByUser, queue, qlog, everCompleted, msgAfter>>,
         event'.type \notin {"USER_MESSAGE", "USER_FOLLOWUP_QUEUED", "COMPACTION_REQUESTED", "COMPACTION_END"},
         event'.type = "LLM_CALL_REQUESTED" => ~aborted',
         check => stage'[m] = "retry" \/ stage[m] # "retry"
  PROVE  SettleInv'
<1>1. phase = "settling" /\ ~compacting /\ after # "clearCompaction"
  BY DEF SettleInv, QuietOK, CompactOK, Nobody
<1>2. QuietOK' /\ CallOK' /\ FlightOK' /\ MessageOK' /\ BackOK'
  BY <1>1 DEF SettleInv, QuietOK, CallOK, FlightOK, MessageOK, BackOK
<1>3. CompactOK'
  BY <1>1 DEF CompactOK
<1>4. CheckOK'
  BY DEF SettleInv, CheckOK, Active
<1>5. NoRaw'
  BY DEF SettleInv, NoRaw, Held, Entries
<1> QED BY <1>2, <1>3, <1>4, <1>5 DEF SettleInv

\* A delivery, when nothing is in flight, appends the message again.
LEMMA SettledDelivery ==
  ASSUME SettleInv, NEW q \in Seq(Entry), q # <<>>, \A e \in Entries(q) : e.form # "raw",
         Distinct(q), NEW st, DeliverFrom(q, st), \A m \in Msgs : st[m] \notin {"hook", "dispatch", "llm", "stray", "tools", "retry"},
         phase = "settling", ~compacting,
         UNCHANGED <<phase, background, after, compacting, qlog>>, check' => everCompleted'
  PROVE  SettleInv'
<1>1. /\ event' = Ev("USER_MESSAGE", Head(q).msg) /\ stage' = st /\ turnInFlight' = FALSE
      /\ queue' = Tail(q)
  BY Taken DEF DeliverFrom
<1>2. Nobody' /\ Retrying' = {}
  BY <1>1 DEF Nobody, Active, Retrying
<1>3. Held' \subseteq Entries(q)
  BY <1>1, Taken DEF Held
<1>4. after # "clearCompaction"
  BY DEF SettleInv, CompactOK
<1>5. CallOK' /\ FlightOK' /\ MessageOK' /\ CheckOK' /\ CompactOK'
  BY <1>1, <1>2, <1>4 DEF CallOK, FlightOK, MessageOK, CheckOK, CompactOK, CanDeliver, Nobody, Ev
<1>6. QuietOK' /\ BackOK' /\ NoRaw'
  BY <1>1, <1>3 DEF SettleInv, QuietOK, BackOK, NoRaw, Ev
<1> QED BY <1>5, <1>6 DEF SettleInv

LEMMA MessageSettles ==
  ASSUME IInv, CallsOK, SettleInv, OnUserMessage
  PROVE  SettleInv'
<1>0. PICK m \in Msgs : m = event.msg
  BY DEF IInv, StackOK, OnUserMessage
<1>1. ~aborted /\ CanDeliver /\ phase = "settling"
  BY DEF SettleInv, MessageOK, QuietOK, CallsOK, OnUserMessage, NoEvent
<1>2. /\ turnInFlight' = TRUE /\ msgAfter' = TRUE
      /\ UNCHANGED <<phase, check, background, after, aborted, abortedByUser, compacting, queue, qlog, everCompleted>>
      /\ event' = NoEvent \/ event' = Ev("AGENT_TURN_REQUESTED", m)
      /\ stage' = [stage EXCEPT ![m] = "hook"] \/ stage' = [stage EXCEPT ![m] = "dispatch"]
  BY <1>0, <1>1 DEF OnUserMessage, promptVars, turnVars
<1>3. Active(m)'
  BY <1>1, <1>2 DEF Active, IInv, TypeOK, TurnType
<1>4. after # "clearCompaction" /\ ~compacting
  BY <1>1 DEF SettleInv, CompactOK, CanDeliver
<1>5. QuietOK' /\ CallOK' /\ FlightOK' /\ MessageOK' /\ BackOK'
  BY <1>1, <1>2, <1>3 DEF SettleInv, QuietOK, CallOK, FlightOK, MessageOK, BackOK, NoEvent, Ev
<1>6. CompactOK' /\ CheckOK' /\ NoRaw'
  BY <1>2, <1>4 DEF SettleInv, CompactOK, CheckOK, NoRaw, Held, Entries, NoEvent, Ev
<1> QED BY <1>5, <1>6 DEF SettleInv

\* An abort or a steer that does not deliver: it interrupts what runs.
LEMMA InterruptedSettles ==
  ASSUME IInv, SettleInv, phase = "settling", ~(event.msg # NoMsg /\ CanDeliver), OnUserInterrupt,
         \A e \in Held' : e.form # "raw"
  PROVE  SettleInv'
<1>1. /\ UNCHANGED <<phase, check, background, after, compacting, qlog, everCompleted, msgAfter, turnInFlight>>
      /\ event.type = "USER_INTERRUPT" /\ stage' = ClearRetries
      /\ abortedByUser' = (abortedByUser \/ event.msg = NoMsg)
      /\ event' = IF Retrying # {} \/ (event.msg = NoMsg /\ ~turnInFlight)
                  THEN Completed(NoMsg, "aborted") ELSE NoEvent
  BY DEF OnUserInterrupt, promptVars, markVars
<1>2. \A m \in Msgs : stage'[m] = IF stage[m] = "retry" THEN "done" ELSE stage[m]
  BY <1>1 DEF ClearRetries, Retrying
<1>3. \A m \in Msgs : Active(m)' => Active(m) /\ stage'[m] = stage[m]
  BY <1>2 DEF Active
<1>4. Retrying # {} => ~compacting
  BY DEF SettleInv, CompactOK, Nobody, Active, Retrying
<1>5. FlightOK'
  <2>1. ASSUME turnInFlight, event'.type # "AGENT_TURN_COMPLETED" PROVE \E m \in Msgs : Active(m)'
    <3>1. Retrying = {}
      BY <1>1, <2>1 DEF Completed
    <3>2. PICK m \in Msgs : Active(m)
      BY <1>1, <2>1 DEF SettleInv, FlightOK
    <3> QED BY <1>2, <3>1, <3>2 DEF Active, Retrying
  <2> QED BY <1>1, <2>1 DEF FlightOK
<1>6. CompactOK'
  BY <1>1, <1>3, <1>4 DEF SettleInv, CompactOK, Nobody, NoEvent, Completed
<1>7. CheckOK'
  BY <1>1, <1>3 DEF SettleInv, CheckOK
<1>8. QuietOK' /\ CallOK' /\ MessageOK' /\ BackOK' /\ NoRaw'
  BY <1>1 DEF SettleInv, QuietOK, CallOK, MessageOK, BackOK, NoRaw, NoEvent, Completed
<1> QED BY <1>5, <1>6, <1>7, <1>8 DEF SettleInv

LEMMA InterruptSettles ==
  ASSUME IInv, RetryInv, PlacesOK, SettleInv, OnUserInterrupt
  PROVE  SettleInv'
<1>0. /\ phase = "settling" /\ queue \in Seq(Entry) /\ Distinct(queue)
      /\ UNCHANGED <<phase, check, background, after, compacting, qlog, everCompleted>>
      /\ event.type = "USER_INTERRUPT"
  BY DEF PlacesOK, CallsOK, OnePlace, IInv, TypeOK, QueueType, OnUserInterrupt, promptVars, markVars
<1>1. CASE event.msg # NoMsg
  <2>1. PICK e \in Entry : e = [msg |-> event.msg, form |-> "steer"]
    BY <1>1 DEF IInv, TypeOK, StackType, Event, Entry, Forms
  <2>2. PICK q : q = Append(queue, e)
    OBVIOUS
  <2>3. /\ q \in Seq(Entry) /\ q # <<>> /\ Entries(q) = Held \cup {e}
        /\ (\A a \in Held : a.msg # e.msg) => Distinct(q)
    BY <1>0, <2>2, Added DEF Held
  <2>4. Distinct(q)
    BY <1>0, <1>1, <2>1, <2>3 DEF PlacesOK, OnePlace, SaidOnce, Said, Inputs
  <2>5. \A a \in Entries(q) : a.form # "raw"
    BY <2>1, <2>3 DEF SettleInv, NoRaw
  <2>6. CASE CanDeliver
    <3>1. DeliverFrom(q, stage)
      BY <1>1, <2>1, <2>2, <2>6 DEF OnUserInterrupt
    <3>2. ~compacting /\ \A m \in Msgs : stage[m] \notin {"hook", "dispatch", "llm", "stray", "tools", "retry"}
      BY <2>6, NobodyActive DEF CanDeliver
    <3>3. check' => everCompleted'
      BY <1>0 DEF SettleInv, CheckOK
    <3> QED BY <1>0, <2>3, <2>4, <2>5, <3>1, <3>2, <3>3, SettledDelivery
  <2>7. CASE ~CanDeliver
    <3>1. queue' = q
      BY <1>1, <2>1, <2>2, <2>7 DEF OnUserInterrupt
    <3>2. \A a \in Held' : a.form # "raw"
      BY <2>5, <3>1 DEF Held
    <3> QED BY <1>0, <2>7, <3>2, InterruptedSettles
  <2> QED BY <2>6, <2>7
<1>2. CASE event.msg = NoMsg
  <2>1. queue' = queue
    BY <1>2 DEF OnUserInterrupt
  <2>2. \A a \in Held' : a.form # "raw"
    BY <2>1 DEF SettleInv, NoRaw, Held
  <2> QED BY <1>0, <1>2, <2>2, InterruptedSettles
<1> QED BY <1>1, <1>2

LEMMA FollowupSettles ==
  ASSUME IInv, RetryInv, PlacesOK, SettleInv, OnUserFollowupQueued
  PROVE  SettleInv'
<1>0. /\ phase = "settling" /\ queue \in Seq(Entry) /\ Distinct(queue)
      /\ UNCHANGED <<phase, check, background, after, compacting, qlog, everCompleted, msgAfter, abortedByUser>>
      /\ event.type = "USER_FOLLOWUP_QUEUED" /\ event.msg \in Msgs /\ event.arg \in Forms
  BY DEF PlacesOK, OnePlace, IInv, TypeOK, QueueType, StackOK, OnUserFollowupQueued, promptVars, markVars,
     SettleInv, QuietOK, NoEvent
<1>1. PICK e \in Entry : e = [msg |-> event.msg, form |-> event.arg]
  BY <1>0 DEF Entry
<1>2. PICK q : q = Append(queue, e)
  OBVIOUS
<1>3. /\ q \in Seq(Entry) /\ q # <<>> /\ Entries(q) = Held \cup {e}
      /\ (\A a \in Held : a.msg # e.msg) => Distinct(q)
  BY <1>0, <1>2, Added DEF Held
<1>4. Distinct(q)
  BY <1>0, <1>1, <1>3, ReactorAssumption DEF PlacesOK, OnePlace, SaidOnce, Said, Inputs, Msgs, NoMsg
<1>5. \A a \in Entries(q) : a.form # "raw"
  BY <1>0, <1>1, <1>3 DEF SettleInv, NoRaw
<1>6. CASE CanDeliver
  <2>1. DeliverFrom(q, stage)
    BY <1>1, <1>2, <1>6 DEF OnUserFollowupQueued
  <2>2. ~compacting /\ \A m \in Msgs : stage[m] \notin {"hook", "dispatch", "llm", "stray", "tools", "retry"}
    BY <1>6, NobodyActive DEF CanDeliver
  <2>3. check' => everCompleted'
    BY <1>0 DEF SettleInv, CheckOK
  <2> QED BY <1>0, <1>3, <1>4, <1>5, <2>1, <2>2, <2>3, SettledDelivery
<1>7. CASE ~CanDeliver
  <2>1. queue' = q /\ event' = NoEvent /\ UNCHANGED <<aborted, turnInFlight, stage>>
    BY <1>1, <1>2, <1>7 DEF OnUserFollowupQueued, turnVars
  <2>2. \A a \in Held' : a.form # "raw"
    BY <1>5, <2>1 DEF Held
  <2>3. QuietOK' /\ CallOK' /\ MessageOK' /\ BackOK' /\ NoRaw'
    BY <1>0, <2>1, <2>2 DEF SettleInv, QuietOK, CallOK, MessageOK, BackOK, NoRaw, NoEvent
  <2>4. \A m \in Msgs : Active(m)' <=> Active(m)
    BY <2>1 DEF Active
  <2>5. FlightOK' /\ CheckOK' /\ CompactOK'
    BY <1>0, <2>1, <2>4 DEF SettleInv, FlightOK, CheckOK, CompactOK, Nobody, NoEvent
  <2> QED BY <2>3, <2>5 DEF SettleInv
<1> QED BY <1>6, <1>7

\* The handlers of a turn keep it active, until its completion is handled.
LEMMA TurnHandlersSettle ==
  ASSUME IInv, SettleInv,
         \/ OnAgentTurnRequested \/ OnLlmCallRequested \/ OnAgentMessageEnd \/ OnIntentToolCall
         \/ OnToolExecutionEnd \/ OnToolResultsAggregated \/ OnLlmCallFailed
  PROVE  SettleInv'
<1>0. /\ UNCHANGED <<phase, check, background, after, compacting, abortedByUser, aborted, queue, qlog,
                     everCompleted, msgAfter>>
      /\ stage \in [Msgs -> Stages] /\ (event.type = "LLM_CALL_REQUESTED" => ~aborted)
  BY DEF OnAgentTurnRequested, OnLlmCallRequested, OnAgentMessageEnd, OnIntentToolCall,
     OnToolExecutionEnd, OnToolResultsAggregated, OnLlmCallFailed, promptVars, flagVars, queueVars, markVars,
     IInv, TypeOK, TurnType, SettleInv, CallOK
<1> USE DEF Ev, Completed, ToolEnd, NoEvent
<1>1. CASE OnIntentToolCall
  <2>1. PICK m \in Msgs, t \in Tools : tool[m][t] = "intent"
    BY <1>1 DEF OnIntentToolCall, Intents
  <2>2. Active(m) /\ stage' = stage
    BY <1>1, <2>1 DEF OnIntentToolCall, IInv, ToolsOK, Active
  <2>3. event'.type \in {"none", "TOOL_EXECUTION_END"}
    BY <1>1 DEF OnIntentToolCall
  <2> QED BY <1>0, <2>2, <2>3, TurnStep DEF Active
<1>2. CASE OnToolExecutionEnd
  <2>1. PICK m \in Msgs : m = event.msg /\ stage[m] = "tools"
    BY <1>2 DEF OnToolExecutionEnd, IInv, StackOK
  <2>2. /\ event'.type \in {"none", "TOOL_RESULTS_AGGREGATED"}
        /\ stage' = stage \/ stage' = [stage EXCEPT ![m] = "dispatch"]
    BY <1>2, <2>1 DEF OnToolExecutionEnd
  <2>3. Active(m) /\ Active(m)' /\ stage[m] # "retry" /\ \A n \in Msgs : n # m => stage'[n] = stage[n]
    BY <1>0, <2>1, <2>2 DEF Active
  <2> QED BY <1>0, <2>2, <2>3, TurnStep
<1>3. CASE OnAgentTurnRequested \/ OnToolResultsAggregated
  <2>1. PICK m \in Msgs : m = event.msg /\ stage[m] = "dispatch"
    BY <1>3 DEF OnAgentTurnRequested, OnToolResultsAggregated, IInv, StackOK, TurnEvents
  <2>2. stage' = stage /\ event'.type \in {"AGENT_TURN_COMPLETED", "AGENT_TURN_REQUESTED", "LLM_CALL_REQUESTED"}
    BY <1>3, <2>1 DEF OnAgentTurnRequested, OnToolResultsAggregated, turnVars
  <2>3. event'.type = "LLM_CALL_REQUESTED" => ~aborted'
    BY <1>0, <1>3 DEF OnAgentTurnRequested, OnToolResultsAggregated
  <2>4. Active(m) /\ Active(m)' /\ stage[m] # "retry" /\ \A n \in Msgs : n # m => stage'[n] = stage[n]
    BY <1>0, <2>1, <2>2 DEF Active
  <2> QED BY <1>0, <2>2, <2>3, <2>4, TurnStep
<1>4. CASE OnLlmCallRequested \/ OnAgentMessageEnd \/ OnLlmCallFailed
  <2>1. PICK m \in Msgs : m = event.msg /\ stage[m] = "dispatch"
    BY <1>4 DEF OnLlmCallRequested, OnAgentMessageEnd, OnLlmCallFailed, IInv, StackOK, TurnEvents
  <2>2. event'.type \in {"none", "AGENT_TURN_COMPLETED"}
    BY <1>4 DEF OnLlmCallRequested, OnAgentMessageEnd, OnLlmCallFailed, ScheduleRetry
  <2>3. PICK s \in {"dispatch", "llm", "tools", "retry"} : stage' = [stage EXCEPT ![m] = s]
    <3>1. CASE OnLlmCallRequested
      BY <1>0, <2>1, <3>1 DEF OnLlmCallRequested
    <3>2. CASE OnAgentMessageEnd
      BY <1>0, <2>1, <3>2 DEF OnAgentMessageEnd
    <3>3. CASE OnLlmCallFailed
      BY <1>0, <2>1, <3>3 DEF OnLlmCallFailed, ScheduleRetry
    <3> QED BY <1>4, <3>1, <3>2, <3>3
  <2>4. Active(m) /\ Active(m)' /\ stage[m] # "retry" /\ \A n \in Msgs : n # m => stage'[n] = stage[n]
    BY <1>0, <2>1, <2>3 DEF Active
  <2> QED BY <1>0, <2>2, <2>4, TurnStep
<1> QED BY <1>1, <1>2, <1>3, <1>4

LEMMA CompletionSettles ==
  ASSUME IInv, RetryInv, PlacesOK, SettleInv, OnAgentTurnCompleted
  PROVE  SettleInv'
<1>0. /\ phase = "settling" /\ queue \in Seq(Entry) /\ Distinct(queue) /\ stage \in [Msgs -> Stages]
      /\ UNCHANGED <<phase, background, after, compacting, qlog>> /\ everCompleted' = TRUE
      /\ event.type = "AGENT_TURN_COMPLETED"
  BY DEF PlacesOK, OnePlace, IInv, TypeOK, QueueType, TurnType, OnAgentTurnCompleted, SettleInv, QuietOK, NoEvent
<1>1. PICK over : /\ over = IF event.msg = NoMsg THEN stage ELSE [stage EXCEPT ![event.msg] = "done"]
                  /\ \/ abortedByUser /\ DiscardQueue(over)
                     \/ ~abortedByUser /\ RetryCompletion(event.msg)
                     \/ ~abortedByUser /\ DrainQueue(over)
                     \/ ~abortedByUser /\ GoIdle(over)
  BY DEF OnAgentTurnCompleted
<1>2. \A m \in Msgs : over[m] \notin {"hook", "dispatch", "llm", "stray", "tools", "retry"}
  <2>1. CASE event.msg = NoMsg
    BY <1>0, <1>1, <2>1 DEF IInv, StackOK, Active, Msgs, NoMsg
  <2>2. CASE event.msg # NoMsg
    <3>1. event.msg \in Msgs /\ stage[event.msg] = "dispatch"
      BY <1>0, <2>2 DEF IInv, StackOK
    <3>2. \A m \in Msgs : Active(m) => m = event.msg
      BY <3>1 DEF IInv, OneTurnAtATime, Active
    <3> QED BY <1>0, <1>1, <2>2, <3>1, <3>2 DEF Active
  <2> QED BY <2>1, <2>2
<1>3. ~abortedByUser => ~compacting
  BY <1>0 DEF SettleInv, CompactOK
<1>4. after = "clearCompaction" => compacting
  BY DEF SettleInv, CompactOK
<1>5. CASE /\ stage' = over /\ turnInFlight' = FALSE /\ (queue' = queue \/ queue' = <<>>)
           /\ event'.type \in {"none", "COMPACTION_REQUESTED"}
  <2>1. Nobody'
    BY <1>2, <1>5 DEF Nobody, Active
  <2>2. \A a \in Held' : a.form # "raw"
    BY <1>5 DEF SettleInv, NoRaw, Held, Entries
  <2>3. QuietOK' /\ CallOK' /\ FlightOK' /\ MessageOK' /\ BackOK' /\ NoRaw'
    BY <1>0, <1>5, <2>1, <2>2 DEF SettleInv, QuietOK, CallOK, FlightOK, MessageOK, BackOK, NoRaw
  <2>4. CompactOK' /\ CheckOK'
    BY <1>0, <1>4, <1>5, <2>1 DEF CompactOK, CheckOK, Nobody
  <2> QED BY <2>3, <2>4 DEF SettleInv
<1>6. CASE DiscardQueue(over)
  BY <1>5, <1>6 DEF DiscardQueue, NoEvent
<1>7. CASE GoIdle(over)
  <2>1. event'.type \in {"none", "COMPACTION_REQUESTED"}
    BY <1>7 DEF GoIdle, NoEvent, Ev
  <2>2. stage' = over /\ turnInFlight' = FALSE /\ queue' = queue
    BY <1>7 DEF GoIdle
  <2> QED BY <1>5, <2>1, <2>2
<1>8. CASE ~abortedByUser /\ DrainQueue(over)
  <2>1. queue # <<>> /\ DeliverFrom(queue, over)
    BY <1>8 DEF DrainQueue
  <2>2. \A e \in Entries(queue) : e.form # "raw"
    BY DEF SettleInv, NoRaw, Held
  <2> QED BY <1>0, <1>2, <1>3, <1>8, <2>1, <2>2, SettledDelivery
<1>9. CASE ~abortedByUser /\ RetryCompletion(event.msg)
  <2>1. event.arg = "error"
    BY <1>9 DEF RetryCompletion
  <2>2. PICK m \in Msgs : m = event.msg /\ stage[m] = "dispatch"
    BY <1>0, <2>1 DEF IInv, StackOK
  <2>3. /\ stage' = [stage EXCEPT ![m] = "retry"] /\ event' = NoEvent
        /\ UNCHANGED <<queue, aborted, abortedByUser>>
    BY <1>9, <2>2 DEF RetryCompletion, ScheduleRetry
  <2>4. \A n \in Msgs : Active(n) => n = m
    BY <2>2 DEF IInv, OneTurnAtATime, Active
  <2>5. Active(m)' /\ stage'[m] = "retry" /\ \A n \in Msgs : Active(n)' => n = m
    BY <1>0, <2>2, <2>3, <2>4 DEF Active
  <2>6. QuietOK' /\ CallOK' /\ FlightOK' /\ MessageOK' /\ BackOK' /\ NoRaw'
    BY <1>0, <2>3, <2>5 DEF SettleInv, QuietOK, CallOK, FlightOK, MessageOK, BackOK, NoRaw, NoEvent, Held, Entries
  <2>7. CompactOK' /\ CheckOK'
    BY <1>0, <1>3, <1>4, <1>9, <2>3, <2>5 DEF CompactOK, CheckOK, NoEvent
  <2> QED BY <2>6, <2>7 DEF SettleInv
<1> QED BY <1>1, <1>6, <1>7, <1>8, <1>9

LEMMA CompactionSettles ==
  ASSUME IInv, SettleInv, OnCompactionRequested \/ OnCompactionSettled
  PROVE  SettleInv'
<1>1. phase = "settling" /\ Nobody /\ ~turnInFlight /\ everCompleted
  BY DEF OnCompactionRequested, OnCompactionSettled, SettleInv, QuietOK, CompactOK, NoEvent
<1>2. /\ event' = NoEvent /\ UNCHANGED <<phase, background, after, queue, qlog, stage, turnInFlight, everCompleted>>
      /\ compacting' = TRUE
  <2>1. CASE OnCompactionRequested
    BY <2>1 DEF OnCompactionRequested, promptVars, turnVars, queueVars, markVars
  <2>2. CASE OnCompactionSettled
    <3>1. compacting
      BY <2>2 DEF OnCompactionSettled, SettleInv, CompactOK
    <3> QED BY <2>2, <3>1 DEF OnCompactionSettled, CanDeliver, IInv, TypeOK, FlagType, turnVars, markVars
  <2> QED BY <2>1, <2>2
<1>3. Nobody'
  BY <1>1, <1>2 DEF Nobody, Active
<1>4. QuietOK' /\ CallOK' /\ FlightOK' /\ MessageOK' /\ BackOK' /\ NoRaw'
  BY <1>1, <1>2 DEF SettleInv, QuietOK, CallOK, FlightOK, MessageOK, BackOK, NoRaw, NoEvent, Held, Entries
<1>5. CompactOK' /\ CheckOK'
  BY <1>1, <1>2, <1>3 DEF CompactOK, CheckOK, Nobody, NoEvent
<1> QED BY <1>4, <1>5 DEF SettleInv

LEMMA CallerSettles ==
  ASSUME IInv, PlacesOK, SettleInv, AfterAppend
  PROVE  SettleInv'
<1>1. /\ event = NoEvent /\ event' = NoEvent /\ after # "none" /\ after' = "none"
      /\ UNCHANGED <<phase, check, background, turnInFlight, stage, qlog, everCompleted, msgAfter>>
      /\ compacting' => compacting
  BY DEF AfterAppend, StillCompacting, promptVars, turnVars, markVars
<1>2. phase = "settling"
  BY <1>1 DEF SettleInv, QuietOK
<1>3. Held' = Held
  <2>1. queue \in Seq(Entry) /\ Distinct(queue)
    BY DEF IInv, TypeOK, QueueType, PlacesOK, OnePlace
  <2>2. queue' = queue \/ \E i \in DOMAIN queue : queue' = <<queue[i]>> \o Without(queue, i)
    BY DEF AfterAppend
  <2> QED BY <2>1, <2>2, Promoted DEF Held
<1>4. \A m \in Msgs : Active(m)' <=> Active(m)
  BY <1>1 DEF Active
<1>5. QuietOK' /\ CallOK' /\ MessageOK' /\ BackOK' /\ NoRaw'
  BY <1>1, <1>2, <1>3 DEF SettleInv, QuietOK, CallOK, MessageOK, BackOK, NoRaw, NoEvent
<1>6. FlightOK' /\ CompactOK' /\ CheckOK'
  BY <1>1, <1>4 DEF SettleInv, FlightOK, CompactOK, CheckOK, Nobody, NoEvent
<1> QED BY <1>5, <1>6 DEF SettleInv

\* A step that starts, ends and queues nothing.
LEMMA StillStep ==
  ASSUME SettleInv, UNCHANGED <<check, turnInFlight, compacting, stage, abortedByUser, everCompleted, msgAfter>>,
         after' = after \/ (phase = "settling" /\ after = "none" /\ after' # "clearCompaction"),
         (phase = "settling") <=> (phase = "settling")', phase # "settling" => event' = event,
         event = NoEvent, event'.type \notin {"LLM_CALL_REQUESTED", "USER_MESSAGE", "AGENT_TURN_COMPLETED",
                                              "COMPACTION_REQUESTED", "COMPACTION_END"},
         BackOK', NoRaw'
  PROVE  SettleInv'
<1>1. \A m \in Msgs : Active(m)' <=> Active(m)
  BY DEF Active
<1>2. QuietOK' /\ CallOK' /\ MessageOK'
  BY <1>1 DEF SettleInv, QuietOK, CallOK, MessageOK, NoEvent, Nobody
<1>3. FlightOK' /\ CompactOK' /\ CheckOK'
  BY <1>1 DEF SettleInv, FlightOK, CompactOK, CheckOK, Nobody, NoEvent
<1> QED BY <1>2, <1>3 DEF SettleInv

LEMMA MicrotasksSettle ==
  ASSUME IInv, RetryInv, PlacesOK, SettleInv, Microtask
  PROVE  SettleInv'
<1>0. event = NoEvent /\ after = "none" /\ queue \in Seq(Entry) /\ qlog \in Seq(Entry)
  BY DEF Microtask, StartReactor, AppendPrompt, SettledCheck, FinishPrompt, ApprovalDecided, StackEmpty,
     IInv, TypeOK, QueueType
<1>1. CASE StartReactor
  <2>1. /\ phase = "resuming" /\ phase' = "starting"
        /\ UNCHANGED <<check, background, event, after, turnInFlight, abortedByUser, compacting, stage, qlog,
                       everCompleted, msgAfter>>
    BY <1>1 DEF StartReactor, turnVars, markVars
  <2>2. \A e \in Held' : e.form # "raw"
    <3>1. Held' = Pending
      BY <1>1, StartReactorFollowsCourse DEF Replay
    <3> QED BY <3>1 DEF SettleInv, NoRaw, Pending
  <2>3. BackOK' /\ NoRaw'
    BY <1>0, <2>1, <2>2 DEF SettleInv, BackOK, NoRaw, NoEvent
  <2> QED BY <1>0, <2>1, <2>3, StillStep DEF NoEvent
<1>2. CASE AppendPrompt
  <2>1. /\ phase = "starting" /\ phase' = "settling" /\ event' = Ev("USER_MESSAGE", cur) /\ ~check
        /\ UNCHANGED <<check, background, after, turnInFlight, compacting, stage, queue, qlog>>
    BY <1>2 DEF AppendPrompt, flagVars, turnVars, queueVars, IInv, PromptOK
  <2>2. Nobody /\ ~turnInFlight /\ ~compacting
    BY <2>1 DEF SettleInv, QuietOK
  <2>3. \A m \in Msgs : Active(m)' <=> Active(m)
    BY <2>1 DEF Active
  <2>4. MessageOK'
    BY <2>1, <2>2 DEF MessageOK, CanDeliver, Retrying, Nobody, Active
  <2>5. QuietOK' /\ CallOK' /\ FlightOK' /\ CompactOK' /\ CheckOK'
    BY <1>0, <2>1, <2>2, <2>3 DEF QuietOK, CallOK, FlightOK, CompactOK, CheckOK, Ev
  <2>6. BackOK' /\ NoRaw'
    BY <2>1 DEF SettleInv, BackOK, NoRaw, Ev, Held, Entries
  <2> QED BY <2>4, <2>5, <2>6 DEF SettleInv
<1>3. CASE SettledCheck
  <2>1. /\ check /\ check' = FALSE /\ phase = "settling" /\ phase' = IF StillBusy THEN phase ELSE "settled"
        /\ UNCHANGED <<background, event, after, turnInFlight, abortedByUser, compacting, stage, queue, qlog, everCompleted>>
    BY <1>3 DEF SettledCheck, flagVars, turnVars, queueVars, markVars, IInv, PromptOK
  <2>2. \A m \in Msgs : Active(m)' <=> Active(m)
    BY <2>1 DEF Active
  <2>3. CallOK' /\ FlightOK' /\ CompactOK' /\ MessageOK' /\ CheckOK' /\ NoRaw'
    BY <1>0, <2>1, <2>2 DEF SettleInv, CallOK, FlightOK, CompactOK, MessageOK, CheckOK, NoRaw, NoEvent, Held, Entries, Nobody
  <2>4. background = {}
    BY <2>1 DEF SettleInv, BackOK
  <2>5. QuietOK'
    <3>1. CASE StillBusy
      BY <2>1, <3>1 DEF QuietOK
    <3>2. CASE ~StillBusy
      <4>1. Retrying = {} /\ ~compacting /\ ~(everCompleted /\ msgAfter)
        BY <3>2 DEF StillBusy
      <4>2. Nobody
        BY <2>1, <4>1 DEF SettleInv, CheckOK, Nobody, Retrying
      <4>3. ~turnInFlight
        BY <1>0, <4>2 DEF SettleInv, FlightOK, Nobody, NoEvent
      <4> QED BY <1>0, <2>1, <2>2, <4>1, <4>2, <4>3 DEF QuietOK, Nobody
    <3> QED BY <3>1, <3>2
  <2> QED BY <2>1, <2>3, <2>4, <2>5 DEF SettleInv, BackOK
<1>4. CASE FinishPrompt
  <2>1. /\ phase = "settled" /\ phase' = "idle" /\ compacting' = FALSE
        /\ UNCHANGED <<check, event, after, turnInFlight, abortedByUser, queue, qlog>>
        /\ stage' = [m \in Msgs |-> IF stage[m] = "llm" THEN "stray" ELSE ClearRetries[m]]
        /\ background' = IF compacting THEN background \cup {"stray"} ELSE background
    BY <1>4 DEF FinishPrompt, queueVars
  <2>2. Nobody /\ ~turnInFlight /\ ~compacting /\ ~check /\ background = {}
    BY <2>1 DEF SettleInv, QuietOK, BackOK, IInv, PromptOK
  <2>3. Nobody'
    BY <2>1, <2>2 DEF Nobody, Active, ClearRetries, Retrying
  <2>4. QuietOK' /\ CallOK' /\ FlightOK' /\ CompactOK' /\ MessageOK' /\ CheckOK'
    BY <1>0, <2>1, <2>2, <2>3 DEF QuietOK, CallOK, FlightOK, CompactOK, MessageOK, CheckOK, NoEvent
  <2>5. BackOK' /\ NoRaw'
    BY <2>1, <2>2 DEF SettleInv, BackOK, NoRaw, Held, Entries
  <2> QED BY <2>4, <2>5 DEF SettleInv
<1>5. CASE ApprovalDecided
  <2>1. PICK m \in Msgs, t \in Tools : tool[m][t] \in {"approved", "rejected"}
    BY <1>5 DEF ApprovalDecided, Decided
  <2>2. Active(m) /\ stage' = stage
    BY <1>5, <2>1 DEF ApprovalDecided, IInv, ToolsOK, Active
  <2>3. event'.type \in {"none", "TOOL_EXECUTION_END"}
    BY <1>5 DEF ApprovalDecided, ToolEnd, NoEvent
  <2>4. UNCHANGED <<phase, check, background, after, compacting, abortedByUser, queue, qlog, everCompleted, msgAfter>>
    BY <1>5 DEF ApprovalDecided, promptVars, flagVars, queueVars, markVars
  <2> QED BY <2>2, <2>3, <2>4, TurnStep DEF Active
<1> QED BY <1>1, <1>2, <1>3, <1>4, <1>5 DEF Microtask

LEMMA CompletionsSettle ==
  ASSUME IInv, RetryInv, SettleInv, Completion \/ \E m \in Msgs : StreamIdle(m)
  PROVE  SettleInv'
<1>0. MacroTask /\ event = NoEvent /\ after = "none" /\ ~check
  BY DEF Completion, HookReturns, LlmResponds, LlmFails, RetryFires, ToolReturns, CompactionReturns,
     BackgroundCompactionReturns, StreamIdle, MacroTask, MicroPending, StackEmpty
<1>1. ASSUME NEW m \in Msgs, HookReturns(m) \/ LlmResponds(m) \/ LlmFails(m) \/ RetryFires(m)
      PROVE  SettleInv'
  <2>1. stage[m] \in {"hook", "llm", "stray", "retry"} /\ Active(m)
    BY <1>1 DEF HookReturns, LlmResponds, LlmFails, RetryFires, Active
  <2>2. Live /\ (stage[m] = "retry" => ~aborted)
    BY <2>1 DEF SettleInv, QuietOK, Nobody, Live, RetryInv, TimersOK, Retrying
  <2>3. /\ stage' = [stage EXCEPT ![m] = "dispatch"]
        /\ event'.type \in {"AGENT_TURN_REQUESTED", "AGENT_MESSAGE_END", "LLM_CALL_FAILED"}
    BY <1>1, <2>2 DEF HookReturns, LlmResponds, LlmFails, RetryFires, Emit, Ev
  <2>4. UNCHANGED <<phase, check, background, after, compacting, abortedByUser, queue, qlog, everCompleted, msgAfter>>
    BY <1>1 DEF HookReturns, LlmResponds, LlmFails, RetryFires, promptVars, flagVars, queueVars, markVars
  <2>5. Active(m)' /\ \A n \in Msgs : n # m => stage'[n] = stage[n]
    BY <2>3 DEF Active, IInv, TypeOK, TurnType
  <2> QED BY <1>0, <2>1, <2>3, <2>4, <2>5, TurnStep
<1>2. ASSUME NEW m \in Msgs, NEW t \in Tools, ToolReturns(m, t) PROVE SettleInv'
  <2>1. Active(m) /\ stage' = stage
    BY <1>2 DEF ToolReturns, IInv, ToolsOK, Active
  <2>2. event'.type \in {"none", "TOOL_EXECUTION_END"}
    BY <1>2 DEF ToolReturns, ToolEnd, NoEvent
  <2>3. UNCHANGED <<phase, check, background, after, compacting, abortedByUser, queue, qlog, everCompleted, msgAfter>>
    BY <1>2 DEF ToolReturns, promptVars, flagVars, queueVars, markVars
  <2> QED BY <2>1, <2>2, <2>3, TurnStep DEF Active
<1>3. ASSUME NEW m \in Msgs, StreamIdle(m) PROVE SettleInv'
  <2>1. Active(m) /\ stage' = stage /\ event' = NoEvent
    BY <1>0, <1>3 DEF StreamIdle, Active, turnVars
  <2>2. UNCHANGED <<phase, check, background, after, compacting, abortedByUser, queue, qlog, everCompleted, msgAfter>>
    BY <1>3 DEF StreamIdle, promptVars, queueVars, markVars
  <2> QED BY <2>1, <2>2, TurnStep DEF Active, NoEvent
<1>4. CASE CompactionReturns
  <2>1. /\ compacting /\ event' = Ev("COMPACTION_END", NoMsg) /\ after' = "clearCompaction"
        /\ UNCHANGED <<phase, check, background, turnInFlight, compacting, abortedByUser, stage, queue, qlog,
                       everCompleted, msgAfter>>
    BY <1>4 DEF CompactionReturns, promptVars, flagVars, turnVars, queueVars, markVars
  <2>2. phase = "settling" /\ ~turnInFlight /\ Nobody /\ everCompleted
    BY <2>1 DEF SettleInv, QuietOK, CompactOK
  <2>3. Nobody'
    BY <2>1, <2>2 DEF Nobody, Active
  <2>4. QuietOK' /\ CallOK' /\ FlightOK' /\ MessageOK' /\ CheckOK' /\ CompactOK'
    BY <2>1, <2>2, <2>3 DEF QuietOK, CallOK, FlightOK, MessageOK, CheckOK, CompactOK, Ev, Nobody
  <2>5. BackOK' /\ NoRaw'
    BY <2>1 DEF SettleInv, BackOK, NoRaw, Ev, Held, Entries
  <2> QED BY <2>4, <2>5 DEF SettleInv
<1>5. ASSUME NEW c \in {"idle", "stray"}, BackgroundCompactionReturns(c) PROVE SettleInv'
  <2>1. c = "idle" /\ background = {"idle"} /\ phase \in {"idle", "awaitIdle"} /\ background' = {}
    BY <1>5 DEF BackgroundCompactionReturns, SettleInv, BackOK
  <2>2. /\ event' = NoEvent /\ phase' # "settling"
        /\ UNCHANGED <<check, after, turnInFlight, compacting, abortedByUser, stage, queue, qlog, everCompleted, msgAfter>>
    BY <1>5, <2>1 DEF BackgroundCompactionReturns, Live, flagVars, turnVars, queueVars, markVars
  <2>3. BackOK' /\ NoRaw'
    BY <2>1, <2>2 DEF SettleInv, BackOK, NoRaw, NoEvent, Held, Entries
  <2> QED BY <1>0, <2>1, <2>2, <2>3, StillStep DEF NoEvent
<1> QED BY <1>1, <1>2, <1>3, <1>4, <1>5 DEF Completion

LEMMA UserSettles ==
  ASSUME IInv, PlacesOK, SettleInv, User, ~MicroInputs, "busy" \notin CompactWhen
  PROVE  SettleInv'
<1>0. /\ queue \in Seq(Entry) /\ qlog \in Seq(Entry) /\ Distinct(queue) /\ UserCall
      /\ event = NoEvent /\ after = "none" /\ phase \notin {"resuming", "starting", "settled"}
      /\ (Live => phase = "settling")
  <2>1. UserCall
    BY DEF User, Prompt, Steer, FollowUp, Abort, Compact, CancelQueued, ClearQueued, SteerQueued, Take, Decide
  <2> QED BY <2>1, UserFindsMacrotask DEF IInv, TypeOK, QueueType, PlacesOK, OnePlace, StackEmpty
<1>1. CASE Prompt
  <2>1. /\ phase = "idle" /\ phase' = IF "idle" \in background THEN "awaitIdle" ELSE "resuming"
        /\ UNCHANGED <<check, background, event, after, turnInFlight, abortedByUser, compacting, stage, queue, qlog,
                       everCompleted, msgAfter>>
    BY <1>1 DEF Prompt, flagVars, turnVars, queueVars, markVars
  <2>2. BackOK' /\ NoRaw'
    BY <2>1 DEF SettleInv, BackOK, NoRaw, Held, Entries
  <2> QED BY <1>0, <2>1, <2>2, StillStep DEF NoEvent
<1>2. CASE Steer \/ Abort
  <2>1. /\ event' = event \/ (Live /\ event'.type = "USER_INTERRUPT")
        /\ after' = after \/ (Live /\ after' = "interrupt")
        /\ UNCHANGED <<phase, check, background, turnInFlight, abortedByUser, compacting, stage, queue, qlog,
                       everCompleted, msgAfter>>
    BY <1>0, <1>2 DEF Steer, Abort, Ev, promptVars, flagVars, turnVars, queueVars, markVars
  <2>2. BackOK' /\ NoRaw'
    BY <1>0, <2>1 DEF SettleInv, BackOK, NoRaw, Held, Entries, NoEvent
  <2> QED BY <1>0, <2>1, <2>2, StillStep DEF NoEvent
<1>3. CASE FollowUp
  <2>1. /\ event' = event \/ (Live /\ event'.type = "USER_FOLLOWUP_QUEUED" /\ event'.arg = "followUp")
        /\ qlog' = Append(qlog, [msg |-> nextMsg, form |-> "followUp"])
        /\ UNCHANGED <<phase, check, background, after, turnInFlight, abortedByUser, compacting, stage, queue,
                       everCompleted, msgAfter>>
    BY <1>0, <1>3 DEF FollowUp, Queued, promptVars, flagVars, turnVars, markVars
  <2>2. PICK e \in Entry : e = [msg |-> nextMsg, form |-> "followUp"]
    BY <1>3, NewMsgType DEF FollowUp, IInv, Entry, Forms
  <2>3. \A i \in DOMAIN qlog' : qlog'[i] = e \/ (i \in DOMAIN qlog /\ qlog'[i] = qlog[i])
    BY <1>0, <2>1, <2>2, LastAdded
  <2>4. BackOK' /\ NoRaw'
    BY <1>0, <2>1, <2>2, <2>3 DEF SettleInv, BackOK, NoRaw, Held, Entries, NoEvent
  <2> QED BY <1>0, <2>1, <2>4, StillStep DEF NoEvent
<1>4. CASE Compact
  <2>1. /\ ~Live /\ background' = background \cup {"idle"}
        /\ UNCHANGED <<phase, check, event, after, turnInFlight, abortedByUser, compacting, stage, queue, qlog,
                       everCompleted, msgAfter>>
    BY <1>4 DEF Compact, flagVars, turnVars, queueVars, markVars
  <2>2. phase \in {"idle", "awaitIdle"}
    BY <1>0, <2>1 DEF Live, IInv, TypeOK, PromptType, Phases
  <2>3. BackOK' /\ NoRaw'
    BY <2>1, <2>2 DEF SettleInv, BackOK, NoRaw, Held, Entries
  <2> QED BY <1>0, <2>1, <2>3, StillStep DEF NoEvent
<1>5. CASE CancelQueued \/ ClearQueued \/ SteerQueued
  <2>1. /\ Live /\ UNCHANGED <<phase, check, background, turnInFlight, abortedByUser, compacting, stage, qlog,
                               everCompleted, msgAfter>>
        /\ event' = event \/ event'.type = "USER_INTERRUPT"
        /\ after' = after \/ after' = "promote"
    BY <1>0, <1>5 DEF CancelQueued, ClearQueued, SteerQueued, Take, Ev, promptVars, flagVars, turnVars, markVars
  <2>2. Held' \subseteq Held
    <3>1. CASE ClearQueued
      BY <3>1 DEF ClearQueued, Held, Entries
    <3>2. ASSUME NEW i \in DOMAIN queue, Take(i) PROVE Held' \subseteq Held
      BY <1>0, <3>2, TakenOut DEF Take, Held
    <3> QED BY <1>5, <3>1, <3>2 DEF CancelQueued, SteerQueued
  <2>3. BackOK' /\ NoRaw'
    BY <1>0, <2>1, <2>2 DEF SettleInv, BackOK, NoRaw, NoEvent
  <2> QED BY <1>0, <2>1, <2>3, StillStep DEF NoEvent
<1>6. ASSUME NEW m \in Msgs, NEW t \in Tools, Decide(m, t) PROVE SettleInv'
  <2>1. Active(m) /\ stage' = stage /\ event' = event
    BY <1>6 DEF Decide, IInv, ToolsOK, Active
  <2>2. UNCHANGED <<phase, check, background, after, compacting, abortedByUser, queue, qlog, everCompleted, msgAfter>>
    BY <1>6 DEF Decide, promptVars, flagVars, queueVars, markVars
  <2> QED BY <1>0, <2>1, <2>2, TurnStep DEF Active, NoEvent
<1> QED BY <1>1, <1>2, <1>3, <1>4, <1>5, <1>6 DEF User

LEMMA SettleInvariance ==
  ASSUME ~MicroInputs, "busy" \notin CompactWhen
  PROVE  Spec => []SettleInv
<1>1. Init => SettleInv
  BY DEF Init, SettleInv, QuietOK, CallOK, FlightOK, CompactOK, MessageOK, CheckOK, BackOK, NoRaw, Nobody, Active,
     Held, Entries, NoEvent
<1>2. IInv /\ RetryInv /\ PlacesOK /\ SettleInv /\ [Next]_vars => SettleInv'
  <2> SUFFICES ASSUME IInv, RetryInv, PlacesOK, SettleInv, [Next]_vars
               PROVE  SettleInv'
    OBVIOUS
  <2>1. CASE Handler
    BY <2>1, MessageSettles, InterruptSettles, FollowupSettles, TurnHandlersSettle, CompletionSettles,
       CompactionSettles, CallerSettles DEF Handler, PlacesOK
  <2>2. CASE Microtask
    BY <2>2, MicrotasksSettle
  <2>3. CASE Completion \/ \E m \in Msgs : StreamIdle(m)
    BY <2>3, CompletionsSettle
  <2>4. CASE User
    BY <2>4, UserSettles
  <2>5. CASE UNCHANGED vars
    <3>1. \A m \in Msgs : Active(m)' <=> Active(m)
      BY <2>5 DEF Active, vars, turnVars
    <3>2. UNCHANGED <<phase, check, background, event, after, aborted, turnInFlight, abortedByUser, compacting,
                      stage, queue, qlog, everCompleted, msgAfter>>
      BY <2>5 DEF vars, promptVars, flagVars, turnVars, queueVars, markVars
    <3>3. QuietOK' /\ CallOK' /\ FlightOK' /\ CompactOK' /\ MessageOK'
      BY <3>1, <3>2 DEF SettleInv, QuietOK, CallOK, FlightOK, CompactOK, MessageOK, CanDeliver, Retrying, Nobody
    <3>4. CheckOK' /\ BackOK' /\ NoRaw'
      BY <3>1, <3>2 DEF SettleInv, CheckOK, BackOK, NoRaw, Held, Entries
    <3> QED BY <3>3, <3>4 DEF SettleInv
  <2> QED BY <2>1, <2>2, <2>3, <2>4, <2>5 DEF Next
<1>3. (RetryInv /\ IntentsOK) => RetryInv
  OBVIOUS
<1> QED BY <1>1, <1>2, <1>3, Invariance, RetryInvariance, PlacesInvariance, PTL DEF Spec

\* When a prompt() returned, nothing is left of it: no turn, no queue, no approval.
THEOREM SettledIsIdle ==
  ASSUME ~MicroInputs, "busy" \notin CompactWhen
  PROVE  Spec => []SettledMeansIdle
<1>1. IInv /\ PlacesOK /\ SettleInv => SettledMeansIdle
  <2> SUFFICES ASSUME IInv, PlacesOK, SettleInv, phase = "idle"
               PROVE  /\ ~turnInFlight /\ queue = <<>> /\ Approvals \cup Decided = {}
                      /\ "stray" \notin background /\ \A m \in Msgs : ~Active(m)
    BY DEF SettledMeansIdle
  <2>1. ~turnInFlight /\ Nobody /\ "stray" \notin background
    BY DEF SettleInv, QuietOK, BackOK
  <2>2. queue = <<>>
    BY DEF PlacesOK, CallsOK
  <2>3. \A m \in Msgs : \A t \in Tools : tool[m][t] = "none"
    BY <2>1 DEF IInv, ToolsOK, Nobody, Active
  <2>4. Approvals \cup Decided = {}
    BY <2>3 DEF Approvals, Decided
  <2> QED BY <2>1, <2>2, <2>4 DEF Nobody
<1> QED BY <1>1, Invariance, PlacesInvariance, SettleInvariance, PTL
-----------------------------------------------------------------------------
(* Each message is answered once *)

\* A message whose turn started is nowhere, so no turn starts for it again.
StartedGone == \A m \in Msgs : starts[m] <= 1 /\ (starts[m] > 0 => ~InPlace(m))

\* The turn that a delivery or a message starts takes the message from its only place.
LEMMA StartTakesMessage ==
  ASSUME Numbers, OneEntry, SaidOnce, AskedOnce, Entered, \A e \in Pending : e.form # "raw",
         Start \/ (Deliver /\ starts' # starts)
  PROVE  \E m \in Msgs : InPlace(m) /\ Started(m) /\ ~InPlace(m)'
<1> USE DEF Numbers, NoMsg, Msgs, Rest, Entry
<1>1. CASE Start
  <2>1. PICK m \in Msgs : m = Said /\ Started(m)
    BY <1>1 DEF Start, Started
  <2>2. ~InPlace(m)'
    BY <1>1, <2>1, ReactorAssumption DEF Start, InPlace, SaidOnce, Entered
  <2> QED BY <2>1, <2>2 DEF InPlace
<1>2. CASE Deliver /\ starts' # starts
  <2>1. PICK P \in SUBSET Entry, h \in Entry :
          /\ h \in P /\ Bring(P) /\ Held' = P \ {h} /\ Asked' = Asked /\ Rest
          /\ h.form = "raw" /\ Started(h.msg) /\ Said' = NoMsg /\ Pending' = Pending
    BY <1>2 DEF Deliver
  <2>2. PICK m \in Msgs : m = h.msg
    OBVIOUS
  <2>3. \A e \in P : e.msg = m => e = h
    BY <2>1, <2>2 DEF Bring, OneEntry, SaidOnce
  <2>4. \A e \in Pending : e.msg # m
    BY <2>1, <2>2 DEF Bring, OneEntry, SaidOnce
  <2>5. m < nextMsg /\ m # Asked
    BY <2>1, <2>2, ReactorAssumption DEF Bring, AskedOnce, Entered, SaidOnce
  <2>6. ~InPlace(m)'
    BY <2>1, <2>2, <2>3, <2>4, <2>5, ReactorAssumption DEF InPlace
  <2>7. InPlace(m)
    BY <2>1, <2>2 DEF Bring, InPlace
  <2> QED BY <2>1, <2>2, <2>6, <2>7
<1> QED BY <1>1, <1>2

LEMMA CourseKeepsStartedGone ==
  ASSUME Numbers, Course, OneEntry, SaidOnce, AskedOnce, Entered, \A e \in Pending : e.form # "raw",
         starts \in [Msgs -> Nat], StartedGone
  PROVE  StartedGone'
<1>1. CASE starts' = starts
  BY <1>1, NowhereStays DEF StartedGone
<1>2. CASE starts' # starts
  <2>1. PICK m \in Msgs : InPlace(m) /\ Started(m) /\ ~InPlace(m)'
    BY <1>2, StartTakesMessage DEF Course, Keep, Mark, Drop, Replay, Open, Enter
  <2>2. starts[m] = 0 /\ starts'[m] = 1
    BY <2>1, StartedCounts DEF StartedGone
  <2>3. \A n \in Msgs : n # m => starts'[n] = starts[n]
    BY <2>1 DEF Started
  <2> QED BY <2>1, <2>2, <2>3, NowhereStays DEF StartedGone
<1> QED BY <1>1, <1>2

\* No message is answered by two turns, across reactors and replays: as long as callers
\* run between macrotasks and compact only while nothing runs.
THEOREM AnsweredOnce ==
  ASSUME ~MicroInputs, "busy" \notin CompactWhen
  PROVE  Spec => []AnsweredAtMostOnce
<1>1. Init => StartedGone
  BY DEF Init, StartedGone
<1>2. IInv /\ RetryInv /\ PlacesOK /\ SettleInv /\ StartedGone /\ [Next]_vars => StartedGone'
  <2> SUFFICES ASSUME IInv, RetryInv, PlacesOK, SettleInv, StartedGone, [Next]_vars
               PROVE  StartedGone'
    OBVIOUS
  <2>1. CASE Next
    <3>1. Course
      BY <2>1, NextFollowsCourse
    <3>2. Numbers /\ starts \in [Msgs -> Nat]
      BY Numbered DEF IInv, TypeOK, QueueType
    <3>3. \A e \in Pending : e.form # "raw"
      BY DEF SettleInv, NoRaw, Pending
    <3> QED BY <3>1, <3>2, <3>3, CourseKeepsStartedGone DEF PlacesOK, OnePlace
  <2>2. CASE UNCHANGED vars
    <3>1. starts' = starts
      BY <2>2 DEF vars, queueVars
    <3>2. \A m \in Msgs : InPlace(m)' <=> InPlace(m)
      BY <2>2 DEF vars, promptVars, queueVars, envVars, InPlace, Held, Entries, Pending, Undelivered, Said, Asked
    <3> QED BY <3>1, <3>2 DEF StartedGone
  <2> QED BY <2>1, <2>2
<1>3. (RetryInv /\ IntentsOK) => RetryInv
  OBVIOUS
<1>4. StartedGone => AnsweredAtMostOnce
  BY DEF StartedGone, AnsweredAtMostOnce
<1> QED BY <1>1, <1>2, <1>3, <1>4, Invariance, RetryInvariance, PlacesInvariance, SettleInvariance, PTL DEF Spec
-----------------------------------------------------------------------------
(* A reactor does not sit on a queued message *)

\* No reactor compacts.  What is queued while no turn is in flight is behind a
\* USER_MESSAGE that will start one, or behind an abort that will discard it; a
\* reactor whose prompt is not yet appended may hold what it found in the log, under
\* a signal that is not aborted.
NotCompacting == compacting = FALSE /\ event.type # "COMPACTION_REQUESTED"
Aborting == \/ event.type = "AGENT_TURN_COMPLETED" /\ abortedByUser
            \/ event.type = "USER_INTERRUPT" /\ event.msg = NoMsg
Moving ==
  ~turnInFlight /\ queue # <<>> =>
    /\ phase \in {"settling", "settled"} => event.type = "USER_MESSAGE" /\ ~aborted
    /\ phase = "starting" /\ (aborted \/ after = "interrupt") => Aborting
\* What an abort appends, until its caller goes on.
AbortOnly == after = "interrupt" => Intents = {} /\ (Aborting \/ event = NoEvent)
StrandInv == NotCompacting /\ Moving /\ AbortOnly

LEMMA InFlightStep ==
  ASSUME turnInFlight', NotCompacting', after' # "interrupt"
  PROVE  StrandInv'
BY DEF StrandInv, Moving, AbortOnly

LEMMA DeliveryMoves ==
  ASSUME NEW q \in Seq(Entry), q # <<>>, NEW st, DeliverFrom(q, st), StrandInv,
         after # "interrupt", after' = after, compacting' = compacting
  PROVE  StrandInv'
<1>1. aborted' = FALSE /\ turnInFlight' = (Head(q).form = "raw")
  BY DEF DeliverFrom
<1>2. CASE Head(q).form = "raw"
  <2>1. event'.type = "AGENT_TURN_REQUESTED"
    BY <1>2 DEF DeliverFrom, Ev
  <2> QED BY <1>1, <1>2, <2>1 DEF StrandInv, NotCompacting, Moving, AbortOnly
<1>3. CASE Head(q).form # "raw"
  <2>1. event'.type = "USER_MESSAGE"
    BY <1>3 DEF DeliverFrom, Ev
  <2> QED BY <1>1, <2>1 DEF StrandInv, NotCompacting, Moving, AbortOnly
<1> QED BY <1>2, <1>3

\* While no reactor compacts, what cannot be delivered waits for a turn in flight.
LEMMA BusyInFlight ==
  ASSUME IInv, StrandInv, ~CanDeliver
  PROVE  turnInFlight
BY DEF IInv, InFlightCoversTurn, StrandInv, NotCompacting, CanDeliver, Retrying, Active

LEMMA InterruptMoves ==
  ASSUME IInv, StrandInv, OnUserInterrupt
  PROVE  StrandInv'
<1>0. /\ queue \in Seq(Entry) /\ event.type = "USER_INTERRUPT"
      /\ UNCHANGED <<phase, after, compacting>>
  BY DEF IInv, TypeOK, QueueType, OnUserInterrupt, promptVars
<1>1. CASE event.msg # NoMsg /\ CanDeliver
  <2>1. PICK e \in Entry : e = [msg |-> event.msg, form |-> "steer"]
    BY <1>1 DEF IInv, TypeOK, StackType, Event, Entry, Forms
  <2>2. Append(queue, e) \in Seq(Entry) /\ Append(queue, e) # <<>>
    BY <1>0, Added
  <2>3. DeliverFrom(Append(queue, e), stage)
    BY <1>1, <2>1 DEF OnUserInterrupt
  <2>4. after # "interrupt"
    BY <1>0, <1>1 DEF StrandInv, AbortOnly, Aborting, NoEvent
  <2> QED BY <1>0, <2>2, <2>3, <2>4, DeliveryMoves
<1>2. CASE ~(event.msg # NoMsg /\ CanDeliver)
  <2>1. /\ turnInFlight' = turnInFlight /\ tool' = DrainedApprovals
        /\ abortedByUser' = (abortedByUser \/ event.msg = NoMsg)
        /\ event' = IF Retrying # {} \/ (event.msg = NoMsg /\ ~turnInFlight)
                    THEN Completed(NoMsg, "aborted") ELSE NoEvent
    BY <1>2 DEF OnUserInterrupt
  <2>2. Intents = {} => Intents' = {}
    <3> SUFFICES ASSUME NEW m \in Msgs, NEW t \in Tools, tool'[m][t] = "intent"
                 PROVE  tool[m][t] = "intent"
      BY DEF Intents
    <3> QED BY <2>1 DEF DrainedApprovals
  <2>3. AbortOnly' /\ NotCompacting'
    <3>1. event' = NoEvent \/ event'.type = "AGENT_TURN_COMPLETED"
      BY <2>1 DEF Completed
    <3>2. NotCompacting'
      BY <1>0, <3>1 DEF StrandInv, NotCompacting, NoEvent
    <3>3. ASSUME after = "interrupt" PROVE Intents' = {} /\ abortedByUser'
      <4>1. Intents = {} /\ (Aborting \/ event = NoEvent)
        BY <3>3 DEF StrandInv, AbortOnly
      <4>2. event.msg = NoMsg
        BY <1>0, <4>1 DEF Aborting, NoEvent
      <4>3. abortedByUser' = (abortedByUser \/ TRUE)
        BY <2>1, <4>2
      <4> QED BY <2>2, <4>1, <4>3
    <3> QED BY <1>0, <3>1, <3>2, <3>3 DEF AbortOnly, Aborting
  <2>4. CASE event.msg # NoMsg
    <3>1. turnInFlight
      BY <1>2, <2>4, BusyInFlight
    <3> QED BY <2>1, <2>3, <3>1 DEF StrandInv, Moving
  <2>5. CASE event.msg = NoMsg
    <3>1. queue' = queue
      BY <1>2, <2>5 DEF OnUserInterrupt
    <3>2. Moving'
      BY <1>0, <2>1, <2>5, <3>1 DEF StrandInv, Moving, Aborting, Completed
    <3> QED BY <2>3, <3>2 DEF StrandInv
  <2> QED BY <2>4, <2>5
<1> QED BY <1>1, <1>2

LEMMA HandlersMove ==
  ASSUME IInv, StrandInv, Handler, ~AutoCompaction
  PROVE  StrandInv'
<1>0. queue \in Seq(Entry) /\ (event # NoEvent /\ ~Aborting => after # "interrupt")
  BY DEF IInv, TypeOK, QueueType, StrandInv, AbortOnly
<1>1. CASE OnUserMessage
  <2>1. /\ after # "interrupt" /\ event.type = "USER_MESSAGE"
        /\ UNCHANGED <<phase, after, aborted, abortedByUser, compacting, queue>>
        /\ event'.type # "COMPACTION_REQUESTED"
    BY <1>0, <1>1 DEF OnUserMessage, promptVars, Aborting, NoEvent, Ev, Queued
  <2>2. NotCompacting' /\ AbortOnly'
    BY <2>1 DEF StrandInv, NotCompacting, AbortOnly
  <2>3. CASE aborted
    <3>1. turnInFlight' = turnInFlight
      BY <1>1, <2>3 DEF OnUserMessage
    <3> QED BY <2>1, <2>2, <2>3, <3>1 DEF StrandInv, Moving, Aborting
  <2>4. CASE ~aborted
    <3>1. turnInFlight'
      BY <1>1, <2>4, BusyInFlight DEF OnUserMessage
    <3> QED BY <2>1, <2>2, <3>1, InFlightStep
  <2> QED BY <2>3, <2>4
<1>2. CASE OnUserInterrupt
  BY <1>2, InterruptMoves
<1>3. CASE OnUserFollowupQueued
  <2>1. after # "interrupt" /\ UNCHANGED <<after, compacting>> /\ event.type = "USER_FOLLOWUP_QUEUED"
    BY <1>0, <1>3 DEF OnUserFollowupQueued, Aborting, NoEvent
  <2>2. CASE CanDeliver
    <3>1. PICK e \in Entry : e = [msg |-> event.msg, form |-> event.arg]
      BY <2>1 DEF IInv, StackOK, Entry
    <3>2. Append(queue, e) \in Seq(Entry) /\ Append(queue, e) # <<>>
      BY <1>0, Added
    <3>3. DeliverFrom(Append(queue, e), stage)
      BY <1>3, <2>2, <3>1 DEF OnUserFollowupQueued
    <3> QED BY <2>1, <3>2, <3>3, DeliveryMoves
  <2>3. CASE ~CanDeliver
    <3>1. event' = NoEvent /\ turnInFlight'
      BY <1>3, <2>3, BusyInFlight DEF OnUserFollowupQueued
    <3>2. NotCompacting'
      BY <2>1, <3>1 DEF StrandInv, NotCompacting, NoEvent
    <3> QED BY <2>1, <3>1, <3>2, InFlightStep
  <2> QED BY <2>2, <2>3
<1>4. CASE \/ OnAgentTurnRequested \/ OnLlmCallRequested \/ OnAgentMessageEnd \/ OnIntentToolCall
           \/ OnToolExecutionEnd \/ OnToolResultsAggregated \/ OnLlmCallFailed
  <2>1. UNCHANGED <<after, compacting>>
    BY <1>4 DEF OnAgentTurnRequested, OnLlmCallRequested, OnAgentMessageEnd, OnIntentToolCall,
       OnToolExecutionEnd, OnToolResultsAggregated, OnLlmCallFailed, flagVars
  <2>2. event'.type # "COMPACTION_REQUESTED"
    <3> USE DEF Ev, NoEvent, Completed, ToolEnd
    <3>1. CASE OnAgentTurnRequested \/ OnLlmCallRequested \/ OnAgentMessageEnd
      BY <3>1 DEF OnAgentTurnRequested, OnLlmCallRequested, OnAgentMessageEnd
    <3>2. CASE OnIntentToolCall
      BY <3>2 DEF OnIntentToolCall
    <3>3. CASE OnToolExecutionEnd \/ OnToolResultsAggregated
      BY <3>3 DEF OnToolExecutionEnd, OnToolResultsAggregated
    <3>4. CASE OnLlmCallFailed
      BY <3>4 DEF OnLlmCallFailed, ScheduleRetry
    <3> QED BY <1>4, <3>1, <3>2, <3>3, <3>4
  <2>3. after # "interrupt"
    <3>1. CASE OnIntentToolCall
      BY <3>1 DEF OnIntentToolCall, StrandInv, AbortOnly
    <3>2. CASE ~OnIntentToolCall
      BY <1>0, <1>4, <3>2 DEF OnAgentTurnRequested, OnLlmCallRequested, OnAgentMessageEnd,
         OnToolExecutionEnd, OnToolResultsAggregated, OnLlmCallFailed, Aborting, NoEvent
    <3> QED BY <3>1, <3>2
  <2>4. turnInFlight
    <3>1. CASE OnIntentToolCall
      BY <3>1 DEF OnIntentToolCall, Intents, IInv, ToolsOK, InFlightCoversTurn, Active
    <3>2. CASE ~OnIntentToolCall
      BY <1>4, <3>2 DEF OnAgentTurnRequested, OnLlmCallRequested, OnAgentMessageEnd,
         OnToolExecutionEnd, OnToolResultsAggregated, OnLlmCallFailed, IInv, StackOK, TurnEvents,
         InFlightCoversTurn, Active
    <3> QED BY <3>1, <3>2
  <2>5. turnInFlight'
    BY <1>4, <2>4 DEF OnAgentTurnRequested, OnLlmCallRequested, OnAgentMessageEnd, OnIntentToolCall,
       OnToolExecutionEnd, OnToolResultsAggregated, OnLlmCallFailed, flagVars
  <2> QED BY <2>1, <2>2, <2>3, <2>5, InFlightStep DEF StrandInv, NotCompacting
<1>5. CASE OnAgentTurnCompleted
  <2>1. /\ UNCHANGED <<phase, after, compacting>> /\ event.type = "AGENT_TURN_COMPLETED"
        /\ (~abortedByUser => after # "interrupt")
    BY <1>0, <1>5 DEF OnAgentTurnCompleted, Aborting, NoEvent
  <2>2. PICK over : \/ abortedByUser /\ DiscardQueue(over)
                    \/ ~abortedByUser /\ RetryCompletion(event.msg)
                    \/ ~abortedByUser /\ DrainQueue(over)
                    \/ ~abortedByUser /\ GoIdle(over)
    BY <1>5 DEF OnAgentTurnCompleted
  <2>3. CASE DiscardQueue(over) \/ (~abortedByUser /\ GoIdle(over))
    <3>1. queue' = <<>> /\ event' = NoEvent /\ tool' = tool
      BY <2>3 DEF DiscardQueue, GoIdle
    <3>2. Intents' = Intents
      BY <3>1 DEF Intents
    <3> QED BY <2>1, <3>1, <3>2 DEF StrandInv, NotCompacting, Moving, AbortOnly, NoEvent
  <2>4. CASE ~abortedByUser /\ RetryCompletion(event.msg)
    BY <2>1, <2>4, InFlightStep DEF RetryCompletion, ScheduleRetry, StrandInv, NotCompacting, NoEvent
  <2>5. CASE ~abortedByUser /\ DrainQueue(over)
    BY <1>0, <2>1, <2>5, DeliveryMoves DEF DrainQueue
  <2> QED BY <2>2, <2>3, <2>4, <2>5
<1>6. CASE OnCompactionRequested
  BY <1>6 DEF OnCompactionRequested, StrandInv, NotCompacting
<1>7. CASE OnCompactionSettled
  <2>1. after # "interrupt" /\ UNCHANGED <<phase, after, abortedByUser, compacting>> /\ event.type = "COMPACTION_END"
    BY <1>0, <1>7 DEF OnCompactionSettled, Aborting, NoEvent
  <2>2. CASE CanDeliver /\ queue # <<>>
    BY <1>0, <1>7, <2>1, <2>2, DeliveryMoves DEF OnCompactionSettled
  <2>3. CASE ~(CanDeliver /\ queue # <<>>)
    <3>1. event' = NoEvent /\ UNCHANGED <<turnInFlight, queue>>
      BY <1>7, <2>3 DEF OnCompactionSettled
    <3>2. turnInFlight \/ queue = <<>>
      BY <2>3, BusyInFlight
    <3> QED BY <2>1, <3>1, <3>2 DEF StrandInv, NotCompacting, Moving, AbortOnly, NoEvent
  <2> QED BY <2>2, <2>3
<1>8. CASE AfterAppend
  <2>1. /\ event = NoEvent /\ event' = NoEvent /\ after' = "none" /\ UNCHANGED <<phase, turnInFlight>>
        /\ aborted' = (aborted \/ after = "interrupt") /\ (compacting' => compacting) /\ compacting' \in BOOLEAN
    BY <1>8 DEF AfterAppend, promptVars, StillCompacting, IInv, TypeOK, FlagType
  <2>2. queue = <<>> => queue' = <<>>
    BY <1>8 DEF AfterAppend
  <2> QED BY <2>1, <2>2 DEF StrandInv, NotCompacting, Moving, AbortOnly, Aborting, NoEvent
<1> QED BY <1>1, <1>2, <1>3, <1>4, <1>5, <1>6, <1>7, <1>8 DEF Handler

\* Where no handler is due, what is queued waits for a turn, or for a prompt to be appended.
LEMMA StillMoves ==
  ASSUME StrandInv, event = NoEvent, after # "interrupt", after' # "interrupt",
         turnInFlight' = turnInFlight, queue = <<>> => queue' = <<>>,
         compacting' = compacting, event'.type # "COMPACTION_REQUESTED",
         \/ phase' \notin {"starting", "settling", "settled"}
         \/ phase' = "starting" /\ (aborted' => phase = "starting" /\ aborted)
         \/ phase' \in {"settling", "settled"} /\ phase \in {"settling", "settled"}
  PROVE  StrandInv'
BY DEF StrandInv, NotCompacting, Moving, AbortOnly, Aborting, NoEvent

LEMMA NextMoves ==
  ASSUME IInv, StrandInv, [Next]_vars, ~AutoCompaction, "busy" \notin CompactWhen
  PROVE  StrandInv'
<1>1. CASE Handler
  BY <1>1, HandlersMove
<1>2. CASE Microtask
  <2>0. event = NoEvent /\ after = "none"
    BY <1>2 DEF Microtask, StartReactor, AppendPrompt, SettledCheck, FinishPrompt, ApprovalDecided, StackEmpty
  <2>1. CASE StartReactor
    <3>1. /\ phase' = "starting" /\ aborted' = FALSE
          /\ UNCHANGED <<event, after, turnInFlight, compacting>>
      BY <2>1 DEF StartReactor
    <3> QED BY <2>0, <3>1 DEF StrandInv, NotCompacting, Moving, AbortOnly, NoEvent
  <2>2. CASE AppendPrompt
    <3>1. /\ phase = "starting" /\ phase' = "settling" /\ event'.type = "USER_MESSAGE"
          /\ UNCHANGED <<after, turnInFlight, compacting, queue, aborted>>
      BY <2>2 DEF AppendPrompt, Ev, flagVars, queueVars
    <3> QED BY <2>0, <3>1 DEF StrandInv, NotCompacting, Moving, AbortOnly, Aborting, NoEvent
  <2>3. CASE SettledCheck
    <3>1. /\ phase = "settling" /\ phase' \in {"settling", "settled"}
          /\ UNCHANGED <<event, after, turnInFlight, compacting, queue>>
      BY <2>3 DEF SettledCheck, flagVars, queueVars, IInv, PromptOK
    <3> QED BY <2>0, <3>1, StillMoves DEF NoEvent
  <2>4. CASE FinishPrompt
    BY <2>0, <2>4 DEF FinishPrompt, queueVars, StrandInv, NotCompacting, Moving, AbortOnly, NoEvent
  <2>5. CASE ApprovalDecided
    <3>1. turnInFlight
      BY <2>5 DEF ApprovalDecided, Decided, IInv, ToolsOK, InFlightCoversTurn, Active
    <3>2. UNCHANGED <<after, turnInFlight, compacting>>
      BY <2>5 DEF ApprovalDecided, flagVars
    <3>3. event'.type \in {"none", "TOOL_EXECUTION_END"}
      BY <2>5 DEF ApprovalDecided, ToolEnd, NoEvent
    <3>4. NotCompacting'
      BY <3>2, <3>3 DEF StrandInv, NotCompacting
    <3> QED BY <2>0, <3>1, <3>2, <3>4, InFlightStep
  <2> QED BY <1>2, <2>1, <2>2, <2>3, <2>4, <2>5 DEF Microtask
<1>3. CASE Completion \/ \E m \in Msgs : StreamIdle(m)
  <2>0. event = NoEvent /\ after = "none"
    BY <1>3 DEF Completion, HookReturns, LlmResponds, LlmFails, RetryFires, ToolReturns, CompactionReturns,
       BackgroundCompactionReturns, StreamIdle, MacroTask, StackEmpty
  <2>1. ASSUME NEW m \in Msgs, HookReturns(m) \/ LlmResponds(m) \/ LlmFails(m) \/ RetryFires(m)
        PROVE  StrandInv'
    <3>1. turnInFlight
      BY <2>1 DEF HookReturns, LlmResponds, LlmFails, RetryFires, IInv, InFlightCoversTurn, Active
    <3>2. UNCHANGED <<after, turnInFlight, compacting>> /\ event'.type # "COMPACTION_REQUESTED"
      BY <2>0, <2>1 DEF HookReturns, LlmResponds, LlmFails, RetryFires, Emit, Ev, NoEvent, flagVars
    <3> QED BY <2>0, <3>1, <3>2, InFlightStep DEF StrandInv, NotCompacting
  <2>2. ASSUME NEW m \in Msgs, NEW t \in Tools, ToolReturns(m, t) PROVE StrandInv'
    <3>1. turnInFlight
      BY <2>2 DEF ToolReturns, IInv, ToolsOK, InFlightCoversTurn, Active
    <3> QED BY <2>0, <2>2, <3>1, InFlightStep DEF ToolReturns, flagVars, StrandInv, NotCompacting, ToolEnd, NoEvent
  <2>3. CASE CompactionReturns
    BY <2>3 DEF CompactionReturns, StrandInv, NotCompacting
  <2>4. ASSUME NEW c \in {"idle", "stray"}, BackgroundCompactionReturns(c) PROVE StrandInv'
    <3>1. /\ phase' = phase \/ phase' = "resuming"
          /\ UNCHANGED <<after, aborted, turnInFlight, compacting, queue>> /\ event'.type # "COMPACTION_REQUESTED"
      BY <2>4 DEF BackgroundCompactionReturns, flagVars, queueVars, Ev, NoEvent
    <3> QED BY <2>0, <3>1, StillMoves
  <2>5. ASSUME NEW m \in Msgs, StreamIdle(m) PROVE StrandInv'
    <3>1. turnInFlight
      BY <2>5 DEF StreamIdle, IInv, InFlightCoversTurn, Active
    <3> QED BY <2>0, <2>5, <3>1, InFlightStep DEF StreamIdle, StrandInv, NotCompacting, NoEvent
  <2> QED BY <1>3, <2>1, <2>2, <2>3, <2>4, <2>5 DEF Completion
<1>4. CASE User
  <2>0. StackEmpty /\ event = NoEvent /\ after = "none"
    BY <1>4 DEF User, Prompt, Steer, FollowUp, Abort, Compact, CancelQueued, ClearQueued, SteerQueued, Take,
       Decide, UserCall, StackEmpty
  <2>1. CASE Prompt \/ Steer \/ FollowUp \/ Compact \/ \E m \in Msgs, t \in Tools : Decide(m, t)
    <3>1. UNCHANGED <<after, aborted, turnInFlight, compacting, queue>> /\ event'.type # "COMPACTION_REQUESTED"
      BY <2>0, <2>1 DEF Prompt, Steer, FollowUp, Compact, Decide, flagVars, queueVars, Ev, Queued, NoEvent
    <3>2. phase' = phase \/ phase' \in {"awaitIdle", "resuming"}
      BY <2>1 DEF Prompt, Steer, FollowUp, Compact, Decide, promptVars
    <3> QED BY <2>0, <3>1, <3>2, StillMoves
  <2>2. CASE Abort
    <3>1. /\ event' = Ev("USER_INTERRUPT", NoMsg) /\ UNCHANGED <<phase, turnInFlight, compacting, queue, tool>>
      BY <2>2 DEF Abort, promptVars, flagVars, queueVars, turnVars
    <3>2. Intents' = {}
      BY <2>0, <3>1 DEF Intents, StackEmpty
    <3> QED BY <2>0, <3>1, <3>2 DEF StrandInv, NotCompacting, Moving, AbortOnly, Aborting, Ev, NoEvent
  <2>3. CASE CancelQueued \/ ClearQueued \/ SteerQueued
    <3>1. /\ UNCHANGED <<phase, aborted, turnInFlight, compacting>> /\ after' \in {"none", "promote"}
          /\ event'.type # "COMPACTION_REQUESTED" /\ queue # <<>>
      BY <2>0, <2>3 DEF CancelQueued, ClearQueued, SteerQueued, promptVars, flagVars, Ev, NoEvent
    <3> QED BY <2>0, <3>1, StillMoves
  <2> QED BY <1>4, <2>1, <2>2, <2>3 DEF User
<1>5. CASE UNCHANGED vars
  BY <1>5 DEF vars, promptVars, flagVars, queueVars, turnVars, StrandInv, NotCompacting, Moving, AbortOnly, Aborting, Intents
<1> QED BY <1>1, <1>2, <1>3, <1>4, <1>5 DEF Next

\* A live reactor that could start a turn does not sit on a queued message, whatever
\* the user calls and from wherever, as long as no reactor compacts: the end of its own
\* compaction is handled before the reactor forgets that it is compacting.
THEOREM NoneIsStranded ==
  ASSUME ~AutoCompaction, "busy" \notin CompactWhen
  PROVE  Spec => []NoStrandedFollowUp
<1>1. Init => StrandInv
  BY DEF Init, StrandInv, NotCompacting, Moving, AbortOnly, NoEvent
<1>2. IInv /\ StrandInv /\ [Next]_vars => StrandInv'
  BY NextMoves
<1>3. StrandInv => NoStrandedFollowUp
  BY DEF StrandInv, Moving, NoStrandedFollowUp, MacroTask, StackEmpty, MicroPending, Live, CanDeliver, NoEvent
<1> QED BY <1>1, <1>2, <1>3, Invariance, PTL DEF Spec
=============================================================================
