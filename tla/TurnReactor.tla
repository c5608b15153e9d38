---------------------------- MODULE TurnReactor ----------------------------
(***************************************************************************)
(* The turn loop of one EventSourcedRuntime: the reactor that answers      *)
(* events appended to the store (src/core/runtime/reactor.ts), the         *)
(* TurnState shared by successive reactors (turn-state.ts), and the prompt *)
(* cycle around them (runtime.ts).                                         *)
(*                                                                         *)
(* Store subscribers run synchronously inside append(), so one JavaScript  *)
(* task is a chain of nested handlers.  The model keeps that structure:    *)
(*                                                                         *)
(*   event   the event whose handler runs next (the innermost append);     *)
(*   after   what the outermost caller still does when append returns;     *)
(*   a tool call in state "intent" is an INTENT_TOOL_CALL the loop of      *)
(*   _onAgentMessageEnd has still to emit.                                 *)
(*                                                                         *)
(* Microtasks (promise continuations) run only when that stack is empty,   *)
(* and macrotasks (LLM replies, tool results, timers, user input) only     *)
(* when no microtask is left.                                              *)
(*                                                                         *)
(* A message is a number, in the order the user entered them.  A turn is   *)
(* named by the message it answers and keeps its name through tool rounds  *)
(* and retries: it is the causal chain of that message in the log.         *)
(***************************************************************************)
EXTENDS Naturals, Sequences, FiniteSets

CONSTANTS
  Tools,             \* names of the tool calls one assistant message can carry
  Sigs,              \* signatures a round of tool calls can have
  LoopLimit,         \* MAX_CONSECUTIVE_IDENTICAL_TOOL_ROUNDS
  MaxAttempts,       \* retryPolicy.maxAttempts
  BeforeAgentStart,  \* is a before_agent_start hook configured?
  ApprovalHandler,   \* is an approval handler configured?
  AutoCompaction,    \* may the policy ask for a compaction after a turn?
  CompactWhen,       \* when compact() is called: a subset of {"idle", "busy"}
  MicroInputs,       \* do callers also call the runtime from microtasks?
  MaxMsgs,           \* bound: messages the user enters
  MaxAborts,         \* bound: calls of abort()
  MaxCompacts,       \* bound: calls of compact()
  MaxEdits           \* bound: cancel, promote or clear of queued messages

ASSUME ReactorAssumption ==
  /\ LoopLimit \in Nat \ {0}
  /\ MaxAttempts \in Nat
  /\ MaxMsgs \in Nat /\ MaxAborts \in Nat /\ MaxCompacts \in Nat
  /\ MaxEdits \in Nat
  /\ BeforeAgentStart \in BOOLEAN /\ ApprovalHandler \in BOOLEAN
  /\ AutoCompaction \in BOOLEAN /\ MicroInputs \in BOOLEAN
  /\ CompactWhen \subseteq {"idle", "busy"}

VARIABLES
  \* the prompt cycle (runtime.ts)
  phase,         \* where prompt() is; a reactor is alive in the Live phases
  cur,           \* the message the running prompt() was called with
  check,         \* a settled check is queued as a microtask
  background,    \* compactions outside the live reactor: "idle", "stray"
  \* the call stack
  event, after,
  \* TurnState and the reactor's fields
  aborted,       \* the current AbortController's signal
  turnInFlight, abortedByUser,
  queue,         \* followUpQueue
  compacting,    \* compactionAbort is set
  lastSig, streak, \* toolRoundSignatures: last one, and how many repeat it
  \* the turns
  stage, attempt, rounds, tool,
  \* what the log says
  qlog,          \* USER_FOLLOWUP_QUEUED events of this run, in order
  consumed,      \* queued events some USER_MESSAGE names as its cause
  dropped,       \* queued events some USER_FOLLOWUP_DROPPED lists
  everCompleted, msgAfter, \* is there an AGENT_TURN_COMPLETED? a USER_MESSAGE after it?
  starts,        \* turns started for each message
  \* the environment
  nextMsg, aborts, compacts, edits

promptVars == <<phase, cur, check, background>>
flagVars   == <<aborted, turnInFlight, abortedByUser, compacting>>
loopVars   == <<lastSig, streak>>
turnVars   == <<stage, attempt, rounds, tool>>
queueVars  == <<queue, qlog, consumed, dropped, starts>>
markVars   == <<everCompleted, msgAfter>>
envVars    == <<nextMsg, aborts, compacts, edits>>
vars == <<promptVars, event, after, flagVars, loopVars, turnVars, queueVars,
          markVars, envVars>>
-----------------------------------------------------------------------------
(* Types *)

Msgs  == 1 .. MaxMsgs
NoMsg == 0
NoSig == 0
NoTool == 0
NoEvent == [type |-> "none", msg |-> NoMsg, arg |-> "none", tool |-> NoTool]

Ev(type, m)         == [type |-> type, msg |-> m, arg |-> "none", tool |-> NoTool]
Completed(m, reason) ==
  [type |-> "AGENT_TURN_COMPLETED", msg |-> m, arg |-> reason, tool |-> NoTool]
Queued(m, form) ==
  [type |-> "USER_FOLLOWUP_QUEUED", msg |-> m, arg |-> form, tool |-> NoTool]
ToolEnd(m, t) ==
  [type |-> "TOOL_EXECUTION_END", msg |-> m, arg |-> "none", tool |-> t]

\* A queue entry: a followUp() or steer() whose text is delivered as a fresh
\* USER_MESSAGE, or the marker of a USER_MESSAGE already in the log ("raw").
Forms   == {"followUp", "steer", "raw"}
Entry   == [msg : Msgs, form : Forms]
EventTypes ==
  {"USER_MESSAGE", "USER_INTERRUPT", "USER_FOLLOWUP_QUEUED",
   "AGENT_TURN_REQUESTED", "LLM_CALL_REQUESTED", "AGENT_MESSAGE_END",
   "LLM_CALL_FAILED", "TOOL_EXECUTION_END", "TOOL_RESULTS_AGGREGATED",
   "AGENT_TURN_COMPLETED", "COMPACTION_REQUESTED", "COMPACTION_END", "none"}
\* "failed" is the reason "error" of a completion caused by LLM_CALL_FAILED.
Reasons == {"stop", "error", "failed", "aborted", "loop_detected"}
Event == [type : EventTypes, msg : Msgs \cup {NoMsg},
          arg : Reasons \cup Forms \cup {"none"}, tool : Tools \cup {NoTool}]

Phases == {"idle", "awaitIdle", "resuming", "starting", "settling", "settled"}
Stages == {"none",      \* no turn was ever started for the message
           "hook",      \* awaiting the before_agent_start hook
           "dispatch",  \* the turn's next event is on the call stack
           "llm",       \* awaiting llmClient.complete
           "stray",     \* the same, the reactor that called it was stopped
           "tools",     \* a turn tracker waits for tool results
           "retry",     \* a retry timer is set
           "done"}
ToolStates == {"none", "intent", "approval", "approved", "rejected",
               "running", "ended", "lost"}

PromptType ==
  /\ phase \in Phases /\ cur \in Msgs \cup {NoMsg} /\ check \in BOOLEAN
  /\ background \subseteq {"idle", "stray"}
StackType ==
  /\ event \in Event
  /\ after \in {"none", "interrupt", "promote", "clearCompaction"}
FlagType ==
  /\ aborted \in BOOLEAN /\ turnInFlight \in BOOLEAN
  /\ abortedByUser \in BOOLEAN /\ compacting \in BOOLEAN
LoopType == lastSig \in Sigs \cup {NoSig} /\ streak \in 0 .. LoopLimit
TurnType ==
  /\ stage \in [Msgs -> Stages]
  /\ attempt \in [Msgs -> 0 .. MaxAttempts]
  /\ rounds \in [Msgs -> 0 .. LoopLimit]
  /\ tool \in [Msgs -> [Tools -> ToolStates]]
QueueType ==
  /\ queue \in Seq(Entry) /\ qlog \in Seq(Entry)
  /\ consumed \subseteq Msgs /\ dropped \subseteq Entry
  /\ starts \in [Msgs -> Nat]
MarkType == everCompleted \in BOOLEAN /\ msgAfter \in BOOLEAN
EnvType ==
  /\ nextMsg \in 1 .. MaxMsgs + 1
  /\ aborts \in 0 .. MaxAborts /\ compacts \in 0 .. MaxCompacts
  /\ edits \in 0 .. MaxEdits

\* Every variable of the turn loop keeps its range; what can break it is a
\* retry the attempt count does not stop (_attemptCount, reactor.ts:1401).
TypeOK ==
  /\ PromptType /\ StackType /\ FlagType /\ LoopType
  /\ TurnType /\ QueueType /\ MarkType /\ EnvType
-----------------------------------------------------------------------------
(* Scheduling: the call stack, microtasks, macrotasks *)

\* A reactor exists and is subscribed to the store.
Live == phase \in {"starting", "settling", "settled"}

Intents   == {mt \in Msgs \X Tools : tool[mt[1]][mt[2]] = "intent"}
Approvals == {mt \in Msgs \X Tools : tool[mt[1]][mt[2]] = "approval"}
Decided   == {mt \in Msgs \X Tools : tool[mt[1]][mt[2]] \in {"approved", "rejected"}}
Retrying  == {m \in Msgs : stage[m] = "retry"}

StackEmpty   == event = NoEvent /\ Intents = {} /\ after = "none"
MicroPending == check \/ phase \in {"resuming", "starting", "settled"} \/ Decided # {}
MacroTask    == StackEmpty /\ ~MicroPending
UserCall     == StackEmpty /\ (MicroInputs \/ ~MicroPending)

\* Does the turn of m exist: is something awaited, or dispatched, for it?
Active(m) == stage[m] \in {"hook", "dispatch", "llm", "stray", "tools", "retry"}

\* Mutant: a turn in flight does not keep the next message waiting.
CanDeliverMidTurn == Retrying = {} /\ ~compacting

\* _canDeliverFollowUpNow, and the guard of _onUserMessage, its negation
CanDeliver == ~turnInFlight /\ Retrying = {} /\ ~compacting

\* The continuation of an await appends an event.  A live reactor dispatches
\* it as the next event of the turn; without one nobody handles it.
Emit(m, e) ==
  /\ event' = IF Live THEN e ELSE NoEvent
  /\ stage' = [stage EXCEPT ![m] = IF Live THEN "dispatch" ELSE "done"]

\* AGENT_TURN_COMPLETED and the end of a compaction re-run the settled check,
\* once prompt() has subscribed to them.
ScheduleCheck == check' = (check \/ phase = "settling")

\* Mutant: a new turn inherits the signatures of the one before.
KeepLoop == UNCHANGED loopVars

ResetLoop == lastSig' = NoSig /\ streak' = 0
-----------------------------------------------------------------------------
(* Follow-up delivery *)

Without(q, i) == SubSeq(q, 1, i - 1) \o SubSeq(q, i + 1, Len(q))

\* _deliverFollowUpNow on the queue q: a new AbortController, then the head
\* either restarts the turn of a message already in the log, or is appended
\* as a USER_MESSAGE that names the queued event as its cause.  st is what the
\* caller leaves of the stages.
DeliverFrom(q, st) ==
  LET next == Head(q) IN
  /\ aborted' = FALSE
  /\ queue' = Tail(q)
  /\ turnInFlight' = (next.form = "raw")
  /\ IF next.form = "raw"
     THEN /\ event' = Ev("AGENT_TURN_REQUESTED", next.msg)
          /\ stage' = [st EXCEPT ![next.msg] = "dispatch"]
          /\ attempt' = [attempt EXCEPT ![next.msg] = 0]
          /\ rounds' = [rounds EXCEPT ![next.msg] = 0]
          /\ starts' = [starts EXCEPT ![next.msg] = @ + 1]
          /\ ResetLoop
          /\ UNCHANGED <<consumed, tool>>
     ELSE /\ event' = Ev("USER_MESSAGE", next.msg)
          /\ stage' = st
          /\ consumed' = IF next.form = "followUp" THEN consumed \cup {next.msg} ELSE consumed
          /\ UNCHANGED <<attempt, rounds, tool, starts, lastSig, streak>>
-----------------------------------------------------------------------------
(* Handlers: each takes the event on top of the call stack *)

OnUserMessage ==
  /\ event.type = "USER_MESSAGE"
  /\ msgAfter' = TRUE
  /\ LET m == event.msg IN
     \/ \* the signal is aborted: the message is ignored
        /\ aborted
        /\ event' = NoEvent
        /\ UNCHANGED <<qlog, starts, turnInFlight, loopVars, turnVars>>
     \/ \* busy: leave a durable marker and answer it later
        /\ ~aborted /\ ~CanDeliver
        /\ event' = Queued(m, "raw")
        /\ qlog' = Append(qlog, [msg |-> m, form |-> "raw"])
        /\ UNCHANGED <<starts, turnInFlight, loopVars, turnVars>>
     \/ \* idle: a turn starts here
        /\ ~aborted /\ CanDeliver
        /\ turnInFlight' = TRUE
        /\ starts' = [starts EXCEPT ![m] = @ + 1]
        /\ attempt' = [attempt EXCEPT ![m] = 0]
        /\ rounds' = [rounds EXCEPT ![m] = 0]
        /\ IF BeforeAgentStart
           THEN /\ event' = NoEvent
                /\ stage' = [stage EXCEPT ![m] = "hook"]
                /\ UNCHANGED loopVars
           ELSE /\ event' = Ev("AGENT_TURN_REQUESTED", m)
                /\ stage' = [stage EXCEPT ![m] = "dispatch"]
                /\ ResetLoop
        /\ UNCHANGED <<qlog, tool>>
  /\ UNCHANGED <<promptVars, after, aborted, abortedByUser, compacting, queue,
                 consumed, dropped, everCompleted, envVars>>

\* Mutant: an interrupt leaves the retry timers running.
LeaveRetries == stage

\* The timers an interrupt or a stop clears end their turns.
ClearRetries == [m \in Msgs |-> IF m \in Retrying THEN "done" ELSE stage[m]]

\* _drainPendingApprovals resolves every open approval as refused.
DrainedApprovals == [m \in Msgs |-> [t \in Tools |->
  IF tool[m][t] = "approval" THEN "rejected" ELSE tool[m][t]]]

\* A steer (msg is a message) or an abort (msg is NoMsg).
OnUserInterrupt ==
  /\ event.type = "USER_INTERRUPT"
  /\ LET m       == event.msg
         content == m # NoMsg
         pushed  == IF content THEN Append(queue, [msg |-> m, form |-> "steer"]) ELSE queue
     IN \/ \* idle: deliver the head of the queue as a fresh turn
           /\ content /\ CanDeliver
           /\ DeliverFrom(pushed, stage)
           /\ UNCHANGED abortedByUser
        \/ \* otherwise interrupt what runs; the turn settles as "aborted"
           /\ ~(content /\ CanDeliver)
           /\ aborted' = TRUE
           /\ abortedByUser' = (abortedByUser \/ ~content)
           /\ queue' = pushed
           /\ tool' = DrainedApprovals
           /\ stage' = ClearRetries
           /\ event' = IF Retrying # {} \/ (~content /\ ~turnInFlight)
                       THEN Completed(NoMsg, "aborted") ELSE NoEvent
           /\ UNCHANGED <<turnInFlight, consumed, starts, attempt, rounds, loopVars>>
  /\ UNCHANGED <<promptVars, after, compacting, qlog, dropped, markVars, envVars>>

OnUserFollowupQueued ==
  /\ event.type = "USER_FOLLOWUP_QUEUED"
  /\ LET pushed == Append(queue, [msg |-> event.msg, form |-> event.arg]) IN
     IF CanDeliver
     THEN DeliverFrom(pushed, stage)
     ELSE /\ queue' = pushed /\ event' = NoEvent
          /\ UNCHANGED <<aborted, turnInFlight, turnVars, consumed, starts, loopVars>>
  /\ UNCHANGED <<promptVars, after, abortedByUser, compacting, qlog, dropped,
                 markVars, envVars>>

OnAgentTurnRequested ==
  /\ event.type = "AGENT_TURN_REQUESTED"
  /\ IF aborted
     THEN event' = Completed(event.msg, "aborted") /\ UNCHANGED turnInFlight
     ELSE event' = Ev("LLM_CALL_REQUESTED", event.msg) /\ turnInFlight' = TRUE
  /\ UNCHANGED <<promptVars, after, aborted, abortedByUser, compacting, loopVars,
                 turnVars, queueVars, markVars, envVars>>

OnLlmCallRequested ==
  /\ event.type = "LLM_CALL_REQUESTED"
  /\ event' = NoEvent
  /\ stage' = [stage EXCEPT ![event.msg] = IF aborted THEN "done" ELSE "llm"]
  /\ UNCHANGED <<promptVars, after, flagVars, loopVars, attempt, rounds, tool,
                 queueVars, markVars, envVars>>

\* The streak of identical signatures that ends with sig.
StreakWith(sig) ==
  IF sig # lastSig THEN 1 ELSE IF streak < LoopLimit THEN streak + 1 ELSE streak

OnAgentMessageEnd ==
  /\ event.type = "AGENT_MESSAGE_END"
  /\ LET m == event.msg IN
     \/ /\ aborted
        /\ event' = Completed(m, "aborted")
        /\ UNCHANGED <<stage, rounds, tool, loopVars>>
     \/ \* no tool calls, or a stop reason other than "tool_use"
        /\ ~aborted
        /\ \E reason \in {"stop", "error"} : event' = Completed(m, reason)
        /\ UNCHANGED <<stage, rounds, tool, loopVars>>
     \/ \* a round of tool calls: track it, remember its signature
        /\ ~aborted
        /\ \E calls \in SUBSET Tools \ {{}}, sig \in Sigs :
             /\ tool' = [tool EXCEPT ![m] = [t \in Tools |->
                           IF t \in calls THEN "intent" ELSE "none"]]
             /\ lastSig' = sig /\ streak' = StreakWith(sig)
        /\ stage' = [stage EXCEPT ![m] = "tools"]
        /\ rounds' = [rounds EXCEPT ![m] = IF @ < LoopLimit THEN @ + 1 ELSE @]
        /\ event' = NoEvent
  /\ UNCHANGED <<promptVars, after, flagVars, attempt, queueVars, markVars, envVars>>

\* One step of the loop that emits the INTENT_TOOL_CALLs, with its handler.
OnIntentToolCall ==
  /\ event = NoEvent
  /\ \E mt \in Intents, requiresApproval \in BOOLEAN :
       LET m == mt[1]
           t == mt[2]
           refused == ~aborted /\ requiresApproval /\ ~ApprovalHandler
       IN /\ tool' = [tool EXCEPT ![m][t] =
                CASE aborted -> "lost"
                  [] ~aborted /\ requiresApproval /\ ApprovalHandler -> "approval"
                  [] OTHER -> "running"]
          /\ event' = IF refused THEN ToolEnd(m, t) ELSE NoEvent
  /\ UNCHANGED <<promptVars, after, flagVars, loopVars, stage, attempt, rounds,
                 queueVars, markVars, envVars>>

\* The tracker's join: the round is over when every call has answered.
OnToolExecutionEnd ==
  /\ event.type = "TOOL_EXECUTION_END"
  /\ LET m     == event.msg
         ended == [tool[m] EXCEPT ![event.tool] = "ended"]
         all   == \A t \in Tools : ended[t] \in {"none", "ended"}
     IN /\ tool' = [tool EXCEPT ![m] = IF all THEN [t \in Tools |-> "none"] ELSE ended]
        /\ event' = IF all THEN Ev("TOOL_RESULTS_AGGREGATED", m) ELSE NoEvent
        /\ stage' = IF all THEN [stage EXCEPT ![m] = "dispatch"] ELSE stage
  /\ UNCHANGED <<promptVars, after, flagVars, loopVars, attempt, rounds,
                 queueVars, markVars, envVars>>

OnToolResultsAggregated ==
  /\ event.type = "TOOL_RESULTS_AGGREGATED"
  /\ event' = IF aborted THEN Completed(event.msg, "aborted")
              ELSE IF streak >= LoopLimit THEN Completed(event.msg, "loop_detected")
              ELSE Ev("AGENT_TURN_REQUESTED", event.msg)
  /\ UNCHANGED <<promptVars, after, flagVars, loopVars, turnVars, queueVars,
                 markVars, envVars>>

\* _scheduleRetry, for a retryable error with attempts left
ScheduleRetry(m) ==
  /\ attempt[m] < MaxAttempts
  /\ attempt' = [attempt EXCEPT ![m] = @ + 1]
  /\ stage' = [stage EXCEPT ![m] = "retry"]
  /\ event' = NoEvent

OnLlmCallFailed ==
  /\ event.type = "LLM_CALL_FAILED"
  /\ \/ /\ aborted
        /\ event' = Completed(event.msg, "aborted")
        /\ UNCHANGED <<stage, attempt>>
     \/ /\ ~aborted
        /\ ScheduleRetry(event.msg)
     \/ \* not retryable, or out of attempts
        /\ ~aborted
        /\ event' = Completed(event.msg, "failed")
        /\ UNCHANGED <<stage, attempt>>
  /\ UNCHANGED <<promptVars, after, flagVars, loopVars, rounds, tool, queueVars,
                 markVars, envVars>>

\* Mutant: the discarded messages are not recorded.
ForgetQueue(over) ==
  /\ abortedByUser' = FALSE /\ turnInFlight' = FALSE
  /\ queue' = <<>>
  /\ stage' = over /\ event' = NoEvent
  /\ UNCHANGED <<aborted, attempt, rounds, tool, consumed, starts, dropped, loopVars>>

\* The end of a turn the user aborted: discard the queue, on the record.
DiscardQueue(over) ==
  /\ abortedByUser' = FALSE /\ turnInFlight' = FALSE
  /\ dropped' = dropped \cup {queue[i] : i \in DOMAIN queue}
  /\ queue' = <<>>
  /\ stage' = over /\ event' = NoEvent
  /\ UNCHANGED <<aborted, attempt, rounds, tool, consumed, starts, loopVars>>

\* Mutant: the end of a turn leaves the queue to the next one.
LeaveQueue(over) ==
  /\ queue # <<>>
  /\ turnInFlight' = FALSE
  /\ stage' = over /\ event' = NoEvent
  /\ UNCHANGED <<aborted, abortedByUser, attempt, rounds, tool, queue, consumed,
                 starts, dropped, loopVars>>

DrainQueue(over) ==
  /\ queue # <<>>
  /\ DeliverFrom(queue, over)
  /\ UNCHANGED <<abortedByUser, dropped>>

\* Nothing is queued; the policy may find the context over its threshold.
GoIdle(over) ==
  /\ queue = <<>>
  /\ turnInFlight' = FALSE
  /\ stage' = over
  /\ \/ event' = NoEvent
     \/ /\ AutoCompaction /\ event.arg # "aborted"
        /\ event' = Ev("COMPACTION_REQUESTED", NoMsg)
  /\ UNCHANGED <<aborted, abortedByUser, attempt, rounds, tool, queue, consumed,
                 starts, dropped, loopVars>>

\* A message that ended with the provider's error, not with a failed call.
RetryCompletion(m) ==
  /\ event.arg = "error"
  /\ ScheduleRetry(m)
  /\ turnInFlight' = TRUE
  /\ UNCHANGED <<aborted, abortedByUser, rounds, tool, queue, consumed, starts,
                 dropped, loopVars>>

OnAgentTurnCompleted ==
  /\ event.type = "AGENT_TURN_COMPLETED"
  /\ everCompleted' = TRUE /\ msgAfter' = FALSE
  /\ ScheduleCheck
  /\ LET m    == event.msg
         over == IF m = NoMsg THEN stage ELSE [stage EXCEPT ![m] = "done"]
     IN \/ abortedByUser /\ DiscardQueue(over)
        \/ ~abortedByUser /\ RetryCompletion(m)
        \/ ~abortedByUser /\ DrainQueue(over)
        \/ ~abortedByUser /\ GoIdle(over)
  /\ UNCHANGED <<phase, cur, background, after, compacting, qlog, envVars>>

OnCompactionRequested ==
  /\ event.type = "COMPACTION_REQUESTED"
  /\ compacting' = TRUE
  /\ event' = NoEvent
  /\ UNCHANGED <<promptVars, after, aborted, turnInFlight, abortedByUser, loopVars,
                 turnVars, queueVars, markVars, envVars>>

\* COMPACTION_END and COMPACTION_ABORTED share a handler.
OnCompactionSettled ==
  /\ event.type = "COMPACTION_END"
  /\ ScheduleCheck
  /\ IF CanDeliver /\ queue # <<>>
     THEN DeliverFrom(queue, stage)
     ELSE /\ event' = NoEvent
          /\ UNCHANGED <<aborted, turnInFlight, turnVars, queue, consumed, starts, loopVars>>
  /\ UNCHANGED <<phase, cur, background, after, abortedByUser, compacting, qlog,
                 dropped, markVars, envVars>>

StillCompacting == compacting /\ after # "clearCompaction"

\* What callers do when their append returns: abort() interrupts the reactor,
\* steerQueuedFollowUp moves the steer to the front, _onCompactionRequested
\* forgets its AbortController.
AfterAppend ==
  /\ event = NoEvent /\ Intents = {} /\ after # "none"
  /\ after' = "none"
  /\ aborted' = (aborted \/ after = "interrupt")
  /\ compacting' = StillCompacting
  /\ LET steered == {i \in DOMAIN queue : queue[i] = [msg |-> nextMsg - 1, form |-> "steer"]}
     IN IF after = "promote" /\ steered # {}
        THEN \E i \in steered : queue' = <<queue[i]>> \o Without(queue, i)
        ELSE queue' = queue
  /\ UNCHANGED <<promptVars, event, turnInFlight, abortedByUser, loopVars, turnVars,
                 qlog, consumed, dropped, starts, markVars, envVars>>
-----------------------------------------------------------------------------
(* Macrotasks: what the turn awaits *)

HookReturns(m) ==
  /\ MacroTask /\ stage[m] = "hook"
  /\ ResetLoop
  /\ Emit(m, Ev("AGENT_TURN_REQUESTED", m))
  /\ UNCHANGED <<promptVars, after, flagVars, attempt, rounds, tool, queueVars,
                 markVars, envVars>>

LlmResponds(m) ==
  /\ MacroTask /\ stage[m] \in {"llm", "stray"}
  /\ Emit(m, Ev("AGENT_MESSAGE_END", m))
  /\ UNCHANGED <<promptVars, after, flagVars, loopVars, attempt, rounds, tool,
                 queueVars, markVars, envVars>>

LlmFails(m) ==
  /\ MacroTask /\ stage[m] \in {"llm", "stray"}
  /\ Emit(m, Ev("LLM_CALL_FAILED", m))
  /\ UNCHANGED <<promptVars, after, flagVars, loopVars, attempt, rounds, tool,
                 queueVars, markVars, envVars>>

\* No chunk for streamIdleTimeoutMs: abort the call the reactor awaits.
StreamIdle(m) ==
  /\ MacroTask /\ stage[m] = "llm" /\ ~aborted
  /\ aborted' = TRUE
  /\ UNCHANGED <<promptVars, event, after, turnInFlight, abortedByUser, compacting,
                 loopVars, turnVars, queueVars, markVars, envVars>>

ToolReturns(m, t) ==
  /\ MacroTask /\ tool[m][t] = "running"
  /\ event' = IF Live THEN ToolEnd(m, t) ELSE NoEvent
  /\ tool' = IF Live THEN tool ELSE [tool EXCEPT ![m][t] = "lost"]
  /\ UNCHANGED <<promptVars, after, flagVars, loopVars, stage, attempt, rounds,
                 queueVars, markVars, envVars>>

\* A fired timer that finds the signal aborted does nothing more.
RetryFires(m) ==
  /\ MacroTask /\ stage[m] = "retry"
  /\ IF aborted
     THEN stage' = [stage EXCEPT ![m] = "done"] /\ UNCHANGED event
     ELSE Emit(m, Ev("AGENT_TURN_REQUESTED", m))
  /\ UNCHANGED <<promptVars, after, flagVars, loopVars, attempt, rounds, tool,
                 queueVars, markVars, envVars>>

\* The reactor's compaction ends or fails; the two events have one handler.
CompactionReturns ==
  /\ MacroTask /\ compacting
  /\ event' = Ev("COMPACTION_END", NoMsg)
  /\ after' = "clearCompaction"
  /\ UNCHANGED <<promptVars, flagVars, loopVars, turnVars, queueVars, markVars, envVars>>

\* A compaction no live reactor owns ends: _runIdleCompaction, or the
\* compaction of a reactor that was stopped.
BackgroundCompactionReturns(c) ==
  /\ MacroTask /\ c \in background
  /\ background' = background \ {c}
  /\ event' = IF Live THEN Ev("COMPACTION_END", NoMsg) ELSE NoEvent
  /\ phase' = IF c = "idle" /\ phase = "awaitIdle" THEN "resuming" ELSE phase
  /\ UNCHANGED <<cur, check, after, flagVars, loopVars, turnVars, queueVars,
                 markVars, envVars>>
-----------------------------------------------------------------------------
(* Microtasks *)

\* The continuation of an approval: run the tool, or report the refusal.
ApprovalDecided ==
  /\ StackEmpty
  /\ \E mt \in Decided :
       LET m == mt[1]
           t == mt[2]
           approved == tool[m][t] = "approved"
       IN /\ event' = IF ~approved /\ Live THEN ToolEnd(m, t) ELSE NoEvent
          /\ tool' = [tool EXCEPT ![m][t] = IF approved \/ Live THEN "running" ELSE "lost"]
  /\ UNCHANGED <<promptVars, after, flagVars, loopVars, stage, attempt, rounds,
                 queueVars, markVars, envVars>>

\* Mutant: the replay does not look for the USER_MESSAGE of a delivery.
UndeliveredUnlessDropped(e) == e \notin dropped

\* Mutant: the replay does not look for USER_FOLLOWUP_DROPPED.
UndeliveredUnlessConsumed(e) == ~(e.form = "followUp" /\ e.msg \in consumed)

\* Does the log say of a queued event that nobody delivered or dropped it?
Undelivered(e) == e \notin dropped /\ ~(e.form = "followUp" /\ e.msg \in consumed)

Increasing(f) == \A i, j \in DOMAIN f : i < j => f[i] < f[j]

\* prompt() goes on: create a reactor and start() it, which queues again what
\* replayFollowUpsFromLog finds.
StartReactor ==
  /\ StackEmpty /\ phase = "resuming"
  /\ phase' = "starting"
  /\ aborted' = FALSE
  /\ LET places == {i \in DOMAIN qlog : Undelivered(qlog[i])}
         n      == Cardinality(places)
     IN \E f \in [1 .. n -> places] :  \* in the order of the log
          /\ Increasing(f)
          /\ queue' = queue \o [k \in 1 .. n |-> qlog[f[k]]]
  /\ UNCHANGED <<cur, check, background, event, after, turnInFlight, abortedByUser,
                 compacting, loopVars, turnVars, qlog, consumed, dropped, starts,
                 markVars, envVars>>

\* prompt() subscribes to the completions and appends its USER_MESSAGE.
AppendPrompt ==
  /\ StackEmpty /\ phase = "starting"
  /\ phase' = "settling"
  /\ event' = Ev("USER_MESSAGE", cur)
  /\ UNCHANGED <<cur, check, background, after, flagVars, loopVars, turnVars,
                 queueVars, markVars, envVars>>

\* What _waitUntilSettled takes as a reason to go on waiting.
StillBusy ==
  queue # <<>> \/ Retrying # {} \/ compacting \/ (everCompleted /\ msgAfter)

SettledCheck ==
  /\ StackEmpty /\ check
  /\ check' = FALSE
  /\ phase' = IF StillBusy THEN phase ELSE "settled"
  /\ UNCHANGED <<cur, background, event, after, flagVars, loopVars, turnVars,
                 queueVars, markVars, envVars>>

\* prompt()'s finally block: stop() the reactor, accept prompts again.
FinishPrompt ==
  /\ StackEmpty /\ phase = "settled"
  /\ phase' = "idle" /\ cur' = NoMsg
  /\ aborted' = TRUE
  /\ compacting' = FALSE
  /\ background' = IF compacting THEN background \cup {"stray"} ELSE background
  /\ stage' = [m \in Msgs |-> IF stage[m] = "llm" THEN "stray" ELSE ClearRetries[m]]
  /\ tool' = DrainedApprovals
  /\ UNCHANGED <<check, event, after, turnInFlight, abortedByUser, loopVars, attempt,
                 rounds, queueVars, markVars, envVars>>
-----------------------------------------------------------------------------
(* Calls of the user interface *)

NewMsg == nextMsg <= MaxMsgs /\ nextMsg' = nextMsg + 1

\* prompt(), and steer() while nothing is processing
Prompt ==
  /\ UserCall /\ phase = "idle" /\ NewMsg
  /\ phase' = IF "idle" \in background THEN "awaitIdle" ELSE "resuming"
  /\ cur' = nextMsg
  /\ UNCHANGED <<check, background, event, after, flagVars, loopVars, turnVars,
                 queueVars, markVars, aborts, compacts, edits>>

\* steer() while a prompt is processing; without a reactor nobody handles it
Steer ==
  /\ UserCall /\ phase # "idle" /\ NewMsg
  /\ event' = IF Live THEN Ev("USER_INTERRUPT", nextMsg) ELSE NoEvent
  /\ UNCHANGED <<promptVars, after, flagVars, loopVars, turnVars, queueVars,
                 markVars, aborts, compacts, edits>>

FollowUp ==
  /\ UserCall /\ NewMsg
  /\ qlog' = Append(qlog, [msg |-> nextMsg, form |-> "followUp"])
  /\ event' = IF Live THEN Queued(nextMsg, "followUp") ELSE NoEvent
  /\ UNCHANGED <<promptVars, after, flagVars, loopVars, turnVars, queue, consumed,
                 dropped, starts, markVars, aborts, compacts, edits>>

Abort ==
  /\ UserCall /\ aborts < MaxAborts
  /\ aborts' = aborts + 1
  /\ Live
  /\ event' = Ev("USER_INTERRUPT", NoMsg)
  /\ after' = "interrupt"
  /\ UNCHANGED <<promptVars, flagVars, loopVars, turnVars, queueVars, markVars,
                 nextMsg, compacts, edits>>

Compact ==
  /\ UserCall /\ compacts < MaxCompacts
  /\ compacts' = compacts + 1
  /\ \/ /\ "busy" \in CompactWhen /\ Live
        /\ event' = Ev("COMPACTION_REQUESTED", NoMsg)
        /\ UNCHANGED background
     \/ /\ "idle" \in CompactWhen /\ ~Live
        /\ background' = background \cup {"idle"}
        /\ UNCHANGED event
  /\ UNCHANGED <<phase, cur, check, after, flagVars, loopVars, turnVars, queueVars,
                 markVars, nextMsg, aborts, edits>>

Decide(m, t) ==
  /\ UserCall /\ Live /\ tool[m][t] = "approval"
  /\ \E verdict \in {"approved", "rejected"} : tool' = [tool EXCEPT ![m][t] = verdict]
  /\ UNCHANGED <<promptVars, event, after, flagVars, loopVars, stage, attempt, rounds,
                 queueVars, markVars, envVars>>

\* Take one entry out of the queue, on the record.
Take(i) ==
  /\ UserCall /\ Live /\ edits < MaxEdits
  /\ edits' = edits + 1
  /\ dropped' = dropped \cup {queue[i]}
  /\ queue' = Without(queue, i)

CancelQueued ==
  /\ \E i \in DOMAIN queue : Take(i)
  /\ UNCHANGED <<promptVars, event, after, flagVars, loopVars, turnVars, qlog,
                 consumed, starts, markVars, nextMsg, aborts, compacts>>

ClearQueued ==
  /\ UserCall /\ Live /\ queue # <<>> /\ edits < MaxEdits
  /\ edits' = edits + 1
  /\ dropped' = dropped \cup {queue[i] : i \in DOMAIN queue}
  /\ queue' = <<>>
  /\ UNCHANGED <<promptVars, event, after, flagVars, loopVars, turnVars, qlog,
                 consumed, starts, markVars, nextMsg, aborts, compacts>>

\* steerQueuedFollowUp: the text comes back as a steer, to be delivered first
SteerQueued ==
  /\ \E i \in DOMAIN queue : Take(i)
  /\ NewMsg
  /\ event' = Ev("USER_INTERRUPT", nextMsg)
  /\ after' = "promote"
  /\ UNCHANGED <<promptVars, flagVars, loopVars, turnVars, qlog, consumed, starts,
                 markVars, aborts, compacts>>
-----------------------------------------------------------------------------
Init ==
  /\ phase = "idle" /\ cur = NoMsg /\ check = FALSE /\ background = {}
  /\ event = NoEvent /\ after = "none"
  /\ aborted = FALSE /\ turnInFlight = FALSE /\ abortedByUser = FALSE
  /\ compacting = FALSE
  /\ queue = <<>> /\ qlog = <<>> /\ consumed = {} /\ dropped = {}
  /\ lastSig = NoSig /\ streak = 0
  /\ stage = [m \in Msgs |-> "none"]
  /\ attempt = [m \in Msgs |-> 0] /\ rounds = [m \in Msgs |-> 0]
  /\ tool = [m \in Msgs |-> [t \in Tools |-> "none"]]
  /\ everCompleted = FALSE /\ msgAfter = FALSE
  /\ starts = [m \in Msgs |-> 0]
  /\ nextMsg = 1 /\ aborts = 0 /\ compacts = 0 /\ edits = 0

Handler ==
  \/ OnUserMessage \/ OnUserInterrupt \/ OnUserFollowupQueued
  \/ OnAgentTurnRequested \/ OnLlmCallRequested \/ OnAgentMessageEnd
  \/ OnIntentToolCall \/ OnToolExecutionEnd \/ OnToolResultsAggregated
  \/ OnLlmCallFailed \/ OnAgentTurnCompleted
  \/ OnCompactionRequested \/ OnCompactionSettled \/ AfterAppend

Microtask == StartReactor \/ AppendPrompt \/ SettledCheck \/ FinishPrompt \/ ApprovalDecided

Completion ==
  \/ \E m \in Msgs :
       \/ HookReturns(m) \/ LlmResponds(m) \/ LlmFails(m) \/ RetryFires(m)
       \/ \E t \in Tools : ToolReturns(m, t)
  \/ CompactionReturns
  \/ \E c \in {"idle", "stray"} : BackgroundCompactionReturns(c)

User ==
  \/ Prompt \/ Steer \/ FollowUp \/ Abort \/ Compact
  \/ CancelQueued \/ ClearQueued \/ SteerQueued
  \/ \E m \in Msgs, t \in Tools : Decide(m, t)

Next == Handler \/ Microtask \/ Completion \/ User \/ \E m \in Msgs : StreamIdle(m)

Spec == Init /\ [][Next]_vars

\* The event loop runs; the provider, the tools, the hook and the compaction
\* answer in the end (the stream-idle watchdog ends a call that hangs), and a
\* timer fires.  Nothing obliges the user to answer an approval.
Fairness ==
  /\ WF_vars(Handler) /\ WF_vars(Microtask)
  /\ \A m \in Msgs :
       /\ WF_vars(HookReturns(m)) /\ WF_vars(RetryFires(m))
       /\ WF_vars(LlmResponds(m) \/ LlmFails(m))
       /\ \A t \in Tools : WF_vars(ToolReturns(m, t))
  /\ WF_vars(CompactionReturns)
  /\ WF_vars(\E c \in {"idle", "stray"} : BackgroundCompactionReturns(c))

FairSpec == Spec /\ Fairness
-----------------------------------------------------------------------------
(* Properties *)

\* Two turns never run at once: a message that arrives while a turn, a retry
\* or a compaction is in flight is queued (_onUserMessage), whatever the
\* order of prompts, steers, follow-ups, aborts and replies.
OneTurnAtATime == \A m, n \in Msgs : Active(m) /\ Active(n) => m = n

\* turnInFlight, the flag every "may I start?" decision reads, covers every
\* turn there is, those of an earlier reactor included; on the call stack it
\* may be cleared before the turn that was over is replaced.
InFlightCoversTurn == \A m \in Msgs : Active(m) => turnInFlight

\* A retry timer never waits on an aborted signal: it would fire without
\* effect and leave its turn open for ever (_scheduleRetry's timer).
RetryNeverStranded == Retrying # {} /\ StackEmpty => ~aborted /\ Live

\* No message is answered by two turns, across reactors and replays.
AnsweredAtMostOnce == \A m \in Msgs : starts[m] <= 1

\* What prompt() reports: when it has returned, nothing is left in flight,
\* queued, or waiting for an approval.
SettledMeansIdle ==
  phase = "idle" /\ StackEmpty =>
    /\ ~turnInFlight /\ queue = <<>> /\ Approvals \cup Decided = {}
    /\ "stray" \notin background
    /\ \A m \in Msgs : ~Active(m)

\* A live reactor that could start a turn does not sit on a queued message.
NoStrandedFollowUp == MacroTask /\ Live /\ CanDeliver => queue = <<>>

\* A message the user entered was answered, recorded as dropped, is queued,
\* is the one the running prompt() is about to append, is on the call stack,
\* or is in the log where the next reactor finds it.
NoMessageLost ==
  \A m \in 1 .. nextMsg - 1 :
    \/ starts[m] > 0
    \/ \E e \in dropped : e.msg = m
    \/ \E i \in DOMAIN queue : queue[i].msg = m
    \/ cur = m /\ phase \in {"awaitIdle", "resuming", "starting"}
    \/ event.msg = m
    \/ ~Live /\ \E i \in DOMAIN qlog : qlog[i].msg = m /\ Undelivered(qlog[i])

\* The loop detector only stops a turn for rounds of its own: signatures of
\* earlier turns are forgotten when a turn starts.
LoopDetectedForOwnRounds ==
  event.type = "AGENT_TURN_COMPLETED" /\ event.arg = "loop_detected"
    => rounds[event.msg] >= LoopLimit

\* A message recorded as dropped is never answered afterwards: not by the
\* queue, and not by the replay of a later reactor.
DroppedStaysDropped ==
  [][\A e \in dropped : starts'[e.msg] = starts[e.msg]]_vars

\* prompt() returns, unless the user owes an answer to an approval.
PromptSettles == phase # "idle" ~> (phase = "idle" \/ Approvals # {})
=============================================================================
