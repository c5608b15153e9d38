------------------------------- MODULE TurnLog -------------------------------
(***************************************************************************)
(* Turns in the event log, and what is read back from it: the recovery of  *)
(* turns a dead process left open (crash-recovery.ts, store-setup.ts), the *)
(* context a session is given (session-projection.ts,                      *)
(* context-sanitizer.ts), and its compaction (compaction-engine.ts).       *)
(*                                                                         *)
(* An event is named by its position in the log.  One process drives the   *)
(* workspace, through one facade per thread; every append is a step, and   *)
(* the process may die between any two of them.                            *)
(***************************************************************************)
EXTENDS Integers, Sequences, FiniteSets, Functions

CONSTANTS
  NumFacades, \* the facades the process may open
  MaxCalls,   \* bound: tool calls ever made, numbered in order
  MaxLog,     \* bound: nothing but the end of a turn is appended beyond
  MaxCrashes, \* bound: deaths of the process
  MaxCuts,    \* bound: summaries, masks and deaths together
  Budgets,    \* the context budgets, in messages, a turn may be given
  None

ASSUME TurnLogAssumption ==
  /\ NumFacades \in Nat /\ MaxCalls \in Nat /\ MaxLog \in Nat /\ MaxCrashes \in Nat
  /\ MaxCuts \in Nat /\ Budgets \subseteq Nat
  /\ None \notin Nat

Facades == 1 .. NumFacades    \* facade f drives thread f
Threads == 1 .. NumFacades + 1
Calls == 1 .. MaxCalls

VARIABLES
  log,     \* the event log
  fac,     \* per facade: its turn and its compactions, all in memory
  opening, \* the facade that is being opened, or None
  plan,    \* the events its recovery still has to append
  since,   \* history: the length of the log when the process was started
  gaveUp,  \* history: the recovery of this process failed before it was done
  cont,    \* where the session of thread 1 was ended and continued in thread 2
  crashes

vars == <<log, fac, opening, plan, since, gaveUp, cont, crashes>>

------------------------------------------------------------------------------
(* Sequences.                                                              *)

\* The first n sequences of ss, one after the other.
Flat(ss, n) ==
  LET upTo[i \in 0 .. n] == IF i = 0 THEN <<>> ELSE upTo[i - 1] \o ss[i] IN upTo[n]
\* What there is of S in a sequence, in its order.
Filter(s, S) == Flat([i \in DOMAIN s |-> IF s[i] \in S THEN <<s[i]>> ELSE <<>>], Len(s))
\* What there is of S between 1 and n, in order.
InOrder(S, n) == Filter([i \in 1 .. n |-> i], S)

------------------------------------------------------------------------------
(* Events, sessions and messages.                                          *)

Ev(type, thread) ==
  [type |-> type, thread |-> thread, calls |-> {}, call |-> None, empty |-> FALSE,
   first |-> 0, covers |-> {}]
CallEv(type, thread, c) == [Ev(type, thread) EXCEPT !.call = c]
Is(p, types) == log[p].type \in types

ContextTypes == {"user", "bash", "assistant", "end", "summary", "mask"}
Types == ContextTypes \cup {"start", "completed", "jumped"}
Events ==
  [type : Types, thread : Threads, calls : SUBSET Calls, call : Calls \cup {None},
   empty : BOOLEAN, first : Nat, covers : SUBSET Nat]

\* The session of a thread: its range, and the session it continues.
Session(t) ==
  [thread |-> t,
   start  |-> IF t = 2 THEN cont ELSE 0,
   end    |-> IF t = 1 /\ cont # 0 THEN cont ELSE Len(log) + 1,
   parent |-> IF t = 2 /\ cont # 0 THEN 1 ELSE None]

\* buildContext: the events of the range that a context is made of.
Raw(s) ==
  {p \in DOMAIN log : /\ p > s.start /\ p < s.end
                      /\ log[p].thread = s.thread /\ Is(p, ContextTypes)}

\* Mutant: the first event that was to be kept is left out.
KeptAfter(P, sum) == {p \in P : p > log[sum].first}
\* What a summary leaves of the events.
KeptBy(P, sum) == {p \in P : p >= log[sum].first}

\* _applyCompactionBoundary: the last summary is the boundary, a mask is none.
Rest(P) == {p \in P : ~Is(p, {"summary", "mask"})}
Summaries(P) == {p \in P : Is(p, {"summary"})}
Latest(P) == CHOOSE p \in P : \A q \in P : q <= p
Bounded(P) ==
  IF Summaries(P) = {} THEN InOrder(Rest(P), Len(log))
  ELSE <<Latest(Summaries(P))>> \o InOrder(KeptBy(Rest(P), Latest(Summaries(P))), Len(log))

OwnEvents(t) == Bounded(Raw(Session(t)))
EventsOf(t) ==
  (IF Session(t).parent = None THEN <<>> ELSE OwnEvents(Session(t).parent)) \o OwnEvents(t)

\* eventToMessage.
Role(p) ==
  CASE Is(p, {"assistant"}) -> "assistant" [] Is(p, {"end"}) -> "result"
    [] Is(p, {"summary"}) -> "summary" [] OTHER -> "user"
Message(p) ==
  [role |-> Role(p), calls |-> log[p].calls, call |-> log[p].call, empty |-> log[p].empty]
Messages(ps) == [i \in DOMAIN ps |-> Message(ps[i])]

------------------------------------------------------------------------------
(* The sanitizer (sanitizeToolPairing).                                    *)

\* The message that owns a call is the first that makes it.
Owns(ms, i, c) == c \in ms[i].calls /\ \A j \in 1 .. i - 1 : c \notin ms[j].calls
ResultsOf(ms, i) == Filter(ms, {m \in Range(ms) : m.role = "result" /\ Owns(ms, i, m.call)})
Synthetic(c) == [role |-> "result", calls |-> {}, call |-> c, empty |-> FALSE]

\* Mutant: a call without a result is left without one.
FoundOnly(ms, i) == ResultsOf(ms, i)
\* What follows a message that makes calls: the results there are, and an error
\* for each call without one.
ResultsAfter(ms, i) ==
  LET missing == InOrder(ms[i].calls \ {r.call : r \in Range(ResultsOf(ms, i))}, MaxCalls)
  IN  ResultsOf(ms, i) \o [k \in DOMAIN missing |-> Synthetic(missing[k])]

Sanitize(ms) ==
  Flat([i \in DOMAIN ms |->
    IF ms[i].role = "result" \/ (ms[i].role = "assistant" /\ ms[i].empty) THEN <<>>
    ELSE <<ms[i]>> \o ResultsAfter(ms, i)], Len(ms))

\* _truncateByTokens: the last messages, and every summary; slice(-0) is all there is.
Truncate(ms, n) ==
  LET other == Filter(ms, {m \in Range(ms) : m.role # "summary"})
      cut == n > 0 /\ Len(other) > n
  IN  IF Len(ms) <= n THEN ms
      ELSE Filter(ms, {m \in Range(ms) : m.role = "summary"})
           \o SubSeq(other, IF cut THEN Len(other) - n + 1 ELSE 1, Len(other))

ParentContext(t) ==
  IF Session(t).parent = None THEN <<>> ELSE Sanitize(Messages(OwnEvents(Session(t).parent)))
Context(t) == Sanitize(ParentContext(t) \o Messages(OwnEvents(t)))
Budgeted(ms, n) == Sanitize(Truncate(ms, n))

------------------------------------------------------------------------------
(* Crash recovery (recoverDanglingTurnState).                              *)

Having(type, c) == {p \in DOMAIN log : log[p].type = type /\ log[p].call = c}
Unresolved(p) == {c \in log[p].calls : Is(p, {"assistant"}) /\ Having("end", c) = {}}

\* Mutant: a START is written for a call that has one.
CompensateAgain(p, c) ==
  <<CallEv("start", log[p].thread, c), CallEv("end", log[p].thread, c)>>
\* A call without an END gets one, and a START if it has none.
Compensate(p, c) ==
  (IF Having("start", c) # {} THEN <<>> ELSE <<CallEv("start", log[p].thread, c)>>)
  \o <<CallEv("end", log[p].thread, c)>>

Dangling == {p \in DOMAIN log : Unresolved(p) # {}}

\* The threads whose last dangling message no completion follows.
Interrupted ==
  {t \in {log[p].thread : p \in Dangling} :
     \A q \in DOMAIN log : Is(q, {"completed"}) /\ log[q].thread = t =>
       \E p \in Dangling : log[p].thread = t /\ p > q}

Compensations ==
  Flat([p \in DOMAIN log |->
    Flat([c \in Calls |-> IF c \in Unresolved(p) THEN Compensate(p, c) ELSE <<>>], MaxCalls)],
    Len(log))
RecoveryPlan ==
  LET ts == InOrder(Interrupted, NumFacades + 1)
  IN  Compensations \o [i \in DOMAIN ts |-> Ev("completed", ts[i])]

------------------------------------------------------------------------------
(* The process.                                                            *)

\* comp is the compaction of the reactor, or that of an idle runtime; stray is that of a
\* reactor that was stopped.
Closed ==
  [open |-> FALSE, ph |-> "idle", wait |-> {}, begun |-> {}, stop |-> FALSE,
   comp |-> None, stray |-> None]
Open == {f \in Facades : fac[f].open}
\* The thread a facade works in: the continuation, once there is one.
Thread(f) == IF f = 1 /\ cont # 0 THEN 2 ELSE f

Free == opening = None
Room == Len(log) < MaxLog
Emit(e) == log' = Append(log, e)
Turn(f, ph) == fac' = [fac EXCEPT ![f].ph = ph]
Quiet == UNCHANGED <<opening, plan, since, gaveUp, cont, crashes>>
FreshCalls == {c \in Calls : \A p \in DOMAIN log : c \notin log[p].calls}

\* The boundaries that were made, or are being made.
Cuts ==
  Cardinality({p \in DOMAIN log : Is(p, {"summary", "mask"})})
  + Cardinality({f \in Facades : fac[f].comp # None})
  + Cardinality({f \in Facades : fac[f].stray # None})

\* setupEventStore: the lock is granted, to a process that holds it as well, and
\* the recovery is planned from the log at once.
OpenFacade(f) ==
  /\ Free /\ ~fac[f].open
  /\ opening' = f /\ plan' = RecoveryPlan
  /\ since' = IF Open = {} THEN Len(log) ELSE since
  /\ gaveUp' = (Open # {} /\ gaveUp)
  /\ UNCHANGED <<log, fac, cont, crashes>>
RecoverStep ==
  /\ plan # <<>>
  /\ Emit(Head(plan)) /\ plan' = Tail(plan)
  /\ UNCHANGED <<fac, opening, since, gaveUp, cont, crashes>>
\* A scan or an append that throws is caught: the facade opens all the same.
RecoveryFails ==
  /\ plan # <<>>
  /\ plan' = <<>> /\ gaveUp' = TRUE
  /\ UNCHANGED <<log, fac, opening, since, cont, crashes>>
Opened ==
  /\ ~Free /\ plan = <<>>
  /\ fac' = [fac EXCEPT ![opening] = [Closed EXCEPT !.open = TRUE]]
  /\ opening' = None
  /\ UNCHANGED <<log, plan, since, gaveUp, cont, crashes>>

Crash ==
  /\ crashes < MaxCrashes /\ Cuts + crashes < MaxCuts /\ (Open # {} \/ ~Free)
  /\ crashes' = crashes + 1
  /\ fac' = [f \in Facades |-> Closed]
  /\ opening' = None /\ plan' = <<>>
  /\ UNCHANGED <<log, since, gaveUp, cont>>

\* A prompt starts a turn when none runs and no compaction is waited for: prompt()
\* waits for an idle one, and has not settled while its reactor's runs.
Prompt(f) ==
  /\ Free /\ fac[f].open /\ fac[f].ph = "idle" /\ fac[f].comp = None /\ Room
  /\ Emit(Ev("user", Thread(f)))
  /\ fac' = [fac EXCEPT ![f].ph = "asking", ![f].stop = FALSE]
  /\ Quiet

\* _handleLlmResponse: the answer makes calls, or none; a failed call leaves an
\* answer without content.
Respond(f) ==
  /\ Free /\ fac[f].ph = "asking" /\ Room
  /\ \/ \E last \in 0 .. MaxCalls :
          LET calls == {c \in FreshCalls : c <= last}
          IN  /\ Emit([Ev("assistant", Thread(f)) EXCEPT !.calls = calls])
              /\ fac' = [fac EXCEPT ![f].ph = "answered", ![f].wait = calls]
     \/ /\ Emit([Ev("assistant", Thread(f)) EXCEPT !.empty = TRUE])
        /\ Turn(f, "ending")
  /\ Quiet

\* _onAgentMessageEnd: after an abort the calls of the answer are never started.
Dispatch(f) ==
  /\ Free /\ fac[f].ph = "answered"
  /\ fac' = IF fac[f].wait = {} \/ fac[f].stop
            THEN [fac EXCEPT ![f].ph = "ending", ![f].wait = {}]
            ELSE [fac EXCEPT ![f].ph = "tools", ![f].begun = {}]
  /\ UNCHANGED log /\ Quiet

\* _executeTool: the calls of an answer run side by side.
StartTool(f, c) ==
  /\ Free /\ fac[f].ph = "tools" /\ c \in fac[f].wait \ fac[f].begun
  /\ Emit(CallEv("start", Thread(f), c))
  /\ fac' = [fac EXCEPT ![f].begun = @ \cup {c}]
  /\ Quiet
\* _onToolExecutionEnd and _onToolResultsAggregated: the last result asks again.
EndTool(f, c) ==
  /\ Free /\ fac[f].ph = "tools" /\ c \in fac[f].wait \cap fac[f].begun
  /\ Emit(CallEv("end", Thread(f), c))
  /\ fac' = [fac EXCEPT ![f].wait = @ \ {c},
                        ![f].ph = IF fac[f].wait # {c} THEN @
                                  ELSE IF fac[f].stop THEN "ending" ELSE "asking"]
  /\ Quiet
EndTurn(f) ==
  /\ Free /\ fac[f].ph = "ending"
  /\ Emit(Ev("completed", Thread(f)))
  /\ Turn(f, "idle")
  /\ Quiet

\* interrupt(): the call of the model ends at once, the tools are waited for.
Abort(f) ==
  /\ Free /\ fac[f].ph \in {"asking", "answered", "tools"} /\ ~fac[f].stop
  /\ fac' = [fac EXCEPT ![f].stop = TRUE, ![f].ph = IF @ = "asking" THEN "ending" ELSE @]
  /\ UNCHANGED log /\ Quiet

\* A shell command of the user is logged whatever the turn is doing.
Bash(f) ==
  /\ Free /\ fac[f].open /\ Room
  /\ Emit(Ev("bash", Thread(f)))
  /\ UNCHANGED fac /\ Quiet

\* The user leaves the session and writes in it again: it is continued.  Leaving waits
\* for the runtime to be idle (waitForSessionStructureIdle).
Continue(f) ==
  /\ Free /\ f = 1 /\ fac[f].open /\ fac[f].ph = "idle" /\ fac[f].comp = None
  /\ cont = 0 /\ Len(log) > 0 /\ NumFacades = 1 /\ Room
  /\ Emit(Ev("jumped", 1))
  /\ cont' = Len(log) + 1
  /\ UNCHANGED <<fac, opening, plan, since, gaveUp, crashes>>

------------------------------------------------------------------------------
(* Compaction.                                                             *)

\* The events after the last summary of the context may be compacted.
Compactable(f) ==
  LET es == EventsOf(Thread(f))
      last == Latest({0} \cup {i \in DOMAIN es : Is(es[i], {"summary"})})
  IN  SubSeq(es, last + 1, Len(es))

\* The events a summary is made of: those before the cut, and what the last
\* summary was made of.
Summarized(ps, i) == {ps[j] : j \in 1 .. i - 1}
Earlier(f) == UNION {log[p].covers : p \in Summaries(Range(EventsOf(Thread(f))))}

\* compact: the cut is at a message of the user; a mask may end anywhere.  A live
\* reactor compacts in the middle of a turn, an idle runtime outside of one; the turn
\* goes on while the summary is awaited.
StartCompaction(f) ==
  LET ps == Compactable(f)
  IN  /\ Free /\ fac[f].open /\ fac[f].comp = None /\ Room /\ Cuts + crashes < MaxCuts
      /\ Len(ps) >= 2
      /\ \E i \in 2 .. Len(ps) :
           \/ /\ Is(ps[i], {"user", "bash"})
              /\ fac' = [fac EXCEPT ![f].comp =
                   [Ev("summary", Thread(f)) EXCEPT
                      !.first = ps[i], !.covers = Summarized(ps, i) \cup Earlier(f)]]
           \/ /\ \E j \in 1 .. i - 1 : Is(ps[j], {"end"})
              /\ fac' = [fac EXCEPT ![f].comp =
                   [Ev("mask", Thread(f)) EXCEPT !.first = ps[1]]]
      /\ UNCHANGED log /\ Quiet
\* An append is stamped with the thread the facade is in by then.
Stamped(f, e) == [e EXCEPT !.thread = Thread(f)]
EndCompaction(f) ==
  /\ Free /\ fac[f].comp # None
  /\ Emit(Stamped(f, fac[f].comp))
  /\ fac' = [fac EXCEPT ![f].comp = None]
  /\ Quiet
\* COMPACTION_ABORTED leaves no boundary in the log.
AbortCompaction(f) ==
  /\ Free /\ fac[f].comp # None
  /\ fac' = [fac EXCEPT ![f].comp = None]
  /\ UNCHANGED log /\ Quiet

\* prompt() returns and stops its reactor.  A compaction asked for once it had settled
\* goes on, and nothing waits for it any more (FinishPrompt of TurnReactor); bound: one
\* at a time is left behind.
StopReactor(f) ==
  /\ Free /\ fac[f].ph = "idle" /\ fac[f].comp # None /\ fac[f].stray = None
  /\ fac' = [fac EXCEPT ![f].stray = fac[f].comp, ![f].comp = None]
  /\ UNCHANGED log /\ Quiet
EndStray(f) ==
  /\ Free /\ fac[f].stray # None
  /\ Emit(Stamped(f, fac[f].stray))
  /\ fac' = [fac EXCEPT ![f].stray = None]
  /\ Quiet
AbortStray(f) ==
  /\ Free /\ fac[f].stray # None
  /\ fac' = [fac EXCEPT ![f].stray = None]
  /\ UNCHANGED log /\ Quiet

------------------------------------------------------------------------------

Init ==
  /\ log = <<>>
  /\ fac = [f \in Facades |-> Closed]
  /\ opening = None /\ plan = <<>>
  /\ since = 0 /\ gaveUp = FALSE /\ cont = 0 /\ crashes = 0

Next ==
  \/ RecoverStep \/ RecoveryFails \/ Opened \/ Crash
  \/ \E f \in Facades :
       \/ OpenFacade(f) \/ Prompt(f) \/ Respond(f) \/ Dispatch(f) \/ EndTurn(f)
       \/ Abort(f) \/ Bash(f) \/ Continue(f)
       \/ StartCompaction(f) \/ EndCompaction(f) \/ AbortCompaction(f)
       \/ StopReactor(f) \/ EndStray(f) \/ AbortStray(f)
       \/ \E c \in Calls : StartTool(f, c) \/ EndTool(f, c)

Spec == Init /\ [][Next]_vars

------------------------------------------------------------------------------
(* Properties.                                                             *)

Facade ==
  [open : BOOLEAN, ph : {"idle", "asking", "answered", "tools", "ending"},
   wait : SUBSET Calls, begun : SUBSET Calls, stop : BOOLEAN,
   comp : Events \cup {None}, stray : Events \cup {None}]

TypeOK ==
  /\ log \in Seq(Events) /\ plan \in Seq(Events)
  /\ fac \in [Facades -> Facade]
  /\ opening \in Facades \cup {None}
  /\ since \in 0 .. Len(log) /\ cont \in 0 .. Len(log) /\ crashes \in Nat /\ gaveUp \in BOOLEAN

\* A message that makes calls is followed by one result of each of them, there is
\* no other result, and no message is empty: what strict providers demand.
Answered(ms, i) ==
  LET n == Cardinality(ms[i].calls)
  IN  /\ i + n <= Len(ms)
      /\ \A j \in i + 1 .. i + n : ms[j].role = "result"
      /\ {ms[j].call : j \in i + 1 .. i + n} = ms[i].calls
      /\ i + n + 1 \in DOMAIN ms => ms[i + n + 1].role # "result"
WellFormed(ms) ==
  \A i \in DOMAIN ms :
    /\ ms[i].role = "assistant" => ~ms[i].empty /\ Answered(ms, i)
    /\ ms[i].role = "result" => i > 1 /\ ms[i - 1].role \in {"assistant", "result"}

\* The context of every session is well formed at any moment, in the middle of a
\* turn, after a crash and under every budget, whatever the log contains
\* (context-sanitizer.ts).
ContextWellFormed ==
  \A t \in Facades \cup {Thread(f) : f \in Facades} :
    LET ms == Context(t)
    IN  WellFormed(ms) /\ \A n \in Budgets : WellFormed(Budgeted(ms, n))

\* The calls that were made before the process was started are told of.
LeftBehindIsPaired ==
  \A p \in 1 .. since : \A c \in log[p].calls : Having("start", c) # {} /\ Having("end", c) # {}

\* Every call has at most one START and one END; and once a facade is open, and the
\* recovery before it did not fail, each call any earlier process left behind has both,
\* however often the recovery of it was itself cut short or failed (crash-recovery.ts).
CallsArePaired ==
  /\ \A p, q \in DOMAIN log : Is(p, {"start", "end"}) /\ log[p].type = log[q].type
                              /\ log[p].call = log[q].call => p = q
  /\ Open # {} /\ Free /\ ~gaveUp => LeftBehindIsPaired

\* Not so (README): a facade that is open works on a log that was repaired
\* (store-setup.ts, "Compensate turn state left dangling").
OpenMeansRepaired == Open # {} /\ Free => LeftBehindIsPaired

\* Every event of a session, and of the one it continues, is among those its
\* context is made of or among those the summary in force was made of: no cut, no
\* mask, and nothing that a turn, a command or another compaction logged while a
\* summary was being written, leaves one out (session-projection.ts,
\* compaction-engine.ts).
NothingForgotten ==
  \A f \in Facades :
    LET s == Session(Thread(f))
        shown   == Range(EventsOf(Thread(f)))
        covered == UNION {log[p].covers : p \in Summaries(shown)}
        all     == Rest(Raw(s) \cup (IF s.parent = None THEN {} ELSE Raw(Session(s.parent))))
    IN  all \subseteq shown \cup covered

\* Not so (README): a turn that a crash has cut short is closed by the recovery
\* (crash-recovery.ts, the missing AGENT_TURN_COMPLETED).
InterruptedTurnsAreClosed ==
  Open # {} /\ Free =>
    \A p \in 1 .. since : Is(p, {"user"}) =>
      \E q \in p + 1 .. Len(log) : Is(q, {"completed"}) /\ log[q].thread = log[p].thread

\* Not so (README): what a summary was made of is no longer sent with it
\* (compaction-engine.ts, "projections can ignore the summarized prefix").
SummarizedIsGone ==
  \A f \in Facades :
    LET shown == Range(EventsOf(Thread(f)))
    IN  \A p \in shown : Is(p, {"summary"}) => log[p].covers \cap shown = {}
=============================================================================
