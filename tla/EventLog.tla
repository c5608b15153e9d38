------------------------------ MODULE EventLog ------------------------------
(***************************************************************************)
(* The event store (event-store/sqlite-store.ts): processes append to one  *)
(* SQLite table, each with a sequence allocated inside a write transaction *)
(* of its own, and tell their own subscribers, synchronously, after the    *)
(* commit.  A handler may append again, subscribe and unsubscribe while it *)
(* is being told; what it appends is told before the others have heard of  *)
(* its cause.                                                              *)
(*                                                                         *)
(* SQLite is modelled by what the store relies on: a write lock, a         *)
(* transaction that commits at once or not at all, the two unique indexes. *)
(***************************************************************************)
EXTENDS Naturals, Sequences, FiniteSets

CONSTANTS
  Procs,     \* the processes with the workspace open
  Keys,      \* idempotency keys
  NoKey,     \* an event without one
  None,      \* nobody, nothing
  MaxEvents, \* bound: events ever handed to the store
  MaxSubs,   \* bound, per process: subscriptions it makes in one life
  MaxTries,  \* MAX_LOCK_RETRY_ATTEMPTS
  MaxFaults  \* bound: crashes and failing writes

ASSUME EventLogAssumption ==
  /\ None \notin Procs \cup Nat /\ NoKey \notin Keys
  /\ MaxEvents \in Nat /\ MaxSubs \in [Procs -> Nat] /\ MaxTries \in Nat /\ MaxFaults \in Nat

VARIABLES
  db,     \* the table: events by their sequence
  lock,   \* the process in a write transaction, or None
  next,   \* per process: _nextSequence
  call,   \* per process: the append under way, up to its commit
  stack,  \* per process: the events being told, innermost last
  subs,   \* per process: the live subscriptions
  nsubs,  \* per process: nextSubId
  told,   \* history, per process and id: who has heard it
  owed,   \* history, per process and id: who was subscribed when it was told
  ids,    \* events handed to the store so far
  twice,  \* history: a subscriber was told an event it had heard
  clash,  \* history: an insert failed on a sequence that was taken
  faults

vars == <<db, lock, next, call, stack, subs, nsubs, told, owed, twice, ids, clash, faults>>
tellVars == <<stack, subs, nsubs, told, owed, twice>>

Ids    == 1 .. MaxEvents
Events == [id : Ids, key : Keys \cup {NoKey}, by : Procs]

Call(phase, es, batch) ==
  [ph |-> phase, es |-> es, seq |-> 0, tries |-> 0, batch |-> batch]
NoCall == Call("none", <<>>, FALSE)

------------------------------------------------------------------------------
(* Calling the store.                                                      *)

\* Code runs in a process when no append is under way, and, if an event is being
\* told, inside the handler of a subscriber.
Frame(p)   == stack[p][Len(stack[p])]
Running(p) == call[p].ph = "none" /\ (stack[p] # <<>> => Frame(p).cur # None)

Event(p, k, n) == [id |-> ids + n, key |-> k, by |-> p]

\* append: a keyed one looks its key up first, outside the transaction.
AppendOne(p, k) ==
  /\ Running(p) /\ ids < MaxEvents
  /\ ids' = ids + 1
  /\ call' = [call EXCEPT ![p] =
       Call(IF k = NoKey THEN "begin" ELSE "lookup", <<Event(p, k, 1)>>, FALSE)]
  /\ UNCHANGED <<db, lock, next, tellVars, clash, faults>>
AppendBatch(p, k, l) ==
  /\ Running(p) /\ ids + 2 <= MaxEvents
  /\ ids' = ids + 2
  /\ call' = [call EXCEPT ![p] =
       Call("begin", <<Event(p, k, 1), Event(p, l, 2)>>, TRUE)]
  /\ UNCHANGED <<db, lock, next, tellVars, clash, faults>>

\* Telling an event (_notify): a frame per append, gone through in the order of
\* the subscriptions.
\* The histories start anew with each outermost append.
Nobody == [i \in Ids |-> {}]
Tell(p, es) ==
  LET before == IF stack[p] = <<>> THEN Nobody ELSE owed[p]
  IN  /\ stack' = [stack EXCEPT ![p] = Append(@, [es |-> es, cur |-> None, last |-> 0])]
      /\ told' = IF stack[p] = <<>> THEN [told EXCEPT ![p] = Nobody] ELSE told
      /\ owed' = [owed EXCEPT ![p] =
           [i \in Ids |-> IF \E n \in DOMAIN es : es[n].id = i THEN subs[p] ELSE before[i]]]

\* AGENT_MESSAGE_CHUNK: told, never stored, and no sequence is taken.
AppendChunk(p) ==
  /\ Running(p) /\ ids < MaxEvents
  /\ ids' = ids + 1
  /\ Tell(p, <<Event(p, NoKey, 1)>>)
  /\ UNCHANGED <<db, lock, next, call, subs, nsubs, twice, clash, faults>>

------------------------------------------------------------------------------
(* The transaction.                                                        *)

Returns(p) == call' = [call EXCEPT ![p] = NoCall]
\* Mutant: the unique index on the keys is missing.
NoKeyIndex(k) == FALSE
\* An event with this key is in the table.
Stored(k) == k # NoKey /\ \E i \in DOMAIN db : db[i].key = k

\* _getByIdempotencyKey: the stored event is returned, and nobody is told.
Lookup(p) ==
  /\ call[p].ph = "lookup"
  /\ IF Stored(call[p].es[1].key) THEN Returns(p)
     ELSE call' = [call EXCEPT ![p].ph = "begin"]
  /\ UNCHANGED <<db, lock, next, tellVars, ids, clash, faults>>

\* Mutant: the next sequence is the one this process has counted itself.
Counted(p) == next[p]
\* _dbMaxSequence() + 1, read inside the transaction.
NextFree(p) == Len(db) + 1

\* begin immediate.
Begin(p) ==
  /\ call[p].ph = "begin" /\ lock = None
  /\ lock' = p
  /\ call' = [call EXCEPT ![p].ph = "insert", ![p].seq = NextFree(p)]
  /\ UNCHANGED <<db, next, tellVars, ids, clash, faults>>
\* SQLITE_BUSY: tried again after a pause, in the end thrown.
Busy(p) ==
  /\ call[p].ph = "begin" /\ lock # None
  /\ IF call[p].tries < MaxTries THEN call' = [call EXCEPT ![p].tries = @ + 1] ELSE Returns(p)
  /\ UNCHANGED <<db, lock, next, tellVars, ids, clash, faults>>

\* What is inserted: a batch leaves out the events whose keys are stored.
NotStored(es) ==
  LET kept   == {n \in DOMAIN es : ~Stored(es[n].key)}
      Nth(i) == CHOOSE n \in kept : Cardinality({m \in kept : m <= n}) = i
  IN  [i \in 1 .. Cardinality(kept) |-> es[Nth(i)]]
New(p) == IF call[p].batch THEN NotStored(call[p].es) ELSE call[p].es
Slots(p) == call[p].seq .. call[p].seq + Len(New(p)) - 1
\* The unique indexes: on the key and on the sequence.
KeyTaken(p) ==
  \/ \E n \in DOMAIN New(p) : Stored(New(p)[n].key)
  \/ \E n, m \in DOMAIN New(p) : n # m /\ New(p)[n].key = New(p)[m].key /\ New(p)[n].key # NoKey
SeqTaken(p) == Slots(p) \cap DOMAIN db # {}

\* The insert and the commit; _nextSequence follows.
Commit(p) ==
  /\ call[p].ph = "insert" /\ ~KeyTaken(p) /\ ~SeqTaken(p)
  /\ db' = [i \in DOMAIN db \cup Slots(p) |->
              IF i \in DOMAIN db THEN db[i] ELSE New(p)[i - call[p].seq + 1]]
  /\ lock' = None
  /\ next' = [next EXCEPT ![p] = call[p].seq + Len(New(p))]
  /\ Returns(p)
  /\ Tell(p, New(p))
  /\ UNCHANGED <<subs, nsubs, twice, ids, clash, faults>>
\* Any other error is thrown after the rollback; _normalizeEvent has moved the
\* counter on by then.
Rollback(p) ==
  /\ lock' = None
  /\ next' = [next EXCEPT ![p] = IF call[p].seq + Len(New(p)) > @
                                 THEN call[p].seq + Len(New(p)) ELSE @]
  /\ Returns(p)
  /\ UNCHANGED <<db, tellVars, ids>>
Constraint(p) ==
  /\ call[p].ph = "insert" /\ (KeyTaken(p) \/ SeqTaken(p))
  /\ clash' = (clash \/ SeqTaken(p))
  /\ Rollback(p) /\ UNCHANGED faults
WriteFails(p) ==
  /\ call[p].ph = "insert" /\ faults < MaxFaults
  /\ faults' = faults + 1
  /\ Rollback(p) /\ UNCHANGED clash

------------------------------------------------------------------------------
(* The subscribers.                                                        *)

InHandler(p) == stack[p] # <<>> /\ Frame(p).cur # None
Telling(p)   == call[p].ph = "none" /\ stack[p] # <<>> /\ Frame(p).cur = None
SetFrame(p, f) == stack' = [stack EXCEPT ![p] = [@ EXCEPT ![Len(@)] = f]]

\* Mutant: the subscriber that was told last is told again.
LastAgain(p) == {s \in subs[p] : s + 1 >= Frame(p).last}
\* A Map is gone through in the order of insertion: those added meanwhile are
\* visited too, those deleted are not.
Left(p) == {s \in subs[p] : s + 1 > Frame(p).last}

Handle(p) ==
  LET s == CHOOSE r \in Left(p) : \A q \in Left(p) : r <= q
  IN  /\ Telling(p) /\ Frame(p).es # <<>> /\ Left(p) # {}
      /\ told' = [told EXCEPT ![p][Frame(p).es[1].id] = @ \cup {s}]
      /\ twice' = (twice \/ s \in told[p][Frame(p).es[1].id])
      /\ SetFrame(p, [Frame(p) EXCEPT !.cur = s])
      /\ UNCHANGED <<db, lock, next, call, subs, nsubs, owed, ids, clash, faults>>
\* The handler returns or throws; the others hear the event either way.
HandlerReturns(p) ==
  /\ call[p].ph = "none" /\ InHandler(p)
  /\ SetFrame(p, [Frame(p) EXCEPT !.cur = None, !.last = Frame(p).cur + 1])
  /\ UNCHANGED <<db, lock, next, call, subs, nsubs, told, owed, twice, ids, clash, faults>>
NextEvent(p) ==
  /\ Telling(p) /\ (Frame(p).es # <<>> => Left(p) = {})
  /\ IF Len(Frame(p).es) <= 1 THEN stack' = [stack EXCEPT ![p] = SubSeq(@, 1, Len(@) - 1)]
     ELSE SetFrame(p, [Frame(p) EXCEPT !.es = Tail(@), !.last = 0])
  /\ UNCHANGED <<db, lock, next, call, subs, nsubs, told, owed, twice, ids, clash, faults>>

Subscribe(p) ==
  /\ Running(p) /\ nsubs[p] < MaxSubs[p]
  /\ subs' = [subs EXCEPT ![p] = @ \cup {nsubs[p]}]
  /\ nsubs' = [nsubs EXCEPT ![p] = @ + 1]
  /\ UNCHANGED <<db, lock, next, call, stack, told, owed, twice, ids, clash, faults>>
Unsubscribe(p) ==
  /\ Running(p)
  /\ \E s \in subs[p] :
       /\ subs' = [subs EXCEPT ![p] = @ \ {s}]
       /\ owed' = [owed EXCEPT ![p] = [i \in Ids |-> owed[p][i] \ {s}]]
  /\ UNCHANGED <<db, lock, next, call, stack, nsubs, told, twice, ids, clash, faults>>

\* The process dies and is started again: an open transaction is gone, so are the
\* subscriptions; the counter is read from the table.
Restart(p) ==
  /\ faults < MaxFaults
  /\ faults' = faults + 1
  /\ lock' = IF lock = p THEN None ELSE lock
  /\ Returns(p)
  /\ next' = [next EXCEPT ![p] = Len(db) + 1]
  /\ stack' = [stack EXCEPT ![p] = <<>>]
  /\ subs' = [subs EXCEPT ![p] = {}]
  /\ nsubs' = [nsubs EXCEPT ![p] = 0]
  /\ told' = [told EXCEPT ![p] = Nobody] /\ owed' = [owed EXCEPT ![p] = Nobody]
  /\ UNCHANGED <<db, twice, ids, clash>>

------------------------------------------------------------------------------

Init ==
  /\ db = <<>> /\ lock = None
  /\ next = [p \in Procs |-> 1]
  /\ call = [p \in Procs |-> NoCall]
  /\ stack = [p \in Procs |-> <<>>]
  /\ subs = [p \in Procs |-> {}] /\ nsubs = [p \in Procs |-> 0]
  /\ told = [p \in Procs |-> Nobody] /\ owed = [p \in Procs |-> Nobody]
  /\ twice = FALSE /\ ids = 0 /\ clash = FALSE /\ faults = 0

Step(p) ==
  \/ \E k \in Keys \cup {NoKey} : AppendOne(p, k)
  \/ \E k, l \in Keys \cup {NoKey} : AppendBatch(p, k, l)
  \/ AppendChunk(p)
  \/ Lookup(p) \/ Begin(p) \/ Busy(p) \/ Commit(p) \/ Constraint(p) \/ WriteFails(p)
  \/ Handle(p) \/ HandlerReturns(p) \/ NextEvent(p)
  \/ Subscribe(p) \/ Unsubscribe(p) \/ Restart(p)

Next == \E p \in Procs : Step(p)
Spec == Init /\ [][Next]_vars

------------------------------------------------------------------------------
(* Properties.                                                             *)

TypeOK ==
  /\ db \in Seq(Events) /\ lock \in Procs \cup {None} /\ next \in [Procs -> Nat]
  /\ subs \in [Procs -> SUBSET Nat]

\* The store is an append-only log to all its processes together, whatever races,
\* failed writes and restarts there are (event-store/store.ts).
Log == INSTANCE AppendOnlyLog WITH log <- db
IsAppendOnlyLog == Log!Spec

\* An auto-assigned sequence is never taken (sqlite-store.ts, _appendAutoSequence).
NeverCollides == ~clash

\* When a process has told all it had to tell, each subscriber that stayed has
\* heard each of the events of its process that were appended since it came once:
\* none twice through nested appends, and none that was rolled back.
ToldOnce ==
  /\ ~twice
  /\ \A p \in Procs : stack[p] = <<>> => \A i \in Ids : owed[p][i] \subseteq told[p][i]

\* Not so (README): the head a process reports is in the log; after a failed write
\* it is one ahead, and a snapshot saved then is marked with it.
HeadIsStored == \A p \in Procs : call[p].ph = "none" => next[p] - 1 <= Len(db)
=============================================================================
