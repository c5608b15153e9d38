--------------------------- MODULE EventLogProofs ---------------------------
(***************************************************************************)
(* The event store implements the append-only log, and tells each event    *)
(* once, for any number of processes, events, subscribers and faults.      *)
(*                                                                         *)
(* The log (LogInv): who is about to insert holds the write lock, so that  *)
(* the sequence it has read is still the next one.                         *)
(*                                                                         *)
(* The telling (ToldInv): an event is in one frame of one process, and who *)
(* has heard it are the subscriptions before the frame's place, who is     *)
(* still owed it those behind; what is on its way to the table nobody has  *)
(* heard, and what is in no frame any more nobody is owed.                 *)
(***************************************************************************)
EXTENDS EventLog, FiniteSetTheorems, WellFoundedInduction, TLAPS

AnyEvent == [id : Nat, key : Keys \cup {NoKey}, by : Procs]
AnyCall  == [ph : {"none", "lookup", "begin", "insert"}, es : Seq(AnyEvent),
             seq : Nat, tries : Nat, batch : BOOLEAN]

IsLog  == Len(db) \in Nat /\ db = [i \in 1 .. Len(db) |-> db[i]]
Types  == ids \in Nat /\ clash \in BOOLEAN /\ call \in [Procs -> AnyCall]
\* An insert is under way in the process that holds the lock, at the next sequence.
Holds  == \A p \in Procs : call[p].ph = "insert" => lock = p /\ call[p].seq = Len(db) + 1
LogInv == Types /\ IsLog /\ Holds /\ Log!OncePerKey(db) /\ NeverCollides

------------------------------------------------------------------------------
(* What an insert writes.                                                  *)

\* What is inserted has a length: the events of a batch that are kept are finitely many.
LEMMA NewIsFinite ==
  ASSUME Types, NEW p \in Procs
  PROVE  Len(New(p)) \in Nat /\ DOMAIN New(p) = 1 .. Len(New(p))
<1> DEFINE es == call[p].es
           kept == {n \in DOMAIN es : ~Stored(es[n].key)}
<1>1. es \in Seq(AnyEvent)
  BY DEF Types, AnyCall
<1>2. CASE call[p].batch
  <2>1. DOMAIN es = 1 .. Len(es) /\ Len(es) \in Nat
    BY <1>1
  <2>2. IsFiniteSet(1 .. Len(es))
    BY <2>1, FS_Interval
  <2>3. IsFiniteSet(kept)
    BY <2>1, <2>2, FS_Subset
  <2>4. Cardinality(kept) \in Nat
    BY <2>3, FS_CardinalityType
  <2> HIDE DEF kept
  <2>5. DOMAIN New(p) = 1 .. Cardinality(kept)
    BY <1>2 DEF New, NotStored, kept
  <2> QED BY <2>4, <2>5
<1>3. CASE ~call[p].batch
  BY <1>1, <1>3 DEF New
<1> QED BY <1>2, <1>3

\* The slots of an insert are the next ones of the log.
LEMMA SlotsAreNext ==
  ASSUME Types, IsLog, Holds, NEW p \in Procs, call[p].ph = "insert"
  PROVE  /\ Slots(p) = Len(db) + 1 .. Len(db) + Len(New(p))
         /\ Slots(p) \cap DOMAIN db = {}
<1>1. Len(New(p)) \in Nat
  BY NewIsFinite
<1>2. call[p].seq = Len(db) + 1
  BY DEF Holds
<1> QED BY <1>1, <1>2 DEF Slots, IsLog

\* A commit leaves a log, of the same events and the new ones behind them.
LEMMA CommitGrows ==
  ASSUME LogInv, NEW p \in Procs, Commit(p)
  PROVE  /\ IsLog' /\ Log!OncePerKey(db)'
         /\ Len(db') = Len(db) + Len(New(p))
         /\ \A i \in 1 .. Len(db) : db'[i] = db[i]
         /\ Len(New(p)) = 0 => db' = db
<1> DEFINE old == Len(db)
           new == New(p)
           n   == Len(db) + Len(New(p))
           at(i) == IF i \in 1 .. old THEN db[i] ELSE new[i - old]
<1>1. old \in Nat /\ Len(new) \in Nat /\ DOMAIN new = 1 .. Len(new) /\ n \in Nat
  BY NewIsFinite DEF LogInv, IsLog
<1>2. DOMAIN db = 1 .. old
  BY DEF LogInv, IsLog
<1>3. call[p].seq = old + 1 /\ Slots(p) = old + 1 .. n
  BY SlotsAreNext DEF LogInv, Holds, Commit
<1>4. DOMAIN db \cup Slots(p) = 1 .. n
  BY <1>1, <1>2, <1>3
<1>5. db' = [i \in 1 .. n |-> IF i \in 1 .. old THEN db[i] ELSE new[i - call[p].seq + 1]]
  BY <1>2, <1>4 DEF Commit
<1>6. \A i \in 1 .. n : db'[i] = at(i)
  BY <1>1, <1>3, <1>5
<1>7. Len(db') = n /\ DOMAIN db' = 1 .. n
  BY <1>1, <1>5
<1>8. IsLog'
  BY <1>1, <1>5, <1>7 DEF IsLog
<1>9. ASSUME NEW i \in 1 .. n, NEW j \in 1 .. n, db'[i].key = db'[j].key, db'[i].key # NoKey
      PROVE  i = j
  <2>1. CASE i \in 1 .. old /\ j \in 1 .. old
    BY <1>2, <1>6, <1>9, <2>1 DEF LogInv, Log!OncePerKey
  <2>2. CASE i \in 1 .. old /\ j \notin 1 .. old
    <3>1. j - old \in DOMAIN new /\ i \in DOMAIN db
      BY <1>1, <1>2, <2>2
    <3>2. Stored(new[j - old].key)
      BY <1>6, <1>9, <2>2, <3>1 DEF Stored
    <3> QED BY <3>1, <3>2 DEF Commit, KeyTaken
  <2>3. CASE i \notin 1 .. old /\ j \in 1 .. old
    <3>1. i - old \in DOMAIN new /\ j \in DOMAIN db
      BY <1>1, <1>2, <2>3
    <3>2. Stored(new[i - old].key)
      BY <1>6, <1>9, <2>3, <3>1 DEF Stored
    <3> QED BY <3>1, <3>2 DEF Commit, KeyTaken
  <2>4. CASE i \notin 1 .. old /\ j \notin 1 .. old
    <3>1. i - old \in DOMAIN new /\ j - old \in DOMAIN new
      BY <1>1, <2>4
    <3>2. new[i - old].key = new[j - old].key /\ new[i - old].key # NoKey
      BY <1>6, <1>9, <2>4
    <3>3. i - old = j - old
      BY <3>1, <3>2 DEF Commit, KeyTaken
    <3> QED BY <1>1, <3>3
  <2> QED BY <2>1, <2>2, <2>3, <2>4
<1>10. Log!OncePerKey(db)'
  BY <1>7, <1>9 DEF Log!OncePerKey
<1>11. ASSUME Len(New(p)) = 0 PROVE db' = db
  <2>1. db' = [i \in 1 .. old |-> db[i]]
    BY <1>1, <1>5, <1>11
  <2> QED BY <2>1 DEF LogInv, IsLog
<1> QED BY <1>1, <1>6, <1>7, <1>8, <1>10, <1>11

------------------------------------------------------------------------------
(* The invariant.                                                          *)

\* The calls that have not yet reached their insert.
LEMMA CallIsACall ==
  ASSUME NEW phase \in {"none", "lookup", "begin"}, NEW es \in Seq(AnyEvent), NEW batch \in BOOLEAN
  PROVE  Call(phase, es, batch) \in AnyCall /\ Call(phase, es, batch).ph # "insert"
BY DEF Call, AnyCall

\* A process between two calls.
LEMMA NoCallIsACall == NoCall \in AnyCall /\ NoCall.ph # "insert"
<1>1. <<>> \in Seq(AnyEvent)
  OBVIOUS
<1> QED BY <1>1, CallIsACall DEF NoCall

\* A process that leaves the table alone, and does not go into an insert.
LEMMA OtherSteps ==
  ASSUME LogInv, NEW p \in Procs, NEW c \in AnyCall, c.ph # "insert",
         call' = [call EXCEPT ![p] = c], ids' \in Nat, db' = db, clash' = clash,
         \A q \in Procs \ {p} : lock = q => lock' = q
  PROVE  LogInv'
<1>1. Types'
  BY DEF LogInv, Types
<1>2. IsLog' /\ Log!OncePerKey(db)' /\ NeverCollides'
  BY DEF LogInv, IsLog, NeverCollides, Log!OncePerKey
<1>3. Holds'
  BY DEF LogInv, Types, Holds
<1> QED BY <1>1, <1>2, <1>3 DEF LogInv

\* Telling the subscribers leaves the table, the lock and the calls alone.
LEMMA TellingSteps ==
  ASSUME LogInv, UNCHANGED <<db, lock, call, clash>>, ids' \in Nat
  PROVE  LogInv'
BY DEF LogInv, Types, IsLog, Holds, NeverCollides, Log!OncePerKey

\* The empty log.
LEMMA LogInitially == Init => LogInv
<1> SUFFICES ASSUME Init PROVE LogInv
  OBVIOUS
<1>1. Types
  BY NoCallIsACall DEF Init, Types
<1>2. IsLog /\ Log!OncePerKey(db) /\ NeverCollides
  BY DEF Init, IsLog, Log!OncePerKey, NeverCollides
<1>3. Holds
  BY NoCallIsACall DEF Init, Holds
<1> QED BY <1>1, <1>2, <1>3 DEF LogInv

\* A rollback, after a failed or a colliding insert, leaves the table as it was.
LEMMA RollbackKeeps ==
  ASSUME LogInv, NEW p \in Procs, call[p].ph = "insert", Rollback(p), clash' = clash
  PROVE  LogInv'
<1>1. ids' \in Nat /\ db' = db /\ NoCall.ph # "insert"
  BY NoCallIsACall DEF Rollback, LogInv, Types
<1>2. \A q \in Procs \ {p} : lock = q => lock' = q
  BY DEF LogInv, Holds
<1> QED BY <1>1, <1>2, NoCallIsACall, OtherSteps DEF Rollback, Returns

\* Every step keeps the invariant.
LEMMA LogStep == LogInv /\ [Next]_vars => LogInv'
<1> SUFFICES ASSUME LogInv, [Next]_vars PROVE LogInv'
  OBVIOUS
<1>1. CASE UNCHANGED vars
  BY <1>1, TellingSteps DEF vars, LogInv, Types
<1> SUFFICES ASSUME NEW p \in Procs, Step(p) PROVE LogInv'
  BY <1>1 DEF Next
<1>t. Types /\ call[p] \in AnyCall /\ ids \in Nat
  BY DEF LogInv, Types
<1>n. NoCall \in AnyCall /\ NoCall.ph # "insert"
  BY NoCallIsACall
<1>2. ASSUME NEW k \in Keys \cup {NoKey}, AppendOne(p, k) PROVE LogInv'
  <2> DEFINE phase == IF k = NoKey THEN "begin" ELSE "lookup"
             es    == <<Event(p, k, 1)>>
  <2>1. Event(p, k, 1) \in AnyEvent
    BY <1>t DEF Event, AnyEvent
  <2>2. es \in Seq(AnyEvent) /\ phase \in {"none", "lookup", "begin"}
    BY <2>1
  <2>3. call' = [call EXCEPT ![p] = Call(phase, es, FALSE)]
    BY <1>2 DEF AppendOne
  <2> HIDE DEF phase, es
  <2>4. Call(phase, es, FALSE) \in AnyCall /\ Call(phase, es, FALSE).ph # "insert"
    BY <2>2, CallIsACall
  <2>5. ids' \in Nat /\ UNCHANGED <<db, lock, clash>>
    BY <1>2, <1>t DEF AppendOne
  <2> QED BY <2>3, <2>4, <2>5, OtherSteps
<1>3. ASSUME NEW k \in Keys \cup {NoKey}, NEW l \in Keys \cup {NoKey}, AppendBatch(p, k, l)
      PROVE  LogInv'
  <2> DEFINE es == <<Event(p, k, 1), Event(p, l, 2)>>
  <2>1. Event(p, k, 1) \in AnyEvent /\ Event(p, l, 2) \in AnyEvent
    BY <1>t DEF Event, AnyEvent
  <2>2. es \in Seq(AnyEvent)
    BY <2>1
  <2>3. call' = [call EXCEPT ![p] = Call("begin", es, TRUE)]
    BY <1>3 DEF AppendBatch
  <2> HIDE DEF es
  <2>4. Call("begin", es, TRUE) \in AnyCall /\ Call("begin", es, TRUE).ph # "insert"
    BY <2>2, CallIsACall
  <2>5. ids' \in Nat /\ UNCHANGED <<db, lock, clash>>
    BY <1>3, <1>t DEF AppendBatch
  <2> QED BY <2>3, <2>4, <2>5, OtherSteps
<1>4. CASE AppendChunk(p)
  BY <1>4, <1>t, TellingSteps DEF AppendChunk
<1>5. CASE Lookup(p)
  <2>1. CASE Stored(call[p].es[1].key)
    BY <1>5, <1>t, <1>n, <2>1, OtherSteps DEF Lookup, Returns
  <2>2. CASE ~Stored(call[p].es[1].key)
    <3>1. [call[p] EXCEPT !.ph = "begin"] \in AnyCall /\ [call[p] EXCEPT !.ph = "begin"].ph # "insert"
      BY <1>t DEF AnyCall
    <3> QED BY <1>5, <1>t, <2>2, <3>1, OtherSteps DEF Lookup
  <2> QED BY <2>1, <2>2
<1>6. CASE Begin(p)
  <2> DEFINE c == [call[p] EXCEPT !.ph = "insert", !.seq = NextFree(p)]
  <2>a. NextFree(p) \in Nat
    BY DEF NextFree, LogInv, IsLog
  <2>b. c \in AnyCall
    BY <1>t, <2>a DEF AnyCall
  <2>c. call' = [call EXCEPT ![p] = c] /\ UNCHANGED ids
    BY <1>6, <1>t DEF Begin, Types
  <2> HIDE DEF c
  <2>1. Types'
    <3>1. UNCHANGED clash
      BY <1>6 DEF Begin
    <3> QED BY <1>t, <2>b, <2>c, <3>1 DEF Types
  <2>2. \A q \in Procs : call[q].ph # "insert"
    BY <1>6, EventLogAssumption DEF Begin, LogInv, Holds
  <2>3. Holds'
    BY <1>6, <1>t, <2>2 DEF Begin, Holds, NextFree, Types
  <2> QED BY <1>6, <2>1, <2>3 DEF Begin, LogInv, IsLog, NeverCollides, Log!OncePerKey
<1>7. CASE Busy(p)
  <2>1. CASE call[p].tries < MaxTries
    <3>1. [call[p] EXCEPT !.tries = @ + 1] \in AnyCall /\ [call[p] EXCEPT !.tries = @ + 1].ph # "insert"
      BY <1>7, <1>t DEF Busy, AnyCall
    <3> QED BY <1>7, <1>t, <2>1, <3>1, OtherSteps DEF Busy
  <2>2. CASE ~(call[p].tries < MaxTries)
    BY <1>7, <1>t, <1>n, <2>2, OtherSteps DEF Busy, Returns
  <2> QED BY <2>1, <2>2
<1>8. CASE Commit(p)
  <2>1. IsLog' /\ Log!OncePerKey(db)'
    BY <1>8, CommitGrows
  <2>2. Types'
    BY <1>8, <1>n, <1>t DEF Commit, Returns, Types
  <2>5. NeverCollides'
    BY <1>8 DEF Commit, LogInv, NeverCollides
  <2>3. \A q \in Procs : q # p => call[q].ph # "insert"
    BY <1>8 DEF Commit, LogInv, Holds
  <2>4. Holds'
    BY <1>8, <1>n, <1>t, <2>3 DEF Commit, Returns, Holds, Types
  <2> QED BY <2>1, <2>2, <2>4, <2>5 DEF LogInv
<1>9. CASE Constraint(p)
  <2>1. ~SeqTaken(p)
    BY <1>9, SlotsAreNext DEF Constraint, SeqTaken, LogInv
  <2>2. clash = FALSE
    BY DEF LogInv, NeverCollides, Types
  <2>3. clash' = (clash \/ SeqTaken(p))
    BY <1>9 DEF Constraint
  <2>4. Rollback(p) /\ call[p].ph = "insert"
    BY <1>9 DEF Constraint
  <2>5. clash' = clash
    BY <2>1, <2>2, <2>3, Zenon
  <2> QED BY <2>4, <2>5, RollbackKeeps
<1>10. CASE WriteFails(p)
  BY <1>10, RollbackKeeps DEF WriteFails
<1>11. CASE Handle(p) \/ HandlerReturns(p) \/ NextEvent(p) \/ Subscribe(p) \/ Unsubscribe(p)
  BY <1>11, <1>t, TellingSteps DEF Handle, HandlerReturns, NextEvent, Subscribe, Unsubscribe
<1>12. CASE Restart(p)
  <2>1. \A q \in Procs \ {p} : lock = q => lock' = q
    BY <1>12 DEF Restart
  <2> QED BY <1>12, <1>t, <1>n, <2>1, OtherSteps DEF Restart, Returns
<1> QED BY <1>2, <1>3, <1>4, <1>5, <1>6, <1>7, <1>8, <1>9, <1>10, <1>11, <1>12 DEF Step

------------------------------------------------------------------------------
(* The theorems.                                                           *)

\* The invariant holds throughout.
LEMMA LogAlways == Spec => []LogInv
<1> QED BY LogInitially, LogStep, PTL DEF Spec

\* An auto-assigned sequence is never taken, whatever races for the table: the
\* maximum is read by the holder of the write lock (sqlite-store.ts,
\* _appendAutoSequence and appendBatch).
THEOREM SequencesNeverCollide == Spec => []NeverCollides
<1>1. LogInv => NeverCollides
  BY DEF LogInv
<1> QED BY <1>1, LogAlways, PTL

\* A step of the store is a step of the log or leaves it alone.
LEMMA StepIsGrow == LogInv /\ [Next]_vars => [Log!Grow]_db
<1> SUFFICES ASSUME LogInv, [Next]_vars, db' # db PROVE Log!Grow
  OBVIOUS
<1>1. PICK p \in Procs : Commit(p)
  BY DEF Next, Step, vars, AppendOne, AppendBatch, AppendChunk, Lookup, Begin, Busy, Constraint,
         WriteFails, Rollback, Handle, HandlerReturns, NextEvent, Subscribe, Unsubscribe, Restart
<1>2. Len(New(p)) \in Nat /\ Len(db) \in Nat
  BY NewIsFinite DEF LogInv, IsLog
<1>3. Log!OncePerKey(db') /\ Len(db') > Len(db)
  BY <1>1, <1>2, CommitGrows
<1>4. \A i \in 1 .. Len(db) : db'[i] = db[i]
  BY <1>1, CommitGrows
<1> QED BY <1>3, <1>4 DEF Log!Grow, Log!Extends

\* The store of all the processes together is one append-only log with at most one
\* event of a key: what a reader has seen stays where it was, through lost races,
\* failed writes and restarts (event-store/store.ts).
THEOREM StoreIsAppendOnlyLog == Spec => IsAppendOnlyLog
<1>1. Init => Log!Init
  BY DEF Init, Log!Init
<1>2. LogInv /\ [Next]_vars => [Log!Grow]_db
  BY StepIsGrow
<1> QED BY <1>1, <1>2, LogAlways, PTL DEF Spec, IsAppendOnlyLog, Log!Spec

------------------------------------------------------------------------------
(* What the subscribers are told.                                          *)

\* What the variables hold.
AnyFrame == [es : Seq(AnyEvent), cur : Nat \cup {None}, last : Nat]

FrameTypes ==
  /\ stack \in [Procs -> Seq(AnyFrame)] /\ subs \in [Procs -> SUBSET Nat] /\ nsubs \in [Procs -> Nat]
  /\ told \in [Procs -> [Ids -> SUBSET Nat]] /\ owed \in [Procs -> [Ids -> SUBSET Nat]]
  /\ twice \in BOOLEAN

\* The event at place n of frame k, the events of the append under way, and those
\* that are being told or wait for it.
EventAt(p, k, n) == stack[p][k].es[n]
Handed(p, i) == \E n \in DOMAIN call[p].es : call[p].es[n].id = i
Framed(p, i) == \E k \in DOMAIN stack[p] : \E n \in DOMAIN stack[p][k].es : EventAt(p, k, n).id = i

\* An append hands over one event or two, of its own.
CallIdsOnce(p) ==
  /\ Len(call[p].es) <= 2
  /\ \A n \in DOMAIN call[p].es : call[p].es[n].id \in 1 .. ids
  /\ \A n, m \in DOMAIN call[p].es : call[p].es[n].id = call[p].es[m].id => n = m

\* No event is in two places.
FrameIdsOnce(p) ==
  \A k \in DOMAIN stack[p] : \A n \in DOMAIN stack[p][k].es :
    /\ EventAt(p, k, n).id \in 1 .. ids /\ ~Handed(p, EventAt(p, k, n).id)
    /\ \A l \in DOMAIN stack[p] : \A m \in DOMAIN stack[p][l].es :
         EventAt(p, k, n).id = EventAt(p, l, m).id => k = l /\ n = m

\* Nobody has heard an event that is not stored yet.
Unheard(p) == \A i \in Ids : i > ids \/ Handed(p, i) => told[p][i] = {}

\* Who has heard the event being told, and who will: the subscriptions up to the
\* last one told, and those after it.
HeadTold(p, f) ==
  f.es # <<>> =>
    /\ \A s \in told[p][f.es[1].id] : s < f.last \/ s = f.cur
    /\ \A s \in owed[p][f.es[1].id] :
         \/ s \in told[p][f.es[1].id]
         \/ s \in subs[p] /\ s >= f.last /\ (f.cur # None => s > f.cur)

\* The events behind it in the batch are owed to whoever is still subscribed.
TailWaits(p, f) ==
  \A n \in DOMAIN f.es :
    n > 1 => told[p][f.es[n].id] = {} /\ owed[p][f.es[n].id] \subseteq subs[p]

FrameRight(p, f) ==
  HeadTold(p, f) /\ TailWaits(p, f) /\ (f.cur # None => f.cur >= f.last)

FramesRight(p) == \A k \in DOMAIN stack[p] : FrameRight(p, stack[p][k])

\* What is in no frame any more was told to all that were owed it.
SettledIsTold(p) == \A i \in Ids : ~Framed(p, i) => owed[p][i] \subseteq told[p][i]

ToldRight(p) ==
  CallIdsOnce(p) /\ FrameIdsOnce(p) /\ Unheard(p) /\ FramesRight(p) /\ SettledIsTold(p)

\* The inductive invariant.
ToldInv ==
  /\ LogInv /\ FrameTypes /\ ids <= MaxEvents /\ ~twice
  /\ \A p \in Procs : ToldRight(p)

\* A set of natural numbers that is not empty has a least element.
LEMMA LeastOf == ASSUME NEW T \in SUBSET Nat, T # {} PROVE \E s \in T : \A q \in T : s <= q
<1> DEFINE R == {ss \in Nat \X Nat : ss[1] < ss[2]}
<1>1. IsWellFoundedOn(R, Nat)
  BY NatLessThanWellFounded DEF OpToRel
<1> HIDE DEF R
<1>2. PICK s \in T : \A q \in T : ~(<<q, s>> \in R)
  BY <1>1, WFMin
<1>3. ASSUME NEW q \in T PROVE s <= q
  <2>1. ~(<<q, s>> \in R)
    BY <1>2
  <2> QED BY <2>1 DEF R
<1> QED BY <1>3

\* An id that the store has given out is one of the model's.
LEMMA IdsAre == ASSUME ToldInv, NEW i \in 1 .. ids PROVE i \in Ids /\ i \in Nat
BY EventLogAssumption DEF ToldInv, LogInv, Types, Ids

\* A process is left alone while others hand over more events.
LEMMA LeftAlone ==
  ASSUME ToldInv, NEW p \in Procs, ToldRight(p), ids' \in Nat, ids' >= ids,
         call'[p].es = call[p].es, stack'[p] = stack[p], subs'[p] = subs[p],
         told'[p] = told[p], owed'[p] = owed[p]
  PROVE  ToldRight(p)'
<1>0. ids \in Nat
  BY DEF ToldInv, LogInv, Types
<1>1. \A i : Handed(p, i)' <=> Handed(p, i)
  BY DEF Handed
<1>2. \A i : Framed(p, i)' <=> Framed(p, i)
  BY DEF Framed, EventAt
<1>3. CallIdsOnce(p)'
  BY <1>0 DEF ToldRight, CallIdsOnce
<1>4. FrameIdsOnce(p)'
  BY <1>0, <1>1 DEF ToldRight, FrameIdsOnce, EventAt
<1>5. Unheard(p)'
  BY <1>0, <1>1 DEF ToldRight, Unheard, Ids
<1>6. FramesRight(p)'
  BY DEF ToldRight, FramesRight, FrameRight, HeadTold, TailWaits
<1>7. SettledIsTold(p)'
  BY <1>2 DEF ToldRight, SettledIsTold
<1> QED BY <1>3, <1>4, <1>5, <1>6, <1>7 DEF ToldRight

\* An append is handed over, goes on, or is over; nobody is told.
LEMMA CallsRight ==
  ASSUME ToldInv, NEW p \in Procs, ids' \in Nat, ids' >= ids,
         \/ call'[p].es = call[p].es \/ call'[p].es = <<>>
         \/ /\ Len(call'[p].es) <= 2
            /\ \A n \in DOMAIN call'[p].es : call'[p].es[n].id \in ids + 1 .. ids'
            /\ \A n, m \in DOMAIN call'[p].es : call'[p].es[n].id = call'[p].es[m].id => n = m,
         stack'[p] = stack[p], subs'[p] = subs[p], told'[p] = told[p], owed'[p] = owed[p]
  PROVE  ToldRight(p)'
<1>0. ids \in Nat /\ ToldRight(p)
  BY DEF ToldInv, LogInv, Types
<1>1. \A i : Handed(p, i)' => Handed(p, i) \/ i \in ids + 1 .. ids'
  BY DEF Handed
<1>2. \A i : Framed(p, i)' <=> Framed(p, i)
  BY DEF Framed, EventAt
<1>3. CallIdsOnce(p)'
  BY <1>0 DEF ToldRight, CallIdsOnce
<1>4. FrameIdsOnce(p)'
  BY <1>0, <1>1 DEF ToldRight, FrameIdsOnce, EventAt
<1>5. Unheard(p)'
  BY <1>0, <1>1 DEF ToldRight, Unheard, Ids
<1>6. FramesRight(p)'
  BY <1>0 DEF ToldRight, FramesRight, FrameRight, HeadTold, TailWaits
<1>7. SettledIsTold(p)'
  BY <1>0, <1>2 DEF ToldRight, SettledIsTold
<1> QED BY <1>3, <1>4, <1>5, <1>6, <1>7 DEF ToldRight

\* The innermost frame.
LEMMA TopFrame ==
  ASSUME FrameTypes, NEW p \in Procs, stack[p] # <<>>
  PROVE  /\ Len(stack[p]) \in Nat /\ Len(stack[p]) \in DOMAIN stack[p]
         /\ DOMAIN stack[p] = 1 .. Len(stack[p]) /\ Frame(p) \in AnyFrame
<1>1. stack[p] \in Seq(AnyFrame)
  BY DEF FrameTypes
<1> QED BY <1>1 DEF Frame

\* Setting it leaves the frames below alone.
LEMMA FrameSet ==
  ASSUME FrameTypes, NEW p \in Procs, stack[p] # <<>>, NEW f \in AnyFrame, SetFrame(p, f)
  PROVE  /\ stack' \in [Procs -> Seq(AnyFrame)] /\ \A q \in Procs : q # p => stack'[q] = stack[q]
         /\ DOMAIN stack'[p] = DOMAIN stack[p] /\ stack'[p][Len(stack[p])] = f
         /\ \A k \in DOMAIN stack[p] : k # Len(stack[p]) => stack'[p][k] = stack[p][k]
<1>1. stack[p] \in Seq(AnyFrame) /\ Len(stack[p]) \in DOMAIN stack[p]
  BY TopFrame DEF FrameTypes
<1>2. [stack[p] EXCEPT ![Len(stack[p])] = f] \in Seq(AnyFrame)
  BY <1>1
<1>3. stack' = [stack EXCEPT ![p] = [stack[p] EXCEPT ![Len(stack[p])] = f]]
  BY DEF SetFrame
<1> QED BY <1>1, <1>2, <1>3 DEF FrameTypes

\* The next subscriber hears the event: it has not heard it before.
LEMMA HandleRight ==
  ASSUME ToldInv, NEW p \in Procs, Handle(p)
  PROVE  FrameTypes' /\ ~twice' /\ ToldRight(p)'
<1>a. PICK top, f, e, s :
        /\ top = Len(stack[p]) /\ f = Frame(p) /\ e = f.es[1].id
        /\ s = CHOOSE r \in Left(p) : \A q \in Left(p) : r <= q
  OBVIOUS
<1>b. PICK g : g = [f EXCEPT !.cur = s]
  OBVIOUS
<1>1. /\ told' = [told EXCEPT ![p][e] = @ \cup {s}]
      /\ twice' = (twice \/ s \in told[p][e])
      /\ SetFrame(p, g)
  BY <1>a, <1>b DEF Handle
<1>0. /\ stack[p] # <<>> /\ f.es # <<>> /\ f.cur = None /\ Left(p) # {} /\ FrameTypes /\ ToldRight(p)
      /\ UNCHANGED <<call, subs, nsubs, owed, ids>> /\ ids \in Nat
  BY <1>a DEF Handle, Telling, ToldInv, LogInv, Types
<1>2. top \in DOMAIN stack[p] /\ f \in AnyFrame /\ f = stack[p][top] /\ top \in Nat
  BY <1>a, <1>0, TopFrame DEF Frame
<1>3. Left(p) \in SUBSET Nat
  BY <1>0 DEF Left, FrameTypes
<1>4. s \in Left(p) /\ \A q \in Left(p) : s <= q
  BY <1>a, <1>0, <1>3, LeastOf
<1>5. s \in Nat /\ s \in subs[p] /\ s >= f.last /\ s # None
  <2>1. s \in Nat /\ s \in subs[p] /\ s + 1 > f.last /\ f.last \in Nat
    BY <1>a, <1>2, <1>3, <1>4 DEF Left, AnyFrame
  <2> QED BY <2>1, EventLogAssumption
<1>6. 1 \in DOMAIN f.es /\ f.es \in Seq(AnyEvent) /\ DOMAIN f.es = 1 .. Len(f.es)
  BY <1>0, <1>2 DEF AnyFrame
<1>7. EventAt(p, top, 1).id = e /\ e \in 1 .. ids /\ ~Handed(p, e)
  <2>1. EventAt(p, top, 1).id = e
    BY <1>a, <1>2 DEF EventAt
  <2> QED BY <2>1, <1>0, <1>2, <1>6 DEF ToldRight, FrameIdsOnce
<1>8. e \in Ids
  BY <1>7, IdsAre
<1>9. FrameRight(p, f)
  BY <1>0, <1>2 DEF ToldRight, FramesRight
<1>10. s \notin told[p][e]
  BY <1>a, <1>0, <1>2, <1>5, <1>9 DEF FrameRight, HeadTold, AnyFrame
<1>11. g \in AnyFrame /\ g.es = f.es /\ g.last = f.last /\ g.cur = s /\ f.last \in Nat
  BY <1>b, <1>2, <1>5 DEF AnyFrame
<1>12. /\ stack' \in [Procs -> Seq(AnyFrame)] /\ DOMAIN stack'[p] = DOMAIN stack[p]
       /\ stack'[p][top] = g
       /\ \A k \in DOMAIN stack[p] : k # top => stack'[p][k] = stack[p][k]
  BY <1>a, <1>0, <1>1, <1>11, FrameSet
<1>13. /\ told' \in [Procs -> [Ids -> SUBSET Nat]] /\ told'[p][e] = told[p][e] \cup {s}
       /\ \A i \in Ids : i # e => told'[p][i] = told[p][i]
  <2>1. told[p] \in [Ids -> SUBSET Nat] /\ told \in [Procs -> [Ids -> SUBSET Nat]]
    BY <1>0 DEF FrameTypes
  <2>2. told' = [told EXCEPT ![p] = [told[p] EXCEPT ![e] = told[p][e] \cup {s}]]
    BY <1>1
  <2>3. [told[p] EXCEPT ![e] = told[p][e] \cup {s}] \in [Ids -> SUBSET Nat]
    BY <1>5, <1>8, <2>1
  <2> QED BY <1>8, <2>1, <2>2, <2>3
<1>14. FrameTypes'
  <2>1. twice' \in BOOLEAN
    BY <1>1, <1>10, <1>0 DEF ToldInv, FrameTypes
  <2> QED BY <2>1, <1>0, <1>12, <1>13 DEF FrameTypes
<1>15. ~twice'
  BY <1>1, <1>10 DEF ToldInv
<1>16. \A k \in DOMAIN stack[p] : stack'[p][k].es = stack[p][k].es
  BY <1>2, <1>11, <1>12
<1>17. \A k \in DOMAIN stack[p] : \A n : EventAt(p, k, n)' = EventAt(p, k, n)
  BY <1>16 DEF EventAt
<1>18. \A i : (Framed(p, i)' <=> Framed(p, i)) /\ (Handed(p, i)' <=> Handed(p, i))
  <2>1. \A i : Framed(p, i)' <=> Framed(p, i)
    BY <1>12, <1>16, <1>17 DEF Framed
  <2>2. \A i : Handed(p, i)' <=> Handed(p, i)
    BY <1>0 DEF Handed
  <2> QED BY <2>1, <2>2
<1>19. CallIdsOnce(p)'
  BY <1>0 DEF ToldRight, CallIdsOnce
<1>20. FrameIdsOnce(p)'
  <2>1. \A k \in DOMAIN stack'[p] :
          k \in DOMAIN stack[p] /\ DOMAIN stack'[p][k].es = DOMAIN stack[p][k].es
    BY <1>12, <1>16
  <2>2. FrameIdsOnce(p)
    BY <1>0 DEF ToldRight
  <2> QED BY <1>0, <1>17, <1>18, <2>1, <2>2 DEF FrameIdsOnce
<1>21. Unheard(p)'
  BY <1>0, <1>7, <1>13, <1>18 DEF ToldRight, Unheard
<1>22. \A k \in DOMAIN stack[p] : \A n \in DOMAIN stack[p][k].es :
         stack[p][k].es[n].id \in Ids /\ (stack[p][k].es[n].id = e => k = top /\ n = 1)
  <2> TAKE k \in DOMAIN stack[p]
  <2> TAKE n \in DOMAIN stack[p][k].es
  <2>1. EventAt(p, k, n).id \in 1 .. ids
    BY <1>0 DEF ToldRight, FrameIdsOnce
  <2>2. EventAt(p, k, n).id = EventAt(p, top, 1).id => k = top /\ n = 1
    BY <1>0, <1>2, <1>6 DEF ToldRight, FrameIdsOnce
  <2> QED BY <1>7, <2>1, <2>2, IdsAre DEF EventAt
<1>23. ASSUME NEW k \in DOMAIN stack[p], k # top PROVE FrameRight(p, stack[p][k])'
  <2>1. PICK h : h = stack[p][k]
    OBVIOUS
  <2>2. stack'[p][k] = h /\ FrameRight(p, h) /\ h \in AnyFrame
    BY <1>0, <1>12, <1>23, <2>1 DEF ToldRight, FramesRight, FrameTypes
  <2>3. \A n \in DOMAIN h.es : told'[p][h.es[n].id] = told[p][h.es[n].id]
    BY <1>13, <1>22, <1>23, <2>1
  <2>4. h.es # <<>> => 1 \in DOMAIN h.es
    BY <2>2 DEF AnyFrame
  <2>5. FrameRight(p, h)'
    BY <1>0, <2>2, <2>3, <2>4 DEF FrameRight, HeadTold, TailWaits
  <2> QED BY <2>2, <2>5
<1>24. FrameRight(p, g)'
  <2>1. \A n \in DOMAIN f.es : n > 1 => told'[p][f.es[n].id] = told[p][f.es[n].id]
    BY <1>2, <1>13, <1>22
  <2>2. ASSUME NEW t \in told'[p][e] PROVE t < f.last \/ t = s
    <3>1. t \in told[p][e] => t < f.last \/ t = f.cur
      BY <1>a, <1>0, <1>9 DEF FrameRight, HeadTold
    <3>2. t \in Nat
      BY <1>8, <1>13
    <3> QED BY <1>0, <1>13, <2>2, <3>1, <3>2, EventLogAssumption
  <2>3. ASSUME NEW t \in owed[p][e], t \notin told'[p][e] PROVE t \in subs[p] /\ t >= f.last /\ t > s
    <3>1. t \in subs[p] /\ t >= f.last /\ t \in Nat
      BY <1>a, <1>0, <1>8, <1>9, <1>13, <2>3 DEF FrameRight, HeadTold, FrameTypes
    <3>2. t \in Left(p) /\ t # s
      BY <1>a, <1>11, <1>13, <2>3, <3>1 DEF Left
    <3> QED BY <1>4, <1>5, <3>1, <3>2
  <2>4. TailWaits(p, g)'
    BY <1>0, <1>9, <1>11, <2>1 DEF FrameRight, TailWaits
  <2>5. HeadTold(p, g)'
    BY <1>a, <1>0, <1>11, <2>2, <2>3 DEF HeadTold
  <2> QED BY <1>5, <1>11, <2>4, <2>5 DEF FrameRight
<1>25. FramesRight(p)'
  BY <1>12, <1>23, <1>24 DEF FramesRight
<1>26. SettledIsTold(p)'
  BY <1>0, <1>13, <1>18 DEF ToldRight, SettledIsTold
<1> QED BY <1>14, <1>15, <1>19, <1>20, <1>21, <1>25, <1>26 DEF ToldRight

\* A handler is done: the place in the subscriptions is behind its own.
LEMMA ReturnRight ==
  ASSUME ToldInv, NEW p \in Procs, HandlerReturns(p)
  PROVE  FrameTypes' /\ ToldRight(p)'
<1>a. PICK top, f : top = Len(stack[p]) /\ f = Frame(p)
  OBVIOUS
<1>b. PICK g : g = [f EXCEPT !.cur = None, !.last = f.cur + 1]
  OBVIOUS
<1>0. /\ stack[p] # <<>> /\ f.cur # None /\ FrameTypes /\ ToldRight(p) /\ SetFrame(p, g)
      /\ UNCHANGED <<call, subs, nsubs, told, owed, ids, twice>> /\ ids \in Nat
  BY <1>a, <1>b DEF HandlerReturns, InHandler, ToldInv, LogInv, Types
<1>1. top \in DOMAIN stack[p] /\ f \in AnyFrame /\ f = stack[p][top] /\ top \in Nat
  BY <1>a, <1>0, TopFrame DEF Frame
<1>2. f.cur \in Nat /\ g \in AnyFrame /\ g.es = f.es /\ g.cur = None /\ g.last = f.cur + 1
  <2>1. f.cur \in Nat
    BY <1>0, <1>1 DEF AnyFrame
  <2>2. f.cur + 1 \in Nat /\ None \in Nat \cup {None}
    BY <2>1
  <2> QED BY <1>b, <1>1, <2>1, <2>2 DEF AnyFrame
<1>3. /\ stack' \in [Procs -> Seq(AnyFrame)] /\ DOMAIN stack'[p] = DOMAIN stack[p]
      /\ stack'[p][top] = g
      /\ \A k \in DOMAIN stack[p] : k # top => stack'[p][k] = stack[p][k]
  BY <1>a, <1>0, <1>2, FrameSet
<1>4. FrameTypes'
  BY <1>0, <1>3 DEF FrameTypes
<1>5. \A k \in DOMAIN stack[p] : stack'[p][k].es = stack[p][k].es
  BY <1>1, <1>2, <1>3
<1>6. \A k \in DOMAIN stack[p] : \A n : EventAt(p, k, n)' = EventAt(p, k, n)
  BY <1>5 DEF EventAt
<1>7. \A i : (Framed(p, i)' <=> Framed(p, i)) /\ (Handed(p, i)' <=> Handed(p, i))
  BY <1>0, <1>3, <1>5, <1>6 DEF Framed, Handed
<1>8. CallIdsOnce(p)' /\ Unheard(p)' /\ SettledIsTold(p)'
  BY <1>0, <1>7 DEF ToldRight, CallIdsOnce, Unheard, SettledIsTold
<1>9. FrameIdsOnce(p)'
  BY <1>0, <1>3, <1>5, <1>6, <1>7 DEF ToldRight, FrameIdsOnce
<1>10. ASSUME NEW k \in DOMAIN stack[p], k # top PROVE FrameRight(p, stack[p][k])'
  <2>1. PICK h : h = stack[p][k]
    OBVIOUS
  <2>2. stack'[p][k] = h /\ FrameRight(p, h)
    BY <1>0, <1>3, <1>10, <2>1 DEF ToldRight, FramesRight
  <2>3. FrameRight(p, h)'
    BY <1>0, <2>2 DEF FrameRight, HeadTold, TailWaits
  <2> QED BY <2>2, <2>3
<1>11. FrameRight(p, f) /\ f.last \in Nat
  BY <1>0, <1>1 DEF ToldRight, FramesRight, AnyFrame
<1>12. TailWaits(p, g)'
  BY <1>0, <1>2, <1>11 DEF FrameRight, TailWaits
<1>13. HeadTold(p, g)'
  <2> SUFFICES ASSUME f.es # <<>>
               PROVE  /\ \A s \in told[p][f.es[1].id] : s < f.cur + 1
                      /\ \A s \in owed[p][f.es[1].id] :
                           s \in told[p][f.es[1].id] \/ (s \in subs[p] /\ s >= f.cur + 1)
    BY <1>0, <1>2 DEF HeadTold
  <2>1. f.es[1].id \in Ids
    <3>1. 1 \in DOMAIN stack[p][top].es /\ EventAt(p, top, 1) = f.es[1]
      BY <1>1 DEF AnyFrame, EventAt
    <3> QED BY <1>0, <1>1, <3>1, IdsAre DEF ToldRight, FrameIdsOnce
  <2>2. told[p][f.es[1].id] \subseteq Nat /\ owed[p][f.es[1].id] \subseteq Nat
    BY <1>0, <2>1 DEF FrameTypes
  <2> QED BY <1>0, <1>2, <1>11, <2>2 DEF FrameRight, HeadTold
<1>14. FramesRight(p)'
  BY <1>2, <1>3, <1>10, <1>12, <1>13 DEF FramesRight, FrameRight
<1> QED BY <1>4, <1>8, <1>9, <1>14 DEF ToldRight

\* All subscriptions are gone through: the frame is over, or goes on with its next
\* event, from the first subscription.
LEMMA NextEventRight ==
  ASSUME ToldInv, NEW p \in Procs, NextEvent(p)
  PROVE  FrameTypes' /\ ToldRight(p)'
<1>a. PICK top, f : top = Len(stack[p]) /\ f = Frame(p)
  OBVIOUS
<1>0. /\ stack[p] # <<>> /\ f.cur = None /\ FrameTypes /\ ToldRight(p) /\ (f.es # <<>> => Left(p) = {})
      /\ UNCHANGED <<call, subs, nsubs, told, owed, ids, twice>> /\ ids \in Nat
  BY <1>a DEF NextEvent, Telling, ToldInv, LogInv, Types
<1>1. top \in DOMAIN stack[p] /\ f \in AnyFrame /\ f = stack[p][top] /\ top \in Nat
      /\ DOMAIN stack[p] = 1 .. top
  BY <1>a, <1>0, TopFrame DEF Frame
<1>2. /\ f.es \in Seq(AnyEvent) /\ DOMAIN f.es = 1 .. Len(f.es) /\ Len(f.es) \in Nat
      /\ (f.es # <<>> => 1 \in DOMAIN f.es) /\ f.last \in Nat
  BY <1>1 DEF AnyFrame
<1>3. FrameRight(p, f) /\ \A i : Handed(p, i)' <=> Handed(p, i)
  BY <1>0, <1>1 DEF ToldRight, FramesRight, Handed
<1>4. CallIdsOnce(p)' /\ Unheard(p)'
  BY <1>0, <1>3 DEF ToldRight, CallIdsOnce, Unheard
<1>5. ASSUME NEW n \in DOMAIN f.es PROVE f.es[n].id \in Ids
  <2>1. EventAt(p, top, n) = f.es[n]
    BY <1>1 DEF EventAt
  <2>2. f.es[n].id \in 1 .. ids
    BY <1>0, <1>1, <1>5, <2>1 DEF ToldRight, FrameIdsOnce
  <2> QED BY <2>2, IdsAre
<1>6. f.es # <<>> => owed[p][f.es[1].id] \subseteq told[p][f.es[1].id]
  <2> SUFFICES ASSUME f.es # <<>>, NEW s \in owed[p][f.es[1].id], s \notin told[p][f.es[1].id]
               PROVE  FALSE
    OBVIOUS
  <2>1. s \in subs[p] /\ s >= f.last
    BY <1>3 DEF FrameRight, HeadTold
  <2>2. s \in Nat
    BY <1>0, <2>1 DEF FrameTypes
  <2>3. s \in Left(p)
    BY <1>a, <1>2, <2>1, <2>2 DEF Left
  <2> QED BY <1>0, <2>3
<1>7. CASE Len(f.es) <= 1
  <2>1. stack' = [stack EXCEPT ![p] = SubSeq(@, 1, Len(@) - 1)]
    BY <1>a, <1>7 DEF NextEvent
  <2>2. stack[p] \in Seq(AnyFrame) /\ stack \in [Procs -> Seq(AnyFrame)]
    BY <1>0 DEF FrameTypes
  <2>3. /\ SubSeq(stack[p], 1, top - 1) \in Seq(AnyFrame)
        /\ DOMAIN SubSeq(stack[p], 1, top - 1) = 1 .. top - 1
        /\ \A k \in 1 .. top - 1 : SubSeq(stack[p], 1, top - 1)[k] = stack[p][k]
    BY <1>a, <1>1, <2>2
  <2>4. /\ stack' \in [Procs -> Seq(AnyFrame)] /\ DOMAIN stack'[p] = 1 .. top - 1
        /\ \A k \in 1 .. top - 1 : stack'[p][k] = stack[p][k] /\ k \in DOMAIN stack[p] /\ k # top
    BY <1>a, <1>1, <2>1, <2>2, <2>3
  <2>5. FrameTypes'
    BY <1>0, <2>4 DEF FrameTypes
  <2>6. \A k \in 1 .. top - 1 : \A n : EventAt(p, k, n)' = EventAt(p, k, n)
    BY <2>4 DEF EventAt
  <2>7. FrameIdsOnce(p)'
    <3>1. FrameIdsOnce(p)
      BY <1>0 DEF ToldRight
    <3> QED BY <1>0, <1>3, <2>4, <2>6, <3>1 DEF FrameIdsOnce
  <2>8. FramesRight(p)'
    <3>1. ASSUME NEW k \in 1 .. top - 1 PROVE FrameRight(p, stack[p][k])'
      <4>1. PICK h : h = stack[p][k]
        OBVIOUS
      <4>2. stack'[p][k] = h /\ FrameRight(p, h)
        BY <1>0, <2>4, <4>1 DEF ToldRight, FramesRight
      <4>3. FrameRight(p, h)'
        BY <1>0, <4>2 DEF FrameRight, HeadTold, TailWaits
      <4> QED BY <4>2, <4>3
    <3> QED BY <2>4, <3>1 DEF FramesRight
  <2>9. \A i : Framed(p, i) => Framed(p, i)' \/ (f.es # <<>> /\ i = f.es[1].id)
    <3> SUFFICES ASSUME NEW i, Framed(p, i)
                 PROVE  Framed(p, i)' \/ (f.es # <<>> /\ i = f.es[1].id)
      OBVIOUS
    <3>0. PICK k \in DOMAIN stack[p] : \E n \in DOMAIN stack[p][k].es : EventAt(p, k, n).id = i
      BY DEF Framed
    <3>1. CASE k = top
      BY <1>1, <1>2, <1>7, <3>0, <3>1 DEF EventAt
    <3>2. CASE k # top
      <4>1. k \in 1 .. top - 1
        BY <1>1, <3>2
      <4> QED BY <2>4, <2>6, <3>0, <4>1 DEF Framed
    <3> QED BY <3>1, <3>2
  <2>10. SettledIsTold(p)'
    BY <1>0, <1>6, <2>9 DEF ToldRight, SettledIsTold
  <2> QED BY <1>4, <2>5, <2>7, <2>8, <2>10 DEF ToldRight
<1>8. CASE ~(Len(f.es) <= 1)
  <2>a. PICK g : g = [f EXCEPT !.es = Tail(@), !.last = 0]
    OBVIOUS
  <2>1. f.es # <<>> /\ SetFrame(p, g)
    BY <1>a, <1>2, <1>8, <2>a DEF NextEvent
  <2>2. /\ Tail(f.es) \in Seq(AnyEvent) /\ DOMAIN Tail(f.es) = 1 .. Len(f.es) - 1
        /\ \A n \in 1 .. Len(f.es) - 1 : Tail(f.es)[n] = f.es[n + 1] /\ n + 1 \in DOMAIN f.es
    BY <1>2, <2>1
  <2>3. g \in AnyFrame /\ g.es = Tail(f.es) /\ g.last = 0 /\ g.cur = None
    BY <1>0, <1>1, <2>a, <2>2 DEF AnyFrame
  <2>4. /\ stack' \in [Procs -> Seq(AnyFrame)] /\ DOMAIN stack'[p] = DOMAIN stack[p]
        /\ stack'[p][top] = g
        /\ \A k \in DOMAIN stack[p] : k # top => stack'[p][k] = stack[p][k]
    BY <1>a, <1>0, <2>1, <2>3, FrameSet
  <2>5. FrameTypes'
    BY <1>0, <2>4 DEF FrameTypes
  <2>6. /\ \A k \in DOMAIN stack[p] : k # top => \A n : EventAt(p, k, n)' = EventAt(p, k, n)
        /\ \A n \in DOMAIN g.es : EventAt(p, top, n)' = EventAt(p, top, n + 1) /\ n + 1 \in DOMAIN f.es
        /\ \A n \in DOMAIN g.es : n \in Nat
    <3>1. \A k \in DOMAIN stack[p] : k # top => \A n : EventAt(p, k, n)' = EventAt(p, k, n)
      BY <2>4 DEF EventAt
    <3>2. \A n \in DOMAIN g.es : g.es[n] = f.es[n + 1] /\ n + 1 \in DOMAIN f.es /\ n \in Nat
      BY <1>2, <2>2, <2>3
    <3> QED BY <1>1, <2>4, <3>1, <3>2 DEF EventAt
  <2>7. FrameIdsOnce(p)'
    <3>1. FrameIdsOnce(p)
      BY <1>0 DEF ToldRight
    <3> DEFINE at(k, n) == IF k = top THEN n + 1 ELSE n
    <3>2. ASSUME NEW k \in DOMAIN stack'[p], NEW n \in DOMAIN stack'[p][k].es
          PROVE  /\ k \in DOMAIN stack[p] /\ at(k, n) \in DOMAIN stack[p][k].es /\ n \in Nat
                 /\ EventAt(p, k, n)' = EventAt(p, k, at(k, n))
      <4>1. CASE k = top
        BY <1>1, <2>4, <2>6, <3>2, <4>1
      <4>2. CASE k # top
        <5>1. stack[p][k] \in AnyFrame
          BY <1>0, <2>4, <3>2 DEF FrameTypes
        <5> QED BY <2>4, <2>6, <3>2, <4>2, <5>1 DEF AnyFrame
      <4> QED BY <4>1, <4>2
    <3>3. \A k, n, m : n \in Nat /\ m \in Nat /\ at(k, n) = at(k, m) => n = m
      OBVIOUS
    <3> HIDE DEF at
    <3> QED BY <1>0, <1>3, <3>1, <3>2, <3>3 DEF FrameIdsOnce
  <2>8. FrameRight(p, g)'
    <3>1. TailWaits(p, g)'
      <4>1. \A n \in DOMAIN g.es : g.es[n] = f.es[n + 1] /\ n + 1 > 1 /\ n + 1 \in DOMAIN f.es
        BY <1>2, <2>2, <2>3
      <4> QED BY <1>0, <1>3, <4>1 DEF FrameRight, TailWaits
    <3>2. HeadTold(p, g)'
      <4>1. g.es # <<>> => g.es[1] = f.es[2] /\ 2 \in DOMAIN f.es
        BY <1>2, <1>8, <2>2, <2>3
      <4>a. 2 \in DOMAIN f.es => told[p][f.es[2].id] = {} /\ owed[p][f.es[2].id] \subseteq subs[p]
        BY <1>3 DEF FrameRight, TailWaits
      <4>2. g.es # <<>> => told[p][g.es[1].id] = {} /\ owed[p][g.es[1].id] \subseteq subs[p]
        BY <4>1, <4>a
      <4>3. subs[p] \subseteq Nat
        BY <1>0 DEF FrameTypes
      <4>4. g.es # <<>> => told'[p][g.es[1].id] = {} /\ owed'[p][g.es[1].id] \subseteq subs'[p]
        BY <1>0, <4>2
      <4>5. \A s \in subs'[p] : s >= 0
        BY <1>0, <4>3
      <4> QED BY <2>3, <4>4, <4>5 DEF HeadTold
    <3> QED BY <2>3, <3>1, <3>2 DEF FrameRight
  <2>9. ASSUME NEW k \in DOMAIN stack[p], k # top PROVE FrameRight(p, stack[p][k])'
    <3>1. PICK h : h = stack[p][k]
      OBVIOUS
    <3>2. stack'[p][k] = h /\ FrameRight(p, h)
      BY <1>0, <2>4, <2>9, <3>1 DEF ToldRight, FramesRight
    <3>3. FrameRight(p, h)'
      BY <1>0, <3>2 DEF FrameRight, HeadTold, TailWaits
    <3> QED BY <3>2, <3>3
  <2>10. FramesRight(p)'
    BY <2>4, <2>8, <2>9 DEF FramesRight
  <2>11. \A i : Framed(p, i) => Framed(p, i)' \/ i = f.es[1].id
    <3> SUFFICES ASSUME NEW i, Framed(p, i) PROVE Framed(p, i)' \/ i = f.es[1].id
      OBVIOUS
    <3>a. PICK k \in DOMAIN stack[p] : \E n \in DOMAIN stack[p][k].es : EventAt(p, k, n).id = i
      BY DEF Framed
    <3>b. PICK n \in DOMAIN stack[p][k].es : EventAt(p, k, n).id = i
      BY <3>a
    <3>1. CASE k = top /\ n = 1
      BY <1>1, <3>b, <3>1 DEF EventAt
    <3>2. CASE k = top /\ n # 1
      <4>1. n - 1 \in DOMAIN g.es /\ (n - 1) + 1 = n
        BY <1>1, <1>2, <2>2, <2>3, <3>2
      <4>2. EventAt(p, top, n - 1)'.id = i
        BY <2>6, <3>b, <3>2, <4>1
      <4>3. top \in DOMAIN stack'[p] /\ n - 1 \in DOMAIN stack'[p][top].es
        BY <1>1, <2>4, <4>1
      <4> QED BY <4>2, <4>3 DEF Framed
    <3>3. CASE k # top
      BY <2>4, <2>6, <3>b, <3>3 DEF Framed
    <3> QED BY <3>1, <3>2, <3>3
  <2>12. SettledIsTold(p)'
    BY <1>0, <1>6, <2>1, <2>11 DEF ToldRight, SettledIsTold
  <2> QED BY <1>4, <2>5, <2>7, <2>10, <2>12 DEF ToldRight
<1> QED BY <1>7, <1>8

\* A subscription more is owed nothing of what is being told; one less is owed
\* nothing any more.
LEMMA SubscriptionsRight ==
  ASSUME ToldInv, NEW p \in Procs, Subscribe(p) \/ Unsubscribe(p)
  PROVE  FrameTypes' /\ ToldRight(p)'
<1>0. /\ FrameTypes /\ ToldRight(p) /\ UNCHANGED <<call, stack, told, ids, twice>> /\ ids \in Nat
  BY DEF Subscribe, Unsubscribe, ToldInv, LogInv, Types
<1>1. PICK gone : /\ subs[p] \ gone \subseteq subs'[p] /\ gone \in SUBSET subs[p]
                  /\ \A i \in Ids : owed'[p][i] = owed[p][i] \ gone
                  /\ subs' \in [Procs -> SUBSET Nat] /\ nsubs' \in [Procs -> Nat]
                  /\ owed' \in [Procs -> [Ids -> SUBSET Nat]]
  <2>1. CASE Subscribe(p)
    <3>1. nsubs[p] \in Nat /\ subs \in [Procs -> SUBSET Nat] /\ owed \in [Procs -> [Ids -> SUBSET Nat]]
      BY <1>0 DEF FrameTypes
    <3>2. subs[p] \cup {nsubs[p]} \in SUBSET Nat
      BY <3>1
    <3>3. subs' \in [Procs -> SUBSET Nat] /\ subs'[p] = subs[p] \cup {nsubs[p]} /\ owed' = owed
      BY <2>1, <3>1, <3>2 DEF Subscribe
    <3>4. nsubs' \in [Procs -> Nat]
      BY <1>0, <2>1, <3>1 DEF Subscribe, FrameTypes
    <3>5. {} \in SUBSET subs[p] /\ \A i \in Ids : owed'[p][i] = owed[p][i] \ {}
      BY <3>3
    <3> QED BY <3>1, <3>3, <3>4, <3>5
  <2>2. CASE Unsubscribe(p)
    <3>1. PICK s \in subs[p] : /\ subs' = [subs EXCEPT ![p] = @ \ {s}]
                               /\ owed' = [owed EXCEPT ![p] = [i \in Ids |-> owed[p][i] \ {s}]]
      BY <2>2 DEF Unsubscribe
    <3>2. subs \in [Procs -> SUBSET Nat] /\ owed \in [Procs -> [Ids -> SUBSET Nat]] /\ nsubs' \in [Procs -> Nat]
      BY <1>0, <2>2 DEF FrameTypes, Unsubscribe
    <3>3. [i \in Ids |-> owed[p][i] \ {s}] \in [Ids -> SUBSET Nat]
      BY <3>2
    <3>4. owed' \in [Procs -> [Ids -> SUBSET Nat]] /\ owed'[p] = [i \in Ids |-> owed[p][i] \ {s}]
      BY <3>1, <3>2, <3>3
    <3>5. subs' \in [Procs -> SUBSET Nat] /\ subs'[p] = subs[p] \ {s}
      BY <3>1, <3>2
    <3> QED BY <3>2, <3>4, <3>5
  <2> QED BY <2>1, <2>2
<1>2. FrameTypes'
  BY <1>0, <1>1 DEF FrameTypes
<1>3. \A i : (Framed(p, i)' <=> Framed(p, i)) /\ (Handed(p, i)' <=> Handed(p, i))
  BY <1>0 DEF Framed, Handed, EventAt
<1>4. CallIdsOnce(p)' /\ Unheard(p)'
  BY <1>0, <1>3 DEF ToldRight, CallIdsOnce, Unheard
<1>5. FrameIdsOnce(p)'
  BY <1>0, <1>3 DEF ToldRight, FrameIdsOnce, EventAt
<1>6. SettledIsTold(p)'
  BY <1>0, <1>1, <1>3 DEF ToldRight, SettledIsTold
<1>7. ASSUME NEW k \in DOMAIN stack[p] PROVE FrameRight(p, stack[p][k])'
  <2>1. PICK h : h = stack[p][k]
    OBVIOUS
  <2>2. stack'[p][k] = h /\ FrameRight(p, h) /\ h \in AnyFrame
    BY <1>0, <1>7, <2>1 DEF ToldRight, FramesRight, FrameTypes
  <2>3. \A n \in DOMAIN h.es : h.es[n].id \in Ids
    <3> TAKE n \in DOMAIN h.es
    <3>1. h.es[n].id \in 1 .. ids
      BY <1>0, <1>7, <2>1 DEF ToldRight, FrameIdsOnce, EventAt
    <3> QED BY <3>1, IdsAre
  <2>4. h.es # <<>> => 1 \in DOMAIN h.es
    BY <2>2 DEF AnyFrame
  <2>5. HeadTold(p, h)'
    BY <1>0, <1>1, <2>2, <2>3, <2>4 DEF FrameRight, HeadTold
  <2>6. TailWaits(p, h)'
    <3>1. ASSUME NEW n \in DOMAIN h.es, n > 1
          PROVE  told'[p][h.es[n].id] = {} /\ owed'[p][h.es[n].id] \subseteq subs'[p]
      <4>1. told[p][h.es[n].id] = {} /\ owed[p][h.es[n].id] \subseteq subs[p]
        BY <2>2, <3>1 DEF FrameRight, TailWaits
      <4> QED BY <1>0, <1>1, <2>3, <4>1
    <3> QED BY <3>1 DEF TailWaits
  <2>7. FrameRight(p, h)'
    BY <2>2, <2>5, <2>6 DEF FrameRight
  <2> QED BY <2>2, <2>7
<1>8. FramesRight(p)'
  BY <1>0, <1>7 DEF FramesRight
<1> QED BY <1>2, <1>4, <1>5, <1>6, <1>8 DEF ToldRight

\* Events that nobody has heard are told: a frame more, which all the subscriptions
\* are owed. With no frame before it, the histories start anew.
LEMMA TellRight ==
  ASSUME ToldInv, NEW p \in Procs, NEW es \in Seq(AnyEvent), Tell(p, es),
         \A n \in DOMAIN es : /\ es[n].id \in 1 .. ids' /\ told[p][es[n].id] = {}
                              /\ ~Framed(p, es[n].id) /\ ~Handed(p, es[n].id)',
         \A n, m \in DOMAIN es : es[n].id = es[m].id => n = m,
         call'[p].es \in {call[p].es, <<>>}, ids' \in Nat, ids' >= ids, ids' <= MaxEvents,
         UNCHANGED <<subs, nsubs, twice>>
  PROVE  FrameTypes' /\ ToldRight(p)'
<1> DEFINE before == IF stack[p] = <<>> THEN Nobody ELSE owed[p]
           in(i) == \E n \in DOMAIN es : es[n].id = i
<1>a. PICK f, top : f = [es |-> es, cur |-> None, last |-> 0] /\ top = Len(stack[p]) + 1
  OBVIOUS
<1>0. /\ FrameTypes /\ ToldRight(p) /\ ids \in Nat /\ f \in AnyFrame
      /\ f.es = es /\ f.cur = None /\ f.last = 0
  BY <1>a DEF AnyFrame, ToldInv, LogInv, Types
<1>b. \A i \in 1 .. ids' : i \in Ids
  BY EventLogAssumption DEF Ids
<1>1. /\ stack' \in [Procs -> Seq(AnyFrame)] /\ top \in Nat \ {0}
      /\ DOMAIN stack[p] = 1 .. top - 1 /\ DOMAIN stack'[p] = 1 .. top /\ stack'[p][top] = f
      /\ \A k \in DOMAIN stack[p] : stack'[p][k] = stack[p][k] /\ k # top
  <2>1. stack[p] \in Seq(AnyFrame) /\ stack \in [Procs -> Seq(AnyFrame)]
    BY <1>0 DEF FrameTypes
  <2>2. Append(stack[p], f) \in Seq(AnyFrame)
    BY <1>0, <2>1
  <2>3. stack' = [stack EXCEPT ![p] = Append(stack[p], f)]
    BY <1>a DEF Tell
  <2>4. stack'[p] = Append(stack[p], f) /\ stack' \in [Procs -> Seq(AnyFrame)]
    BY <2>1, <2>2, <2>3
  <2>5. Len(stack[p]) \in Nat /\ DOMAIN stack[p] = 1 .. Len(stack[p])
    BY <2>1
  <2>6. top \in Nat \ {0} /\ DOMAIN stack[p] = 1 .. top - 1
    BY <1>a, <2>5
  <2>7. DOMAIN Append(stack[p], f) = 1 .. Len(stack[p]) + 1 /\ Append(stack[p], f)[Len(stack[p]) + 1] = f
    BY <1>0, <2>1
  <2>8. \A k \in DOMAIN stack[p] : Append(stack[p], f)[k] = stack[p][k] /\ k # Len(stack[p]) + 1
    BY <1>0, <2>1, <2>5
  <2> QED BY <1>a, <2>4, <2>6, <2>7, <2>8
<1>2. Nobody \in [Ids -> SUBSET Nat] /\ \A i \in Ids : Nobody[i] = {}
  BY DEF Nobody
<1>3. /\ told' \in [Procs -> [Ids -> SUBSET Nat]]
      /\ \A i \in Ids : told'[p][i] = IF stack[p] = <<>> THEN {} ELSE told[p][i]
  BY <1>0, <1>2 DEF Tell, FrameTypes
<1>4. /\ owed' \in [Procs -> [Ids -> SUBSET Nat]]
      /\ \A i \in Ids : owed'[p][i] = IF in(i) THEN subs[p] ELSE before[i]
  <2>1. before \in [Ids -> SUBSET Nat] /\ subs[p] \in SUBSET Nat /\ owed \in [Procs -> [Ids -> SUBSET Nat]]
    BY <1>0, <1>2 DEF FrameTypes
  <2>2. owed' = [owed EXCEPT ![p] = [i \in Ids |-> IF in(i) THEN subs[p] ELSE before[i]]]
    BY DEF Tell
  <2> HIDE DEF before, in
  <2>3. [i \in Ids |-> IF in(i) THEN subs[p] ELSE before[i]] \in [Ids -> SUBSET Nat]
    BY <2>1
  <2> QED BY <2>1, <2>2, <2>3
<1>5. FrameTypes'
  <2>1. /\ subs' \in [Procs -> SUBSET Nat] /\ nsubs' \in [Procs -> Nat] /\ twice' \in BOOLEAN
    BY <1>0 DEF FrameTypes
  <2>2. /\ stack' \in [Procs -> Seq(AnyFrame)]
        /\ told' \in [Procs -> [Ids -> SUBSET Nat]] /\ owed' \in [Procs -> [Ids -> SUBSET Nat]]
    BY <1>1, <1>3, <1>4
  <2> QED BY <2>1, <2>2 DEF FrameTypes
<1>6. \A i : Handed(p, i)' => Handed(p, i)
  BY DEF Handed
<1>7. CallIdsOnce(p)'
  <2>1. CallIdsOnce(p)
    BY <1>0 DEF ToldRight
  <2>2. CASE call'[p].es = <<>>
    BY <2>2 DEF CallIdsOnce
  <2>3. CASE call'[p].es = call[p].es
    <3>1. \A i \in 1 .. ids : i \in 1 .. ids'
      BY <1>0
    <3> QED BY <2>1, <2>3, <3>1 DEF CallIdsOnce
  <2> QED BY <2>2, <2>3
<1>8. Unheard(p)'
  BY <1>0, <1>3, <1>6 DEF ToldRight, Unheard, Ids
<1>9. /\ \A k \in DOMAIN stack[p] : \A n : EventAt(p, k, n)' = EventAt(p, k, n)
      /\ \A n : EventAt(p, top, n)' = es[n]
  BY <1>0, <1>1 DEF EventAt
<1>10. \A k \in DOMAIN stack[p] : \A n \in DOMAIN stack[p][k].es :
         Framed(p, EventAt(p, k, n).id) /\ ~in(EventAt(p, k, n).id)
  <2>1. \A k \in DOMAIN stack[p] : \A n \in DOMAIN stack[p][k].es : Framed(p, EventAt(p, k, n).id)
    BY DEF Framed
  <2> QED BY <2>1
<1>11. FrameIdsOnce(p)'
  <2>1. FrameIdsOnce(p)
    BY <1>0 DEF ToldRight
  <2>2. ASSUME NEW k \in 1 .. top, NEW n \in DOMAIN stack'[p][k].es
        PROVE  EventAt(p, k, n)'.id \in 1 .. ids' /\ ~Handed(p, EventAt(p, k, n).id)'
    <3>1. CASE k = top
      BY <1>0, <1>1, <1>9, <2>2, <3>1
    <3>2. CASE k # top
      <4>1. k \in DOMAIN stack[p] /\ n \in DOMAIN stack[p][k].es
        BY <1>1, <2>2, <3>2
      <4>2. EventAt(p, k, n).id \in 1 .. ids /\ ~Handed(p, EventAt(p, k, n).id)
        BY <2>1, <4>1 DEF FrameIdsOnce
      <4>3. EventAt(p, k, n)' = EventAt(p, k, n)
        BY <1>9, <4>1
      <4> QED BY <1>0, <1>6, <4>2, <4>3
    <3> QED BY <3>1, <3>2
  <2>3. ASSUME NEW k \in 1 .. top, NEW n \in DOMAIN stack'[p][k].es,
               NEW l \in 1 .. top, NEW m \in DOMAIN stack'[p][l].es,
               EventAt(p, k, n)'.id = EventAt(p, l, m)'.id
        PROVE  k = l /\ n = m
    <3>1. CASE k = top /\ l = top
      BY <1>0, <1>1, <1>9, <2>3, <3>1
    <3>2. CASE k # top /\ l # top
      <4>1. /\ k \in DOMAIN stack[p] /\ n \in DOMAIN stack[p][k].es
            /\ l \in DOMAIN stack[p] /\ m \in DOMAIN stack[p][l].es
        <5>1. k \in DOMAIN stack[p] /\ l \in DOMAIN stack[p]
          BY <1>1, <3>2
        <5> QED BY <1>1, <2>3, <5>1
      <4>2. EventAt(p, k, n).id = EventAt(p, l, m).id
        BY <1>9, <2>3, <4>1
      <4> QED BY <2>1, <4>1, <4>2 DEF FrameIdsOnce
    <3>3. CASE k = top /\ l # top
      <4>1. l \in DOMAIN stack[p] /\ m \in DOMAIN stack[p][l].es /\ n \in DOMAIN es
        <5>1. l \in DOMAIN stack[p] /\ stack'[p][k] = f
          BY <1>1, <3>3
        <5> QED BY <1>0, <1>1, <2>3, <5>1
      <4> QED BY <1>9, <1>10, <2>3, <3>3, <4>1
    <3>4. CASE k # top /\ l = top
      <4>1. k \in DOMAIN stack[p] /\ n \in DOMAIN stack[p][k].es /\ m \in DOMAIN es
        <5>1. k \in DOMAIN stack[p] /\ stack'[p][l] = f
          BY <1>1, <3>4
        <5> QED BY <1>0, <1>1, <2>3, <5>1
      <4> QED BY <1>9, <1>10, <2>3, <3>4, <4>1
    <3> QED BY <3>1, <3>2, <3>3, <3>4
  <2> QED BY <1>1, <2>2, <2>3 DEF FrameIdsOnce
<1>12. ASSUME NEW k \in DOMAIN stack[p] PROVE FrameRight(p, stack[p][k])'
  <2>1. PICK h : h = stack[p][k]
    OBVIOUS
  <2>2. stack'[p][k] = h /\ FrameRight(p, h) /\ h \in AnyFrame
    BY <1>0, <1>1, <1>12, <2>1 DEF ToldRight, FramesRight, FrameTypes
  <2>3. stack[p] # <<>>
    BY <1>0, <1>12 DEF FrameTypes
  <2>4. \A n \in DOMAIN h.es : h.es[n].id \in Ids /\ ~in(h.es[n].id)
    <3> TAKE n \in DOMAIN h.es
    <3>1. EventAt(p, k, n) = h.es[n] /\ h.es[n].id \in 1 .. ids
      BY <1>0, <1>12, <2>1 DEF ToldRight, FrameIdsOnce, EventAt
    <3>2. ~in(EventAt(p, k, n).id)
      BY <1>10, <1>12, <2>1
    <3> HIDE DEF in
    <3> QED BY <3>1, <3>2, IdsAre
  <2>5. \A n \in DOMAIN h.es : /\ told'[p][h.es[n].id] = told[p][h.es[n].id]
                               /\ owed'[p][h.es[n].id] = owed[p][h.es[n].id]
    <3> HIDE DEF in
    <3> QED BY <1>3, <1>4, <2>3, <2>4
  <2>6. h.es # <<>> => 1 \in DOMAIN h.es
    BY <2>2 DEF AnyFrame
  <2>7. FrameRight(p, h)'
    BY <2>2, <2>5, <2>6 DEF FrameRight, HeadTold, TailWaits
  <2> QED BY <2>2, <2>7
<1>13. FrameRight(p, f)'
  <2>1. \A n \in DOMAIN es : told'[p][es[n].id] = {} /\ owed'[p][es[n].id] = subs[p]
    <3> TAKE n \in DOMAIN es
    <3>1. es[n].id \in Ids /\ in(es[n].id)
      BY <1>b
    <3> HIDE DEF in
    <3> QED BY <1>3, <1>4, <3>1
  <2>2. es # <<>> => 1 \in DOMAIN es
    OBVIOUS
  <2>3. \A s \in subs[p] : s >= 0
    BY <1>0 DEF FrameTypes
  <2> QED BY <1>0, <2>1, <2>2, <2>3 DEF FrameRight, HeadTold, TailWaits
<1>14. FramesRight(p)'
  <2>1. ASSUME NEW k \in DOMAIN stack'[p] PROVE FrameRight(p, stack[p][k])'
    <3>1. CASE k = top
      BY <1>1, <1>13, <3>1
    <3>2. CASE k # top
      <4>1. k \in DOMAIN stack[p]
        BY <1>1, <2>1, <3>2
      <4> QED BY <1>12, <4>1
    <3> QED BY <3>1, <3>2
  <2> QED BY <2>1 DEF FramesRight
<1>15. SettledIsTold(p)'
  <2> SUFFICES ASSUME NEW i \in Ids, ~Framed(p, i)' PROVE owed'[p][i] \subseteq told'[p][i]
    BY DEF SettledIsTold
  <2>1. ~in(i)
    <3> SUFFICES ASSUME NEW n \in DOMAIN es, es[n].id = i PROVE FALSE
      OBVIOUS
    <3>1. top \in DOMAIN stack'[p] /\ n \in DOMAIN stack'[p][top].es /\ EventAt(p, top, n)'.id = i
      <4>1. top \in DOMAIN stack'[p] /\ stack'[p][top].es = es
        BY <1>0, <1>1
      <4> QED BY <1>9, <4>1
    <3> QED BY <3>1 DEF Framed
  <2>2. ~Framed(p, i)
    <3> SUFFICES ASSUME NEW k \in DOMAIN stack[p], NEW n \in DOMAIN stack[p][k].es, EventAt(p, k, n).id = i
                 PROVE  FALSE
      BY DEF Framed
    <3>1. k \in DOMAIN stack'[p] /\ n \in DOMAIN stack'[p][k].es /\ EventAt(p, k, n)'.id = i
      BY <1>1, <1>9
    <3> QED BY <3>1 DEF Framed
  <2> HIDE DEF in
  <2>3. CASE stack[p] = <<>>
    BY <1>2, <1>4, <2>1, <2>3
  <2>4. CASE stack[p] # <<>>
    BY <1>0, <1>3, <1>4, <2>1, <2>2, <2>4 DEF ToldRight, SettledIsTold
  <2> QED BY <2>3, <2>4
<1> QED BY <1>5, <1>7, <1>8, <1>11, <1>14, <1>15 DEF ToldRight

\* What is inserted is of what was handed over, each event once.
LEMMA NewIsHanded ==
  ASSUME Types, NEW p \in Procs, CallIdsOnce(p)
  PROVE  /\ New(p) \in Seq(AnyEvent)
         /\ \A n \in DOMAIN New(p) : Handed(p, New(p)[n].id)
         /\ \A n, m \in DOMAIN New(p) : New(p)[n].id = New(p)[m].id => n = m
<1>a. PICK es : es = call[p].es
  OBVIOUS
<1>1. /\ es \in Seq(AnyEvent) /\ DOMAIN es = 1 .. Len(es) /\ Len(es) \in Nat /\ Len(es) <= 2
      /\ \A n, m \in DOMAIN es : es[n].id = es[m].id => n = m
  BY <1>a DEF Types, AnyCall, CallIdsOnce
<1>2. CASE ~call[p].batch
  BY <1>a, <1>1, <1>2 DEF New, Handed
<1>3. CASE call[p].batch
  <2> DEFINE kept == {n \in DOMAIN es : ~Stored(es[n].key)}
             upto(n) == {m \in kept : m <= n}
             Nth(i) == CHOOSE n \in kept : Cardinality({m \in kept : m <= n}) = i
  <2>1. New(p) = [i \in 1 .. Cardinality(kept) |-> es[Nth(i)]]
    BY <1>a, <1>3 DEF New, NotStored
  <2>2. kept \subseteq DOMAIN es /\ kept \in SUBSET {1, 2}
    BY <1>1
  <2> HIDE DEF kept
  <2>3. Cardinality({}) = 0 /\ Cardinality({1}) = 1 /\ Cardinality({2}) = 1
    BY FS_EmptySet, FS_Singleton
  <2>4. Cardinality({1, 2}) = 2
    <3>1. IsFiniteSet({1}) /\ 2 \notin {1}
      <4>1. IsFiniteSet({1})
        BY FS_Singleton
      <4> QED BY <4>1
    <3>2. {1} \cup {2} = {1, 2}
      OBVIOUS
    <3> QED BY <2>3, <3>1, <3>2, FS_AddElement
  <2>5. kept = {} \/ kept = {1} \/ kept = {2} \/ kept = {1, 2}
    BY <2>2
  <2>6. \A i \in 1 .. Cardinality(kept) : \E n \in kept : Cardinality({m \in kept : m <= n}) = i
    <3>1. CASE kept = {}
      BY <2>3, <3>1
    <3>2. CASE kept = {1}
      <4>1. {m \in kept : m <= 1} = {1}
        BY <3>2
      <4> QED BY <2>3, <3>2, <4>1
    <3>3. CASE kept = {2}
      <4>1. {m \in kept : m <= 2} = {2}
        BY <3>3
      <4> QED BY <2>3, <3>3, <4>1
    <3>4. CASE kept = {1, 2}
      <4>1. {m \in kept : m <= 1} = {1} /\ {m \in kept : m <= 2} = {1, 2}
        BY <3>4
      <4> QED BY <2>3, <2>4, <3>4, <4>1
    <3> QED BY <2>5, <3>1, <3>2, <3>3, <3>4
  <2>7. \A i \in 1 .. Cardinality(kept) : Nth(i) \in kept /\ Cardinality({m \in kept : m <= Nth(i)}) = i
    BY <2>6
  <2> HIDE DEF Nth
  <2>8. Cardinality(kept) \in Nat
    BY <2>3, <2>4, <2>5
  <2>9. \A i \in 1 .. Cardinality(kept) : es[Nth(i)] \in AnyEvent /\ Nth(i) \in DOMAIN es
    <3> TAKE i \in 1 .. Cardinality(kept)
    <3>1. Nth(i) \in DOMAIN es
      BY <2>2, <2>7
    <3> QED BY <1>1, <3>1
  <2>10. New(p) \in Seq(AnyEvent) /\ DOMAIN New(p) = 1 .. Cardinality(kept)
    BY <2>1, <2>8, <2>9
  <2>11. \A n \in DOMAIN New(p) : Handed(p, New(p)[n].id)
    BY <1>a, <2>1, <2>9, <2>10 DEF Handed
  <2>12. \A n, m \in DOMAIN New(p) : New(p)[n].id = New(p)[m].id => n = m
    <3> SUFFICES ASSUME NEW n \in 1 .. Cardinality(kept), NEW m \in 1 .. Cardinality(kept),
                        es[Nth(n)].id = es[Nth(m)].id
                 PROVE  n = m
      BY <2>1, <2>10
    <3>1. Nth(n) = Nth(m)
      BY <1>1, <2>9
    <3>2. Cardinality({k \in kept : k <= Nth(n)}) = n /\ Cardinality({k \in kept : k <= Nth(m)}) = m
      BY <2>7
    <3> QED BY <3>1, <3>2
  <2> QED BY <2>10, <2>11, <2>12
<1> QED BY <1>2, <1>3

------------------------------------------------------------------------------
(* Every step keeps it.                                                    *)

\* A step of one process leaves what the others tell alone.
LEMMA OthersRight ==
  ASSUME ToldInv, NEW p \in Procs, Step(p), NEW q \in Procs, q # p
  PROVE  ToldRight(q)'
<1>0. /\ FrameTypes /\ ToldRight(q) /\ ids \in Nat /\ call \in [Procs -> AnyCall]
      /\ stack \in [Procs -> Seq(AnyFrame)]
  BY DEF ToldInv, LogInv, Types, FrameTypes
<1>1. ids' \in Nat /\ ids' >= ids
  <2>1. ids' \in {ids, ids + 1, ids + 2}
    BY DEF Step, AppendOne, AppendBatch, AppendChunk, Lookup, Begin, Busy, Commit, Constraint,
           WriteFails, Rollback, Handle, HandlerReturns, NextEvent, Subscribe, Unsubscribe, Restart
  <2> QED BY <1>0, <2>1
<1>2. call'[q] = call[q]
  BY <1>0 DEF Step, AppendOne, AppendBatch, AppendChunk, Lookup, Begin, Busy, Commit, Constraint,
     WriteFails, Rollback, Returns, Handle, HandlerReturns, NextEvent, Subscribe, Unsubscribe, Restart
<1>3. /\ stack'[q] = stack[q] /\ told'[q] = told[q] /\ owed'[q] = owed[q] /\ subs'[q] = subs[q]
  <2>1. CASE Handle(p) \/ HandlerReturns(p) \/ NextEvent(p)
    BY <1>0, <2>1 DEF Handle, HandlerReturns, NextEvent, SetFrame, FrameTypes
  <2>2. CASE Subscribe(p) \/ Unsubscribe(p) \/ Restart(p)
    BY <1>0, <2>2 DEF Subscribe, Unsubscribe, Restart, FrameTypes
  <2>3. CASE AppendChunk(p) \/ Commit(p)
    BY <1>0, <2>3 DEF AppendChunk, Commit, Tell, FrameTypes
  <2>4. CASE \/ \E k \in Keys \cup {NoKey} : AppendOne(p, k)
             \/ \E k, l \in Keys \cup {NoKey} : AppendBatch(p, k, l)
             \/ Lookup(p) \/ Begin(p) \/ Busy(p) \/ Constraint(p) \/ WriteFails(p)
    BY <2>4 DEF AppendOne, AppendBatch, Lookup, Begin, Busy, Constraint, WriteFails, Rollback, tellVars
  <2> QED BY <2>1, <2>2, <2>3, <2>4 DEF Step
<1> QED BY <1>0, <1>1, <1>2, <1>3, LeftAlone

\* What the process itself tells stays right.
LEMMA OwnRight ==
  ASSUME ToldInv, NEW p \in Procs, Step(p)
  PROVE  FrameTypes' /\ ~twice' /\ ids' <= MaxEvents /\ ToldRight(p)'
<1>0. /\ FrameTypes /\ ~twice /\ ToldRight(p) /\ ids \in Nat /\ ids <= MaxEvents /\ Types
      /\ call \in [Procs -> AnyCall] /\ MaxEvents \in Nat
  BY EventLogAssumption DEF ToldInv, LogInv, Types
<1>1. ASSUME UNCHANGED tellVars, ids' \in Nat, ids' >= ids, ids' <= MaxEvents,
             \/ call'[p].es = call[p].es \/ call'[p].es = <<>>
             \/ /\ Len(call'[p].es) <= 2
                /\ \A n \in DOMAIN call'[p].es : call'[p].es[n].id \in ids + 1 .. ids'
                /\ \A n, m \in DOMAIN call'[p].es : call'[p].es[n].id = call'[p].es[m].id => n = m
      PROVE  FrameTypes' /\ ~twice' /\ ids' <= MaxEvents /\ ToldRight(p)'
  <2>1. FrameTypes' /\ ~twice'
    BY <1>0, <1>1 DEF tellVars, FrameTypes
  <2>2. ToldRight(p)'
    BY <1>1, CallsRight DEF tellVars
  <2> QED BY <1>1, <2>1, <2>2
<1>2. ASSUME NEW k \in Keys \cup {NoKey}, AppendOne(p, k)
      PROVE  FrameTypes' /\ ~twice' /\ ids' <= MaxEvents /\ ToldRight(p)'
  <2>1. call'[p].es = <<Event(p, k, 1)>> /\ ids' = ids + 1 /\ ids < MaxEvents /\ UNCHANGED tellVars
    BY <1>0, <1>2 DEF AppendOne, Call
  <2>2. Event(p, k, 1).id = ids + 1
    BY DEF Event
  <2>3. Len(call'[p].es) = 1 /\ \A n \in DOMAIN call'[p].es : n = 1 /\ call'[p].es[n].id = ids + 1
    BY <2>1, <2>2
  <2> QED BY <1>0, <1>1, <2>1, <2>3
<1>3. ASSUME NEW k \in Keys \cup {NoKey}, NEW l \in Keys \cup {NoKey}, AppendBatch(p, k, l)
      PROVE  FrameTypes' /\ ~twice' /\ ids' <= MaxEvents /\ ToldRight(p)'
  <2>1. /\ call'[p].es = <<Event(p, k, 1), Event(p, l, 2)>> /\ ids' = ids + 2
        /\ ids + 2 <= MaxEvents /\ UNCHANGED tellVars
    BY <1>0, <1>3 DEF AppendBatch, Call
  <2>2. Event(p, k, 1).id = ids + 1 /\ Event(p, l, 2).id = ids + 2
    BY DEF Event
  <2>3. /\ Len(call'[p].es) = 2
        /\ \A n \in DOMAIN call'[p].es : (n = 1 \/ n = 2) /\ call'[p].es[n].id = ids + n
    BY <2>1, <2>2
  <2>4. /\ \A n \in DOMAIN call'[p].es : call'[p].es[n].id \in ids + 1 .. ids'
        /\ \A n, m \in DOMAIN call'[p].es : call'[p].es[n].id = call'[p].es[m].id => n = m
    BY <1>0, <2>1, <2>3
  <2> QED BY <1>0, <1>1, <2>1, <2>3, <2>4
<1>4. CASE Lookup(p) \/ Begin(p) \/ Busy(p) \/ Constraint(p) \/ WriteFails(p)
  <2>1. UNCHANGED <<ids, tellVars>>
    BY <1>4 DEF Lookup, Begin, Busy, Constraint, WriteFails, Rollback
  <2>2. NoCall.es = <<>> /\ call[p] \in AnyCall
    BY <1>0 DEF NoCall, Call
  <2>3. call'[p].es = call[p].es \/ call'[p].es = <<>>
    BY <1>0, <1>4, <2>2 DEF Lookup, Begin, Busy, Constraint, WriteFails, Rollback, Returns, AnyCall
  <2> QED BY <1>0, <1>1, <2>1, <2>3
<1>5. CASE AppendChunk(p)
  <2>a. PICK es : es = <<Event(p, NoKey, 1)>>
    OBVIOUS
  <2>1. Tell(p, es) /\ ids' = ids + 1 /\ ids < MaxEvents /\ UNCHANGED <<call, subs, nsubs, twice>>
    BY <1>5, <2>a DEF AppendChunk
  <2>2. Event(p, NoKey, 1) \in AnyEvent /\ Event(p, NoKey, 1).id = ids + 1
    BY <1>0 DEF Event, AnyEvent
  <2>3. es \in Seq(AnyEvent) /\ \A n \in DOMAIN es : n = 1 /\ es[n].id = ids + 1
    BY <2>2, <2>a
  <2>4. told[p][ids + 1] = {}
    <3>1. ids + 1 \in Ids /\ ids + 1 > ids
      BY <1>0, <2>1 DEF Ids
    <3> QED BY <1>0, <3>1 DEF ToldRight, Unheard
  <2>5. ~Framed(p, ids + 1) /\ ~Handed(p, ids + 1)
    <3>1. ASSUME NEW k \in DOMAIN stack[p], NEW n \in DOMAIN stack[p][k].es, EventAt(p, k, n).id = ids + 1
          PROVE  FALSE
      BY <1>0, <3>1 DEF ToldRight, FrameIdsOnce
    <3>2. ASSUME NEW n \in DOMAIN call[p].es, call[p].es[n].id = ids + 1 PROVE FALSE
      BY <1>0, <3>2 DEF ToldRight, CallIdsOnce
    <3> QED BY <3>1, <3>2 DEF Framed, Handed
  <2>6. \A i : Handed(p, i)' <=> Handed(p, i)
    BY <2>1 DEF Handed
  <2>7. \A n \in DOMAIN es : /\ es[n].id \in 1 .. ids' /\ told[p][es[n].id] = {}
                             /\ ~Framed(p, es[n].id) /\ ~Handed(p, es[n].id)'
    <3>1. ids + 1 \in 1 .. ids'
      BY <1>0, <2>1
    <3>2. ~Handed(p, ids + 1)
      BY <2>5
    <3> TAKE n \in DOMAIN es
    <3>3. es[n].id = ids + 1
      BY <2>3
    <3>4. ~Handed(p, es[n].id)'
      BY <2>6, <3>2, <3>3
    <3> QED BY <2>4, <2>5, <3>1, <3>3, <3>4
  <2>8. FrameTypes' /\ ToldRight(p)'
    <3>1. ids' \in Nat /\ ids' >= ids /\ ids' <= MaxEvents /\ call'[p].es \in {call[p].es, <<>>}
      BY <1>0, <2>1
    <3>2. \A n, m \in DOMAIN es : es[n].id = es[m].id => n = m
      BY <2>3
    <3>3. es \in Seq(AnyEvent) /\ Tell(p, es) /\ UNCHANGED <<subs, nsubs, twice>>
      BY <2>1, <2>3
    <3> QED BY <2>7, <3>1, <3>2, <3>3, TellRight
  <2> QED BY <1>0, <2>1, <2>8
<1>6. CASE Commit(p)
  <2>1. Tell(p, New(p)) /\ UNCHANGED <<subs, nsubs, twice, ids>> /\ call'[p].es = <<>>
    BY <1>0, <1>6 DEF Commit, Returns, NoCall, Call
  <2>a. PICK es : es = New(p)
    OBVIOUS
  <2>2. /\ es \in Seq(AnyEvent) /\ \A n \in DOMAIN es : Handed(p, es[n].id)
        /\ \A n, m \in DOMAIN es : es[n].id = es[m].id => n = m
    BY <1>0, <2>a, NewIsHanded DEF ToldRight
  <2>3. ASSUME NEW i, Handed(p, i)
        PROVE  i \in 1 .. ids /\ told[p][i] = {} /\ ~Framed(p, i) /\ ~Handed(p, i)'
    <3>1. i \in 1 .. ids
      BY <1>0, <2>3 DEF ToldRight, CallIdsOnce, Handed
    <3>2. told[p][i] = {}
      BY <1>0, <2>3, <3>1, IdsAre DEF ToldRight, Unheard
    <3>3. ~Framed(p, i)
      BY <1>0, <2>3 DEF ToldRight, FrameIdsOnce, Framed
    <3>4. ~Handed(p, i)'
      BY <2>1 DEF Handed
    <3> QED BY <3>1, <3>2, <3>3, <3>4
  <2>4. Tell(p, es)
    BY <2>1, <2>a
  <2>5. FrameTypes' /\ ToldRight(p)'
    <3>1. ids' \in Nat /\ ids' >= ids /\ ids' <= MaxEvents /\ call'[p].es \in {call[p].es, <<>>}
      BY <1>0, <2>1
    <3>2. \A n \in DOMAIN es : /\ es[n].id \in 1 .. ids' /\ told[p][es[n].id] = {}
                               /\ ~Framed(p, es[n].id) /\ ~Handed(p, es[n].id)'
      BY <2>1, <2>2, <2>3
    <3> QED BY <2>1, <2>2, <2>4, <3>1, <3>2, TellRight
  <2> QED BY <1>0, <2>1, <2>5
<1>7. CASE Handle(p)
  BY <1>0, <1>7, HandleRight DEF Handle
<1>8. CASE HandlerReturns(p)
  BY <1>0, <1>8, ReturnRight DEF HandlerReturns
<1>9. CASE NextEvent(p)
  BY <1>0, <1>9, NextEventRight DEF NextEvent
<1>10. CASE Subscribe(p) \/ Unsubscribe(p)
  BY <1>0, <1>10, SubscriptionsRight DEF Subscribe, Unsubscribe
<1>11. CASE Restart(p)
  <2>1. call'[p].es = <<>> /\ stack'[p] = <<>> /\ told'[p] = Nobody /\ owed'[p] = Nobody
    BY <1>0, <1>11 DEF Restart, Returns, NoCall, Call, FrameTypes
  <2>2. <<>> \in Seq(AnyFrame) /\ Nobody \in [Ids -> SUBSET Nat] /\ {} \in SUBSET Nat /\ 0 \in Nat
    BY DEF Nobody
  <2>3. UNCHANGED <<ids, twice>>
    BY <1>11 DEF Restart
  <2>4. stack' = [stack EXCEPT ![p] = <<>>] /\ subs' = [subs EXCEPT ![p] = {}]
        /\ nsubs' = [nsubs EXCEPT ![p] = 0]
        /\ told' = [told EXCEPT ![p] = Nobody] /\ owed' = [owed EXCEPT ![p] = Nobody]
    BY <1>11 DEF Restart
  <2>5. FrameTypes'
    <3> HIDE DEF Nobody
    <3> QED BY <1>0, <2>2, <2>3, <2>4 DEF FrameTypes
  <2>6. ToldRight(p)'
    BY <2>1 DEF ToldRight, CallIdsOnce, FrameIdsOnce, Unheard, FramesRight, SettledIsTold, Nobody
  <2> QED BY <1>0, <2>3, <2>5, <2>6
<1> QED BY <1>2, <1>3, <1>4, <1>5, <1>6, <1>7, <1>8, <1>9, <1>10, <1>11 DEF Step

\* Every step keeps the invariant.
LEMMA ToldStep == ToldInv /\ [Next]_vars => ToldInv'
<1> SUFFICES ASSUME ToldInv, [Next]_vars PROVE ToldInv'
  OBVIOUS
<1>1. LogInv'
  BY LogStep DEF ToldInv
<1>2. CASE UNCHANGED vars
  <2>1. FrameTypes' /\ ids' <= MaxEvents /\ ~twice'
    BY <1>2 DEF ToldInv, vars, FrameTypes
  <2>2. \A p \in Procs : ToldRight(p)'
    <3>1. ids' = ids /\ ids \in Nat
      BY <1>2 DEF ToldInv, LogInv, Types, vars
    <3> QED BY <1>2, <3>1, LeftAlone DEF ToldInv, vars
  <2> QED BY <1>1, <2>1, <2>2 DEF ToldInv
<1>3. ASSUME NEW p \in Procs, Step(p) PROVE ToldInv'
  <2>1. FrameTypes' /\ ~twice' /\ ids' <= MaxEvents /\ ToldRight(p)'
    BY <1>3, OwnRight
  <2>2. \A q \in Procs : ToldRight(q)'
    BY <1>3, <2>1, OthersRight
  <2> QED BY <1>1, <2>1, <2>2 DEF ToldInv
<1> QED BY <1>2, <1>3 DEF Next

\* Nobody listens, and nothing is told.
LEMMA ToldInitially == Init => ToldInv
<1> SUFFICES ASSUME Init PROVE ToldInv
  OBVIOUS
<1>1. LogInv
  BY LogInitially
<1>2. FrameTypes
  <2>1. <<>> \in Seq(AnyFrame) /\ Nobody \in [Ids -> SUBSET Nat]
    BY DEF Nobody
  <2> HIDE DEF Nobody
  <2> QED BY <2>1 DEF Init, FrameTypes
<1>3. ids <= MaxEvents /\ ~twice
  BY EventLogAssumption DEF Init
<1>4. ASSUME NEW p \in Procs PROVE ToldRight(p)
  <2>1. call[p].es = <<>> /\ stack[p] = <<>> /\ told[p] = Nobody /\ owed[p] = Nobody
    BY DEF Init, NoCall, Call
  <2> QED BY <2>1 DEF ToldRight, CallIdsOnce, FrameIdsOnce, Unheard, FramesRight, SettledIsTold, Nobody
<1> QED BY <1>1, <1>2, <1>3, <1>4 DEF ToldInv

\* For any number of processes, subscribers, nested appends and faults: a subscriber
\* that stays hears each event of its process once, by the time the outermost append
\* returns, and none that was rolled back (_notify, subscribe).
THEOREM EachIsToldOnce == Spec => []ToldOnce
<1>1. ToldInv => ToldOnce
  <2> SUFFICES ASSUME ToldInv, NEW p \in Procs, stack[p] = <<>>, NEW i \in Ids
               PROVE  owed[p][i] \subseteq told[p][i]
    BY DEF ToldInv, ToldOnce
  <2>1. ~Framed(p, i)
    BY DEF Framed
  <2> QED BY <2>1 DEF ToldInv, ToldRight, SettledIsTold
<1> QED BY <1>1, ToldInitially, ToldStep, PTL DEF Spec
=============================================================================
