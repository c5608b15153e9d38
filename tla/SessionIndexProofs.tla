------------------------- MODULE SessionIndexProofs -------------------------
(***************************************************************************)
(* The session manager keeps one index in three forms: the event log, the  *)
(* snapshot with its watermark, and the rows a process changes by hand.    *)
(*                                                                         *)
(* For any number of processes (IndexInv): an index knows only what is in  *)
(* the log; every step that an operation has left agrees with its event,   *)
(* will be possible in its turn, and leads to a session that exists; no    *)
(* step takes the chat to a background thread.                             *)
(*                                                                         *)
(* For one process (SoloInv, RunsInv, Housed): its rows are the projection *)
(* of the log, and the snapshot is that of the log up to the watermark; a  *)
(* thread that a run has made stays a background one until someone makes   *)
(* it interactive.  With two processes this is not so: each upserts the    *)
(* rows it knows, stale ones included.                                     *)
(*                                                                         *)
(* The reducer is a recursion over the log.  What is proved of it for      *)
(* every log is proved from the first position where it would fail.        *)
(***************************************************************************)
EXTENDS SessionIndex, SequenceTheorems, WellFoundedInduction, TLAPS

------------------------------------------------------------------------------
(* Replays of the reducer.                                                 *)

\* A set of numbers that is not empty has a least one: what the proofs below use for
\* induction over a log.
LEMMA LeastOf == ASSUME NEW T \in SUBSET Nat, T # {} PROVE \E s \in T : \A q \in T : s <= q
<1> DEFINE R == {ss \in Nat \X Nat : ss[1] < ss[2]}
<1>1. IsWellFoundedOn(R, Nat)
  BY NatLessThanWellFounded DEF OpToRel
<1> HIDE DEF R
<1>2. PICK s \in T : \A q \in T : ~(<<q, s>> \in R)
  BY <1>1, WFMin
<1>3. ASSUME NEW q \in T PROVE s <= q
  <2>1. ~(<<q, s>> \in R)
    BY <1>2
  <2> QED BY <2>1 DEF R
<1> QED BY <1>3

\* f is the index after each event of a log.
Replays(f, l, x, a) ==
  f = [n \in 0 .. Len(l) |-> IF n <= a THEN x ELSE ApplyIndexEvent(f[n - 1], l[n], n)]

\* The recursion of Replay defines a function.
LEMMA Replayable ==
  ASSUME NEW l, Len(l) \in Nat, NEW x, NEW a \in Nat
  PROVE  \E f : Replays(f, l, x, a)
<1> DEFINE Upto(f, N) == f = [n \in 0 .. N |-> IF n <= a THEN x ELSE ApplyIndexEvent(f[n - 1], l[n], n)]
           Bad == {N \in Nat : ~\E f : Upto(f, N)}
<1>1. SUFFICES ASSUME Bad # {} PROVE FALSE
  BY DEF Replays
<1>2. PICK N \in Bad : \A q \in Bad : N <= q
  BY <1>1, LeastOf
<1>3. CASE N = 0
  <2>1. Upto([n \in 0 .. 0 |-> x], 0)
    OBVIOUS
  <2> QED BY <1>2, <1>3, <2>1
<1>4. CASE N # 0
  <2>1. N - 1 \in Nat /\ N - 1 \notin Bad
    BY <1>2, <1>4
  <2>2. PICK f : Upto(f, N - 1)
    BY <2>1
  <2> DEFINE g == [n \in 0 .. N |-> IF n <= N - 1 THEN f[n]
                                    ELSE IF n <= a THEN x ELSE ApplyIndexEvent(f[n - 1], l[n], n)]
  <2>3. \A n \in 0 .. N - 1 : g[n] = f[n]
    BY <2>1
  <2>4. \A n \in 0 .. N : g[n] = IF n <= a THEN x ELSE ApplyIndexEvent(g[n - 1], l[n], n)
    <3> SUFFICES ASSUME NEW n \in 0 .. N
                 PROVE  g[n] = IF n <= a THEN x ELSE ApplyIndexEvent(g[n - 1], l[n], n)
      OBVIOUS
    <3>1. CASE n <= a
      <4>1. n <= N - 1 => f[n] = x
        BY <2>2, <3>1
      <4> QED BY <3>1, <4>1
    <3>2. CASE ~(n <= a)
      <4>1. n - 1 \in 0 .. N - 1
        BY <3>2
      <4>2. g[n - 1] = f[n - 1]
        BY <2>3, <4>1
      <4>3. n <= N - 1 => f[n] = ApplyIndexEvent(f[n - 1], l[n], n)
        BY <2>2, <3>2
      <4> HIDE DEF g
      <4>4. g[n] = IF n <= N - 1 THEN f[n] ELSE ApplyIndexEvent(f[n - 1], l[n], n)
        BY <3>2 DEF g
      <4> QED BY <3>2, <4>2, <4>3, <4>4
    <3> QED BY <3>1, <3>2
  <2>5. g = [n \in 0 .. N |-> g[n]]
    OBVIOUS
  <2> HIDE DEF g
  <2>6. Upto(g, N)
    BY <2>4, <2>5
  <2> QED BY <1>2, <2>6
<1> QED BY <1>3, <1>4

\* A replay is the last value of a function that follows its recursion.
LEMMA ReplayIs ==
  ASSUME NEW l, Len(l) \in Nat, NEW x, NEW a \in Nat
  PROVE  \E f : Replays(f, l, x, a) /\ Replay(l, x, a) = f[Len(l)]
<1> DEFINE f == CHOOSE f : f = [n \in 0 .. Len(l) |-> IF n <= a THEN x ELSE ApplyIndexEvent(f[n - 1], l[n], n)]
<1>1. Replay(l, x, a) = f[Len(l)]
  BY DEF Replay
<1>2. f = [n \in 0 .. Len(l) |-> IF n <= a THEN x ELSE ApplyIndexEvent(f[n - 1], l[n], n)]
  <2>1. \E g : g = [n \in 0 .. Len(l) |-> IF n <= a THEN x ELSE ApplyIndexEvent(g[n - 1], l[n], n)]
    <3>1. PICK g : Replays(g, l, x, a)
      BY Replayable
    <3> QED BY <3>1 DEF Replays
  <2> QED BY <2>1, Zenon
<1> HIDE DEF f
<1> QED BY <1>1, <1>2 DEF Replays

\* Two such functions that agree at a position agree after it.
SameFrom(f, g, l, k, from, to) ==
  /\ from \in Nat /\ to \in Nat /\ from <= to /\ f[from] = g[from]
  /\ \A n \in from + 1 .. to : /\ l[n] = k[n]
                                /\ f[n] = ApplyIndexEvent(f[n - 1], l[n], n)
                                /\ g[n] = ApplyIndexEvent(g[n - 1], k[n], n)

\* Two replays that agree somewhere and see the same events from there on agree at the end.
LEMMA ReplayedTo ==
  ASSUME NEW f, NEW g, NEW l, NEW k, NEW from, NEW to, SameFrom(f, g, l, k, from, to)
  PROVE  f[to] = g[to]
<1> USE DEF SameFrom
<1> DEFINE Bad == {n \in Nat : n \in from .. to /\ f[n] # g[n]}
<1>1. SUFFICES ASSUME Bad # {} PROVE FALSE
  OBVIOUS
<1>2. PICK n \in Bad : \A q \in Bad : n <= q
  BY <1>1, LeastOf
<1>3. n # from /\ n \in from + 1 .. to /\ n - 1 \in from .. to /\ n - 1 \notin Bad /\ n - 1 \in Nat
  BY <1>2
<1>4. f[n - 1] = g[n - 1] /\ l[n] = k[n]
  BY <1>2, <1>3
<1> QED BY <1>2, <1>3, <1>4

\* Nothing after the watermark: the index is what it was.
LEMMA ReplayNone ==
  ASSUME NEW l, Len(l) \in Nat, NEW x, NEW a \in Nat, Len(l) <= a
  PROVE  Replay(l, x, a) = x
<1>1. PICK f : Replays(f, l, x, a) /\ Replay(l, x, a) = f[Len(l)]
  BY ReplayIs
<1> QED BY <1>1 DEF Replays

\* The replay of a log with one more event applies that event last.
LEMMA ReplayAppend ==
  ASSUME NEW E, NEW l \in Seq(E), NEW e \in E, NEW x, NEW a \in Nat, a <= Len(l)
  PROVE  Replay(Append(l, e), x, a) = ApplyIndexEvent(Replay(l, x, a), e, Len(l) + 1)
<1> DEFINE k == Append(l, e)
           n == Len(l)
<1>0. n \in Nat /\ Len(k) = n + 1 /\ k[n + 1] = e /\ \A i \in 1 .. n : k[i] = l[i]
  BY AppendProperties
<1> HIDE DEF k, n
<1>1. PICK f : Replays(f, l, x, a) /\ Replay(l, x, a) = f[n]
  BY <1>0, ReplayIs DEF n
<1>2. PICK g : Replays(g, k, x, a) /\ Replay(k, x, a) = g[n + 1]
  BY <1>0, ReplayIs
<1>3. f[a] = x /\ g[a] = x
  BY <1>0, <1>1, <1>2 DEF Replays, n
<1>4. f[n] = g[n]
  <2>1. \A i \in a + 1 .. n : /\ l[i] = k[i]
                              /\ f[i] = ApplyIndexEvent(f[i - 1], l[i], i)
                              /\ g[i] = ApplyIndexEvent(g[i - 1], k[i], i)
    BY <1>0, <1>1, <1>2 DEF Replays, n
  <2>2. a <= n /\ n \in Nat
    BY <1>0 DEF n
  <2>3. SameFrom(f, g, l, k, a, n)
    BY <1>3, <2>1, <2>2 DEF SameFrom
  <2> QED BY <2>3, ReplayedTo
<1>5. g[n + 1] = ApplyIndexEvent(g[n], k[n + 1], n + 1)
  BY <1>0, <1>2 DEF Replays, n
<1> QED BY <1>0, <1>1, <1>2, <1>4, <1>5 DEF k, n

\* To replay a log from the projection of a prefix is to replay all of it.
LEMMA ReplayResume ==
  ASSUME NEW E, NEW l \in Seq(E), NEW x, NEW a \in 0 .. Len(l)
  PROVE  Replay(l, Replay(SubSeq(l, 1, a), x, 0), a) = Replay(l, x, 0)
<1> DEFINE k == SubSeq(l, 1, a)
           n == Len(l)
<1>0. n \in Nat /\ a \in Nat /\ a <= n /\ Len(k) = a /\ \A i \in 1 .. a : k[i] = l[i]
  <2>1. \A i \in 1 .. a : l[i] \in E
    OBVIOUS
  <2> QED BY <2>1, SubSeqProperties
<1> HIDE DEF k, n
<1> DEFINE y == Replay(k, x, 0)
<1>1. PICK f : Replays(f, k, x, 0) /\ y = f[a]
  BY <1>0, ReplayIs
<1> HIDE DEF y
<1>2. PICK g : Replays(g, l, y, a) /\ Replay(l, y, a) = g[n]
  BY <1>0, ReplayIs DEF n
<1>3. PICK h : Replays(h, l, x, 0) /\ Replay(l, x, 0) = h[n]
  BY <1>0, ReplayIs DEF n
<1>4. f[0] = x /\ h[0] = x /\ g[a] = y
  BY <1>0, <1>1, <1>2, <1>3 DEF Replays, n
<1>5. f[a] = h[a]
  <2>1. \A i \in 0 + 1 .. a : /\ k[i] = l[i]
                              /\ f[i] = ApplyIndexEvent(f[i - 1], k[i], i)
                              /\ h[i] = ApplyIndexEvent(h[i - 1], l[i], i)
    <3> SUFFICES ASSUME NEW i \in 1 .. a
                 PROVE  /\ k[i] = l[i]
                        /\ f[i] = ApplyIndexEvent(f[i - 1], k[i], i)
                        /\ h[i] = ApplyIndexEvent(h[i - 1], l[i], i)
      OBVIOUS
    <3>1. f[i] = ApplyIndexEvent(f[i - 1], k[i], i)
      BY <1>0, <1>1 DEF Replays
    <3>2. h[i] = ApplyIndexEvent(h[i - 1], l[i], i)
      BY <1>0, <1>3 DEF Replays, n
    <3> QED BY <1>0, <3>1, <3>2
  <2>2. 0 <= a /\ a \in Nat /\ 0 \in Nat /\ f[0] = h[0]
    BY <1>0, <1>4
  <2>3. SameFrom(f, h, k, l, 0, a)
    BY <2>1, <2>2 DEF SameFrom
  <2> QED BY <2>3, ReplayedTo
<1>6. g[n] = h[n]
  <2>1. \A i \in a + 1 .. n : /\ l[i] = l[i]
                              /\ g[i] = ApplyIndexEvent(g[i - 1], l[i], i)
                              /\ h[i] = ApplyIndexEvent(h[i - 1], l[i], i)
    BY <1>0, <1>2, <1>3 DEF Replays, n
  <2>2. g[a] = h[a] /\ a <= n /\ a \in Nat /\ n \in Nat
    BY <1>0, <1>1, <1>4, <1>5
  <2>3. SameFrom(g, h, l, l, a, n)
    BY <2>1, <2>2 DEF SameFrom
  <2> QED BY <2>3, ReplayedTo
<1> QED BY <1>2, <1>3, <1>6 DEF y, k

------------------------------------------------------------------------------
(* A change by hand and the event it goes with.                            *)

\* An index of sessions and threads; the one a process has in mind, or the snapshot.
Index  == [sess : Tables, thr : Threads]
Idx(m)   == [sess |-> m.sess, thr |-> m.thr]

\* What an index knows is in a log.
Grounded(x, l) ==
  /\ \A s \in Sids : x.sess[s] # Nobody =>
       /\ s \in CreatedIn(l) /\ x.sess[s].start <= Len(l) /\ x.sess[s].end <= Len(l)
       /\ \E i \in 1 .. Len(l) : l[i].thread = x.sess[s].thread
  /\ \A t \in Tids : x.thr[t] # Nobody => \E i \in 1 .. Len(l) : l[i].thread = t

\* The change by hand says what the event says.
Agrees(e, d) ==
  /\ d.ends = e.closes
  /\ e.kind = "created" => e.sid # Nobody /\ d.adds = e.sid
  /\ e.kind = "forked" => e.sid # Nobody /\ d.adds \in {Nobody, e.sid}
  /\ e.kind \notin {"created", "forked"} => d.adds = Nobody
  /\ e.kind \in {"renamed", "status", "message", "boundary"} => e.closes = Nobody
  /\ d.adds # Nobody =>
       d.rec = [thread |-> e.thread, start |-> e.start, end |-> 0, ctx |-> e.ctx, name |-> 0]
  /\ d.names = IF e.kind = "renamed" THEN e.sid ELSE Nobody
  /\ e.kind = "renamed" => e.sid # Nobody
  /\ d.sets = IF e.kind = "status" \/ (e.kind = "created" /\ e.status # Nobody)
              THEN e.thread ELSE Nobody
  /\ d.sets # Nobody => e.status # Nobody /\ d.status = e.status

\* It is possible in an index.
Possible(x, e, d) ==
  /\ d.adds # Nobody => x.sess[d.adds] = Nobody
  /\ d.ends # Nobody => Open(x, d.ends)
  /\ d.names # Nobody => x.sess[d.names] # Nobody
  /\ d.sets # Nobody => (x.thr[d.sets] = Nobody <=> e.kind = "created")

\* Every step of a plan will be possible when it is its turn.
StepOK(x, pl, n, i) ==
  LET e == pl[i].ev
      d == pl[i].do
  IN  /\ e = Nobody => d = NoEffect
      /\ e # Nobody =>
           /\ Agrees(e, d) /\ Possible(x, e, d) /\ e.start <= n
           /\ e.kind = "forked" /\ d.adds = Nobody =>
                x.sess[e.sid] # Nobody \/ \E j \in 1 .. i - 1 : pl[j].do.adds = e.sid
      /\ \A j \in 1 .. i - 1 :
           /\ d.adds = Nobody \/ pl[j].do.adds = Nobody
           /\ d.sets = Nobody \/ pl[j].do.sets = Nobody
           /\ d.ends = Nobody \/ pl[j].do.ends # d.ends
PlanOK(x, pl, n) == \A i \in 1 .. Len(pl) : StepOK(x, pl, n, i)

\* A plan leads to a session that exists then, in its thread.
Lands(x, pl, r) ==
  /\ r \in Places
  /\ \/ x.sess[r.s] # Nobody /\ x.sess[r.s].thread = r.t
     \/ \E i \in 1 .. Len(pl) : pl[i].do.adds = r.s /\ pl[i].do.rec.thread = r.t

\* A message is the last step, for the session that is active and open then.
MessageLast(x, pl, r) ==
  \A i \in 1 .. Len(pl) : pl[i].ev # Nobody /\ pl[i].ev.kind = "message" =>
    /\ i = Len(pl) /\ pl[i].act = Nobody /\ pl[i].ev.thread = r.t
    /\ Open(x, r.s) \/ \E j \in 1 .. Len(pl) : pl[j].do.adds = r.s
    /\ \A j \in 1 .. Len(pl) : pl[j].do.ends # r.s

\* A plan makes a thread a background one.
ToBackground(pl, t) ==
  \E i \in 1 .. Len(pl) : pl[i].do.sets = t /\ pl[i].do.status = "background"

\* The chat is not, and will not be, in a background thread the user has not gone to.
ChatOK(x, pl, r) ==
  /\ \A t \in Tids : ~ToBackground(pl, t)
  /\ x.thr[r.t] = "background" => r.t \in seen

\* Nor will it be when the scheduled run goes back.
BackOK(x, pl, tk) ==
  /\ tk.back \in Sids /\ x.sess[tk.back] # Nobody
  /\ LET t == x.sess[tk.back].thread
     IN  x.thr[t] = "background" \/ ToBackground(pl, t) => t \in seen

\* What is true of a process: its index is in the log, its plan is possible, leads to a
\* session, appends a message where it belongs and leaves the chat alone.
ProcessInv(p) ==
  LET x == Idx(mem[p])
      r == Reached(mem[p], plan[p])
  IN  /\ Grounded(x, log)
      /\ ~mem[p].up => plan[p] = <<>> /\ task[p] = Nobody
      /\ mem[p].up =>
           /\ PlanOK(x, plan[p], Len(log)) /\ Lands(x, plan[p], r) /\ MessageLast(x, plan[p], r)
           /\ IF task[p] = Nobody THEN ChatOK(x, plan[p], r) ELSE BackOK(x, plan[p], task[p])

\* An event of its kind.
WellFormed(e) ==
  /\ e.kind \in {"created", "forked", "renamed"} => e.sid # Nobody
  /\ e.kind = "status" => e.status # Nobody

\* The events of a log are of their kinds, and no branch starts behind its end.
LogOK(l) == \A i \in 1 .. Len(l) : WellFormed(l[i]) /\ l[i].start <= Len(l)

\* The inductive invariant, for any number of processes.
IndexInv == TypeOK /\ LogOK(log) /\ Grounded(Idx(snap), log) /\ \A p \in Procs : ProcessInv(p)

\* One process: its memory is the projection of the log, the rows that of the log
\* before the watermark.
SoloInv ==
  /\ \A p \in Procs : mem[p].up => Idx(mem[p]) = Rebuilt /\ head[p] = Len(log)
  /\ Idx(snap) = Replay(SubSeq(log, 1, snap.mark), EmptyIndex, 0)
  /\ \A s \in Sids : snap.sess[s] # Nobody => Rebuilt.sess[s] # Nobody
  /\ \A t \in Tids : snap.thr[t] # Nobody => Rebuilt.thr[t] # Nobody

\* What a change by hand leaves in an index.
Wrote(x, d, pos) ==
  [sess |-> [s \in Sids |-> IF s = d.adds THEN d.rec
                            ELSE IF s = d.ends THEN [x.sess[s] EXCEPT !.end = pos]
                            ELSE IF s = d.names THEN [x.sess[s] EXCEPT !.name = pos]
                            ELSE x.sess[s]],
   thr |-> [t \in Tids |-> IF t = d.sets THEN d.status ELSE x.thr[t]]]

\* Nobody is no session and no thread; these are numbers.
LEMMA NobodyIs == Nobody \notin Sids /\ Nobody \notin Tids /\ Sids \subseteq Nat /\ Tids \subseteq Nat
BY SessionIndexAssumption DEF Sids, Tids

\* A possible change by hand leaves an index, and its parts do not overlap.
LEMMA Written ==
  ASSUME NEW x \in Index, NEW e \in Events, NEW d \in Effects, NEW pos \in Nat,
         Agrees(e, d), Possible(x, e, d)
  PROVE  /\ Wrote(x, d, pos) \in Index
         /\ d.adds # Nobody => d.rec \in Sessions /\ d.adds # d.ends
         /\ d.sets # Nobody => d.status \in Statuses
         /\ d.names # Nobody => d.adds = Nobody /\ d.ends = Nobody
<1>1. d.adds # Nobody => d.rec \in Sessions /\ d.adds # d.ends
  BY SessionIndexAssumption DEF Agrees, Possible, Open, Known, Effects, Events, Sessions
<1>2. d.sets # Nobody => d.status \in Statuses
  BY DEF Agrees, Events
<1>3. d.names # Nobody => d.adds = Nobody /\ d.ends = Nobody
  BY DEF Agrees
<1>4. x.sess \in Tables /\ x.thr \in Threads
  BY DEF Index
<1>5. ASSUME NEW s \in Sids PROVE Wrote(x, d, pos).sess[s] \in Sessions \cup {Nobody}
  <2>1. x.sess[s] \in Sessions \cup {Nobody}
    BY <1>4 DEF Tables
  <2>2. s = d.ends \/ s = d.names => x.sess[s] # Nobody
    BY NobodyIs DEF Possible, Open, Known
  <2>3. x.sess[s] \in Sessions => [x.sess[s] EXCEPT !.end = pos] \in Sessions /\ [x.sess[s] EXCEPT !.name = pos] \in Sessions
    BY DEF Sessions
  <2>4. s = d.adds => d.rec \in Sessions
    BY <1>1, NobodyIs
  <2> QED BY <2>1, <2>2, <2>3, <2>4 DEF Wrote
<1>6. ASSUME NEW t \in Tids PROVE Wrote(x, d, pos).thr[t] \in Statuses \cup {Nobody}
  BY <1>2, <1>4, NobodyIs DEF Wrote, Threads
<1>7. Wrote(x, d, pos) \in Index
  BY <1>5, <1>6 DEF Wrote, Index, Tables, Threads
<1> QED BY <1>1, <1>2, <1>3, <1>7

\* What the manager changes in its index, by hand, is one write (Effect).
LEMMA EffectWrites ==
  ASSUME NEW x \in Index, NEW e \in Events, NEW d \in Effects, NEW pos \in Nat,
         Agrees(e, d), Possible(x, e, d)
  PROVE  Effect(x, d, pos) = Wrote(x, d, pos)
<1>0. /\ x = [sess |-> x.sess, thr |-> x.thr]
      /\ x.sess = [s \in Sids |-> x.sess[s]] /\ x.thr = [t \in Tids |-> x.thr[t]]
      /\ x.sess \in Tables /\ x.thr \in Threads
  BY DEF Index, Tables, Threads
<1>1. /\ d.adds \in Sids \cup {Nobody} /\ d.ends \in Sids \cup {Nobody}
      /\ d.names \in Sids \cup {Nobody} /\ d.sets \in Tids \cup {Nobody}
  BY DEF Effects
<1> DEFINE added == IF d.adds = Nobody THEN x ELSE [x EXCEPT !.sess[d.adds] = d.rec]
           thr == IF d.sets = Nobody THEN added ELSE [added EXCEPT !.thr[d.sets] = d.status]
           ended == IF d.ends = Nobody THEN thr ELSE [thr EXCEPT !.sess[d.ends].end = pos]
           named == IF d.names = Nobody THEN ended ELSE [ended EXCEPT !.sess[d.names].name = pos]
<1>2. /\ added = [sess |-> added.sess, thr |-> x.thr]
      /\ added.sess = [s \in Sids |-> IF s = d.adds THEN d.rec ELSE x.sess[s]]
  BY <1>0, <1>1, NobodyIs
<1> HIDE DEF added
<1>3. /\ thr = [sess |-> added.sess, thr |-> thr.thr]
      /\ thr.thr = [t \in Tids |-> IF t = d.sets THEN d.status ELSE x.thr[t]]
  BY <1>0, <1>1, <1>2, NobodyIs
<1> HIDE DEF thr
<1>4. /\ ended = [sess |-> ended.sess, thr |-> thr.thr]
      /\ ended.sess = [s \in Sids |-> IF s = d.ends THEN [added.sess[s] EXCEPT !.end = pos] ELSE added.sess[s]]
  BY <1>0, <1>1, <1>2, <1>3, NobodyIs
<1> HIDE DEF ended
<1>5. /\ named = [sess |-> named.sess, thr |-> thr.thr]
      /\ named.sess = [s \in Sids |-> IF s = d.names THEN [ended.sess[s] EXCEPT !.name = pos] ELSE ended.sess[s]]
  <2>0. ended = [sess |-> ended.sess, thr |-> thr.thr] /\ ended.sess = [s \in Sids |-> ended.sess[s]]
    BY <1>4
  <2>1. CASE d.names = Nobody
    BY <2>0, <2>1, NobodyIs
  <2>2. CASE d.names \in Sids
    BY <2>0, <2>2, NobodyIs
  <2> QED BY <1>1, <2>1, <2>2
<1> HIDE DEF named
<1>6. named.sess = Wrote(x, d, pos).sess
  <2>1. \A s \in Sids : named.sess[s] = Wrote(x, d, pos).sess[s]
    <3> SUFFICES ASSUME NEW s \in Sids PROVE named.sess[s] = Wrote(x, d, pos).sess[s]
      OBVIOUS
    <3>1. CASE s = d.adds
      <4>1. d.ends # s /\ d.names # s
        BY <3>1, Written, NobodyIs
      <4> QED BY <1>2, <1>4, <1>5, <3>1, <4>1 DEF Wrote
    <3>2. CASE s # d.adds /\ s = d.ends
      <4>1. d.names # s
        BY <3>2, Written, NobodyIs
      <4> QED BY <1>2, <1>4, <1>5, <3>2, <4>1 DEF Wrote
    <3>3. CASE s # d.adds /\ s # d.ends
      BY <1>2, <1>4, <1>5, <3>3 DEF Wrote
    <3> QED BY <3>1, <3>2, <3>3
  <2> QED BY <1>5, <2>1 DEF Wrote
<1>7. thr.thr = Wrote(x, d, pos).thr
  BY <1>3 DEF Wrote
<1>8. Effect(x, d, pos) = named
  BY DEF Effect, named, ended, thr, added
<1> QED BY <1>5, <1>6, <1>7, <1>8 DEF Wrote

\* The pieces of the reducer, on an index.
LEMMA Closing ==
  ASSUME NEW x \in Index, NEW s \in Sids \cup {Nobody}, NEW pos \in Nat
  PROVE  /\ Close(x, s, pos) = [sess |-> Close(x, s, pos).sess, thr |-> x.thr]
         /\ Close(x, s, pos).sess = [q \in Sids |-> IF q = s /\ Open(x, s) THEN [x.sess[q] EXCEPT !.end = pos]
                                                    ELSE x.sess[q]]
<1>0. /\ x = [sess |-> x.sess, thr |-> x.thr] /\ x.sess = [q \in Sids |-> x.sess[q]]
  BY DEF Index, Tables
<1>1. CASE s # Nobody /\ Open(x, s)
  BY <1>0, <1>1 DEF Close
<1>2. CASE ~(s # Nobody /\ Open(x, s))
  <2>1. \A q \in Sids : ~(q = s /\ Open(x, s))
    BY <1>2, NobodyIs
  <2>2. Close(x, s, pos) = x
    BY <1>2 DEF Close
  <2> QED BY <1>0, <2>1, <2>2
<1> QED BY <1>1, <1>2

\* addSession of the reducer, on an index.
LEMMA Adding ==
  ASSUME NEW x \in Index, NEW e \in Events, e.sid # Nobody
  PROVE  /\ AddSession(x, e) \in Index /\ AddSession(x, e).thr = x.thr
         /\ AddSession(x, e).sess = [q \in Sids |-> IF q = e.sid /\ x.sess[q] = Nobody
               THEN [thread |-> e.thread, start |-> e.start, end |-> 0, ctx |-> e.ctx, name |-> 0]
               ELSE x.sess[q]]
<1>0. /\ x = [sess |-> x.sess, thr |-> x.thr] /\ x.sess = [q \in Sids |-> x.sess[q]]
      /\ e.sid \in Sids
  BY DEF Index, Tables, Events
<1> DEFINE rec == [thread |-> e.thread, start |-> e.start, end |-> 0, ctx |-> e.ctx, name |-> 0]
<1>1. rec \in Sessions
  BY DEF Events, Sessions
<1> HIDE DEF rec
<1>2. CASE x.sess[e.sid] # Nobody
  BY <1>0, <1>2 DEF AddSession, Index
<1>3. CASE x.sess[e.sid] = Nobody
  <2>1. AddSession(x, e) = [x EXCEPT !.sess[e.sid] = rec]
    BY <1>3 DEF AddSession, rec
  <2>2. /\ AddSession(x, e) = [sess |-> AddSession(x, e).sess, thr |-> x.thr]
        /\ AddSession(x, e).sess = [q \in Sids |-> IF q = e.sid /\ x.sess[q] = Nobody THEN rec ELSE x.sess[q]]
    BY <1>0, <1>3, <2>1
  <2>3. AddSession(x, e).sess \in Tables
    BY <1>1, <2>2 DEF Index, Tables
  <2> QED BY <2>2, <2>3 DEF rec, Index
<1> QED BY <1>2, <1>3

\* The thread a "created" event brings, on an index.
LEMMA AddingThread ==
  ASSUME NEW x \in Index, NEW e \in Events
  PROVE  /\ AddThread(x, e) \in Index /\ AddThread(x, e).sess = x.sess
         /\ AddThread(x, e).thr = [t \in Tids |-> IF e.status # Nobody /\ t = e.thread /\ x.thr[t] = Nobody
                                                  THEN e.status ELSE x.thr[t]]
<1>0. /\ x = [sess |-> x.sess, thr |-> x.thr] /\ x.thr = [t \in Tids |-> x.thr[t]]
      /\ e.thread \in Tids /\ e.status \in Statuses \cup {Nobody}
  BY DEF Index, Threads, Events
<1>1. CASE e.status # Nobody /\ x.thr[e.thread] = Nobody
  <2>1. AddThread(x, e) = [x EXCEPT !.thr[e.thread] = e.status]
    BY <1>1 DEF AddThread
  <2>2. /\ AddThread(x, e) = [sess |-> x.sess, thr |-> AddThread(x, e).thr]
        /\ AddThread(x, e).thr = [t \in Tids |-> IF e.status # Nobody /\ t = e.thread /\ x.thr[t] = Nobody
                                                  THEN e.status ELSE x.thr[t]]
    BY <1>0, <1>1, <2>1
  <2>3. AddThread(x, e).thr \in Threads
    BY <1>0, <2>2 DEF Index, Threads
  <2> QED BY <2>2, <2>3 DEF Index
<1>2. CASE ~(e.status # Nobody /\ x.thr[e.thread] = Nobody)
  BY <1>0, <1>2 DEF AddThread
<1> QED BY <1>1, <1>2

\* The reducer leaves an index an index.
LEMMA Applied ==
  ASSUME NEW x \in Index, NEW e \in Events, NEW pos \in Nat,
         e.kind \in {"created", "forked", "renamed"} => e.sid # Nobody,
         e.kind = "status" => e.status # Nobody
  PROVE  LET y == ApplyIndexEvent(x, e, pos)
             rec == [thread |-> e.thread, start |-> e.start, end |-> 0, ctx |-> e.ctx, name |-> 0]
             new == e.kind \in {"created", "forked"}
             closing == e.kind \in {"created", "forked", "jumped"}
             base(s) == IF new /\ s = e.sid /\ x.sess[s] = Nobody THEN rec ELSE x.sess[s]
         IN  /\ y = [sess |-> y.sess, thr |-> y.thr]
             /\ y.sess = [s \in Sids |->
                  IF closing /\ s = e.closes /\ base(s) # Nobody /\ base(s).end = 0
                  THEN [base(s) EXCEPT !.end = pos]
                  ELSE IF e.kind = "renamed" /\ s = e.sid /\ x.sess[s] # Nobody
                  THEN [x.sess[s] EXCEPT !.name = pos] ELSE base(s)]
             /\ y.thr = [t \in Tids |->
                  IF /\ t = e.thread
                     /\ \/ e.kind = "created" /\ e.status # Nobody /\ x.thr[t] = Nobody
                        \/ e.kind = "status" /\ x.thr[t] # Nobody
                  THEN e.status ELSE x.thr[t]]
<1> DEFINE y == ApplyIndexEvent(x, e, pos)
           rec == [thread |-> e.thread, start |-> e.start, end |-> 0, ctx |-> e.ctx, name |-> 0]
           new == e.kind \in {"created", "forked"}
           closing == e.kind \in {"created", "forked", "jumped"}
           base(s) == IF new /\ s = e.sid /\ x.sess[s] = Nobody THEN rec ELSE x.sess[s]
<1>0. /\ x = [sess |-> x.sess, thr |-> x.thr]
      /\ x.sess = [s \in Sids |-> x.sess[s]] /\ x.thr = [t \in Tids |-> x.thr[t]]
      /\ e.thread \in Tids /\ e.closes \in Sids \cup {Nobody} /\ e.kind \in Kinds
  BY DEF Index, Tables, Threads, Events
<1>1. CASE e.kind = "created"
  <2> DEFINE a == AddThread(x, e)
             b == AddSession(a, e)
  <2>0. y = Close(b, e.closes, pos)
    BY <1>1 DEF ApplyIndexEvent
  <2>1. /\ a \in Index /\ a.sess = x.sess
        /\ a.thr = [t \in Tids |-> IF e.status # Nobody /\ t = e.thread /\ x.thr[t] = Nobody THEN e.status ELSE x.thr[t]]
    BY AddingThread
  <2> HIDE DEF a
  <2>2. b \in Index /\ b.thr = a.thr /\ b.sess = [s \in Sids |-> base(s)]
    BY <1>1, <2>1, Adding
  <2> HIDE DEF b, y
  <2>3. /\ y = [sess |-> y.sess, thr |-> b.thr]
        /\ y.sess = [q \in Sids |-> IF q = e.closes /\ Open(b, e.closes) THEN [b.sess[q] EXCEPT !.end = pos] ELSE b.sess[q]]
    BY <1>0, <2>0, <2>2, Closing
  <2>4. \A s \in Sids : b.sess[s] = base(s) /\ (s = e.closes => (Open(b, s) <=> base(s) # Nobody /\ base(s).end = 0))
    BY <2>2 DEF Open, Known
  <2> HIDE DEF base
  <2>5. y.sess = [s \in Sids |-> IF closing /\ s = e.closes /\ base(s) # Nobody /\ base(s).end = 0
                  THEN [base(s) EXCEPT !.end = pos] ELSE base(s)]
    BY <1>1, <2>3, <2>4
  <2> QED BY <1>1, <2>1, <2>2, <2>3, <2>5 DEF y, base
<1>2. CASE e.kind = "forked"
  <2> DEFINE b == AddSession(x, e)
  <2>0. y = Close(b, e.closes, pos)
    BY <1>2 DEF ApplyIndexEvent
  <2>2. b \in Index /\ b.thr = x.thr /\ b.sess = [s \in Sids |-> base(s)]
    BY <1>2, Adding
  <2> HIDE DEF b, y
  <2>3. /\ y = [sess |-> y.sess, thr |-> b.thr]
        /\ y.sess = [q \in Sids |-> IF q = e.closes /\ Open(b, e.closes) THEN [b.sess[q] EXCEPT !.end = pos] ELSE b.sess[q]]
    BY <1>0, <2>0, <2>2, Closing
  <2>4. \A s \in Sids : b.sess[s] = base(s) /\ (s = e.closes => (Open(b, s) <=> base(s) # Nobody /\ base(s).end = 0))
    BY <2>2 DEF Open, Known
  <2> HIDE DEF base
  <2>5. y.sess = [s \in Sids |-> IF closing /\ s = e.closes /\ base(s) # Nobody /\ base(s).end = 0
                  THEN [base(s) EXCEPT !.end = pos] ELSE base(s)]
    BY <1>2, <2>3, <2>4
  <2> QED BY <1>0, <1>2, <2>2, <2>3, <2>5 DEF y, base
<1>3. CASE e.kind = "jumped"
  <2>0. y = Close(x, e.closes, pos)
    BY <1>3 DEF ApplyIndexEvent
  <2> HIDE DEF y
  <2>3. /\ y = [sess |-> y.sess, thr |-> x.thr]
        /\ y.sess = [q \in Sids |-> IF q = e.closes /\ Open(x, e.closes) THEN [x.sess[q] EXCEPT !.end = pos] ELSE x.sess[q]]
    BY <1>0, <2>0, Closing
  <2>4. \A s \in Sids : x.sess[s] = base(s) /\ (s = e.closes => (Open(x, s) <=> base(s) # Nobody /\ base(s).end = 0))
    BY <1>3 DEF Open, Known
  <2> HIDE DEF base
  <2>5. y.sess = [s \in Sids |-> IF closing /\ s = e.closes /\ base(s) # Nobody /\ base(s).end = 0
                  THEN [base(s) EXCEPT !.end = pos] ELSE base(s)]
    BY <1>3, <2>3, <2>4
  <2> QED BY <1>0, <1>3, <2>3, <2>5 DEF y, base
<1>4. CASE e.kind = "renamed"
  <2>0. e.sid \in Sids
    BY <1>4 DEF Events
  <2>1. y = IF x.sess[e.sid] # Nobody THEN [x EXCEPT !.sess[e.sid].name = pos] ELSE x
    BY <1>4, <2>0 DEF ApplyIndexEvent, Known
  <2> HIDE DEF y
  <2>2. CASE x.sess[e.sid] # Nobody
    <3>1. /\ y = [sess |-> y.sess, thr |-> x.thr]
          /\ y.sess = [s \in Sids |-> IF s = e.sid THEN [x.sess[s] EXCEPT !.name = pos] ELSE x.sess[s]]
      BY <1>0, <2>0, <2>1, <2>2
    <3> QED BY <1>0, <1>4, <2>2, <3>1 DEF y
  <2>3. CASE x.sess[e.sid] = Nobody
    BY <1>0, <1>4, <2>1, <2>3 DEF y
  <2> QED BY <2>2, <2>3
<1>5. CASE e.kind = "status"
  <2>1. y = IF x.thr[e.thread] # Nobody THEN [x EXCEPT !.thr[e.thread] = e.status] ELSE x
    BY <1>5 DEF ApplyIndexEvent
  <2> HIDE DEF y
  <2>2. CASE x.thr[e.thread] # Nobody
    <3>1. /\ y = [sess |-> x.sess, thr |-> y.thr]
          /\ y.thr = [t \in Tids |-> IF t = e.thread THEN e.status ELSE x.thr[t]]
      BY <1>0, <2>1, <2>2
    <3> QED BY <1>0, <1>5, <2>2, <3>1 DEF y
  <2>3. CASE x.thr[e.thread] = Nobody
    BY <1>0, <1>5, <2>1, <2>3 DEF y
  <2> QED BY <2>2, <2>3
<1>6. CASE e.kind \in {"message", "boundary"}
  <2>1. y = x
    BY <1>6 DEF ApplyIndexEvent
  <2> QED BY <1>0, <1>6, <2>1
<1> QED BY <1>0, <1>1, <1>2, <1>3, <1>4, <1>5, <1>6 DEF Kinds

\* The event of a change by hand is of its kind.
LEMMA Formed == ASSUME NEW e \in Events, NEW d, Agrees(e, d) PROVE WellFormed(e)
BY NobodyIs DEF Agrees, WellFormed, Events

\* The change by hand and the reducer's are the same: the live index stays the
\* projection.
LEMMA EventWrites ==
  ASSUME NEW x \in Index, NEW e \in Events, NEW d \in Effects, NEW pos \in Nat,
         Agrees(e, d), Possible(x, e, d),
         e.kind = "forked" /\ d.adds = Nobody => x.sess[e.sid] # Nobody
  PROVE  ApplyIndexEvent(x, e, pos) = Wrote(x, d, pos)
<1> DEFINE y == ApplyIndexEvent(x, e, pos)
           rec == [thread |-> e.thread, start |-> e.start, end |-> 0, ctx |-> e.ctx, name |-> 0]
           new == e.kind \in {"created", "forked"}
           closing == e.kind \in {"created", "forked", "jumped"}
           base(s) == IF new /\ s = e.sid /\ x.sess[s] = Nobody THEN rec ELSE x.sess[s]
<1>1. /\ y = [sess |-> y.sess, thr |-> y.thr]
      /\ y.sess = [s \in Sids |->
           IF closing /\ s = e.closes /\ base(s) # Nobody /\ base(s).end = 0 THEN [base(s) EXCEPT !.end = pos]
           ELSE IF e.kind = "renamed" /\ s = e.sid /\ x.sess[s] # Nobody THEN [x.sess[s] EXCEPT !.name = pos]
           ELSE base(s)]
      /\ y.thr = [t \in Tids |->
           IF t = e.thread /\ (\/ e.kind = "created" /\ e.status # Nobody /\ x.thr[t] = Nobody
                               \/ e.kind = "status" /\ x.thr[t] # Nobody)
           THEN e.status ELSE x.thr[t]]
  BY Applied, Formed DEF WellFormed
<1> HIDE DEF y
<1>2. \A s \in Sids : y.sess[s] = Wrote(x, d, pos).sess[s]
  <2> SUFFICES ASSUME NEW s \in Sids PROVE y.sess[s] = Wrote(x, d, pos).sess[s]
    OBVIOUS
  <2>0. s # Nobody /\ d.ends = e.closes
    BY NobodyIs DEF Agrees
  <2>1. CASE s = d.adds
    <3>1. d.rec = rec /\ s = e.sid /\ new /\ x.sess[s] = Nobody /\ s # d.ends
      BY <2>0, <2>1, Written DEF Agrees, Possible
    <3>2. base(s) = rec /\ s # e.closes /\ e.kind # "renamed"
      BY <2>0, <3>1
    <3> QED BY <1>1, <2>1, <3>1, <3>2 DEF Wrote
  <2>2. CASE s # d.adds
    <3>1. base(s) = x.sess[s]
      <4>1. ASSUME new, s = e.sid PROVE x.sess[s] # Nobody
        BY <2>2, <4>1 DEF Agrees
      <4> QED BY <4>1
    <3>2. s = d.ends => closing /\ x.sess[s] # Nobody /\ x.sess[s].end = 0
      BY <2>0 DEF Possible, Open, Known, Agrees, Events, Kinds
    <3>3. s = d.names <=> e.kind = "renamed" /\ s = e.sid
      BY <2>0 DEF Agrees
    <3>4. s = d.names => x.sess[s] # Nobody
      BY <2>0 DEF Possible
    <3> HIDE DEF base
    <3> QED BY <1>1, <2>0, <2>2, <3>1, <3>2, <3>3, <3>4 DEF Wrote
  <2> QED BY <2>1, <2>2
<1>3. \A t \in Tids : y.thr[t] = Wrote(x, d, pos).thr[t]
  <2> SUFFICES ASSUME NEW t \in Tids PROVE y.thr[t] = Wrote(x, d, pos).thr[t]
    OBVIOUS
  <2>1. t # Nobody
    BY NobodyIs
  <2>2. y.thr[t] = IF t = e.thread /\ (\/ e.kind = "created" /\ e.status # Nobody /\ x.thr[t] = Nobody
                                       \/ e.kind = "status" /\ x.thr[t] # Nobody)
                   THEN e.status ELSE x.thr[t]
    BY <1>1
  <2>3. Wrote(x, d, pos).thr[t] = IF t = d.sets THEN d.status ELSE x.thr[t]
    BY DEF Wrote
  <2>4. CASE t = d.sets
    BY <2>1, <2>2, <2>3, <2>4 DEF Agrees, Possible
  <2>5. CASE t # d.sets
    BY <2>1, <2>2, <2>3, <2>5 DEF Agrees, Possible
  <2> QED BY <2>4, <2>5
<1>4. y.sess = Wrote(x, d, pos).sess
  BY <1>1, <1>2 DEF Wrote
<1>5. y.thr = Wrote(x, d, pos).thr
  BY <1>1, <1>3 DEF Wrote
<1> QED BY <1>1, <1>4, <1>5 DEF Wrote, y

\* What every event of a log preserves, its replay preserves.
LEMMA ReplayStays ==
  ASSUME NEW l, Len(l) \in Nat, NEW S, NEW x \in S, NEW a \in Nat,
         \A y \in S, n \in 1 .. Len(l) : ApplyIndexEvent(y, l[n], n) \in S
  PROVE  Replay(l, x, a) \in S
<1>1. PICK f : Replays(f, l, x, a) /\ Replay(l, x, a) = f[Len(l)]
  BY ReplayIs
<1> DEFINE Bad == {n \in Nat : n \in 0 .. Len(l) /\ f[n] \notin S}
<1>2. SUFFICES ASSUME Bad # {} PROVE FALSE
  BY <1>1
<1>3. PICK n \in Bad : \A q \in Bad : n <= q
  BY <1>2, LeastOf
<1>4. f[n] = IF n <= a THEN x ELSE ApplyIndexEvent(f[n - 1], l[n], n)
  BY <1>1, <1>3 DEF Replays
<1>5. CASE n <= a
  BY <1>3, <1>4, <1>5
<1>6. CASE ~(n <= a)
  <2>1. n \in 1 .. Len(l) /\ n - 1 \in Nat /\ n - 1 \notin Bad /\ n - 1 \in 0 .. Len(l)
    BY <1>3, <1>6
  <2>2. f[n - 1] \in S
    BY <2>1
  <2> QED BY <1>3, <1>4, <1>6, <2>1, <2>2
<1> QED BY <1>5, <1>6

\* The reducer makes an index of an index, and what it makes is in the log.
LEMMA AppliedIndex ==
  ASSUME NEW x \in Index, NEW e \in Events, NEW pos \in Nat, WellFormed(e)
  PROVE  ApplyIndexEvent(x, e, pos) \in Index
<1> DEFINE y == ApplyIndexEvent(x, e, pos)
           rec == [thread |-> e.thread, start |-> e.start, end |-> 0, ctx |-> e.ctx, name |-> 0]
           new == e.kind \in {"created", "forked"}
           closing == e.kind \in {"created", "forked", "jumped"}
           base(s) == IF new /\ s = e.sid /\ x.sess[s] = Nobody THEN rec ELSE x.sess[s]
<1>1. /\ y = [sess |-> y.sess, thr |-> y.thr]
      /\ y.sess = [s \in Sids |->
           IF closing /\ s = e.closes /\ base(s) # Nobody /\ base(s).end = 0 THEN [base(s) EXCEPT !.end = pos]
           ELSE IF e.kind = "renamed" /\ s = e.sid /\ x.sess[s] # Nobody THEN [x.sess[s] EXCEPT !.name = pos]
           ELSE base(s)]
      /\ y.thr = [t \in Tids |->
           IF t = e.thread /\ (\/ e.kind = "created" /\ e.status # Nobody /\ x.thr[t] = Nobody
                               \/ e.kind = "status" /\ x.thr[t] # Nobody)
           THEN e.status ELSE x.thr[t]]
  BY Applied DEF WellFormed
<1> HIDE DEF y
<1>2. rec \in Sessions
  BY DEF Events, Sessions
<1>3. \A s \in Sids : base(s) \in Sessions \cup {Nobody} /\ x.sess[s] \in Sessions \cup {Nobody}
  BY <1>2 DEF Index, Tables
<1>4. \A r \in Sessions : [r EXCEPT !.end = pos] \in Sessions /\ [r EXCEPT !.name = pos] \in Sessions
  BY DEF Sessions
<1> HIDE DEF base
<1>5. y.sess \in Tables
  BY <1>1, <1>3, <1>4 DEF Tables
<1>6. y.thr \in Threads
  BY <1>1 DEF Threads, Events, Index
<1> QED BY <1>1, <1>5, <1>6 DEF y, Index

\* A session that an event of the log creates has been created.
LEMMA CreatedAre ==
  ASSUME NEW l, NEW i \in 1 .. Len(l), DOMAIN l = 1 .. Len(l), l[i].kind \in {"created", "forked"}
  PROVE  l[i].sid \in CreatedIn(l)
BY DEF CreatedIn

\* What the reducer makes of an index that is in a log, with an event of that log, is in it.
LEMMA AppliedGrounded ==
  ASSUME NEW l \in Seq(Events), LogOK(l), NEW x \in Index, Grounded(x, l), NEW n \in 1 .. Len(l)
  PROVE  Grounded(ApplyIndexEvent(x, l[n], n), l)
<1> DEFINE e == l[n]
           y == ApplyIndexEvent(x, e, n)
           rec == [thread |-> e.thread, start |-> e.start, end |-> 0, ctx |-> e.ctx, name |-> 0]
           new == e.kind \in {"created", "forked"}
           closing == e.kind \in {"created", "forked", "jumped"}
           base(s) == IF new /\ s = e.sid /\ x.sess[s] = Nobody THEN rec ELSE x.sess[s]
<1>0. e \in Events /\ WellFormed(e) /\ e.start <= Len(l) /\ DOMAIN l = 1 .. Len(l) /\ Len(l) \in Nat /\ n \in Nat
  BY DEF LogOK
<1> HIDE DEF e
<1>1. /\ y = [sess |-> y.sess, thr |-> y.thr]
      /\ y.sess = [s \in Sids |->
           IF closing /\ s = e.closes /\ base(s) # Nobody /\ base(s).end = 0 THEN [base(s) EXCEPT !.end = n]
           ELSE IF e.kind = "renamed" /\ s = e.sid /\ x.sess[s] # Nobody THEN [x.sess[s] EXCEPT !.name = n]
           ELSE base(s)]
      /\ y.thr = [t \in Tids |->
           IF t = e.thread /\ (\/ e.kind = "created" /\ e.status # Nobody /\ x.thr[t] = Nobody
                               \/ e.kind = "status" /\ x.thr[t] # Nobody)
           THEN e.status ELSE x.thr[t]]
  BY <1>0, Applied DEF WellFormed
<1> HIDE DEF y
<1>2. rec \in Sessions /\ rec.start = e.start /\ rec.end = 0 /\ rec.thread = e.thread
  BY <1>0 DEF Events, Sessions
<1>3. ASSUME NEW s \in Sids, y.sess[s] # Nobody
      PROVE  /\ s \in CreatedIn(l) /\ y.sess[s].start <= Len(l) /\ y.sess[s].end <= Len(l)
             /\ \E i \in 1 .. Len(l) : l[i].thread = y.sess[s].thread
  <2>1. base(s) # Nobody
    BY <1>1, <1>3
  <2>2. /\ base(s) \in Sessions /\ s \in CreatedIn(l) /\ base(s).start <= Len(l) /\ base(s).end <= Len(l)
        /\ \E i \in 1 .. Len(l) : l[i].thread = base(s).thread
    <3>1. CASE new /\ s = e.sid /\ x.sess[s] = Nobody
      <4>1. s \in CreatedIn(l)
        BY <1>0, <3>1, CreatedAre DEF e
      <4>2. l[n].thread = rec.thread
        BY <1>2 DEF e
      <4>3. base(s) = rec
        BY <3>1
      <4> QED BY <1>0, <1>2, <4>1, <4>2, <4>3
    <3>2. CASE ~(new /\ s = e.sid /\ x.sess[s] = Nobody)
      <4>1. base(s) = x.sess[s] /\ x.sess[s] # Nobody
        BY <2>1, <3>2
      <4> QED BY <4>1 DEF Grounded, Index, Tables
    <3> QED BY <3>1, <3>2
  <2>3. base(s) = x.sess[s] \/ ~(e.kind = "renamed")
    OBVIOUS
  <2> HIDE DEF base
  <2>4. /\ y.sess[s].start = base(s).start /\ y.sess[s].thread = base(s).thread
        /\ y.sess[s].end \in {base(s).end, n}
    <3>1. y.sess[s] \in {base(s), [base(s) EXCEPT !.end = n], [base(s) EXCEPT !.name = n]}
      BY <1>1, <2>3
    <3> QED BY <2>2, <3>1 DEF Sessions
  <2> QED BY <1>0, <2>2, <2>4
<1>4. ASSUME NEW t \in Tids, y.thr[t] # Nobody
      PROVE  \E i \in 1 .. Len(l) : l[i].thread = t
  <2>1. CASE t = e.thread
    BY <2>1 DEF e
  <2>2. CASE t # e.thread
    BY <1>1, <1>4, <2>2 DEF Grounded
  <2> QED BY <2>1, <2>2
<1> QED BY <1>3, <1>4 DEF y, e, Grounded

\* So is what a start loads.
LEMMA ReplayIndex ==
  ASSUME NEW l \in Seq(Events), LogOK(l), NEW x \in Index, Grounded(x, l), NEW a \in Nat
  PROVE  Replay(l, x, a) \in Index /\ Grounded(Replay(l, x, a), l)
<1> DEFINE S == {y \in Index : Grounded(y, l)}
<1>0. Len(l) \in Nat
  OBVIOUS
<1>1. \A y \in S, n \in 1 .. Len(l) : ApplyIndexEvent(y, l[n], n) \in S
  <2> SUFFICES ASSUME NEW y \in S, NEW n \in 1 .. Len(l) PROVE ApplyIndexEvent(y, l[n], n) \in S
    OBVIOUS
  <2>1. l[n] \in Events /\ WellFormed(l[n]) /\ n \in Nat
    BY DEF LogOK
  <2> QED BY <2>1, AppliedIndex, AppliedGrounded
<1>2. x \in S
  OBVIOUS
<1> HIDE DEF S
<1>3. Replay(l, x, a) \in S
  BY <1>0, <1>1, <1>2, ReplayStays
<1> QED BY <1>3 DEF S

\* The empty index is in every log.
LEMMA EmptyGrounded == ASSUME NEW l PROVE EmptyIndex \in Index /\ Grounded(EmptyIndex, l)
BY DEF EmptyIndex, Index, Tables, Threads, Grounded

\* A log that grows still holds what it held.
LEMMA Grows ==
  ASSUME NEW l \in Seq(Events), NEW e \in Events
  PROVE  /\ Append(l, e) \in Seq(Events) /\ Len(Append(l, e)) = Len(l) + 1 /\ Append(l, e)[Len(l) + 1] = e
         /\ \A i \in 1 .. Len(l) : Append(l, e)[i] = l[i]
         /\ CreatedIn(l) \subseteq CreatedIn(Append(l, e))
         /\ LogOK(l) /\ WellFormed(e) /\ e.start <= Len(l) => LogOK(Append(l, e))
         /\ \A x \in Index : Grounded(x, l) => Grounded(x, Append(l, e))
<1> DEFINE k == Append(l, e)
<1>1. /\ k \in Seq(Events) /\ Len(k) = Len(l) + 1 /\ k[Len(l) + 1] = e /\ \A i \in 1 .. Len(l) : k[i] = l[i]
      /\ Len(l) \in Nat /\ DOMAIN l = 1 .. Len(l) /\ DOMAIN k = 1 .. Len(l) + 1
  BY AppendProperties
<1> HIDE DEF k
<1>2. CreatedIn(l) \subseteq CreatedIn(k)
  BY <1>1 DEF CreatedIn
<1>3. LogOK(l) /\ WellFormed(e) /\ e.start <= Len(l) => LogOK(k)
  <2> SUFFICES ASSUME LogOK(l), WellFormed(e), e.start <= Len(l), NEW i \in 1 .. Len(k)
               PROVE  WellFormed(k[i]) /\ k[i].start <= Len(k)
    BY DEF LogOK
  <2>1. CASE i = Len(l) + 1
    BY <1>1, <2>1 DEF Events
  <2>2. CASE i \in 1 .. Len(l)
    <3>1. k[i] = l[i] /\ l[i] \in Events
      BY <1>1, <2>2
    <3> QED BY <1>1, <2>2, <3>1 DEF LogOK, Events
  <2> QED BY <1>1, <2>1, <2>2
<1>4. ASSUME NEW x \in Index, Grounded(x, l) PROVE Grounded(x, k)
  <2>1. ASSUME NEW s \in Sids, x.sess[s] # Nobody
        PROVE  /\ s \in CreatedIn(k) /\ x.sess[s].start <= Len(k) /\ x.sess[s].end <= Len(k)
               /\ \E i \in 1 .. Len(k) : k[i].thread = x.sess[s].thread
    <3>1. x.sess[s] \in Sessions
      BY <2>1 DEF Index, Tables
    <3>2. x.sess[s].start \in Nat /\ x.sess[s].end \in Nat
      BY <3>1 DEF Sessions
    <3>3. s \in CreatedIn(l) /\ x.sess[s].start <= Len(l) /\ x.sess[s].end <= Len(l)
      BY <1>4, <2>1 DEF Grounded
    <3>4. PICK i \in 1 .. Len(l) : l[i].thread = x.sess[s].thread
      BY <1>4, <2>1 DEF Grounded
    <3>5. i \in 1 .. Len(k) /\ k[i].thread = x.sess[s].thread
      BY <1>1, <3>4
    <3> QED BY <1>1, <1>2, <3>2, <3>3, <3>5
  <2>2. ASSUME NEW t \in Tids, x.thr[t] # Nobody PROVE \E i \in 1 .. Len(k) : k[i].thread = t
    <3>1. PICK i \in 1 .. Len(l) : l[i].thread = t
      BY <1>4, <2>2 DEF Grounded
    <3>2. i \in 1 .. Len(k) /\ k[i].thread = t
      BY <1>1, <3>1
    <3> QED BY <3>2
  <2> QED BY <2>1, <2>2 DEF Grounded
<1> QED BY <1>1, <1>2, <1>3, <1>4 DEF k

\* The change by hand leaves what is in the log with its event.
LEMMA WroteGrounded ==
  ASSUME NEW l \in Seq(Events), NEW x \in Index, Grounded(x, l), NEW e \in Events, NEW d \in Effects,
         Agrees(e, d), Possible(x, e, d), e.start <= Len(l)
  PROVE  Grounded(Wrote(x, d, Len(l) + 1), Append(l, e))
<1> DEFINE k == Append(l, e)
           y == Wrote(x, d, Len(l) + 1)
<1>1. /\ k \in Seq(Events) /\ Len(k) = Len(l) + 1 /\ k[Len(l) + 1] = e /\ Grounded(x, k)
      /\ Len(l) \in Nat /\ DOMAIN k = 1 .. Len(k) /\ Len(k) \in 1 .. Len(k)
  BY Grows
<1> HIDE DEF k
<1>2. ASSUME NEW s \in Sids, y.sess[s] # Nobody
      PROVE  /\ s \in CreatedIn(k) /\ y.sess[s].start <= Len(k) /\ y.sess[s].end <= Len(k)
             /\ \E i \in 1 .. Len(k) : k[i].thread = y.sess[s].thread
  <2>0. s # Nobody /\ y.sess[s] = IF s = d.adds THEN d.rec
                            ELSE IF s = d.ends THEN [x.sess[s] EXCEPT !.end = Len(l) + 1]
                            ELSE IF s = d.names THEN [x.sess[s] EXCEPT !.name = Len(l) + 1]
                            ELSE x.sess[s]
    BY NobodyIs DEF Wrote
  <2>1. CASE s = d.adds
    <3>1. /\ d.rec = [thread |-> e.thread, start |-> e.start, end |-> 0, ctx |-> e.ctx, name |-> 0]
          /\ e.kind \in {"created", "forked"} /\ s = e.sid
      BY <2>0, <2>1 DEF Agrees
    <3>2. s \in CreatedIn(k)
      BY <1>1, <3>1, CreatedAre
    <3>3. e.start \in Nat
      BY DEF Events
    <3> QED BY <1>1, <2>0, <2>1, <3>1, <3>2, <3>3
  <2>2. CASE s # d.adds
    <3>0. x.sess[s] # Nobody
      BY <1>2, <2>0, <2>2 DEF Possible, Open, Known
    <3>1. x.sess[s] \in Sessions
      BY <3>0 DEF Index, Tables
    <3>2. /\ y.sess[s].start = x.sess[s].start /\ y.sess[s].thread = x.sess[s].thread
          /\ y.sess[s].end \in {x.sess[s].end, Len(l) + 1}
      BY <2>0, <2>2, <3>1 DEF Sessions
    <3>3. /\ s \in CreatedIn(k) /\ x.sess[s].start <= Len(k) /\ x.sess[s].end <= Len(k)
          /\ \E i \in 1 .. Len(k) : k[i].thread = x.sess[s].thread
      BY <1>1, <3>0 DEF Grounded
    <3> QED BY <1>1, <3>2, <3>3
  <2> QED BY <2>1, <2>2
<1>3. ASSUME NEW t \in Tids, y.thr[t] # Nobody PROVE \E i \in 1 .. Len(k) : k[i].thread = t
  <2>1. CASE t = d.sets
    <3>1. t = e.thread
      BY <2>1, NobodyIs DEF Agrees
    <3> QED BY <1>1, <3>1
  <2>2. CASE t # d.sets
    <3>1. x.thr[t] # Nobody
      BY <1>3, <2>2 DEF Wrote
    <3> QED BY <1>1, <3>1 DEF Grounded
  <2> QED BY <2>1, <2>2
<1> HIDE DEF y
<1>4. Grounded(y, k)
  BY <1>2, <1>3 DEF Grounded
<1> QED BY <1>4 DEF y, k

------------------------------------------------------------------------------
(* Plans.                                                                  *)

\* A set of positions that is not empty has a last one.
LEMMA NewestIs ==
  ASSUME NEW n \in Nat, NEW L \in SUBSET (0 .. n), L # {}
  PROVE  Newest(L) \in L /\ \A q \in L : q <= Newest(L)
<1> DEFINE T == {k \in Nat : \E q \in L : k = n - q}
<1>0. \A q \in L : q \in Nat /\ q <= n /\ n - q \in T
  OBVIOUS
<1>1. T \in SUBSET Nat /\ T # {}
  BY <1>0
<1>2. PICK k \in T : \A q \in T : k <= q
  BY <1>1, LeastOf
<1>3. PICK i \in L : k = n - i
  OBVIOUS
<1> HIDE DEF T
<1>4. \A q \in L : q <= i
  <2> TAKE q \in L
  <2>1. n - i <= n - q /\ i \in Nat /\ q \in Nat
    BY <1>0, <1>2, <1>3
  <2> QED BY <2>1
<1> QED BY <1>4 DEF Newest

\* What the steps of a plan are.
LEMMA StepIs ==
  ASSUME NEW st \in Steps
  PROVE  /\ st.do \in Effects
         /\ st.ev # Nobody => st.ev \in Events
         /\ st.act # Nobody => st.act \in Places
BY DEF Steps

\* What the steps of a plan are, by position.
LEMMA StepsAre ==
  ASSUME NEW pl \in Seq(Steps), NEW i \in 1 .. Len(pl)
  PROVE  /\ pl[i] \in Steps /\ pl[i].do \in Effects
         /\ pl[i].ev # Nobody => pl[i].ev \in Events
         /\ pl[i].act # Nobody => pl[i].act \in Places
<1>1. pl[i] \in Steps
  OBVIOUS
<1> QED BY <1>1, StepIs

\* Where a plan leads: the place of its last step that moves.
LEMMA ReachedNone ==
  ASSUME NEW m, NEW pl, \A i \in DOMAIN pl : pl[i].act = Nobody
  PROVE  Reached(m, pl) = At(m.act, m.actT)
BY DEF Reached

\* A plan leads to the place of a step after which none moves.
LEMMA ReachedAt ==
  ASSUME NEW m, NEW pl \in Seq(Steps), NEW i \in 1 .. Len(pl), pl[i].act # Nobody,
         \A j \in 1 .. Len(pl) : j > i => pl[j].act = Nobody
  PROVE  Reached(m, pl) = pl[i].act
<1> DEFINE L == {j \in DOMAIN pl : pl[j].act # Nobody}
<1>1. L \in SUBSET (0 .. Len(pl)) /\ L # {} /\ Len(pl) \in Nat /\ i \in L /\ \A j \in L : j <= i
  OBVIOUS
<1>2. Newest(L) \in L /\ \A q \in L : q <= Newest(L)
  <2> HIDE DEF L
  <2> QED BY <1>1, NewestIs
<1>3. Newest(L) = i
  <2> HIDE DEF L
  <2>0. L \subseteq Nat
    BY <1>1
  <2>1. i <= Newest(L) /\ Newest(L) <= i
    BY <1>1, <1>2
  <2>2. i \in Nat /\ Newest(L) \in Nat
    BY <1>1, <1>2, <2>0
  <2> QED BY <2>1, <2>2
<1> QED BY <1>1, <1>3 DEF Reached

\* A plan leads nowhere else: to where the process is or to the place of its last move.
LEMMA ReachedIs ==
  ASSUME NEW m, NEW pl \in Seq(Steps)
  PROVE  \/ Reached(m, pl) = At(m.act, m.actT) /\ \A i \in 1 .. Len(pl) : pl[i].act = Nobody
         \/ \E i \in 1 .. Len(pl) : /\ pl[i].act # Nobody /\ Reached(m, pl) = pl[i].act
                                    /\ \A j \in 1 .. Len(pl) : j > i => pl[j].act = Nobody
<1> DEFINE L == {j \in DOMAIN pl : pl[j].act # Nobody}
<1>1. L \in SUBSET (0 .. Len(pl)) /\ Len(pl) \in Nat
  OBVIOUS
<1>2. CASE L = {}
  <2>1. \A i \in 1 .. Len(pl) : pl[i].act = Nobody
    BY <1>2
  <2>2. Reached(m, pl) = At(m.act, m.actT)
    BY <1>2, ReachedNone
  <2> QED BY <2>1, <2>2
<1>3. CASE L # {}
  <2> DEFINE i == Newest(L)
  <2>1. i \in L /\ \A q \in L : q <= i
    <3> HIDE DEF L
    <3> QED BY <1>1, <1>3, NewestIs
  <2> HIDE DEF i
  <2>2. i \in 1 .. Len(pl) /\ pl[i].act # Nobody
    BY <2>1
  <2>3. \A j \in 1 .. Len(pl) : j > i => pl[j].act = Nobody
    <3> SUFFICES ASSUME NEW j \in 1 .. Len(pl), j > i, pl[j].act # Nobody PROVE FALSE
      OBVIOUS
    <3>1. j \in L
      OBVIOUS
    <3> QED BY <2>1, <2>2, <3>1
  <2> QED BY <2>2, <2>3, ReachedAt
<1> QED BY <1>2, <1>3

\* The first step is taken: the plan leads where it did.
LEMMA ReachedTail ==
  ASSUME NEW m, NEW w, NEW pl \in Seq(Steps), pl # <<>>,
         pl[1].act = Nobody => w.act = m.act /\ w.actT = m.actT,
         pl[1].act # Nobody => w.act = pl[1].act.s /\ w.actT = pl[1].act.t
  PROVE  Reached(w, Tail(pl)) = Reached(m, pl)
<1> DEFINE tl == Tail(pl)
<1>0. /\ tl \in Seq(Steps) /\ Len(tl) = Len(pl) - 1 /\ Len(pl) \in Nat /\ Len(pl) >= 1
      /\ \A i \in 1 .. Len(tl) : tl[i] = pl[i + 1]
      /\ DOMAIN tl = 1 .. Len(tl) /\ DOMAIN pl = 1 .. Len(pl)
  BY HeadTailProperties
<1> HIDE DEF tl
<1>1. CASE \E i \in 1 .. Len(tl) : tl[i].act # Nobody
  <2>1. PICK i \in 1 .. Len(tl) : /\ tl[i].act # Nobody /\ Reached(w, tl) = tl[i].act
                                  /\ \A j \in 1 .. Len(tl) : j > i => tl[j].act = Nobody
    <3>1. \/ Reached(w, tl) = At(w.act, w.actT) /\ \A i \in 1 .. Len(tl) : tl[i].act = Nobody
          \/ \E i \in 1 .. Len(tl) : /\ tl[i].act # Nobody /\ Reached(w, tl) = tl[i].act
                                     /\ \A j \in 1 .. Len(tl) : j > i => tl[j].act = Nobody
      <4>1. tl \in Seq(Steps)
        BY <1>0
      <4> QED BY <4>1, ReachedIs
    <3> QED BY <1>1, <3>1
  <2>2. \A j \in 1 .. Len(pl) : j > i + 1 => pl[j].act = Nobody
    <3> SUFFICES ASSUME NEW j \in 1 .. Len(pl), j > i + 1 PROVE pl[j].act = Nobody
      OBVIOUS
    <3>1. j - 1 \in 1 .. Len(tl) /\ j - 1 > i /\ tl[j - 1] = pl[j]
      BY <1>0
    <3> QED BY <2>1, <3>1
  <2>3. i + 1 \in 1 .. Len(pl) /\ pl[i + 1].act # Nobody /\ tl[i] = pl[i + 1]
    BY <1>0, <2>1
  <2>4. Reached(m, pl) = pl[i + 1].act
    BY <2>2, <2>3, ReachedAt
  <2> QED BY <2>1, <2>3, <2>4 DEF tl
<1>2. CASE \A i \in 1 .. Len(tl) : tl[i].act = Nobody
  <2>1. Reached(w, tl) = At(w.act, w.actT)
    BY <1>0, <1>2, ReachedNone
  <2>2. \A j \in 1 .. Len(pl) : j > 1 => pl[j].act = Nobody
    <3> SUFFICES ASSUME NEW j \in 1 .. Len(pl), j > 1 PROVE pl[j].act = Nobody
      OBVIOUS
    <3>1. j - 1 \in 1 .. Len(tl) /\ tl[j - 1] = pl[j]
      BY <1>0
    <3> QED BY <1>2, <3>1
  <2>3. CASE pl[1].act = Nobody
    <3>1. \A j \in 1 .. Len(pl) : pl[j].act = Nobody
      BY <1>0, <2>2, <2>3
    <3>2. Reached(m, pl) = At(m.act, m.actT)
      BY <1>0, <3>1, ReachedNone
    <3> QED BY <2>1, <2>3, <3>2 DEF tl
  <2>4. CASE pl[1].act # Nobody
    <3>1. Reached(m, pl) = pl[1].act
      BY <1>0, <2>2, <2>4, ReachedAt
    <3>2. pl[1].act \in Places
      BY <1>0, <2>4, StepsAre
    <3>3. At(w.act, w.actT) = pl[1].act
      BY <2>4, <3>2 DEF At, Places
    <3> QED BY <2>1, <3>1, <3>3 DEF tl
  <2> QED BY <2>3, <2>4
<1> QED BY <1>1, <1>2

\* The steps that are left when the first is taken.
LEMMA TailIs ==
  ASSUME NEW pl \in Seq(Steps), pl # <<>>
  PROVE  /\ Tail(pl) \in Seq(Steps) /\ Len(Tail(pl)) = Len(pl) - 1 /\ Len(pl) \in Nat /\ Len(pl) >= 1
         /\ \A i \in 1 .. Len(Tail(pl)) : Tail(pl)[i] = pl[i + 1] /\ i + 1 \in 1 .. Len(pl)
         /\ Head(pl) = pl[1] /\ 1 \in 1 .. Len(pl)
         /\ \A i \in 1 .. Len(pl) : i = 1 \/ (i - 1 \in 1 .. Len(Tail(pl)) /\ Tail(pl)[i - 1] = pl[i])
<1>1. Tail(pl) \in Seq(Steps) /\ Len(Tail(pl)) = Len(pl) - 1 /\ Len(pl) \in Nat /\ Len(pl) >= 1
      /\ \A i \in 1 .. Len(Tail(pl)) : Tail(pl)[i] = pl[i + 1]
  BY HeadTailProperties
<1> QED BY <1>1

\* The first change by hand is possible.
LEMMA HeadPossible ==
  ASSUME NEW x \in Index, NEW pl \in Seq(Steps), pl # <<>>, NEW n \in Nat, PlanOK(x, pl, n), pl[1].ev # Nobody
  PROVE  /\ pl[1].ev \in Events /\ pl[1].do \in Effects
         /\ Agrees(pl[1].ev, pl[1].do) /\ Possible(x, pl[1].ev, pl[1].do) /\ pl[1].ev.start <= n
         /\ pl[1].ev.kind = "forked" /\ pl[1].do.adds = Nobody => x.sess[pl[1].ev.sid] # Nobody
<1>1. StepOK(x, pl, n, 1)
  BY TailIs DEF PlanOK
<1>2. pl[1].ev \in Events /\ pl[1].do \in Effects
  BY TailIs, StepsAre
<1> QED BY <1>1, <1>2 DEF StepOK

\* What a change by hand leaves of the rest.
LEMMA WroteKeeps ==
  ASSUME NEW x \in Index, NEW e \in Events, NEW d \in Effects, NEW pos \in Nat,
         Agrees(e, d), Possible(x, e, d)
  PROVE  LET y == Wrote(x, d, pos) IN
         /\ \A s \in Sids : x.sess[s] # Nobody =>
              /\ y.sess[s] # Nobody /\ y.sess[s].thread = x.sess[s].thread
              /\ s # d.ends => y.sess[s].end = x.sess[s].end
         /\ \A s \in Sids : x.sess[s] = Nobody /\ s # d.adds => y.sess[s] = Nobody
         /\ d.adds # Nobody => y.sess[d.adds] = d.rec /\ d.rec # Nobody /\ d.rec.end = 0
         /\ \A t \in Tids : t # d.sets => y.thr[t] = x.thr[t]
         /\ \A t \in Tids : t = d.sets => y.thr[t] = d.status
<1> DEFINE y == Wrote(x, d, pos)
<1>1. ASSUME NEW s \in Sids, x.sess[s] # Nobody
      PROVE  /\ y.sess[s] # Nobody /\ y.sess[s].thread = x.sess[s].thread
             /\ s # d.ends => y.sess[s].end = x.sess[s].end
  <2>1. x.sess[s] \in Sessions
    BY <1>1 DEF Index, Tables
  <2>2. s # Nobody /\ s # d.adds
    BY <1>1, NobodyIs DEF Possible
  <2>3. y.sess[s] \in {x.sess[s], [x.sess[s] EXCEPT !.end = pos], [x.sess[s] EXCEPT !.name = pos]}
        /\ (s # d.ends => y.sess[s] # [x.sess[s] EXCEPT !.end = pos] \/ y.sess[s] = x.sess[s]
                          \/ y.sess[s] = [x.sess[s] EXCEPT !.name = pos])
    BY <2>2 DEF Wrote
  <2>4. y.sess[s] \in Sessions /\ y.sess[s].thread = x.sess[s].thread
    BY <2>1, <2>3 DEF Sessions
  <2>5. s # d.ends => y.sess[s].end = x.sess[s].end
    BY <2>1, <2>2 DEF Wrote, Sessions
  <2> QED BY <2>4, <2>5, SessionIndexAssumption
<1>2. ASSUME NEW s \in Sids, x.sess[s] = Nobody, s # d.adds PROVE y.sess[s] = Nobody
  BY <1>2, NobodyIs DEF Wrote, Possible, Open, Known
<1>3. ASSUME d.adds # Nobody PROVE y.sess[d.adds] = d.rec /\ d.rec # Nobody /\ d.rec.end = 0
  <2>1. d.adds \in Sids /\ d.rec \in Sessions /\ d.rec.end = 0
    BY <1>3, Written DEF Effects, Agrees
  <2> QED BY <2>1, SessionIndexAssumption DEF Wrote
<1>4. \A t \in Tids : (t # d.sets => y.thr[t] = x.thr[t]) /\ (t = d.sets => y.thr[t] = d.status)
  BY DEF Wrote
<1> QED BY <1>1, <1>2, <1>3, <1>4

\* What the step d leaves of an index x is in y.
Follows(x, y, d) ==
  /\ \A s \in Sids : x.sess[s] # Nobody =>
       /\ y.sess[s] # Nobody /\ y.sess[s].thread = x.sess[s].thread
       /\ s # d.ends => y.sess[s].end = x.sess[s].end
  /\ \A s \in Sids : x.sess[s] = Nobody /\ s # d.adds => y.sess[s] = Nobody
  /\ d.adds # Nobody => /\ x.sess[d.adds] = Nobody /\ y.sess[d.adds] = d.rec
                        /\ d.rec # Nobody /\ d.rec.end = 0
  /\ \A t \in Tids : y.thr[t] = IF t = d.sets THEN d.status ELSE x.thr[t]

\* A possible change by hand leaves the rest of the index.
LEMMA WroteFollows ==
  ASSUME NEW x \in Index, NEW e \in Events, NEW d \in Effects, NEW pos \in Nat,
         Agrees(e, d), Possible(x, e, d)
  PROVE  Follows(x, Wrote(x, d, pos), d)
<1>1. d.adds # Nobody => x.sess[d.adds] = Nobody
  BY DEF Possible
<1> HIDE DEF Possible
<1> QED BY <1>1, WroteKeeps DEF Follows

\* A save leaves all of it.
LEMMA SaveFollows == ASSUME NEW x \in Index PROVE Follows(x, x, NoEffect)
BY NobodyIs DEF Follows, NoEffect

\* The first step of a plan is taken: the others are as possible as before.
LEMMA PlanTail ==
  ASSUME NEW x \in Index, NEW y \in Index, NEW pl \in Seq(Steps), pl # <<>>,
         NEW n \in Nat, NEW k \in Nat, n <= k, PlanOK(x, pl, n), Follows(x, y, pl[1].do)
  PROVE  PlanOK(y, Tail(pl), k)
<1> DEFINE tl == Tail(pl)
           d1 == pl[1].do
<1>0. /\ tl \in Seq(Steps) /\ Len(tl) = Len(pl) - 1 /\ Len(pl) \in Nat /\ Len(pl) >= 1
      /\ \A i \in 1 .. Len(tl) : tl[i] = pl[i + 1] /\ i + 1 \in 1 .. Len(pl)
      /\ \A i \in 1 .. Len(pl) : i = 1 \/ (i - 1 \in 1 .. Len(tl) /\ tl[i - 1] = pl[i])
      /\ d1 \in Effects /\ 1 \in 1 .. Len(pl)
  BY TailIs, StepsAre
<1> HIDE DEF tl
<1> SUFFICES ASSUME NEW i \in 1 .. Len(tl) PROVE StepOK(y, tl, k, i)
  BY DEF PlanOK, tl
<1> DEFINE e == pl[i + 1].ev
           d == pl[i + 1].do
<1>1. tl[i] = pl[i + 1] /\ i + 1 \in 1 .. Len(pl) /\ i \in Nat
  BY <1>0
<1>2. d \in Effects /\ (e # Nobody => e \in Events) /\ StepOK(x, pl, n, i + 1)
  BY <1>1, StepsAre DEF PlanOK
<1>3. /\ e = Nobody => d = NoEffect
      /\ e # Nobody =>
           /\ Agrees(e, d) /\ Possible(x, e, d) /\ e.start <= n
           /\ e.kind = "forked" /\ d.adds = Nobody =>
                x.sess[e.sid] # Nobody \/ \E j \in 1 .. i : pl[j].do.adds = e.sid
      /\ \A j \in 1 .. i :
           /\ d.adds = Nobody \/ pl[j].do.adds = Nobody
           /\ d.sets = Nobody \/ pl[j].do.sets = Nobody
           /\ d.ends = Nobody \/ pl[j].do.ends # d.ends
  BY <1>1, <1>2 DEF StepOK
<1>4. /\ d.adds = Nobody \/ d1.adds = Nobody
      /\ d.sets = Nobody \/ d1.sets = Nobody
      /\ d.ends = Nobody \/ d1.ends # d.ends
  BY <1>1, <1>3
<1>a. /\ d.adds \in Sids \cup {Nobody} /\ d.ends \in Sids \cup {Nobody} /\ d.names \in Sids \cup {Nobody}
      /\ d.sets \in Tids \cup {Nobody} /\ d1.adds \in Sids \cup {Nobody} /\ d1.sets \in Tids \cup {Nobody}
  BY <1>0, <1>2 DEF Effects
<1>b. e # Nobody => e.sid \in Sids \cup {Nobody} /\ e.start \in Nat
  BY <1>2 DEF Events
<1> HIDE DEF e, d, d1
<1>5. ASSUME e # Nobody PROVE Possible(y, e, d)
  <2>1. d.adds # Nobody => y.sess[d.adds] = Nobody
    BY <1>3, <1>4, <1>5, <1>a, NobodyIs DEF Possible, Follows, d1
  <2>2. d.ends # Nobody => Open(y, d.ends)
    <3>1. ASSUME d.ends # Nobody PROVE Open(y, d.ends)
      <4>1. x.sess[d.ends] # Nobody /\ x.sess[d.ends].end = 0 /\ d.ends \in Sids
        BY <1>3, <1>5, <3>1 DEF Possible, Open, Known
      <4>2. d.ends # d1.ends
        BY <1>4, <3>1
      <4>3. y.sess[d.ends] # Nobody /\ y.sess[d.ends].end = x.sess[d.ends].end
        BY <4>1, <4>2 DEF Follows, d1
      <4> QED BY <4>1, <4>3 DEF Open, Known
    <3> QED BY <3>1
  <2>3. d.names # Nobody => y.sess[d.names] # Nobody
    BY <1>3, <1>5, <1>a DEF Possible, Follows
  <2>4. d.sets # Nobody => (y.thr[d.sets] = Nobody <=> e.kind = "created")
    <3>1. ASSUME d.sets # Nobody PROVE y.thr[d.sets] = x.thr[d.sets]
      BY <1>4, <1>a, <3>1 DEF Follows, d1
    <3> QED BY <1>3, <1>5, <3>1 DEF Possible
  <2> QED BY <2>1, <2>2, <2>3, <2>4 DEF Possible
<1>6. ASSUME e # Nobody, e.kind = "forked", d.adds = Nobody
      PROVE  y.sess[e.sid] # Nobody \/ \E j \in 1 .. i - 1 : tl[j].do.adds = e.sid
  <2>0. e.sid \in Sids
    BY <1>3, <1>6, <1>b DEF Agrees
  <2>1. CASE x.sess[e.sid] # Nobody
    BY <2>0, <2>1 DEF Follows
  <2>2. CASE \E j \in 1 .. i : pl[j].do.adds = e.sid
    <3>1. PICK j \in 1 .. i : pl[j].do.adds = e.sid
      BY <2>2
    <3>2. CASE j = 1
      BY <2>0, <3>1, <3>2, NobodyIs DEF Follows
    <3>3. CASE j # 1
      <4>1. j \in 1 .. Len(pl)
        BY <1>0, <1>1
      <4>2. j - 1 \in 1 .. i - 1 /\ tl[j - 1] = pl[j]
        BY <1>0, <1>1, <3>3, <4>1
      <4> QED BY <3>1, <4>2
    <3> QED BY <3>2, <3>3
  <2> QED BY <1>3, <1>6, <2>1, <2>2
<1>7. \A j \in 1 .. i - 1 :
           /\ d.adds = Nobody \/ tl[j].do.adds = Nobody
           /\ d.sets = Nobody \/ tl[j].do.sets = Nobody
           /\ d.ends = Nobody \/ tl[j].do.ends # d.ends
  <2> SUFFICES ASSUME NEW j \in 1 .. i - 1
               PROVE  /\ d.adds = Nobody \/ tl[j].do.adds = Nobody
                      /\ d.sets = Nobody \/ tl[j].do.sets = Nobody
                      /\ d.ends = Nobody \/ tl[j].do.ends # d.ends
    OBVIOUS
  <2>1. j + 1 \in 1 .. i /\ j \in 1 .. Len(tl)
    BY <1>0, <1>1
  <2>2. tl[j] = pl[j + 1]
    BY <1>0, <2>1
  <2> QED BY <1>3, <2>1, <2>2
<1>8. e # Nobody => e.start <= k
  BY <1>3, <1>b
<1> QED BY <1>1, <1>3, <1>5, <1>6, <1>7, <1>8 DEF StepOK, e, d

\* The first step is taken: the plan still leads to a session that exists.
LEMMA LandsTail ==
  ASSUME NEW x \in Index, NEW y \in Index, NEW pl \in Seq(Steps), pl # <<>>, NEW r,
         Follows(x, y, pl[1].do), Lands(x, pl, r)
  PROVE  Lands(y, Tail(pl), r)
<1>0. r \in Places /\ r.s \in Sids
  BY DEF Lands, Places
<1>1. CASE x.sess[r.s] # Nobody /\ x.sess[r.s].thread = r.t
  BY <1>0, <1>1 DEF Lands, Follows
<1>2. CASE \E i \in 1 .. Len(pl) : pl[i].do.adds = r.s /\ pl[i].do.rec.thread = r.t
  <2>1. PICK i \in 1 .. Len(pl) : pl[i].do.adds = r.s /\ pl[i].do.rec.thread = r.t
    BY <1>2
  <2>2. CASE i = 1
    BY <1>0, <2>1, <2>2, NobodyIs DEF Lands, Follows
  <2>3. CASE i # 1
    <3>1. i - 1 \in 1 .. Len(Tail(pl)) /\ Tail(pl)[i - 1] = pl[i]
      BY <2>3, TailIs
    <3> QED BY <1>0, <2>1, <3>1 DEF Lands
  <2> QED BY <2>2, <2>3
<1> QED BY <1>1, <1>2 DEF Lands

\* The first step is taken: the message is still last, for an open session.
LEMMA MessageTail ==
  ASSUME NEW x \in Index, NEW y \in Index, NEW pl \in Seq(Steps), pl # <<>>, NEW r \in Places,
         Follows(x, y, pl[1].do), MessageLast(x, pl, r)
  PROVE  MessageLast(y, Tail(pl), r)
<1> DEFINE tl == Tail(pl)
<1>0. /\ tl \in Seq(Steps) /\ Len(tl) = Len(pl) - 1 /\ Len(pl) \in Nat /\ Len(pl) >= 1
      /\ \A i \in 1 .. Len(tl) : tl[i] = pl[i + 1] /\ i + 1 \in 1 .. Len(pl)
      /\ \A i \in 1 .. Len(pl) : i = 1 \/ (i - 1 \in 1 .. Len(tl) /\ tl[i - 1] = pl[i])
      /\ 1 \in 1 .. Len(pl) /\ r.s \in Sids
  BY TailIs DEF Places
<1> HIDE DEF tl
<1> SUFFICES ASSUME NEW i \in 1 .. Len(tl), tl[i].ev # Nobody, tl[i].ev.kind = "message"
             PROVE  /\ i = Len(tl) /\ tl[i].act = Nobody /\ tl[i].ev.thread = r.t
                    /\ Open(y, r.s) \/ \E j \in 1 .. Len(tl) : tl[j].do.adds = r.s
                    /\ \A j \in 1 .. Len(tl) : tl[j].do.ends # r.s
  BY DEF MessageLast, tl
<1>1. tl[i] = pl[i + 1] /\ i + 1 \in 1 .. Len(pl)
  BY <1>0
<1>2. /\ i + 1 = Len(pl) /\ pl[i + 1].act = Nobody /\ pl[i + 1].ev.thread = r.t
      /\ Open(x, r.s) \/ \E j \in 1 .. Len(pl) : pl[j].do.adds = r.s
      /\ \A j \in 1 .. Len(pl) : pl[j].do.ends # r.s
  BY <1>1 DEF MessageLast
<1>3. \A j \in 1 .. Len(tl) : tl[j].do.ends # r.s
  BY <1>0, <1>2
<1>4. Open(y, r.s) \/ \E j \in 1 .. Len(tl) : tl[j].do.adds = r.s
  <2>1. CASE Open(x, r.s)
    <3>1. r.s # pl[1].do.ends
      BY <1>0, <1>2
    <3> QED BY <1>0, <2>1, <3>1 DEF Open, Known, Follows
  <2>2. CASE \E j \in 1 .. Len(pl) : pl[j].do.adds = r.s
    <3>1. PICK j \in 1 .. Len(pl) : pl[j].do.adds = r.s
      BY <2>2
    <3>2. CASE j = 1
      BY <1>0, <3>1, <3>2, NobodyIs DEF Open, Known, Follows
    <3>3. CASE j # 1
      <4>1. j - 1 \in 1 .. Len(tl) /\ tl[j - 1] = pl[j]
        BY <1>0, <3>3
      <4>2. tl[j - 1].do.adds = r.s
        BY <3>1, <4>1
      <4> QED BY <4>1, <4>2
    <3> QED BY <3>2, <3>3
  <2> QED BY <1>2, <2>1, <2>2
<1> QED BY <1>0, <1>1, <1>2, <1>3, <1>4

\* The first step is taken: no thread turns into a background one that would not have.
LEMMA BackgroundTail ==
  ASSUME NEW x \in Index, NEW y \in Index, NEW pl \in Seq(Steps), pl # <<>>, NEW t \in Tids,
         Follows(x, y, pl[1].do)
  PROVE  /\ ToBackground(Tail(pl), t) => ToBackground(pl, t)
         /\ y.thr[t] = "background" => x.thr[t] = "background" \/ ToBackground(pl, t)
<1>0. 1 \in 1 .. Len(pl) /\ \A i \in 1 .. Len(Tail(pl)) : Tail(pl)[i] = pl[i + 1] /\ i + 1 \in 1 .. Len(pl)
  BY TailIs
<1>1. ToBackground(Tail(pl), t) => ToBackground(pl, t)
  BY <1>0 DEF ToBackground
<1>2. y.thr[t] = "background" => x.thr[t] = "background" \/ ToBackground(pl, t)
  BY <1>0 DEF ToBackground, Follows
<1> QED BY <1>1, <1>2

------------------------------------------------------------------------------
(* The steps keep the invariant.                                           *)

\* The values of the state, process by process.
LEMMA Typed ==
  ASSUME IndexInv, NEW p \in Procs
  PROVE  /\ log \in Seq(Events) /\ Len(log) \in Nat
         /\ mem[p] \in Minds /\ Idx(mem[p]) \in Index /\ plan[p] \in Seq(Steps)
         /\ task[p] \in Runs \cup {Nobody} /\ Idx(snap) \in Index /\ snap.mark \in Nat /\ head[p] \in Nat
         /\ Idx(mem[p]).sess = mem[p].sess /\ Idx(mem[p]).thr = mem[p].thr
BY DEF IndexInv, TypeOK, Minds, Idx, Index

\* What a process has in mind after a step that leaves the index x and may move it.
LEMMA Moved ==
  ASSUME NEW m \in Minds, NEW x \in Index, NEW act \in Places \cup {Nobody}
  PROVE  LET w == MoveTo([m EXCEPT !.sess = x.sess, !.thr = x.thr], act)
         IN  /\ w \in Minds /\ Idx(w) = x /\ w.up = m.up
             /\ act = Nobody => w.act = m.act /\ w.actT = m.actT
             /\ act # Nobody => w.act = act.s /\ w.actT = act.t
<1> DEFINE v == [m EXCEPT !.sess = x.sess, !.thr = x.thr]
           w == MoveTo(v, act)
<1>1. x = [sess |-> x.sess, thr |-> x.thr] /\ x.sess \in Tables /\ x.thr \in Threads
  BY DEF Index
<1>2. v \in Minds /\ v.sess = x.sess /\ v.thr = x.thr /\ v.up = m.up /\ v.act = m.act /\ v.actT = m.actT
  BY <1>1 DEF Minds
<1> HIDE DEF v
<1>3. CASE act = Nobody
  <2>1. w = v
    BY <1>3 DEF MoveTo
  <2> HIDE DEF w
  <2> QED BY <1>1, <1>2, <1>3, <2>1 DEF w, v, Idx
<1>4. CASE act # Nobody
  <2>1. act.s \in Sids /\ act.t \in Tids
    BY <1>4 DEF Places
  <2>2. w = [v EXCEPT !.act = act.s, !.actT = act.t]
    BY <1>4 DEF MoveTo
  <2> HIDE DEF w
  <2>3. w \in Minds /\ w.sess = v.sess /\ w.thr = v.thr /\ w.up = v.up /\ w.act = act.s /\ w.actT = act.t
    BY <1>2, <2>1, <2>2 DEF Minds
  <2> QED BY <1>1, <1>2, <1>4, <2>3 DEF w, v, Idx
<1> QED BY <1>3, <1>4 DEF v

\* A plan is one of a process that is up.
LEMMA Acting ==
  ASSUME IndexInv, NEW p \in Procs, plan[p] # <<>>
  PROVE  /\ mem[p].up /\ PlanOK(Idx(mem[p]), plan[p], Len(log))
         /\ Lands(Idx(mem[p]), plan[p], Reached(mem[p], plan[p]))
         /\ MessageLast(Idx(mem[p]), plan[p], Reached(mem[p], plan[p]))
         /\ IF task[p] = Nobody THEN ChatOK(Idx(mem[p]), plan[p], Reached(mem[p], plan[p]))
            ELSE BackOK(Idx(mem[p]), plan[p], task[p])
<1>1. ProcessInv(p) /\ mem[p].up \in BOOLEAN
  BY DEF IndexInv, TypeOK, Minds
<1> QED BY <1>1 DEF ProcessInv

\* A process that takes a step stays as it was, in the index the step leaves.
LEMMA StepTaken ==
  ASSUME IndexInv, NEW p \in Procs, plan[p] # <<>>, NEW y \in Index, NEW k \in Seq(Events), NEW w \in Minds,
         Len(log) <= Len(k), Follows(Idx(mem[p]), y, plan[p][1].do), Grounded(y, k), Idx(w) = y,
         w.up = mem[p].up,
         plan[p][1].act = Nobody => w.act = mem[p].act /\ w.actT = mem[p].actT,
         plan[p][1].act # Nobody => w.act = plan[p][1].act.s /\ w.actT = plan[p][1].act.t
  PROVE  LET tl == Tail(plan[p])
             r == Reached(w, tl)
         IN  /\ w.up /\ PlanOK(y, tl, Len(k)) /\ Lands(y, tl, r) /\ MessageLast(y, tl, r)
             /\ IF task[p] = Nobody THEN ChatOK(y, tl, r) ELSE BackOK(y, tl, task[p])
<1> DEFINE x == Idx(mem[p])
           pl == plan[p]
           tl == Tail(plan[p])
           r == Reached(w, tl)
<1>1. x \in Index /\ pl \in Seq(Steps) /\ Len(log) \in Nat /\ Len(k) \in Nat /\ pl # <<>>
  BY Typed
<1>2. r = Reached(mem[p], pl)
  BY <1>1, ReachedTail
<1>3. /\ mem[p].up /\ PlanOK(x, pl, Len(log)) /\ Lands(x, pl, r) /\ MessageLast(x, pl, r)
      /\ IF task[p] = Nobody THEN ChatOK(x, pl, r) ELSE BackOK(x, pl, task[p])
  BY <1>2, Acting
<1>4. Follows(x, y, pl[1].do)
  OBVIOUS
<1> HIDE DEF x, pl, r
<1>5. PlanOK(y, Tail(pl), Len(k))
  BY <1>1, <1>3, <1>4, PlanTail
<1>6. Lands(y, Tail(pl), r)
  BY <1>1, <1>3, <1>4, LandsTail
<1>7. r \in Places
  BY <1>3 DEF Lands
<1>8. MessageLast(y, Tail(pl), r)
  BY <1>1, <1>3, <1>4, <1>7, MessageTail
<1>9. \A t \in Tids : /\ ToBackground(Tail(pl), t) => ToBackground(pl, t)
                      /\ y.thr[t] = "background" => x.thr[t] = "background" \/ ToBackground(pl, t)
  BY <1>1, <1>4, BackgroundTail
<1>10. ASSUME task[p] = Nobody PROVE ChatOK(y, Tail(pl), r)
  <2>1. r.t \in Tids
    BY <1>7 DEF Places
  <2> QED BY <1>3, <1>9, <1>10, <2>1 DEF ChatOK
<1>11. ASSUME task[p] # Nobody PROVE BackOK(y, Tail(pl), task[p])
  <2>1. BackOK(x, pl, task[p])
    BY <1>3, <1>11
  <2>2. task[p].back \in Sids /\ x.sess[task[p].back] # Nobody
    BY <2>1 DEF BackOK
  <2>3. y.sess[task[p].back] # Nobody /\ y.sess[task[p].back].thread = x.sess[task[p].back].thread
    BY <1>4, <2>2 DEF Follows
  <2>4. x.sess[task[p].back].thread \in Tids
    BY <1>1, <2>2 DEF Index, Tables, Sessions
  <2> QED BY <1>9, <2>1, <2>2, <2>3, <2>4 DEF BackOK
<1> QED BY <1>3, <1>5, <1>6, <1>8, <1>10, <1>11 DEF pl, r

\* A process that does nothing is not disturbed.
LEMMA OtherStays ==
  ASSUME IndexInv, NEW q \in Procs, NEW k \in Seq(Events), log' = k, Len(log) <= Len(k),
         Grounded(Idx(mem[q]), log) => Grounded(Idx(mem[q]), k),
         mem'[q] = mem[q], plan'[q] = plan[q], task'[q] = task[q], seen \subseteq seen'
  PROVE  ProcessInv(q)'
<1> DEFINE x == Idx(mem[q])
           r == Reached(mem[q], plan[q])
<1>1. ProcessInv(q) /\ plan[q] \in Seq(Steps) /\ mem[q].up \in BOOLEAN /\ Len(log) \in Nat /\ Len(k) \in Nat
  BY Typed DEF IndexInv, Minds
<1>2. /\ Grounded(x, k)
      /\ ~mem[q].up => plan[q] = <<>> /\ task[q] = Nobody
      /\ mem[q].up => /\ PlanOK(x, plan[q], Len(log)) /\ Lands(x, plan[q], r) /\ MessageLast(x, plan[q], r)
                      /\ IF task[q] = Nobody THEN ChatOK(x, plan[q], r) ELSE BackOK(x, plan[q], task[q])
  BY <1>1 DEF ProcessInv
<1>3. PlanOK(x, plan[q], Len(log)) => PlanOK(x, plan[q], Len(k))
  <2> SUFFICES ASSUME NEW i \in 1 .. Len(plan[q]), StepOK(x, plan[q], Len(log), i)
               PROVE  StepOK(x, plan[q], Len(k), i)
    BY DEF PlanOK
  <2>1. plan[q][i].ev # Nobody => plan[q][i].ev.start \in Nat
    BY <1>1, StepsAre DEF Events
  <2> QED BY <1>1, <2>1 DEF StepOK
<1>4. ChatOK(x, plan[q], r) => ChatOK(x, plan[q], r)'
  BY DEF ChatOK, ToBackground, Idx, Reached, At
<1>5. BackOK(x, plan[q], task[q]) => BackOK(x, plan[q], task[q])'
  BY DEF BackOK, ToBackground, Idx
<1>6. x' = x /\ r' = r
  BY DEF Idx, Reached
<1> HIDE DEF x, r
<1> QED BY <1>2, <1>3, <1>4, <1>5, <1>6 DEF ProcessInv, x, r

\* An append of a reachable state writes, by hand, a possible change that agrees with its
\* event.
LEMMA Appended ==
  ASSUME IndexInv, NEW p \in Procs, AppendStep(p)
  PROVE  LET e == plan[p][1].ev
             d == plan[p][1].do
             x == Idx(mem[p])
             y == Wrote(x, d, Len(log) + 1)
             w == mem'[p]
         IN  /\ plan[p] # <<>> /\ e # Nobody /\ mem[p].up
             /\ e \in Events /\ d \in Effects /\ Agrees(e, d) /\ Possible(x, e, d) /\ e.start <= Len(log)
             /\ e.kind = "forked" /\ d.adds = Nobody => x.sess[e.sid] # Nobody
             /\ log' = Append(log, e) /\ y \in Index
             /\ mem' = [mem EXCEPT ![p] = w]
             /\ w \in Minds /\ Idx(w) = y /\ w.up = mem[p].up
             /\ plan[p][1].act = Nobody => w.act = mem[p].act /\ w.actT = mem[p].actT
             /\ plan[p][1].act # Nobody => w.act = plan[p][1].act.s /\ w.actT = plan[p][1].act.t
             /\ head' = [head EXCEPT ![p] = Len(log) + 1]
             /\ home' = Append(home, IF e.kind = "message" THEN w.act ELSE Nobody)
             /\ plan' = [plan EXCEPT ![p] = Tail(plan[p])]
             /\ UNCHANGED <<snap, task, seen, crashes>>
<1> DEFINE pl == plan[p]
           e == pl[1].ev
           d == pl[1].do
           x == Idx(mem[p])
           y == Wrote(x, d, Len(log) + 1)
           m == MoveTo([mem[p] EXCEPT !.sess = Effect(x, d, Len(log) + 1).sess,
                                      !.thr = Effect(x, d, Len(log) + 1).thr], pl[1].act)
<1>1. /\ x \in Index /\ pl \in Seq(Steps) /\ Len(log) \in Nat /\ mem[p] \in Minds /\ mem \in [Procs -> Minds]
      /\ Len(log) + 1 \in Nat
  BY Typed DEF IndexInv, TypeOK
<1>2. pl # <<>> /\ Head(pl).ev # Nobody
  BY DEF AppendStep
<1>3. Head(pl) = pl[1] /\ 1 \in 1 .. Len(pl)
  BY <1>1, <1>2, TailIs
<1>4. mem[p].up /\ PlanOK(x, pl, Len(log))
  BY <1>2, Acting
<1>5. /\ e \in Events /\ d \in Effects /\ Agrees(e, d) /\ Possible(x, e, d) /\ e.start <= Len(log)
      /\ e.kind = "forked" /\ d.adds = Nobody => x.sess[e.sid] # Nobody
  <2> HIDE DEF x, pl
  <2> QED BY <1>1, <1>2, <1>3, <1>4, HeadPossible
<1>6. pl[1].act \in Places \cup {Nobody}
  BY <1>1, <1>3, StepsAre
<1>7. /\ log' = Append(log, e) /\ mem' = [mem EXCEPT ![p] = m] /\ head' = [head EXCEPT ![p] = Len(log) + 1]
      /\ home' = IF e.kind = "message" THEN Append(home, m.act) ELSE Append(home, Nobody)
      /\ plan' = [plan EXCEPT ![p] = Tail(pl)]
      /\ UNCHANGED <<snap, task, seen, crashes>>
  BY <1>3 DEF AppendStep, Do, Idx
<1>8. Effect(x, d, Len(log) + 1) = y /\ y \in Index
  <2> HIDE DEF x, d, e
  <2> QED BY <1>1, <1>5, EffectWrites, Written
<1>9. /\ m \in Minds /\ Idx(m) = y /\ m.up = mem[p].up
      /\ pl[1].act = Nobody => m.act = mem[p].act /\ m.actT = mem[p].actT
      /\ pl[1].act # Nobody => m.act = pl[1].act.s /\ m.actT = pl[1].act.t
  <2>1. m = MoveTo([mem[p] EXCEPT !.sess = y.sess, !.thr = y.thr], pl[1].act)
    BY <1>8
  <2>2. y \in Index /\ mem[p] \in Minds
    BY <1>1, <1>8
  <2> HIDE DEF m, y, pl, x, d, e
  <2> QED BY <1>6, <2>1, <2>2, Moved
<1> HIDE DEF m
<1>10. mem'[p] = m
  BY <1>1, <1>7
<1> HIDE DEF x, y, d, e
<1> QED BY <1>2, <1>3, <1>4, <1>5, <1>7, <1>8, <1>9, <1>10 DEF x, y, d, e

\* The threads that an append counts as a run's own, and as made interactive by a run.
LEMMA Marked ==
  ASSUME IndexInv, NEW p \in Procs, AppendStep(p)
  PROVE  LET e == plan[p][1].ev IN
         /\ runs' = IF task[p] # Nobody /\ e.kind = "created" /\ e.status # Nobody
                    THEN runs \cup {e.thread} ELSE runs
         /\ loosed' = IF task[p] # Nobody /\ e.status = "active" THEN loosed \cup {e.thread} ELSE loosed
         /\ runs' \subseteq Tids /\ loosed' \subseteq Tids
<1> DEFINE e == plan[p][1].ev
<1>1. e \in Events
  BY Appended
<1>2. plan[p] \in Seq(Steps) /\ plan[p] # <<>>
  BY Typed DEF AppendStep
<1>3. Head(plan[p]) = plan[p][1]
  BY <1>2
<1>4. /\ runs' = IF task[p] # Nobody /\ e.kind = "created" /\ e.status # Nobody
                 THEN runs \cup {e.thread} ELSE runs
      /\ loosed' = IF task[p] # Nobody /\ e.status = "active" THEN loosed \cup {e.thread} ELSE loosed
  BY <1>3 DEF AppendStep
<1>5. e.thread \in Tids
  BY <1>1 DEF Events
<1> HIDE DEF e
<1>6. runs \subseteq Tids /\ loosed \subseteq Tids
  BY DEF IndexInv, TypeOK
<1> QED BY <1>4, <1>5, <1>6 DEF e

\* An append keeps the invariant.
LEMMA AppendKeeps ==
  ASSUME IndexInv, NEW p \in Procs, AppendStep(p)
  PROVE  IndexInv'
<1> DEFINE e == plan[p][1].ev
           d == plan[p][1].do
           x == Idx(mem[p])
           y == Wrote(x, d, Len(log) + 1)
           w == mem'[p]
<1>1. /\ plan[p] # <<>> /\ e # Nobody /\ mem[p].up
      /\ e \in Events /\ d \in Effects /\ Agrees(e, d) /\ Possible(x, e, d) /\ e.start <= Len(log)
      /\ log' = Append(log, e) /\ y \in Index
      /\ mem' = [mem EXCEPT ![p] = w]
      /\ w \in Minds /\ Idx(w) = y /\ w.up = mem[p].up
      /\ plan[p][1].act = Nobody => w.act = mem[p].act /\ w.actT = mem[p].actT
      /\ plan[p][1].act # Nobody => w.act = plan[p][1].act.s /\ w.actT = plan[p][1].act.t
      /\ head' = [head EXCEPT ![p] = Len(log) + 1]
      /\ home' = Append(home, IF e.kind = "message" THEN w.act ELSE Nobody)
      /\ plan' = [plan EXCEPT ![p] = Tail(plan[p])]
      /\ UNCHANGED <<snap, task, seen, crashes>>
  BY Appended
<1> DEFINE tl == Tail(plan[p])
           k == Append(log, e)
<1>2. /\ x \in Index /\ plan[p] \in Seq(Steps) /\ log \in Seq(Events) /\ Len(log) \in Nat
      /\ Idx(snap) \in Index
  BY Typed
<1>3. TypeOK /\ LogOK(log) /\ Grounded(Idx(snap), log) /\ \A q \in Procs : ProcessInv(q)
  BY DEF IndexInv
<1>4. tl \in Seq(Steps)
  BY <1>1, <1>2, TailIs
<1> HIDE DEF e, d, x, y, w, tl
<1>5. /\ k \in Seq(Events) /\ Len(k) = Len(log) + 1 /\ LogOK(k)
      /\ \A z \in Index : Grounded(z, log) => Grounded(z, k)
  BY <1>1, <1>2, <1>3, Grows, Formed
<1>6. Grounded(y, k) /\ Follows(x, y, d)
  <2>1. Grounded(x, log)
    BY <1>3 DEF ProcessInv, x
  <2> QED BY <1>1, <1>2, <2>1, WroteGrounded, WroteFollows DEF y
<1> HIDE DEF k
<1>7. log' = k
  BY <1>1 DEF k
<1>8. TypeOK'
  <2>1. log' \in Seq(Events) /\ Len(log') = Len(log) + 1
    BY <1>5, <1>7
  <2>2. snap' \in [sess : Tables, thr : Threads, mark : 0 .. Len(log')]
    <3>1. snap \in [sess : Tables, thr : Threads, mark : 0 .. Len(log)]
      BY <1>3 DEF TypeOK
    <3> QED BY <1>1, <1>2, <2>1, <3>1
  <2>3. mem' \in [Procs -> Minds] /\ plan' \in [Procs -> Seq(Steps)] /\ task' \in [Procs -> Runs \cup {Nobody}]
    BY <1>1, <1>3, <1>4 DEF TypeOK, tl
  <2>4. head' \in [Procs -> 0 .. Len(log')]
    <3>1. head \in [Procs -> 0 .. Len(log)]
      BY <1>3 DEF TypeOK
    <3>2. 0 .. Len(log) \subseteq 0 .. Len(log') /\ Len(log) + 1 \in 0 .. Len(log')
      BY <1>2, <2>1
    <3> QED BY <1>1, <3>1, <3>2
  <2>5. home' \in Seq(Sids \cup {Nobody}) /\ Len(home') = Len(log')
    <3>1. home \in Seq(Sids \cup {Nobody}) /\ Len(home) = Len(log)
      BY <1>3 DEF TypeOK
    <3>2. w.act \in Sids \cup {Nobody}
      BY <1>1 DEF Minds
    <3> DEFINE h == IF e.kind = "message" THEN w.act ELSE Nobody
    <3>3. h \in Sids \cup {Nobody}
      BY <3>2
    <3> HIDE DEF h
    <3>4. Append(home, h) \in Seq(Sids \cup {Nobody}) /\ Len(Append(home, h)) = Len(home) + 1
      BY <3>1, <3>3, AppendProperties
    <3> QED BY <1>1, <2>1, <3>1, <3>4 DEF h
  <2>6. seen' \subseteq Tids /\ runs' \subseteq Tids /\ loosed' \subseteq Tids /\ crashes' \in Nat
    BY <1>1, <1>3, Marked DEF TypeOK
  <2> QED BY <2>1, <2>2, <2>3, <2>4, <2>5, <2>6 DEF TypeOK
<1>9. LogOK(log') /\ Grounded(Idx(snap'), log')
  BY <1>1, <1>2, <1>3, <1>5, <1>7
<1>10. ProcessInv(p)'
  <2>1. plan'[p] = tl /\ mem'[p] = w
    BY <1>1, <1>3 DEF TypeOK, tl
  <2>2. /\ w.up /\ PlanOK(y, tl, Len(k)) /\ Lands(y, tl, Reached(w, tl)) /\ MessageLast(y, tl, Reached(w, tl))
        /\ IF task[p] = Nobody THEN ChatOK(y, tl, Reached(w, tl)) ELSE BackOK(y, tl, task[p])
    <3>1. Len(log) <= Len(k)
      BY <1>2, <1>5
    <3> QED BY <1>1, <1>2, <1>5, <1>6, <3>1, StepTaken DEF tl, x, d
  <2>3. ChatOK(y, tl, Reached(w, tl)) => ChatOK(Idx(mem[p]), plan[p], Reached(mem[p], plan[p]))'
    <3>1. seen' = seen /\ Idx(mem'[p]) = y
      BY <1>1 DEF w
    <3> QED BY <2>1, <3>1 DEF ChatOK
  <2>4. BackOK(y, tl, task[p]) => BackOK(Idx(mem[p]), plan[p], task[p])'
    <3>1. seen' = seen /\ task' = task /\ Idx(mem'[p]) = y
      BY <1>1 DEF w
    <3> QED BY <2>1, <3>1 DEF BackOK
  <2> QED BY <1>1, <1>6, <1>7, <2>1, <2>2, <2>3, <2>4 DEF ProcessInv
<1>11. ASSUME NEW q \in Procs, q # p PROVE ProcessInv(q)'
  <2>1. mem'[q] = mem[q] /\ plan'[q] = plan[q] /\ task'[q] = task[q] /\ seen \subseteq seen'
    BY <1>1, <1>3, <1>11 DEF TypeOK
  <2>2. Len(log) <= Len(k) /\ Idx(mem[q]) \in Index
    BY <1>2, <1>5, Typed
  <2> QED BY <1>5, <1>7, <2>1, <2>2, OtherStays
<1> QED BY <1>8, <1>9, <1>10, <1>11 DEF IndexInv

\* A save of a reachable state upserts rows that are in the log, and changes no index in
\* memory.
LEMMA Saved ==
  ASSUME IndexInv, NEW p \in Procs, SaveStep(p)
  PROVE  LET w == mem'[p]
         IN  /\ plan[p] # <<>> /\ mem[p].up /\ plan[p][1].do = NoEffect
             /\ mem' = [mem EXCEPT ![p] = w]
             /\ w \in Minds /\ Idx(w) = Idx(mem[p]) /\ w.up = mem[p].up
             /\ plan[p][1].act = Nobody => w.act = mem[p].act /\ w.actT = mem[p].actT
             /\ plan[p][1].act # Nobody => w.act = plan[p][1].act.s /\ w.actT = plan[p][1].act.t
             /\ Idx(snap') = Upserted(mem[p]) /\ Upserted(mem[p]) \in Index
             /\ Grounded(Upserted(mem[p]), log)
             /\ snap' = [sess |-> Idx(snap').sess, thr |-> Idx(snap').thr,
                         mark |-> IF snap.mark > head[p] THEN snap.mark ELSE head[p]]
             /\ plan' = [plan EXCEPT ![p] = Tail(plan[p])]
             /\ UNCHANGED <<log, head, task, home, seen, runs, loosed, crashes>>
<1> DEFINE pl == plan[p]
           x == Idx(mem[p])
           m == MoveTo(mem[p], pl[1].act)
           u == Upserted(mem[p])
<1>1. /\ x \in Index /\ pl \in Seq(Steps) /\ Len(log) \in Nat /\ mem[p] \in Minds /\ mem \in [Procs -> Minds]
      /\ Idx(snap) \in Index /\ x.sess = mem[p].sess /\ x.thr = mem[p].thr
  BY Typed DEF IndexInv, TypeOK
<1>2. pl # <<>> /\ Head(pl).ev = Nobody
  BY DEF SaveStep
<1>3. Head(pl) = pl[1] /\ 1 \in 1 .. Len(pl)
  BY <1>1, <1>2, TailIs
<1>4. mem[p].up /\ PlanOK(x, pl, Len(log))
  BY <1>2, Acting
<1>5. pl[1].do = NoEffect
  BY <1>2, <1>3, <1>4 DEF PlanOK, StepOK
<1>6. pl[1].act \in Places \cup {Nobody}
  BY <1>1, <1>3, StepsAre
<1>7. /\ mem' = [mem EXCEPT ![p] = m] /\ plan' = [plan EXCEPT ![p] = Tail(pl)]
      /\ snap' = [sess |-> u.sess, thr |-> u.thr, mark |-> IF snap.mark > head[p] THEN snap.mark ELSE head[p]]
      /\ UNCHANGED <<log, head, task, home, seen, runs, loosed, crashes>>
  BY <1>3 DEF SaveStep, Do
<1>8. /\ m \in Minds /\ Idx(m) = x /\ m.up = mem[p].up
      /\ pl[1].act = Nobody => m.act = mem[p].act /\ m.actT = mem[p].actT
      /\ pl[1].act # Nobody => m.act = pl[1].act.s /\ m.actT = pl[1].act.t
  <2>1. mem[p] = [mem[p] EXCEPT !.sess = x.sess, !.thr = x.thr]
    BY <1>1 DEF Minds
  <2>2. m = MoveTo([mem[p] EXCEPT !.sess = x.sess, !.thr = x.thr], pl[1].act)
    BY <2>1
  <2> HIDE DEF m, x, pl
  <2> QED BY <1>1, <1>6, <2>2, Moved
<1> HIDE DEF m
<1>9. mem'[p] = m
  BY <1>1, <1>7
<1>10. u \in Index /\ Grounded(u, log)
  <2>1. /\ \A s \in Sids : u.sess[s] \in {x.sess[s], Idx(snap).sess[s]}
        /\ \A t \in Tids : u.thr[t] \in {x.thr[t], Idx(snap).thr[t]}
        /\ u = [sess |-> [s \in Sids |-> u.sess[s]], thr |-> [t \in Tids |-> u.thr[t]]]
    BY DEF Upserted, Idx
  <2>2. Grounded(x, log) /\ Grounded(Idx(snap), log)
    BY DEF IndexInv, ProcessInv
  <2> HIDE DEF u, x
  <2>3. u \in Index
    BY <1>1, <2>1 DEF Index, Tables, Threads
  <2>4. ASSUME NEW s \in Sids, u.sess[s] # Nobody
        PROVE  /\ s \in CreatedIn(log) /\ u.sess[s].start <= Len(log) /\ u.sess[s].end <= Len(log)
               /\ \E i \in 1 .. Len(log) : log[i].thread = u.sess[s].thread
    <3>1. CASE u.sess[s] = x.sess[s]
      BY <2>2, <2>4, <3>1 DEF Grounded
    <3>2. CASE u.sess[s] = Idx(snap).sess[s]
      BY <2>2, <2>4, <3>2 DEF Grounded
    <3> QED BY <2>1, <3>1, <3>2
  <2>5. ASSUME NEW t \in Tids, u.thr[t] # Nobody PROVE \E i \in 1 .. Len(log) : log[i].thread = t
    BY <2>1, <2>2, <2>5 DEF Grounded
  <2> QED BY <2>3, <2>4, <2>5 DEF Grounded
<1>11. Idx(snap') = u
  <2>1. u = [sess |-> u.sess, thr |-> u.thr]
    BY DEF Upserted
  <2> HIDE DEF u
  <2> QED BY <1>7, <2>1 DEF Idx
<1> HIDE DEF u, x
<1> QED BY <1>2, <1>3, <1>4, <1>5, <1>7, <1>8, <1>9, <1>10, <1>11 DEF u, x

\* A save keeps the invariant.
LEMMA SaveKeeps ==
  ASSUME IndexInv, NEW p \in Procs, SaveStep(p)
  PROVE  IndexInv'
<1> DEFINE x == Idx(mem[p])
           w == mem'[p]
           tl == Tail(plan[p])
<1>1. /\ plan[p] # <<>> /\ mem[p].up /\ plan[p][1].do = NoEffect
      /\ mem' = [mem EXCEPT ![p] = w]
      /\ w \in Minds /\ Idx(w) = x /\ w.up = mem[p].up
      /\ plan[p][1].act = Nobody => w.act = mem[p].act /\ w.actT = mem[p].actT
      /\ plan[p][1].act # Nobody => w.act = plan[p][1].act.s /\ w.actT = plan[p][1].act.t
      /\ Idx(snap') \in Index /\ Grounded(Idx(snap'), log)
      /\ snap' = [sess |-> Idx(snap').sess, thr |-> Idx(snap').thr,
                  mark |-> IF snap.mark > head[p] THEN snap.mark ELSE head[p]]
      /\ plan' = [plan EXCEPT ![p] = tl]
      /\ UNCHANGED <<log, head, task, home, seen, runs, loosed, crashes>>
  BY Saved
<1>2. /\ x \in Index /\ plan[p] \in Seq(Steps) /\ log \in Seq(Events) /\ Len(log) \in Nat
  BY Typed
<1>3. TypeOK /\ LogOK(log) /\ \A q \in Procs : ProcessInv(q)
  BY DEF IndexInv
<1>4. tl \in Seq(Steps) /\ Grounded(x, log)
  BY <1>1, <1>2, <1>3, TailIs DEF ProcessInv
<1> HIDE DEF x, w, tl
<1>5. TypeOK'
  <2>1. snap' \in [sess : Tables, thr : Threads, mark : 0 .. Len(log)]
    <3>1. snap.mark \in 0 .. Len(log) /\ head[p] \in 0 .. Len(log)
      BY <1>3 DEF TypeOK
    <3>2. Idx(snap').sess \in Tables /\ Idx(snap').thr \in Threads
      BY <1>1 DEF Index
    <3> DEFINE mk == IF snap.mark > head[p] THEN snap.mark ELSE head[p]
    <3>3. mk \in 0 .. Len(log)
      BY <3>1
    <3> HIDE DEF mk
    <3> QED BY <1>1, <3>2, <3>3 DEF mk
  <2>2. mem' \in [Procs -> Minds] /\ plan' \in [Procs -> Seq(Steps)]
    BY <1>1, <1>3, <1>4 DEF TypeOK
  <2> QED BY <1>1, <1>3, <2>1, <2>2 DEF TypeOK
<1>6. ProcessInv(p)'
  <2>1. plan'[p] = tl /\ mem'[p] = w
    BY <1>1, <1>3 DEF TypeOK
  <2>0. Follows(x, x, plan[p][1].do) /\ Len(log) <= Len(log)
    BY <1>1, <1>2, SaveFollows
  <2>2. /\ w.up /\ PlanOK(x, tl, Len(log)) /\ Lands(x, tl, Reached(w, tl)) /\ MessageLast(x, tl, Reached(w, tl))
        /\ IF task[p] = Nobody THEN ChatOK(x, tl, Reached(w, tl)) ELSE BackOK(x, tl, task[p])
    BY <1>1, <1>2, <1>4, <2>0, StepTaken DEF tl, x
  <2>3. ChatOK(x, tl, Reached(w, tl)) => ChatOK(Idx(mem[p]), plan[p], Reached(mem[p], plan[p]))'
    BY <1>1, <2>1 DEF ChatOK
  <2>4. BackOK(x, tl, task[p]) => BackOK(Idx(mem[p]), plan[p], task[p])'
    BY <1>1, <2>1 DEF BackOK
  <2> QED BY <1>1, <1>4, <2>1, <2>2, <2>3, <2>4 DEF ProcessInv
<1>7. ASSUME NEW q \in Procs, q # p PROVE ProcessInv(q)'
  <2>1. mem'[q] = mem[q] /\ plan'[q] = plan[q] /\ task'[q] = task[q] /\ seen \subseteq seen' /\ log' = log
    BY <1>1, <1>3, <1>7 DEF TypeOK
  <2>2. Len(log) <= Len(log)
    BY <1>2
  <2> QED BY <1>2, <2>1, <2>2, OtherStays
<1> QED BY <1>1, <1>3, <1>5, <1>6, <1>7 DEF IndexInv

------------------------------------------------------------------------------
(* Building a plan.                                                        *)

\* What a plan adds, ends and sets.
Added(pl)  == {At(pl[i].do.adds, pl[i].do.rec.thread) : i \in {j \in 1 .. Len(pl) : pl[j].do.adds # Nobody}}
Ended(pl)  == {pl[i].do.ends : i \in {j \in 1 .. Len(pl) : pl[j].do.ends # Nobody}}
Turned(pl) == {At(pl[i].do.sets, pl[i].do.status) : i \in {j \in 1 .. Len(pl) : pl[j].do.sets # Nobody}}
Quiet(pl)  == \A i \in 1 .. Len(pl) : pl[i].ev # Nobody => pl[i].ev.kind # "message"

\* A step that may follow a plan.
StepFits(x, pl, st) ==
  LET e == st.ev
      d == st.do
  IN  /\ e = Nobody => d = NoEffect
      /\ e # Nobody =>
           /\ Agrees(e, d) /\ Possible(x, e, d) /\ e.start <= Len(log)
           /\ e.kind = "forked" /\ d.adds = Nobody =>
                x.sess[e.sid] # Nobody \/ \E t \in Tids : At(e.sid, t) \in Added(pl)
      /\ d.adds = Nobody \/ Added(pl) = {}
      /\ d.sets = Nobody \/ Turned(pl) = {}
      /\ d.ends \notin Ended(pl)

\* A plan with one more step.
LEMMA Following ==
  ASSUME NEW pl \in Seq(Steps), NEW st \in Steps
  PROVE  /\ Append(pl, st) \in Seq(Steps)
         /\ Len(Append(pl, st)) = Len(pl) + 1 /\ Len(pl) \in Nat
         /\ Append(pl, st)[Len(pl) + 1] = st
         /\ \A i \in 1 .. Len(pl) : Append(pl, st)[i] = pl[i] /\ i \in 1 .. Len(pl) + 1 /\ pl[i] \in Steps
         /\ \A i \in 1 .. Len(pl) + 1 : i = Len(pl) + 1 \/ i \in 1 .. Len(pl)
BY AppendProperties

\* What it adds, ends and sets.
LEMMA Sums ==
  ASSUME NEW pl \in Seq(Steps), NEW st \in Steps
  PROVE  LET q == Append(pl, st) IN
         /\ Added(q) = IF st.do.adds = Nobody THEN Added(pl)
                       ELSE Added(pl) \cup {At(st.do.adds, st.do.rec.thread)}
         /\ Ended(q) = IF st.do.ends = Nobody THEN Ended(pl) ELSE Ended(pl) \cup {st.do.ends}
         /\ Turned(q) = IF st.do.sets = Nobody THEN Turned(pl)
                        ELSE Turned(pl) \cup {At(st.do.sets, st.do.status)}
         /\ Quiet(q) <=> Quiet(pl) /\ (st.ev # Nobody => st.ev.kind # "message")
<1> DEFINE q == Append(pl, st)
           n == Len(pl)
<1>1. /\ Len(q) = n + 1 /\ q[n + 1] = st /\ n \in Nat /\ n + 1 \in 1 .. n + 1
      /\ \A i \in 1 .. n : q[i] = pl[i] /\ i \in 1 .. n + 1
      /\ \A i \in 1 .. n + 1 : i = n + 1 \/ i \in 1 .. n
  BY Following
<1> HIDE DEF q, n
<1>2. Added(q) = IF st.do.adds = Nobody THEN Added(pl) ELSE Added(pl) \cup {At(st.do.adds, st.do.rec.thread)}
  <2>1. \A a : a \in Added(q) <=> \E i \in 1 .. n + 1 : q[i].do.adds # Nobody /\ a = At(q[i].do.adds, q[i].do.rec.thread)
    BY <1>1 DEF Added
  <2>2. \A a : a \in Added(pl) <=> \E i \in 1 .. n : pl[i].do.adds # Nobody /\ a = At(pl[i].do.adds, pl[i].do.rec.thread)
    BY DEF Added, n
  <2>3. \A a : a \in Added(q) <=> a \in Added(pl) \/ (st.do.adds # Nobody /\ a = At(st.do.adds, st.do.rec.thread))
    BY <1>1, <2>1, <2>2
  <2>4. CASE st.do.adds = Nobody
    BY <2>3, <2>4
  <2>5. CASE st.do.adds # Nobody
    <3>1. \A a : a \in Added(q) <=> a \in Added(pl) \cup {At(st.do.adds, st.do.rec.thread)}
      BY <2>3, <2>5
    <3> QED BY <2>5, <3>1
  <2> QED BY <2>4, <2>5
<1>3. Ended(q) = IF st.do.ends = Nobody THEN Ended(pl) ELSE Ended(pl) \cup {st.do.ends}
  <2>1. \A a : a \in Ended(q) <=> \E i \in 1 .. n + 1 : q[i].do.ends # Nobody /\ a = q[i].do.ends
    BY <1>1 DEF Ended
  <2>2. \A a : a \in Ended(pl) <=> \E i \in 1 .. n : pl[i].do.ends # Nobody /\ a = pl[i].do.ends
    BY DEF Ended, n
  <2>3. \A a : a \in Ended(q) <=> a \in Ended(pl) \/ (st.do.ends # Nobody /\ a = st.do.ends)
    BY <1>1, <2>1, <2>2
  <2>4. CASE st.do.ends = Nobody
    BY <2>3, <2>4
  <2>5. CASE st.do.ends # Nobody
    <3>1. \A a : a \in Ended(q) <=> a \in Ended(pl) \cup {st.do.ends}
      BY <2>3, <2>5
    <3> QED BY <2>5, <3>1
  <2> QED BY <2>4, <2>5
<1>4. Turned(q) = IF st.do.sets = Nobody THEN Turned(pl) ELSE Turned(pl) \cup {At(st.do.sets, st.do.status)}
  <2>1. \A a : a \in Turned(q) <=> \E i \in 1 .. n + 1 : q[i].do.sets # Nobody /\ a = At(q[i].do.sets, q[i].do.status)
    BY <1>1 DEF Turned
  <2>2. \A a : a \in Turned(pl) <=> \E i \in 1 .. n : pl[i].do.sets # Nobody /\ a = At(pl[i].do.sets, pl[i].do.status)
    BY DEF Turned, n
  <2>3. \A a : a \in Turned(q) <=> a \in Turned(pl) \/ (st.do.sets # Nobody /\ a = At(st.do.sets, st.do.status))
    BY <1>1, <2>1, <2>2
  <2>4. CASE st.do.sets = Nobody
    BY <2>3, <2>4
  <2>5. CASE st.do.sets # Nobody
    <3>1. \A a : a \in Turned(q) <=> a \in Turned(pl) \cup {At(st.do.sets, st.do.status)}
      BY <2>3, <2>5
    <3> QED BY <2>5, <3>1
  <2> QED BY <2>4, <2>5
<1>5. Quiet(q) <=> Quiet(pl) /\ (st.ev # Nobody => st.ev.kind # "message")
  <2>1. Quiet(q) => Quiet(pl)
    BY <1>1 DEF Quiet, n
  <2>2. Quiet(q) => (st.ev # Nobody => st.ev.kind # "message")
    BY <1>1 DEF Quiet
  <2>3. Quiet(pl) /\ (st.ev # Nobody => st.ev.kind # "message") => Quiet(q)
    BY <1>1 DEF Quiet, n
  <2> QED BY <2>1, <2>2, <2>3
<1> QED BY <1>2, <1>3, <1>4, <1>5 DEF q

\* The empty plan does nothing.
LEMMA SumsOfNone == Added(<<>>) = {} /\ Ended(<<>>) = {} /\ Turned(<<>>) = {} /\ Quiet(<<>>)
BY DEF Added, Ended, Turned, Quiet

\* Where a plan with one more step leads.
LEMMA ReachedAppend ==
  ASSUME NEW m, NEW pl \in Seq(Steps), NEW st \in Steps
  PROVE  Reached(m, Append(pl, st)) = IF st.act = Nobody THEN Reached(m, pl) ELSE st.act
<1> DEFINE q == Append(pl, st)
           n == Len(pl)
<1>1. /\ q \in Seq(Steps) /\ Len(q) = n + 1 /\ q[n + 1] = st /\ n \in Nat /\ n + 1 \in 1 .. n + 1
      /\ \A i \in 1 .. n : q[i] = pl[i] /\ i \in 1 .. n + 1
      /\ \A i \in 1 .. n + 1 : i = n + 1 \/ i \in 1 .. n
      /\ DOMAIN q = 1 .. n + 1
  BY Following
<1> HIDE DEF q, n
<1>2. CASE st.act # Nobody
  <2>1. \A j \in 1 .. Len(q) : j > n + 1 => q[j].act = Nobody
    BY <1>1
  <2>2. n + 1 \in 1 .. Len(q) /\ q[n + 1].act # Nobody
    BY <1>1, <1>2
  <2>3. Reached(m, q) = q[n + 1].act
    BY <1>1, <2>1, <2>2, ReachedAt
  <2> QED BY <1>1, <1>2, <2>3 DEF q
<1>3. CASE st.act = Nobody
  <2>1. \/ Reached(m, pl) = At(m.act, m.actT) /\ \A i \in 1 .. n : pl[i].act = Nobody
        \/ \E i \in 1 .. n : /\ pl[i].act # Nobody /\ Reached(m, pl) = pl[i].act
                             /\ \A j \in 1 .. n : j > i => pl[j].act = Nobody
    BY ReachedIs DEF n
  <2>2. CASE Reached(m, pl) = At(m.act, m.actT) /\ \A i \in 1 .. n : pl[i].act = Nobody
    <3>1. \A i \in DOMAIN q : q[i].act = Nobody
      BY <1>1, <1>3, <2>2
    <3> QED BY <1>3, <2>2, <3>1, ReachedNone DEF q
  <2>3. CASE \E i \in 1 .. n : /\ pl[i].act # Nobody /\ Reached(m, pl) = pl[i].act
                               /\ \A j \in 1 .. n : j > i => pl[j].act = Nobody
    <3>1. PICK i \in 1 .. n : /\ pl[i].act # Nobody /\ Reached(m, pl) = pl[i].act
                              /\ \A j \in 1 .. n : j > i => pl[j].act = Nobody
      BY <2>3
    <3>2. i \in 1 .. Len(q) /\ q[i].act # Nobody /\ q[i] = pl[i]
      BY <1>1, <3>1
    <3>3. \A j \in 1 .. Len(q) : j > i => q[j].act = Nobody
      BY <1>1, <1>3, <3>1
    <3>4. Reached(m, q) = q[i].act
      BY <1>1, <3>2, <3>3, ReachedAt
    <3> QED BY <1>3, <3>1, <3>2, <3>4 DEF q
  <2> QED BY <2>1, <2>2, <2>3
<1> QED BY <1>2, <1>3

\* A plan that may be carried out from an index.
Planned(x, pl) == pl \in Seq(Steps) /\ PlanOK(x, pl, Len(log))

\* A step that may follow a plan makes a plan.
LEMMA Extend ==
  ASSUME NEW x, NEW pl, Planned(x, pl), NEW st \in Steps, StepFits(x, pl, st)
  PROVE  Planned(x, Append(pl, st))
<1> DEFINE q == Append(pl, st)
           n == Len(pl)
<1>0. pl \in Seq(Steps) /\ PlanOK(x, pl, Len(log))
  BY DEF Planned
<1>1. /\ q \in Seq(Steps) /\ Len(q) = n + 1 /\ q[n + 1] = st /\ n \in Nat /\ n + 1 \in 1 .. n + 1
      /\ \A i \in 1 .. n : q[i] = pl[i] /\ i \in 1 .. n + 1
      /\ \A i \in 1 .. n + 1 : i = n + 1 \/ i \in 1 .. n
  BY <1>0, Following
<1> HIDE DEF q
<1>2. ASSUME NEW i \in 1 .. n PROVE StepOK(x, q, Len(log), i)
  <2>1. StepOK(x, pl, Len(log), i)
    BY <1>0 DEF PlanOK
  <2>2. q[i] = pl[i] /\ \A j \in 1 .. i - 1 : q[j] = pl[j]
    BY <1>1
  <2> QED BY <2>1, <2>2 DEF StepOK
<1>3. StepOK(x, q, Len(log), n + 1)
  <2>1. \A j \in 1 .. n + 1 - 1 : j \in 1 .. Len(pl) /\ q[j] = pl[j]
    BY <1>1
  <2>2. \A j \in 1 .. n : q[j].do.ends # Nobody => q[j].do.ends \in Ended(pl)
    BY <2>1, <1>1 DEF Ended
  <2>3. \A j \in 1 .. n : q[j].do.adds # Nobody => Added(pl) # {}
    BY <2>1, <1>1 DEF Added
  <2>4. \A j \in 1 .. n : q[j].do.sets # Nobody => Turned(pl) # {}
    BY <2>1, <1>1 DEF Turned
  <2>5. ASSUME NEW s, NEW t, At(s, t) \in Added(pl)
        PROVE  \E j \in 1 .. n : q[j].do.adds = s
    <3>1. PICK j \in 1 .. Len(pl) : At(s, t) = At(pl[j].do.adds, pl[j].do.rec.thread)
      BY <2>5 DEF Added
    <3>2. pl[j].do.adds = s
      BY <3>1 DEF At
    <3> QED BY <2>1, <3>1, <3>2, <1>1
  <2>6. 1 .. n + 1 - 1 = 1 .. n
    BY <1>1
  <2> QED BY <1>1, <2>2, <2>3, <2>4, <2>5, <2>6 DEF StepFits, StepOK
<1> HIDE DEF n
<1>4. PlanOK(x, q, Len(log))
  BY <1>1, <1>2, <1>3 DEF PlanOK
<1> QED BY <1>1, <1>4 DEF Planned, q

\* The empty plan may always be carried out.
LEMMA NonePlanned == ASSUME NEW x PROVE Planned(x, <<>>)
BY DEF Planned, PlanOK

\* A plan followed by one step or two.
LEMMA Concats ==
  ASSUME NEW pl \in Seq(Steps), NEW a \in Steps, NEW b \in Steps
  PROVE  /\ pl \o <<>> = pl /\ <<>> \o pl = pl
         /\ pl \o <<a>> = Append(pl, a) /\ <<a>> = Append(<<>>, a)
         /\ pl \o <<a, b>> = Append(Append(pl, a), b) /\ <<a, b>> = Append(Append(<<>>, a), b)
         /\ <<>> \in Seq(Steps)
OBVIOUS

------------------------------------------------------------------------------
(* New sessions and threads.                                               *)

\* Among n + 1 numbers there is a least one that n of them do not use.
LEMMA LeastUnused ==
  ASSUME NEW U, NEW n \in Nat, n + 1 \notin U
  PROVE  \E s \in 1 .. n + 1 : s \notin U /\ \A r \in 1 .. s - 1 : r \in U
<1> DEFINE T == {s \in Nat : s >= 1 /\ s \notin U}
<1>1. n + 1 \in T
  OBVIOUS
<1>2. PICK s \in T : \A q \in T : s <= q
  <2>1. T \in SUBSET Nat /\ T # {}
    BY <1>1
  <2> HIDE DEF T
  <2> QED BY <2>1, LeastOf
<1>3. s \in 1 .. n + 1 /\ s \notin U
  BY <1>1, <1>2
<1>4. \A r \in 1 .. s - 1 : r \in U
  <2> SUFFICES ASSUME NEW r \in 1 .. s - 1, r \notin U PROVE FALSE
    OBVIOUS
  <2>1. r \in T /\ r \in Nat /\ s \in Nat /\ r < s
    OBVIOUS
  <2> QED BY <1>2, <2>1
<1> QED BY <1>3, <1>4

\* The id of a new session is of no session in the log.
LEMMA FreshSession ==
  ASSUME log \in Seq(Events), RoomForSession
  PROVE  FreshSid \in Sids /\ FreshSid \notin CreatedIn(log)
<1>1. MaxSessions \in Nat /\ MaxSessions + 1 \notin CreatedIn(log)
  <2>1. \A i \in DOMAIN log : log[i] \in Events
    OBVIOUS
  <2>2. \A s \in CreatedIn(log) : s \in Sids \cup {Nobody}
    BY <2>1 DEF CreatedIn, Events
  <2> QED BY <2>2, SessionIndexAssumption DEF Sids
<1>2. \E s \in 1 .. MaxSessions + 1 : s \notin CreatedIn(log) /\ \A r \in 1 .. s - 1 : r \in CreatedIn(log)
  BY <1>1, LeastUnused
<1>3. FreshSid \in 1 .. MaxSessions + 1 /\ FreshSid \notin CreatedIn(log)
  BY <1>2 DEF FreshSid
<1> QED BY <1>1, <1>3 DEF RoomForSession, Sids

\* The id of a new thread is of no thread in the log.
LEMMA FreshThread ==
  ASSUME log \in Seq(Events), RoomForThread
  PROVE  FreshTid \in Tids /\ \A i \in 1 .. Len(log) : log[i].thread # FreshTid
<1> DEFINE U == {log[i].thread : i \in DOMAIN log}
<1>1. MaxThreads \in Nat /\ MaxThreads + 1 \notin U
  <2>1. \A i \in DOMAIN log : log[i] \in Events
    OBVIOUS
  <2>2. \A t \in U : t \in Tids
    BY <2>1 DEF Events
  <2> QED BY <2>2, SessionIndexAssumption DEF Tids
<1>2. PICK t \in 1 .. MaxThreads + 1 : t \notin U /\ \A r \in 1 .. t - 1 : r \in U
  <2> HIDE DEF U
  <2> QED BY <1>1, LeastUnused
<1>3. \A i \in DOMAIN log : log[i].thread # t
  BY <1>2
<1>4. \A r \in 1 .. t - 1 : \E i \in DOMAIN log : log[i].thread = r
  BY <1>2
<1> HIDE DEF U
<1>5. FreshTid \in 1 .. MaxThreads + 1 /\ \A i \in DOMAIN log : log[i].thread # FreshTid
  BY <1>3, <1>4 DEF FreshTid
<1> QED BY <1>1, <1>5 DEF RoomForThread, Tids

\* What is fresh is unknown.
LEMMA FreshUnknown ==
  ASSUME log \in Seq(Events), NEW x, Grounded(x, log)
  PROVE  /\ RoomForSession => FreshSid \in Sids /\ x.sess[FreshSid] = Nobody
         /\ RoomForThread => /\ FreshTid \in Tids /\ x.thr[FreshTid] = Nobody
                             /\ \A s \in Sids : x.sess[s] # Nobody => x.sess[s].thread # FreshTid
BY FreshSession, FreshThread DEF Grounded

------------------------------------------------------------------------------
(* The plans of the operations.                                            *)

\* A step is made of its event, its change and its move.
LEMMA StepsOf ==
  ASSUME NEW e \in Events, NEW d \in Effects, NEW a \in Places \cup {Nobody}
  PROVE  /\ Emit(e, d, a) \in Steps
         /\ Emit(e, d, a).ev = e /\ Emit(e, d, a).do = d /\ Emit(e, d, a).act = a /\ e # Nobody
         /\ SaveAt(a) \in Steps /\ SaveAt(a).ev = Nobody /\ SaveAt(a).do = NoEffect /\ SaveAt(a).act = a
         /\ NoEffect \in Effects /\ Nobody \in Places \cup {Nobody} /\ Save = SaveAt(Nobody)
         /\ NoEffect.adds = Nobody /\ NoEffect.ends = Nobody /\ NoEffect.sets = Nobody /\ NoEffect.names = Nobody
BY SessionIndexAssumption DEF Emit, Steps, SaveAt, NoEffect, Effects, Save

\* A save may follow any plan.
LEMMA ThenSave ==
  ASSUME NEW x, NEW pl, Planned(x, pl), NEW a \in Places \cup {Nobody}
  PROVE  LET q == Append(pl, SaveAt(a)) IN
         /\ Planned(x, q) /\ Added(q) = Added(pl) /\ Ended(q) = Ended(pl) /\ Turned(q) = Turned(pl)
         /\ Quiet(q) <=> Quiet(pl)
         /\ \A m : Reached(m, q) = IF a = Nobody THEN Reached(m, pl) ELSE a
         /\ SaveAt(a) \in Steps
<1> DEFINE st == SaveAt(a)
<1>1. /\ st \in Steps /\ st.ev = Nobody /\ st.do = NoEffect /\ st.act = a
      /\ NoEffect.adds = Nobody /\ NoEffect.ends = Nobody /\ NoEffect.sets = Nobody
  BY SessionIndexAssumption DEF Steps, SaveAt, NoEffect, Effects
<1> HIDE DEF st
<1>2. Nobody \notin Ended(pl)
  BY DEF Ended
<1>3. StepFits(x, pl, st)
  BY <1>1, <1>2 DEF StepFits
<1>4. pl \in Seq(Steps)
  BY DEF Planned
<1>5. Planned(x, Append(pl, st))
  BY <1>1, <1>3, Extend
<1>6. /\ Added(Append(pl, st)) = Added(pl) /\ Ended(Append(pl, st)) = Ended(pl)
      /\ Turned(Append(pl, st)) = Turned(pl) /\ (Quiet(Append(pl, st)) <=> Quiet(pl))
  BY <1>1, <1>4, Sums
<1>7. \A m : Reached(m, Append(pl, st)) = IF a = Nobody THEN Reached(m, pl) ELSE a
  BY <1>1, <1>4, ReachedAppend
<1> QED BY <1>1, <1>5, <1>6, <1>7 DEF st

\* So may an event with the change that goes with it.
LEMMA ThenEmit ==
  ASSUME NEW x, NEW pl, Planned(x, pl), NEW e \in Events, NEW d \in Effects, NEW a \in Places \cup {Nobody},
         Agrees(e, d), Possible(x, e, d), e.start <= Len(log),
         e.kind = "forked" /\ d.adds = Nobody =>
           x.sess[e.sid] # Nobody \/ \E t \in Tids : At(e.sid, t) \in Added(pl),
         d.adds = Nobody \/ Added(pl) = {}, d.sets = Nobody \/ Turned(pl) = {},
         d.ends = Nobody \/ d.ends \notin Ended(pl)
  PROVE  LET q == Append(pl, Emit(e, d, a)) IN
         /\ Planned(x, q)
         /\ Added(q) = IF d.adds = Nobody THEN Added(pl) ELSE Added(pl) \cup {At(d.adds, d.rec.thread)}
         /\ Ended(q) = IF d.ends = Nobody THEN Ended(pl) ELSE Ended(pl) \cup {d.ends}
         /\ Turned(q) = IF d.sets = Nobody THEN Turned(pl) ELSE Turned(pl) \cup {At(d.sets, d.status)}
         /\ Quiet(q) <=> Quiet(pl) /\ e.kind # "message"
         /\ \A m : Reached(m, q) = IF a = Nobody THEN Reached(m, pl) ELSE a
         /\ Emit(e, d, a) \in Steps
<1> DEFINE st == Emit(e, d, a)
<1>1. st \in Steps /\ st.ev = e /\ st.do = d /\ st.act = a /\ e # Nobody
  BY StepsOf
<1> HIDE DEF st
<1>2. Nobody \notin Ended(pl)
  BY DEF Ended
<1>3. StepFits(x, pl, st)
  BY <1>1, <1>2 DEF StepFits
<1>4. pl \in Seq(Steps)
  BY DEF Planned
<1>5. Planned(x, Append(pl, st))
  BY <1>1, <1>3, Extend
<1>6. LET q == Append(pl, st) IN
      /\ Added(q) = IF d.adds = Nobody THEN Added(pl) ELSE Added(pl) \cup {At(d.adds, d.rec.thread)}
      /\ Ended(q) = IF d.ends = Nobody THEN Ended(pl) ELSE Ended(pl) \cup {d.ends}
      /\ Turned(q) = IF d.sets = Nobody THEN Turned(pl) ELSE Turned(pl) \cup {At(d.sets, d.status)}
      /\ Quiet(q) <=> Quiet(pl) /\ e.kind # "message"
  BY <1>1, <1>4, Sums
<1>7. \A m : Reached(m, Append(pl, st)) = IF a = Nobody THEN Reached(m, pl) ELSE a
  BY <1>1, <1>4, ReachedAppend
<1> QED BY <1>1, <1>5, <1>6, <1>7 DEF st

\* An event and its change that may follow a plan, and the plan they leave.
Fit(x, pl, e, d) ==
  /\ e \in Events /\ d \in Effects /\ Agrees(e, d) /\ Possible(x, e, d) /\ e.start <= Len(log)
  /\ e.kind = "forked" /\ d.adds = Nobody =>
       x.sess[e.sid] # Nobody \/ \E t \in Tids : At(e.sid, t) \in Added(pl)
  /\ d.adds = Nobody \/ Added(pl) = {}
  /\ d.sets = Nobody \/ Turned(pl) = {}
  /\ d.ends = Nobody \/ d.ends \notin Ended(pl)
After(x, pl, q, e, d, a) ==
  /\ Planned(x, q)
  /\ Added(q) = IF d.adds = Nobody THEN Added(pl) ELSE Added(pl) \cup {At(d.adds, d.rec.thread)}
  /\ Ended(q) = IF d.ends = Nobody THEN Ended(pl) ELSE Ended(pl) \cup {d.ends}
  /\ Turned(q) = IF d.sets = Nobody THEN Turned(pl) ELSE Turned(pl) \cup {At(d.sets, d.status)}
  /\ Quiet(q) <=> Quiet(pl) /\ e.kind # "message"
  /\ \A m : Reached(m, q) = IF a = Nobody THEN Reached(m, pl) ELSE a

\* An append, or an append and a save, after a plan.
LEMMA Emitting ==
  ASSUME NEW x, NEW pl, Planned(x, pl), NEW e, NEW d, Fit(x, pl, e, d), NEW a \in Places \cup {Nobody}
  PROVE  /\ After(x, pl, pl \o <<Emit(e, d, a)>>, e, d, a)
         /\ After(x, pl, pl \o <<Emit(e, d, a), Save>>, e, d, a)
<1> DEFINE p == Append(pl, Emit(e, d, a))
           q == Append(p, SaveAt(Nobody))
<1>1. /\ Planned(x, p)
      /\ Added(p) = IF d.adds = Nobody THEN Added(pl) ELSE Added(pl) \cup {At(d.adds, d.rec.thread)}
      /\ Ended(p) = IF d.ends = Nobody THEN Ended(pl) ELSE Ended(pl) \cup {d.ends}
      /\ Turned(p) = IF d.sets = Nobody THEN Turned(pl) ELSE Turned(pl) \cup {At(d.sets, d.status)}
      /\ Quiet(p) <=> Quiet(pl) /\ e.kind # "message"
      /\ \A m : Reached(m, p) = IF a = Nobody THEN Reached(m, pl) ELSE a
      /\ Emit(e, d, a) \in Steps
  BY ThenEmit DEF Fit
<1>2. /\ Planned(x, q) /\ Added(q) = Added(p) /\ Ended(q) = Ended(p) /\ Turned(q) = Turned(p)
      /\ Quiet(q) <=> Quiet(p)
      /\ \A m : Reached(m, q) = Reached(m, p)
      /\ SaveAt(Nobody) \in Steps
  <2> HIDE DEF p
  <2> QED BY <1>1, ThenSave
<1>3. pl \o <<Emit(e, d, a)>> = p /\ pl \o <<Emit(e, d, a), Save>> = q
  BY <1>1, <1>2, Concats DEF Planned, Save
<1> HIDE DEF p, q
<1> QED BY <1>1, <1>2, <1>3 DEF After

\* So alone.
LEMMA EmittingAlone ==
  ASSUME NEW x, NEW e, NEW d, Fit(x, <<>>, e, d), NEW a \in Places \cup {Nobody}
  PROVE  /\ After(x, <<>>, <<Emit(e, d, a)>>, e, d, a)
         /\ After(x, <<>>, <<Emit(e, d, a), Save>>, e, d, a)
<1> DEFINE none == <<>>
<1>1. Planned(x, none) /\ Fit(x, none, e, d)
  BY NonePlanned
<1>2. Emit(e, d, a) \in Steps /\ Save \in Steps
  BY StepsOf DEF Fit
<1>3. none \o <<Emit(e, d, a)>> = <<Emit(e, d, a)>> /\ none \o <<Emit(e, d, a), Save>> = <<Emit(e, d, a), Save>>
  <2> DEFINE b == Emit(e, d, a)
  <2>1. b \in Steps /\ Save \in Steps
    BY <1>2
  <2> HIDE DEF b
  <2> QED BY <2>1
<1> HIDE DEF none
<1>4. After(x, none, none \o <<Emit(e, d, a)>>, e, d, a) /\ After(x, none, none \o <<Emit(e, d, a), Save>>, e, d, a)
  BY <1>1, Emitting
<1> QED BY <1>3, <1>4 DEF none

\* The options of createSession.
OptOK(x, opt) ==
  /\ opt.thread \in Tids /\ opt.status \in Statuses \cup {Nobody} /\ opt.ctx \in Sids \cup {Nobody}
  /\ opt.start \in Nat /\ opt.start <= Len(log)
  /\ opt.status # Nobody => x.thr[opt.thread] = Nobody
\* The session that createSession ends.
EndsOf(w, opt) == IF opt.closeActive THEN EndsActive(w, opt.thread) ELSE Nobody

\* The session an operation ends is the active one, and open.
LEMMA EndsActiveIs ==
  ASSUME NEW w, NEW t
  PROVE  EndsActive(w, t) # Nobody => EndsActive(w, t) = w.act /\ EndsActive(w, t) \in Sids /\ Open(Idx(w), EndsActive(w, t))
BY DEF EndsActive, Open, Known, Idx

\* Events and effects are what they are said to be.
LEMMA EvIs ==
  ASSUME NEW k \in Kinds, NEW t \in Tids
  PROVE  LET r == Ev(k, t) IN
         /\ r \in Events /\ r.kind = k /\ r.thread = t /\ r.sid = Nobody /\ r.start = 0 /\ r.ctx = Nobody
         /\ r.closes = Nobody /\ r.status = Nobody
BY DEF Ev, Events

\* The change of a step that changes nothing.
LEMMA NoEffectIs ==
  /\ NoEffect \in Effects /\ NoEffect.adds = Nobody /\ NoEffect.ends = Nobody /\ NoEffect.sets = Nobody
  /\ NoEffect.names = Nobody /\ NoEffect.rec = Nobody /\ NoEffect.status = Nobody
BY DEF NoEffect, Effects

\* createSession after a plan that has created none.
LEMMA Creating ==
  ASSUME log \in Seq(Events), NEW w \in Minds, Grounded(Idx(w), log), RoomForSession,
         NEW pl, Planned(Idx(w), pl), Added(pl) = {},
         NEW opt, OptOK(Idx(w), opt), opt.status = Nobody \/ Turned(pl) = {},
         EndsOf(w, opt) = Nobody \/ EndsOf(w, opt) \notin Ended(pl)
  PROVE  LET q == pl \o CreateSession(w, opt) IN
         /\ Planned(Idx(w), q) /\ Added(q) = {At(FreshSid, opt.thread)}
         /\ Ended(q) = IF EndsOf(w, opt) = Nobody THEN Ended(pl) ELSE Ended(pl) \cup {EndsOf(w, opt)}
         /\ Turned(q) = IF opt.status = Nobody THEN Turned(pl) ELSE {At(opt.thread, opt.status)}
         /\ Quiet(q) <=> Quiet(pl)
         /\ \A m : Reached(m, q) = At(FreshSid, opt.thread)
         /\ \A m : Reached(m, CreateSession(w, opt)) = At(FreshSid, opt.thread)
         /\ CreateSession(w, opt) \in Seq(Steps)
<1> DEFINE x == Idx(w)
           ends == EndsOf(w, opt)
           rec == [thread |-> opt.thread, start |-> opt.start, end |-> 0, ctx |-> opt.ctx, name |-> 0]
           sets == IF opt.status = Nobody THEN Nobody ELSE opt.thread
           base == Ev("created", opt.thread)
           e == [base EXCEPT !.sid = FreshSid, !.start = opt.start, !.ctx = opt.ctx,
                                                  !.closes = ends, !.status = opt.status]
           d == [NoEffect EXCEPT !.adds = FreshSid, !.ends = ends, !.status = opt.status, !.rec = rec,
                                 !.sets = sets]
           a == At(FreshSid, opt.thread)
<1>1. CreateSession(w, opt) = <<Emit(e, d, a), SaveAt(Nobody)>>
  BY Zenon DEF CreateSession, EndsOf, Save
<1>2. FreshSid \in Sids /\ x.sess[FreshSid] = Nobody /\ FreshSid # Nobody
  BY FreshUnknown, NobodyIs
<1>3. ends # Nobody => ends \in Sids /\ Open(x, ends)
  BY EndsActiveIs DEF EndsOf
<1> HIDE DEF ends
<1>4. rec \in Sessions /\ rec.thread = opt.thread
  BY DEF OptOK, Sessions
<1>5. /\ e \in Events /\ e.kind = "created" /\ e.sid = FreshSid /\ e.closes = ends /\ e.status = opt.status
      /\ e.thread = opt.thread /\ e.start = opt.start /\ e.ctx = opt.ctx
  <2>1. base \in Events /\ base.kind = "created" /\ base.thread = opt.thread
    BY EvIs DEF OptOK, Kinds
  <2>2. /\ ends \in Sids \cup {Nobody} /\ opt.start \in Nat /\ opt.ctx \in Sids \cup {Nobody}
        /\ opt.status \in Statuses \cup {Nobody}
    BY <1>3 DEF OptOK
  <2> HIDE DEF base
  <2> QED BY <1>2, <2>1, <2>2 DEF Events
<1>6. /\ d \in Effects /\ d.adds = FreshSid /\ d.rec = rec /\ d.ends = ends /\ d.names = Nobody
      /\ d.status = opt.status /\ d.sets = sets
  <2>1. sets \in Tids \cup {Nobody}
    BY DEF OptOK
  <2>2. ends \in Sids \cup {Nobody} /\ opt.status \in Statuses \cup {Nobody} /\ rec \in Sessions
    BY <1>3, <1>4 DEF OptOK
  <2> HIDE DEF rec, sets
  <2> QED BY <1>2, <2>1, <2>2, NoEffectIs DEF Effects
<1>7. a \in Places
  BY <1>2 DEF OptOK, Places, At
<1> HIDE DEF e, d, a
<1>8. Agrees(e, d)
  <2>1. d.rec = [thread |-> e.thread, start |-> e.start, end |-> 0, ctx |-> e.ctx, name |-> 0]
    BY <1>5, <1>6
  <2> HIDE DEF rec
  <2> QED BY <1>2, <1>5, <1>6, <2>1 DEF Agrees
<1>9. Possible(x, e, d)
  BY <1>2, <1>3, <1>5, <1>6 DEF Possible, OptOK
<1>10. d.sets = Nobody <=> opt.status = Nobody
  BY <1>6, NobodyIs DEF OptOK
<1>11. e.start <= Len(log)
  BY <1>5 DEF OptOK
<1> HIDE DEF x, rec, sets
<1> DEFINE one(s) == Append(s, Emit(e, d, a))
<1>12. ASSUME NEW s, Planned(x, s), Added(s) = {}, opt.status = Nobody \/ Turned(s) = {}, ends = Nobody \/ ends \notin Ended(s)
       PROVE  /\ Planned(x, one(s)) /\ Added(one(s)) = {At(FreshSid, opt.thread)}
              /\ Ended(one(s)) = IF ends = Nobody THEN Ended(s) ELSE Ended(s) \cup {ends}
              /\ Turned(one(s)) = IF opt.status = Nobody THEN Turned(s) ELSE {At(opt.thread, opt.status)}
              /\ Quiet(one(s)) <=> Quiet(s)
              /\ \A m : Reached(m, one(s)) = a
              /\ Emit(e, d, a) \in Steps
  <2>1. /\ Planned(x, one(s))
        /\ Added(one(s)) = IF d.adds = Nobody THEN Added(s) ELSE Added(s) \cup {At(d.adds, d.rec.thread)}
        /\ Ended(one(s)) = IF d.ends = Nobody THEN Ended(s) ELSE Ended(s) \cup {d.ends}
        /\ Turned(one(s)) = IF d.sets = Nobody THEN Turned(s) ELSE Turned(s) \cup {At(d.sets, d.status)}
        /\ Quiet(one(s)) <=> Quiet(s) /\ e.kind # "message"
        /\ \A m : Reached(m, one(s)) = IF a = Nobody THEN Reached(m, s) ELSE a
        /\ Emit(e, d, a) \in Steps
    BY <1>5, <1>6, <1>7, <1>8, <1>9, <1>10, <1>11, <1>12, ThenEmit
  <2>2. a # Nobody
    BY <1>7, SessionIndexAssumption
  <2>3. opt.status # Nobody => d.sets = opt.thread
    BY <1>6 DEF sets
  <2> HIDE DEF one
  <2> QED BY <1>2, <1>4, <1>5, <1>6, <1>10, <1>12, <2>1, <2>2, <2>3
<1>13. ASSUME NEW s, Planned(x, s), Added(s) = {}, opt.status = Nobody \/ Turned(s) = {}, ends = Nobody \/ ends \notin Ended(s)
       PROVE  LET q == s \o CreateSession(w, opt) IN
              /\ Planned(x, q) /\ Added(q) = {At(FreshSid, opt.thread)}
              /\ Ended(q) = IF ends = Nobody THEN Ended(s) ELSE Ended(s) \cup {ends}
              /\ Turned(q) = IF opt.status = Nobody THEN Turned(s) ELSE {At(opt.thread, opt.status)}
              /\ Quiet(q) <=> Quiet(s)
              /\ \A m : Reached(m, q) = a
  <2>1. Planned(x, one(s)) /\ Emit(e, d, a) \in Steps /\ s \in Seq(Steps)
    BY <1>12, <1>13 DEF Planned
  <2>2. /\ Planned(x, Append(one(s), SaveAt(Nobody))) /\ Added(Append(one(s), SaveAt(Nobody))) = Added(one(s))
        /\ Ended(Append(one(s), SaveAt(Nobody))) = Ended(one(s))
        /\ Turned(Append(one(s), SaveAt(Nobody))) = Turned(one(s))
        /\ Quiet(Append(one(s), SaveAt(Nobody))) <=> Quiet(one(s))
        /\ \A m : Reached(m, Append(one(s), SaveAt(Nobody))) = Reached(m, one(s))
        /\ SaveAt(Nobody) \in Steps
    <3> HIDE DEF one
    <3> QED BY <2>1, ThenSave
  <2>3. s \o CreateSession(w, opt) = Append(one(s), SaveAt(Nobody))
    BY <1>1, <2>1, <2>2, Concats
  <2> HIDE DEF one
  <2> QED BY <1>12, <1>13, <2>2, <2>3
<1>14. /\ \A m : Reached(m, CreateSession(w, opt)) = At(FreshSid, opt.thread)
       /\ CreateSession(w, opt) \in Seq(Steps)
  <2>1. CreateSession(w, opt) = Append(one(<<>>), SaveAt(Nobody)) /\ Planned(x, <<>>)
    <3>1. Emit(e, d, a) \in Steps /\ SaveAt(Nobody) \in Steps /\ Planned(x, <<>>)
      BY <1>12, ThenSave, NonePlanned, SumsOfNone
    <3> QED BY <1>1, <3>1, Concats
  <2>2. CreateSession(w, opt) = <<>> \o CreateSession(w, opt)
    <3>1. Emit(e, d, a) \in Steps /\ SaveAt(Nobody) \in Steps
      BY <1>12, ThenSave, NonePlanned, SumsOfNone
    <3>2. CreateSession(w, opt) \in Seq(Steps)
      BY <1>1, <3>1
    <3> HIDE DEF one
    <3> QED BY <3>2
  <2>3. Planned(x, CreateSession(w, opt)) /\ \A m : Reached(m, CreateSession(w, opt)) = a
    <3>1. Added(<<>>) = {} /\ Turned(<<>>) = {} /\ ends \notin Ended(<<>>)
      BY SumsOfNone
    <3> HIDE DEF one
    <3> QED BY <1>13, <2>1, <2>2, <3>1
  <2> QED BY <2>3 DEF Planned, a
<1> QED BY <1>13, <1>14 DEF x, ends, a

\* What a process has in mind, as an index; its sessions are rows of the table.
LEMMA MindIs ==
  ASSUME NEW w \in Minds
  PROVE  /\ Idx(w) \in Index /\ Idx(w).sess = w.sess /\ Idx(w).thr = w.thr
         /\ \A s \in Known(w) : /\ s \in Sids /\ w.sess[s] # Nobody /\ w.sess[s] \in Sessions
                                /\ w.sess[s].thread \in Tids /\ w.sess[s].start \in Nat /\ w.sess[s].end \in Nat
                                /\ At(s, w.sess[s].thread) \in Places
         /\ \A s : Open(w, s) <=> Open(Idx(w), s)
         /\ Known(w) = Known(Idx(w))
<1>1. Idx(w) \in Index /\ Idx(w).sess = w.sess /\ Idx(w).thr = w.thr
  BY DEF Minds, Idx, Index
<1>2. \A s \in Known(w) : /\ s \in Sids /\ w.sess[s] # Nobody /\ w.sess[s] \in Sessions
                          /\ w.sess[s].thread \in Tids /\ w.sess[s].start \in Nat /\ w.sess[s].end \in Nat
                          /\ At(s, w.sess[s].thread) \in Places
  BY DEF Minds, Tables, Known, Sessions, At, Places
<1>3. (\A s : Open(w, s) <=> Open(Idx(w), s)) /\ Known(w) = Known(Idx(w))
  BY DEF Open, Known, Idx
<1> QED BY <1>1, <1>2, <1>3

\* _promoteThreadToActive only makes a background thread active.
LEMMA Promoting ==
  ASSUME log \in Seq(Events), NEW w \in Minds, NEW t \in Tids, NEW act \in Places
  PROVE  LET q == Promote(w, t, act) IN
         /\ Planned(Idx(w), q) /\ Added(q) = {} /\ Ended(q) = {} /\ Quiet(q)
         /\ Turned(q) = IF w.thr[t] = "background" THEN {At(t, "active")} ELSE {}
         /\ \A m : Reached(m, q) = IF w.thr[t] = "background" THEN act ELSE At(m.act, m.actT)
         /\ w.thr[t] # "background" <=> q = <<>>
<1> DEFINE q == Promote(w, t, act)
           base == Ev("status", t)
           e == [base EXCEPT !.status = "active"]
           d == [NoEffect EXCEPT !.sets = t, !.status = "active"]
           x == Idx(w)
<1>1. CASE w.thr[t] # "background"
  <2>1. q = <<>>
    BY <1>1 DEF Promote
  <2>2. \A m : Reached(m, <<>>) = At(m.act, m.actT)
    BY ReachedNone
  <2> QED BY <1>1, <2>1, <2>2, NonePlanned, SumsOfNone
<1>2. CASE w.thr[t] = "background"
  <2>1. q = <<Emit(e, d, act)>>
    BY <1>2 DEF Promote
  <2>2. /\ e \in Events /\ e.kind = "status" /\ e.thread = t /\ e.status = "active" /\ e.closes = Nobody
        /\ e.start = 0
    <3>1. base \in Events /\ base.kind = "status" /\ base.thread = t /\ base.closes = Nobody /\ base.start = 0
      BY EvIs DEF Kinds
    <3> HIDE DEF base
    <3> QED BY <3>1 DEF Events, Statuses
  <2>3. /\ d \in Effects /\ d.sets = t /\ d.status = "active" /\ d.adds = Nobody /\ d.ends = Nobody
        /\ d.names = Nobody
    BY NoEffectIs DEF Effects, Statuses
  <2> HIDE DEF e, d
  <2>4. Agrees(e, d) /\ Possible(x, e, d)
    <3>1. x.thr[t] # Nobody
      BY <1>2, MindIs, SessionIndexAssumption DEF Statuses
    <3>2. t # Nobody /\ Nobody # "active"
      BY NobodyIs, SessionIndexAssumption DEF Statuses
    <3> HIDE DEF x
    <3> QED BY <2>2, <2>3, <3>1, <3>2 DEF Agrees, Possible
  <2>5. e.start <= Len(log)
    BY <2>2
  <2> DEFINE p == Append(<<>>, Emit(e, d, act))
  <2>6. /\ Planned(x, p)
        /\ Added(p) = Added(<<>>) /\ Ended(p) = Ended(<<>>) /\ Turned(p) = Turned(<<>>) \cup {At(t, "active")}
        /\ Quiet(p) /\ \A m : Reached(m, p) = act
    <3>1. act # Nobody /\ t # Nobody
      BY NobodyIs, SessionIndexAssumption
    <3>2. Planned(x, <<>>) /\ Turned(<<>>) = {} /\ Quiet(<<>>)
      BY NonePlanned, SumsOfNone
    <3>3. act \in Places \cup {Nobody}
      OBVIOUS
    <3>4. /\ Planned(x, p)
          /\ Added(p) = IF d.adds = Nobody THEN Added(<<>>) ELSE Added(<<>>) \cup {At(d.adds, d.rec.thread)}
          /\ Ended(p) = IF d.ends = Nobody THEN Ended(<<>>) ELSE Ended(<<>>) \cup {d.ends}
          /\ Turned(p) = IF d.sets = Nobody THEN Turned(<<>>) ELSE Turned(<<>>) \cup {At(d.sets, d.status)}
          /\ Quiet(p) <=> Quiet(<<>>) /\ e.kind # "message"
          /\ \A m : Reached(m, p) = IF act = Nobody THEN Reached(m, <<>>) ELSE act
      <4>1. e.kind # "forked" /\ Turned(<<>>) = {} /\ d.adds = Nobody /\ d.ends = Nobody
        BY <2>2, <2>3, <3>2
      <4>2. Planned(x, <<>>) /\ e \in Events /\ d \in Effects /\ Agrees(e, d) /\ Possible(x, e, d)
        BY <2>2, <2>3, <2>4, <3>2
      <4> DEFINE none == <<>>
      <4>3. Planned(x, none) /\ Turned(none) = {}
        BY <4>1, <4>2
      <4> HIDE DEF x, none
      <4>4. LET p1 == Append(none, Emit(e, d, act)) IN
            /\ Planned(x, p1)
            /\ Added(p1) = IF d.adds = Nobody THEN Added(none) ELSE Added(none) \cup {At(d.adds, d.rec.thread)}
            /\ Ended(p1) = IF d.ends = Nobody THEN Ended(none) ELSE Ended(none) \cup {d.ends}
            /\ Turned(p1) = IF d.sets = Nobody THEN Turned(none) ELSE Turned(none) \cup {At(d.sets, d.status)}
            /\ Quiet(p1) <=> Quiet(none) /\ e.kind # "message"
            /\ \A m : Reached(m, p1) = IF act = Nobody THEN Reached(m, none) ELSE act
        BY <2>5, <3>3, <4>1, <4>2, <4>3, ThenEmit
      <4> QED BY <4>4 DEF none
    <3> HIDE DEF p
    <3> QED BY <2>2, <2>3, <3>1, <3>2, <3>4
  <2>7. q = p /\ q # <<>>
    <3>1. Emit(e, d, act) \in Steps
      BY <2>2, <2>3, StepsOf
    <3> QED BY <2>1, <3>1
  <2> HIDE DEF p, q, x
  <2> QED BY <1>2, <2>6, <2>7, SumsOfNone DEF q, x
<1> QED BY <1>1, <1>2

\* The event of a jump and its change.
Jumped(t, ends) == [Ev("jumped", t) EXCEPT !.closes = ends]
Ending(ends)    == [NoEffect EXCEPT !.ends = ends]

\* The event of a jump may follow any plan that has not ended the session it closes.
LEMMA JumpFits ==
  ASSUME log \in Seq(Events), NEW x, NEW pl, NEW t \in Tids, NEW ends \in Sids \cup {Nobody},
         ends # Nobody => Open(x, ends) /\ ends \notin Ended(pl)
  PROVE  LET e == Jumped(t, ends)
             d == Ending(ends)
         IN  /\ Fit(x, pl, e, d) /\ e.kind = "jumped"
             /\ d.adds = Nobody /\ d.sets = Nobody /\ d.ends = ends
<1> DEFINE base == Ev("jumped", t)
           e == [base EXCEPT !.closes = ends]
           d == [NoEffect EXCEPT !.ends = ends]
<1>1. /\ e \in Events /\ e.kind = "jumped" /\ e.closes = ends /\ e.start = 0
  <2>1. base \in Events /\ base.kind = "jumped" /\ base.start = 0
    BY EvIs DEF Kinds
  <2> HIDE DEF base
  <2> QED BY <2>1 DEF Events
<1>2. /\ d \in Effects /\ d.sets = Nobody /\ d.adds = Nobody /\ d.ends = ends /\ d.names = Nobody
  BY NoEffectIs DEF Effects
<1>3. 0 <= Len(log)
  OBVIOUS
<1>a. e = Jumped(t, ends) /\ d = Ending(ends)
  BY DEF Jumped, Ending
<1> HIDE DEF e, d
<1>4. Agrees(e, d) /\ Possible(x, e, d)
  BY <1>1, <1>2 DEF Agrees, Possible
<1>5. Fit(x, pl, e, d)
  BY <1>1, <1>2, <1>3, <1>4 DEF Fit
<1> QED BY <1>1, <1>2, <1>5, <1>a

\* switchToExistingSession leads to its target.
LEMMA Switching ==
  ASSUME log \in Seq(Events), NEW w \in Minds, NEW s \in Known(w), NEW close, NEW background \in BOOLEAN
  PROVE  LET q == SwitchToExisting(w, s, close, background)
             t == w.sess[s].thread
         IN  /\ Planned(Idx(w), q) /\ Quiet(q) /\ Added(q) = {}
             /\ Ended(q) = {} \/ (Ended(q) = {w.act} /\ close # "never")
             /\ Turned(q) = {} \/ Turned(q) = {At(t, "active")}
             /\ Reached(w, q) = At(s, t)
<1> DEFINE q == SwitchToExisting(w, s, close, background)
           t == w.sess[s].thread
           x == Idx(w)
           act == At(s, t)
           prom == IF background THEN <<>> ELSE Promote(w, t, act)
           ends == IF /\ w.act # Nobody /\ Open(w, w.act)
                      /\ \/ close = "always"
                         \/ close = "same-thread" /\ w.sess[w.act].thread = t
                   THEN w.act ELSE Nobody
           e == Jumped(t, ends)
           d == Ending(ends)
<1>1. s \in Sids /\ t \in Tids /\ act \in Places /\ act # Nobody
  BY MindIs, SessionIndexAssumption
<1>2. /\ Planned(x, prom) /\ Added(prom) = {} /\ Ended(prom) = {} /\ Quiet(prom)
      /\ Turned(prom) = {} \/ Turned(prom) = {At(t, "active")}
      /\ prom # <<>> => Reached(w, prom) = act
  <2>1. CASE background
    BY <2>1, NonePlanned, SumsOfNone
  <2>2. CASE ~background
    <3> HIDE DEF x, t, act
    <3>1. LET pq == Promote(w, t, act) IN
         /\ Planned(Idx(w), pq) /\ Added(pq) = {} /\ Ended(pq) = {} /\ Quiet(pq)
         /\ Turned(pq) = IF w.thr[t] = "background" THEN {At(t, "active")} ELSE {}
         /\ \A m : Reached(m, pq) = IF w.thr[t] = "background" THEN act ELSE At(m.act, m.actT)
         /\ w.thr[t] # "background" <=> pq = <<>>
      BY <1>1, Promoting
    <3> QED BY <2>2, <3>1 DEF x
  <2> QED BY <2>1, <2>2
<1>3. CASE s = w.act /\ t = w.actT
  <2>1. q = prom \o (IF prom = <<>> THEN <<>> ELSE <<Save>>)
    BY <1>3, Zenon DEF SwitchToExisting
  <2>2. CASE prom = <<>>
    <3>1. q = <<>>
      BY <2>1, <2>2
    <3>2. Reached(w, <<>>) = At(w.act, w.actT)
      BY ReachedNone
    <3> HIDE DEF q
    <3> QED BY <1>3, <3>1, <3>2, NonePlanned, SumsOfNone DEF q
  <2>3. CASE prom # <<>>
    <3> HIDE DEF prom, act, t
    <3>1. q = prom \o <<SaveAt(Nobody)>>
      BY <2>1, <2>3 DEF Save
    <3>2. LET r == Append(prom, SaveAt(Nobody)) IN
         /\ Planned(x, r) /\ Added(r) = Added(prom) /\ Ended(r) = Ended(prom) /\ Turned(r) = Turned(prom)
         /\ Quiet(r) <=> Quiet(prom)
         /\ \A m : Reached(m, r) = Reached(m, prom)
         /\ SaveAt(Nobody) \in Steps
      BY <1>2, ThenSave
    <3>3. q = Append(prom, SaveAt(Nobody))
      BY <1>2, <3>1, <3>2, Concats DEF Planned
    <3> HIDE DEF q, x
    <3> QED BY <1>2, <2>3, <3>2, <3>3 DEF q, x, act, t
  <2> QED BY <2>2, <2>3
<1>4. CASE ~(s = w.act /\ t = w.actT)
  <2>1. q = prom \o <<Emit(e, d, act), Save>>
    BY <1>4, Zenon DEF SwitchToExisting, Jumped, Ending
  <2>2. ends # Nobody => ends = w.act /\ ends \in Sids /\ Open(x, ends) /\ close # "never"
    <3>1. ASSUME ends # Nobody PROVE ends = w.act /\ Open(w, w.act) /\ close # "never"
      BY <3>1
    <3> HIDE DEF ends
    <3> QED BY <3>1, MindIs DEF Open, Known
  <2> HIDE DEF ends, x, t
  <2>3. Fit(x, prom, e, d) /\ e.kind = "jumped" /\ d.adds = Nobody /\ d.sets = Nobody /\ d.ends = ends
    <3> DEFINE pm == prom
    <3>1. ends # Nobody => Open(x, ends) /\ ends \notin Ended(pm)
      BY <1>2, <2>2
    <3> HIDE DEF pm
    <3>2. Fit(x, pm, e, d) /\ e.kind = "jumped" /\ d.adds = Nobody /\ d.sets = Nobody /\ d.ends = ends
      <4>1. ends \in Sids \cup {Nobody}
        BY <2>2
      <4> QED BY <1>1, <3>1, <4>1, JumpFits
    <3> QED BY <3>2 DEF pm
  <2> HIDE DEF e, d, prom, act
  <2>4. After(x, prom, q, e, d, act)
    <3>1. After(x, prom, prom \o <<Emit(e, d, act), Save>>, e, d, act)
      BY <1>1, <1>2, <2>3, Emitting
    <3> HIDE DEF q
    <3> QED BY <2>1, <3>1
  <2> HIDE DEF q
  <2> QED BY <1>1, <1>2, <2>2, <2>3, <2>4 DEF After, q, x, t, act
<1> QED BY <1>3, <1>4

\* switchTo leads to its target and ends nothing.
LEMMA SwitchingTo ==
  ASSUME log \in Seq(Events), NEW w \in Minds, NEW s \in Known(w)
  PROVE  LET q == SwitchTo(w, s)
             t == w.sess[s].thread
         IN  /\ Planned(Idx(w), q) /\ Quiet(q) /\ Added(q) = {} /\ Ended(q) = {}
             /\ Turned(q) = {} \/ Turned(q) = {At(t, "active")}
             /\ Reached(w, q) = At(s, t)
<1> DEFINE q == SwitchTo(w, s)
           t == w.sess[s].thread
           x == Idx(w)
           act == At(s, t)
           prom == Promote(w, t, act)
<1>1. s \in Sids /\ t \in Tids /\ act \in Places /\ act # Nobody /\ act.t = t
  BY MindIs, SessionIndexAssumption DEF At
<1>2. q = prom \o <<SaveAt(act)>>
  BY <1>1 DEF SwitchTo
<1> HIDE DEF t, act
<1>3. /\ Planned(x, prom) /\ Added(prom) = {} /\ Ended(prom) = {} /\ Quiet(prom)
      /\ Turned(prom) = {} \/ Turned(prom) = {At(t, "active")}
  BY <1>1, Promoting
<1> HIDE DEF prom, x
<1>4. LET r == Append(prom, SaveAt(act)) IN
      /\ Planned(x, r) /\ Added(r) = Added(prom) /\ Ended(r) = Ended(prom) /\ Turned(r) = Turned(prom)
      /\ Quiet(r) <=> Quiet(prom)
      /\ \A m : Reached(m, r) = act
      /\ SaveAt(act) \in Steps
  BY <1>1, <1>3, ThenSave
<1>5. q = Append(prom, SaveAt(act))
  BY <1>2, <1>3, <1>4, Concats DEF Planned
<1> HIDE DEF q
<1> QED BY <1>3, <1>4, <1>5 DEF q, x, t, act

\* The event of a fork whose session has been created.
Forked(t, s, ends) == [Ev("forked", t) EXCEPT !.sid = s, !.closes = ends]

\* The event of a fork may follow the creation of its session.
LEMMA ForkFits ==
  ASSUME log \in Seq(Events), NEW x, NEW pl, NEW t \in Tids, NEW s \in Sids, At(s, t) \in Added(pl),
         NEW ends \in Sids \cup {Nobody}, ends # Nobody => Open(x, ends) /\ ends \notin Ended(pl)
  PROVE  LET e == Forked(t, s, ends)
             d == Ending(ends)
         IN  /\ Fit(x, pl, e, d) /\ e.kind = "forked"
             /\ d.adds = Nobody /\ d.sets = Nobody /\ d.ends = ends
<1> DEFINE base == Ev("forked", t)
           e == [base EXCEPT !.sid = s, !.closes = ends]
           d == [NoEffect EXCEPT !.ends = ends]
<1>1. /\ e \in Events /\ e.kind = "forked" /\ e.closes = ends /\ e.start = 0 /\ e.sid = s
  <2>1. base \in Events /\ base.kind = "forked" /\ base.start = 0
    BY EvIs DEF Kinds
  <2> HIDE DEF base
  <2> QED BY <2>1 DEF Events
<1>2. /\ d \in Effects /\ d.sets = Nobody /\ d.adds = Nobody /\ d.ends = ends /\ d.names = Nobody
  BY NoEffectIs DEF Effects
<1>3. 0 <= Len(log)
  OBVIOUS
<1>a. e = Forked(t, s, ends) /\ d = Ending(ends)
  BY DEF Forked, Ending
<1> HIDE DEF e, d
<1>4. Agrees(e, d) /\ Possible(x, e, d)
  BY <1>1, <1>2, NobodyIs DEF Agrees, Possible
<1>5. Fit(x, pl, e, d)
  BY <1>1, <1>2, <1>3, <1>4 DEF Fit
<1> QED BY <1>1, <1>2, <1>5, <1>a

\* The process once it has switched to the session it forks.
From(w, s) == IF w.sess[s].end = 0 THEN [w EXCEPT !.act = s, !.actT = w.sess[s].thread] ELSE w
ForkOpt(w, s, preserveHistory) ==
  [InThread(w.sess[s].thread) EXCEPT
     !.start = IF preserveHistory THEN w.sess[s].start ELSE IF w.sess[s].end = 0 THEN Len(log) ELSE w.sess[s].end]

\* It has the same index.
LEMMA FromIs ==
  ASSUME NEW w \in Minds, NEW s \in Known(w)
  PROVE  From(w, s) \in Minds /\ Idx(From(w, s)) = Idx(w)
<1>1. s \in Sids /\ w.sess[s].thread \in Tids
  BY MindIs
<1>2. LET v == [w EXCEPT !.act = s, !.actT = w.sess[s].thread]
      IN  v \in Minds /\ v.sess = w.sess /\ v.thr = w.thr
  BY <1>1 DEF Minds
<1> QED BY <1>2 DEF From, Idx

\* The options forkFromSession passes on are sound: a branch starts in the log.
LEMMA ForkOptOK ==
  ASSUME log \in Seq(Events), NEW w \in Minds, Grounded(Idx(w), log), NEW s \in Known(w), NEW h \in BOOLEAN
  PROVE  LET o == ForkOpt(w, s, h) IN
         OptOK(Idx(w), o) /\ o.thread = w.sess[s].thread /\ o.status = Nobody /\ o.closeActive = TRUE
<1>1. /\ w.sess[s].thread \in Tids /\ w.sess[s].start \in Nat /\ w.sess[s].end \in Nat
      /\ w.sess[s].start <= Len(log) /\ w.sess[s].end <= Len(log) /\ Len(log) \in Nat
  BY MindIs DEF Grounded
<1> DEFINE o == ForkOpt(w, s, h)
           at == IF h THEN w.sess[s].start ELSE IF w.sess[s].end = 0 THEN Len(log) ELSE w.sess[s].end
<1>2. at \in Nat /\ at <= Len(log)
  BY <1>1
<1> HIDE DEF at
<1>3. o.thread = w.sess[s].thread /\ o.status = Nobody /\ o.closeActive = TRUE /\ o.ctx = Nobody /\ o.start = at
  BY DEF ForkOpt, InThread, at
<1> HIDE DEF o
<1>4. OptOK(Idx(w), o)
  BY <1>1, <1>2, <1>3 DEF OptOK
<1> QED BY <1>3, <1>4 DEF o

\* forkFromSession leads to a new session in the thread of its source.
LEMMA Forking ==
  ASSUME log \in Seq(Events), NEW w \in Minds, Grounded(Idx(w), log), RoomForSession,
         NEW s \in Known(w), NEW h \in BOOLEAN
  PROVE  LET q == ForkFromSession(w, s, h)
             t == w.sess[s].thread
         IN  /\ Planned(Idx(w), q) /\ Quiet(q) /\ Added(q) = {At(FreshSid, t)}
             /\ Turned(q) = {} \/ Turned(q) = {At(t, "active")}
             /\ Reached(w, q) = At(FreshSid, t)
             /\ FreshSid \in Sids /\ t \in Tids
<1> DEFINE q == ForkFromSession(w, s, h)
           t == w.sess[s].thread
           x == Idx(w)
           prom == IF w.sess[s].end = 0 THEN Promote(w, t, At(s, t)) ELSE <<>>
           from == From(w, s)
           opt == ForkOpt(w, s, h)
           made == CreateSession(from, opt)
           prev == IF w.act # Nobody /\ w.act # s /\ Open(w, w.act) /\ w.act # EndsActive(from, t) THEN w.act ELSE Nobody
           new == Reached(from, made)
<1>1. s \in Sids /\ t \in Tids /\ At(s, t) \in Places
  BY MindIs
<1>2. q = prom \o made \o <<Emit(Forked(t, new.s, prev), Ending(prev), new)>>
          \o (IF prev = Nobody THEN <<>> ELSE <<Save>>)
  BY Zenon DEF ForkFromSession, From, ForkOpt, Forked, Ending
<1>3. from \in Minds /\ Idx(from) = x
  BY FromIs
<1>4. OptOK(x, opt) /\ opt.thread = t /\ opt.status = Nobody /\ opt.closeActive = TRUE
  BY ForkOptOK
<1>5. EndsOf(from, opt) = EndsActive(from, t)
  <2> HIDE DEF from, opt, t
  <2> QED BY <1>4 DEF EndsOf
<1>6. prev # Nobody => prev \in Sids /\ Open(x, prev) /\ prev # EndsActive(from, t)
  <2>1. prev # Nobody => Open(w, prev) /\ prev # EndsActive(from, t)
    <3> HIDE DEF from, t
    <3> QED OBVIOUS
  <2> HIDE DEF prev, from, t
  <2> QED BY <2>1, MindIs DEF Open, Known
<1>7. /\ Planned(x, prom) /\ Added(prom) = {} /\ Ended(prom) = {} /\ Quiet(prom)
      /\ Turned(prom) = {} \/ Turned(prom) = {At(t, "active")}
  <2> HIDE DEF t, x
  <2>1. LET pq == Promote(w, t, At(s, t)) IN
         /\ Planned(Idx(w), pq) /\ Added(pq) = {} /\ Ended(pq) = {} /\ Quiet(pq)
         /\ Turned(pq) = IF w.thr[t] = "background" THEN {At(t, "active")} ELSE {}
    BY <1>1, Promoting
  <2> QED BY <2>1, NonePlanned, SumsOfNone DEF x
<1> HIDE DEF prev, from, opt, prom, t, x, q
<1> DEFINE q1 == prom \o made
<1>8. LET r == prom \o CreateSession(from, opt) IN
      /\ Planned(Idx(from), r) /\ Added(r) = {At(FreshSid, opt.thread)}
      /\ Ended(r) = IF EndsOf(from, opt) = Nobody THEN Ended(prom) ELSE Ended(prom) \cup {EndsOf(from, opt)}
      /\ Turned(r) = IF opt.status = Nobody THEN Turned(prom) ELSE {At(opt.thread, opt.status)}
      /\ Quiet(r) <=> Quiet(prom)
      /\ \A m : Reached(m, r) = At(FreshSid, opt.thread)
      /\ \A m : Reached(m, CreateSession(from, opt)) = At(FreshSid, opt.thread)
      /\ CreateSession(from, opt) \in Seq(Steps)
  <2>1. Grounded(Idx(from), log) /\ Planned(Idx(from), prom) /\ OptOK(Idx(from), opt)
    BY <1>3, <1>4, <1>7 DEF x
  <2>2. EndsOf(from, opt) \notin Ended(prom) /\ Added(prom) = {} /\ opt.status = Nobody
    BY <1>4, <1>7
  <2> QED BY <1>3, <2>1, <2>2, Creating
<1>9. /\ Planned(x, q1) /\ Added(q1) = {At(FreshSid, t)} /\ Turned(q1) = Turned(prom) /\ Quiet(q1)
      /\ Ended(q1) \subseteq {EndsActive(from, t)} /\ new = At(FreshSid, t)
  BY <1>3, <1>4, <1>5, <1>7, <1>8
<1>10. FreshSid \in Sids /\ new \in Places /\ new # Nobody /\ new.s = FreshSid
  BY <1>1, <1>9, FreshSession, SessionIndexAssumption DEF Places, At
<1> HIDE DEF q1, new, made
<1> DEFINE e == Forked(t, FreshSid, prev)
           d == Ending(prev)
           q2 == q1 \o <<Emit(e, d, new)>>
<1>11. Fit(x, q1, e, d) /\ e.kind = "forked" /\ d.adds = Nobody /\ d.sets = Nobody /\ d.ends = prev
  <2>1. prev # Nobody => Open(x, prev) /\ prev \notin Ended(q1)
    BY <1>6, <1>9
  <2>2. prev \in Sids \cup {Nobody} /\ At(FreshSid, t) \in Added(q1)
    BY <1>6, <1>9
  <2> QED BY <1>1, <1>10, <2>1, <2>2, ForkFits
<1> HIDE DEF e, d
<1>12. After(x, q1, q2, e, d, new)
  BY <1>9, <1>10, <1>11, Emitting
<1> HIDE DEF q2
<1>13. /\ Planned(x, q2) /\ Quiet(q2) /\ Added(q2) = {At(FreshSid, t)} /\ Turned(q2) = Turned(prom)
       /\ Reached(w, q2) = At(FreshSid, t)
  BY <1>9, <1>10, <1>11, <1>12 DEF After
<1>14. q = q2 \o (IF prev = Nobody THEN <<>> ELSE <<Save>>)
  BY <1>2, <1>10 DEF q1, q2, e, d
<1>15. /\ Planned(x, q) /\ Quiet(q) /\ Added(q) = {At(FreshSid, t)} /\ Turned(q) = Turned(prom)
       /\ Reached(w, q) = At(FreshSid, t)
  <2>1. q2 \in Seq(Steps) /\ Save \in Steps
    BY <1>13, ThenSave DEF Planned, Save
  <2>2. CASE prev = Nobody
    <3>1. q = q2
      BY <1>14, <2>1, <2>2, Concats
    <3> QED BY <1>13, <3>1
  <2>3. CASE prev # Nobody
    <3>1. q = Append(q2, SaveAt(Nobody))
      BY <1>14, <2>1, <2>3, Concats DEF Save
    <3>2. LET r == Append(q2, SaveAt(Nobody)) IN
         /\ Planned(x, r) /\ Added(r) = Added(q2) /\ Turned(r) = Turned(q2)
         /\ Quiet(r) <=> Quiet(q2)
         /\ \A m : Reached(m, r) = Reached(m, q2)
      BY <1>13, ThenSave
    <3> QED BY <1>13, <3>1, <3>2
  <2> QED BY <2>2, <2>3
<1> QED BY <1>1, <1>7, <1>10, <1>15 DEF q, t, x

\* The only background thread a plan sets is one.
Wakes(w, pl, t) ==
  \A i \in 1 .. Len(pl) : LET u == pl[i].do.sets IN u # Nobody /\ w.thr[u] = "background" => u = t

\* A plan that sets no other thread wakes no other.
LEMMA WakesBy ==
  ASSUME NEW w, NEW pl, NEW t, NEW st, Turned(pl) = {} \/ Turned(pl) = {At(t, st)}
  PROVE  Wakes(w, pl, t)
<1> SUFFICES ASSUME NEW i \in 1 .. Len(pl), pl[i].do.sets # Nobody PROVE pl[i].do.sets = t
  BY DEF Wakes
<1>1. At(pl[i].do.sets, pl[i].do.status) \in Turned(pl)
  BY DEF Turned
<1>2. At(pl[i].do.sets, pl[i].do.status) = At(t, st)
  BY <1>1
<1> QED BY <1>2 DEF At

\* A plan an operation may leave.
Good(w, pl) ==
  /\ Planned(Idx(w), pl) /\ Lands(Idx(w), pl, Reached(w, pl)) /\ MessageLast(Idx(w), pl, Reached(w, pl))
  /\ (\A t \in Tids : ~ToBackground(pl, t)) /\ Wakes(w, pl, Reached(w, pl).t)

\* A process that is in a session.
Placed(w) == w.act \in Known(w) /\ w.sess[w.act].thread = w.actT

\* A plan leads to a session that is known, or that it adds, in its thread.
LEMMA LandsBy ==
  ASSUME NEW x, NEW pl, NEW s \in Sids, NEW t \in Tids,
         (x.sess[s] # Nobody /\ x.sess[s].thread = t) \/ At(s, t) \in Added(pl)
  PROVE  Lands(x, pl, At(s, t)) /\ At(s, t) \in Places /\ At(s, t).s = s /\ At(s, t).t = t
<1> DEFINE r == At(s, t)
<1>1. r \in Places /\ r.s = s /\ r.t = t
  BY DEF At, Places
<1>2. At(s, t) \in Added(pl) => \E i \in 1 .. Len(pl) : pl[i].do.adds = s /\ pl[i].do.rec.thread = t
  BY DEF Added, At
<1> HIDE DEF r
<1>3. Lands(x, pl, r)
  BY <1>1, <1>2 DEF Lands
<1> QED BY <1>1, <1>3 DEF r

\* A plan that makes a thread a background one sets it.
LEMMA TurnedBackground ==
  ASSUME NEW pl, NEW t \in Tids
  PROVE  ToBackground(pl, t) => At(t, "background") \in Turned(pl)
BY NobodyIs DEF ToBackground, Turned

\* A plan without a message that makes no thread a background one, and leads to a session
\* that is known or added.
LEMMA GoodQuiet ==
  ASSUME NEW w \in Minds, NEW pl, Planned(Idx(w), pl), Quiet(pl), NEW s \in Sids, NEW t \in Tids,
         Turned(pl) = {} \/ Turned(pl) = {At(t, "active")}, Reached(w, pl) = At(s, t),
         (w.sess[s] # Nobody /\ w.sess[s].thread = t) \/ At(s, t) \in Added(pl)
  PROVE  Good(w, pl)
<1>1. Lands(Idx(w), pl, Reached(w, pl))
  <2> DEFINE x == Idx(w)
  <2>1. (x.sess[s] # Nobody /\ x.sess[s].thread = t) \/ At(s, t) \in Added(pl)
    BY DEF Idx
  <2> HIDE DEF x
  <2>2. Lands(x, pl, At(s, t))
    BY <2>1, LandsBy
  <2> QED BY <2>2 DEF x
<1>2. MessageLast(Idx(w), pl, Reached(w, pl))
  BY DEF Quiet, MessageLast
<1>3. ASSUME NEW v \in Tids PROVE ~ToBackground(pl, v)
  <2>1. At(v, "background") # At(t, "active")
    BY DEF At
  <2> QED BY <2>1, TurnedBackground
<1>4. Wakes(w, pl, Reached(w, pl).t)
  <2>1. At(s, t).t = t
    BY DEF At
  <2> QED BY <2>1, WakesBy
<1> QED BY <1>1, <1>2, <1>3, <1>4 DEF Good

\* The plans of the operations of a process that is in a session.
LEMMA GoodStay == ASSUME NEW w \in Minds, Placed(w) PROVE Good(w, <<>>)
<1> DEFINE none == <<>>
<1>1. Planned(Idx(w), none) /\ Quiet(none) /\ Turned(none) = {} /\ Reached(w, none) = At(w.act, w.actT)
  BY NonePlanned, SumsOfNone, ReachedNone
<1>2. w.act \in Sids /\ w.actT \in Tids /\ w.sess[w.act] # Nobody /\ w.sess[w.act].thread = w.actT
  BY MindIs DEF Placed
<1> HIDE DEF none
<1>3. Good(w, none)
  BY <1>1, <1>2, GoodQuiet
<1> QED BY <1>3 DEF none

\* switchToExistingSession.
LEMMA GoodSwitch ==
  ASSUME log \in Seq(Events), NEW w \in Minds, NEW s \in Known(w), NEW close, NEW background \in BOOLEAN
  PROVE  Good(w, SwitchToExisting(w, s, close, background))
<1> DEFINE q == SwitchToExisting(w, s, close, background)
<1>1. s \in Sids /\ w.sess[s].thread \in Tids /\ w.sess[s] # Nobody
  BY MindIs
<1>2. /\ Planned(Idx(w), q) /\ Quiet(q) /\ Reached(w, q) = At(s, w.sess[s].thread)
      /\ Turned(q) = {} \/ Turned(q) = {At(w.sess[s].thread, "active")}
  BY Switching
<1> HIDE DEF q
<1>3. Good(w, q)
  BY <1>1, <1>2, GoodQuiet
<1> QED BY <1>3 DEF q

\* switchTo.
LEMMA GoodSwitchTo ==
  ASSUME log \in Seq(Events), NEW w \in Minds, NEW s \in Known(w)
  PROVE  Good(w, SwitchTo(w, s)) /\ Reached(w, SwitchTo(w, s)) # At(Nobody, w.actT)
         /\ Reached(w, SwitchTo(w, s)).s # Nobody
<1> DEFINE q == SwitchTo(w, s)
<1>1. s \in Sids /\ w.sess[s].thread \in Tids /\ w.sess[s] # Nobody
  BY MindIs
<1>2. /\ Planned(Idx(w), q) /\ Quiet(q) /\ Reached(w, q) = At(s, w.sess[s].thread)
      /\ Turned(q) = {} \/ Turned(q) = {At(w.sess[s].thread, "active")}
  BY SwitchingTo
<1> HIDE DEF q
<1>3. Good(w, q)
  BY <1>1, <1>2, GoodQuiet
<1> QED BY <1>1, <1>2, <1>3, NobodyIs DEF q, At

\* forkFromSession.
LEMMA GoodFork ==
  ASSUME log \in Seq(Events), NEW w \in Minds, Grounded(Idx(w), log), RoomForSession,
         NEW s \in Known(w), NEW h \in BOOLEAN
  PROVE  Good(w, ForkFromSession(w, s, h))
<1> DEFINE q == ForkFromSession(w, s, h)
           t == w.sess[s].thread
<1>1. /\ Planned(Idx(w), q) /\ Quiet(q) /\ Reached(w, q) = At(FreshSid, t) /\ Added(q) = {At(FreshSid, t)}
      /\ Turned(q) = {} \/ Turned(q) = {At(t, "active")}
      /\ FreshSid \in Sids /\ t \in Tids
  BY Forking
<1> HIDE DEF q, t
<1>2. Good(w, q)
  BY <1>1, GoodQuiet
<1> QED BY <1>2 DEF q

\* createSession alone.
LEMMA CreatingAlone ==
  ASSUME log \in Seq(Events), NEW w \in Minds, Grounded(Idx(w), log), RoomForSession,
         NEW opt, OptOK(Idx(w), opt)
  PROVE  LET q == CreateSession(w, opt) IN
         /\ Planned(Idx(w), q) /\ Added(q) = {At(FreshSid, opt.thread)} /\ Quiet(q)
         /\ Ended(q) = IF EndsOf(w, opt) = Nobody THEN {} ELSE {EndsOf(w, opt)}
         /\ Turned(q) = IF opt.status = Nobody THEN {} ELSE {At(opt.thread, opt.status)}
         /\ \A m : Reached(m, q) = At(FreshSid, opt.thread)
         /\ FreshSid \in Sids /\ opt.thread \in Tids
<1> DEFINE none == <<>>
           made == CreateSession(w, opt)
<1>1. Planned(Idx(w), none) /\ Added(none) = {} /\ Ended(none) = {} /\ Turned(none) = {} /\ Quiet(none)
  BY NonePlanned, SumsOfNone
<1>2. made \in Seq(Steps) => none \o made = made
  <2> HIDE DEF made
  <2> QED OBVIOUS
<1> HIDE DEF none
<1>3. LET q == none \o CreateSession(w, opt) IN
         /\ Planned(Idx(w), q) /\ Added(q) = {At(FreshSid, opt.thread)}
         /\ Ended(q) = IF EndsOf(w, opt) = Nobody THEN Ended(none) ELSE Ended(none) \cup {EndsOf(w, opt)}
         /\ Turned(q) = IF opt.status = Nobody THEN Turned(none) ELSE {At(opt.thread, opt.status)}
         /\ Quiet(q) <=> Quiet(none)
         /\ \A m : Reached(m, q) = At(FreshSid, opt.thread)
         /\ \A m : Reached(m, CreateSession(w, opt)) = At(FreshSid, opt.thread)
         /\ CreateSession(w, opt) \in Seq(Steps)
  BY <1>1, Creating
<1>4. FreshSid \in Sids /\ opt.thread \in Tids
  BY FreshSession DEF OptOK
<1> HIDE DEF made
<1> QED BY <1>1, <1>2, <1>3, <1>4 DEF made

\* createSession, but for a background thread.
LEMMA GoodCreate ==
  ASSUME log \in Seq(Events), NEW w \in Minds, Grounded(Idx(w), log), RoomForSession,
         NEW opt, OptOK(Idx(w), opt), opt.status \in {Nobody, "active"}
  PROVE  /\ Good(w, CreateSession(w, opt))
         /\ \A m : Reached(m, CreateSession(w, opt)) = At(FreshSid, opt.thread)
<1> DEFINE q == CreateSession(w, opt)
<1>1. /\ Planned(Idx(w), q) /\ Added(q) = {At(FreshSid, opt.thread)} /\ Quiet(q)
      /\ Turned(q) = IF opt.status = Nobody THEN {} ELSE {At(opt.thread, opt.status)}
      /\ \A m : Reached(m, q) = At(FreshSid, opt.thread)
      /\ FreshSid \in Sids /\ opt.thread \in Tids
  BY CreatingAlone
<1> HIDE DEF q
<1>2. Good(w, q)
  BY <1>1, GoodQuiet
<1> QED BY <1>1, <1>2 DEF q

\* The options of a session in a known thread are sound.
LEMMA InThreadOK ==
  ASSUME log \in Seq(Events), NEW x, NEW t \in Tids
  PROVE  OptOK(x, InThread(t)) /\ InThread(t).status = Nobody /\ InThread(t).thread = t
BY DEF OptOK, InThread

\* So are those of one in a new thread, which no session has.
LEMMA NewThreadOK ==
  ASSUME log \in Seq(Events), NEW x, Grounded(x, log), RoomForThread, NEW status \in Statuses
  PROVE  LET o == NewThread(status) IN
         OptOK(x, o) /\ o.status = status /\ o.thread = FreshTid /\ o.closeActive = TRUE
<1>1. FreshTid \in Tids /\ x.thr[FreshTid] = Nobody
  BY FreshUnknown
<1> DEFINE o == NewThread(status)
<1>2. /\ o.thread = FreshTid /\ o.status = status /\ o.closeActive = TRUE /\ o.ctx = Nobody
      /\ o.start = Len(log)
  BY DEF NewThread, InThread
<1> HIDE DEF o
<1>3. Len(log) \in Nat
  OBVIOUS
<1>4. OptOK(x, o)
  BY <1>1, <1>2, <1>3 DEF OptOK
<1> QED BY <1>2, <1>4 DEF o

\* The event of forkAt and its change.
ForkedHere(t, s, pos, ends) == [Ev("forked", t) EXCEPT !.sid = s, !.start = pos, !.closes = ends]
AddingHere(s, rec, ends)    == [NoEffect EXCEPT !.adds = s, !.rec = rec, !.ends = ends]

\* forkAt.
LEMMA GoodForkAt ==
  ASSUME log \in Seq(Events), NEW w \in Minds, Grounded(Idx(w), log), RoomForSession, w.act \in Known(w),
         NEW pos \in DOMAIN log
  PROVE  Good(w, ForkAt(w, pos))
<1> DEFINE t == w.sess[w.act].thread
           ends == IF w.sess[w.act].end = 0 THEN w.act ELSE Nobody
           rec == [thread |-> t, start |-> pos, end |-> 0, ctx |-> Nobody, name |-> 0]
           e == ForkedHere(t, FreshSid, pos, ends)
           d == AddingHere(FreshSid, rec, ends)
           a == At(FreshSid, t)
           q == ForkAt(w, pos)
           x == Idx(w)
<1>1. q = <<Emit(e, d, a), Save>>
  BY Zenon DEF ForkAt, ForkedHere, AddingHere
<1>2. /\ w.act \in Sids /\ t \in Tids /\ FreshSid \in Sids /\ x.sess[FreshSid] = Nobody
      /\ pos \in Nat /\ pos <= Len(log) /\ FreshSid # Nobody
  BY MindIs, FreshUnknown, NobodyIs
<1>3. ends # Nobody => ends \in Sids /\ Open(x, ends)
  BY DEF Open, Known, Idx
<1> HIDE DEF ends, t, x
<1>4. /\ e \in Events /\ e.kind = "forked" /\ e.sid = FreshSid /\ e.start = pos /\ e.closes = ends
      /\ e.thread = t /\ e.ctx = Nobody
  <2> DEFINE base == Ev("forked", t)
  <2>1. base \in Events /\ base.kind = "forked" /\ base.thread = t /\ base.ctx = Nobody
    BY <1>2, EvIs DEF Kinds
  <2>2. ends \in Sids \cup {Nobody}
    BY <1>3
  <2>3. e = [base EXCEPT !.sid = FreshSid, !.start = pos, !.closes = ends]
    BY DEF ForkedHere
  <2> HIDE DEF base, e
  <2> QED BY <1>2, <2>1, <2>2, <2>3 DEF Events
<1>5. rec \in Sessions /\ rec.thread = t /\ rec = [thread |-> e.thread, start |-> e.start, end |-> 0, ctx |-> e.ctx, name |-> 0]
  <2>1. rec \in Sessions
    BY <1>2 DEF Sessions
  <2> HIDE DEF e
  <2> QED BY <1>4, <2>1
<1> HIDE DEF rec
<1>6. /\ d \in Effects /\ d.adds = FreshSid /\ d.rec = rec /\ d.ends = ends /\ d.sets = Nobody /\ d.names = Nobody
  <2>2. ends \in Sids \cup {Nobody}
    BY <1>3
  <2> QED BY <1>2, <1>5, <2>2, NoEffectIs DEF Effects, AddingHere
<1> HIDE DEF e, d
<1> DEFINE none == <<>>
<1>7. Added(none) = {} /\ Ended(none) = {} /\ Turned(none) = {} /\ Quiet(none)
  BY SumsOfNone
<1>8. Fit(x, <<>>, e, d)
  <2>1. Agrees(e, d)
    BY <1>2, <1>4, <1>5, <1>6 DEF Agrees
  <2>2. Possible(x, e, d)
    BY <1>2, <1>3, <1>6 DEF Possible
  <2>3. Fit(x, none, e, d)
    <3> HIDE DEF none
    <3> QED BY <1>2, <1>4, <1>6, <1>7, <2>1, <2>2 DEF Fit
  <2> QED BY <2>3
<1>9. a \in Places /\ a # Nobody
  BY <1>2, SessionIndexAssumption DEF At, Places
<1> HIDE DEF a
<1>10. After(x, <<>>, <<Emit(e, d, a), Save>>, e, d, a)
  BY <1>8, <1>9, EmittingAlone
<1> HIDE DEF q
<1>11. After(x, none, q, e, d, a)
  BY <1>1, <1>10
<1> HIDE DEF none
<1>12. Planned(x, q) /\ Quiet(q) /\ Added(q) = {At(FreshSid, t)} /\ Turned(q) = {} /\ Reached(w, q) = a
  BY <1>2, <1>4, <1>5, <1>6, <1>7, <1>9, <1>11 DEF After
<1>13. Good(w, q)
  BY <1>2, <1>12, GoodQuiet DEF x, a
<1> QED BY <1>13 DEF q

\* renameSession.
LEMMA GoodRename ==
  ASSUME log \in Seq(Events), NEW w \in Minds, Placed(w), NEW s \in Known(w)
  PROVE  Good(w, <<Emit([Ev("renamed", w.sess[s].thread) EXCEPT !.sid = s],
                        [NoEffect EXCEPT !.names = s], Nobody), Save>>)
<1> DEFINE t == w.sess[s].thread
           e == [Ev("renamed", t) EXCEPT !.sid = s]
           d == [NoEffect EXCEPT !.names = s]
           q == <<Emit(e, d, Nobody), Save>>
           x == Idx(w)
<1>1. s \in Sids /\ t \in Tids /\ x.sess[s] # Nobody /\ s # Nobody /\ Len(log) \in Nat
  BY MindIs, NobodyIs
<1> HIDE DEF t, x
<1>2. e \in Events /\ e.kind = "renamed" /\ e.sid = s /\ e.start = 0 /\ e.closes = Nobody
  <2> DEFINE base == Ev("renamed", t)
  <2>1. base \in Events /\ base.kind = "renamed" /\ base.start = 0 /\ base.closes = Nobody
    BY <1>1, EvIs DEF Kinds
  <2>2. e = [base EXCEPT !.sid = s]
    OBVIOUS
  <2> HIDE DEF base, e
  <2> QED BY <1>1, <2>1, <2>2 DEF Events
<1>3. d \in Effects /\ d.names = s /\ d.adds = Nobody /\ d.ends = Nobody /\ d.sets = Nobody
  BY <1>1, NoEffectIs DEF Effects
<1> HIDE DEF e, d
<1> DEFINE none == <<>>
<1>4. Added(none) = {} /\ Ended(none) = {} /\ Turned(none) = {} /\ Quiet(none)
      /\ Reached(w, none) = At(w.act, w.actT)
  BY SumsOfNone, ReachedNone
<1>5. Fit(x, <<>>, e, d)
  <2>1. Agrees(e, d) /\ Possible(x, e, d)
    BY <1>1, <1>2, <1>3 DEF Agrees, Possible
  <2>2. Fit(x, none, e, d)
    <3> HIDE DEF none
    <3> QED BY <1>1, <1>2, <1>3, <1>4, <2>1 DEF Fit
  <2> QED BY <2>2
<1>6. After(x, <<>>, <<Emit(e, d, Nobody), Save>>, e, d, Nobody)
  BY <1>5, EmittingAlone
<1> HIDE DEF q
<1>7. After(x, none, q, e, d, Nobody)
  BY <1>6 DEF q
<1> HIDE DEF none
<1>8. Planned(x, q) /\ Quiet(q) /\ Turned(q) = {} /\ Reached(w, q) = At(w.act, w.actT)
  BY <1>2, <1>3, <1>4, <1>7 DEF After
<1>9. w.act \in Sids /\ w.actT \in Tids /\ w.sess[w.act] # Nobody /\ w.sess[w.act].thread = w.actT
  BY MindIs DEF Placed
<1>10. Good(w, q)
  BY <1>8, <1>9, GoodQuiet DEF x
<1> QED BY <1>10 DEF q, e, d, t

\* A set of sessions that is not empty has a newest one.
LEMMA NewestOf ==
  ASSUME NEW S \in SUBSET Sids, S # {}
  PROVE  Newest(S) \in S
<1>1. S \in SUBSET (0 .. MaxSessions) /\ MaxSessions \in Nat
  BY SessionIndexAssumption DEF Sids
<1> QED BY <1>1, NewestIs

\* An event without a change.
LEMMA PlainFits ==
  ASSUME log \in Seq(Events), NEW x, NEW pl, NEW k \in {"jumped", "boundary", "message"}, NEW t \in Tids
  PROVE  Fit(x, pl, Ev(k, t), NoEffect) /\ Ev(k, t).kind = k /\ Ev(k, t).thread = t /\ Ev(k, t) \in Events
<1> DEFINE e == Ev(k, t)
<1>1. /\ e \in Events /\ e.kind = k /\ e.thread = t /\ e.start = 0 /\ e.closes = Nobody
  BY EvIs DEF Kinds
<1> HIDE DEF e
<1>2. 0 <= Len(log)
  OBVIOUS
<1>3. Agrees(e, NoEffect) /\ Possible(x, e, NoEffect)
  BY <1>1, NoEffectIs DEF Agrees, Possible
<1>4. Fit(x, pl, e, NoEffect)
  BY <1>1, <1>2, <1>3, NoEffectIs DEF Fit
<1> QED BY <1>1, <1>4 DEF e

\* jumpToSession, whatever has become of its target.
LEMMA GoodJump ==
  ASSUME log \in Seq(Events), NEW w \in Minds, Placed(w), Grounded(Idx(w), log), RoomForSession,
         NEW s \in Known(w)
  PROVE  Good(w, JumpTo(w, s))
<1>1. CASE s = w.act /\ Open(w, s)
  <2>1. JumpTo(w, s) = <<>>
    BY <1>1 DEF JumpTo
  <2> QED BY <2>1, GoodStay
<1>2. CASE ~(s = w.act /\ Open(w, s)) /\ Open(w, s)
  <2>1. JumpTo(w, s) = SwitchToExisting(w, s, "same-thread", FALSE)
    BY <1>2 DEF JumpTo
  <2> QED BY <2>1, GoodSwitch
<1>3. CASE ~Open(w, s)
  <2> DEFINE x == Idx(w)
             f == ForkFromSession(w, s, TRUE)
             t == w.sess[s].thread
             new == At(FreshSid, t)
             q == f \o <<Emit(Ev("jumped", t), NoEffect, new)>>
  <2>1. /\ Planned(x, f) /\ Quiet(f) /\ Added(f) = {new}
        /\ Turned(f) = {} \/ Turned(f) = {At(t, "active")}
        /\ Reached(w, f) = new
        /\ FreshSid \in Sids /\ t \in Tids
    BY Forking
  <2>2. JumpTo(w, s) = q
    <3>1. new.t = t
      BY DEF At
    <3>2. JumpTo(w, s) = f \o <<Emit(Ev("jumped", Reached(w, f).t), NoEffect, Reached(w, f))>>
      BY <1>3, Zenon DEF JumpTo
    <3> HIDE DEF f, new, t
    <3> QED BY <2>1, <3>1, <3>2
  <2> HIDE DEF f, x, t
  <2>3. new \in Places /\ new # Nobody
    BY <2>1, SessionIndexAssumption DEF At, Places
  <2>4. Fit(x, f, Ev("jumped", t), NoEffect) /\ Ev("jumped", t).kind = "jumped"
    BY <2>1, PlainFits
  <2> HIDE DEF new
  <2>5. After(x, f, q, Ev("jumped", t), NoEffect, new)
    BY <2>1, <2>3, <2>4, Emitting
  <2> HIDE DEF q
  <2>6. /\ Planned(x, q) /\ Quiet(q) /\ Added(q) = {new} /\ Turned(q) = Turned(f) /\ Reached(w, q) = new
    BY <2>1, <2>3, <2>4, <2>5, NoEffectIs DEF After
  <2>7. Good(w, q)
    BY <2>1, <2>6, GoodQuiet DEF x, new
  <2> QED BY <2>2, <2>7
<1> QED BY <1>1, <1>2, <1>3

\* Where a prompt finds itself.
LEMMA Writable ==
  ASSUME log \in Seq(Events), NEW w \in Minds, Placed(w), Grounded(Idx(w), log), RoomForSession, RoomForThread
  PROVE  LET q == EnsureWritable(w) IN
         /\ Planned(Idx(w), q) /\ Quiet(q) /\ Ended(q) = {}
         /\ \A v \in Tids : ~ToBackground(q, v)
         /\ \E s \in Sids, t \in Tids :
              /\ Reached(w, q) = At(s, t) /\ (Turned(q) = {} \/ Turned(q) = {At(t, "active")})
              /\ (Open(w, s) /\ w.sess[s].thread = t) \/ At(s, t) \in Added(q)
<1> DEFINE x == Idx(w)
           C == Continuations(w, w.act)
<1>0. w.act \in Sids /\ w.actT \in Tids /\ w.sess[w.act] # Nobody /\ w.sess[w.act].thread = w.actT /\ w.act # Nobody
  BY MindIs, NobodyIs DEF Placed
<1>1. CASE Open(w, w.act)
  <2> DEFINE none == <<>>
  <2>1. EnsureWritable(w) = none
    BY <1>1 DEF EnsureWritable
  <2>2. /\ Planned(x, none) /\ Quiet(none) /\ Ended(none) = {} /\ Turned(none) = {}
        /\ Reached(w, none) = At(w.act, w.actT)
    BY NonePlanned, SumsOfNone, ReachedNone
  <2> HIDE DEF none
  <2>3. \A v \in Tids : ~ToBackground(none, v)
    BY <2>2, TurnedBackground
  <2> QED BY <1>0, <1>1, <2>1, <2>2, <2>3
<1>2. CASE ~Open(w, w.act) /\ C # {}
  <2> DEFINE s == Newest(C)
             t == w.sess[s].thread
             q == SwitchToExisting(w, s, "never", TRUE)
  <2>1. EnsureWritable(w) = q
    BY <1>0, <1>2 DEF EnsureWritable
  <2>2. s \in C
    <3>1. C \in SUBSET Sids
      BY DEF Continuations, Known
    <3> HIDE DEF C
    <3> QED BY <1>2, <3>1, NewestOf
  <2>3. s \in Known(w) /\ Open(w, s)
    BY <2>2 DEF Continuations
  <2> HIDE DEF s
  <2>4. s \in Sids /\ t \in Tids
    BY <2>3, MindIs
  <2>5. /\ Planned(x, q) /\ Quiet(q) /\ Reached(w, q) = At(s, t)
        /\ Ended(q) = {} \/ (Ended(q) = {w.act} /\ "never" # "never")
        /\ Turned(q) = {} \/ Turned(q) = {At(t, "active")}
    BY <2>3, Switching
  <2> HIDE DEF q
  <2>6. \A v \in Tids : ~ToBackground(q, v)
    <3>1. \A v \in Tids : At(v, "background") # At(t, "active")
      BY DEF At
    <3> QED BY <2>5, <3>1, TurnedBackground
  <2> QED BY <2>1, <2>3, <2>4, <2>5, <2>6
<1>3. CASE ~Open(w, w.act) /\ C = {}
  <2> DEFINE opt == [NewThread("active") EXCEPT !.ctx = w.act, !.closeActive = FALSE]
             made == CreateSession(w, opt)
             new == At(FreshSid, FreshTid)
             q == made \o <<Emit(Ev("jumped", FreshTid), NoEffect, new), Save>>
  <2>1. OptOK(x, opt) /\ opt.thread = FreshTid /\ opt.status = "active" /\ opt.closeActive = FALSE
    <3>1. FreshTid \in Tids /\ x.thr[FreshTid] = Nobody
      BY FreshUnknown
    <3>2. /\ opt.thread = FreshTid /\ opt.status = "active" /\ opt.closeActive = FALSE /\ opt.ctx = w.act
          /\ opt.start = Len(log)
      BY DEF NewThread, InThread
    <3>3. Len(log) \in Nat /\ "active" \in Statuses
      BY DEF Statuses
    <3> HIDE DEF opt
    <3> QED BY <1>0, <3>1, <3>2, <3>3 DEF OptOK
  <2> HIDE DEF opt
  <2>2. EndsOf(w, opt) = Nobody
    BY <2>1 DEF EndsOf
  <2>3. /\ Planned(x, made) /\ Added(made) = {new} /\ Quiet(made) /\ Ended(made) = {}
        /\ Turned(made) = {At(FreshTid, "active")} /\ Reached(w, made) = new
        /\ FreshSid \in Sids /\ FreshTid \in Tids
    <3>1. Nobody # "active"
      BY SessionIndexAssumption DEF Statuses
    <3> HIDE DEF made
    <3> QED BY <2>1, <2>2, <3>1, CreatingAlone DEF made
  <2>4. EnsureWritable(w) = q
    <3>1. new.t = FreshTid
      BY DEF At
    <3>2. EnsureWritable(w) = made \o <<Emit(Ev("jumped", Reached(w, made).t), NoEffect, Reached(w, made)), Save>>
      BY <1>0, <1>3, Zenon DEF EnsureWritable, opt
    <3> HIDE DEF made, new
    <3> QED BY <2>3, <3>1, <3>2
  <2> HIDE DEF made
  <2>5. new \in Places /\ new # Nobody
    BY <2>3, SessionIndexAssumption DEF At, Places
  <2>6. Fit(x, made, Ev("jumped", FreshTid), NoEffect) /\ Ev("jumped", FreshTid).kind = "jumped"
    BY <2>3, PlainFits
  <2> HIDE DEF new, x
  <2>7. After(x, made, q, Ev("jumped", FreshTid), NoEffect, new)
    BY <2>3, <2>5, <2>6, Emitting
  <2> HIDE DEF q
  <2>8. /\ Planned(x, q) /\ Quiet(q) /\ Added(q) = {new} /\ Ended(q) = {} /\ Turned(q) = {At(FreshTid, "active")}
        /\ Reached(w, q) = new
    BY <2>3, <2>5, <2>6, <2>7, NoEffectIs DEF After
  <2>9. \A v \in Tids : ~ToBackground(q, v)
    <3>1. \A v \in Tids : At(v, "background") # At(FreshTid, "active")
      BY DEF At
    <3> QED BY <2>8, <3>1, TurnedBackground
  <2> QED BY <2>3, <2>4, <2>8, <2>9 DEF x, new
<1> QED BY <1>1, <1>2, <1>3

\* prompt: the message is the last step, in the session that is active and open then.
LEMMA GoodPrompt ==
  ASSUME log \in Seq(Events), NEW w \in Minds, Placed(w), Grounded(Idx(w), log), RoomForSession, RoomForThread
  PROVE  Good(w, PromptSteps(w))
<1> DEFINE x == Idx(w)
           f == EnsureWritable(w)
<1>1. /\ Planned(x, f) /\ Quiet(f) /\ Ended(f) = {}
      /\ \A v \in Tids : ~ToBackground(f, v)
      /\ \E s \in Sids, t \in Tids :
           /\ Reached(w, f) = At(s, t) /\ (Turned(f) = {} \/ Turned(f) = {At(t, "active")})
           /\ (Open(w, s) /\ w.sess[s].thread = t) \/ At(s, t) \in Added(f)
  BY Writable
<1>2. PICK s \in Sids, t \in Tids :
           /\ Reached(w, f) = At(s, t) /\ (Turned(f) = {} \/ Turned(f) = {At(t, "active")})
           /\ (Open(w, s) /\ w.sess[s].thread = t) \/ At(s, t) \in Added(f)
  BY <1>1
<1> DEFINE e == Ev("message", t)
           st == Emit(e, NoEffect, Nobody)
           q == f \o <<st>>
           r == At(s, t)
<1>3. PromptSteps(w) = q
  <2>1. r.t = t
    BY DEF At
  <2>2. PromptSteps(w) = f \o <<Emit(Ev("message", Reached(w, f).t), NoEffect, Nobody)>>
    BY Zenon DEF PromptSteps, Message
  <2> HIDE DEF f, r
  <2> QED BY <1>2, <2>1, <2>2 DEF r
<1> HIDE DEF f
<1>4. /\ r \in Places /\ r.s = s /\ r.t = t /\ s # Nobody
  BY NobodyIs DEF At, Places
<1>5. Fit(x, f, e, NoEffect) /\ e.kind = "message" /\ e.thread = t /\ e \in Events
  BY PlainFits
<1>6. st \in Steps /\ st.ev = e /\ st.do = NoEffect /\ st.act = Nobody /\ e # Nobody
  BY <1>5, StepsOf, NoEffectIs
<1> HIDE DEF e
<1>7. After(x, f, q, e, NoEffect, Nobody)
  BY <1>1, <1>5, Emitting
<1>8. /\ Planned(x, q) /\ Added(q) = Added(f) /\ Ended(q) = {} /\ Turned(q) = Turned(f)
      /\ Reached(w, q) = r
  <2> HIDE DEF q
  <2> QED BY <1>1, <1>2, <1>7, NoEffectIs DEF After
<1>9. q = Append(f, st) /\ f \in Seq(Steps)
  <2>1. f \in Seq(Steps)
    BY <1>1 DEF Planned
  <2> HIDE DEF st
  <2> QED BY <1>6, <2>1, Concats
<1> HIDE DEF st, q
<1>10. /\ Len(q) = Len(f) + 1 /\ Len(f) \in Nat /\ q[Len(f) + 1] = st
       /\ \A i \in 1 .. Len(f) : q[i] = f[i]
       /\ \A i \in 1 .. Len(f) + 1 : i = Len(f) + 1 \/ i \in 1 .. Len(f)
  BY <1>6, <1>9, Following
<1>11. Lands(x, q, r)
  <2>1. (x.sess[s] # Nobody /\ x.sess[s].thread = t) \/ At(s, t) \in Added(q)
    BY <1>2, <1>8 DEF Open, Known, Idx
  <2> HIDE DEF x
  <2> QED BY <2>1, LandsBy
<1>12. MessageLast(x, q, r)
  <2> SUFFICES ASSUME NEW i \in 1 .. Len(q), q[i].ev # Nobody, q[i].ev.kind = "message"
               PROVE  /\ i = Len(q) /\ q[i].act = Nobody /\ q[i].ev.thread = r.t
                      /\ Open(x, r.s) \/ \E j \in 1 .. Len(q) : q[j].do.adds = r.s
                      /\ \A j \in 1 .. Len(q) : q[j].do.ends # r.s
    BY DEF MessageLast
  <2>1. i = Len(f) + 1
    <3>1. i \in 1 .. Len(f) => f[i].ev # Nobody /\ f[i].ev.kind = "message"
      BY <1>10
    <3> QED BY <1>1, <1>10, <3>1 DEF Quiet
  <2>2. \A j \in 1 .. Len(q) : q[j].do.ends # r.s
    <3> SUFFICES ASSUME NEW j \in 1 .. Len(q), q[j].do.ends = s PROVE FALSE
      BY <1>4
    <3>1. s \in Ended(q)
      BY <1>4 DEF Ended
    <3> QED BY <1>8, <3>1
  <2>3. Open(x, r.s) \/ \E j \in 1 .. Len(q) : q[j].do.adds = r.s
    <3>1. CASE Open(w, s)
      BY <1>4, <3>1, MindIs
    <3>2. CASE At(s, t) \in Added(q)
      <4>1. PICK j \in 1 .. Len(q) : At(s, t) = At(q[j].do.adds, q[j].do.rec.thread)
        BY <3>2 DEF Added
      <4>2. q[j].do.adds = s
        BY <4>1 DEF At
      <4> QED BY <1>4, <4>2
    <3> QED BY <1>2, <1>8, <3>1, <3>2
  <2> HIDE DEF r
  <2> QED BY <1>4, <1>5, <1>6, <1>10, <2>1, <2>2, <2>3
<1>13. \A v \in Tids : ~ToBackground(q, v)
  <2> SUFFICES ASSUME NEW v \in Tids, ToBackground(q, v) PROVE FALSE
    OBVIOUS
  <2>1. PICK i \in 1 .. Len(q) : q[i].do.sets = v /\ q[i].do.status = "background"
    BY DEF ToBackground
  <2>2. i \in 1 .. Len(f)
    <3>1. i # Len(f) + 1
      BY <1>6, <1>10, <2>1, NoEffectIs, NobodyIs
    <3> QED BY <1>10, <3>1
  <2>3. ToBackground(f, v)
    BY <1>10, <2>1, <2>2 DEF ToBackground
  <2> QED BY <1>1, <2>3
<1>15. Wakes(w, q, r.t)
  BY <1>2, <1>4, <1>8, WakesBy
<1> HIDE DEF x, r
<1>14. Good(w, q)
  BY <1>8, <1>11, <1>12, <1>13, <1>15 DEF Good, x
<1> QED BY <1>3, <1>14

\* The last event of a kind is in the log, or there is none.
LEMMA LastOfIs ==
  ASSUME log \in Seq(Events), NEW k
  PROVE  LastOf(k) \in 0 .. Len(log)
<1> DEFINE I == {i \in DOMAIN log : log[i].kind = k}
<1>1. CASE I = {}
  BY <1>1 DEF LastOf
<1>2. CASE I # {}
  <2>1. I \in SUBSET (0 .. Len(log)) /\ Len(log) \in Nat
    OBVIOUS
  <2>2. LastOf(k) = Newest(I)
    BY <1>2 DEF LastOf
  <2> HIDE DEF I
  <2> QED BY <1>2, <2>1, <2>2, NewestIs
<1> QED BY <1>1, <1>2

\* splitSession.
LEMMA GoodSplit ==
  ASSUME log \in Seq(Events), NEW w \in Minds, Placed(w), Grounded(Idx(w), log), RoomForSession
  PROVE  Good(w, SplitSteps(w))
<1>1. CASE LastOf("message") # 0 /\ LastOf("boundary") > LastOf("message")
  <2>1. SplitSteps(w) = <<>>
    BY <1>1 DEF SplitSteps
  <2> QED BY <2>1, GoodStay
<1>2. CASE ~(LastOf("message") # 0 /\ LastOf("boundary") > LastOf("message"))
  <2> DEFINE x == Idx(w)
             t == w.actT
             opt == [InThread(t) EXCEPT !.start = IF LastOf("message") = 0 THEN @ ELSE LastOf("message") - 1]
             made == CreateSession(w, opt)
             q == made \o <<Emit(Ev("boundary", t), NoEffect, Nobody)>>
  <2>1. SplitSteps(w) = q
    BY <1>2, Zenon DEF SplitSteps
  <2>2. t \in Tids
    BY MindIs DEF Placed
  <2>3. OptOK(x, opt) /\ opt.thread = t /\ opt.status = Nobody
    <3> DEFINE start == IF LastOf("message") = 0 THEN Len(log) ELSE LastOf("message") - 1
    <3>1. start \in Nat /\ start <= Len(log)
      BY LastOfIs
    <3> HIDE DEF start
    <3>2. /\ opt.thread = t /\ opt.status = Nobody /\ opt.ctx = Nobody
          /\ opt.start = start
      BY DEF InThread, start
    <3> HIDE DEF opt
    <3> QED BY <2>2, <3>1, <3>2 DEF OptOK
  <2> HIDE DEF opt, t
  <2>4. /\ Planned(x, made) /\ Added(made) = {At(FreshSid, t)} /\ Quiet(made) /\ Turned(made) = {}
        /\ Reached(w, made) = At(FreshSid, t) /\ FreshSid \in Sids
    BY <2>3, CreatingAlone
  <2> HIDE DEF made, x
  <2>5. Fit(x, made, Ev("boundary", t), NoEffect) /\ Ev("boundary", t).kind = "boundary"
    BY <2>2, PlainFits
  <2>6. After(x, made, q, Ev("boundary", t), NoEffect, Nobody)
    BY <2>4, <2>5, Emitting
  <2> HIDE DEF q
  <2>7. /\ Planned(x, q) /\ Quiet(q) /\ Added(q) = {At(FreshSid, t)} /\ Turned(q) = {} /\ Reached(w, q) = At(FreshSid, t)
    BY <2>4, <2>5, <2>6, NoEffectIs DEF After
  <2>8. Good(w, q)
    BY <2>2, <2>4, <2>7, GoodQuiet DEF x
  <2> QED BY <2>1, <2>8
<1> QED BY <1>1, <1>2

\* Every one but createSession for a scheduled run leaves where it leads known.
LEMMA GoodUseThread ==
  ASSUME log \in Seq(Events), NEW w \in Minds, Grounded(Idx(w), log), RoomForSession, NEW t \in Tids
  PROVE  Good(w, UseThread(w, t))
<1> DEFINE O == {s \in Known(w) : Open(w, s) /\ w.sess[s].thread = t}
           opt == [InThread(t) EXCEPT !.closeActive = FALSE]
<1>0. /\ opt.thread = t /\ opt.status = Nobody /\ opt.ctx = Nobody /\ opt.start = Len(log)
      /\ Len(log) \in Nat
  BY DEF InThread
<1>1. CASE w.thr[t] = Nobody
  <2> DEFINE o == [opt EXCEPT !.status = "active"]
  <2>1. UseThread(w, t) = CreateSession(w, o)
    BY <1>1, Zenon DEF UseThread
  <2>2. o.thread = t /\ o.status = "active" /\ o.ctx = Nobody /\ o.start = Len(log)
    BY DEF InThread
  <2> HIDE DEF o, opt
  <2>3. OptOK(Idx(w), o)
    BY <1>0, <1>1, <2>2 DEF OptOK, Idx, Statuses
  <2> QED BY <2>1, <2>2, <2>3, GoodCreate
<1>2. CASE w.thr[t] # Nobody /\ O # {}
  <2>1. UseThread(w, t) = SwitchTo(w, Newest(O))
    BY <1>2 DEF UseThread
  <2>2. Newest(O) \in O
    <3>1. O \in SUBSET Sids
      BY DEF Known
    <3> HIDE DEF O
    <3> QED BY <1>2, <3>1, NewestOf
  <2>3. Newest(O) \in Known(w)
    BY <2>2
  <2> HIDE DEF O
  <2> QED BY <2>1, <2>3, GoodSwitchTo
<1>3. CASE w.thr[t] # Nobody /\ O = {}
  <2>1. UseThread(w, t) = CreateSession(w, opt)
    BY <1>3, Zenon DEF UseThread
  <2> HIDE DEF opt
  <2>2. OptOK(Idx(w), opt)
    BY <1>0 DEF OptOK
  <2> QED BY <1>0, <2>1, <2>2, GoodCreate
<1> QED BY <1>1, <1>2, <1>3

\* newSession.
LEMMA GoodInThread ==
  ASSUME log \in Seq(Events), NEW w \in Minds, Grounded(Idx(w), log), RoomForSession, NEW t \in Tids
  PROVE  Good(w, CreateSession(w, InThread(t)))
<1> DEFINE o == InThread(t)
<1>1. OptOK(Idx(w), o) /\ o.status = Nobody
  BY InThreadOK
<1> HIDE DEF o
<1>2. Good(w, CreateSession(w, o))
  BY <1>1, GoodCreate
<1> QED BY <1>2 DEF o

\* getActiveSession, when there is none: it is not a background thread.
LEMMA GoodEnsure ==
  ASSUME log \in Seq(Events), NEW w \in Minds, Grounded(Idx(w), log), RoomForSession,
         NEW t \in Tids \cup {Nobody}, t = Nobody => RoomForThread, t # Nobody => w.thr[t] = "active"
  PROVE  LET q == EnsureActive(w, t) IN
         /\ Good(w, q) /\ Reached(w, q).t \in Tids /\ w.thr[Reached(w, q).t] # "background"
<1>1. ASSUME NEW o, OptOK(Idx(w), o), o.status \in {Nobody, "active"}, w.thr[o.thread] # "background",
             EnsureActive(w, t) = CreateSession(w, o)
      PROVE  LET q == EnsureActive(w, t) IN
             /\ Good(w, q) /\ Reached(w, q).t \in Tids /\ w.thr[Reached(w, q).t] # "background"
  <2>1. Good(w, CreateSession(w, o)) /\ Reached(w, CreateSession(w, o)) = At(FreshSid, o.thread)
    BY <1>1, GoodCreate
  <2>2. At(FreshSid, o.thread).t = o.thread /\ o.thread \in Tids
    BY <1>1 DEF At, OptOK
  <2> QED BY <1>1, <2>1, <2>2
<1>2. CASE t = Nobody
  <2> DEFINE o == NewThread("active")
  <2>1. OptOK(Idx(w), o) /\ o.status = "active" /\ o.thread = FreshTid
    BY <1>2, NewThreadOK DEF Statuses
  <2>2. w.thr[FreshTid] = Nobody /\ Nobody # "background"
    BY <1>2, FreshUnknown, SessionIndexAssumption DEF Idx, Statuses
  <2>3. EnsureActive(w, t) = CreateSession(w, o)
    BY <1>2 DEF EnsureActive
  <2> HIDE DEF o
  <2> QED BY <1>1, <2>1, <2>2, <2>3
<1>3. CASE t # Nobody
  <2> DEFINE o == InThread(t)
  <2>1. OptOK(Idx(w), o) /\ o.status = Nobody /\ o.thread = t
    BY <1>3, InThreadOK
  <2>2. EnsureActive(w, t) = CreateSession(w, o)
    BY <1>3 DEF EnsureActive
  <2> HIDE DEF o
  <2> QED BY <1>1, <1>3, <2>1, <2>2
<1> QED BY <1>2, <1>3

------------------------------------------------------------------------------
(* The operations keep the invariant.                                      *)

\* A process between two operations is in a session; when no scheduled run is under way, in
\* a background thread only by its user.
LEMMA IdleIs ==
  ASSUME IndexInv, NEW p \in Procs, Idle(p)
  PROVE  /\ mem[p] \in Minds /\ Grounded(Idx(mem[p]), log) /\ Placed(mem[p]) /\ log \in Seq(Events)
         /\ mem[p].up
         /\ task[p] = Nobody => (mem[p].thr[mem[p].actT] = "background" => mem[p].actT \in seen)
         /\ task[p] # Nobody => BackOK(Idx(mem[p]), <<>>, task[p])
<1> DEFINE m == mem[p]
           x == Idx(m)
           none == <<>>
<1>1. m \in Minds /\ log \in Seq(Events) /\ x.sess = m.sess /\ x.thr = m.thr
  BY Typed
<1>2. m.up /\ plan[p] = none
  BY DEF Idle
<1>3. Reached(m, none) = At(m.act, m.actT)
  BY ReachedNone
<1> HIDE DEF none, m
<1>4. /\ Grounded(x, log) /\ Lands(x, none, At(m.act, m.actT))
      /\ IF task[p] = Nobody THEN ChatOK(x, none, At(m.act, m.actT)) ELSE BackOK(x, none, task[p])
  BY <1>2, <1>3 DEF IndexInv, ProcessInv, m
<1>5. At(m.act, m.actT).s = m.act /\ At(m.act, m.actT).t = m.actT
  BY DEF At
<1>6. m.act \in Sids /\ m.actT \in Tids /\ x.sess[m.act] # Nobody /\ x.sess[m.act].thread = m.actT
  BY <1>4, <1>5 DEF Lands, Places, none
<1>7. Placed(m)
  BY <1>1, <1>6 DEF Placed, Known
<1>8. task[p] = Nobody => (m.thr[m.actT] = "background" => m.actT \in seen)
  BY <1>1, <1>4, <1>5 DEF ChatOK
<1> QED BY <1>1, <1>2, <1>4, <1>7, <1>8 DEF m, none

\* A new plan of a process.
LEMMA NewPlan ==
  ASSUME IndexInv, NEW p \in Procs, mem[p].up, NEW pl, Planned(Idx(mem[p]), pl),
         Lands(Idx(mem[p]), pl, Reached(mem[p], pl)), MessageLast(Idx(mem[p]), pl, Reached(mem[p], pl)),
         NEW tk \in Runs \cup {Nobody},
         IF tk = Nobody
         THEN (\A t \in Tids : ~ToBackground(pl, t)) /\
              (mem[p].thr[Reached(mem[p], pl).t] = "background" => Reached(mem[p], pl).t \in seen')
         ELSE /\ tk.back \in Sids /\ mem[p].sess[tk.back] # Nobody
              /\ LET t == mem[p].sess[tk.back].thread
                 IN  mem[p].thr[t] = "background" \/ ToBackground(pl, t) => t \in seen',
         plan' = [plan EXCEPT ![p] = pl], task' = [task EXCEPT ![p] = tk],
         seen \subseteq seen', seen' \subseteq Tids, UNCHANGED <<log, snap, mem, head, home, runs, loosed, crashes>>
  PROVE  IndexInv'
<1>0. TypeOK /\ LogOK(log) /\ Grounded(Idx(snap), log) /\ \A q \in Procs : ProcessInv(q)
  BY DEF IndexInv
<1>1. TypeOK'
  <2>1. plan' \in [Procs -> Seq(Steps)] /\ task' \in [Procs -> Runs \cup {Nobody}]
    BY <1>0 DEF TypeOK, Planned
  <2> QED BY <1>0, <2>1 DEF TypeOK
<1>2. LogOK(log)' /\ Grounded(Idx(snap), log)'
  BY <1>0
<1>3. ProcessInv(p)'
  <2>1. plan'[p] = pl /\ task'[p] = tk /\ mem'[p] = mem[p] /\ log' = log
    BY <1>0 DEF TypeOK
  <2> DEFINE x == Idx(mem[p])
             r == Reached(mem[p], pl)
  <2>2. Grounded(x, log) /\ mem[p].up /\ PlanOK(x, pl, Len(log)) /\ Lands(x, pl, r) /\ MessageLast(x, pl, r)
    BY <1>0 DEF ProcessInv, Planned
  <2>3. tk = Nobody => ChatOK(Idx(mem[p]), plan[p], Reached(mem[p], plan[p]))'
    BY <2>1 DEF ChatOK, Idx
  <2>4. tk # Nobody => BackOK(Idx(mem[p]), plan[p], task[p])'
    BY <2>1 DEF BackOK, Idx
  <2> HIDE DEF x, r
  <2> QED BY <2>1, <2>2, <2>3, <2>4 DEF ProcessInv, x, r
<1>4. ASSUME NEW q \in Procs, q # p PROVE ProcessInv(q)'
  <2>1. mem'[q] = mem[q] /\ plan'[q] = plan[q] /\ task'[q] = task[q] /\ log' = log
    BY <1>0, <1>4 DEF TypeOK
  <2>2. log \in Seq(Events) /\ Len(log) <= Len(log)
    BY <1>0 DEF TypeOK
  <2> QED BY <2>1, <2>2, OtherStays
<1> QED BY <1>1, <1>2, <1>3, <1>4 DEF IndexInv

\* A command or a history tool with a good plan keeps the invariant.
LEMMA ToolKeeps ==
  ASSUME IndexInv, NEW p \in Procs, NEW pl, AgentTool(p, pl), Good(mem[p], pl)
  PROVE  IndexInv'
<1> DEFINE r == Reached(mem[p], pl)
<1>1. /\ Idle(p) /\ plan' = [plan EXCEPT ![p] = pl]
      /\ seen' = IF task[p] = Nobody THEN seen \cup {r.t} ELSE seen
      /\ UNCHANGED <<log, snap, mem, head, task, home, runs, loosed, crashes>>
  BY DEF AgentTool, Do
<1>2. /\ mem[p].up /\ Planned(Idx(mem[p]), pl) /\ Lands(Idx(mem[p]), pl, r) /\ MessageLast(Idx(mem[p]), pl, r)
      /\ \A t \in Tids : ~ToBackground(pl, t)
  BY <1>1, IdleIs DEF Good
<1>3. r.t \in Tids
  BY <1>2 DEF Lands, Places
<1>4. seen \subseteq seen' /\ seen' \subseteq Tids
  BY <1>1, <1>3 DEF IndexInv, TypeOK
<1>5. task[p] \in Runs \cup {Nobody} /\ task' = [task EXCEPT ![p] = task[p]]
  BY <1>1 DEF IndexInv, TypeOK
<1>6. IF task[p] = Nobody
      THEN (\A t \in Tids : ~ToBackground(pl, t)) /\
           (mem[p].thr[r.t] = "background" => r.t \in seen')
      ELSE /\ task[p].back \in Sids /\ mem[p].sess[task[p].back] # Nobody
           /\ LET t == mem[p].sess[task[p].back].thread
              IN  mem[p].thr[t] = "background" \/ ToBackground(pl, t) => t \in seen'
  <2>1. CASE task[p] = Nobody
    BY <1>1, <1>2, <2>1
  <2>2. CASE task[p] # Nobody
    <3>1. BackOK(Idx(mem[p]), <<>>, task[p])
      BY <1>1, <2>2, IdleIs
    <3> DEFINE b == task[p].back
    <3>2. /\ b \in Sids /\ mem[p].sess[b] # Nobody
          /\ mem[p].thr[mem[p].sess[b].thread] = "background" => mem[p].sess[b].thread \in seen
      BY <3>1 DEF BackOK, Idx
    <3>3. mem[p].sess[b].thread \in Tids
      <4>1. b \in Known(mem[p]) /\ mem[p] \in Minds
        BY <3>2, Typed DEF Known
      <4> QED BY <4>1, MindIs
    <3> QED BY <1>1, <1>2, <2>2, <3>2, <3>3
  <2> QED BY <2>1, <2>2
<1> HIDE DEF r
<1> QED BY <1>1, <1>2, <1>4, <1>5, <1>6, NewPlan DEF r

\* The start of a scheduled run keeps the invariant when it leaves the thread the run must
\* go back to alone.
LEMMA RunKeeps ==
  ASSUME IndexInv, NEW p \in Procs, NEW pl, NEW close \in {"always", "same-thread", "never"},
         RunScheduled(p, pl, close), Planned(Idx(mem[p]), pl), Quiet(pl),
         Lands(Idx(mem[p]), pl, Reached(mem[p], pl)),
         ~ToBackground(pl, mem[p].actT)
  PROVE  IndexInv'
<1> DEFINE tk == [back |-> mem[p].act, close |-> close]
<1>1. /\ Idle(p) /\ task[p] = Nobody /\ plan' = [plan EXCEPT ![p] = pl]
      /\ task' = [task EXCEPT ![p] = tk]
      /\ UNCHANGED <<log, snap, mem, head, home, seen, runs, loosed, crashes>>
  BY DEF RunScheduled, Do
<1>2. /\ mem[p].up /\ mem[p] \in Minds /\ Placed(mem[p])
      /\ mem[p].thr[mem[p].actT] = "background" => mem[p].actT \in seen
  BY <1>1, IdleIs
<1>3. mem[p].act \in Sids /\ mem[p].sess[mem[p].act] # Nobody /\ mem[p].sess[mem[p].act].thread = mem[p].actT
  BY <1>2, MindIs DEF Placed
<1>4. tk \in Runs /\ tk # Nobody /\ tk.back = mem[p].act
  BY <1>3, SessionIndexAssumption DEF Runs
<1>5. MessageLast(Idx(mem[p]), pl, Reached(mem[p], pl))
  BY DEF MessageLast, Quiet
<1>6. seen \subseteq seen' /\ seen' \subseteq Tids
  BY <1>1 DEF IndexInv, TypeOK
<1> HIDE DEF tk
<1>7. IF tk = Nobody
      THEN (\A t \in Tids : ~ToBackground(pl, t)) /\
           (mem[p].thr[Reached(mem[p], pl).t] = "background" => Reached(mem[p], pl).t \in seen')
      ELSE /\ tk.back \in Sids /\ mem[p].sess[tk.back] # Nobody
           /\ LET t == mem[p].sess[tk.back].thread
              IN  mem[p].thr[t] = "background" \/ ToBackground(pl, t) => t \in seen'
  BY <1>1, <1>2, <1>3, <1>4
<1> QED BY <1>1, <1>2, <1>4, <1>5, <1>6, <1>7, NewPlan

\* The end of a scheduled run keeps the invariant: the chat is back where it was.
LEMMA EndKeeps ==
  ASSUME IndexInv, NEW p \in Procs, ScheduleEnds(p)
  PROVE  IndexInv'
<1>1. /\ Idle(p) /\ task[p] # Nobody /\ task' = [task EXCEPT ![p] = Nobody]
      /\ UNCHANGED <<log, snap, mem, head, home, seen, runs, loosed, crashes>>
  BY DEF ScheduleEnds
<1>2. BackOK(Idx(mem[p]), <<>>, task[p]) /\ mem[p] \in Minds /\ log \in Seq(Events) /\ mem[p].up
  BY <1>1, IdleIs
<1> DEFINE b == task[p].back
           t == mem[p].sess[b].thread
           pl == SwitchToExisting(mem[p], b, task[p].close, TRUE)
<1>3. /\ b \in Sids /\ mem[p].sess[b] # Nobody /\ b # Nobody
      /\ mem[p].thr[t] = "background" => t \in seen
  BY <1>2, NobodyIs DEF BackOK, Idx
<1>4. b \in Known(mem[p])
  BY <1>3 DEF Known
<1>5. plan' = [plan EXCEPT ![p] = pl]
  BY <1>3 DEF ScheduleEnds, Do
<1>6. Good(mem[p], pl) /\ Reached(mem[p], pl) = At(b, t)
  BY <1>2, <1>4, GoodSwitch, Switching
<1>7. At(b, t).t = t
  <2> HIDE DEF b, t
  <2> QED BY DEF At
<1>8. seen \subseteq seen' /\ seen' \subseteq Tids /\ seen' = seen
  BY <1>1 DEF IndexInv, TypeOK
<1> HIDE DEF pl, b, t
<1>9. IF Nobody = Nobody
      THEN (\A v \in Tids : ~ToBackground(pl, v)) /\
           (mem[p].thr[Reached(mem[p], pl).t] = "background" => Reached(mem[p], pl).t \in seen')
      ELSE TRUE
  <2>1. Reached(mem[p], pl).t = t
    BY <1>6, <1>7
  <2> QED BY <1>3, <1>6, <2>1, <1>8 DEF Good, t, b
<1>10. /\ Planned(Idx(mem[p]), pl) /\ Lands(Idx(mem[p]), pl, Reached(mem[p], pl))
       /\ MessageLast(Idx(mem[p]), pl, Reached(mem[p], pl))
  BY <1>6 DEF Good
<1> QED BY <1>1, <1>2, <1>5, <1>8, <1>9, <1>10, NewPlan

\* The commands and the history tools of the agent leave plans that are sound.
LEMMA ToolsAre ==
  ASSUME IndexInv, NEW p \in Procs,
         NewSession(p) \/ Rewind(p) \/ Switch(p) \/ Fork(p) \/ Jump(p) \/ Split(p) \/ Rename(p) \/ Prompt(p)
  PROVE  \E pl : AgentTool(p, pl) /\ Good(mem[p], pl)
<1> DEFINE m == mem[p]
<1>1. ASSUME NEW pl, AgentTool(p, pl)
      PROVE  m \in Minds /\ Placed(m) /\ Grounded(Idx(m), log) /\ log \in Seq(Events)
  BY <1>1, IdleIs DEF AgentTool
<1>2. ASSUME NEW pl, Command(p, pl) PROVE AgentTool(p, pl)
  BY <1>2 DEF Command
<1> HIDE DEF m
<1>3. ASSUME m \in Minds, Placed(m) PROVE m.act \in Known(m) /\ m.actT \in Tids
  BY <1>3, MindIs DEF Placed
<1>4. ASSUME NEW pl, AgentTool(p, pl), Good(m, pl) PROVE \E q : AgentTool(p, q) /\ Good(mem[p], q)
  BY <1>4 DEF m
<1>5. CASE NewSession(p)
  <2>1. RoomForSession /\ AgentTool(p, CreateSession(m, InThread(m.actT)))
    BY <1>5, <1>2 DEF NewSession, m
  <2>2. Good(m, CreateSession(m, InThread(m.actT)))
    BY <2>1, <1>1, <1>3, GoodInThread
  <2> QED BY <2>1, <2>2, <1>4
<1>6. CASE Rewind(p)
  <2>1. PICK pos \in DOMAIN log : RoomForSession /\ AgentTool(p, ForkAt(m, pos))
    BY <1>6, <1>2 DEF Rewind, m
  <2>2. Good(m, ForkAt(m, pos))
    BY <2>1, <1>1, <1>3, GoodForkAt
  <2> QED BY <2>1, <2>2, <1>4
<1>7. CASE Switch(p)
  <2>1. PICK s \in Known(m) :
          LET C == Continuations(m, s)
              target == IF Open(m, s) \/ C = {} THEN s ELSE Newest(C)
          IN  \E to \in {s, target} : AgentTool(p, SwitchToExisting(m, to, "same-thread", FALSE))
    BY <1>7, <1>2 DEF Switch, m
  <2> DEFINE C == Continuations(m, s)
  <2>2. C \subseteq Known(m) /\ C \subseteq Sids
    BY DEF Continuations, Known
  <2>3. C # {} => Newest(C) \in Known(m)
    BY <2>2, NewestOf
  <2>4. PICK to \in Known(m) : AgentTool(p, SwitchToExisting(m, to, "same-thread", FALSE))
    BY <2>1, <2>3
  <2>5. Good(m, SwitchToExisting(m, to, "same-thread", FALSE))
    BY <2>4, <1>1, GoodSwitch
  <2> QED BY <2>4, <2>5, <1>4
<1>8. CASE Fork(p)
  <2>1. PICK s \in Known(m) : RoomForSession /\ AgentTool(p, ForkFromSession(m, s, FALSE))
    BY <1>8 DEF Fork, m
  <2>2. Good(m, ForkFromSession(m, s, FALSE))
    BY <2>1, <1>1, GoodFork
  <2> QED BY <2>1, <2>2, <1>4
<1>9. CASE Jump(p)
  <2>1. PICK s \in Known(m) : RoomForSession /\ AgentTool(p, JumpTo(m, s))
    BY <1>9 DEF Jump, m
  <2>2. Good(m, JumpTo(m, s))
    BY <2>1, <1>1, GoodJump
  <2> QED BY <2>1, <2>2, <1>4
<1>10. CASE Split(p)
  <2>1. RoomForSession /\ AgentTool(p, SplitSteps(m))
    BY <1>10 DEF Split, m
  <2>2. Good(m, SplitSteps(m))
    BY <2>1, <1>1, GoodSplit
  <2> QED BY <2>1, <2>2, <1>4
<1>11. CASE Rename(p)
  <2> DEFINE pl(s) == <<Emit([Ev("renamed", m.sess[s].thread) EXCEPT !.sid = s],
                        [NoEffect EXCEPT !.names = s], Nobody), Save>>
  <2>1. PICK s \in Known(m) : AgentTool(p, pl(s))
    BY <1>11 DEF Rename, m
  <2>2. Good(m, pl(s))
    BY <2>1, <1>1, GoodRename
  <2> QED BY <2>1, <2>2, <1>4
<1>12. CASE Prompt(p)
  <2>1. RoomForSession /\ RoomForThread /\ AgentTool(p, PromptSteps(m))
    BY <1>12 DEF Prompt, m
  <2>2. Good(m, PromptSteps(m))
    BY <2>1, <1>1, GoodPrompt
  <2> QED BY <2>1, <2>2, <1>4
<1> QED BY <1>5, <1>6, <1>7, <1>8, <1>9, <1>10, <1>11, <1>12

\* They keep the invariant.
LEMMA ToolsKeep ==
  ASSUME IndexInv, NEW p \in Procs,
         NewSession(p) \/ Rewind(p) \/ Switch(p) \/ Fork(p) \/ Jump(p) \/ Split(p) \/ Rename(p) \/ Prompt(p)
  PROVE  IndexInv'
<1>1. PICK pl : AgentTool(p, pl) /\ Good(mem[p], pl)
  BY ToolsAre
<1> QED BY <1>1, ToolKeeps

\* The start of a scheduled run keeps the invariant.
LEMMA SchedulesKeep ==
  ASSUME IndexInv, NEW p \in Procs, ScheduleNew(p) \/ SchedulePinned(p)
  PROVE  IndexInv'
<1> DEFINE m == mem[p]
<1>1. ASSUME NEW pl, NEW close, RunScheduled(p, pl, close)
      PROVE  m \in Minds /\ Placed(m) /\ Grounded(Idx(m), log) /\ log \in Seq(Events)
  BY <1>1, IdleIs DEF RunScheduled
<1> HIDE DEF m
<1>2. ASSUME m \in Minds, Placed(m) PROVE m.act \in Known(m) /\ m.sess[m.act].thread = m.actT /\ m.actT \in Tids
  BY <1>2, MindIs DEF Placed
<1>3. CASE ScheduleNew(p)
  <2> DEFINE o == NewThread("background")
             pl == CreateSession(m, o)
  <2>1. RoomForSession /\ RoomForThread /\ RunScheduled(p, pl, "always")
    BY <1>3 DEF ScheduleNew, m
  <2>2. m \in Minds /\ Placed(m) /\ Grounded(Idx(m), log) /\ log \in Seq(Events)
    BY <2>1, <1>1
  <2>3. OptOK(Idx(m), o) /\ o.status = "background" /\ o.thread = FreshTid
    BY <2>1, <2>2, NewThreadOK DEF Statuses
  <2> HIDE DEF o
  <2>4. /\ Planned(Idx(m), pl) /\ Added(pl) = {At(FreshSid, FreshTid)} /\ Quiet(pl)
        /\ Turned(pl) = {} \/ Turned(pl) = {At(FreshTid, "background")}
        /\ Reached(m, pl) = At(FreshSid, FreshTid) /\ FreshSid \in Sids /\ FreshTid \in Tids
    BY <2>1, <2>2, <2>3, CreatingAlone
  <2>5. FreshTid # m.actT
    BY <2>1, <2>2, <1>2, FreshUnknown, MindIs
  <2> HIDE DEF pl
  <2>6. ~ToBackground(pl, m.actT)
    <3>1. ASSUME At(m.actT, "background") \in Turned(pl) PROVE FALSE
      <4>1. At(m.actT, "background") = At(FreshTid, "background")
        BY <2>4, <3>1
      <4> QED BY <4>1, <2>5 DEF At
    <3> QED BY <3>1, <1>2, <2>2, TurnedBackground
  <2>7. Lands(Idx(m), pl, Reached(m, pl))
    <3>1. At(FreshSid, FreshTid) \in Added(pl)
      BY <2>4
    <3>2. Lands(Idx(m), pl, At(FreshSid, FreshTid))
      BY <2>4, <3>1, LandsBy
    <3> QED BY <2>4, <3>2
  <2> QED BY <2>1, <2>4, <2>6, <2>7, RunKeeps DEF m
<1>4. CASE SchedulePinned(p)
  <2>1. PICK s \in Known(m) : RunScheduled(p, SwitchToExisting(m, s, "never", TRUE), "never")
    BY <1>4 DEF SchedulePinned, m
  <2> DEFINE pl == SwitchToExisting(m, s, "never", TRUE)
  <2>2. m \in Minds /\ Placed(m) /\ Grounded(Idx(m), log) /\ log \in Seq(Events)
    BY <2>1, <1>1
  <2>3. Good(m, pl) /\ Quiet(pl)
    BY <2>2, GoodSwitch, Switching
  <2>4. m.actT \in Tids
    BY <2>2, <1>2
  <2> HIDE DEF pl
  <2>5. RunScheduled(p, pl, "never")
    BY <2>1 DEF pl
  <2> QED BY <2>3, <2>4, <2>5, RunKeeps DEF m, Good
<1> QED BY <1>3, <1>4

\* The death of a process keeps the invariant.
LEMMA CrashKeeps ==
  ASSUME IndexInv, NEW p \in Procs, Crash(p)
  PROVE  IndexInv'
<1>1. /\ mem' = [mem EXCEPT ![p] = Down] /\ plan' = [plan EXCEPT ![p] = <<>>]
      /\ task' = [task EXCEPT ![p] = Nobody] /\ crashes' = crashes + 1
      /\ UNCHANGED <<log, snap, head, home, seen, runs, loosed>>
  BY DEF Crash
<1>2. EmptyIndex \in Index /\ Grounded(EmptyIndex, log)
  BY EmptyGrounded
<1>3. Down \in Minds /\ Idx(Down) = EmptyIndex /\ Down.up = FALSE
  BY <1>2 DEF Down, Minds, Idx, EmptyIndex, Index
<1>4. TypeOK /\ LogOK(log) /\ Grounded(Idx(snap), log) /\ \A q \in Procs : ProcessInv(q)
  BY DEF IndexInv
<1>5. TypeOK'
  <2>1. mem' \in [Procs -> Minds] /\ plan' \in [Procs -> Seq(Steps)] /\ task' \in [Procs -> Runs \cup {Nobody}]
    BY <1>1, <1>3, <1>4 DEF TypeOK
  <2>2. crashes' \in Nat
    BY <1>1, <1>4 DEF TypeOK
  <2> QED BY <1>1, <1>4, <2>1, <2>2 DEF TypeOK
<1>6. ProcessInv(p)'
  <2>1. mem'[p] = Down /\ plan'[p] = <<>> /\ task'[p] = Nobody /\ log' = log
    BY <1>1, <1>4 DEF TypeOK
  <2>2. Grounded(Idx(mem'[p]), log') /\ ~mem'[p].up
    BY <2>1, <1>2, <1>3
  <2> QED BY <2>1, <2>2 DEF ProcessInv
<1>7. ASSUME NEW q \in Procs, q # p PROVE ProcessInv(q)'
  <2>1. mem'[q] = mem[q] /\ plan'[q] = plan[q] /\ task'[q] = task[q] /\ log' = log /\ seen' = seen
    BY <1>1, <1>4, <1>7 DEF TypeOK
  <2>2. log \in Seq(Events) /\ Len(log) <= Len(log)
    BY <1>4 DEF TypeOK
  <2> QED BY <2>1, <2>2, OtherStays
<1>8. (LogOK(log) /\ Grounded(Idx(snap), log))'
  BY <1>1, <1>4
<1> QED BY <1>5, <1>6, <1>7, <1>8 DEF IndexInv

------------------------------------------------------------------------------
(* Start.                                                                  *)

\* _selectActiveFromIndex selects an interactive thread, and a session of it.
LEMMA ActiveIs ==
  ASSUME NEW x \in Index
  PROVE  LET t == ActiveThread(x)
             s == ActiveSession(x)
         IN  /\ t \in Tids \cup {Nobody} /\ s \in Sids \cup {Nobody}
             /\ t # Nobody => x.thr[t] = "active"
             /\ s # Nobody => t # Nobody /\ x.sess[s] # Nobody /\ x.sess[s].thread = t
<1> DEFINE T == {t \in Listed : Interactive(x)[t]}
           S == {s \in Known(x) : x.sess[s].thread \in T}
           A == {s \in Known(x) : Open(x, s) /\ x.sess[s].thread = ActiveThread(x)}
<1>0. Listed \subseteq Tids
  BY DEF Listed
<1>1. \A t \in T : t \in Tids /\ x.thr[t] = "active"
  BY <1>0 DEF Interactive
<1>2. S \in SUBSET Sids /\ A \in SUBSET Sids /\ Known(x) \subseteq Sids
  BY DEF Known
<1>3. T # {} => Newest(T) \in T
  <2>1. MaxThreads \in Nat /\ T \in SUBSET (0 .. MaxThreads)
    <3>1. T \subseteq Tids
      BY <1>0
    <3> HIDE DEF T
    <3> QED BY <3>1, SessionIndexAssumption DEF Tids
  <2> HIDE DEF T
  <2> QED BY <2>1, NewestIs
<1>4. (S # {} => Newest(S) \in S) /\ (A # {} => Newest(A) \in A)
  <2> HIDE DEF S, A
  <2> QED BY <1>2, NewestOf
<1>5. ActiveThread(x) = IF S # {} THEN x.sess[Newest(S)].thread ELSE IF T # {} THEN Newest(T) ELSE Nobody
  BY DEF ActiveThread
<1>6. ActiveSession(x) = IF A # {} THEN Newest(A) ELSE Nobody
  BY DEF ActiveSession
<1>7. ActiveThread(x) \in T \/ ActiveThread(x) = Nobody
  <2>1. S # {} => x.sess[Newest(S)].thread \in T
    BY <1>4
  <2> HIDE DEF S, T
  <2> QED BY <1>3, <1>5, <2>1
<1>8. ActiveSession(x) # Nobody => ActiveSession(x) \in A
  <2> HIDE DEF A
  <2> QED BY <1>4, <1>6
<1>9. \A s \in A : x.sess[s] # Nobody /\ x.sess[s].thread = ActiveThread(x) /\ s \in Sids
  BY <1>2 DEF Known
<1>10. \A s \in A : x.sess[s].thread \in Tids /\ x.sess[s].thread # Nobody
  <2>1. ASSUME NEW s \in A PROVE x.sess[s].thread \in Tids
    <3>1. x.sess[s] \in Sessions
      BY <1>9 DEF Index, Tables
    <3> QED BY <3>1 DEF Sessions
  <2> QED BY <2>1, NobodyIs
<1> HIDE DEF T, S, A
<1> QED BY <1>1, <1>7, <1>8, <1>9, <1>10

\* What a start loads is an index that is in the log.
LEMMA LoadedIs ==
  ASSUME IndexInv
  PROVE  Loaded \in Index /\ Grounded(Loaded, log)
<1>1. TypeOK /\ LogOK(log) /\ Grounded(Idx(snap), log)
  BY DEF IndexInv
<1>2. log \in Seq(Events) /\ snap.mark \in Nat /\ Idx(snap) \in Index
  BY <1>1 DEF TypeOK, Idx, Index
<1>3. EmptyIndex \in Index /\ Grounded(EmptyIndex, log)
  BY EmptyGrounded
<1>4. Rebuilt \in Index /\ Grounded(Rebuilt, log)
  BY <1>1, <1>2, <1>3, ReplayIndex DEF Rebuilt
<1>5. Replay(log, Idx(snap), snap.mark) \in Index /\ Grounded(Replay(log, Idx(snap), snap.mark), log)
  BY <1>1, <1>2, ReplayIndex
<1>6. Loaded = Rebuilt \/ Loaded = Replay(log, Idx(snap), snap.mark)
  BY DEF Loaded, Idx
<1> QED BY <1>4, <1>5, <1>6

\* What a process that starts has in mind.
Woken(x) == [up |-> TRUE, sess |-> x.sess, thr |-> x.thr, act |-> ActiveSession(x), actT |-> ActiveThread(x)]

\* Its index is what has been loaded; when it is in a session, it is in its thread.
LEMMA WokenIs ==
  ASSUME NEW x \in Index
  PROVE  LET m == Woken(x) IN
         /\ m \in Minds /\ Idx(m) = x /\ m.up /\ m.act = ActiveSession(x) /\ m.actT = ActiveThread(x)
         /\ m.thr = x.thr /\ m.sess = x.sess
         /\ m.act # Nobody => Placed(m)
<1> DEFINE s == ActiveSession(x)
           t == ActiveThread(x)
<1>1. /\ t \in Tids \cup {Nobody} /\ s \in Sids \cup {Nobody}
      /\ s # Nobody => t # Nobody /\ x.sess[s] # Nobody /\ x.sess[s].thread = t
  BY ActiveIs
<1> HIDE DEF s, t
<1>2. Woken(x) = [up |-> TRUE, sess |-> x.sess, thr |-> x.thr, act |-> s, actT |-> t]
  BY DEF Woken, s, t
<1>3. x.sess \in Tables /\ x.thr \in Threads /\ x = [sess |-> x.sess, thr |-> x.thr]
  BY DEF Index
<1>4. Woken(x) \in Minds
  BY <1>1, <1>2, <1>3 DEF Minds
<1>5. /\ Woken(x).up /\ Woken(x).act = s /\ Woken(x).actT = t /\ Woken(x).sess = x.sess /\ Woken(x).thr = x.thr
  BY <1>2
<1>6. Idx(Woken(x)) = x
  BY <1>3, <1>5 DEF Idx
<1>7. s # Nobody => Placed(Woken(x))
  BY <1>1, <1>5 DEF Placed, Known
<1> QED BY <1>4, <1>5, <1>6, <1>7 DEF s, t

\* The plan of a process that starts is sound and leaves no background thread active
\* but one the user has named.
LEMMA Opened ==
  ASSUME log \in Seq(Events), NEW x \in Index, Grounded(x, log),
         RoomForSession \/ ActiveSession(x) # Nobody, RoomForThread \/ ActiveThread(x) # Nobody,
         NEW steps \in Opening(Woken(x))
  PROVE  LET m == Woken(x)
             ensured == IF Reached(m, steps).s = Nobody THEN EnsureActive(m, m.actT) ELSE <<>>
             pl == steps \o ensured
         IN  /\ Good(m, pl)
             /\ \/ steps = <<>> /\ m.thr[Reached(m, pl).t] # "background"
                \/ steps # <<>> /\ pl = steps
<1> DEFINE m == Woken(x)
           ensured == IF Reached(m, steps).s = Nobody THEN EnsureActive(m, m.actT) ELSE <<>>
           pl == steps \o ensured
           none == <<>>
<1>1. /\ m \in Minds /\ Idx(m) = x /\ m.up /\ m.act = ActiveSession(x) /\ m.actT = ActiveThread(x)
      /\ m.thr = x.thr /\ m.sess = x.sess
      /\ m.act # Nobody => Placed(m)
  BY WokenIs
<1>2. /\ m.actT \in Tids \cup {Nobody}
      /\ m.actT # Nobody => m.thr[m.actT] = "active"
      /\ m.act # Nobody => m.actT # Nobody
  BY <1>1, ActiveIs
<1>3. \/ steps = none
      \/ \E s \in Known(m) : steps = SwitchTo(m, s)
      \/ RoomForSession /\ \E s \in Known(m) : steps = ForkFromSession(m, s, TRUE)
      \/ RoomForSession /\ \E t \in Tids : steps = UseThread(m, t)
  BY DEF Opening
<1>4. Reached(m, none) = At(m.act, m.actT)
  BY ReachedNone
<1>5. At(m.act, m.actT).s = m.act /\ At(m.act, m.actT).t = m.actT
  BY DEF At
<1>6. \A q \in Seq(Steps) : none \o q = q /\ q \o none = q
  OBVIOUS
<1>7. none \in Seq(Steps)
  OBVIOUS
<1>8. ensured = IF Reached(m, steps).s = Nobody THEN EnsureActive(m, m.actT) ELSE none
  OBVIOUS
<1>9. pl = steps \o ensured
  OBVIOUS
<1> HIDE DEF m, ensured, pl, none
<1>10. CASE steps = none
  <2>1. CASE m.act = Nobody
    <3>1. ensured = EnsureActive(m, m.actT)
      BY <1>4, <1>5, <1>8, <1>10, <2>1
    <3>2. RoomForSession /\ (m.actT = Nobody => RoomForThread)
      BY <1>1, <2>1
    <3>3. /\ Good(m, EnsureActive(m, m.actT)) /\ m.thr[Reached(m, EnsureActive(m, m.actT)).t] # "background"
      BY <1>1, <1>2, <3>2, GoodEnsure
    <3>4. pl = EnsureActive(m, m.actT)
      <4>1. EnsureActive(m, m.actT) \in Seq(Steps)
        BY <3>3 DEF Good, Planned
      <4> QED BY <1>6, <1>9, <1>10, <3>1, <4>1
    <3> QED BY <1>10, <3>3, <3>4 DEF m, none, pl, ensured
  <2>2. CASE m.act # Nobody
    <3>1. pl = none
      BY <1>4, <1>5, <1>6, <1>7, <1>8, <1>9, <1>10, <2>2
    <3>2. Good(m, none)
      BY <1>1, <2>2, GoodStay DEF none
    <3>3. m.thr[Reached(m, none).t] # "background"
      BY <1>2, <1>4, <1>5, <2>2
    <3> QED BY <1>10, <3>1, <3>2, <3>3 DEF m, none, pl, ensured
  <2> QED BY <2>1, <2>2
<1>11. CASE steps # none
  <2>1. Good(m, steps)
    BY <1>1, <1>3, <1>11, GoodSwitchTo, GoodFork, GoodUseThread
  <2>2. steps \in Seq(Steps) /\ Reached(m, steps).s # Nobody
    BY <2>1, NobodyIs DEF Good, Planned, Lands, Places
  <2>3. pl = steps
    BY <1>6, <1>8, <1>9, <2>2
  <2> QED BY <1>11, <2>1, <2>3 DEF m, none, pl, ensured
<1> QED BY <1>10, <1>11

\* What a start does.
LEMMA StartIs ==
  ASSUME IndexInv, NEW p \in Procs, Start(p)
  PROVE  LET m == Woken(Loaded) IN
         \E pl \in Seq(Steps) :
           /\ mem' = [mem EXCEPT ![p] = m] /\ plan' = [plan EXCEPT ![p] = pl] /\ Good(m, pl)
           /\ m.thr[Reached(m, pl).t] = "background" => Reached(m, pl).t \in seen'
           /\ seen \subseteq seen' /\ UNCHANGED <<log, task, runs, loosed>>
<1> DEFINE x == Loaded
           m == Woken(x)
<1>0. TypeOK
  BY DEF IndexInv
<1>1. x \in Index /\ Grounded(x, log) /\ log \in Seq(Events)
  BY <1>0, LoadedIs DEF TypeOK
<1>2. PICK steps \in Opening(m) :
        LET ensured == IF Reached(m, steps).s = Nobody THEN EnsureActive(m, m.actT) ELSE <<>>
        IN  /\ plan' = [plan EXCEPT ![p] = steps \o ensured]
            /\ seen' = IF steps = <<>> THEN seen ELSE seen \cup {Reached(m, steps).t}
  BY Zenon DEF Start, Do, Woken
<1> DEFINE pl == steps \o (IF Reached(m, steps).s = Nobody THEN EnsureActive(m, m.actT) ELSE <<>>)
<1>3. /\ RoomForSession \/ m.act # Nobody
      /\ RoomForThread \/ m.actT # Nobody
      /\ mem' = [mem EXCEPT ![p] = m]
      /\ UNCHANGED <<log, snap, task, home, runs, loosed, crashes>>
  BY Zenon DEF Start, Woken
<1>4. plan' = [plan EXCEPT ![p] = pl]
  BY <1>2
<1>5. m.act = ActiveSession(x) /\ m.actT = ActiveThread(x)
  BY <1>1, WokenIs
<1>6. RoomForSession \/ ActiveSession(x) # Nobody
  BY <1>3, <1>5
<1>7. RoomForThread \/ ActiveThread(x) # Nobody
  BY <1>3, <1>5
<1> HIDE DEF x
<1>8. Good(m, pl) /\ \/ steps = <<>> /\ m.thr[Reached(m, pl).t] # "background"
                     \/ steps # <<>> /\ pl = steps
  BY <1>1, <1>6, <1>7, Opened
<1> HIDE DEF m, pl
<1>9. seen \subseteq seen'
  BY <1>2
<1>10. m.thr[Reached(m, pl).t] = "background" => Reached(m, pl).t \in seen'
  BY <1>2, <1>8
<1>11. pl \in Seq(Steps)
  BY <1>8 DEF Good, Planned
<1>12. UNCHANGED <<log, task, runs, loosed>>
  BY <1>3
<1> QED BY <1>3, <1>4, <1>8, <1>9, <1>10, <1>11, <1>12 DEF m, x

\* The start of a process keeps the invariant, however it is opened.
LEMMA StartKeeps ==
  ASSUME IndexInv, NEW p \in Procs, Start(p)
  PROVE  IndexInv'
<1> DEFINE x == Loaded
           m == Woken(x)
<1>0. TypeOK /\ LogOK(log) /\ Grounded(Idx(snap), log) /\ \A q \in Procs : ProcessInv(q)
  BY DEF IndexInv
<1>1. x \in Index /\ Grounded(x, log) /\ log \in Seq(Events)
  BY <1>0, LoadedIs DEF TypeOK
<1>2. PICK steps \in Opening(m) :
        LET ensured == IF Reached(m, steps).s = Nobody THEN EnsureActive(m, m.actT) ELSE <<>>
        IN  /\ plan' = [plan EXCEPT ![p] = steps \o ensured]
            /\ seen' = IF steps = <<>> THEN seen ELSE seen \cup {Reached(m, steps).t}
  BY Zenon DEF Start, Do, Woken
<1> DEFINE pl == steps \o (IF Reached(m, steps).s = Nobody THEN EnsureActive(m, m.actT) ELSE <<>>)
<1>3. /\ ~mem[p].up
      /\ RoomForSession \/ m.act # Nobody
      /\ RoomForThread \/ m.actT # Nobody
      /\ mem' = [mem EXCEPT ![p] = m]
      /\ head' = [head EXCEPT ![p] = Len(log)]
      /\ UNCHANGED <<log, snap, task, home, runs, loosed, crashes>>
  BY Zenon DEF Start, Woken
<1>4. plan' = [plan EXCEPT ![p] = pl]
  BY <1>2
<1>5. m \in Minds /\ Idx(m) = x /\ m.up /\ m.act = ActiveSession(x) /\ m.actT = ActiveThread(x) /\ m.thr = x.thr
  BY <1>1, WokenIs
<1>6. RoomForSession \/ ActiveSession(x) # Nobody
  BY <1>3, <1>5
<1>7. RoomForThread \/ ActiveThread(x) # Nobody
  BY <1>3, <1>5
<1> HIDE DEF x
<1>8. Good(m, pl) /\ \/ steps = <<>> /\ m.thr[Reached(m, pl).t] # "background"
                     \/ steps # <<>> /\ pl = steps
  BY <1>1, <1>6, <1>7, Opened
<1> HIDE DEF m, pl
<1>9. seen' = seen \/ seen' = seen \cup {Reached(m, pl).t}
  BY <1>2, <1>8
<1>10. m.thr[Reached(m, pl).t] = "background" => Reached(m, pl).t \in seen'
  BY <1>2, <1>8
<1>11. Reached(m, pl).t \in Tids /\ pl \in Seq(Steps)
  BY <1>8 DEF Good, Planned, Lands, Places
<1>12. seen \subseteq seen' /\ seen' \subseteq Tids
  BY <1>0, <1>9, <1>11 DEF TypeOK
<1>13. TypeOK'
  <2>1. mem' \in [Procs -> Minds] /\ plan' \in [Procs -> Seq(Steps)] /\ head' \in [Procs -> 0 .. Len(log)]
    <3>1. Len(log) \in 0 .. Len(log)
      BY <1>1
    <3> QED BY <1>0, <1>3, <1>4, <1>5, <1>11, <3>1 DEF TypeOK
  <2> QED BY <1>0, <1>3, <1>12, <2>1 DEF TypeOK
<1>14. (LogOK(log) /\ Grounded(Idx(snap), log))'
  BY <1>0, <1>3
<1>15. ProcessInv(p)'
  <2>1. task[p] = Nobody
    BY <1>0, <1>3 DEF ProcessInv
  <2>2. mem'[p] = m /\ plan'[p] = pl /\ task'[p] = Nobody /\ log' = log
    BY <1>0, <1>3, <1>4, <2>1 DEF TypeOK
  <2>3. /\ PlanOK(Idx(m), pl, Len(log)) /\ Lands(Idx(m), pl, Reached(m, pl))
        /\ MessageLast(Idx(m), pl, Reached(m, pl)) /\ \A t \in Tids : ~ToBackground(pl, t)
    BY <1>8 DEF Good, Planned
  <2>4. Idx(m).thr[Reached(m, pl).t] = "background" => Reached(m, pl).t \in seen'
    <3>1. Idx(m).thr = m.thr
      BY DEF Idx
    <3> QED BY <1>10, <3>1
  <2>5. Idx(mem'[p]) = Idx(m) /\ Reached(mem'[p], plan'[p]) = Reached(m, pl) /\ plan'[p] = pl
    BY <2>2
  <2>6. ChatOK(Idx(mem[p]), plan[p], Reached(mem[p], plan[p]))'
    BY <2>3, <2>4, <2>5 DEF ChatOK
  <2>7. /\ Grounded(Idx(mem'[p]), log') /\ mem'[p].up
        /\ PlanOK(Idx(mem'[p]), plan'[p], Len(log')) /\ Lands(Idx(mem'[p]), plan'[p], Reached(mem'[p], plan'[p]))
        /\ MessageLast(Idx(mem'[p]), plan'[p], Reached(mem'[p], plan'[p]))
    BY <1>1, <1>5, <2>2, <2>3, <2>5
  <2> QED BY <2>2, <2>6, <2>7 DEF ProcessInv
<1>16. ASSUME NEW q \in Procs, q # p PROVE ProcessInv(q)'
  <2>1. mem'[q] = mem[q] /\ plan'[q] = plan[q] /\ task'[q] = task[q] /\ log' = log
    BY <1>0, <1>3, <1>4, <1>16 DEF TypeOK
  <2> QED BY <1>1, <1>12, <2>1, OtherStays
<1> QED BY <1>13, <1>14, <1>15, <1>16 DEF IndexInv

------------------------------------------------------------------------------
(* The invariant holds: the theorems for any number of processes.          *)

\* The empty log satisfies the invariant.
LEMMA InitIndex == Init => IndexInv
<1> SUFFICES ASSUME Init PROVE IndexInv
  OBVIOUS
<1>1. EmptyIndex \in Index /\ Grounded(EmptyIndex, log)
  BY EmptyGrounded
<1>2. Down \in Minds /\ Idx(Down) = EmptyIndex /\ Down.up = FALSE
  BY <1>1 DEF Down, Minds, Idx, EmptyIndex, Index
<1>3. /\ log = <<>> /\ mem = [p \in Procs |-> Down] /\ head = [p \in Procs |-> 0]
      /\ plan = [p \in Procs |-> <<>>] /\ task = [p \in Procs |-> Nobody] /\ home = <<>> /\ seen = {}
      /\ runs = {} /\ loosed = {} /\ crashes = 0 /\ snap = [sess |-> EmptyIndex.sess, thr |-> EmptyIndex.thr, mark |-> 0]
  BY DEF Init
<1>4. Idx(snap) = EmptyIndex
  BY <1>3 DEF Idx, EmptyIndex
<1>5. TypeOK
  <2>1. Len(log) = 0 /\ log \in Seq(Events) /\ home \in Seq(Sids \cup {Nobody}) /\ Len(home) = 0
    BY <1>3
  <2>2. snap \in [sess : Tables, thr : Threads, mark : 0 .. Len(log)]
    BY <1>1, <1>3, <2>1 DEF Index
  <2>3. mem \in [Procs -> Minds] /\ head \in [Procs -> 0 .. Len(log)] /\ plan \in [Procs -> Seq(Steps)]
        /\ task \in [Procs -> Runs \cup {Nobody}]
    BY <1>2, <1>3, <2>1
  <2>4. seen \subseteq Tids /\ runs \subseteq Tids /\ loosed \subseteq Tids /\ crashes \in Nat
    BY <1>3
  <2> QED BY <2>1, <2>2, <2>3, <2>4 DEF TypeOK
<1>6. LogOK(log)
  BY <1>3 DEF LogOK
<1>7. ASSUME NEW p \in Procs PROVE ProcessInv(p)
  <2>1. mem[p] = Down /\ plan[p] = <<>> /\ task[p] = Nobody
    BY <1>3
  <2> QED BY <1>1, <1>2, <2>1 DEF ProcessInv
<1> QED BY <1>1, <1>4, <1>5, <1>6, <1>7 DEF IndexInv

\* Every step keeps the invariant.
LEMMA IndexIndInv == IndexInv /\ [Next]_vars => IndexInv'
<1> SUFFICES ASSUME IndexInv, [Next]_vars PROVE IndexInv'
  OBVIOUS
<1>1. CASE Next
  <2>1. PICK p \in Procs :
          \/ Start(p) \/ AppendStep(p) \/ SaveStep(p) \/ Crash(p)
          \/ NewSession(p) \/ Rewind(p) \/ Switch(p) \/ Fork(p) \/ Jump(p)
          \/ Split(p) \/ Rename(p) \/ Prompt(p)
          \/ ScheduleNew(p) \/ SchedulePinned(p) \/ ScheduleEnds(p)
    BY <1>1 DEF Next
  <2> QED BY <2>1, StartKeeps, AppendKeeps, SaveKeeps, CrashKeeps, ToolsKeep, SchedulesKeep, EndKeeps
<1>2. CASE UNCHANGED vars
  <2>1. UNCHANGED <<log, snap, mem, head, plan, task, home, seen, runs, loosed, crashes>>
    BY <1>2 DEF vars
  <2>2. TypeOK' /\ LogOK(log)' /\ Grounded(Idx(snap), log)'
    BY <2>1 DEF IndexInv, TypeOK
  <2>3. ASSUME NEW p \in Procs PROVE ProcessInv(p)'
    BY <2>1 DEF IndexInv, ProcessInv, ChatOK, BackOK
  <2> QED BY <2>2, <2>3 DEF IndexInv
<1> QED BY <1>1, <1>2

\* The invariant holds, for any number of processes, sessions, threads, events and crashes.
LEMMA IndexInvariant == Spec => []IndexInv
<1> QED BY InitIndex, IndexIndInv, PTL DEF Spec

\* Type correctness: whatever processes do to one log and one snapshot, and wherever they
\* die, rows, plans and watermarks stay what they are said to be.
THEOREM TypeCorrect == Spec => []TypeOK
<1>1. IndexInv => TypeOK
  BY DEF IndexInv
<1> QED BY <1>1, IndexInvariant, PTL

------------------------------------------------------------------------------
(* One process: the live path, the reducer and the snapshot agree.         *)

\* One process works on the workspace.
Alone == \A p, q \in Procs : p = q

\* A start of the only process loads the projection of the whole log.
LEMMA LoadedRebuilt ==
  ASSUME IndexInv, SoloInv
  PROVE  Loaded = Rebuilt
<1>1. log \in Seq(Events) /\ snap.mark \in 0 .. Len(log)
  BY DEF IndexInv, TypeOK
<1>2. Idx(snap) = Replay(SubSeq(log, 1, snap.mark), EmptyIndex, 0)
  BY DEF SoloInv
<1>3. Replay(log, Idx(snap), snap.mark) = Replay(log, EmptyIndex, 0)
  BY <1>1, <1>2, ReplayResume
<1>4. Loaded = Rebuilt \/ Loaded = Replay(log, Idx(snap), snap.mark)
  BY DEF Loaded, Idx
<1> QED BY <1>3, <1>4 DEF Rebuilt

\* An append of the only process: its index by hand is the projection of the longer log.
LEMMA SoloAppend ==
  ASSUME IndexInv, SoloInv, Alone, NEW p \in Procs, AppendStep(p)
  PROVE  /\ SoloInv'
         /\ Rebuilt = Idx(mem[p]) /\ Rebuilt' = Wrote(Idx(mem[p]), plan[p][1].do, Len(log) + 1)
<1> DEFINE e == plan[p][1].ev
           d == plan[p][1].do
           x == Idx(mem[p])
           y == Wrote(x, d, Len(log) + 1)
           w == mem'[p]
<1>1. /\ mem[p].up /\ e \in Events /\ d \in Effects /\ Agrees(e, d) /\ Possible(x, e, d)
      /\ e.kind = "forked" /\ d.adds = Nobody => x.sess[e.sid] # Nobody
      /\ log' = Append(log, e) /\ mem' = [mem EXCEPT ![p] = w] /\ Idx(w) = y /\ y \in Index
      /\ head' = [head EXCEPT ![p] = Len(log) + 1] /\ snap' = snap
  BY Appended
<1>2. x \in Index /\ log \in Seq(Events) /\ Len(log) \in Nat /\ head \in [Procs -> 0 .. Len(log)]
      /\ snap.mark \in 0 .. Len(log)
  BY Typed DEF IndexInv, TypeOK
<1>3. x = Rebuilt
  BY <1>1 DEF SoloInv
<1>4. Follows(x, y, d) /\ (d.sets # Nobody => d.status \in Statuses)
  BY <1>1, <1>2, WroteFollows, Written
<1> HIDE DEF e, d, x, y, w
<1>5. ApplyIndexEvent(x, e, Len(log) + 1) = y
  BY <1>1, <1>2, EventWrites DEF y
<1>6. Replay(Append(log, e), EmptyIndex, 0) = ApplyIndexEvent(x, e, Len(log) + 1)
  BY <1>1, <1>2, <1>3, ReplayAppend DEF Rebuilt
<1>7. Rebuilt' = y
  BY <1>1, <1>5, <1>6, EmptyGrounded DEF Rebuilt
<1>8. Len(log') = Len(log) + 1 /\ SubSeq(log', 1, snap.mark) = SubSeq(log, 1, snap.mark)
  BY <1>1, <1>2
<1>9. ASSUME NEW q \in Procs PROVE Idx(mem'[q]) = Rebuilt' /\ head'[q] = Len(log')
  <2>1. q = p
    BY DEF Alone
  <2>2. head'[p] = Len(log) + 1
    BY <1>1, <1>2
  <2> QED BY <1>1, <1>7, <1>8, <2>1, <2>2 DEF w
<1>10. Idx(snap') = Replay(SubSeq(log', 1, snap'.mark), EmptyIndex, 0)
  BY <1>1, <1>8 DEF SoloInv
<1>11. \A s \in Sids : snap'.sess[s] # Nobody => Rebuilt'.sess[s] # Nobody
  BY <1>1, <1>3, <1>4, <1>7 DEF SoloInv, Follows
<1>12. \A t \in Tids : snap'.thr[t] # Nobody => Rebuilt'.thr[t] # Nobody
  <2>1. Nobody \notin Statuses /\ Nobody \notin Tids
    BY SessionIndexAssumption, NobodyIs
  <2> QED BY <1>1, <1>3, <1>4, <1>7, <2>1 DEF SoloInv, Follows
<1>13. SoloInv'
  BY <1>9, <1>10, <1>11, <1>12 DEF SoloInv
<1> QED BY <1>3, <1>7, <1>13 DEF x, y, d

\* A save of the only process: the rows are the projection of the log up to the watermark.
LEMMA SoloSave ==
  ASSUME IndexInv, SoloInv, Alone, NEW p \in Procs, SaveStep(p)
  PROVE  SoloInv'
<1> DEFINE m == mem[p]
           w == mem'[p]
<1>1. /\ m.up /\ mem' = [mem EXCEPT ![p] = w] /\ Idx(w) = Idx(m)
      /\ Idx(snap') = Upserted(m)
      /\ snap' = [sess |-> Idx(snap').sess, thr |-> Idx(snap').thr,
                  mark |-> IF snap.mark > head[p] THEN snap.mark ELSE head[p]]
      /\ UNCHANGED <<log, head>>
  BY Saved
<1>2. m \in Minds /\ log \in Seq(Events) /\ snap.mark \in 0 .. Len(log) /\ Idx(m).sess = m.sess /\ Idx(m).thr = m.thr
  BY Typed DEF IndexInv, TypeOK
<1>3. Idx(m) = Rebuilt /\ head[p] = Len(log)
  BY <1>1 DEF SoloInv
<1>4. snap'.mark = Len(log)
  <2>1. snap'.mark = IF snap.mark > head[p] THEN snap.mark ELSE head[p]
    BY <1>1
  <2> QED BY <1>2, <1>3, <2>1
<1> HIDE DEF m, w
<1>5. Upserted(m) = Idx(m)
  <2>1. m.sess \in [Sids -> Sessions \cup {Nobody}] /\ m.thr \in [Tids -> Statuses \cup {Nobody}]
    BY <1>2 DEF Minds, Tables, Threads
  <2>2. [s \in Sids |-> IF s \in Known(m) THEN m.sess[s] ELSE snap.sess[s]] = m.sess
    <3>1. ASSUME NEW s \in Sids, s \notin Known(m) PROVE snap.sess[s] = m.sess[s]
      BY <1>2, <1>3, <3>1 DEF Known, SoloInv
    <3> QED BY <2>1, <3>1
  <2>3. [t \in Tids |-> IF m.thr[t] # Nobody THEN m.thr[t] ELSE snap.thr[t]] = m.thr
    <3>1. ASSUME NEW t \in Tids, m.thr[t] = Nobody PROVE snap.thr[t] = m.thr[t]
      BY <1>2, <1>3, <3>1 DEF SoloInv
    <3> QED BY <2>1, <3>1
  <2> QED BY <2>2, <2>3 DEF Upserted, Idx
<1>6. Idx(snap') = Rebuilt /\ Rebuilt' = Rebuilt
  BY <1>1, <1>3, <1>5 DEF Rebuilt, EmptyIndex
<1>7. ASSUME NEW q \in Procs PROVE Idx(mem'[q]) = Rebuilt' /\ head'[q] = Len(log')
  <2>1. q = p
    BY DEF Alone
  <2> QED BY <1>1, <1>3, <1>6, <2>1 DEF w
<1>8. Idx(snap') = Replay(SubSeq(log', 1, snap'.mark), EmptyIndex, 0)
  <2>1. SubSeq(log, 1, Len(log)) = log
    BY <1>2
  <2> QED BY <1>1, <1>4, <1>6, <2>1 DEF Rebuilt
<1>9. snap'.sess = Rebuilt'.sess /\ snap'.thr = Rebuilt'.thr
  BY <1>6 DEF Idx
<1> QED BY <1>7, <1>8, <1>9 DEF SoloInv

\* What changes neither the log nor an index changes no projection.
LEMMA SoloStays ==
  ASSUME SoloInv, UNCHANGED <<log, snap, mem, head>>
  PROVE  SoloInv'
<1>1. Rebuilt' = Rebuilt
  BY DEF Rebuilt, EmptyIndex
<1> QED BY <1>1 DEF SoloInv, EmptyIndex

\* A start of the only process has the projection in mind.
LEMMA SoloStart ==
  ASSUME IndexInv, SoloInv, Alone, NEW p \in Procs, Start(p)
  PROVE  SoloInv' /\ UNCHANGED <<log, home>>
<1>1. /\ mem' = [mem EXCEPT ![p] = Woken(Loaded)] /\ head' = [head EXCEPT ![p] = Len(log)]
      /\ UNCHANGED <<log, snap, home>>
  BY Zenon DEF Start, Woken
<1>2. Loaded = Rebuilt /\ Loaded \in Index
  BY LoadedRebuilt, LoadedIs
<1>3. Idx(Woken(Loaded)) = Rebuilt
  BY <1>2, WokenIs
<1>4. Rebuilt' = Rebuilt
  BY <1>1 DEF Rebuilt, EmptyIndex
<1>5. ASSUME NEW q \in Procs PROVE Idx(mem'[q]) = Rebuilt' /\ head'[q] = Len(log')
  <2>1. q = p
    BY DEF Alone
  <2>2. mem'[p] = Woken(Loaded) /\ head'[p] = Len(log)
    BY <1>1 DEF IndexInv, TypeOK
  <2> QED BY <1>1, <1>3, <1>4, <2>1, <2>2
<1> QED BY <1>1, <1>4, <1>5 DEF SoloInv, EmptyIndex

\* A crash leaves the rows and the log.
LEMMA SoloCrash ==
  ASSUME IndexInv, SoloInv, Alone, NEW p \in Procs, Crash(p)
  PROVE  SoloInv' /\ UNCHANGED <<log, home>>
<1>1. mem' = [mem EXCEPT ![p] = Down] /\ UNCHANGED <<log, snap, head, home>>
  BY DEF Crash
<1>2. Rebuilt' = Rebuilt
  BY <1>1 DEF Rebuilt, EmptyIndex
<1>3. ASSUME NEW q \in Procs PROVE ~mem'[q].up
  <2>1. q = p
    BY DEF Alone
  <2>2. mem'[p] = Down
    BY <1>1 DEF IndexInv, TypeOK
  <2> QED BY <2>1, <2>2 DEF Down
<1> QED BY <1>1, <1>2, <1>3 DEF SoloInv, EmptyIndex

\* The other operations only decide their steps.
Planning(p) ==
  \/ NewSession(p) \/ Rewind(p) \/ Switch(p) \/ Fork(p) \/ Jump(p) \/ Split(p) \/ Rename(p) \/ Prompt(p)
  \/ ScheduleNew(p) \/ SchedulePinned(p) \/ ScheduleEnds(p)

\* They change neither the log, nor an index, nor the rows.
LEMMA PlanningIs ==
  ASSUME NEW p, Planning(p)
  PROVE  UNCHANGED <<log, snap, mem, head, home, runs, loosed, crashes>>
<1>1. ASSUME NEW pl, AgentTool(p, pl) PROVE UNCHANGED <<log, snap, mem, head, home, runs, loosed, crashes>>
  BY <1>1 DEF AgentTool
<1>2. ASSUME NEW pl, Command(p, pl) PROVE UNCHANGED <<log, snap, mem, head, home, runs, loosed, crashes>>
  BY <1>1, <1>2 DEF Command
<1>3. ASSUME NEW pl, NEW close, RunScheduled(p, pl, close) PROVE UNCHANGED <<log, snap, mem, head, home, runs, loosed, crashes>>
  BY <1>3 DEF RunScheduled
<1>4. CASE NewSession(p) BY <1>4, <1>2 DEF NewSession
<1>5. CASE Rewind(p) BY <1>5, <1>2 DEF Rewind
<1>6. CASE Switch(p) BY <1>6, <1>2, Zenon DEF Switch
<1>7. CASE Fork(p) BY <1>7, <1>1 DEF Fork
<1>8. CASE Jump(p) BY <1>8, <1>1 DEF Jump
<1>9. CASE Split(p) BY <1>9, <1>1 DEF Split
<1>10. CASE Rename(p) BY <1>10, <1>1 DEF Rename
<1>11. CASE Prompt(p) BY <1>11, <1>1 DEF Prompt
<1>12. CASE ScheduleNew(p) BY <1>12, <1>3 DEF ScheduleNew
<1>13. CASE SchedulePinned(p) BY <1>13, <1>3 DEF SchedulePinned
<1>14. CASE ScheduleEnds(p) BY <1>14 DEF ScheduleEnds
<1> QED BY <1>4, <1>5, <1>6, <1>7, <1>8, <1>9, <1>10, <1>11, <1>12, <1>13, <1>14 DEF Planning

\* The steps of the system, by what they change.
LEMMA NextIs ==
  ASSUME [Next]_vars
  PROVE  \/ UNCHANGED vars
         \/ \E p \in Procs : Start(p) \/ AppendStep(p) \/ SaveStep(p) \/ Crash(p) \/ Planning(p)
BY DEF Next, Planning

\* The empty log has the empty projection.
LEMMA SoloInit == Init => SoloInv
<1> SUFFICES ASSUME Init PROVE SoloInv
  OBVIOUS
<1>1. log = <<>> /\ snap = [sess |-> EmptyIndex.sess, thr |-> EmptyIndex.thr, mark |-> 0] /\ mem = [p \in Procs |-> Down]
  BY DEF Init
<1>2. Replay(log, EmptyIndex, 0) = EmptyIndex /\ SubSeq(log, 1, 0) = log
  <2>1. Len(log) = 0 /\ SubSeq(log, 1, 0) = log
    BY <1>1
  <2> QED BY <2>1, ReplayNone
<1>3. Idx(snap) = EmptyIndex /\ snap.mark = 0 /\ snap.sess = EmptyIndex.sess /\ snap.thr = EmptyIndex.thr
  BY <1>1 DEF Idx, EmptyIndex
<1>4. \A p \in Procs : ~mem[p].up
  BY <1>1 DEF Down
<1> QED BY <1>2, <1>3, <1>4 DEF SoloInv, Rebuilt

\* Every step of the only process keeps its index the projection.
LEMMA SoloStep ==
  ASSUME IndexInv, SoloInv, Alone, [Next]_vars
  PROVE  SoloInv'
<1>1. CASE UNCHANGED vars
  BY <1>1, SoloStays DEF vars
<1>2. CASE \E p \in Procs : Start(p) \/ AppendStep(p) \/ SaveStep(p) \/ Crash(p) \/ Planning(p)
  BY <1>2, SoloStart, SoloAppend, SoloSave, SoloCrash, PlanningIs, SoloStays
<1> QED BY <1>1, <1>2, NextIs

\* With one process both invariants hold.
LEMMA SoloInvariant == ASSUME Alone PROVE Spec => [](IndexInv /\ SoloInv)
<1>1. Init => IndexInv /\ SoloInv
  BY InitIndex, SoloInit
<1>2. IndexInv /\ SoloInv /\ [Next]_vars => (IndexInv /\ SoloInv)'
  BY IndexIndInv, SoloStep
<1> QED BY <1>1, <1>2, PTL DEF Spec

\* With one process a restart loses nothing: wherever it died between an append and the save,
\* the snapshot and the events after the watermark give the projection of the whole log
\* (_loadIndex, replayIndexEventsAfter).
THEOREM ReloadsTheProjection == ASSUME Alone PROVE Spec => []ReloadIsProjection
<1>1. IndexInv /\ SoloInv => ReloadIsProjection
  BY LoadedRebuilt DEF ReloadIsProjection
<1> QED BY <1>1, SoloInvariant, PTL

\* With one process the live path and the reducer agree: after every operation the index in
\* memory, changed by hand, is the projection of the log (rebuildSessionIndex).
THEOREM LivesTheProjection == ASSUME Alone PROVE Spec => []LiveIsProjection
<1>1. IndexInv /\ SoloInv => LiveIsProjection
  BY DEF LiveIsProjection, SoloInv, Idle, Idx
<1> QED BY <1>1, SoloInvariant, PTL

------------------------------------------------------------------------------
(* One process: the chat and the threads of scheduled runs.                *)

\* A thread that a run has made stays a background one until the user goes there or a run
\* makes it interactive; the user has gone to the thread he is about to make so.
RunThreads ==
  \A t \in runs : t \in seen \cup loosed \/ Rebuilt.thr[t] = "background"
Awakened(x, pl, T) ==
  \A i \in 1 .. Len(pl) : LET t == pl[i].do.sets IN t # Nobody /\ x.thr[t] = "background" => t \in T
RunsInv == RunThreads /\ \A p \in Procs : mem[p].up /\ task[p] = Nobody => Awakened(mem[p], plan[p], seen)

\* A plan that wakes only the thread it leads to.
LEMMA Awakening ==
  ASSUME NEW w, NEW pl, NEW t, NEW T, Wakes(w, pl, t), w.thr[t] = "background" => t \in T
  PROVE  Awakened(w, pl, T)
BY DEF Wakes, Awakened

\* The decision of a process that is up keeps it.
LEMMA RunsPlanned ==
  ASSUME IndexInv, RunsInv, Alone, NEW p \in Procs, NEW pl, NEW tk, UNCHANGED <<log, mem, runs, loosed>>,
         plan' = [plan EXCEPT ![p] = pl], task' = [task EXCEPT ![p] = tk], seen \subseteq seen',
         tk = Nobody => Awakened(mem[p], pl, seen')
  PROVE  RunsInv'
<1>1. Rebuilt' = Rebuilt
  BY DEF Rebuilt, EmptyIndex
<1>2. RunThreads'
  BY <1>1 DEF RunsInv, RunThreads
<1>3. ASSUME NEW q \in Procs, task'[q] = Nobody PROVE Awakened(mem'[q], plan'[q], seen')
  <2>1. q = p
    BY DEF Alone
  <2>2. plan'[p] = pl /\ task'[p] = tk
    BY DEF IndexInv, TypeOK
  <2> QED BY <1>3, <2>1, <2>2
<1> QED BY <1>2, <1>3 DEF RunsInv

\* A command, a history tool and the end of a run lead to the one thread they may wake.
LEMMA RunsPlanning ==
  ASSUME IndexInv, RunsInv, Alone, NEW p \in Procs, Planning(p)
  PROVE  RunsInv'
<1>0. task \in [Procs -> Runs \cup {Nobody}] /\ mem[p] \in Minds
  BY DEF IndexInv, TypeOK
<1>1. ASSUME NEW pl, AgentTool(p, pl), Good(mem[p], pl) PROVE RunsInv'
  <2> DEFINE t == Reached(mem[p], pl).t
  <2>1. /\ plan' = [plan EXCEPT ![p] = pl] /\ UNCHANGED <<log, snap, mem, head, task, home, runs, loosed, crashes>>
        /\ seen' = IF task[p] = Nobody THEN seen \cup {t} ELSE seen
    BY <1>1 DEF AgentTool, Do
  <2>2. Wakes(mem[p], pl, t)
    BY <1>1 DEF Good
  <2> HIDE DEF t
  <2>3. task[p] = Nobody => Awakened(mem[p], pl, seen')
    BY <2>1, <2>2, Awakening
  <2>4. task' = [task EXCEPT ![p] = task[p]] /\ seen \subseteq seen'
    BY <1>0, <2>1
  <2> QED BY <2>1, <2>3, <2>4, RunsPlanned
<1>2. CASE NewSession(p) \/ Rewind(p) \/ Switch(p) \/ Fork(p) \/ Jump(p) \/ Split(p) \/ Rename(p) \/ Prompt(p)
  BY <1>1, <1>2, ToolsAre
<1>3. ASSUME NEW pl, NEW close \in {"always", "never"}, RunScheduled(p, pl, close) PROVE RunsInv'
  <2> DEFINE tk == [back |-> mem[p].act, close |-> close]
  <2>1. /\ plan' = [plan EXCEPT ![p] = pl] /\ task' = [task EXCEPT ![p] = tk] /\ Idle(p)
        /\ UNCHANGED <<log, snap, mem, head, home, seen, runs, loosed, crashes>>
    BY <1>3 DEF RunScheduled, Do
  <2>2. mem[p].act \in Sids
    BY <2>1, IdleIs, MindIs DEF Placed
  <2>3. tk \in Runs /\ tk # Nobody
    BY <2>2, SessionIndexAssumption DEF Runs
  <2> HIDE DEF tk
  <2> QED BY <2>1, <2>3, RunsPlanned
<1>4. CASE ScheduleNew(p)
  <2>1. RunScheduled(p, CreateSession(mem[p], NewThread("background")), "always")
    BY <1>4 DEF ScheduleNew
  <2> QED BY <1>3, <2>1
<1>5. CASE SchedulePinned(p)
  <2>1. \E pl : RunScheduled(p, pl, "never")
    BY <1>5 DEF SchedulePinned
  <2> QED BY <1>3, <2>1
<1>6. CASE ScheduleEnds(p)
  <2>1. /\ Idle(p) /\ task[p] # Nobody /\ task' = [task EXCEPT ![p] = Nobody]
        /\ UNCHANGED <<log, snap, mem, head, home, seen, runs, loosed, crashes>>
    BY <1>6 DEF ScheduleEnds
  <2>2. BackOK(Idx(mem[p]), <<>>, task[p]) /\ log \in Seq(Events)
    BY <2>1, IdleIs
  <2> DEFINE b == task[p].back
             t == mem[p].sess[b].thread
             pl == SwitchToExisting(mem[p], b, task[p].close, TRUE)
  <2>3. /\ b \in Sids /\ mem[p].sess[b] # Nobody /\ b # Nobody
        /\ mem[p].thr[t] = "background" => t \in seen
    BY <2>2, NobodyIs DEF BackOK, Idx
  <2>4. b \in Known(mem[p])
    BY <2>3 DEF Known
  <2>5. plan' = [plan EXCEPT ![p] = pl]
    BY <2>3, <1>6 DEF ScheduleEnds, Do
  <2>6. Turned(pl) = {} \/ Turned(pl) = {At(t, "active")}
    BY <1>0, <2>2, <2>4, Switching
  <2>7. seen' = seen
    BY <2>1
  <2> HIDE DEF pl, t, b
  <2>8. Awakened(mem[p], pl, seen')
    BY <2>3, <2>6, <2>7, WakesBy, Awakening DEF t
  <2> QED BY <2>1, <2>5, <2>7, <2>8, RunsPlanned
<1> QED BY <1>2, <1>4, <1>5, <1>6 DEF Planning

\* A step of a plan leaves the rest of it so.
LEMMA AwakenedTail ==
  ASSUME NEW x \in Index, NEW w, NEW pl \in Seq(Steps), pl # <<>>, NEW n, NEW T, PlanOK(x, pl, n),
         Awakened(x, pl, T), \A t \in Tids : w.thr[t] = IF t = pl[1].do.sets THEN pl[1].do.status ELSE x.thr[t]
  PROVE  Awakened(w, Tail(pl), T)
<1> DEFINE tl == Tail(pl)
<1>1. /\ \A i \in 1 .. Len(tl) : tl[i] = pl[i + 1] /\ i + 1 \in 1 .. Len(pl)
      /\ 1 \in 1 .. Len(pl)
  BY TailIs
<1> HIDE DEF tl
<1> SUFFICES ASSUME NEW i \in 1 .. Len(tl), tl[i].do.sets # Nobody, w.thr[tl[i].do.sets] = "background"
             PROVE  tl[i].do.sets \in T
  BY DEF Awakened, tl
<1> DEFINE k == i + 1
           t == pl[k].do.sets
<1>2. tl[i] = pl[k] /\ k \in 1 .. Len(pl) /\ 1 \in 1 .. k - 1 /\ t # Nobody
  BY <1>1
<1>3. StepOK(x, pl, n, k)
  BY <1>2 DEF PlanOK
<1> HIDE DEF k
<1>4. pl[1].do.sets = Nobody
  BY <1>2, <1>3 DEF StepOK
<1>5. pl[k].do \in Effects
  BY <1>2, StepsAre
<1>6. t \in Tids
  BY <1>2, <1>5 DEF Effects
<1>7. w.thr[t] = x.thr[t]
  BY <1>4, <1>6, NobodyIs
<1>8. x.thr[t] = "background"
  BY <1>2, <1>7
<1> HIDE DEF t
<1>9. t \in T
  BY <1>2, <1>8 DEF Awakened, t
<1> QED BY <1>2, <1>9 DEF t

\* An append keeps it: what it makes interactive is a thread the user has gone to, or one
\* of a run that a run has made so.
LEMMA RunsAppend ==
  ASSUME IndexInv, SoloInv, RunsInv, Alone, NEW p \in Procs, AppendStep(p)
  PROVE  RunsInv'
<1> DEFINE e == plan[p][1].ev
           d == plan[p][1].do
           x == Idx(mem[p])
           w == mem'[p]
<1>1. /\ plan[p] # <<>> /\ mem[p].up /\ e \in Events /\ d \in Effects /\ Agrees(e, d)
      /\ Idx(w) = Wrote(x, d, Len(log) + 1) /\ plan' = [plan EXCEPT ![p] = Tail(plan[p])]
      /\ UNCHANGED <<snap, task, seen, crashes>>
  BY Appended
<1>2. /\ runs' = IF task[p] # Nobody /\ e.kind = "created" /\ e.status # Nobody
                 THEN runs \cup {e.thread} ELSE runs
      /\ loosed' = IF task[p] # Nobody /\ e.status = "active" THEN loosed \cup {e.thread} ELSE loosed
      /\ runs' \subseteq Tids
  BY Marked
<1>3. Rebuilt = x /\ Rebuilt' = Wrote(x, d, Len(log) + 1)
  BY SoloAppend
<1>4. /\ x \in Index /\ plan[p] \in Seq(Steps) /\ x.thr = mem[p].thr
      /\ plan \in [Procs -> Seq(Steps)]
  BY Typed DEF IndexInv, TypeOK
<1>5. 1 \in 1 .. Len(plan[p]) /\ PlanOK(x, plan[p], Len(log))
  BY <1>1, <1>4, TailIs, Acting
<1>6. d.sets # Nobody => /\ d.sets = e.thread /\ e.status # Nobody /\ d.status = e.status /\ e.status \in Statuses
  BY <1>1 DEF Agrees, Events
<1>7. e.kind = "created" /\ e.status # Nobody => d.sets = e.thread
  BY <1>1 DEF Agrees
<1>8. \A t \in Tids : Rebuilt'.thr[t] = IF t = d.sets THEN d.status ELSE x.thr[t]
  BY <1>3 DEF Wrote
<1>9. task[p] = Nobody => Awakened(x, plan[p], seen)
  <2>1. task[p] = Nobody => Awakened(mem[p], plan[p], seen)
    BY <1>1 DEF RunsInv
  <2> QED BY <1>4, <2>1 DEF Awakened
<1>10. task[p] = Nobody /\ d.sets # Nobody /\ x.thr[d.sets] = "background" => d.sets \in seen
  BY <1>5, <1>9 DEF Awakened
<1>11. \A t \in runs : t \in seen \cup loosed \/ x.thr[t] = "background"
  BY <1>3 DEF RunsInv, RunThreads
<1>12. \A t \in Tids : w.thr[t] = IF t = d.sets THEN d.status ELSE x.thr[t]
  <2>1. w.thr = Wrote(x, d, Len(log) + 1).thr
    BY <1>1 DEF Idx
  <2> QED BY <2>1 DEF Wrote
<1> HIDE DEF e, x, w
<1>13. ASSUME NEW t \in runs', t \notin seen', t \notin loosed' PROVE Rebuilt'.thr[t] = "background"
  <2>1. t \in Tids /\ t # Nobody /\ t \notin seen /\ t \notin loosed
    BY <1>1, <1>2, <1>13, NobodyIs
  <2>2. CASE t # d.sets
    <3>1. t \in runs
      BY <1>2, <1>7, <2>2
    <3> QED BY <1>8, <1>11, <2>1, <2>2, <3>1
  <2>3. CASE t = d.sets
    <3>1. t = e.thread /\ e.status \in Statuses /\ d.status = e.status
      BY <1>6, <2>1, <2>3
    <3>2. task[p] # Nobody
      <4> SUFFICES ASSUME task[p] = Nobody PROVE FALSE
        OBVIOUS
      <4>1. t \in runs
        BY <1>2
      <4> QED BY <1>10, <1>11, <2>1, <2>3, <4>1
    <3>3. e.status # "active"
      BY <1>2, <1>13, <3>1, <3>2
    <3> QED BY <1>8, <2>1, <2>3, <3>1, <3>3 DEF Statuses
  <2> QED BY <2>2, <2>3
<1>14. ASSUME NEW q \in Procs, task'[q] = Nobody PROVE Awakened(mem'[q], plan'[q], seen')
  <2>1. q = p /\ task[p] = Nobody
    BY <1>1, <1>14 DEF Alone
  <2>2. plan'[p] = Tail(plan[p]) /\ seen' = seen
    BY <1>1, <1>4
  <2>3. Awakened(w, Tail(plan[p]), seen)
    BY <1>1, <1>4, <1>5, <1>9, <1>12, <2>1, AwakenedTail DEF d
  <2> QED BY <2>1, <2>2, <2>3 DEF w
<1>15. RunThreads'
  BY <1>13 DEF RunThreads
<1> QED BY <1>14, <1>15 DEF RunsInv

\* A save keeps it.
LEMMA RunsSave ==
  ASSUME IndexInv, RunsInv, Alone, NEW p \in Procs, SaveStep(p)
  PROVE  RunsInv'
<1> DEFINE w == mem'[p]
           x == Idx(mem[p])
<1>1. /\ plan[p] # <<>> /\ mem[p].up /\ plan[p][1].do = NoEffect
      /\ Idx(w) = x /\ plan' = [plan EXCEPT ![p] = Tail(plan[p])]
      /\ UNCHANGED <<log, head, task, home, seen, runs, loosed, crashes>>
  BY Saved
<1>2. /\ x \in Index /\ plan[p] \in Seq(Steps) /\ plan \in [Procs -> Seq(Steps)] /\ x.thr = mem[p].thr
      /\ PlanOK(x, plan[p], Len(log))
  BY <1>1, Typed, Acting DEF IndexInv, TypeOK
<1>3. w.thr = x.thr
  BY <1>1 DEF Idx
<1> HIDE DEF x, w
<1>4. Rebuilt' = Rebuilt
  BY <1>1 DEF Rebuilt, EmptyIndex
<1>5. RunThreads'
  BY <1>1, <1>4 DEF RunsInv, RunThreads
<1>6. ASSUME NEW q \in Procs, task'[q] = Nobody PROVE Awakened(mem'[q], plan'[q], seen')
  <2>1. q = p /\ task[p] = Nobody
    BY <1>1, <1>6 DEF Alone
  <2>2. Awakened(mem[p], plan[p], seen)
    BY <1>1, <2>1 DEF RunsInv
  <2>3. Awakened(x, plan[p], seen)
    BY <1>2, <2>2 DEF Awakened
  <2>4. \A t \in Tids : w.thr[t] = IF t = plan[p][1].do.sets THEN plan[p][1].do.status ELSE x.thr[t]
    BY <1>1, <1>3, NoEffectIs, NobodyIs
  <2>5. Awakened(w, Tail(plan[p]), seen)
    BY <1>1, <1>2, <2>3, <2>4, AwakenedTail
  <2>6. plan'[p] = Tail(plan[p]) /\ seen' = seen
    BY <1>1, <1>2
  <2> QED BY <2>1, <2>5, <2>6 DEF w
<1> QED BY <1>5, <1>6 DEF RunsInv

\* A start keeps it: the plan of a process that starts wakes a thread that the user names.
LEMMA RunsStart ==
  ASSUME IndexInv, RunsInv, Alone, NEW p \in Procs, Start(p)
  PROVE  RunsInv'
<1> DEFINE m == Woken(Loaded)
<1>1. PICK pl \in Seq(Steps) :
        /\ mem' = [mem EXCEPT ![p] = m] /\ plan' = [plan EXCEPT ![p] = pl] /\ Good(m, pl)
        /\ m.thr[Reached(m, pl).t] = "background" => Reached(m, pl).t \in seen'
        /\ seen \subseteq seen' /\ UNCHANGED <<log, task, runs, loosed>>
  BY StartIs
<1> HIDE DEF m
<1>2. Rebuilt' = Rebuilt
  BY <1>1 DEF Rebuilt, EmptyIndex
<1>3. RunThreads'
  BY <1>1, <1>2 DEF RunsInv, RunThreads
<1>4. Wakes(m, pl, Reached(m, pl).t)
  BY <1>1 DEF Good
<1>5. Awakened(m, pl, seen')
  BY <1>1, <1>4, Awakening
<1>6. ASSUME NEW q \in Procs PROVE Awakened(mem'[q], plan'[q], seen')
  <2>1. q = p
    BY DEF Alone
  <2>2. mem'[p] = m /\ plan'[p] = pl
    BY <1>1 DEF IndexInv, TypeOK
  <2> QED BY <1>5, <2>1, <2>2
<1> QED BY <1>3, <1>6 DEF RunsInv

\* A crash keeps it.
LEMMA RunsCrash ==
  ASSUME IndexInv, RunsInv, Alone, NEW p \in Procs, Crash(p)
  PROVE  RunsInv'
<1>1. mem' = [mem EXCEPT ![p] = Down] /\ UNCHANGED <<log, snap, head, home, seen, runs, loosed>>
  BY DEF Crash
<1>2. Rebuilt' = Rebuilt
  BY <1>1 DEF Rebuilt, EmptyIndex
<1>3. RunThreads'
  BY <1>1, <1>2 DEF RunsInv, RunThreads
<1>4. ASSUME NEW q \in Procs PROVE ~mem'[q].up
  <2>1. q = p
    BY DEF Alone
  <2>2. mem'[p] = Down
    BY <1>1 DEF IndexInv, TypeOK
  <2> QED BY <2>1, <2>2 DEF Down
<1> QED BY <1>3, <1>4 DEF RunsInv

\* Every step does.
LEMMA RunsStep ==
  ASSUME IndexInv, SoloInv, RunsInv, Alone, [Next]_vars
  PROVE  RunsInv'
<1>1. CASE UNCHANGED vars
  <2>1. UNCHANGED <<log, snap, mem, head, plan, task, home, seen, runs, loosed, crashes>>
    BY <1>1 DEF vars
  <2>2. Rebuilt' = Rebuilt
    BY <2>1 DEF Rebuilt, EmptyIndex
  <2> QED BY <2>1, <2>2 DEF RunsInv, RunThreads, Awakened
<1>2. CASE \E p \in Procs : Start(p) \/ AppendStep(p) \/ SaveStep(p) \/ Crash(p) \/ Planning(p)
  BY <1>2, RunsStart, RunsAppend, RunsSave, RunsCrash, RunsPlanning
<1> QED BY <1>1, <1>2, NextIs

\* A process that is idle and has no run to come back from is in a session; its thread is
\* not one that a run has made, but by the user or a run.
LEMMA NotHijacked ==
  ASSUME IndexInv, SoloInv, RunsInv
  PROVE  ChatNotHijacked
<1> SUFFICES ASSUME NEW p \in Procs, Idle(p), task[p] = Nobody
             PROVE  /\ mem[p].actT # Nobody
                    /\ mem[p].actT \in runs => mem[p].actT \in seen \cup loosed
  BY DEF ChatNotHijacked
<1> DEFINE t == mem[p].actT
<1>1. /\ mem[p] \in Minds /\ Placed(mem[p]) /\ mem[p].up
      /\ mem[p].thr[t] = "background" => t \in seen
  BY IdleIs
<1>2. t \in Tids
  BY <1>1, MindIs DEF Placed
<1>3. Rebuilt.thr = mem[p].thr
  BY <1>1, Typed DEF SoloInv
<1>4. t \in runs => t \in seen \cup loosed \/ Rebuilt.thr[t] = "background"
  BY DEF RunsInv, RunThreads
<1> HIDE DEF t
<1> QED BY <1>1, <1>2, <1>3, <1>4, NobodyIs DEF t

\* With one process the chat is not left in a thread that a scheduled run has made, unless
\* the user has gone there or a run has made the thread interactive: neither by the way back
\* from the run, nor by a restart in the middle of it or later (schedulerDispatcher,
\* switchToExistingSession, _selectActiveFromIndex).
THEOREM ChatIsNotHijacked == ASSUME Alone PROVE Spec => []ChatNotHijacked
<1>1. Init => RunsInv
  <2> SUFFICES ASSUME Init PROVE RunsInv
    OBVIOUS
  <2>1. runs = {} /\ mem = [p \in Procs |-> Down]
    BY DEF Init
  <2>2. \A p \in Procs : ~mem[p].up
    BY <2>1 DEF Down
  <2> QED BY <2>1, <2>2 DEF RunsInv, RunThreads
<1>2. IndexInv /\ SoloInv /\ RunsInv /\ [Next]_vars => RunsInv'
  BY RunsStep
<1>3. IndexInv /\ SoloInv /\ RunsInv => ChatNotHijacked
  BY NotHijacked
<1>4. Spec => [](IndexInv /\ SoloInv)
  BY SoloInvariant
<1> QED BY <1>1, <1>2, <1>3, <1>4, PTL DEF Spec

------------------------------------------------------------------------------
(* One process: where its messages are.                                    *)

\* An event lies in the range of a row, and in its thread.
Within(row, e, pos) == pos > row.start /\ (row.end = 0 \/ pos < row.end) /\ e.thread = row.thread

\* Every message has a session of the log, and it covers the message.
HasHome(x, l, h, pos) == h[pos] \in Sids /\ x.sess[h[pos]] # Nobody /\ Within(x.sess[h[pos]], l[pos], pos)
Housed == \A pos \in 1 .. Len(log) : log[pos].kind = "message" => HasHome(Rebuilt, log, home, pos)

\* The session a message is appended in.
LEMMA Housing ==
  ASSUME IndexInv, NEW p \in Procs, plan[p] # <<>>, plan[p][1].ev # Nobody, plan[p][1].ev.kind = "message"
  PROVE  LET s == mem[p].act
             x == Idx(mem[p])
         IN  /\ s \in Sids /\ Open(x, s) /\ x.sess[s].thread = plan[p][1].ev.thread
             /\ plan[p][1].act = Nobody /\ x.sess[s].start <= Len(log)
             /\ plan[p][1].do.adds = Nobody /\ plan[p][1].do.ends = Nobody
<1> DEFINE x == Idx(mem[p])
           pl == plan[p]
           r == Reached(mem[p], pl)
<1>1. /\ PlanOK(x, pl, Len(log)) /\ Lands(x, pl, r) /\ MessageLast(x, pl, r)
  BY Acting
<1>2. pl \in Seq(Steps) /\ Len(pl) \in Nat /\ Len(pl) >= 1 /\ 1 \in 1 .. Len(pl) /\ x \in Index /\ Len(log) \in Nat
  BY Typed, TailIs
<1>3. Agrees(pl[1].ev, pl[1].do)
  BY <1>1, <1>2, HeadPossible
<1> HIDE DEF x, pl, r
<1>4. pl[1].do.adds = Nobody /\ pl[1].do.ends = Nobody
  BY <1>3 DEF Agrees, pl
<1>5. /\ 1 = Len(pl) /\ pl[1].act = Nobody /\ pl[1].ev.thread = r.t
      /\ Open(x, r.s) \/ \E j \in 1 .. Len(pl) : pl[j].do.adds = r.s
  BY <1>1, <1>2 DEF MessageLast, pl
<1>6. r = At(mem[p].act, mem[p].actT)
  <2>1. \A i \in DOMAIN pl : pl[i].act = Nobody
    BY <1>2, <1>5
  <2> QED BY <2>1, ReachedNone DEF r
<1>7. r.s = mem[p].act /\ r.t = mem[p].actT
  BY <1>6 DEF At
<1>8. \A j \in 1 .. Len(pl) : pl[j].do.adds = Nobody
  <2> TAKE j \in 1 .. Len(pl)
  <2>1. 1 = Len(pl)
    BY <1>5
  <2>2. j \in 1 .. 1
    BY <2>1
  <2>3. j = 1
    BY <2>2
  <2> QED BY <1>4, <2>3
<1>9. r.s \in Sids /\ r.s # Nobody
  BY <1>1, NobodyIs DEF Lands, Places
<1>10. Open(x, r.s) /\ x.sess[r.s].thread = r.t
  <2>1. Open(x, r.s)
    BY <1>5, <1>8, <1>9
  <2>2. x.sess[r.s].thread = r.t
    BY <1>1, <1>8, <1>9 DEF Lands
  <2> QED BY <2>1, <2>2
<1>11. Grounded(x, log) /\ x.sess[r.s] # Nobody
  BY <1>9, <1>10 DEF IndexInv, ProcessInv, x, Open, Known
<1>12. x.sess[r.s].start <= Len(log)
  BY <1>9, <1>11 DEF Grounded
<1> QED BY <1>4, <1>5, <1>7, <1>9, <1>10, <1>12 DEF x, pl

\* An append keeps every message in its session: a row may end, but behind its messages.
LEMMA HousedAppend ==
  ASSUME IndexInv, SoloInv, Alone, Housed, NEW p \in Procs, AppendStep(p)
  PROVE  Housed'
<1> DEFINE e == plan[p][1].ev
           d == plan[p][1].do
           x == Idx(mem[p])
           n == Len(log) + 1
           y == Wrote(x, d, n)
           w == mem'[p]
<1>1. /\ plan[p] # <<>> /\ e # Nobody /\ mem[p].up /\ e \in Events /\ d \in Effects
      /\ Agrees(e, d) /\ Possible(x, e, d)
      /\ log' = Append(log, e)
      /\ plan[p][1].act = Nobody => w.act = mem[p].act
      /\ home' = Append(home, IF e.kind = "message" THEN w.act ELSE Nobody)
  BY Appended
<1>2. x \in Index /\ log \in Seq(Events) /\ Len(log) \in Nat /\ home \in Seq(Sids \cup {Nobody}) /\ Len(home) = Len(log)
  BY Typed DEF IndexInv, TypeOK
<1>3. Rebuilt = x /\ Rebuilt' = y
  BY SoloAppend
<1> HIDE DEF e, d, x, n, y, w
<1>4. /\ Len(log') = n /\ log'[n] = e /\ (\A i \in 1 .. Len(log) : log'[i] = log[i])
      /\ \A i \in 1 .. Len(log) : home'[i] = home[i]
      /\ home'[n] = IF e.kind = "message" THEN w.act ELSE Nobody
  BY <1>1, <1>2 DEF n
<1>5. ASSUME NEW pos \in 1 .. Len(log), log'[pos].kind = "message"
      PROVE  HasHome(y, log', home', pos)
  <2> DEFINE s == home[pos]
  <2>1. s \in Sids /\ x.sess[s] # Nobody /\ Within(x.sess[s], log[pos], pos) /\ home'[pos] = s /\ log'[pos] = log[pos]
    BY <1>3, <1>4, <1>5 DEF Housed, HasHome
  <2>2. x.sess[s] \in Sessions
    BY <1>2, <2>1 DEF Index, Tables
  <2>3. s # d.adds
    BY <1>1, <2>1, NobodyIs DEF Possible
  <2> HIDE DEF s
  <2>4. y.sess[s] = IF s = d.ends THEN [x.sess[s] EXCEPT !.end = n]
                    ELSE IF s = d.names THEN [x.sess[s] EXCEPT !.name = n] ELSE x.sess[s]
    BY <2>1, <2>3 DEF y, Wrote
  <2>5. s = d.ends => y.sess[s].end = n /\ y.sess[s].start = x.sess[s].start /\ y.sess[s].thread = x.sess[s].thread
                      /\ y.sess[s] \in Sessions
    <3> SUFFICES ASSUME s = d.ends
                 PROVE  y.sess[s].end = n /\ y.sess[s].start = x.sess[s].start /\ y.sess[s].thread = x.sess[s].thread
                        /\ y.sess[s] \in Sessions
      OBVIOUS
    <3>1. y.sess[s] = [x.sess[s] EXCEPT !.end = n]
      BY <2>4
    <3> HIDE DEF y
    <3>2. n \in Nat
      BY <1>2 DEF n
    <3> QED BY <2>2, <3>1, <3>2 DEF Sessions
  <2>6. s # d.ends => y.sess[s].end = x.sess[s].end /\ y.sess[s].start = x.sess[s].start
                      /\ y.sess[s].thread = x.sess[s].thread /\ y.sess[s] \in Sessions
    <3>1. CASE s = d.names
      BY <1>2, <2>2, <2>4, <3>1 DEF Sessions, n
    <3>2. CASE s # d.names
      BY <2>2, <2>4, <3>2
    <3> QED BY <3>1, <3>2
  <2>7. y.sess[s] # Nobody
    BY <2>5, <2>6, SessionIndexAssumption
  <2>8. n \in Nat /\ pos < n /\ n # 0
    BY <1>2 DEF n
  <2>9. Within(y.sess[s], log[pos], pos)
    BY <2>1, <2>5, <2>6, <2>8 DEF Within
  <2> QED BY <2>1, <2>7, <2>9 DEF HasHome
<1>6. ASSUME e.kind = "message"
      PROVE  HasHome(y, log', home', n)
  <2> DEFINE s == mem[p].act
  <2>1. /\ s \in Sids /\ Open(x, s) /\ x.sess[s].thread = e.thread /\ plan[p][1].act = Nobody
        /\ x.sess[s].start <= Len(log) /\ d.adds = Nobody /\ d.ends = Nobody
    BY <1>1, <1>6, Housing DEF e, d, x
  <2>2. d.names = Nobody
    BY <1>1, <1>6 DEF Agrees
  <2>3. y.sess[s] = x.sess[s]
    BY <2>1, <2>2, NobodyIs DEF y, Wrote
  <2>4. home'[n] = s
    BY <1>1, <1>4, <1>6, <2>1
  <2> HIDE DEF s
  <2>5. x.sess[s] # Nobody /\ x.sess[s].end = 0
    BY <2>1 DEF Open, Known
  <2>6. x.sess[s] \in Sessions /\ x.sess[s].start \in Nat
    <3>1. x.sess[s] \in Sessions
      BY <1>2, <2>1, <2>5 DEF Index, Tables
    <3> QED BY <3>1 DEF Sessions
  <2>7. n > x.sess[s].start
    BY <1>2, <2>1, <2>6 DEF n
  <2>8. Within(y.sess[s], e, n)
    BY <2>1, <2>3, <2>5, <2>7 DEF Within
  <2> QED BY <1>4, <2>1, <2>3, <2>4, <2>5, <2>8 DEF HasHome
<1>7. \A pos \in 1 .. Len(log') : pos = n \/ pos \in 1 .. Len(log)
  BY <1>2, <1>4 DEF n
<1> QED BY <1>3, <1>4, <1>5, <1>6, <1>7 DEF Housed

\* Every step does.
LEMMA HousedStep ==
  ASSUME IndexInv, SoloInv, Alone, Housed, [Next]_vars
  PROVE  Housed'
<1>1. ASSUME UNCHANGED <<log, home>> PROVE Housed'
  <2>1. Rebuilt' = Rebuilt
    BY <1>1 DEF Rebuilt, EmptyIndex
  <2> QED BY <1>1, <2>1 DEF Housed
<1>2. CASE UNCHANGED vars
  BY <1>1, <1>2 DEF vars
<1>3. ASSUME NEW p \in Procs, SaveStep(p) PROVE Housed'
  BY <1>1, <1>3, Saved
<1>4. ASSUME NEW p \in Procs, Start(p) \/ Crash(p) \/ Planning(p) PROVE Housed'
  BY <1>1, <1>4, SoloStart, SoloCrash, PlanningIs
<1>5. CASE \E p \in Procs : Start(p) \/ AppendStep(p) \/ SaveStep(p) \/ Crash(p) \/ Planning(p)
  BY <1>3, <1>4, <1>5, HousedAppend
<1> QED BY <1>2, <1>5, NextIs

\* With one process a message is, and stays, in the context of the session it was written
\* in, whatever branches, ends or continues that session afterwards.
THEOREM MessagesKeepTheirSession == ASSUME Alone PROVE Spec => []MessageKeepsItsSession
<1>1. Init => Housed
  <2> SUFFICES ASSUME Init PROVE Housed
    OBVIOUS
  <2>1. Len(log) = 0
    BY DEF Init
  <2> QED BY <2>1 DEF Housed
<1>2. IndexInv /\ SoloInv /\ Housed /\ [Next]_vars => Housed'
  BY HousedStep
<1>3. IndexInv /\ Housed => MessageKeepsItsSession
  <2> SUFFICES ASSUME IndexInv, Housed, NEW pos \in DOMAIN log, log[pos].kind = "message"
               PROVE  Covers(Rebuilt, home[pos], pos)
    BY DEF MessageKeepsItsSession
  <2>1. pos \in 1 .. Len(log)
    BY DEF IndexInv, TypeOK
  <2>2. Within(Rebuilt.sess[home[pos]], log[pos], pos)
    BY <2>1 DEF Housed, HasHome
  <2> QED BY <2>2 DEF Within, Covers
<1>4. Spec => [](IndexInv /\ SoloInv)
  BY SoloInvariant
<1> QED BY <1>1, <1>2, <1>3, <1>4, PTL DEF Spec
=============================================================================
