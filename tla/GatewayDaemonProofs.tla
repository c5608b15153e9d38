------------------------- MODULE GatewayDaemonProofs -------------------------
(***************************************************************************)
(* Theorems about GatewayDaemon, for any number of gateways, clients,      *)
(* channels and failures: no adapter is forgotten by its supervisor, and   *)
(* none outlives its gateway unless that was killed or asked to start it   *)
(* while it stopped.                                                       *)
(***************************************************************************)
EXTENDS GatewayDaemon, TLAPS

Confs == {"none", "on", "off"}
Entries == [child : 0 .. Dead, restarts : Nat, timer : BOOLEAN,
            why : {"none", "crash", "spawn"}]
Supervisors == [conf : [Channels -> Confs], entry : [Channels -> Entries],
                settings : BOOLEAN, started : BOOLEAN, shuttingDown : BOOLEAN]
AdapterRecords == [gateway : Daemons, channel : Channels, n : 1 .. MaxAlive, told : BOOLEAN]
Phases == {"new", "booting", "probing", "taking", "relisten", "bound", "up", "draining",
           "closed", "gone"}

SupTypes ==
  /\ file \in [Channels -> Confs] /\ sup \in [Daemons -> Supervisors]
  /\ adapters \subseteq AdapterRecords

\* An adapter is known by its number.
Distinct ==
  \A a, b \in adapters :
    a.gateway = b.gateway /\ a.channel = b.channel /\ a.n = b.n => a = b

\* What a supervisor with the configuration and entries of s knows of an adapter, when
\* the last changes of the channels U were not written.
Known(s, U, a) ==
  /\ s.entry[a.channel].child = a.n
  /\ s.conf[a.channel] = "on" \/ <<a.gateway, a.channel>> \in U
\* No adapter that means to stay is forgotten, be its gateway alive or not.
NoneForgotten == \A a \in adapters : ~a.told => Known(sup[a.gateway], unsaved, a)

SupInv == SupTypes /\ Distinct /\ NoneForgotten

AllTold(d) == \A a \in adapters : a.gateway = d => a.told
\* A supervisor that was never started runs nothing and waits for nothing.
Unstarted(s) ==
  /\ ~s.settings /\ ~s.started
  /\ \A c \in Channels : s.entry[c].child = 0 /\ ~s.entry[c].timer

Before(d) == gw[d] \in {"new", "booting", "probing", "taking", "relisten", "bound"}
StopsOrStopped(d) == gw[d] \in {"draining", "closed", "gone"}

\* How far a gateway is, and what its supervisor does.
PhaseOK(d) ==
  /\ Before(d) => Unstarted(sup[d])
  /\ gw[d] \in {"draining", "closed"} => sup[d].shuttingDown /\ ~sup[d].settings
  /\ StopsOrStopped(d) /\ d \notin late => AllTold(d)

IInv == SupInv /\ gw \in [Daemons -> Phases] /\ \A d \in Daemons : PhaseOK(d)
PathOK == path \in Daemons \cup {Nobody}

------------------------------------------------------------------------------
(* Stopping and starting adapters.                                         *)

DistinctIn(A) ==
  \A a, b \in A : a.gateway = b.gateway /\ a.channel = b.channel /\ a.n = b.n => a = b

\* Who was not told after a signal was none of those that were stopped.
LEMMA Signals ==
  ASSUME SupInv, NEW d \in Daemons, NEW C \in SUBSET Channels
  PROVE  LET S == Signalled(adapters, d, C) IN
         /\ S \subseteq AdapterRecords /\ DistinctIn(S)
         /\ \A b \in S : ~b.told => b \in adapters /\ ~(b.gateway = d /\ b.channel \in C)
         /\ \A b \in S : \E a \in adapters :
              a.gateway = b.gateway /\ a.channel = b.channel /\ a.n = b.n
<1> DEFINE Image(a) == IF a.gateway = d /\ a.channel \in C /\ a.n = sup[d].entry[a.channel].child
                       THEN [a EXCEPT !.told = TRUE] ELSE a
           S == Signalled(adapters, d, C)
<1>1. \A a \in adapters :
        /\ Image(a) \in AdapterRecords
        /\ Image(a).gateway = a.gateway /\ Image(a).channel = a.channel /\ Image(a).n = a.n
  BY DEF SupInv, SupTypes, AdapterRecords
<1>2. \A a \in adapters : ~Image(a).told =>
        Image(a) = a /\ ~(a.gateway = d /\ a.channel \in C)
  BY DEF SupInv, SupTypes, AdapterRecords, NoneForgotten, Known
<1>3. S = {Image(a) : a \in adapters}
  BY DEF Signalled
<1> HIDE DEF Image
<1>4. S \subseteq AdapterRecords
  BY <1>1, <1>3
<1>5. DistinctIn(S)
  BY <1>1, <1>3 DEF DistinctIn, SupInv, Distinct
<1>6. \A b \in S : ~b.told => b \in adapters /\ ~(b.gateway = d /\ b.channel \in C)
  BY <1>2, <1>3
<1>7. \A b \in S : \E a \in adapters :
        a.gateway = b.gateway /\ a.channel = b.channel /\ a.n = b.n
  BY <1>1, <1>3
<1> QED
  BY <1>4, <1>5, <1>6, <1>7

\* The number of a new adapter is free.
LEMMA NumberIsFree ==
  ASSUME NEW d \in Daemons, HasRoom(d), NEW c \in Channels
  PROVE  /\ Number(adapters, d, c) \in 1 .. MaxAlive
         /\ \A a \in adapters : a.gateway = d /\ a.channel = c => a.n # Number(adapters, d, c)
<1>1. Number(adapters, d, c) \in Free(adapters, d, c)
  BY DEF Number, HasRoom
<1> QED
  BY <1>1 DEF Free, Of

\* Who was not told after a spawn is one that was left alone, or one of the new.
LEMMA Births ==
  ASSUME SupInv, NEW d \in Daemons, NEW C \in SUBSET Channels, NEW run \in SUBSET C,
         HasRoom(d)
  PROVE  LET B == Born(adapters, d, C, run) IN
         /\ B \subseteq AdapterRecords /\ DistinctIn(B)
         /\ \A b \in B : ~b.told =>
              \/ b \in adapters /\ ~(b.gateway = d /\ b.channel \in C)
              \/ b.gateway = d /\ b.channel \in run /\ b.n = Number(adapters, d, b.channel)
<1> DEFINE S == Signalled(adapters, d, C)
           N == {Adapter(d, c, Number(adapters, d, c), FALSE) : c \in run}
           B == Born(adapters, d, C, run)
<1>1. /\ S \subseteq AdapterRecords /\ DistinctIn(S)
      /\ \A b \in S : ~b.told => b \in adapters /\ ~(b.gateway = d /\ b.channel \in C)
      /\ \A b \in S : \E a \in adapters :
           a.gateway = b.gateway /\ a.channel = b.channel /\ a.n = b.n
  BY Signals
<1>2. B = S \cup N
  BY DEF Born
<1>3. \A b \in N : /\ b \in AdapterRecords /\ b.gateway = d /\ b.channel \in run
                   /\ b.n = Number(adapters, d, b.channel) /\ ~b.told
  <2> SUFFICES ASSUME NEW c \in run
               PROVE  LET b == Adapter(d, c, Number(adapters, d, c), FALSE) IN
                      /\ b \in AdapterRecords /\ b.gateway = d /\ b.channel \in run
                      /\ b.n = Number(adapters, d, b.channel) /\ ~b.told
    OBVIOUS
  <2>1. Number(adapters, d, c) \in 1 .. MaxAlive
    BY NumberIsFree
  <2> QED
    BY <2>1 DEF Adapter, AdapterRecords
<1>4. \A b, e \in N : b.channel = e.channel => b = e
  <2>1. \A c \in run : Adapter(d, c, Number(adapters, d, c), FALSE).channel = c
    BY DEF Adapter
  <2> QED
    BY <2>1
<1>5. ASSUME NEW b \in S, NEW e \in N
      PROVE  ~(b.gateway = e.gateway /\ b.channel = e.channel /\ b.n = e.n)
  <2>1. PICK a \in adapters : a.gateway = b.gateway /\ a.channel = b.channel /\ a.n = b.n
    BY <1>1
  <2>2. /\ e.gateway = d /\ e.channel \in run /\ e.channel \in Channels
        /\ e.n = Number(adapters, d, e.channel)
    BY <1>3
  <2>3. \A x \in adapters : x.gateway = d /\ x.channel = e.channel
                             => x.n # Number(adapters, d, e.channel)
    BY <2>2, NumberIsFree
  <2> QED
    BY <2>1, <2>2, <2>3
<1> HIDE DEF S, N, B
<1>6. DistinctIn(B)
  BY <1>1, <1>2, <1>4, <1>5 DEF DistinctIn
<1>7. B \subseteq AdapterRecords
  BY <1>1, <1>2, <1>3
<1>8. \A b \in B : ~b.told =>
        \/ b \in adapters /\ ~(b.gateway = d /\ b.channel \in C)
        \/ b.gateway = d /\ b.channel \in run /\ b.n = Number(adapters, d, b.channel)
  BY <1>1, <1>2, <1>3
<1> QED
  BY <1>6, <1>7, <1>8 DEF B

------------------------------------------------------------------------------
(* The operations of a supervisor.                                         *)

\* What an entry may become.
LEMMA EntryTypes ==
  ASSUME NEW e \in Entries, NEW s, NEW long \in BOOLEAN
  PROVE  /\ Stopped(e) \in Entries
         /\ [e EXCEPT !.child = 0] \in Entries
         /\ Respawning(s, e, long) \in Entries
         /\ Fired(e) \in Entries /\ Fired(e).child = e.child /\ ~Fired(e).timer
         /\ [e EXCEPT !.restarts = 0] \in Entries
<1>1. 0 \in 0 .. Dead
  BY SupervisorAssumption DEF Dead
<1>2. Stopped(e) \in Entries
  BY <1>1 DEF Entries, Stopped
<1>3. [e EXCEPT !.child = 0] \in Entries
  BY <1>1 DEF Entries
<1>4. Respawning(s, e, long) \in Entries
  <2> DEFINE n == IF long THEN 1 ELSE e.restarts + 1
             z == ~s.shuttingDown /\ n <= RespawnMax
  <2>1. n \in Nat
    BY DEF Entries
  <2>2. z \in BOOLEAN
    OBVIOUS
  <2>3. Respawning(s, e, long) =
          [e EXCEPT !.child = 0, !.why = "crash", !.restarts = n, !.timer = z]
    BY DEF Respawning
  <2> HIDE DEF n, z
  <2> QED
    BY <1>1, <2>1, <2>2, <2>3 DEF Entries
<1>5. Fired(e) \in Entries /\ Fired(e).child = e.child /\ ~Fired(e).timer
  BY DEF Entries, Fired
<1>6. [e EXCEPT !.restarts = 0] \in Entries
  BY DEF Entries
<1> QED
  BY <1>2, <1>3, <1>4, <1>5, <1>6

\* How an entry looks after a spawn.
LEMMA SpawnedTypes ==
  ASSUME NEW e \in Entries, NEW n \in 1 .. MaxAlive, NEW how \in {"runs", "throws", "fails"}
  PROVE  Spawned(e, n, how) \in Entries /\ (how = "runs" => Spawned(e, n, how).child = n)
<1>1. Stopped(e) \in Entries
  BY EntryTypes
<1> DEFINE k == CASE how = "runs" -> n [] how = "throws" -> 0 [] OTHER -> Dead
           w == IF how = "runs" THEN "none" ELSE "spawn"
<1>2. k \in 0 .. Dead /\ (how = "runs" => k = n)
  BY SupervisorAssumption DEF Dead
<1>3. w \in {"none", "crash", "spawn"}
  OBVIOUS
<1>4. Spawned(e, n, how) = [Stopped(e) EXCEPT !.child = k, !.why = w]
  BY DEF Spawned
<1> HIDE DEF k, w
<1> QED
  BY <1>1, <1>2, <1>3, <1>4 DEF Entries

\* What is left alone is known to the state s of the supervisor of d.
KeepsOthers(d, s, C) ==
  \A a \in adapters : a.gateway = d /\ a.channel \notin C /\ ~a.told => Known(s, unsaved', a)
\* Nothing changes for the other gateways.
OthersAlone(d) ==
  /\ \A e \in Daemons : e # d => sup'[e] = sup[e]
  /\ \A a \in adapters' : ~a.told /\ a.gateway # d => a \in adapters
\* The changes that were not written are still, but for C of d.
StillUnsaved(d, C) ==
  \A e \in Daemons, c \in Channels :
    <<e, c>> \in unsaved /\ ~(e = d /\ c \in C) => <<e, c>> \in unsaved'

LEMMA StillKnown ==
  ASSUME NEW d \in Daemons, NEW C \in SUBSET Channels, StillUnsaved(d, C),
         NEW a \in AdapterRecords, NEW s, Known(s, unsaved, a),
         ~(a.gateway = d /\ a.channel \in C)
  PROVE  Known(s, unsaved', a)
BY DEF StillUnsaved, Known, AdapterRecords

\* What changes of C are written and what is not.
LEMMA ChangeKeeps ==
  ASSUME NEW d \in Daemons, NEW c \in Channels, NEW written \in BOOLEAN,
         Change(d, c, written)
  PROVE  StillUnsaved(d, {c}) /\ (~written => <<d, c>> \in unsaved' /\ StillUnsaved(d, {}))
BY DEF Change, StillUnsaved

\* Starting the adapters of C, into the state s.
LEMMA SpawnAllKeeps ==
  ASSUME SupInv, NEW d \in Daemons, NEW s \in Supervisors, NEW C \in SUBSET Channels,
         SpawnAll(d, s, C), \A c \in C : s.conf[c] = "on", KeepsOthers(d, s, C),
         file' \in [Channels -> Confs], StillUnsaved(d, C)
  PROVE  SupInv' /\ OthersAlone(d)
<1>0. PICK how \in [C -> {"runs", "throws", "fails"}] :
        /\ adapters' = Born(adapters, d, C, {c \in C : how[c] = "runs"})
        /\ sup' = [sup EXCEPT ![d] = [s EXCEPT !.entry =
             [c \in Channels |-> IF c \in C THEN Spawned(s.entry[c], Number(adapters, d, c), how[c])
                                ELSE s.entry[c]]]]
  BY DEF SpawnAll
<1> DEFINE run == {c \in C : how[c] = "runs"}
           New(c) == Spawned(s.entry[c], Number(adapters, d, c), how[c])
           t == [s EXCEPT !.entry =
                  [c \in Channels |-> IF c \in C THEN New(c) ELSE s.entry[c]]]
<1>1. /\ HasRoom(d) /\ adapters' = Born(adapters, d, C, run)
      /\ sup' = [sup EXCEPT ![d] = t]
  BY <1>0 DEF SpawnAll
<1>2. /\ adapters' \subseteq AdapterRecords /\ DistinctIn(adapters')
      /\ \A b \in adapters' : ~b.told =>
           \/ b \in adapters /\ ~(b.gateway = d /\ b.channel \in C)
           \/ b.gateway = d /\ b.channel \in run /\ b.n = Number(adapters, d, b.channel)
  BY <1>1, Births
<1>3. \A c \in C : New(c) \in Entries /\ (c \in run => New(c).child = Number(adapters, d, c))
  <2> SUFFICES ASSUME NEW c \in C
               PROVE  New(c) \in Entries /\ (c \in run => New(c).child = Number(adapters, d, c))
    OBVIOUS
  <2>1. Number(adapters, d, c) \in 1 .. MaxAlive
    BY <1>1, NumberIsFree
  <2>2. s.entry[c] \in Entries
    BY DEF Supervisors
  <2> QED
    BY <2>1, <2>2, SpawnedTypes
<1> HIDE DEF New
<1>4. /\ t \in Supervisors /\ t.conf = s.conf
      /\ \A c \in C : t.entry[c] = New(c)
      /\ \A c \in Channels \ C : t.entry[c] = s.entry[c]
  BY <1>3 DEF Supervisors
<1> HIDE DEF t
<1>5. SupTypes'
  BY <1>1, <1>2, <1>4 DEF SupInv, SupTypes
<1>6. sup'[d] = t /\ \A e \in Daemons : e # d => sup'[e] = sup[e]
  BY <1>1 DEF SupInv, SupTypes
<1>7. OthersAlone(d)
  BY <1>2, <1>6 DEF OthersAlone
<1>8. ASSUME NEW b \in adapters', ~b.told
      PROVE  Known(sup'[b.gateway], unsaved', b)
  <2>1. CASE b.gateway # d
    <3>1. b \in adapters /\ b \in AdapterRecords /\ Known(sup[b.gateway], unsaved, b)
      BY <1>2, <1>8, <2>1 DEF SupInv, NoneForgotten
    <3>2. Known(sup[b.gateway], unsaved', b)
      BY <2>1, <3>1, StillKnown
    <3> QED
      BY <1>6, <2>1, <3>1, <3>2 DEF AdapterRecords
  <2>2. CASE b.gateway = d /\ b.channel \in C
    <3>1. b.channel \in run /\ b.n = Number(adapters, d, b.channel)
      BY <1>2, <1>8, <2>2
    <3> QED
      BY <1>3, <1>4, <1>6, <2>2, <3>1 DEF Known
  <2>3. CASE b.gateway = d /\ b.channel \notin C
    <3>1. b \in adapters /\ Known(s, unsaved', b)
      BY <1>2, <1>8, <2>3 DEF KeepsOthers
    <3>2. b.channel \in Channels \ C
      BY <1>2, <2>3 DEF AdapterRecords
    <3> QED
      BY <1>4, <1>6, <2>3, <3>1, <3>2 DEF Known
  <2> QED
    BY <2>1, <2>2, <2>3
<1> QED
  BY <1>2, <1>5, <1>7, <1>8 DEF SupInv, NoneForgotten, Distinct, DistinctIn

\* What KeepsOthers asks, when the state is the supervisor's own but for C.
LEMMA OwnKeepsOthers ==
  ASSUME SupInv, NEW d \in Daemons, NEW s \in Supervisors, NEW C \in SUBSET Channels,
         StillUnsaved(d, C),
         \A c \in Channels \ C : s.entry[c] = sup[d].entry[c] /\ s.conf[c] = sup[d].conf[c]
  PROVE  KeepsOthers(d, s, C)
<1> SUFFICES ASSUME NEW a \in adapters, a.gateway = d, a.channel \notin C, ~a.told
             PROVE  Known(s, unsaved', a)
  BY DEF KeepsOthers
<1>1. a \in AdapterRecords /\ Known(sup[d], unsaved, a)
  BY DEF SupInv, SupTypes, NoneForgotten
<1>2. Known(sup[d], unsaved', a)
  BY <1>1, StillKnown
<1> QED
  BY <1>1, <1>2 DEF Known, AdapterRecords

\* The supervisor of d changes to t, adapters of C are told to stop.
LEMMA UpdateKeeps ==
  ASSUME SupInv, NEW d \in Daemons, NEW t \in Supervisors, NEW C \in SUBSET Channels,
         sup' = [sup EXCEPT ![d] = t], file' \in [Channels -> Confs],
         adapters' = Signalled(adapters, d, C) \/ (adapters' = adapters /\ C = {}),
         KeepsOthers(d, t, C), StillUnsaved(d, C)
  PROVE  /\ SupInv' /\ OthersAlone(d) /\ sup'[d] = t
         /\ \A a \in adapters' : ~a.told => a \in adapters /\ ~(a.gateway = d /\ a.channel \in C)
<1>1. /\ adapters' \subseteq AdapterRecords /\ DistinctIn(adapters')
      /\ \A b \in adapters' : ~b.told => b \in adapters /\ ~(b.gateway = d /\ b.channel \in C)
  <2>1. CASE adapters' = adapters /\ C = {}
    BY <2>1 DEF SupInv, SupTypes, Distinct, DistinctIn
  <2>2. CASE adapters' = Signalled(adapters, d, C)
    BY <2>2, Signals
  <2> QED
    BY <2>1, <2>2
<1>2. sup'[d] = t /\ \A e \in Daemons : e # d => sup'[e] = sup[e]
  BY DEF SupInv, SupTypes
<1>3. SupTypes'
  BY <1>1 DEF SupInv, SupTypes
<1>4. OthersAlone(d)
  BY <1>1, <1>2 DEF OthersAlone
<1>5. ASSUME NEW b \in adapters', ~b.told
      PROVE  Known(sup'[b.gateway], unsaved', b)
  <2>1. CASE b.gateway # d
    <3>1. b \in adapters /\ b \in AdapterRecords /\ Known(sup[b.gateway], unsaved, b)
      BY <1>1, <1>5, <2>1 DEF SupInv, NoneForgotten
    <3>2. Known(sup[b.gateway], unsaved', b)
      BY <2>1, <3>1, StillKnown
    <3> QED
      BY <1>2, <2>1, <3>1, <3>2 DEF AdapterRecords
  <2>2. CASE b.gateway = d
    BY <1>1, <1>2, <1>5, <2>2 DEF KeepsOthers
  <2> QED
    BY <2>1, <2>2
<1> QED
  BY <1>1, <1>2, <1>3, <1>4, <1>5 DEF SupInv, NoneForgotten, Distinct, DistinctIn

\* Stopping the adapters of C, into the state s.
LEMMA StopAllKeeps ==
  ASSUME SupInv, NEW d \in Daemons, NEW s \in Supervisors, NEW C \in SUBSET Channels,
         StopAll(d, s, C), KeepsOthers(d, s, C), file' \in [Channels -> Confs],
         StillUnsaved(d, C)
  PROVE  /\ SupInv' /\ OthersAlone(d)
         /\ sup'[d].settings = s.settings /\ sup'[d].shuttingDown = s.shuttingDown
         /\ \A a \in adapters' : ~a.told => a \in adapters /\ ~(a.gateway = d /\ a.channel \in C)
<1> DEFINE t == [s EXCEPT !.entry = [c \in Channels |->
                  IF c \in C THEN Stopped(s.entry[c]) ELSE s.entry[c]]]
<1>1. adapters' = Signalled(adapters, d, C) /\ sup' = [sup EXCEPT ![d] = t]
  BY DEF StopAll
<1>2. /\ t.conf = s.conf /\ t.settings = s.settings /\ t.shuttingDown = s.shuttingDown
      /\ \A c \in Channels \ C : t.entry[c] = s.entry[c]
  BY DEF Supervisors
<1>3. t \in Supervisors
  <2>1. \A c \in C : Stopped(s.entry[c]) \in Entries
    BY EntryTypes DEF Supervisors
  <2> QED
    BY <2>1 DEF Supervisors
<1> HIDE DEF t
<1>4. KeepsOthers(d, t, C)
  BY <1>2 DEF KeepsOthers, Known, SupInv, SupTypes, AdapterRecords
<1> QED
  BY <1>1, <1>2, <1>3, <1>4, UpdateKeeps

\* An exit: the entry of a child that is still registered gets child 0.
LEMMA AdapterExitsKeeps ==
  ASSUME SupInv, NEW d \in Daemons, NEW a, NEW clean \in BOOLEAN, NEW long \in BOOLEAN,
         AdapterExits(d, a, clean, long)
  PROVE  /\ SupInv' /\ OthersAlone(d) /\ adapters' \subseteq adapters
         /\ sup'[d].settings = sup[d].settings /\ sup'[d].started = sup[d].started
         /\ sup'[d].shuttingDown = sup[d].shuttingDown
         /\ Unstarted(sup[d]) => Unstarted(sup'[d])
<1> DEFINE c == a.channel
           e == sup[d].entry[c]
           after == IF ~Crashed(d, a) THEN e
                    ELSE IF clean \/ sup[d].conf[c] # "on" THEN [e EXCEPT !.child = 0]
                    ELSE Respawning(sup[d], e, long)
<1>1. /\ a \in adapters /\ a.gateway = d /\ adapters' = adapters \ {a}
      /\ sup' = [sup EXCEPT ![d].entry[c] = after] /\ file' = file /\ unsaved' = unsaved
  BY DEF AdapterExits
<1>2. /\ a \in AdapterRecords /\ c \in Channels /\ sup[d] \in Supervisors /\ e \in Entries
      /\ a.n \in 1 .. MaxAlive
  BY <1>1 DEF SupInv, SupTypes, AdapterRecords, Supervisors
<1>3. /\ after \in Entries
      /\ e.child # a.n => after = e
  <2>1. Respawning(sup[d], e, long) \in Entries
    BY <1>2, EntryTypes
  <2>2. [e EXCEPT !.child = 0] \in Entries
    BY <1>2, EntryTypes
  <2> QED
    BY <1>2, <2>1, <2>2 DEF Crashed
<1> HIDE DEF after
<1>4. /\ sup'[d] \in Supervisors /\ sup'[d].entry[c] = after /\ sup'[d].conf = sup[d].conf
      /\ \A f \in Channels : f # c => sup'[d].entry[f] = sup[d].entry[f]
      /\ sup'[d].settings = sup[d].settings /\ sup'[d].started = sup[d].started
      /\ sup'[d].shuttingDown = sup[d].shuttingDown
      /\ \A f \in Daemons : f # d => sup'[f] = sup[f]
      /\ sup' \in [Daemons -> Supervisors]
  BY <1>1, <1>2, <1>3 DEF SupInv, SupTypes, Supervisors
<1>5. SupTypes' /\ Distinct' /\ OthersAlone(d)
  BY <1>1, <1>4 DEF SupInv, SupTypes, Distinct, OthersAlone
<1>6. ASSUME NEW b \in adapters', ~b.told
      PROVE  Known(sup'[b.gateway], unsaved', b)
  <2>1. b \in adapters /\ b # a /\ Known(sup[b.gateway], unsaved, b) /\ b \in AdapterRecords
    BY <1>1, <1>6 DEF SupInv, SupTypes, NoneForgotten
  <2>2. CASE b.gateway = d /\ b.channel = c
    <3>1. b.n # a.n
      BY <1>1, <2>1, <2>2 DEF SupInv, Distinct
    <3> QED
      BY <1>1, <1>3, <1>4, <2>1, <2>2, <3>1 DEF Known
  <2>3. CASE ~(b.gateway = d /\ b.channel = c)
    BY <1>1, <1>4, <2>1, <2>3 DEF Known, AdapterRecords
  <2> QED
    BY <2>2, <2>3
<1>7. Unstarted(sup[d]) => Unstarted(sup'[d])
  BY <1>2, <1>3, <1>4 DEF Unstarted
<1> QED
  BY <1>1, <1>4, <1>5, <1>6, <1>7 DEF SupInv, NoneForgotten

------------------------------------------------------------------------------
(* The steps of a gateway.                                                 *)

\* What a step of d leaves to the others.
LEMMA OtherPhases ==
  ASSUME IInv, NEW d \in Daemons, OthersAlone(d), late \subseteq late',
         \A e \in Daemons : e # d => gw'[e] = gw[e]
  PROVE  \A e \in Daemons : e # d => PhaseOK(e)'
<1> SUFFICES ASSUME NEW e \in Daemons, e # d PROVE PhaseOK(e)'
  OBVIOUS
<1>1. sup'[e] = sup[e] /\ gw'[e] = gw[e] /\ PhaseOK(e)
  BY DEF OthersAlone, IInv
<1>2. AllTold(e) => AllTold(e)'
  BY DEF AllTold, OthersAlone
<1> QED
  BY <1>1, <1>2 DEF PhaseOK, Before, StopsOrStopped

\* A step that leaves the supervisors alone.
LEMMA SameSup ==
  ASSUME SupInv, UNCHANGED <<file, sup, adapters, unsaved>>
  PROVE  SupInv' /\ (\A d \in Daemons : OthersAlone(d) /\ (AllTold(d) <=> AllTold(d)'))
BY DEF SupInv, SupTypes, Distinct, NoneForgotten, Known, OthersAlone, AllTold

\* A gateway that was not started has no adapter to lose.
LEMMA NothingBefore ==
  ASSUME SupInv, NEW d \in Daemons, Unstarted(sup[d])
  PROVE  AllTold(d) /\ \A s \in Supervisors, C \in SUBSET Channels : KeepsOthers(d, s, C)
<1>1. \A a \in adapters : a.gateway = d => a.told
  <2>1. \A a \in adapters : a.n # 0
    BY SupervisorAssumption DEF SupInv, SupTypes, AdapterRecords
  <2> QED
    BY <2>1 DEF SupInv, SupTypes, NoneForgotten, Known, Unstarted, AdapterRecords
<1> QED
  BY <1>1 DEF AllTold, KeepsOthers

\* A step of a gateway that only goes on to another phase.
LEMMA PhaseMoves ==
  ASSUME IInv, NEW d \in Daemons, NEW phase \in Phases, Goes(d, phase), UNCHANGED supVars,
         \/ Before(d) /\ phase \in {"booting", "probing", "taking", "relisten", "bound", "gone"}
         \/ gw[d] \in {"draining", "closed"} /\ phase \in {"closed", "gone"}
  PROVE  IInv'
<1>1. SupInv' /\ OthersAlone(d) /\ (AllTold(d) <=> AllTold(d)')
  BY SameSup DEF IInv, supVars
<1>2. gw' \in [Daemons -> Phases] /\ gw'[d] = phase /\ \A e \in Daemons : e # d => gw'[e] = gw[e]
  BY DEF Goes, IInv
<1>3. \A e \in Daemons : e # d => PhaseOK(e)'
  BY <1>1, <1>2, OtherPhases DEF supVars
<1>4. PhaseOK(d)'
  <2>1. CASE Before(d)
    <3>1. Unstarted(sup[d]) /\ AllTold(d)
      BY <2>1, NothingBefore DEF IInv, PhaseOK
    <3>2. phase \in {"booting", "probing", "taking", "relisten", "bound", "gone"}
      BY <2>1 DEF Before
    <3> QED
      BY <1>1, <1>2, <3>1, <3>2 DEF PhaseOK, Before, StopsOrStopped, Unstarted, supVars
  <2>2. CASE gw[d] \in {"draining", "closed"} /\ phase \in {"closed", "gone"}
    BY <1>1, <1>2, <2>2 DEF IInv, PhaseOK, Before, StopsOrStopped, supVars
  <2> QED
    BY <2>1, <2>2
<1> QED
  BY <1>1, <1>2, <1>3, <1>4 DEF IInv

\* What a step that writes no channel leaves of the unwritten.
LEMMA NothingWritten ==
  ASSUME UNCHANGED unsaved
  PROVE  \A d \in Daemons, C \in SUBSET Channels : StillUnsaved(d, C)
BY DEF StillUnsaved

\* A gateway has bound the path, and its supervisor starts.
LEMMA ServesKeeps ==
  ASSUME IInv, NEW d \in Daemons, Serves(d)
  PROVE  IInv'
<1> DEFINE s == [NoSupervisor EXCEPT !.conf = file, !.started = TRUE]
           C == {c \in Channels : file[c] = "on"}
<1>1. /\ SpawnAll(d, s, C) /\ file' = file /\ late' = late /\ Goes(d, "up")
      /\ unsaved' = unsaved /\ Before(d)
  BY DEF Serves, StartSupervisor, Before
<1>2. s \in Supervisors /\ s.conf = file
  <2>1. NoEntry \in Entries
    BY SupervisorAssumption DEF NoEntry, Entries, Dead
  <2> QED
    BY <2>1 DEF NoSupervisor, Supervisors, IInv, SupInv, SupTypes
<1>3. KeepsOthers(d, s, C)
  BY <1>1, <1>2, NothingBefore DEF IInv, PhaseOK
<1>4. SupInv' /\ OthersAlone(d)
  <2> HIDE DEF s
  <2>1. \A c \in C : s.conf[c] = "on"
    BY <1>2
  <2>2. SupInv /\ file' \in [Channels -> Confs]
    BY <1>1 DEF IInv, SupInv, SupTypes
  <2> HIDE DEF C
  <2>3. C \in SUBSET Channels
    BY DEF C
  <2> QED
    BY <1>1, <1>2, <1>3, <2>1, <2>2, <2>3, SpawnAllKeeps, NothingWritten
<1>5. gw' \in [Daemons -> Phases] /\ gw'[d] = "up" /\ \A e \in Daemons : e # d => gw'[e] = gw[e]
  BY <1>1 DEF Goes, IInv, Phases
<1>6. \A e \in Daemons : e # d => PhaseOK(e)'
  BY <1>1, <1>4, <1>5, OtherPhases
<1>7. PhaseOK(d)'
  BY <1>5 DEF PhaseOK, Before, StopsOrStopped
<1> QED
  BY <1>4, <1>5, <1>6, <1>7 DEF IInv

\* A gateway begins to stop: every adapter it has is told to.
LEMMA StoppingKeeps ==
  ASSUME IInv, NEW d \in Daemons, Stopping(d)
  PROVE  IInv'
<1> DEFINE s == Closing(sup[d])
<1>1. /\ gw[d] = "up" /\ Goes(d, "draining") /\ StopAll(d, s, Channels)
      /\ file' = file /\ late' = late /\ unsaved' = unsaved
  BY DEF Stopping, ShutdownSupervisor
<1>2. s \in Supervisors /\ s.shuttingDown /\ ~s.settings
  BY DEF Closing, Supervisors, IInv, SupInv, SupTypes
<1>3. KeepsOthers(d, s, Channels)
  BY DEF KeepsOthers, IInv, SupInv, SupTypes, AdapterRecords
<1> HIDE DEF s
<1>4. /\ SupInv' /\ OthersAlone(d)
      /\ sup'[d].settings = s.settings /\ sup'[d].shuttingDown = s.shuttingDown
      /\ \A a \in adapters' : ~a.told => a \in adapters /\ ~(a.gateway = d /\ a.channel \in Channels)
  <2>1. SupInv /\ file' \in [Channels -> Confs]
    BY <1>1 DEF IInv, SupInv, SupTypes
  <2> QED
    BY <1>1, <1>2, <1>3, <2>1, StopAllKeeps, NothingWritten
<1>5. AllTold(d)'
  BY <1>4 DEF AllTold, IInv, SupInv, SupTypes, AdapterRecords
<1>6. /\ gw' \in [Daemons -> Phases] /\ gw'[d] = "draining"
      /\ \A e \in Daemons : e # d => gw'[e] = gw[e]
  BY <1>1 DEF Goes, IInv, Phases
<1>7. \A e \in Daemons : e # d => PhaseOK(e)'
  BY <1>1, <1>4, <1>6, OtherPhases
<1>8. PhaseOK(d)'
  BY <1>2, <1>4, <1>5, <1>6 DEF PhaseOK, Before, StopsOrStopped
<1> QED
  BY <1>4, <1>6, <1>7, <1>8 DEF IInv

\* What a gateway does by itself.
LEMMA DaemonStepKeeps ==
  ASSUME IInv, NEW d \in Daemons, DaemonStep(d)
  PROVE  IInv'
<1>1. CASE Listen(d)
  <2>1. Before(d)
    BY <1>1 DEF Listen, Before
  <2>2. UNCHANGED supVars /\ \E phase \in {"bound", "probing"} : Goes(d, phase)
    BY <1>1 DEF Listen, Binds
  <2> QED
    BY <2>1, <2>2, PhaseMoves DEF Phases
<1>2. CASE Probe(d)
  <2>1. Before(d) /\ UNCHANGED supVars /\ \E phase \in {"gone", "taking"} : Goes(d, phase)
    BY <1>2 DEF Probe, Before
  <2> QED
    BY <2>1, PhaseMoves DEF Phases
<1>3. CASE Take(d)
  <2>1. Before(d) /\ UNCHANGED supVars /\ Goes(d, "relisten")
    BY <1>3 DEF Take, Before
  <2> QED
    BY <2>1, PhaseMoves DEF Phases
<1>4. CASE Relisten(d)
  <2>1. Before(d)
    BY <1>4 DEF Relisten, Before
  <2>2. UNCHANGED supVars /\ \E phase \in {"bound", "gone"} : Goes(d, phase)
    BY <1>4 DEF Relisten, Binds
  <2> QED
    BY <2>1, <2>2, PhaseMoves DEF Phases
<1>5. CASE Displaced(d)
  BY <1>5, StoppingKeeps DEF Displaced
<1>6. CASE Close(d)
  <2>1. gw[d] = "draining" /\ UNCHANGED supVars /\ Goes(d, "closed")
    BY <1>6 DEF Close
  <2> QED
    BY <2>1, PhaseMoves DEF Phases
<1>7. CASE Exit(d)
  <2>1. gw[d] \in {"draining", "closed"} /\ UNCHANGED supVars /\ Goes(d, "gone")
    BY <1>7 DEF Exit
  <2> QED
    BY <2>1, PhaseMoves DEF Phases
<1>8. CASE Serves(d)
  BY <1>8, ServesKeeps
<1> QED
  BY <1>1, <1>2, <1>3, <1>4, <1>5, <1>6, <1>7, <1>8 DEF DaemonStep

\* Signals: two that ask it to stop, and one that does not ask.
LEMMA SignalsKeep ==
  ASSUME IInv, NEW d \in Daemons, Signal(d) \/ SignalAgain(d) \/ Kill(d)
  PROVE  IInv'
<1>1. CASE Signal(d)
  BY <1>1, StoppingKeeps DEF Signal
<1>2. CASE SignalAgain(d)
  <2>1. gw[d] \in {"draining", "closed"} /\ UNCHANGED supVars /\ Goes(d, "gone")
    BY <1>2 DEF SignalAgain
  <2> QED
    BY <2>1, PhaseMoves DEF Phases
<1>3. CASE Kill(d)
  <2>1. /\ UNCHANGED <<file, sup, adapters, unsaved>> /\ late' = late \cup {d}
        /\ gw' = [gw EXCEPT ![d] = "gone"]
    BY <1>3 DEF Kill, Goes
  <2>2. SupInv' /\ OthersAlone(d)
    BY <2>1, SameSup DEF IInv
  <2>3. /\ gw' \in [Daemons -> Phases] /\ gw'[d] = "gone"
        /\ \A e \in Daemons : e # d => gw'[e] = gw[e]
    BY <2>1 DEF IInv, Phases
  <2>4. \A e \in Daemons : e # d => PhaseOK(e)'
    BY <2>1, <2>2, <2>3, OtherPhases
  <2>5. PhaseOK(d)'
    BY <2>1, <2>3 DEF PhaseOK, Before, StopsOrStopped
  <2> QED
    BY <2>2, <2>3, <2>4, <2>5 DEF IInv
<1> QED
  BY <1>1, <1>2, <1>3

------------------------------------------------------------------------------
(* The steps of a client.                                                  *)

\* A step of clients, pings and clocks only.
LEMMA PhasesUnchanged ==
  ASSUME IInv, UNCHANGED supVars, UNCHANGED gw
  PROVE  IInv'
<1>1. SupInv' /\ \A d \in Daemons : AllTold(d) <=> AllTold(d)'
  BY SameSup DEF IInv, supVars
<1>2. \A d \in Daemons : PhaseOK(d) => PhaseOK(d)'
  BY <1>1 DEF PhaseOK, Before, StopsOrStopped, Unstarted, supVars
<1> QED
  BY <1>1, <1>2 DEF IInv

\* A client pings, cleans, spawns, and asks gateways to shut down.
LEMMA ClientStepKeeps ==
  ASSUME IInv, PathOK, NEW c \in Clients, ClientStep(c)
  PROVE  IInv'
<1>1. CASE Ensure(c) \/ AwaitShutdown(c) \/ Awaited(c)
  BY <1>1, PhasesUnchanged DEF Ensure, AwaitShutdown, Awaited
<1>2. CASE AskShutdown(c)
  <2>1. CASE path # Nobody /\ gw[path] = "up" /\ Stopping(path)
    BY <2>1, StoppingKeeps DEF PathOK
  <2>2. CASE UNCHANGED <<gw, supVars>>
    BY <2>2, PhasesUnchanged
  <2> QED
    BY <1>2, <2>1, <2>2 DEF AskShutdown
<1>3. CASE CleanAndSpawn(c)
  <2>1. PICK d \in Daemons : gw[d] = "new" /\ Goes(d, "booting")
    BY <1>3 DEF CleanAndSpawn
  <2>2. UNCHANGED supVars /\ Before(d)
    BY <1>3, <2>1 DEF CleanAndSpawn, Before
  <2> QED
    BY <2>1, <2>2, PhaseMoves DEF Phases
<1> QED
  BY <1>1, <1>2, <1>3 DEF ClientStep

------------------------------------------------------------------------------
(* The steps of a supervisor, in a gateway that runs.                      *)

\* How a supervisor's own step goes together with the phase of its gateway.
LEMMA SupStep ==
  ASSUME IInv, NEW d \in Daemons, UNCHANGED gw, SupInv', OthersAlone(d), late \subseteq late',
         PhaseOK(d)'
  PROVE  IInv'
<1>1. \A e \in Daemons : e # d => PhaseOK(e)'
  BY OtherPhases
<1> QED
  BY <1>1 DEF IInv

\* In a gateway that listens nothing more is asked of it.
LEMMA UpIsOK ==
  ASSUME NEW d \in Daemons, gw[d] = "up", UNCHANGED gw
  PROVE  PhaseOK(d)'
BY DEF PhaseOK, Before, StopsOrStopped

\* The state that saving or deleting a channel makes of the supervisor.
LEMMA Configured ==
  ASSUME SupInv, NEW d \in Daemons, NEW c \in Channels, NEW v \in Confs,
         StillUnsaved(d, {c})
  PROVE  LET s == [sup[d] EXCEPT !.conf[c] = v, !.entry[c].restarts = 0]
         IN  /\ s \in Supervisors /\ s.conf[c] = v /\ s.conf \in [Channels -> Confs]
             /\ s.settings = sup[d].settings /\ s.shuttingDown = sup[d].shuttingDown
             /\ KeepsOthers(d, s, {c})
<1> DEFINE s == [sup[d] EXCEPT !.conf[c] = v, !.entry[c].restarts = 0]
<1>1. sup[d] \in Supervisors /\ sup[d].entry[c] \in Entries
  BY DEF SupInv, SupTypes, Supervisors
<1>2. [sup[d].entry[c] EXCEPT !.restarts = 0] \in Entries
  BY <1>1, EntryTypes
<1>3. /\ s \in Supervisors /\ s.conf[c] = v /\ s.conf \in [Channels -> Confs]
      /\ s.settings = sup[d].settings /\ s.shuttingDown = sup[d].shuttingDown
      /\ \A f \in Channels \ {c} : s.entry[f] = sup[d].entry[f] /\ s.conf[f] = sup[d].conf[f]
  BY <1>1, <1>2 DEF Supervisors
<1> HIDE DEF s
<1>4. KeepsOthers(d, s, {c})
  BY <1>3, OwnKeepsOthers
<1> QED
  BY <1>3, <1>4 DEF s

\* The phase after a step that starts nothing.
LEMMA StillStopped ==
  ASSUME IInv, NEW d \in Daemons, gw[d] \in {"up", "draining", "closed"}, UNCHANGED gw,
         late \subseteq late',
         sup'[d].settings => sup[d].settings, sup'[d].shuttingDown = sup[d].shuttingDown,
         \A a \in adapters' : ~a.told => a \in adapters \/ a.gateway # d
  PROVE  PhaseOK(d)'
<1>1. AllTold(d) => AllTold(d)'
  BY DEF AllTold
<1> QED
  BY <1>1 DEF IInv, PhaseOK, Before, StopsOrStopped

\* A channel is saved, saved in vain, or deleted.
LEMMA ChannelOpKeeps ==
  ASSUME IInv, NEW d \in Daemons, NEW c \in Channels, Answers(d), UNCHANGED gw,
         \/ \E v \in {"on", "off"} : Save(d, c, v)
         \/ \E v \in {"on", "off"} : SaveInVain(d, c, v)
         \/ Delete(d, c)
  PROVE  IInv'
<1>1. gw[d] \in {"up", "draining"} /\ SupInv
  BY DEF Answers, IInv
<1>w. ASSUME NEW v \in {"on", "off"}, Save(d, c, v) \/ Delete(d, c) PROVE StillUnsaved(d, {c})
  BY <1>w, ChangeKeeps DEF Save, Delete
<1>2. CASE Save(d, c, "on")
  <2> DEFINE s == [sup[d] EXCEPT !.conf[c] = "on", !.entry[c].restarts = 0]
  <2>1. /\ s \in Supervisors /\ s.conf[c] = "on" /\ s.conf \in [Channels -> Confs]
        /\ s.shuttingDown = sup[d].shuttingDown /\ KeepsOthers(d, s, {c})
    BY <1>1, <1>2, <1>w, Configured DEF Confs
  <2> HIDE DEF s
  <2>2. /\ SpawnAll(d, s, {c}) /\ file' = s.conf
        /\ late' = IF s.shuttingDown THEN late \cup {d} ELSE late
    BY <1>2 DEF Save, s
  <2>3. SupInv' /\ OthersAlone(d)
    BY <1>1, <1>2, <1>w, <2>1, <2>2, SpawnAllKeeps
  <2>4. PhaseOK(d)'
    <3>1. CASE gw[d] = "up"
      BY <3>1, UpIsOK
    <3>2. CASE gw[d] = "draining"
      <4>1. sup[d].shuttingDown /\ ~sup[d].settings
        BY <3>2 DEF IInv, PhaseOK
      <4>2. d \in late'
        BY <2>1, <2>2, <4>1
      <4>3. sup'[d].settings = s.settings /\ sup'[d].shuttingDown = s.shuttingDown
        BY <1>1, <2>1, <2>2 DEF SpawnAll, SupInv, SupTypes, Supervisors
      <4>4. s.settings = sup[d].settings
        BY <1>1, <1>2, <1>w, Configured DEF Confs, s
      <4> QED
        BY <2>1, <3>2, <4>1, <4>2, <4>3, <4>4 DEF PhaseOK, Before, StopsOrStopped
    <3> QED
      BY <1>1, <3>1, <3>2
  <2> QED
    BY <2>2, <2>3, <2>4, SupStep
<1>3. CASE Save(d, c, "off")
  <2> DEFINE s == [sup[d] EXCEPT !.conf[c] = "off", !.entry[c].restarts = 0]
  <2>1. /\ s \in Supervisors /\ s.conf \in [Channels -> Confs] /\ KeepsOthers(d, s, {c})
        /\ s.settings = sup[d].settings /\ s.shuttingDown = sup[d].shuttingDown
    BY <1>1, <1>3, <1>w, Configured DEF Confs
  <2> HIDE DEF s
  <2>2. StopAll(d, s, {c}) /\ file' = s.conf /\ late' = late
    BY <1>3 DEF Save, s
  <2>3. /\ SupInv' /\ OthersAlone(d)
        /\ sup'[d].settings = s.settings /\ sup'[d].shuttingDown = s.shuttingDown
        /\ \A a \in adapters' : ~a.told => a \in adapters
    BY <1>1, <1>3, <1>w, <2>1, <2>2, StopAllKeeps
  <2>4. PhaseOK(d)'
    BY <1>1, <2>1, <2>2, <2>3, StillStopped
  <2> QED
    BY <2>2, <2>3, <2>4, SupStep
<1>4. ASSUME NEW v \in {"on", "off"}, SaveInVain(d, c, v) PROVE IInv'
  <2> DEFINE s == [sup[d] EXCEPT !.conf[c] = v]
  <2>1. /\ file' \in {file, NoChannels} /\ adapters' = adapters
        /\ sup' = [sup EXCEPT ![d] = s] /\ late' = late
        /\ Change(d, c, FALSE)
    BY <1>4 DEF SaveInVain, SupInv, SupTypes
  <2>2. sup[d] \in Supervisors /\ file' \in [Channels -> Confs]
    BY <1>1, <2>1 DEF SupInv, SupTypes, NoChannels, Confs
  <2>3. /\ s \in Supervisors /\ s.entry = sup[d].entry
        /\ s.settings = sup[d].settings /\ s.shuttingDown = sup[d].shuttingDown
        /\ \A f \in Channels \ {c} : s.entry[f] = sup[d].entry[f] /\ s.conf[f] = sup[d].conf[f]
    BY <2>2 DEF Supervisors, Confs
  <2> HIDE DEF s
  <2>4. StillUnsaved(d, {c}) /\ <<d, c>> \in unsaved' /\ StillUnsaved(d, {})
    BY <2>1, ChangeKeeps
  <2>5. KeepsOthers(d, s, {})
    <3>1. KeepsOthers(d, s, {c})
      BY <1>1, <2>3, <2>4, OwnKeepsOthers
    <3>2. \A a \in adapters : a.gateway = d /\ a.channel = c /\ ~a.told => Known(s, unsaved', a)
      BY <1>1, <2>3, <2>4 DEF SupInv, NoneForgotten, Known
    <3> QED
      BY <3>1, <3>2 DEF KeepsOthers
  <2>6. /\ SupInv' /\ OthersAlone(d) /\ sup'[d] = s
        /\ \A a \in adapters' : ~a.told => a \in adapters
    BY <1>1, <2>1, <2>2, <2>3, <2>4, <2>5, UpdateKeeps
  <2>7. PhaseOK(d)'
    BY <1>1, <2>1, <2>3, <2>6, StillStopped
  <2> QED
    BY <2>1, <2>6, <2>7, SupStep
<1>5. CASE Delete(d, c)
  <2> DEFINE s == [sup[d] EXCEPT !.conf[c] = "none"]
  <2>1. /\ s \in Supervisors /\ s.conf \in [Channels -> Confs]
        /\ s.settings = sup[d].settings /\ s.shuttingDown = sup[d].shuttingDown
        /\ \A f \in Channels \ {c} : s.entry[f] = sup[d].entry[f] /\ s.conf[f] = sup[d].conf[f]
    BY <1>1 DEF SupInv, SupTypes, Supervisors, Confs
  <2>2. /\ StopAll(d, s, {c}) /\ late' = late
        /\ file' \in {[sup[d].conf EXCEPT ![c] = "none"], file, NoChannels}
        /\ StillUnsaved(d, {c})
    BY <1>5, ChangeKeeps DEF Delete
  <2> HIDE DEF s
  <2>3. file' \in [Channels -> Confs] /\ KeepsOthers(d, s, {c})
    <3>1. KeepsOthers(d, s, {c})
      BY <1>1, <2>1, <2>2, OwnKeepsOthers
    <3> QED
      BY <1>1, <2>2, <3>1 DEF SupInv, SupTypes, Supervisors, Confs, NoChannels
  <2>4. /\ SupInv' /\ OthersAlone(d)
        /\ sup'[d].settings = s.settings /\ sup'[d].shuttingDown = s.shuttingDown
        /\ \A a \in adapters' : ~a.told => a \in adapters
    BY <1>1, <2>1, <2>2, <2>3, StopAllKeeps
  <2>5. PhaseOK(d)'
    BY <1>1, <2>1, <2>2, <2>4, StillStopped
  <2> QED
    BY <2>2, <2>4, <2>5, SupStep
<1> QED
  BY <1>2, <1>3, <1>4, <1>5

\* The settings change under all gateways at once.
LEMMA SettingsKeeps ==
  ASSUME IInv, Settings
  PROVE  IInv'
<1> DEFINE t(d) == [sup[d] EXCEPT !.settings = @ \/ (sup[d].started /\ ~sup[d].shuttingDown)]
<1>1. /\ sup' = [d \in Daemons |-> t(d)]
      /\ file' = file /\ adapters' = adapters /\ late' = late /\ gw' = gw
      /\ unsaved' = unsaved
  BY DEF Settings, SettingsChange, Rest
<1>2. ASSUME NEW d \in Daemons
      PROVE  /\ t(d) \in Supervisors /\ t(d).conf = sup[d].conf /\ t(d).entry = sup[d].entry
             /\ t(d).started = sup[d].started /\ t(d).shuttingDown = sup[d].shuttingDown
             /\ t(d).settings <=> sup[d].settings \/ (sup[d].started /\ ~sup[d].shuttingDown)
  <2>1. sup[d] \in Supervisors
    BY DEF IInv, SupInv, SupTypes
  <2> QED
    BY <2>1 DEF Supervisors
<1> HIDE DEF t
<1>3. SupInv'
  <2>1. SupTypes'
    BY <1>1, <1>2 DEF IInv, SupInv, SupTypes
  <2>2. \A a \in adapters : Known(sup[a.gateway], unsaved, a) => Known(sup'[a.gateway], unsaved, a)
    BY <1>1, <1>2 DEF IInv, SupInv, SupTypes, AdapterRecords, Known
  <2> QED
    BY <1>1, <2>1, <2>2 DEF IInv, SupInv, Distinct, NoneForgotten
<1>4. ASSUME NEW d \in Daemons
      PROVE  PhaseOK(d)'
  <2>1. PhaseOK(d) /\ (AllTold(d) <=> AllTold(d)') /\ sup'[d] = t(d)
    BY <1>1 DEF IInv, AllTold
  <2> QED
    BY <1>1, <1>2, <2>1 DEF PhaseOK, Before, StopsOrStopped, Unstarted
<1> QED
  BY <1>1, <1>3, <1>4 DEF IInv

\* The settings have settled: only a gateway that listens still waits for that.
LEMMA SettleKeeps ==
  ASSUME IInv, NEW d \in Daemons, Settle(d)
  PROVE  IInv'
<1> DEFINE s == [sup[d] EXCEPT !.settings = FALSE]
           C == Enabled(sup[d])
<1>1. /\ SpawnAll(d, s, C) /\ sup[d].settings /\ Runs(d)
      /\ file' = file /\ late' = late /\ gw' = gw /\ unsaved' = unsaved
  BY DEF Settle, SettingsSettle, Rest
<1>2. gw[d] = "up"
  BY <1>1 DEF IInv, PhaseOK, Before, Unstarted, Runs, Phases
<1>3. SupInv /\ sup[d] \in Supervisors /\ file' \in [Channels -> Confs]
  BY <1>1 DEF IInv, SupInv, SupTypes
<1>4. s \in Supervisors /\ s.conf = sup[d].conf /\ s.entry = sup[d].entry
  BY <1>3 DEF Supervisors
<1> HIDE DEF s
<1>5. C \in SUBSET Channels /\ \A c \in C : s.conf[c] = "on"
  BY <1>4 DEF Enabled
<1>6. KeepsOthers(d, s, C)
  BY <1>1, <1>3, <1>4, <1>5, OwnKeepsOthers, NothingWritten
<1> HIDE DEF C
<1>7. SupInv' /\ OthersAlone(d)
  BY <1>1, <1>3, <1>4, <1>5, <1>6, SpawnAllKeeps, NothingWritten
<1> QED
  BY <1>1, <1>2, <1>7, UpIsOK, SupStep

\* A respawn: of a supervisor that shuts down nothing but the timer is left.
LEMMA BackKeeps ==
  ASSUME IInv, NEW d \in Daemons, NEW c \in Channels, Back(d, c)
  PROVE  IInv'
<1> DEFINE s == sup[d]
           t == [s EXCEPT !.entry[c] = Fired(@)]
<1>1. /\ Respawn(d, c) /\ Runs(d) /\ gw' = gw /\ file' = file /\ late' = late
      /\ s.entry[c].timer /\ unsaved' = unsaved
  BY DEF Back, Respawn, Rest
<1>2. SupInv /\ s \in Supervisors /\ file' \in [Channels -> Confs] /\ s.entry[c] \in Entries
  BY <1>1 DEF IInv, SupInv, SupTypes, Supervisors
<1>3. gw[d] \in {"up", "draining", "closed"}
  BY <1>1 DEF IInv, PhaseOK, Before, Unstarted, Runs, Phases
<1>4. /\ t \in Supervisors /\ t.conf = s.conf /\ t.settings = s.settings
      /\ t.shuttingDown = s.shuttingDown
      /\ \A f \in Channels : t.entry[f].child = s.entry[f].child
      /\ \A f \in Channels \ {c} : t.entry[f] = s.entry[f]
  <2>1. Fired(s.entry[c]) \in Entries /\ Fired(s.entry[c]).child = s.entry[c].child
    BY <1>2, EntryTypes
  <2> QED
    BY <1>2, <2>1 DEF Supervisors
<1> HIDE DEF t
<1>6. CASE sup' = [sup EXCEPT ![d] = t] /\ adapters' = adapters
  <2>1. KeepsOthers(d, t, {})
    BY <1>1, <1>2, <1>4 DEF KeepsOthers, Known, SupInv, SupTypes, AdapterRecords, NoneForgotten
  <2>2. SupInv' /\ OthersAlone(d) /\ sup'[d] = t
    <3>1. StillUnsaved(d, {})
      BY <1>1, NothingWritten
    <3> QED
      BY <1>1, <1>2, <1>4, <1>6, <2>1, <3>1, UpdateKeeps
  <2>3. PhaseOK(d)'
    BY <1>1, <1>3, <1>4, <1>6, <2>2, StillStopped
  <2> QED
    BY <1>1, <2>2, <2>3, SupStep
<1>7. ASSUME ~(s.shuttingDown \/ s.conf[c] # "on" \/ s.entry[c].child # 0)
      PROVE  gw[d] = "up"
  BY <1>3, <1>7 DEF IInv, PhaseOK
<1>8. CASE /\ ~(s.shuttingDown \/ s.conf[c] # "on" \/ s.entry[c].child # 0)
           /\ SpawnAll(d, t, {c})
  <2>1. KeepsOthers(d, t, {c})
    BY <1>1, <1>2, <1>4, OwnKeepsOthers, NothingWritten
  <2>2. \A f \in {c} : t.conf[f] = "on"
    BY <1>4, <1>8
  <2>3. SupInv' /\ OthersAlone(d)
    BY <1>1, <1>2, <1>4, <1>8, <2>1, <2>2, SpawnAllKeeps, NothingWritten
  <2> QED
    BY <1>1, <1>7, <1>8, <2>3, UpIsOK, SupStep
<1> QED
  BY <1>1, <1>6, <1>8 DEF Respawn, t

\* An adapter exits.
LEMMA ExitsKeep ==
  ASSUME IInv, NEW d \in Daemons, ToldExits(d) \/ ExitsUnasked(d)
  PROVE  IInv'
<1>1. PICK a \in adapters, clean \in BOOLEAN, long \in BOOLEAN : AdapterExits(d, a, clean, long)
  BY DEF ToldExits, ExitsUnasked
<1>2. gw' = gw /\ late' = late /\ Runs(d)
  BY <1>1 DEF ToldExits, ExitsUnasked, Rest, AdapterExits
<1>3. /\ SupInv' /\ OthersAlone(d) /\ adapters' \subseteq adapters
      /\ sup'[d].settings = sup[d].settings /\ sup'[d].shuttingDown = sup[d].shuttingDown
      /\ Unstarted(sup[d]) => Unstarted(sup'[d])
  BY <1>1, AdapterExitsKeeps DEF IInv
<1>4. PhaseOK(d)'
  BY <1>2, <1>3 DEF IInv, PhaseOK, Before, StopsOrStopped, AllTold
<1> QED
  BY <1>2, <1>3, <1>4, SupStep

\* An adapter whose gateway is gone exits.
LEMMA OrphansKeep ==
  ASSUME IInv, Orphaned
  PROVE  IInv'
<1>1. adapters' \subseteq adapters /\ UNCHANGED <<file, sup, late, gw, unsaved>>
  BY DEF Orphaned, OrphanExits, Rest
<1>2. SupInv'
  BY <1>1 DEF IInv, SupInv, SupTypes, Distinct, NoneForgotten, Known
<1>3. \A d \in Daemons : PhaseOK(d)'
  BY <1>1 DEF IInv, PhaseOK, Before, StopsOrStopped, Unstarted, AllTold
<1> QED
  BY <1>1, <1>2, <1>3 DEF IInv

------------------------------------------------------------------------------
(* The invariant.                                                          *)

\* Nothing runs yet.
LEMMA InitIsOK == Init => IInv /\ PathOK
<1> SUFFICES ASSUME Init PROVE IInv /\ PathOK
  OBVIOUS
<1>1. NoEntry \in Entries
  BY SupervisorAssumption DEF NoEntry, Entries, Dead
<1>2. NoSupervisor \in Supervisors /\ Unstarted(NoSupervisor)
  BY <1>1 DEF NoSupervisor, Supervisors, Unstarted, NoEntry, Confs
<1>3. /\ file \in [Channels -> Confs] /\ adapters = {}
      /\ sup = [d \in Daemons |-> NoSupervisor] /\ gw = [d \in Daemons |-> "new"]
      /\ path = Nobody
  BY DEF Init, SupervisorInit, Confs
<1>4. SupInv
  BY <1>2, <1>3 DEF SupInv, SupTypes, Distinct, NoneForgotten
<1>5. \A d \in Daemons : PhaseOK(d)
  BY <1>2, <1>3 DEF PhaseOK, Before, StopsOrStopped
<1> QED
  BY <1>3, <1>4, <1>5 DEF IInv, PathOK, Phases

\* The socket file is bound by a gateway, or is not there.
LEMMA NextKeepsPath ==
  ASSUME PathOK, [Next]_vars
  PROVE  PathOK'
<1>1. ASSUME NEW d \in Daemons, DaemonStep(d) PROVE PathOK'
  BY <1>1 DEF PathOK, DaemonStep, Listen, Binds, Serves, Probe, Take, Relisten, Displaced,
              Close, Exit
<1>2. ASSUME NEW d \in Daemons, Signal(d) \/ SignalAgain(d) \/ Kill(d) PROVE PathOK'
  BY <1>2 DEF PathOK, Signal, SignalAgain, Kill
<1>3. ASSUME NEW c \in Clients, ClientStep(c) PROVE PathOK'
  BY <1>3 DEF PathOK, ClientStep, Ensure, AskShutdown, AwaitShutdown, CleanAndSpawn, Awaited
<1>4. ASSUME Rest \/ UNCHANGED vars PROVE PathOK'
  BY <1>4 DEF PathOK, Rest, vars
<1> QED
  BY <1>1, <1>2, <1>3, <1>4
  DEF Next, Settle, ToldExits, ExitsUnasked, Back, ChannelOp, Settings, Orphaned

\* Every step keeps the invariant.
LEMMA NextKeeps ==
  ASSUME IInv, PathOK, [Next]_vars
  PROVE  IInv'
<1>1. ASSUME NEW d \in Daemons, DaemonStep(d) PROVE IInv'
  BY <1>1, DaemonStepKeeps
<1>2. ASSUME NEW d \in Daemons, Signal(d) \/ SignalAgain(d) \/ Kill(d) PROVE IInv'
  BY <1>2, SignalsKeep
<1>3. ASSUME NEW d \in Daemons, Settle(d) PROVE IInv'
  BY <1>3, SettleKeeps
<1>4. ASSUME NEW d \in Daemons, ToldExits(d) \/ ExitsUnasked(d) PROVE IInv'
  BY <1>4, ExitsKeep
<1>5. ASSUME NEW d \in Daemons, NEW c \in Channels, Back(d, c) PROVE IInv'
  BY <1>5, BackKeeps
<1>6. ASSUME NEW c \in Clients, ClientStep(c) PROVE IInv'
  BY <1>6, ClientStepKeeps
<1>7. ASSUME ChannelOp PROVE IInv'
  <2>1. PICK d \in Daemons, c \in Channels :
          /\ Answers(d)
          /\ \/ \E v \in {"on", "off"} : Save(d, c, v)
             \/ \E v \in {"on", "off"} : SaveInVain(d, c, v)
             \/ Delete(d, c)
    BY <1>7 DEF ChannelOp
  <2>2. UNCHANGED gw
    BY <1>7 DEF ChannelOp, Rest
  <2> QED
    BY <2>1, <2>2, ChannelOpKeeps
<1>8. ASSUME Settings PROVE IInv'
  BY <1>8, SettingsKeeps
<1>9. ASSUME Orphaned PROVE IInv'
  BY <1>9, OrphansKeep
<1>10. ASSUME UNCHANGED vars PROVE IInv'
  BY <1>10, PhasesUnchanged DEF vars, supVars
<1> QED
  BY <1>1, <1>2, <1>3, <1>4, <1>5, <1>6, <1>7, <1>8, <1>9, <1>10 DEF Next

\* The invariant, of every behaviour.
LEMMA Inductive == Spec => [](IInv /\ PathOK)
<1>1. Init => IInv /\ PathOK
  BY InitIsOK
<1>2. IInv /\ PathOK /\ [Next]_vars => (IInv /\ PathOK)'
  BY NextKeeps, NextKeepsPath
<1> QED
  BY <1>1, <1>2, PTL DEF Spec

\* An adapter that was not told to stop is always the one its supervisor has
\* registered for an enabled channel, or for one whose last change could not be
\* written, whatever gateways, clients and failures there are
\* (channel-supervisor.ts, spawn and its exit handler; save and setEnabled).
THEOREM NoneIsForgotten == Spec => []KnownOrTold
<1>1. IInv => KnownOrTold
  BY DEF IInv, SupInv, NoneForgotten, Known, KnownOrTold
<1> QED
  BY <1>1, Inductive, PTL

\* A gateway that ends by itself takes its adapters with it, unless it was asked to
\* run a channel while it stopped (gateway-server.ts, stop).
THEOREM OnlyTheKilledLeave == Spec => []OnlyTheKilledLeak
<1>1. IInv => OnlyTheKilledLeak
  <2> SUFFICES ASSUME IInv, NEW a \in adapters, ~Runs(a.gateway), ~a.told
               PROVE  a.gateway \in late
    BY DEF OnlyTheKilledLeak
  <2> DEFINE d == a.gateway
  <2>1. d \in Daemons
    BY DEF IInv, SupInv, SupTypes, AdapterRecords
  <2>2. gw[d] # "new"
    BY <2>1, NothingBefore DEF IInv, PhaseOK, Before, AllTold
  <2> QED
    BY <2>1, <2>2 DEF IInv, PhaseOK, StopsOrStopped, AllTold, Runs
<1> QED
  BY <1>1, Inductive, PTL
=============================================================================
