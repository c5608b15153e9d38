-------------------------- MODULE ChannelSupervisor --------------------------
(***************************************************************************)
(* The channel supervisor of a gateway (gateway/channel-supervisor.ts): it *)
(* keeps the configured channels, runs one adapter process for each that   *)
(* is enabled, and starts one that crashed again after a while.  Stopping  *)
(* an adapter is a signal: it goes on answering until it has closed its    *)
(* connections, next to its successor.  The configuration is one file that *)
(* every gateway reads when it starts and writes whole; a write may fail,  *)
(* and so may the start of a process, at once or a moment later.           *)
(***************************************************************************)
EXTENDS Naturals, FiniteSets

CONSTANTS
  Daemons,    \* gateway processes
  Channels,
  RespawnMax, \* RESPAWN_MAX
  MaxAlive,   \* bound: adapters of a channel alive at once in one gateway
  Bounds      \* bounds: how many channel operations and changes of the settings,
              \* adapters that exit unasked, pings a living gateway does not
              \* answer in time, and gateways signalled or killed

ASSUME SupervisorAssumption ==
  /\ IsFiniteSet(Daemons) /\ IsFiniteSet(Channels)
  /\ RespawnMax \in Nat /\ MaxAlive \in Nat
  /\ Bounds \subseteq [ops : Nat, exits : Nat, slow : Nat, kills : Nat]

VARIABLES
  file,     \* channels.json: of each channel, "none", "on" or "off"
  sup,      \* per gateway: its supervisor
  adapters, \* the adapter processes that run
  late,     \* history: gateways asked to run a channel while they stop
  unsaved,  \* history: <<gateway, channel>> whose last change was not written
  budget    \* what is left of one of the Bounds

supVars == <<file, sup, adapters, late, unsaved, budget>>

\* A RuntimeEntry: child 0 is undefined, and Dead a child that never ran.  why is
\* history: what left the channel without an adapter.
Dead == MaxAlive + 1
NoEntry == [child |-> 0, restarts |-> 0, timer |-> FALSE, why |-> "none"]
NoSupervisor == [conf |-> [c \in Channels |-> "none"], entry |-> [c \in Channels |-> NoEntry],
                 settings |-> FALSE, started |-> FALSE, shuttingDown |-> FALSE]

Adapter(d, c, n, told) == [gateway |-> d, channel |-> c, n |-> n, told |-> told]
Of(A, d, c) == {a \in A : a.gateway = d /\ a.channel = c}
Free(A, d, c) == (1 .. MaxAlive) \ {a.n : a \in Of(A, d, c)}
HasRoom(d) == \A c \in Channels : Free(adapters, d, c) # {}

------------------------------------------------------------------------------
(* Stopping and starting an adapter.                                       *)

\* stop: SIGTERM, if it still runs.
Signalled(A, d, C) ==
  {IF a.gateway = d /\ a.channel \in C /\ a.n = sup[d].entry[a.channel].child
   THEN [a EXCEPT !.told = TRUE] ELSE a : a \in A}
Stopped(e) == [e EXCEPT !.child = 0, !.timer = FALSE]

\* spawn, of the channels C: each is stopped first.
Number(A, d, c) == CHOOSE n \in Free(A, d, c) : TRUE
Born(A, d, C, run) ==
  Signalled(A, d, C) \cup {Adapter(d, c, Number(A, d, c), FALSE) : c \in run}
\* How it goes: the process runs, the call throws, or "error" is emitted in the
\* next tick, which leaves the child registered.
Spawned(e, n, how) ==
  [Stopped(e) EXCEPT !.child = CASE how = "runs" -> n [] how = "throws" -> 0 [] OTHER -> Dead,
                     !.why = IF how = "runs" THEN "none" ELSE "spawn"]

SpawnAll(d, s, C) ==
  /\ HasRoom(d)
  /\ \E how \in [C -> {"runs", "throws", "fails"}] :
       /\ adapters' = Born(adapters, d, C, {c \in C : how[c] = "runs"})
       /\ sup' = [sup EXCEPT ![d] = [s EXCEPT !.entry =
            [c \in Channels |-> IF c \in C THEN Spawned(s.entry[c], Number(adapters, d, c), how[c])
                               ELSE s.entry[c]]]]
StopAll(d, s, C) ==
  /\ adapters' = Signalled(adapters, d, C)
  /\ sup' = [sup EXCEPT ![d] = [s EXCEPT !.entry =
       [c \in Channels |-> IF c \in C THEN Stopped(s.entry[c]) ELSE s.entry[c]]]]
Enabled(s) == {c \in Channels : s.conf[c] = "on"}

------------------------------------------------------------------------------
(* The supervisor of a gateway.                                            *)

Used(kind) == budget[kind] > 0 /\ budget' = [budget EXCEPT ![kind] = @ - 1]

StartSupervisor(d) ==
  /\ SpawnAll(d, [NoSupervisor EXCEPT !.conf = file, !.started = TRUE],
              {c \in Channels : file[c] = "on"})
  /\ UNCHANGED <<file, late, unsaved, budget>>
\* Mutant: the timer of the settings is left armed.
StillWatching(s) == [s EXCEPT !.shuttingDown = TRUE]
Closing(s) == [s EXCEPT !.shuttingDown = TRUE, !.settings = FALSE]
ShutdownSupervisor(d) ==
  /\ StopAll(d, Closing(sup[d]), Channels)
  /\ UNCHANGED <<file, late, unsaved, budget>>

NoChannels == [c \in Channels |-> "none"]
Change(d, c, written) ==
  unsaved' = IF written THEN unsaved \ {<<d, c>>} ELSE unsaved \cup {<<d, c>>}

\* save and setEnabled: the whole map is written, the count starts anew.  Neither
\* asks whether the supervisor is shutting down.
Save(d, c, v) ==
  LET s == [sup[d] EXCEPT !.conf[c] = v, !.entry[c].restarts = 0]
  IN  /\ Used("ops")
      /\ file' = s.conf /\ Change(d, c, TRUE)
      /\ IF v = "on" THEN SpawnAll(d, s, {c}) ELSE StopAll(d, s, {c})
      /\ late' = IF v = "on" /\ s.shuttingDown THEN late \cup {d} ELSE late
\* persist throws: the new configuration is in memory, and that is all.
SaveInVain(d, c, v) ==
  /\ Used("ops")
  /\ file' \in {file, NoChannels} /\ Change(d, c, FALSE)
  /\ sup' = [sup EXCEPT ![d].conf[c] = v]
  /\ UNCHANGED <<adapters, late>>
Delete(d, c) ==
  /\ Used("ops") /\ sup[d].conf[c] # "none"
  /\ StopAll(d, [sup[d] EXCEPT !.conf[c] = "none"], {c})
  /\ file' \in {[sup[d].conf EXCEPT ![c] = "none"], file, NoChannels}
  /\ Change(d, c, TRUE)
  /\ UNCHANGED late

\* settings.json changes: each gateway that watches starts its adapters again.
SettingsChange ==
  /\ Used("ops")
  /\ sup' = [d \in Daemons |->
       [sup[d] EXCEPT !.settings = @ \/ (sup[d].started /\ ~sup[d].shuttingDown)]]
  /\ UNCHANGED <<file, adapters, late, unsaved>>
SettingsSettle(d) ==
  /\ sup[d].settings
  /\ SpawnAll(d, [sup[d] EXCEPT !.settings = FALSE], Enabled(sup[d]))
  /\ UNCHANGED <<file, late, unsaved, budget>>

\* Mutant: any adapter of the channel that exits counts as a crash.
AnyExit(d, a) == TRUE
\* A child that is no longer registered was stopped or replaced.
Crashed(d, a) == sup[d].entry[a.channel].child = a.n

\* Mutant: the last attempt is not made.
OneLess(s, e, long) ==
  LET n == IF long THEN 1 ELSE e.restarts + 1
  IN  [e EXCEPT !.child = 0, !.why = "crash", !.restarts = n,
                !.timer = ~s.shuttingDown /\ n < RespawnMax]
\* scheduleRespawn: long is an adapter that lived for STABLE_MS.
Respawning(s, e, long) ==
  LET n == IF long THEN 1 ELSE e.restarts + 1
  IN  [e EXCEPT !.child = 0, !.why = "crash", !.restarts = n,
                !.timer = ~s.shuttingDown /\ n <= RespawnMax]
\* The exit of an adapter of a gateway that runs: by the signal, or unasked, with
\* code 0 or in a crash.
AdapterExits(d, a, clean, long) ==
  LET s == sup[d]  e == s.entry[a.channel]
      after == IF ~Crashed(d, a) THEN e
               ELSE IF clean \/ s.conf[a.channel] # "on" THEN [e EXCEPT !.child = 0]
               ELSE Respawning(s, e, long)
  IN  /\ a \in adapters /\ a.gateway = d
      /\ adapters' = adapters \ {a}
      /\ sup' = [sup EXCEPT ![d].entry[a.channel] = after]
      /\ IF a.told THEN UNCHANGED budget ELSE Used("exits")
      /\ UNCHANGED <<file, late, unsaved>>

Fired(e) == [e EXCEPT !.timer = FALSE]
Respawn(d, c) ==
  LET s == sup[d]
      t == [s EXCEPT !.entry[c] = Fired(@)]
  IN  /\ s.entry[c].timer
      /\ IF s.shuttingDown \/ s.conf[c] # "on" \/ s.entry[c].child # 0
         THEN sup' = [sup EXCEPT ![d] = t] /\ UNCHANGED adapters
         ELSE SpawnAll(d, t, {c})
      /\ UNCHANGED <<file, late, unsaved, budget>>

\* An adapter whose gateway is gone exits when it likes.
OrphanExits(a) ==
  /\ a \in adapters
  /\ adapters' = adapters \ {a}
  /\ UNCHANGED <<file, sup, late, unsaved, budget>>

SupervisorInit ==
  /\ file \in [Channels -> {"on", "off"}]
  /\ sup = [d \in Daemons |-> NoSupervisor]
  /\ adapters = {} /\ late = {} /\ unsaved = {}
  /\ budget \in Bounds
=============================================================================
