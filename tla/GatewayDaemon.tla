---------------------------- MODULE GatewayDaemon ----------------------------
(***************************************************************************)
(* Which process is the gateway.  Clients that find no gateway answering   *)
(* remove the socket file and start one (gateway/gateway-lifecycle.ts);    *)
(* a gateway that finds the file taken probes its owner, and one that      *)
(* listens watches that the file is still its own (gateway-server.ts).     *)
(* The supervisors of the gateways that run, ChannelSupervisor, start and  *)
(* stop with them.                                                         *)
(*                                                                         *)
(* A socket file is the gateway that bound it, alive or not.  Pings of a   *)
(* gateway that is busy may go unanswered.                                 *)
(***************************************************************************)
EXTENDS ChannelSupervisor

CONSTANTS
  Clients,   \* processes that need the gateway
  Version,   \* the version each client is of, and starts
  Asks,      \* the clients that want the gateway to be of their own
  Nobody,    \* no socket file
  CloseUnlinks, \* server.close removes the file by its name, as Node's does
  MaxEnsures  \* bound: calls of ensureGateway by a client

ASSUME DaemonAssumption ==
  /\ Nobody \notin Daemons /\ CloseUnlinks \in BOOLEAN
  /\ MaxEnsures \in Nat

VARIABLES
  path,  \* who bound the socket file
  ino,   \* per gateway: the socket file it took for its own when it listened
  gw,    \* per gateway: new, booting, probing, taking, relisten, bound, up,
         \* draining, closed, gone
  ver,   \* per gateway: its version
  cl,    \* per client: where in ensureGateway it is
  left,  \* per client: calls left
  ends,  \* per gateway: when its process ends, "idle" (nothing keeps it alive),
         \* "returned" (from stop) or "soon" (in any case)
  slow, kills \* as in Bounds: what is left

vars == <<supVars, path, ino, gw, ver, cl, left, ends, slow, kills>>
ownVars == <<ino, ver, cl, left, slow, kills>>

\* It accepts connections and answers.
Answers(d) == d # Nobody /\ gw[d] \in {"up", "draining"}
Runs(d) == gw[d] \notin {"new", "gone"}
Goes(d, phase) == gw' = [gw EXCEPT ![d] = phase]

\* A ping, as it comes back: a living gateway may be too slow.  One that is about
\* to listen answers in a moment.
Ready(d) == d # Nobody => gw[d] # "bound"
Ping(d, answered) ==
  /\ Ready(d)
  /\ \/ answered = Answers(d) /\ UNCHANGED slow
     \/ Answers(d) /\ ~answered /\ slow > 0 /\ slow' = slow - 1

------------------------------------------------------------------------------
(* The gateway starts (start).                                             *)

Binds(d) == path' = d /\ Goes(d, "bound")

Listen(d) ==
  /\ gw[d] = "booting"
  /\ IF path = Nobody THEN Binds(d) ELSE Goes(d, "probing") /\ UNCHANGED path
  /\ UNCHANGED <<supVars, ownVars, ends>>
\* isSocketOwnerAlive: a duplicate exits.
Probe(d) ==
  /\ gw[d] = "probing"
  /\ \E alive \in BOOLEAN : Ping(path, alive) /\ Goes(d, IF alive THEN "gone" ELSE "taking")
  /\ UNCHANGED <<supVars, path, ino, ver, cl, left, ends, kills>>
\* The file is removed, whoever bound it by now.
Take(d) ==
  /\ gw[d] = "taking"
  /\ path' = Nobody /\ Goes(d, "relisten")
  /\ UNCHANGED <<supVars, ownVars, ends>>
\* The second failure has no handler: the process exits.
Relisten(d) ==
  /\ gw[d] = "relisten"
  /\ IF path = Nobody THEN Binds(d) ELSE Goes(d, "gone") /\ UNCHANGED path
  /\ UNCHANGED <<supVars, ownVars, ends>>

\* onListening, a moment after the bind: the file it takes for its own is the one
\* that is there by now, if any.  Then the supervisor is started.
Serves(d) ==
  /\ gw[d] = "bound"
  /\ ino' = [ino EXCEPT ![d] = path]
  /\ Goes(d, "up") /\ StartSupervisor(d)
  /\ UNCHANGED <<path, ver, cl, left, ends, slow, kills>>

------------------------------------------------------------------------------
(* The gateway stops (stop).                                               *)

Stopping(d) == gw[d] = "up" /\ Goes(d, "draining") /\ ShutdownSupervisor(d)

\* SIGTERM, a crash handler: the process exits once stop has returned.
Signal(d) ==
  /\ Stopping(d) /\ kills > 0
  /\ kills' = kills - 1 /\ ends' = [ends EXCEPT ![d] = "returned"]
  /\ UNCHANGED <<path, ino, ver, cl, left, slow>>
\* A signal finds stop under way, which returns at once.
SignalAgain(d) ==
  /\ gw[d] \in {"draining", "closed"} /\ kills > 0
  /\ kills' = kills - 1 /\ Goes(d, "gone")
  /\ UNCHANGED <<supVars, path, ino, ver, cl, left, ends, slow>>
\* Mutant: the watch only looks for the file.
SomeFile(d) == path # Nobody
StillOurs(d) == path = ino[d]
\* startOwnershipWatch: no watch for a gateway that has seen no file.
Displaced(d) ==
  /\ ino[d] # Nobody /\ ~StillOurs(d) /\ Stopping(d)
  /\ ends' = [ends EXCEPT ![d] = "soon"]
  /\ UNCHANGED <<path, ownVars>>

\* The agents are gone and the connections closed; then the server and its file.
Close(d) ==
  /\ gw[d] = "draining"
  /\ path' = IF CloseUnlinks \/ ino[d] \in {Nobody, path} THEN Nobody ELSE path
  /\ Goes(d, "closed")
  /\ UNCHANGED <<supVars, ownVars, ends>>
\* A process that was only asked to shut down lives as long as an adapter of it.
Exit(d) ==
  /\ \/ gw[d] = "closed" /\ (ends[d] # "idle" \/ \A a \in adapters : a.gateway # d)
     \/ gw[d] = "draining" /\ ends[d] = "soon"
  /\ Goes(d, "gone")
  /\ UNCHANGED <<supVars, path, ownVars, ends>>
\* SIGKILL.
Kill(d) ==
  /\ Runs(d) /\ kills > 0
  /\ kills' = kills - 1 /\ Goes(d, "gone")
  /\ late' = late \cup {d}
  /\ UNCHANGED <<file, sup, adapters, unsaved, budget, path, ino, ver, cl, left, ends, slow>>

------------------------------------------------------------------------------
(* A client needs the gateway (ensureGateway).                             *)

Moves(c, phase) == cl' = [cl EXCEPT ![c] = phase]
\* The fast path: a gateway of the right version answers.
Ensure(c) ==
  /\ cl[c] = "idle" /\ left[c] > 0
  /\ left' = [left EXCEPT ![c] = @ - 1]
  /\ \E answered \in BOOLEAN :
       /\ Ping(path, answered)
       /\ IF ~answered THEN Moves(c, "clean")
          ELSE IF c \notin Asks \/ ver[path] = Version[c] THEN UNCHANGED cl
               ELSE Moves(c, "drain")
  /\ UNCHANGED <<supVars, path, ino, gw, ver, ends, kills>>
\* The busy agents were waited for, by a status that is never asked again; then
\* whoever listens by now is asked to shut down.
AskShutdown(c) ==
  /\ cl[c] = "drain" /\ Ready(path) /\ Moves(c, "await")
  /\ IF path # Nobody /\ gw[path] = "up" THEN Stopping(path) ELSE UNCHANGED <<gw, supVars>>
  /\ UNCHANGED <<path, ino, ver, left, ends, slow, kills>>
\* The file is gone, a ping fails, or the wait is over.
AwaitShutdown(c) ==
  /\ cl[c] = "await" /\ Moves(c, "clean")
  /\ UNCHANGED <<supVars, path, ino, gw, ver, left, ends, slow, kills>>
\* cleanStaleSocket and spawnGateway.
CleanAndSpawn(c) ==
  /\ cl[c] = "clean"
  /\ \E d \in Daemons :
       /\ gw[d] = "new" /\ \A e \in Daemons : gw[e] = "new" => d <= e
       /\ Goes(d, "booting") /\ ver' = [ver EXCEPT ![d] = Version[c]]
  /\ path' = Nobody
  /\ Moves(c, "wait")
  /\ UNCHANGED <<supVars, ino, left, ends, slow, kills>>
\* It answers, or the wait is over and the call throws.
Awaited(c) ==
  /\ cl[c] = "wait" /\ Moves(c, "idle")
  /\ UNCHANGED <<supVars, path, ino, gw, ver, left, ends, slow, kills>>

------------------------------------------------------------------------------
(* The supervisors, in the gateways that run.                              *)

Rest == UNCHANGED <<path, ino, gw, ver, cl, left, ends, slow, kills>>

\* A connected client asks for an operation; connections last until the close.
ChannelOp ==
  /\ \E d \in Daemons, c \in Channels :
       Answers(d) /\ (\/ \E v \in {"on", "off"} : Save(d, c, v)
                      \/ \E v \in {"on", "off"} : SaveInVain(d, c, v)
                      \/ Delete(d, c))
  /\ Rest
Settings == SettingsChange /\ Rest
Settle(d) == Runs(d) /\ SettingsSettle(d) /\ Rest
Back(d, c) == Runs(d) /\ Respawn(d, c) /\ Rest
\* The adapters that were told to stop do; others may.
ToldExits(d) ==
  Runs(d) /\ (\E a \in adapters : a.told /\ AdapterExits(d, a, TRUE, FALSE)) /\ Rest
ExitsUnasked(d) ==
  /\ Runs(d)
  /\ \E a \in adapters, clean, long \in BOOLEAN : ~a.told /\ AdapterExits(d, a, clean, long)
  /\ Rest
Orphaned == (\E a \in adapters : ~Runs(a.gateway) /\ OrphanExits(a)) /\ Rest

Init ==
  /\ SupervisorInit
  /\ path = Nobody /\ ino = [d \in Daemons |-> Nobody]
  /\ gw = [d \in Daemons |-> "new"] /\ ver = [d \in Daemons |-> 0]
  /\ cl = [c \in Clients |-> "idle"] /\ left = [c \in Clients |-> MaxEnsures]
  /\ ends = [d \in Daemons |-> "idle"]
  /\ slow = budget.slow /\ kills = budget.kills

DaemonStep(d) ==
  \/ Listen(d) \/ Probe(d) \/ Take(d) \/ Relisten(d) \/ Serves(d)
  \/ Displaced(d) \/ Close(d) \/ Exit(d)
ClientStep(c) == Ensure(c) \/ AskShutdown(c) \/ AwaitShutdown(c) \/ CleanAndSpawn(c) \/ Awaited(c)

Next ==
  \/ \E d \in Daemons :
       \/ DaemonStep(d) \/ Signal(d) \/ SignalAgain(d) \/ Kill(d)
       \/ Settle(d) \/ ToldExits(d) \/ ExitsUnasked(d) \/ \E c \in Channels : Back(d, c)
  \/ \E c \in Clients : ClientStep(c)
  \/ ChannelOp \/ Settings \/ Orphaned

Spec == Init /\ [][Next]_vars
\* What a process that runs does by itself, timers and awaited answers: they come.
FairSpec ==
  Spec /\ \A d \in Daemons :
    /\ WF_vars(DaemonStep(d)) /\ WF_vars(Settle(d)) /\ WF_vars(ToldExits(d))
    /\ \A c \in Channels : WF_vars(Back(d, c))

------------------------------------------------------------------------------
(* Properties.                                                             *)

\* An adapter that was not told to stop is the one its supervisor knows: a channel
\* has never two of one gateway that both mean to stay, and one that is switched
\* off, deleted or replaced has been told (channel-supervisor.ts, the exit handler),
\* unless its user was told that the change failed.
KnownOrTold ==
  \A a \in adapters :
    Runs(a.gateway) /\ ~a.told =>
      /\ sup[a.gateway].entry[a.channel].child = a.n
      /\ sup[a.gateway].conf[a.channel] = "on" \/ <<a.gateway, a.channel>> \in unsaved

\* An adapter outlives its gateway untold only if that was killed, or was asked to
\* run a channel while it was stopping.
OnlyTheKilledLeak ==
  \A a \in adapters : ~Runs(a.gateway) /\ ~a.told => a.gateway \in late

\* Two gateways are one in the end: whoever lost the file stops.  A gateway that
\* found no file when it listened, or another's, does not watch its own.
Watches(d) == ino[d] = d
OneGatewayRemains ==
  <>[](Cardinality({d \in Daemons : Answers(d) /\ Watches(d)}) <= 1)

\* Not so (README): whatever a gateway found when it listened.
OneGatewayAnswers ==
  <>[](Cardinality({d \in Daemons : Answers(d)}) <= 1)

\* A channel whose adapter crashed has an adapter again, as long as it is enabled
\* and its gateway runs, unless the process could not be started or has crashed
\* too often (channel-supervisor.ts:290-292).
Alive(d, c) == \E a \in Of(adapters, d, c) : a.n = sup[d].entry[c].child
CrashedComesBack ==
  \A d \in Daemons, c \in Channels :
    (gw[d] = "up" /\ sup[d].conf[c] = "on" /\ sup[d].entry[c].why = "crash"
      /\ sup[d].entry[c].restarts <= RespawnMax) ~>
      \/ gw[d] # "up" \/ sup[d].conf[c] # "on"
      \/ Alive(d, c) \/ sup[d].entry[c].why = "spawn" \/ sup[d].entry[c].restarts > RespawnMax

\* Not so (README): a gateway that stops leaves the file of another alone.
OthersFileKept ==
  [][\A d \in Daemons : Close(d) => path' \in {path, Nobody} /\ (path' # path => path = d)]_vars
=============================================================================
