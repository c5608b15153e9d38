---------------------------- MODULE AppendOnlyLog ----------------------------
(***************************************************************************)
(* What the event store promises to the processes that share it            *)
(* (event-store/store.ts, EventStore): one log without gaps, which only    *)
(* ever grows at its end, and holds at most one event of each idempotency  *)
(* key.  An event is a record with a key; NoKey is none.                   *)
(***************************************************************************)
EXTENDS Naturals, Sequences

CONSTANT NoKey
VARIABLE log

OncePerKey(l) ==
  \A i, j \in DOMAIN l : l[i].key = l[j].key /\ l[i].key # NoKey => i = j

Extends(l, m) ==
  /\ Len(m) > Len(l)
  /\ \A i \in 1 .. Len(l) : m[i] = l[i]

Init == log = <<>>
Grow == Extends(log, log') /\ OncePerKey(log')
Spec == Init /\ [][Grow]_log
=============================================================================
