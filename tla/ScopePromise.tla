--------------------------- MODULE ScopePromise ---------------------------
(***************************************************************************)
(* What the scope lock promises the engines of a scope                     *)
(* (src/core/scheduler/scope-lock.ts), whatever it does to keep it.        *)
(***************************************************************************)
EXTENDS Naturals

VARIABLES
  held,      \* is the engine of the process active?
  lapses,    \* live holders that missed their heartbeats for STALE_MS, so far
  overlaps   \* calls that began while another process was inside one, so far

Active == {p \in DOMAIN held : held[p]}

OneEngine == \A p, q \in Active : p = q

\* One engine of a scope dispatches, as long as no two calls overlap and no
\* live holder is suspended past STALE_MS: whatever processes start, stop, die
\* inside a call or get the pid of a dead one (tryAcquire, heartbeat, release).
OneEngineInSequence == overlaps = 0 /\ lapses = 0 => OneEngine

\* Two engines that both came to hold the lock do not stay two: the heartbeat
\* of all but one finds a lock that is not its own and demotes its engine.
DoubleDispatchEnds == ~OneEngine ~> OneEngine
=============================================================================
