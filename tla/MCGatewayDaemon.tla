--------------------------- MODULE MCGatewayDaemon ---------------------------
(* Instances of GatewayDaemon for TLC. *)
EXTENDS GatewayDaemon

\* A tool of a new version, which asks for it, and a channel adapter of the old one,
\* which does not.
Versions == [c \in Clients |-> IF c = "tool" THEN 2 ELSE 1]

\* Two of everything that is bounded, in any combination.
Pairs == {<<"ops", "exits">>, <<"ops", "kills">>, <<"exits", "exits">>,
          <<"slow", "kills">>}
Of2(p, kind) == Cardinality({i \in {1, 2} : p[i] = kind})
Few == {[ops |-> Of2(p, "ops"), exits |-> Of2(p, "exits"), slow |-> Of2(p, "slow"),
         kills |-> Of2(p, "kills")] : p \in Pairs}
=============================================================================
