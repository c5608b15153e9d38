--------------------------- MODULE MCGatewayPool ---------------------------
(* Instances of GatewayPool for TLC. *)
EXTENDS GatewayPool, TLC

CONSTANTS r1, r2, r3

Budget(n, some) == [d \in Disturbances |-> IF d \in some THEN n ELSE 0]

\* Three tells, or two and a window, or one, a window and a headless client.
Tells   == [r \in Requests |-> "tell"]
Mixes   == {Tells, [Tells EXCEPT ![r3] = "window"],
            [Tells EXCEPT ![r2] = "window", ![r3] = "headless"]}

Pairs == {{"long", "refusal"}, {"crash", "spawn"}, {"refusal", "crash"}, {"crash", "probe"},
          {"probe", "stuck"}, {"stop", "local"}, {"local", "append"},
          {"retry", "idle"}}
Scenarios == {Budget(1, p) : p \in Pairs}

TwoAgents == 1 .. 2
=============================================================================
