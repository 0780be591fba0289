--------------------------- MODULE MCGatewayExit ----------------------------
(* Instances of GatewayExit for TLC. *)
EXTENDS GatewayExit
CONSTANTS w1, w2
TwoWorkers == {w1, w2}

=============================================================================
