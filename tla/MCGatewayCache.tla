--------------------------- MODULE MCGatewayCache ---------------------------
(***************************************************************************)
(* An instance of GatewayCache for TLC: two of three gateways belong to    *)
(* the wanted family, and the file holds two.                              *)
(***************************************************************************)
EXTENDS GatewayCache

CONSTANTS g1, g2, g3

MCGateways == {g1, g2, g3}
MCWanted == {g1, g2}

=============================================================================
