--------------------------- MODULE MCMasqueConnect ---------------------------
(* Passes of up to three gateways, two sessions in one process.               *)
EXTENDS MasqueConnect
=============================================================================
