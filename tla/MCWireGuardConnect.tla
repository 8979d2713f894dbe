------------------------- MODULE MCWireGuardConnect -------------------------
(* Two endpoints, two profiles, two sessions, a ladder of three sizes.       *)
EXTENDS WireGuardConnect
=============================================================================
