---------------------------- MODULE MCNativeCore ----------------------------
(* Two threads start and two threads stop the core, in any order, for ever. *)
EXTENDS TunnelSlotRefinement
=============================================================================
