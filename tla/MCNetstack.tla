------------------------------ MODULE MCNetstack ------------------------------
(* One connection, three units each way, a relay channel of one unit and      *)
(* socket buffers of two.                                                     *)
EXTENDS Netstack
=============================================================================
