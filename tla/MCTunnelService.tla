-------------------------- MODULE MCTunnelService --------------------------
(* Every setting of the kill switch and of auto-reconnect.                  *)
EXTENDS TunnelService

MCPreferences == [kill_switch : BOOLEAN, auto_reconnect : BOOLEAN]
=============================================================================
