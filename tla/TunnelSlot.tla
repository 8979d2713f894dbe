----------------------------- MODULE TunnelSlot -----------------------------
(***************************************************************************)
(* What the C interface of the Aether core promises its Android caller     *)
(* (ffi.rs): there is one tunnel slot in the process, a start that finds   *)
(* it taken is refused, and "connected" is only ever said by the session   *)
(* that holds the slot, while it holds it.                                 *)
(***************************************************************************)

CONSTANTS Starters,   (* the threads that may call aether_start_json*        *)
          NoSession   (* the holder of a free slot, not a thread             *)

VARIABLES holder,   (* the thread whose session owns the slot                *)
          up        (* that session has reported "connected"                 *)

slotVars == <<holder, up>>

SlotInit ==
  /\ holder = NoSession
  /\ up = FALSE

(* A start takes the slot only when nobody has it.                         *)
Open(t) ==
  /\ holder = NoSession
  /\ holder' = t
  /\ UNCHANGED up

(* The session that holds the slot says "connected"; it may say it again   *)
(* after each reconnect, which changes nothing here.                       *)
Announce ==
  /\ holder # NoSession
  /\ up' = TRUE
  /\ UNCHANGED holder

(* The session gives the slot back, whether it was ever connected or not.  *)
Close ==
  /\ holder # NoSession
  /\ holder' = NoSession
  /\ up' = FALSE

SlotNext ==
  \/ \E t \in Starters : Open(t)
  \/ Announce
  \/ Close

SlotSpec == SlotInit /\ [][SlotNext]_slotVars

=============================================================================
