------------------------ MODULE TunnelSlotRefinement ------------------------
(***************************************************************************)
(* The atomics of NativeCore implement the single tunnel slot of           *)
(* TunnelSlot.                                                             *)
(***************************************************************************)
EXTENDS NativeCore

CONSTANT NoSession   (* the holder of a free slot, not a thread              *)

ASSUME SlotAssumption == NoSession \notin Starters

(* The slot belongs to the thread between its compare_exchange and the     *)
(* store of FALSE by its guard.                                            *)
slotHolder ==
  IF \E t \in Starters : Owns(t)
  THEN CHOOSE t \in Starters : Owns(t)
  ELSE NoSession

slotUp == \E t \in Starters : Owns(t) /\ announced[t]

Slot == INSTANCE TunnelSlot WITH holder <- slotHolder, up <- slotUp

(* Every behaviour of the core is one of the slot: a start never takes a   *)
(* slot that is held, and nothing is announced outside the session that    *)
(* holds it.                                                               *)
ImplementsSlot == Slot!SlotSpec

=============================================================================
