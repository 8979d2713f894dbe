------------------------------ MODULE DataPlane ------------------------------
(***************************************************************************)
(* verify_endpoint_keep_session and verify_dataplane                       *)
(* (src/core/aether/src/wireguard.rs): the validation a WireGuard tunnel   *)
(* has to pass before it is exposed.  A handshake; then, if the data plane *)
(* is checked, two small probes; then a ladder of ever smaller packets,    *)
(* until one of them crosses.  What crossed is left in INNER_MTU_HINT, a   *)
(* static that the TUN bridge clamps to.                                   *)
(*                                                                         *)
(* Sizes are numbered: the smallest rung of PROBE_LADDER is 1, the largest *)
(* is Rungs.  All large probes carry the same id, so a reply to any of     *)
(* those sent so far may arrive at any time, late or never.  Packet        *)
(* contents, obfuscation and the retransmission of a probe are left out.   *)
(***************************************************************************)
EXTENDS Naturals

CONSTANT Rungs      (* the length of PROBE_LADDER                            *)

ASSUME RungsAssumption == Rungs \in Nat \ {0}

DATAPLANE_REQUIRED_SUCCESSES == 2

VARIABLES
  stage,       (* "idle", "handshake", "small" probes, "ladder"              *)
  successes,   (* small probes answered                                      *)
  rung,        (* the rung tried, counted from the largest size              *)
  proven,      (* history: the largest size this validation saw cross        *)
  hint         (* INNER_MTU_HINT                                             *)

planeVars == <<stage, successes, rung, proven, hint>>

Sizes == 1..Rungs

(* The size tried on rung r, and the one clamped to when no rung crosses.   *)
SizeOf(r) == Rungs - r
Floor == SizeOf(Rungs - 1)

PlaneTypeOK ==
  /\ stage \in {"idle", "handshake", "small", "ladder"}
  /\ successes \in 0..DATAPLANE_REQUIRED_SUCCESSES
  /\ rung \in 0..(Rungs - 1)
  /\ proven \in 0..Rungs
  /\ hint \in Sizes

(* The hint starts from the largest size: a path never measured is clamped. *)
PlaneInit ==
  /\ stage = "idle"
  /\ successes = 0
  /\ rung = 0
  /\ proven = 0
  /\ hint = Rungs

(* The locals of verify_dataplane go when it returns.                       *)
Idle == stage' = "idle" /\ successes' = 0 /\ rung' = 0

StartValidation ==
  /\ stage' = "handshake"
  /\ successes' = 0
  /\ rung' = 0
  /\ proven' = 0

(* The peer answered the handshake, or sent one of its own.                 *)
HandshakeAnswered == stage = "handshake"

(* A small probe comes back; the second one starts the ladder at the top.   *)
SmallReply ==
  /\ stage = "small"
  /\ successes' = successes + 1
  /\ stage' = IF successes' >= DATAPLANE_REQUIRED_SUCCESSES THEN "ladder"
                                                            ELSE "small"
  /\ UNCHANGED <<rung, proven, hint>>

(* Mutant: any packet ends the ladder, a late answer to a small probe too.  *)
LargeReplyAnything(s) ==
  /\ stage = "ladder"
  /\ s \in 0..Rungs
  /\ s = 0 \/ s >= SizeOf(rung)
  /\ hint' = SizeOf(rung)
  /\ proven' = IF s > proven THEN s ELSE proven
  /\ Idle

(* The echo of a large probe of some size sent so far comes back: the rung  *)
(* tried at the moment is taken to have crossed.  A small reply is ignored. *)
LargeReply(s) ==
  /\ stage = "ladder"
  /\ s \in Sizes
  /\ s >= SizeOf(rung)
  /\ hint' = SizeOf(rung)
  /\ proven' = IF s > proven THEN s ELSE proven
  /\ Idle

(* The budget of the rung is used up: the next smaller size.                *)
RungExpires ==
  /\ stage = "ladder"
  /\ rung + 1 < Rungs
  /\ rung' = rung + 1
  /\ UNCHANGED <<stage, successes, proven, hint>>

(* On the ladder the deadline keeps the tunnel, clamped to the smallest     *)
(* size, although not even that one has crossed.                            *)
DeadlineKeeps ==
  /\ stage = "ladder"
  /\ hint' = Floor
  /\ UNCHANGED proven
  /\ Idle

(* Before the ladder the deadline is fatal, an error of the socket always.  *)
Rejects ==
  /\ stage # "idle"
  /\ UNCHANGED hint
  /\ Idle

=============================================================================
