----------------------------- MODULE ByteStream -----------------------------
(***************************************************************************)
(* What a QUIC stream promises the two applications at its ends            *)
(* (Connection::stream_send, stream_recv, stream_shutdown of               *)
(* src/core/quiche/quiche/src/lib.rs): the reader is handed the bytes the  *)
(* writer had accepted, once each and in order; it sees the end when the   *)
(* writer finished and everything was read, and a reset only when the      *)
(* writer abandoned the stream.  Bytes are their offsets.                  *)
(***************************************************************************)
EXTENDS Naturals

CONSTANT MaxBytes

VARIABLES
  accepted,    (* bytes accepted from the writer                             *)
  finished,    (* the writer finished the stream                             *)
  abandoned,   (* the writer gave the stream up, or was asked to             *)
  delivered,   (* bytes handed to the reader                                 *)
  seen         (* what the reader was told of the end: none, fin, reset      *)

byteVars == <<accepted, finished, abandoned, delivered, seen>>

ByteInit ==
  /\ accepted = 0 /\ delivered = 0
  /\ finished = FALSE /\ abandoned = FALSE
  /\ seen = "none"

Accept ==
  /\ ~finished /\ ~abandoned
  /\ accepted' \in accepted..MaxBytes
  /\ finished' \in BOOLEAN
  /\ UNCHANGED <<abandoned, delivered, seen>>

Abandon ==
  /\ abandoned' = TRUE
  /\ UNCHANGED <<accepted, finished, delivered, seen>>

(* The last read may come with the end.  Of an abandoned stream the reader *)
(* may also be told that it ended.                                         *)
Hand ==
  /\ seen = "none"
  /\ delivered' \in delivered..accepted
  /\ seen' \in {"none", "fin"}
  /\ seen' = "fin" => abandoned \/ (finished /\ delivered' = accepted)
  /\ UNCHANGED <<accepted, finished, abandoned>>

HandReset ==
  /\ seen = "none"
  /\ abandoned
  /\ seen' = "reset"
  /\ UNCHANGED <<accepted, finished, abandoned, delivered>>

ByteNext == Accept \/ Abandon \/ Hand \/ HandReset

ByteSpec == ByteInit /\ [][ByteNext]_byteVars
=============================================================================
