----------------------------- MODULE QuicStream -----------------------------
(***************************************************************************)
(* One unidirectional stream of the QUIC library (src/core/quiche/quiche/  *)
(* src): SendBuf and the frame scheduling of Connection::send at one end,  *)
(* RecvBuf and its flow control at the other, a network that loses, delays *)
(* and reorders frames between them, and loss detection that may be wrong. *)
(*                                                                         *)
(* Bytes are their offsets.  The chunks of SendBuf are kept as the offsets *)
(* between which they lie (cuts), what each still has to emit as the set   *)
(* pending; the chunks of RecvBuf as the intervals they cover.  Frames     *)
(* travel one by one: which of them share a packet is left open, and so    *)
(* are the congestion window and the connection's limit, as the amount a   *)
(* write is let in and the length of a frame.  The DATA_BLOCKED frames,    *)
(* which change nothing at the other end, are left out.                    *)
(***************************************************************************)
EXTENDS Integers, FiniteSets, FiniteSetsExt

CONSTANTS MaxBytes,     (* bytes the writer has to send: a bound             *)
          MaxFrame,     (* payload of the longest frame                      *)
          MaxFlight,    (* frames in flight at a time: a bound               *)
          MaxFaults,    (* frames dropped, delayed past their loss, or       *)
                        (* repeated by a probe, ends repeated by the writer: *)
                        (* a bound                                           *)
          Window,       (* initial_max_stream_data_uni                       *)
          MaxWindow     (* max_stream_window                                 *)

(* Half a window of one byte is none: such a stream is never credited.     *)
ASSUME QuicAssumption ==
  /\ MaxBytes \in Nat \ {0} /\ MaxFrame \in Nat \ {0}
  /\ MaxFlight \in Nat \ {0} /\ MaxFaults \in Nat
  /\ Window \in Nat \ {0, 1} /\ MaxWindow \in Nat /\ MaxWindow >= Window

Unknown == -1
Offsets == 0..MaxBytes

VARIABLES
  (* SendBuf, and the sender's queues for the stream *)
  off,         (* bytes accepted from the application                        *)
  emitOff,     (* largest offset sent                                        *)
  finOff,      (* final offset, or Unknown                                   *)
  sendMax,     (* max_data                                                   *)
  acked,       (* offsets acknowledged                                       *)
  ackedAny,    (* acked holds a range, be it empty                           *)
  base,        (* offset of the first chunk, off when there is none          *)
  cuts,        (* boundaries between chunks                                  *)
  pending,     (* offsets still to emit                                      *)
  flushable,   (* the stream is in the flushable queue                       *)
  shut,        (* shutdown: Shutdown::Write                                  *)
  stopped,     (* error is set: STOP_SENDING arrived                         *)
  resetQueued, (* the stream is in the map of RESET_STREAM frames to send    *)
  sendGone,    (* the stream was collected at the sender                     *)
  (* RecvBuf, and the receiver's queues for the stream *)
  bufs,        (* intervals buffered                                         *)
  readOff,     (* off                                                        *)
  recvLen,     (* len                                                        *)
  recvFin,     (* fin_off, or Unknown                                        *)
  wasReset,    (* error is set                                               *)
  draining,    (* drain                                                      *)
  recvMax,     (* flow_control.max_data                                      *)
  window,      (* flow_control.window                                        *)
  consumed,    (* flow_control.consumed                                      *)
  almostFull,  (* the stream is in the almost_full set                       *)
  stopQueued,  (* the stream is in the map of STOP_SENDING frames to send    *)
  recvState,   (* absent, open or gone                                       *)
  (* the applications, the connection and the network *)
  written,     (* history: bytes the writer was told are accepted            *)
  ended,       (* history: the writer finished the stream                    *)
  seen,        (* what the reader was told of the end                        *)
  broken,      (* the connection was closed with an error                    *)
  wire,        (* frames in the network                                      *)
  out,         (* frames sent, neither acknowledged nor declared lost        *)
  got,         (* of these, the ones received                                *)
  faults       (* faults so far                                              *)

sendVars == <<off, emitOff, finOff, sendMax, acked, ackedAny, base, cuts,
              pending, flushable, shut, stopped, resetQueued, sendGone>>
recvVars == <<bufs, readOff, recvLen, recvFin, wasReset, draining, recvMax,
              window, consumed, almostFull, stopQueued, recvState, seen,
              broken>>
appVars  == <<written, ended>>
netVars  == <<wire, out, got, faults>>
quicVars == <<sendVars, recvVars, appVars, netVars>>

Stream(from, to, fin) == [type |-> "stream", from |-> from, to |-> to, fin |-> fin]
Reset(size)           == [type |-> "reset", size |-> size]
MaxStreamData(max)    == [type |-> "max", max |-> max]
StopSending           == [type |-> "stop"]

Frames ==
  {Stream(a, b, f) : a \in Offsets, b \in Offsets, f \in BOOLEAN}
    \cup {Reset(n) : n \in Offsets}
    \cup {MaxStreamData(n) : n \in 0..(MaxBytes + MaxWindow)}
    \cup {StopSending}

QuicTypeOK ==
  /\ {off, emitOff, sendMax, base, readOff, recvLen, consumed, written}
       \subseteq 0..(MaxBytes + MaxWindow)
  /\ finOff \in Offsets \cup {Unknown} /\ recvFin \in Offsets \cup {Unknown}
  /\ acked \subseteq 0..(off - 1) /\ cuts \subseteq 0..off
  /\ pending \subseteq base..(off - 1)
  /\ recvState \in {"absent", "open", "gone"}
  /\ bufs \subseteq Offsets \X Offsets
  /\ recvMax \in Window..(MaxBytes + MaxWindow) /\ window \in Window..MaxWindow
  /\ seen \in {"none", "fin", "reset"}
  /\ {ackedAny, flushable, shut, stopped, resetQueued, sendGone, wasReset,
      draining, almostFull, stopQueued, ended, broken} \subseteq BOOLEAN
  /\ wire \subseteq Frames /\ out \subseteq Frames /\ got \subseteq out
  /\ faults \in 0..MaxFaults

QuicInit ==
  /\ off = 0 /\ emitOff = 0 /\ finOff = Unknown /\ sendMax = Window
  /\ acked = {} /\ ackedAny = FALSE /\ base = 0 /\ cuts = {} /\ pending = {}
  /\ flushable = FALSE /\ shut = FALSE /\ stopped = FALSE
  /\ resetQueued = FALSE /\ sendGone = FALSE
  /\ bufs = {} /\ readOff = 0 /\ recvLen = 0 /\ recvFin = Unknown
  /\ wasReset = FALSE /\ draining = FALSE
  /\ recvMax = Window /\ window = Window /\ consumed = 0
  /\ almostFull = FALSE /\ stopQueued = FALSE /\ recvState = "absent"
  /\ written = 0 /\ ended = FALSE /\ seen = "none" /\ broken = FALSE
  /\ wire = {} /\ out = {} /\ got = {} /\ faults = 0

-----------------------------------------------------------------------------
(***************************************************************************)
(* SendBuf.                                                                *)
(***************************************************************************)

(* off_front: the first byte to emit.                                      *)
OffFront == IF pending = {} THEN off ELSE Min(pending)

(* ack_off: the end of the acknowledged prefix.                            *)
AckOff(acks) == Max({n \in 0..off : 0..(n - 1) \subseteq acks})

(* is_complete.                                                            *)
IsComplete(acks, any) == any /\ finOff # Unknown /\ acks = 0..(finOff - 1)

IsFlushable == pending # {}

(* Put a frame on its way, if the bound allows one more and no copy of it  *)
(* is outstanding.                                                         *)
Transmit(f) ==
  /\ f \notin out
  /\ Cardinality(out \cup wire) < MaxFlight
  /\ wire' = wire \cup {f}
  /\ out' = out \cup {f}
  /\ UNCHANGED <<got, faults>>

(* The stream is put into the flushable queue when it has data to emit, or *)
(* an end without data, unless it had data to emit before.                 *)
Queue(emptyFin) ==
  flushable' = (flushable \/ ((pending' # {} \/ emptyFin) /\ ~IsFlushable))

(* stream_do_send, SendBuf::write: n bytes are let in, all of them when    *)
(* the end comes with them.  Nothing goes past a final offset, and a final *)
(* offset can only be repeated.                                            *)
StreamSend(n, fin) ==
  /\ ~broken
  /\ ~sendGone /\ ~stopped
  /\ n > 0 \/ fin
  /\ off + n <= Min({sendMax, MaxBytes})
  /\ IF finOff = Unknown THEN UNCHANGED faults
     ELSE n = 0 /\ faults < MaxFaults /\ faults' = faults + 1
  /\ off' = off + n
  /\ finOff' = IF fin THEN off + n ELSE finOff
  /\ cuts' = IF n > 0 /\ base < off THEN cuts \cup {off} ELSE cuts
  /\ pending' = pending \cup off..(off + n - 1)
  /\ Queue(n = 0)
  /\ written' = IF shut THEN written ELSE off + n
  /\ ended' = (ended \/ (fin /\ ~shut))
  /\ UNCHANGED <<emitOff, sendMax, acked, ackedAny, base, shut, stopped,
                 resetQueued, sendGone, recvVars, wire, out, got>>

(* The length of the run of bytes emit copies: contiguous, in one frame.   *)
Run(k) == Max({n \in 0..k : OffFront..(OffFront + n - 1) \subseteq pending})

(* One STREAM frame for the stream at the head of the queue, SendBuf::emit. *)
SendStream(k) ==
  LET from == OffFront
      to   == OffFront + Run(k)
  IN  /\ ~broken
      /\ flushable /\ ~sendGone /\ ~stopped
      /\ Transmit(Stream(from, to, finOff = to))
      /\ emitOff' = Max({emitOff, to})
      /\ pending' = pending \ from..(to - 1)
      /\ flushable' = (pending' # {})
      /\ UNCHANGED <<off, finOff, sendMax, acked, ackedAny, base, cuts, shut,
                     stopped, resetQueued, sendGone, recvVars, appVars>>

(* A stream that was stopped leaves the queue.                             *)
SkipStopped ==
  /\ ~broken
  /\ flushable /\ ~sendGone /\ stopped
  /\ flushable' = FALSE
  /\ UNCHANGED <<off, emitOff, finOff, sendMax, acked, ackedAny, base, cuts,
                 pending, shut, stopped, resetQueued, sendGone, recvVars,
                 appVars, netVars>>

(* Mutant: only the chunk the range starts in is emitted again.            *)
RetransmitFirstChunk(from, to) ==
  IF base = off \/ to <= AckOff(acked)
  THEN UNCHANGED <<pending, cuts>>
  ELSE LET end == Min({off} \cup {c \in cuts : c > from})
       IN  /\ pending' = pending \cup
                 (from..(Min({to, end}) - 1) \cap base..(off - 1))
           /\ cuts' = IF base < to /\ to < off THEN cuts \cup {to} ELSE cuts

(* SendBuf::retransmit: the bytes of the range that are still held are to  *)
(* be emitted again; the chunk the range ends in is split.                 *)
Retransmit(from, to) ==
  IF base = off \/ to <= AckOff(acked)
  THEN UNCHANGED <<pending, cuts>>
  ELSE /\ pending' = pending \cup (from..(to - 1) \cap base..(off - 1))
       /\ cuts' = IF base < to /\ to < off THEN cuts \cup {to} ELSE cuts

(* Mutant: a stream is queued again for an end without data only.          *)
RequeueUnqueued(f) ==
  /\ Retransmit(f.from, f.to)
  /\ UNCHANGED flushable

(* What send makes of a lost STREAM frame.                                 *)
Requeue(f) ==
  /\ Retransmit(f.from, f.to)
  /\ Queue(f.from = f.to /\ f.fin)

(* Of a lost RESET_STREAM frame: it is queued, whatever became of the      *)
(* stream.                                                                 *)
SenderLoses(f) ==
  /\ IF f.type = "stream"
     THEN /\ IF sendGone \/ stopped
             THEN UNCHANGED <<pending, cuts, flushable>>
             ELSE Requeue(f)
          /\ UNCHANGED resetQueued
     ELSE /\ resetQueued' = TRUE
          /\ UNCHANGED <<pending, cuts, flushable>>
  /\ UNCHANGED <<off, emitOff, finOff, sendMax, acked, ackedAny, base, shut,
                 stopped, sendGone>>

(* SendBuf::ack_and_drop, and the collection of a stream that is complete. *)
(* One that was stopped may still wait in the writable queue.              *)
Collect(acks, any) ==
  /\ sendGone' \in IF ~IsComplete(acks, any) THEN {FALSE}
                   ELSE IF stopped THEN BOOLEAN ELSE {TRUE}
  /\ flushable' = (flushable /\ ~sendGone')

(* Mutant: bytes that were to be emitted again stay so when they are       *)
(* acknowledged.                                                           *)
AckStreamKeeps(f) ==
  LET acks  == acked \cup f.from..(f.to - 1)
      front == AckOff(acks)
      drop  == IF f.from > front THEN base
               ELSE Max({base} \cup {c \in cuts \cup {off} : c <= front})
  IN  /\ acked' = acks /\ ackedAny' = TRUE
      /\ base' = drop
      /\ cuts' = {c \in cuts : c > drop}
      /\ Collect(acks, TRUE)
      /\ UNCHANGED pending

AckStream(f) ==
  LET acks  == acked \cup f.from..(f.to - 1)
      front == AckOff(acks)
      drop  == IF f.from > front THEN base
               ELSE Max({base} \cup {c \in cuts \cup {off} : c <= front})
  IN  /\ acked' = acks /\ ackedAny' = TRUE
      /\ base' = drop
      /\ pending' = pending \ 0..(drop - 1)
      /\ cuts' = {c \in cuts : c > drop}
      /\ Collect(acks, TRUE)

SenderAcked(f) ==
  /\ IF sendGone
     THEN UNCHANGED <<acked, ackedAny, base, pending, cuts, sendGone, flushable>>
     ELSE IF f.type = "stream"
     THEN AckStream(f)
     ELSE /\ Collect(acked, ackedAny)
          /\ UNCHANGED <<acked, ackedAny, base, pending, cuts>>
  /\ UNCHANGED <<off, emitOff, finOff, sendMax, shut, stopped, resetQueued>>

(* Mutant: the final size of a reset is what is left to emit from, not what *)
(* was sent.                                                               *)
ResetSendAtFront ==
  LET size == OffFront
  IN  /\ off' = size /\ finOff' = size
      /\ acked' = acked \cup 0..(size - 1) /\ ackedAny' = TRUE
      /\ base' = size /\ cuts' = {} /\ pending' = {}
      /\ resetQueued' = TRUE
      /\ UNCHANGED <<emitOff, sendMax, flushable, sendGone>>

(* SendBuf::reset: what was sent is the whole stream, all of it taken as   *)
(* acknowledged, and a RESET_STREAM frame is due.  The stream stays in the *)
(* flushable queue.                                                        *)
ResetSend ==
  LET size == Max({OffFront, emitOff})
  IN  /\ off' = size /\ finOff' = size
      /\ acked' = acked \cup 0..(size - 1) /\ ackedAny' = TRUE
      /\ base' = size /\ cuts' = {} /\ pending' = {}
      /\ resetQueued' = TRUE
      /\ UNCHANGED <<emitOff, sendMax, flushable, sendGone>>

(* stream_shutdown, Shutdown::Write.                                       *)
ShutdownWrite ==
  /\ ~broken
  /\ ~sendGone /\ ~shut
  /\ ResetSend
  /\ shut' = TRUE
  /\ UNCHANGED <<stopped, recvVars, appVars, netVars>>

SendReset ==
  /\ ~broken
  /\ resetQueued
  /\ Transmit(Reset(emitOff))
  /\ resetQueued' = FALSE
  /\ UNCHANGED <<off, emitOff, finOff, sendMax, acked, ackedAny, base, cuts,
                 pending, flushable, shut, stopped, sendGone, recvVars,
                 appVars>>

(* STOP_SENDING: the stream is reset, and the application will be told.    *)
SenderStopped ==
  IF stopped THEN UNCHANGED sendVars
  ELSE ResetSend /\ stopped' = TRUE /\ UNCHANGED shut

SenderCredited(max) ==
  /\ sendMax' = Max({sendMax, max})
  /\ UNCHANGED <<off, emitOff, finOff, acked, ackedAny, base, cuts, pending,
                 flushable, shut, stopped, resetQueued, sendGone>>

(* A frame for a collected stream is ignored, at this end too.             *)
SenderReceives(f) ==
  IF sendGone THEN UNCHANGED sendVars
  ELSE IF f.type = "stop" THEN SenderStopped
  ELSE SenderCredited(f.max)

-----------------------------------------------------------------------------
(***************************************************************************)
(* RecvBuf.                                                                *)
(***************************************************************************)

Covered(i) == \E b \in bufs : b[1] <= i /\ i < b[2]

(* The pieces of an incoming range no chunk covers yet.                    *)
Pieces(lo, hi) ==
  {p \in (lo..hi) \X (lo..hi) :
     /\ p[1] < p[2]
     /\ \A i \in p[1]..(p[2] - 1) : ~Covered(i)
     /\ p[1] = lo \/ Covered(p[1] - 1)
     /\ p[2] = hi \/ Covered(p[2])}

(* The checks of RecvBuf::write: FlowControl and FinalSize.                *)
Unacceptable(f) ==
  \/ f.to > recvMax
  \/ recvFin # Unknown /\ (f.to > recvFin \/ (f.fin /\ f.to # recvFin))
  \/ f.fin /\ f.to < recvLen

(* An empty frame is kept for the final offset it carries, and kept only   *)
(* once; a chunk replaces the one that ends where it does.                 *)
Stored(f) ==
  LET empty == f.from = f.to
  IN  IF empty
      THEN IF f.fin /\ recvFin = Unknown /\ \A b \in bufs : b[2] # f.to
           THEN {<<f.to, f.to>>} ELSE {}
      ELSE IF f.to <= readOff THEN {}
      ELSE Pieces(Max({f.from, readOff}), f.to)

(* RecvBuf::write.                                                         *)
Insert(f) ==
  LET new == Stored(f)
      len == Max({recvLen} \cup {p[2] : p \in new})
  IN  /\ recvFin' = IF f.fin THEN f.to ELSE recvFin
      /\ recvLen' = len
      /\ IF draining
         THEN readOff' = (IF new = {} THEN readOff ELSE len) /\ UNCHANGED bufs
         ELSE /\ bufs' = {b \in bufs : \A p \in new : p[2] # b[2]} \cup new
              /\ UNCHANGED readOff

(* ready, is_fin, almost_full.                                             *)
Ready      == \E b \in bufs : b[1] = readOff
IsFin(to)  == recvFin = to
AlmostFull(read) == recvFin = Unknown /\ recvMax - read < window \div 2

Breaks ==
  /\ broken' = TRUE
  /\ UNCHANGED <<bufs, readOff, recvLen, recvFin, wasReset, draining, recvMax,
                 window, consumed, almostFull, stopQueued, recvState, seen>>

ReceiveStream(f) ==
  IF Unacceptable(f) THEN Breaks
  ELSE /\ Insert(f)
       /\ recvState' = "open"
       /\ UNCHANGED <<wasReset, draining, recvMax, window, consumed, almostFull,
                      stopQueued, seen, broken>>

(* RecvBuf::reset: what is buffered is dropped, and an empty chunk at the  *)
(* final offset tells the application.                                     *)
ReceiveReset(size) ==
  IF \/ recvFin # Unknown /\ recvFin # size
     \/ size < recvLen
     \/ ~wasReset /\ size > recvMax
  THEN Breaks
  ELSE /\ recvState' = "open"
       /\ IF wasReset
          THEN UNCHANGED <<bufs, readOff, recvLen, recvFin, wasReset>>
          ELSE /\ wasReset' = TRUE
               /\ readOff' = size
               /\ recvFin' = size
               /\ recvLen' = size
               /\ bufs' = IF recvFin = Unknown /\ ~draining
                          THEN {<<size, size>>} ELSE {}
       /\ UNCHANGED <<draining, recvMax, window, consumed, almostFull,
                      stopQueued, seen, broken>>

(* A frame for a collected stream is ignored.                              *)
ReceiverReceives(f) ==
  IF recvState = "gone" THEN UNCHANGED recvVars
  ELSE IF f.type = "stream" THEN ReceiveStream(f) ELSE ReceiveReset(f.size)

(* do_stream_recv of up to cap bytes: the contiguous ones, or the reset;   *)
(* the stream is collected with its last byte.                             *)
Readable(cap) ==
  Max({n \in 0..cap : \A i \in readOff..(readOff + n - 1) : Covered(i)})

(* Mutant: the end is reported where the known data ends.                  *)
TakeEndsEarly(cap) ==
  LET n == Readable(cap)
  IN  /\ readOff' = readOff + n
      /\ bufs' = {<<Max({b[1], readOff'}), b[2]>> :
                    b \in {c \in bufs : c[2] > readOff' \/ (n = cap /\ c[1] = readOff')}}
      /\ consumed' = consumed + n
      /\ seen' = IF recvFin # Unknown THEN "fin" ELSE seen
      /\ recvState' = IF IsFin(readOff') THEN "gone" ELSE "open"
      /\ almostFull' = (almostFull \/ AlmostFull(consumed + n))

Take(cap) ==
  LET n == Readable(cap)
  IN  /\ readOff' = readOff + n
      /\ bufs' = {<<Max({b[1], readOff'}), b[2]>> :
                    b \in {c \in bufs : c[2] > readOff' \/ (n = cap /\ c[1] = readOff')}}
      /\ consumed' = consumed + n
      /\ seen' = IF IsFin(readOff') THEN "fin" ELSE seen
      /\ recvState' = IF IsFin(readOff') THEN "gone" ELSE "open"
      /\ almostFull' = (almostFull \/ AlmostFull(consumed + n))

StreamRecv(cap) ==
  /\ ~broken
  /\ recvState = "open"
  /\ Ready
  /\ IF wasReset
     THEN /\ bufs' = {}
          /\ seen' = "reset"
          /\ recvState' = IF IsFin(readOff) THEN "gone" ELSE "open"
          /\ UNCHANGED <<readOff, consumed, almostFull>>
     ELSE Take(cap)
  /\ UNCHANGED <<recvLen, recvFin, wasReset, draining, recvMax, window,
                 stopQueued, broken, sendVars, appVars, netVars>>

(* stream_shutdown, Shutdown::Read.                                        *)
ShutdownRead ==
  /\ ~broken
  /\ recvState = "open"
  /\ ~draining
  /\ draining' = TRUE
  /\ bufs' = {}
  /\ readOff' = recvLen
  /\ stopQueued' = (stopQueued \/ ~IsFin(recvLen))
  /\ UNCHANGED <<recvLen, recvFin, wasReset, recvMax, window, consumed,
                 almostFull, recvState, seen, broken, sendVars, appVars, netVars>>

SendStop ==
  /\ ~broken
  /\ stopQueued
  /\ Transmit(StopSending)
  /\ stopQueued' = FALSE
  /\ UNCHANGED <<bufs, readOff, recvLen, recvFin, wasReset, draining, recvMax,
                 window, consumed, almostFull, recvState, seen, broken, sendVars,
                 appVars>>

(* MAX_STREAM_DATA: the limit is a window past what was read; the window   *)
(* is doubled when updates follow each other fast, but not for the repeat  *)
(* of an update that was lost.                                             *)
SendMaxStreamData ==
  /\ ~broken
  /\ almostFull
  /\ almostFull' = FALSE
  /\ IF recvState = "gone"
     THEN UNCHANGED <<window, recvMax, netVars>>
     ELSE /\ window' \in {window} \cup
               (IF AlmostFull(consumed) THEN {Min({2 * window, MaxWindow})} ELSE {})
          /\ recvMax' = consumed + window'
          /\ Transmit(MaxStreamData(recvMax'))
  /\ UNCHANGED <<bufs, readOff, recvLen, recvFin, wasReset, draining, consumed,
                 stopQueued, recvState, seen, broken, sendVars, appVars>>

(* Mutant: a lost update is not repeated.                                  *)
ReceiverLosesForgets(f) ==
  /\ IF f.type = "max"
     THEN UNCHANGED <<almostFull, stopQueued>>
     ELSE /\ stopQueued' = (stopQueued \/ (recvState = "open" /\ ~IsFin(readOff)))
          /\ UNCHANGED almostFull
  /\ UNCHANGED <<bufs, readOff, recvLen, recvFin, wasReset, draining, recvMax,
                 window, consumed, recvState, seen, broken>>

ReceiverLoses(f) ==
  /\ IF f.type = "max"
     THEN /\ almostFull' = (almostFull \/ recvState = "open")
          /\ UNCHANGED stopQueued
     ELSE /\ stopQueued' = (stopQueued \/ (recvState = "open" /\ ~IsFin(readOff)))
          /\ UNCHANGED almostFull
  /\ UNCHANGED <<bufs, readOff, recvLen, recvFin, wasReset, draining, recvMax,
                 window, consumed, recvState, seen, broken>>

-----------------------------------------------------------------------------
(***************************************************************************)
(* The network and loss detection.                                         *)
(***************************************************************************)

FromSender(f) == f.type \in {"stream", "reset"}

Deliver(f) ==
  /\ ~broken
  /\ f \in wire
  /\ wire' = wire \ {f}
  /\ got' = got \cup ({f} \cap out)
  /\ IF FromSender(f)
     THEN ReceiverReceives(f) /\ UNCHANGED sendVars
     ELSE SenderReceives(f) /\ UNCHANGED recvVars
  /\ UNCHANGED <<out, faults, appVars>>

Drop(f) ==
  /\ ~broken
  /\ f \in wire
  /\ faults < MaxFaults /\ faults' = faults + 1
  /\ wire' = wire \ {f}
  /\ UNCHANGED <<sendVars, recvVars, appVars, out, got>>

Acknowledge(f) ==
  /\ ~broken
  /\ f \in got
  /\ out' = out \ {f} /\ got' = got \ {f}
  /\ IF FromSender(f)
     THEN SenderAcked(f) /\ UNCHANGED recvVars
     ELSE UNCHANGED <<sendVars, recvVars>>
  /\ UNCHANGED <<wire, faults, appVars>>

Loses(f) ==
  IF FromSender(f)
  THEN SenderLoses(f) /\ UNCHANGED recvVars
  ELSE ReceiverLoses(f) /\ UNCHANGED sendVars

(* A packet declared lost is forgotten: an acknowledgement that comes      *)
(* later counts for nothing.                                               *)
DeclareLost(f) ==
  /\ ~broken
  /\ f \in out
  /\ out' = out \ {f} /\ got' = got \ {f}
  /\ Loses(f)
  /\ UNCHANGED <<wire, appVars>>

DetectLoss(f) ==
  /\ f \notin wire \cup got
  /\ DeclareLost(f)
  /\ UNCHANGED faults

(* The packet, or its acknowledgement, was only late.                      *)
SpuriousLoss(f) ==
  /\ f \in wire \cup got
  /\ DeclareLost(f)
  /\ faults < MaxFaults /\ faults' = faults + 1

(* A probe after a timeout repeats the frames of a packet that may still   *)
(* be acknowledged.                                                        *)
Probe(f) ==
  /\ ~broken
  /\ f \in out
  /\ FromSender(f)
  /\ faults < MaxFaults /\ faults' = faults + 1
  /\ Loses(f)
  /\ UNCHANGED <<wire, out, got, appVars>>

-----------------------------------------------------------------------------

Lengths == 0..MaxBytes

QuicNext ==
  \/ \E n \in Lengths, fin \in BOOLEAN : StreamSend(n, fin)
  \/ \E k \in 1..MaxFrame : SendStream(k)
  \/ SkipStopped \/ ShutdownWrite \/ SendReset
  \/ \E cap \in 1..MaxBytes : StreamRecv(cap)
  \/ ShutdownRead \/ SendStop \/ SendMaxStreamData
  \/ \E f \in wire : Deliver(f)
  \/ \E f \in wire : Drop(f)
  \/ \E f \in out : Acknowledge(f)
  \/ \E f \in out : DetectLoss(f)
  \/ \E f \in out : SpuriousLoss(f)
  \/ \E f \in out : Probe(f)

QuicSpec == QuicInit /\ [][QuicNext]_quicVars

(* Both ends send what they have to send and detect their losses, the      *)
(* network delivers what it does not drop, the reader reads.  What the     *)
(* writer does, and whether the reader gives up, is theirs to decide.      *)
FairQuicSpec ==
  /\ QuicSpec
  /\ WF_quicVars(\E k \in 1..MaxFrame : SendStream(k))
  /\ WF_quicVars(SendMaxStreamData)
  /\ WF_quicVars(\E cap \in 1..MaxBytes : StreamRecv(cap))
  /\ WF_quicVars(\E f \in wire : Deliver(f))
  /\ WF_quicVars(\E f \in out : Acknowledge(f))
  /\ WF_quicVars(\E f \in out : DetectLoss(f))

-----------------------------------------------------------------------------
(***************************************************************************)
(* Properties.                                                             *)
(***************************************************************************)

(* Neither end ever closes the connection over a frame of the other, with  *)
(* FlowControl or FinalSize: not after retransmissions in other pieces, a  *)
(* repeated limit, a reset on top of a final offset.                       *)
HonestPeersAgree == ~broken

InFlight(i) == \E f \in out : f.type = "stream" /\ f.from <= i /\ i < f.to

(* Until the stream is reset, a byte that was accepted is waiting to be    *)
(* sent, or on its way, or was received: chunks split by a retransmission  *)
(* or dropped by an acknowledgement leave none behind.                     *)
NoByteForgotten ==
  ~shut /\ ~stopped =>
    \A i \in 0..(off - 1) :
      \/ i \in pending \/ InFlight(i)
      \/ i < readOff \/ Covered(i) \/ draining

(* A sender that used up its limit, and whose bytes were all read, gets a  *)
(* new one: the update is due or on its way, however many were lost.       *)
CreditReturns ==
  /\ ~shut /\ ~stopped /\ ~draining
  /\ finOff = Unknown
  /\ sendMax = off /\ readOff = off
  => almostFull \/ \E f \in out : f.type = "max" /\ f.max > sendMax

(* The stream is the abstract byte stream.                                 *)
Bytes == INSTANCE ByteStream WITH
  accepted <- written, finished <- ended, abandoned <- shut \/ stopped,
  delivered <- consumed

ImplementsByteStream == Bytes!ByteSpec

(* Unless one side gives up, the reader catches up with the writer again   *)
(* and again, and the writer has its end written or room for more: nothing *)
(* is stuck behind a lost frame, a lost update or a full window.           *)
DataArrives ==
  []<>\/ shut \/ draining
      \/ consumed = written /\ (ended \/ sendMax > written)

=============================================================================
