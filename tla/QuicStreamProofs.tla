--------------------------- MODULE QuicStreamProofs ---------------------------
(***************************************************************************)
(* Proofs about QuicStream, for a stream of any length, frames of any      *)
(* length, any number of frames in flight and of faults, and windows of    *)
(* two bytes or more.                                                      *)
(***************************************************************************)
EXTENDS QuicStream, WellFoundedInduction, TLAPS

(***************************************************************************)
(* The inductive invariant, in parts.                                      *)
(***************************************************************************)

Abandoned == shut \/ stopped

(* The final offset is known and everything before it was sent once.       *)
AllSent == finOff = off /\ emitOff = off

(* SendBuf.  What was never sent is pending, what was acknowledged was     *)
(* sent, what was dropped was acknowledged.                                *)
SendBufOK ==
  /\ off \in Offsets /\ emitOff \in 0..off /\ base \in 0..emitOff
  /\ finOff \in {Unknown, off}
  /\ acked \subseteq 0..(emitOff - 1)
  /\ 0..(base - 1) \subseteq acked
  /\ cuts \subseteq 0..off
  /\ pending \subseteq base..(off - 1)
  /\ emitOff..(off - 1) \subseteq pending
  /\ Abandoned => AllSent
  /\ resetQueued => Abandoned
  /\ sendGone => finOff = off /\ acked = 0..(off - 1)

(* What the writer was told.                                               *)
WriterOK ==
  /\ written \in emitOff..MaxBytes
  /\ ended => finOff = off
  /\ ~Abandoned => written = off /\ (finOff = off => ended)

(* A frame says nothing the sender, or the receiver, did not hold to       *)
(* since: in particular the final offset is the same in every frame.       *)
FrameOK(f) ==
  \/ \E a, b \in Offsets, fin \in BOOLEAN :
       /\ f = Stream(a, b, fin)
       /\ a <= b /\ b <= emitOff
       /\ fin => AllSent /\ b = off
  \/ f = Reset(off) /\ AllSent /\ Abandoned
  \/ \E m \in Window..recvMax : f = MaxStreamData(m) /\ recvState # "absent"
  \/ f = StopSending

FramesOK ==
  /\ \A f \in wire \cup out : FrameOK(f)
  /\ got \subseteq out

(* RecvBuf.  It knows no more than was sent.                               *)
RecvBufOK ==
  /\ recvState \in {"absent", "open", "gone"}
  /\ recvLen \in 0..emitOff /\ readOff \in 0..recvLen /\ consumed \in 0..readOff
  /\ recvFin \in {Unknown, off}
  /\ recvFin # Unknown => AllSent
  /\ bufs \subseteq Offsets \X Offsets
  /\ \A b \in bufs : b[1] <= b[2] /\ b[2] <= recvLen
  /\ draining => bufs = {}
  /\ wasReset => Abandoned /\ recvFin = readOff
  /\ ~draining /\ ~wasReset => consumed = readOff
  /\ recvState = "absent" =>
       recvLen = 0 /\ ~draining /\ ~wasReset /\ ~almostFull
  /\ recvState = "gone" => recvFin = readOff
  /\ seen \in {"none", "fin", "reset"}
  /\ seen # "none" => recvState = "gone"

(* Flow control.  A limit the receiver has not put in force at the sender  *)
(* is due or on its way, and one is due when half of the window is used.   *)
CreditOK ==
  /\ window \in Window..MaxWindow
  /\ recvMax \in Window..(consumed + window)
  /\ sendMax \in off..recvMax
  /\ AlmostFull(consumed) => almostFull
  /\ recvState # "gone" /\ ~sendGone /\ recvMax > sendMax =>
       almostFull \/ MaxStreamData(recvMax) \in out
  /\ \A m \in Window..recvMax : MaxStreamData(m) \in got => m <= sendMax \/ sendGone

Received(i) == i < readOff \/ Covered(i) \/ draining

(* What the sender takes for received was received.                        *)
ReceiptsOK ==
  /\ \A f \in got : f.type = "stream" => \A i \in f.from..(f.to - 1) : Received(i)
  /\ ~Abandoned => \A i \in acked : Received(i)

FlagsOK ==
  /\ {ackedAny, flushable, shut, stopped, resetQueued, sendGone} \subseteq BOOLEAN
  /\ {wasReset, draining, almostFull, stopQueued, ended} \subseteq BOOLEAN
  /\ faults \in 0..MaxFaults

QuicIInv ==
  /\ SendBufOK /\ WriterOK
  /\ FramesOK
  /\ RecvBufOK /\ CreditOK
  /\ ReceiptsOK /\ NoByteForgotten
  /\ FlagsOK
  /\ broken = FALSE

-----------------------------------------------------------------------------
(***************************************************************************)
(* The largest and the smallest element of a set of integers.              *)
(***************************************************************************)

(* A set of naturals with an element has a smallest one.                   *)
LEMMA NatHasLeast ==
  ASSUME NEW T, T \subseteq Nat, T # {}
  PROVE  \E x \in T : \A y \in T : x <= y
<1>1. PICK x \in T : \A y \in T : ~ (<<y, x>> \in OpToRel(<, Nat))
  BY NatLessThanWellFounded, WFMin
<1>2. ASSUME NEW y \in T PROVE x <= y
  <2>1. x \in Nat /\ y \in Nat
    OBVIOUS
  <2>2. ~ (y < x)
    BY <1>1, <2>1 DEF OpToRel
  <2> QED BY <2>1, <2>2, SMT
<1> QED BY <1>2

(* Min of a set of naturals with an element is its smallest element.       *)
LEMMA MinIs ==
  ASSUME NEW T, T \subseteq Nat, T # {}
  PROVE  Min(T) \in T /\ \A y \in T : Min(T) <= y
BY NatHasLeast, Zenon DEF Min

(* Max of a set of integers with an element and a bound is its largest.    *)
LEMMA MaxIs ==
  ASSUME NEW T, T \subseteq Int, T # {}, NEW K \in Int, \A y \in T : y <= K
  PROVE  Max(T) \in T /\ \A y \in T : Max(T) >= y
<1> DEFINE U == {K - y : y \in T}
<1>1. U \subseteq Nat /\ U # {}
  <2>1. ASSUME NEW y \in T PROVE K - y \in Nat
    BY SMT
  <2>2. PICK y \in T : TRUE
    OBVIOUS
  <2>3. K - y \in U
    OBVIOUS
  <2> QED BY <2>1, <2>3, Zenon
<1>2. PICK u \in U : \A v \in U : u <= v
  BY <1>1, NatHasLeast
<1>3. PICK x \in T : u = K - x
  BY <1>2, Zenon
<1>4. ASSUME NEW y \in T PROVE x >= y
  <2>1. u <= K - y
    BY <1>2
  <2> QED BY <2>1, <1>3, SMT
<1> QED BY <1>4, Zenon DEF Max

(* The larger and the smaller of two.                                      *)
LEMMA MaxOfTwo ==
  ASSUME NEW a \in Int, NEW b \in Int
  PROVE  Max({a, b}) = IF a >= b THEN a ELSE b
<1>1. \E K \in Int : \A y \in {a, b} : y <= K
  <2>1. CASE a <= b
    BY <2>1
  <2>2. CASE b <= a
    BY <2>2
  <2> QED BY <2>1, <2>2
<1>2. Max({a, b}) \in {a, b} /\ \A y \in {a, b} : Max({a, b}) >= y
  BY <1>1, MaxIs
<1> HIDE DEF Max
<1> QED BY <1>2

(* The smaller of two naturals.                                            *)
LEMMA MinOfTwo ==
  ASSUME NEW a \in Nat, NEW b \in Nat
  PROVE  Min({a, b}) = IF a <= b THEN a ELSE b
<1>1. Min({a, b}) \in {a, b} /\ \A y \in {a, b} : Min({a, b}) <= y
  BY MinIs
<1> QED BY <1>1

(* A longer prefix contains a shorter one.                                 *)
LEMMA PrefixGrows ==
  \A a, b \in Nat : a <= b => 0..(a - 1) \subseteq 0..(b - 1)
BY SMT

-----------------------------------------------------------------------------
(***************************************************************************)
(* SendBuf.                                                                *)
(***************************************************************************)

(* Offsets are naturals.                                                   *)
LEMMA SendTypes ==
  ASSUME SendBufOK
  PROVE  /\ MaxBytes \in Nat /\ off \in Nat /\ emitOff \in Nat /\ base \in Nat
         /\ off <= MaxBytes /\ emitOff <= off /\ base <= emitOff
BY QuicAssumption DEF SendBufOK, Offsets

(* The first byte to emit was sent before or is the first that was not.    *)
LEMMA FrontIs ==
  ASSUME SendBufOK
  PROVE  /\ OffFront \in Nat /\ OffFront <= emitOff
         /\ pending = {} => OffFront = off
         /\ pending # {} => OffFront \in pending
<1>1. /\ MaxBytes \in Nat /\ off \in Nat /\ emitOff \in Nat /\ base \in Nat
      /\ emitOff <= off
  BY SendTypes
<1>2. pending \subseteq base..(off - 1) /\ emitOff..(off - 1) \subseteq pending
  BY DEF SendBufOK
<1>3. CASE pending = {}
  <2>1. OffFront = off
    BY <1>3 DEF OffFront
  <2>2. ~ (emitOff < off)
    BY <1>1, <1>2, <1>3, SMT
  <2> QED BY <1>1, <1>3, <2>1, <2>2, SMT
<1>4. CASE pending # {}
  <2>1. pending \subseteq Nat
    BY <1>1, <1>2, SMT
  <2>2. Min(pending) \in pending /\ \A y \in pending : Min(pending) <= y
    BY <1>4, <2>1, MinIs, Zenon
  <2>3. OffFront = Min(pending)
    BY <1>4 DEF OffFront
  <2>4. OffFront \in pending /\ \A y \in pending : OffFront <= y
    BY <2>2, <2>3, Zenon
  <2>5. OffFront \in Nat /\ OffFront \in base..(off - 1)
    BY <1>2, <2>1, <2>4, Zenon
  <2>6. OffFront <= emitOff
    <3>1. CASE emitOff < off
      BY <3>1, <1>1, <1>2, <2>4, SMT
    <3>2. CASE emitOff = off
      BY <3>2, <1>1, <2>5, SMT
    <3> QED BY <1>1, <3>1, <3>2, SMT
  <2> QED BY <1>4, <2>4, <2>5, <2>6
<1> QED BY <1>3, <1>4

(* The run emit copies is all pending.                                     *)
LEMMA RunIs ==
  ASSUME SendBufOK, NEW k \in Nat
  PROVE  /\ Run(k) \in 0..k
         /\ OffFront..(OffFront + Run(k) - 1) \subseteq pending
         /\ OffFront + Run(k) <= off
<1> DEFINE R == {n \in 0..k : OffFront..(OffFront + n - 1) \subseteq pending}
<1>1. OffFront \in Nat /\ OffFront <= off /\ off \in Nat
  <2>1. OffFront \in Nat /\ OffFront <= emitOff
    BY FrontIs
  <2> QED BY <2>1, SendTypes, SMT
<1>2. 0 \in R
  <2>1. OffFront..(OffFront + 0 - 1) = {}
    BY <1>1, SMT
  <2> QED BY <2>1, SMT
<1>3. R \subseteq Int /\ R # {} /\ k \in Int /\ \A y \in R : y <= k
  <2>1. ASSUME NEW y \in 0..k PROVE y \in Int /\ y <= k
    BY SMT
  <2>2. ASSUME NEW y \in R PROVE y \in 0..k
    OBVIOUS
  <2>3. k \in Int
    BY SMT
  <2> HIDE DEF R
  <2> QED BY <1>2, <2>1, <2>2, <2>3, Zenon
<1>4. Max(R) \in R
  BY <1>3, MaxIs, Zenon
<1>5. Run(k) \in R
  BY <1>4, Zenon DEF Run
<1>6. Run(k) \in 0..k /\ OffFront..(OffFront + Run(k) - 1) \subseteq pending
  BY <1>5, Zenon
<1>7. OffFront + Run(k) <= off
  <2>1. CASE Run(k) = 0
    BY <2>1, <1>1, SMT
  <2>2. CASE Run(k) > 0
    <3>1. OffFront + Run(k) - 1 \in pending
      BY <1>1, <1>6, <2>2, SMT
    <3>2. pending \subseteq base..(off - 1)
      BY DEF SendBufOK
    <3> HIDE DEF R
    <3> QED BY <3>1, <3>2, <1>1, <1>6, SendTypes, SMT
  <2> QED BY <1>6, <2>1, <2>2, SMT
<1> QED BY <1>6, <1>7

(* ack_off is the end of a prefix of what is acknowledged.                 *)
LEMMA AckOffIs ==
  ASSUME SendBufOK, NEW acks, acks \subseteq 0..(emitOff - 1)
  PROVE  /\ AckOff(acks) \in 0..emitOff
         /\ 0..(AckOff(acks) - 1) \subseteq acks
<1> DEFINE R == {n \in 0..off : 0..(n - 1) \subseteq acks}
<1>1. off \in Nat /\ emitOff \in Nat /\ emitOff <= off
  BY SendTypes
<1>2. 0 \in R
  <2>1. 0..(0 - 1) = {}
    BY SMT
  <2> QED BY <1>1, <2>1, SMT
<1>3. R \subseteq Int /\ R # {} /\ off \in Int /\ \A y \in R : y <= off
  <2>1. ASSUME NEW y \in 0..off PROVE y \in Int /\ y <= off
    BY SMT
  <2>2. ASSUME NEW y \in R PROVE y \in 0..off
    OBVIOUS
  <2>3. off \in Int
    BY <1>1, SMT
  <2> HIDE DEF R
  <2> QED BY <1>2, <2>1, <2>2, <2>3, Zenon
<1>4. Max(R) \in R
  BY <1>3, MaxIs, Zenon
<1>5. AckOff(acks) \in R
  BY <1>4, Zenon DEF AckOff
<1>6. AckOff(acks) \in 0..off /\ 0..(AckOff(acks) - 1) \subseteq acks
  BY <1>5, Zenon
<1>7. ASSUME AckOff(acks) > emitOff PROVE FALSE
  <2>1. AckOff(acks) - 1 \in acks
    BY <1>1, <1>6, <1>7, SMT
  <2> HIDE DEF R
  <2> QED BY <2>1, <1>1, <1>6, <1>7, SMT
<1> HIDE DEF R
<1> QED BY <1>1, <1>6, <1>7, SMT

(* The chunks an acknowledgement drops lie within the acknowledged prefix. *)
LEMMA DropIs ==
  ASSUME SendBufOK, NEW front \in 0..emitOff, NEW lo \in Nat, NEW drop,
         drop = IF lo > front THEN base
                ELSE Max({base} \cup {c \in cuts \cup {off} : c <= front})
  PROVE  /\ drop \in base..emitOff
         /\ drop = base \/ drop <= front
<1> DEFINE R == {base} \cup {c \in cuts \cup {off} : c <= front}
<1>1. /\ off \in Nat /\ emitOff \in Nat /\ base \in Nat
      /\ emitOff <= off /\ base <= emitOff
  BY SendTypes
<1>2. cuts \subseteq 0..off
  BY DEF SendBufOK
<1>3. R \subseteq Int /\ R # {} /\ emitOff \in Int /\ \A y \in R : y <= emitOff
  <2>1. ASSUME NEW y \in R PROVE y = base \/ (y \in Int /\ y <= front)
    BY <1>1, <1>2
  <2>2. ASSUME NEW y \in R PROVE y \in Int /\ y <= emitOff
    BY <2>1, <1>1, SMT
  <2>3. base \in R
    OBVIOUS
  <2>4. emitOff \in Int
    BY <1>1, SMT
  <2> HIDE DEF R
  <2> QED BY <2>2, <2>3, <2>4, Zenon
<1>4. Max(R) \in R /\ \A y \in R : Max(R) >= y
  BY <1>3, MaxIs, Zenon
<1>5. base \in R
  OBVIOUS
<1>6. Max(R) >= base
  BY <1>4, <1>5, Zenon
<1>7. Max(R) = base \/ Max(R) <= front
  BY <1>4
<1>8. Max(R) \in Int /\ Max(R) <= emitOff
  BY <1>3, <1>4, Zenon
<1>9. drop = base \/ drop = Max(R)
  BY Zenon
<1> HIDE DEF R
<1> QED BY <1>1, <1>6, <1>7, <1>8, <1>9, SMT

-----------------------------------------------------------------------------
(***************************************************************************)
(* RecvBuf.                                                                *)
(***************************************************************************)

(* Lengths and offsets are naturals.                                       *)
LEMMA RecvTypes ==
  ASSUME SendBufOK, RecvBufOK
  PROVE  /\ recvLen \in Nat /\ readOff \in Nat /\ consumed \in Nat
         /\ consumed <= readOff /\ readOff <= recvLen /\ recvLen <= emitOff
         /\ recvLen \in Offsets
         /\ \A b \in bufs : /\ b[1] \in Nat /\ b[2] \in Nat
                            /\ b[1] <= b[2] /\ b[2] <= recvLen
                            /\ b = <<b[1], b[2]>>
<1>1. emitOff \in Nat /\ emitOff <= off /\ off <= MaxBytes /\ MaxBytes \in Nat
      /\ off \in Nat
  BY SendTypes
<1>2. recvLen \in 0..emitOff /\ readOff \in 0..recvLen /\ consumed \in 0..readOff
  BY DEF RecvBufOK
<1>3. /\ recvLen \in Nat /\ readOff \in Nat /\ consumed \in Nat
      /\ consumed <= readOff /\ readOff <= recvLen /\ recvLen <= emitOff
      /\ recvLen \in Offsets
  BY <1>1, <1>2, SMT DEF Offsets
<1>4. ASSUME NEW b \in bufs
      PROVE  /\ b[1] \in Nat /\ b[2] \in Nat /\ b[1] <= b[2] /\ b[2] <= recvLen
             /\ b = <<b[1], b[2]>>
  <2>1. b \in Offsets \X Offsets /\ b[1] <= b[2] /\ b[2] <= recvLen
    BY DEF RecvBufOK
  <2>2. \A x \in Offsets : x \in Nat
    BY <1>1, SMT DEF Offsets
  <2>3. b[1] \in Offsets /\ b[2] \in Offsets /\ b = <<b[1], b[2]>>
    BY <2>1
  <2> QED BY <2>1, <2>2, <2>3, Zenon
<1> QED BY <1>3, <1>4

(* An offset of the range that no chunk covers lies in one of the pieces.  *)
LEMMA PieceOf ==
  ASSUME NEW lo \in Nat, NEW hi \in Nat, NEW i \in lo..(hi - 1), ~Covered(i)
  PROVE  \E p \in Pieces(lo, hi) : p[1] <= i /\ i < p[2]
<1> DEFINE A == {a \in lo..i : \A j \in a..i : ~Covered(j)}
           B == {b \in (i + 1)..hi : \A j \in i..(b - 1) : ~Covered(j)}
<1>1. i \in Nat /\ lo <= i /\ i + 1 <= hi
  BY SMT
<1>2. i \in A
  <2>1. \A j \in i..i : j = i
    BY <1>1, SMT
  <2> QED BY <1>1, <2>1, SMT
<1>3. i + 1 \in B
  <2>1. \A j \in i..(i + 1 - 1) : j = i
    BY <1>1, SMT
  <2>2. i + 1 \in (i + 1)..hi
    BY <1>1, SMT
  <2> QED BY <2>1, <2>2
<1>4. PICK a \in A : \A x \in A : a <= x
  <2>1. A \subseteq Nat
    BY <1>1, SMT
  <2> HIDE DEF A
  <2> QED BY <2>1, <1>2, NatHasLeast
<1>5. PICK b \in B : \A x \in B : b >= x
  <2>1. ASSUME NEW y \in (i + 1)..hi PROVE y \in Int /\ y <= hi
    BY SMT
  <2>2. hi \in Int
    BY SMT
  <2>3. ASSUME NEW y \in B PROVE y \in (i + 1)..hi
    OBVIOUS
  <2> HIDE DEF B
  <2>4. Max(B) \in B /\ \A y \in B : Max(B) >= y
    BY <1>3, <2>1, <2>2, <2>3, MaxIs, Zenon
  <2> QED BY <2>4, Zenon
<1>6. a \in lo..i /\ \A j \in a..i : ~Covered(j)
  BY <1>4
<1>7. b \in (i + 1)..hi /\ \A j \in i..(b - 1) : ~Covered(j)
  BY <1>5
<1>8. a = lo \/ Covered(a - 1)
  <2>1. SUFFICES ASSUME a # lo, ~Covered(a - 1) PROVE FALSE
    OBVIOUS
  <2>2. a - 1 \in lo..i
    BY <1>1, <1>6, <2>1, SMT
  <2>3. ASSUME NEW j \in (a - 1)..i PROVE ~Covered(j)
    <3>1. j = a - 1 \/ j \in a..i
      BY <1>1, <1>6, SMT
    <3> QED BY <3>1, <2>1, <1>6, Zenon
  <2>4. a - 1 \in A
    BY <2>2, <2>3, Zenon
  <2> HIDE DEF A
  <2>5. a <= a - 1
    BY <1>4, <2>4, Zenon
  <2> QED BY <2>5, <1>1, <1>6, SMT
<1>9. b = hi \/ Covered(b)
  <2>1. SUFFICES ASSUME b # hi, ~Covered(b) PROVE FALSE
    OBVIOUS
  <2>2. b + 1 \in (i + 1)..hi
    BY <1>1, <1>7, <2>1, SMT
  <2>3. ASSUME NEW j \in i..(b + 1 - 1) PROVE ~Covered(j)
    <3>1. j = b \/ j \in i..(b - 1)
      BY <1>1, <1>7, SMT
    <3> QED BY <3>1, <2>1, <1>7, Zenon
  <2>4. b + 1 \in B
    BY <2>2, <2>3
  <2> HIDE DEF B
  <2>5. b >= b + 1
    BY <1>5, <2>4, Zenon
  <2> QED BY <2>5, <1>1, <1>7, SMT
<1>10. ASSUME NEW j \in a..(b - 1) PROVE ~Covered(j)
  <2>1. j \in a..i \/ j \in i..(b - 1)
    BY <1>1, <1>6, <1>7, SMT
  <2> QED BY <2>1, <1>6, <1>7, Zenon
<1>11. /\ a \in lo..hi /\ b \in lo..hi /\ a < b /\ a <= i /\ i < b
  BY <1>1, <1>6, <1>7, SMT
<1> HIDE DEF A, B
<1>12. <<a, b>> \in Pieces(lo, hi)
  <2>1. <<a, b>>[1] = a /\ <<a, b>>[2] = b /\ <<a, b>> \in (lo..hi) \X (lo..hi)
    BY <1>11
  <2> QED BY <2>1, <1>8, <1>9, <1>10, <1>11, Zenon DEF Pieces
<1> QED BY <1>11, <1>12

(* A chunk that ends where a piece ends covers nothing: the piece's last   *)
(* byte would be covered.                                                  *)
LEMMA PieceReplacesNothing ==
  ASSUME SendBufOK, RecvBufOK, NEW lo \in Nat, NEW hi \in Nat,
         NEW p \in Pieces(lo, hi), NEW b \in bufs, b[2] = p[2]
  PROVE  b[1] = b[2]
<1>1. /\ p[1] \in lo..hi /\ p[2] \in lo..hi /\ p[1] < p[2]
      /\ \A i \in p[1]..(p[2] - 1) : ~Covered(i)
  BY DEF Pieces
<1>2. b[1] \in Nat /\ b[2] \in Nat /\ b[1] <= b[2]
  BY RecvTypes, Zenon
<1>3. p[2] - 1 \in p[1]..(p[2] - 1)
  BY <1>1, SMT
<1>4. ~Covered(p[2] - 1)
  BY <1>1, <1>3, Zenon
<1>5. ~ (b[1] <= p[2] - 1 /\ p[2] - 1 < b[2])
  BY <1>4, Zenon DEF Covered
<1> QED BY <1>1, <1>2, <1>5, SMT

(* What write stores of a frame lies within the frame; nothing buffered is *)
(* lost by it.                                                             *)
LEMMA StoredIs ==
  ASSUME SendBufOK, RecvBufOK, NEW from \in Offsets, NEW to \in Offsets,
         from <= to, NEW fin \in BOOLEAN,
         NEW p \in Stored(Stream(from, to, fin))
  PROVE  /\ p \in Offsets \X Offsets /\ p[1] <= p[2] /\ p[2] <= to
         /\ \A b \in bufs : b[2] = p[2] => b[1] = b[2]
<1> DEFINE f == Stream(from, to, fin)
           lo == Max({from, readOff})
<1>1. f.from = from /\ f.to = to /\ f.fin = fin
  BY DEF Stream
<1>2. from \in Nat /\ to \in Nat /\ readOff \in Nat /\ MaxBytes \in Nat
  BY RecvTypes, QuicAssumption, SMT DEF Offsets
<1>3. lo = IF from >= readOff THEN from ELSE readOff
  <2>1. from \in Int /\ readOff \in Int
    BY <1>2, SMT
  <2> QED BY <2>1, MaxOfTwo, Zenon
<1>4. CASE from = to
  <2>1. p \in {<<to, to>>} /\ \A b \in bufs : b[2] # to
    <3>1. p \in IF f.fin /\ recvFin = Unknown /\ \A b \in bufs : b[2] # f.to
                THEN {<<f.to, f.to>>} ELSE {}
      BY <1>1, <1>4, Zenon DEF Stored
    <3> QED BY <3>1, <1>1, Zenon
  <2>2. p = <<to, to>>
    BY <2>1
  <2> HIDE DEF f, lo
  <2>3. p \in Offsets \X Offsets /\ p[1] = to /\ p[2] = to
    BY <2>2
  <2> QED BY <1>2, <2>1, <2>3
<1>5. CASE from # to
  <2>1. p \in IF to <= readOff THEN {} ELSE Pieces(lo, to)
    BY <1>1, <1>5, Zenon DEF Stored
  <2> HIDE DEF f, lo
  <2>2. p \in Pieces(lo, to)
    BY <2>1
  <2>3. p \in (lo..to) \X (lo..to) /\ p[1] < p[2]
    BY <2>2, Zenon DEF Pieces
  <2>4. lo \in Nat
    BY <1>2, <1>3, SMT
  <2>5. \A x \in lo..to : x \in Offsets /\ x \in Nat /\ x <= to
    BY <1>2, <2>4, SMT DEF Offsets
  <2>6. p \in Offsets \X Offsets /\ p[1] <= p[2] /\ p[2] <= to
    BY <2>3, <2>5
  <2>7. \A b \in bufs : b[2] = p[2] => b[1] = b[2]
    BY <2>2, <2>4, <1>2, PieceReplacesNothing, Zenon
  <2> QED BY <2>6, <2>7
<1> QED BY <1>4, <1>5

(* The bytes of the frame that were not read and that no chunk covers lie  *)
(* in what is stored.                                                      *)
LEMMA StoredCovers ==
  ASSUME SendBufOK, RecvBufOK, NEW from \in Offsets, NEW to \in Offsets,
         NEW fin \in BOOLEAN, NEW i \in from..(to - 1),
         ~ (i < readOff), ~Covered(i)
  PROVE  \E p \in Stored(Stream(from, to, fin)) : p[1] <= i /\ i < p[2]
<1> DEFINE f == Stream(from, to, fin)
           lo == Max({from, readOff})
<1>1. f.from = from /\ f.to = to /\ f.fin = fin
  BY DEF Stream
<1>2. from \in Nat /\ to \in Nat /\ readOff \in Nat /\ i \in Nat
  BY RecvTypes, QuicAssumption, SMT DEF Offsets
<1>3. lo = IF from >= readOff THEN from ELSE readOff
  <2>1. from \in Int /\ readOff \in Int
    BY <1>2, SMT
  <2> QED BY <2>1, MaxOfTwo, Zenon
<1>4. from # to /\ ~ (to <= readOff)
  BY <1>2, SMT
<1>5. Stored(f) = Pieces(lo, to)
  BY <1>1, <1>4, Zenon DEF Stored
<1> HIDE DEF f, lo
<1>6. lo \in Nat /\ i \in lo..(to - 1)
  BY <1>2, <1>3, SMT
<1>7. \E p \in Pieces(lo, to) : p[1] <= i /\ i < p[2]
  BY <1>2, <1>6, PieceOf, Zenon
<1> QED BY <1>5, <1>7 DEF f

(* What write leaves: lengths, chunks and the final offset are in order,   *)
(* nothing received is lost, and the frame was received.                   *)
LEMMA InsertIs ==
  ASSUME SendBufOK, RecvBufOK, NEW from \in Offsets, NEW to \in Offsets,
         from <= to, to <= emitOff, NEW fin \in BOOLEAN,
         fin => AllSent /\ to = off, recvState # "gone",
         Insert(Stream(from, to, fin)), recvState' = "open",
         UNCHANGED <<wasReset, draining, consumed, seen>>,
         UNCHANGED <<off, emitOff, finOff, shut, stopped>>
  PROVE  /\ RecvBufOK'
         /\ \A i \in Int : Received(i) => Received(i)'
         /\ \A i \in from..(to - 1) : Received(i)'
<1> DEFINE f == Stream(from, to, fin)
           new == Stored(f)
           len == Max({recvLen} \cup {p[2] : p \in new})
<1>1. f.from = from /\ f.to = to /\ f.fin = fin
  BY DEF Stream
<1>2. /\ MaxBytes \in Nat /\ off \in Nat /\ emitOff \in Nat /\ to \in Nat
      /\ emitOff <= off /\ off <= MaxBytes
  BY SendTypes, SMT DEF Offsets
<1>3. /\ recvLen \in Nat /\ readOff \in Nat /\ consumed \in Nat
      /\ consumed <= readOff /\ readOff <= recvLen /\ recvLen <= emitOff
  BY RecvTypes, Zenon
<1>4. ASSUME NEW p \in new
      PROVE  /\ p \in Offsets \X Offsets /\ p[1] <= p[2] /\ p[2] <= to
             /\ p[2] \in Nat
             /\ \A b \in bufs : b[2] = p[2] => b[1] = b[2]
  <2>1. /\ p \in Offsets \X Offsets /\ p[1] <= p[2] /\ p[2] <= to
        /\ \A b \in bufs : b[2] = p[2] => b[1] = b[2]
    BY StoredIs, Zenon
  <2>2. p[2] \in Offsets
    BY <2>1
  <2>3. p[2] \in Nat
    BY <2>2, <1>2, SMT DEF Offsets
  <2> QED BY <2>1, <2>3, Zenon
<1>5. len \in Nat /\ recvLen <= len /\ len <= emitOff /\ \A p \in new : p[2] <= len
  <2> DEFINE L == {recvLen} \cup {p[2] : p \in new}
  <2>1. ASSUME NEW y \in L PROVE y \in Nat /\ y <= emitOff
    <3>1. CASE y = recvLen
      BY <3>1, <1>3
    <3>2. CASE y # recvLen
      <4>1. PICK p \in new : y = p[2]
        BY <3>2, Zenon
      <4> HIDE DEF L, new
      <4> QED BY <4>1, <1>2, <1>4, SMT
    <3> QED BY <3>1, <3>2
  <2>2. recvLen \in L /\ \A p \in new : p[2] \in L
    BY Zenon
  <2>3. \A y \in Nat : y \in Int
    BY SMT
  <2>4. emitOff \in Int
    BY <1>2, <2>3
  <2>5. Max(L) = len
    OBVIOUS
  <2> HIDE DEF L, len, new
  <2>6. Max(L) \in L /\ \A y \in L : Max(L) >= y
    BY <2>1, <2>2, <2>3, <2>4, MaxIs, Zenon
  <2>7. len \in Nat /\ len <= emitOff /\ len >= recvLen /\ \A p \in new : len >= p[2]
    BY <2>1, <2>2, <2>5, <2>6, Zenon
  <2>8. ASSUME NEW p \in new PROVE p[2] <= len
    BY <2>7, <1>4, SMT
  <2> QED BY <2>7, <2>8, <1>3, SMT
<1>6. /\ recvFin' = IF fin THEN to ELSE recvFin
      /\ recvLen' = len
      /\ draining => readOff' = (IF new = {} THEN readOff ELSE len) /\ bufs' = bufs
      /\ ~draining => /\ bufs' = {b \in bufs : \A p \in new : p[2] # b[2]} \cup new
                      /\ readOff' = readOff
  BY <1>1, Zenon DEF Insert
<1>7. \A x \in bufs' : x \in bufs \/ x \in new
  BY <1>6, Zenon
<1>8. readOff' \in Nat /\ readOff <= readOff' /\ readOff' <= len
  <2> HIDE DEF len, new
  <2> QED BY <1>3, <1>5, <1>6, SMT
<1> HIDE DEF len, new
<1>9. AllSent' <=> AllSent
  BY DEF AllSent
<1>10. recvFin' \in {Unknown, off} /\ (recvFin' # Unknown => AllSent)
  <2>1. recvFin \in {Unknown, off} /\ (recvFin # Unknown => AllSent)
    BY DEF RecvBufOK
  <2> QED BY <2>1, <1>6, Zenon
<1>11. wasReset => recvFin' = readOff'
  <2>1. wasReset => recvFin = readOff /\ recvFin \in {Unknown, off}
    BY DEF RecvBufOK
  <2>2. ASSUME wasReset PROVE readOff = off /\ recvFin = off
    BY <2>1, <2>2, <1>3, SMT DEF Unknown
  <2>3. ASSUME wasReset PROVE recvFin' = off
    BY <2>2, <2>3, <1>6, Zenon
  <2>4. ASSUME wasReset PROVE readOff' = off
    BY <2>2, <2>4, <1>2, <1>5, <1>8, SMT
  <2> QED BY <2>3, <2>4
<1>12. RecvBufOK'
  <2>1. recvLen' \in 0..emitOff /\ readOff' \in 0..recvLen' /\ consumed \in 0..readOff'
    BY <1>2, <1>3, <1>5, <1>6, <1>8, SMT
  <2>2. bufs' \subseteq Offsets \X Offsets
    <3>1. bufs \subseteq Offsets \X Offsets
      BY DEF RecvBufOK
    <3> QED BY <3>1, <1>4, <1>7, Zenon
  <2>3. ASSUME NEW b \in bufs' PROVE b[1] <= b[2] /\ b[2] <= recvLen'
    <3>1. CASE b \in bufs
      <4>1. b[2] \in Nat /\ b[1] <= b[2] /\ b[2] <= recvLen
        BY <3>1, RecvTypes, Zenon
      <4>2. b[2] <= len
        BY <4>1, <1>3, <1>5, SMT
      <4> QED BY <4>1, <4>2, <1>6
    <3>2. CASE b \in new
      BY <3>2, <1>4, <1>5, <1>6, Zenon
    <3> QED BY <3>1, <3>2, <1>7
  <2>4. draining => bufs' = {}
    BY <1>6, Zenon DEF RecvBufOK
  <2>5. wasReset => Abandoned
    BY DEF RecvBufOK
  <2>6. ~draining /\ ~wasReset => consumed = readOff'
    BY <1>6, Zenon DEF RecvBufOK
  <2>7. seen \in {"none", "fin", "reset"} /\ seen = "none"
    BY DEF RecvBufOK
  <2>8. Abandoned' <=> Abandoned
    BY DEF Abandoned
  <2> QED
    BY <2>1, <2>2, <2>3, <2>4, <2>5, <2>6, <2>7, <2>8, <1>9, <1>10, <1>11
    DEF RecvBufOK
<1>13. ASSUME NEW i \in Int, Received(i) PROVE Received(i)'
  <2>1. CASE i < readOff
    BY <2>1, <1>3, <1>8, SMT DEF Received
  <2>2. CASE draining
    BY <2>2 DEF Received
  <2>3. CASE ~draining /\ Covered(i)
    <3>1. PICK b \in bufs : b[1] <= i /\ i < b[2]
      BY <2>3 DEF Covered
    <3>2. b[1] \in Nat /\ b[2] \in Nat
      BY RecvTypes, Zenon
    <3>3. b[1] # b[2]
      BY <3>1, <3>2, SMT
    <3>4. \A p \in new : p[2] # b[2]
      BY <3>3, <1>4, Zenon
    <3>5. b \in bufs'
      BY <3>4, <1>6, <2>3, Zenon
    <3> QED BY <3>1, <3>5, Zenon DEF Received, Covered
  <2> QED BY <2>1, <2>2, <2>3, <1>13 DEF Received
<1>14. ASSUME NEW i \in from..(to - 1) PROVE Received(i)'
  <2>1. i \in Int
    BY <1>2, SMT DEF Offsets
  <2>2. CASE Received(i)
    BY <2>1, <2>2, <1>13
  <2>3. CASE ~Received(i)
    <3>1. ~draining /\ ~ (i < readOff) /\ ~Covered(i)
      BY <2>3 DEF Received
    <3>2. PICK p \in new : p[1] <= i /\ i < p[2]
      BY <3>1, StoredCovers, Zenon DEF new, f
    <3>3. p \in bufs'
      BY <3>1, <1>6, Zenon
    <3> QED BY <3>2, <3>3, Zenon DEF Received, Covered
  <2> QED BY <2>2, <2>3
<1> QED BY <1>12, <1>13, <1>14

(* What can be read is buffered.                                           *)
LEMMA ReadableIs ==
  ASSUME SendBufOK, RecvBufOK, NEW cap \in Nat
  PROVE  /\ Readable(cap) \in Nat
         /\ readOff + Readable(cap) <= recvLen
<1> DEFINE R == {n \in 0..cap : \A i \in readOff..(readOff + n - 1) : Covered(i)}
<1>1. recvLen \in Nat /\ readOff \in Nat /\ readOff <= recvLen
  BY RecvTypes, Zenon
<1>2. 0 \in R
  <2>1. readOff..(readOff + 0 - 1) = {}
    BY <1>1, SMT
  <2> QED BY <2>1, SMT
<1>3. R \subseteq Int /\ R # {} /\ cap \in Int /\ \A y \in R : y <= cap
  <2>1. ASSUME NEW y \in 0..cap PROVE y \in Int /\ y <= cap
    BY SMT
  <2>2. ASSUME NEW y \in R PROVE y \in 0..cap
    OBVIOUS
  <2>3. cap \in Int
    BY SMT
  <2> HIDE DEF R
  <2> QED BY <1>2, <2>1, <2>2, <2>3, Zenon
<1>4. Max(R) \in R
  BY <1>3, MaxIs, Zenon
<1>5. Readable(cap) \in R
  BY <1>4, Zenon DEF Readable
<1>6. /\ Readable(cap) \in 0..cap
      /\ \A i \in readOff..(readOff + Readable(cap) - 1) : Covered(i)
  BY <1>5, Zenon
<1> HIDE DEF R
<1>7. CASE Readable(cap) = 0
  BY <1>1, <1>7, SMT
<1>8. CASE Readable(cap) > 0
  <2>1. Covered(readOff + Readable(cap) - 1)
    BY <1>1, <1>6, <1>8, SMT
  <2>2. PICK b \in bufs : readOff + Readable(cap) - 1 < b[2]
    BY <2>1 DEF Covered
  <2>3. b[2] \in Nat /\ b[2] <= recvLen
    BY RecvTypes, Zenon
  <2> QED BY <2>2, <2>3, <1>1, <1>6, SMT
<1> QED BY <1>6, <1>7, <1>8, SMT

(* What a read leaves, and that nothing received is lost by it.            *)
LEMMA RecvIs ==
  ASSUME SendBufOK, RecvBufOK, NEW cap \in Nat, StreamRecv(cap)
  PROVE  /\ RecvBufOK'
         /\ \A i \in Int : Received(i) => Received(i)'
<1>1. /\ MaxBytes \in Nat /\ off \in Nat /\ emitOff \in Nat
      /\ emitOff <= off /\ off <= MaxBytes
  BY SendTypes
<1>2. /\ recvLen \in Nat /\ readOff \in Nat /\ consumed \in Nat
      /\ consumed <= readOff /\ readOff <= recvLen /\ recvLen <= emitOff
      /\ \A b \in bufs : /\ b[1] \in Nat /\ b[2] \in Nat
                         /\ b[1] <= b[2] /\ b[2] <= recvLen
  BY RecvTypes, Zenon
<1>3. /\ recvState = "open" /\ Ready
      /\ UNCHANGED <<recvLen, recvFin, wasReset, draining>>
      /\ UNCHANGED <<off, emitOff, finOff, shut, stopped>>
  BY Zenon DEF StreamRecv, sendVars
<1>4. ~draining
  BY <1>3, Zenon DEF Ready, RecvBufOK
<1>5. (AllSent' <=> AllSent) /\ (Abandoned' <=> Abandoned)
  BY <1>3 DEF AllSent, Abandoned
<1>6. /\ recvFin \in {Unknown, off} /\ (recvFin # Unknown => AllSent)
      /\ (wasReset => Abandoned /\ recvFin = readOff)
      /\ (~wasReset => consumed = readOff)
      /\ seen = "none"
      /\ bufs \subseteq Offsets \X Offsets
  BY <1>3, <1>4, Zenon DEF RecvBufOK
<1>7. CASE wasReset
  <2>1. /\ bufs' = {} /\ seen' = "reset"
        /\ recvState' = IF IsFin(readOff) THEN "gone" ELSE "open"
        /\ UNCHANGED <<readOff, consumed, almostFull>>
    BY <1>7, Zenon DEF StreamRecv
  <2>2. recvFin = readOff /\ recvState' = "gone" /\ readOff = off
    <3>1. recvFin = readOff
      BY <1>6, <1>7
    <3>2. readOff # Unknown
      BY <1>2, SMT DEF Unknown
    <3> QED BY <2>1, <3>1, <3>2, <1>6, Zenon DEF IsFin
  <2>3. recvLen \in 0..emitOff /\ readOff \in 0..recvLen /\ consumed \in 0..readOff
    BY <1>1, <1>2, SMT
  <2>4. RecvBufOK'
    BY <1>3, <1>4, <1>5, <1>6, <1>7, <2>1, <2>2, <2>3, Zenon DEF RecvBufOK
  <2>5. ASSUME NEW i \in Int, Received(i) PROVE Received(i)'
    <3>1. i < readOff \/ Covered(i)
      BY <1>4, <2>5 DEF Received
    <3>2. CASE Covered(i)
      <4>1. PICK b \in bufs : i < b[2]
        BY <3>2 DEF Covered
      <4>2. b[2] \in Nat /\ b[2] <= recvLen
        BY <1>2, Zenon
      <4> QED BY <4>1, <4>2, <2>1, <2>2, <1>1, <1>2, SMT DEF Received
    <3> QED BY <3>1, <3>2, <2>1 DEF Received
  <2> QED BY <2>4, <2>5
<1>8. CASE ~wasReset
  <2> DEFINE n == Readable(cap)
  <2>1. Take(cap)
    BY <1>8 DEF StreamRecv
  <2>2. /\ readOff' = readOff + n /\ consumed' = consumed + n
        /\ bufs' = {<<Max({b[1], readOff'}), b[2]>> :
                      b \in {c \in bufs : c[2] > readOff'
                                            \/ (n = cap /\ c[1] = readOff')}}
        /\ seen' = IF IsFin(readOff') THEN "fin" ELSE seen
        /\ recvState' = IF IsFin(readOff') THEN "gone" ELSE "open"
    BY <2>1, Zenon DEF Take
  <2>3. n \in Nat /\ readOff + n <= recvLen
    BY ReadableIs
  <2> HIDE DEF n
  <2>4. readOff' \in Nat /\ readOff <= readOff' /\ readOff' <= recvLen
    BY <1>2, <2>2, <2>3, SMT
  <2>5. consumed' = readOff' /\ readOff' \in 0..recvLen
        /\ consumed' \in 0..readOff' /\ recvLen \in 0..emitOff
    BY <1>1, <1>2, <1>6, <1>8, <2>2, <2>3, <2>4, SMT
  <2>6. ASSUME NEW b \in bufs
        PROVE  Max({b[1], readOff'}) = IF b[1] >= readOff' THEN b[1] ELSE readOff'
    <3>1. b[1] \in Int /\ readOff' \in Int
      BY <1>2, <2>4, SMT
    <3> QED BY <3>1, MaxOfTwo, Zenon
  <2>7. ASSUME NEW x \in bufs'
        PROVE  x \in Offsets \X Offsets /\ x[1] <= x[2] /\ x[2] <= recvLen
    <3>1. PICK b \in bufs : /\ x = <<Max({b[1], readOff'}), b[2]>>
                            /\ b[2] > readOff' \/ b[1] = readOff'
      BY <2>2, Zenon
    <3>2. /\ b[1] \in Nat /\ b[2] \in Nat
          /\ b[1] <= b[2] /\ b[2] <= recvLen
      BY <1>2, Zenon
    <3> DEFINE m == Max({b[1], readOff'})
    <3>3. m = IF b[1] >= readOff' THEN b[1] ELSE readOff'
      BY <2>6
    <3> HIDE DEF m
    <3>4. m \in Offsets /\ b[2] \in Offsets /\ m <= b[2]
      BY <3>1, <3>2, <3>3, <2>4, <1>1, <1>2, SMT DEF Offsets
    <3>5. x = <<m, b[2]>>
      BY <3>1 DEF m
    <3> QED BY <3>2, <3>4, <3>5
  <2>8. RecvBufOK'
    <3>1. bufs' \subseteq Offsets \X Offsets
      BY <2>7, Zenon
    <3>2. \A x \in bufs' : x[1] <= x[2] /\ x[2] <= recvLen'
      BY <2>7, <1>3, Zenon
    <3>3. /\ recvState' \in {"absent", "open", "gone"} /\ recvState' # "absent"
          /\ (recvState' = "gone" => recvFin = readOff')
          /\ seen' \in {"none", "fin", "reset"}
          /\ (seen' # "none" => recvState' = "gone")
      BY <2>2, <1>6 DEF IsFin
    <3> QED BY <3>1, <3>2, <3>3, <1>3, <1>4, <1>5, <1>6, <1>8, <2>5, Zenon
        DEF RecvBufOK
  <2>9. ASSUME NEW i \in Int, Received(i) PROVE Received(i)'
    <3>1. i < readOff \/ Covered(i)
      BY <1>4, <2>9 DEF Received
    <3>2. CASE i < readOff'
      BY <3>2 DEF Received
    <3>3. CASE ~ (i < readOff')
      <4>1. Covered(i)
        BY <3>1, <3>3, <1>2, <2>4, SMT
      <4>2. PICK b \in bufs : b[1] <= i /\ i < b[2]
        BY <4>1 DEF Covered
      <4>3. /\ b[1] \in Nat /\ b[2] \in Nat
        BY <1>2, Zenon
      <4> DEFINE m == Max({b[1], readOff'})
      <4>4. m = IF b[1] >= readOff' THEN b[1] ELSE readOff'
        BY <2>6
      <4>5. b[2] > readOff'
        BY <4>2, <4>3, <3>3, <2>4, SMT
      <4>6. <<m, b[2]>> \in bufs'
        BY <4>5, <2>2, Zenon
      <4> HIDE DEF m
      <4>7. m <= i /\ i < b[2]
        BY <4>2, <4>3, <4>4, <3>3, <2>4, SMT
      <4>8. <<m, b[2]>>[1] = m /\ <<m, b[2]>>[2] = b[2]
        OBVIOUS
      <4>9. Covered(i)'
        BY <4>6, <4>7, <4>8, Zenon DEF Covered
      <4> QED BY <4>9 DEF Received
    <3> QED BY <3>2, <3>3
  <2> QED BY <2>8, <2>9
<1> QED BY <1>7, <1>8

(* What a reset leaves: everything counts as received.                     *)
LEMMA ResetIs ==
  ASSUME SendBufOK, RecvBufOK, recvState # "gone", AllSent, Abandoned,
         ReceiveReset(off), ~broken',
         UNCHANGED <<off, emitOff, finOff, shut, stopped>>
  PROVE  /\ RecvBufOK'
         /\ \A i \in Int : Received(i) => Received(i)'
<1>1. /\ MaxBytes \in Nat /\ off \in Nat /\ emitOff = off /\ off <= MaxBytes
  BY SendTypes, Zenon DEF AllSent
<1>2. /\ recvLen \in Nat /\ readOff \in Nat /\ consumed \in Nat
      /\ consumed <= readOff /\ readOff <= recvLen /\ recvLen <= emitOff
      /\ \A b \in bufs : /\ b[1] \in Nat /\ b[2] \in Nat
                         /\ b[1] <= b[2] /\ b[2] <= recvLen
  BY RecvTypes, Zenon
<1>3. /\ recvState' = "open"
      /\ IF wasReset
         THEN UNCHANGED <<bufs, readOff, recvLen, recvFin, wasReset>>
         ELSE /\ wasReset' = TRUE
              /\ readOff' = off /\ recvFin' = off /\ recvLen' = off
              /\ bufs' = IF recvFin = Unknown /\ ~draining
                         THEN {<<off, off>>} ELSE {}
      /\ UNCHANGED <<draining, consumed, almostFull, seen>>
  BY Zenon DEF ReceiveReset, Breaks
<1>4. AllSent' /\ Abandoned'
  BY DEF AllSent, Abandoned
<1>5. seen = "none"
  BY DEF RecvBufOK
<1>6. CASE wasReset
  <2>1. RecvBufOK'
    BY <1>3, <1>4, <1>5, <1>6, Zenon DEF RecvBufOK
  <2>2. ASSUME NEW i \in Int, Received(i) PROVE Received(i)'
    BY <2>2, <1>3, <1>6, Zenon DEF Received, Covered
  <2> QED BY <2>1, <2>2
<1>7. CASE ~wasReset
  <2>1. /\ wasReset' = TRUE
        /\ readOff' = off /\ recvFin' = off /\ recvLen' = off
        /\ bufs' \subseteq {<<off, off>>}
        /\ draining => bufs' = {}
    BY <1>3, <1>7, Zenon
  <2>2. off \in Offsets /\ off \in 0..emitOff /\ off \in 0..off
        /\ consumed \in 0..off
    BY <1>1, <1>2, SMT DEF Offsets
  <2>3. bufs' \subseteq Offsets \X Offsets
    BY <2>1, <2>2
  <2>4. \A b \in bufs' : b[1] <= b[2] /\ b[2] <= off
    BY <2>1, <1>1
  <2>5. RecvBufOK'
    BY <2>1, <2>2, <2>3, <2>4, <1>3, <1>4, <1>5, Zenon DEF RecvBufOK
  <2>6. ASSUME NEW i \in Int, Received(i) PROVE Received(i)'
    <3>1. CASE draining
      BY <3>1, <1>3 DEF Received
    <3>2. CASE i < readOff
      BY <3>2, <2>1, <1>1, <1>2, SMT DEF Received
    <3>3. CASE Covered(i)
      <4>1. PICK b \in bufs : i < b[2]
        BY <3>3 DEF Covered
      <4>2. b[2] \in Nat /\ b[2] <= recvLen
        BY <1>2, Zenon
      <4> QED BY <4>1, <4>2, <2>1, <1>1, <1>2, SMT DEF Received
    <3> QED BY <2>6, <3>1, <3>2, <3>3 DEF Received
  <2> QED BY <2>5, <2>6
<1> QED BY <1>6, <1>7

(* What shutting the reading side leaves.                                  *)
LEMMA ShutdownReadIs ==
  ASSUME SendBufOK, RecvBufOK, ShutdownRead
  PROVE  /\ RecvBufOK'
         /\ \A i \in Int : Received(i) => Received(i)'
<1>1. /\ off \in Nat /\ emitOff \in Nat /\ emitOff <= off
  BY SendTypes
<1>2. /\ recvLen \in Nat /\ readOff \in Nat /\ consumed \in Nat
      /\ consumed <= readOff /\ readOff <= recvLen /\ recvLen <= emitOff
  BY RecvTypes, Zenon
<1>3. /\ recvState = "open" /\ draining' = TRUE /\ bufs' = {}
      /\ readOff' = recvLen
      /\ UNCHANGED <<recvLen, recvFin, wasReset, consumed, recvState, seen>>
      /\ UNCHANGED <<off, emitOff, finOff, shut, stopped>>
  BY Zenon DEF ShutdownRead, sendVars
<1>4. (AllSent' <=> AllSent) /\ (Abandoned' <=> Abandoned)
  BY <1>3 DEF AllSent, Abandoned
<1>5. recvFin \in {Unknown, off} /\ (wasReset => recvFin = readOff)
  BY DEF RecvBufOK
<1>6. wasReset => recvFin = recvLen
  BY <1>1, <1>2, <1>5, SMT DEF Unknown
<1>7. recvLen \in 0..recvLen /\ consumed \in 0..recvLen
  BY <1>2, SMT
<1>8. RecvBufOK'
  BY <1>3, <1>4, <1>6, <1>7, Zenon DEF RecvBufOK
<1>9. ASSUME NEW i \in Int PROVE Received(i)'
  BY <1>3 DEF Received
<1> QED BY <1>8, <1>9

-----------------------------------------------------------------------------
(***************************************************************************)
(* Frames.                                                                 *)
(***************************************************************************)

(* The frames, by their type.                                              *)
LEMMA FrameIs ==
  ASSUME NEW f, FrameOK(f)
  PROVE  /\ f.type \in {"stream", "reset", "max", "stop"}
         /\ f.type = "stream" =>
              /\ f.from \in Offsets /\ f.to \in Offsets /\ f.fin \in BOOLEAN
              /\ f = Stream(f.from, f.to, f.fin)
              /\ f.from <= f.to /\ f.to <= emitOff
              /\ f.fin => AllSent /\ f.to = off
         /\ f.type = "reset" => f = Reset(off) /\ f.size = off /\ AllSent /\ Abandoned
         /\ f.type = "max" => /\ f.max \in Window..recvMax /\ f = MaxStreamData(f.max)
                              /\ recvState # "absent"
         /\ f.type = "stop" => f = StopSending
<1>1. CASE \E a, b \in Offsets, fin \in BOOLEAN :
             /\ f = Stream(a, b, fin)
             /\ a <= b /\ b <= emitOff
             /\ fin => AllSent /\ b = off
  <2>1. PICK a \in Offsets, b \in Offsets, fin \in BOOLEAN :
               /\ f = Stream(a, b, fin)
               /\ a <= b /\ b <= emitOff
               /\ fin => AllSent /\ b = off
    BY <1>1
  <2>2. f.type = "stream" /\ f.from = a /\ f.to = b /\ f.fin = fin
    BY <2>1 DEF Stream
  <2>3. "stream" # "reset" /\ "stream" # "max" /\ "stream" # "stop"
    OBVIOUS
  <2> QED BY <2>1, <2>2, <2>3, Zenon
<1>2. CASE f = Reset(off) /\ AllSent /\ Abandoned
  <2>1. f.type = "reset" /\ f.size = off
    BY <1>2 DEF Reset
  <2>2. "reset" # "stream" /\ "reset" # "max" /\ "reset" # "stop"
    OBVIOUS
  <2> QED BY <1>2, <2>1, <2>2, Zenon
<1>3. CASE \E m \in Window..recvMax : f = MaxStreamData(m) /\ recvState # "absent"
  <2>1. PICK m \in Window..recvMax : f = MaxStreamData(m) /\ recvState # "absent"
    BY <1>3
  <2>2. f.type = "max" /\ f.max = m
    BY <2>1 DEF MaxStreamData
  <2>3. "max" # "stream" /\ "max" # "reset" /\ "max" # "stop"
    OBVIOUS
  <2> QED BY <2>1, <2>2, <2>3, Zenon
<1>4. CASE f = StopSending
  <2>1. f.type = "stop"
    BY <1>4 DEF StopSending
  <2>2. "stop" # "stream" /\ "stop" # "reset" /\ "stop" # "max"
    OBVIOUS
  <2> QED BY <1>4, <2>1, <2>2, Zenon
<1> QED BY <1>1, <1>2, <1>3, <1>4, Zenon DEF FrameOK

(* The types of frames.                                                    *)
LEMMA FrameTypes ==
  /\ \A a, b, c : /\ Stream(a, b, c).type = "stream"
                  /\ Stream(a, b, c).from = a /\ Stream(a, b, c).to = b
  /\ \A n : Reset(n).type = "reset"
  /\ \A n : MaxStreamData(n).type = "max" /\ MaxStreamData(n).max = n
  /\ StopSending.type = "stop"
  /\ "stream" # "max" /\ "stream" # "reset" /\ "stream" # "stop"
  /\ "reset" # "max" /\ "reset" # "stop" /\ "max" # "stop"
<1>1. \A a, b, c : /\ Stream(a, b, c).type = "stream"
                   /\ Stream(a, b, c).from = a /\ Stream(a, b, c).to = b
  BY DEF Stream
<1>2. /\ \A n : Reset(n).type = "reset"
      /\ \A n : MaxStreamData(n).type = "max" /\ MaxStreamData(n).max = n
      /\ StopSending.type = "stop"
  BY DEF Reset, MaxStreamData, StopSending
<1>3. /\ "stream" # "max" /\ "stream" # "reset" /\ "stream" # "stop"
      /\ "reset" # "max" /\ "reset" # "stop" /\ "max" # "stop"
  OBVIOUS
<1> QED BY <1>1, <1>2, <1>3

(* What frames rely on, and what no step takes back.                       *)
SenderGrows ==
  /\ emitOff <= emitOff'
  /\ AllSent => AllSent' /\ off' = off
  /\ Abandoned => Abandoned'

ReceiverGrows ==
  /\ recvMax <= recvMax'
  /\ recvState # "absent" => recvState' # "absent"

(* A frame that said nothing wrong never comes to.                         *)
LEMMA FramePersists ==
  ASSUME SendBufOK, emitOff' \in Int, recvMax \in Int, recvMax' \in Int,
         SenderGrows, ReceiverGrows, NEW f, FrameOK(f)
  PROVE  FrameOK(f)'
<1>1. emitOff \in Nat /\ MaxBytes \in Nat /\ Window \in Nat
  BY SendTypes, QuicAssumption
<1>2. f.type \in {"stream", "reset", "max", "stop"}
  BY FrameIs
<1>3. CASE f.type = "stream"
  <2>1. /\ f.from \in Offsets /\ f.to \in Offsets /\ f.fin \in BOOLEAN
        /\ f = Stream(f.from, f.to, f.fin)
        /\ f.from <= f.to /\ f.to <= emitOff
        /\ (f.fin => AllSent /\ f.to = off)
    BY <1>3, FrameIs, Zenon
  <2>2. f.to <= emitOff'
    BY <2>1, <1>1, SMT DEF SenderGrows, Offsets
  <2>3. f.fin => AllSent' /\ f.to = off'
    BY <2>1 DEF SenderGrows
  <2> QED BY <2>1, <2>2, <2>3, Zenon DEF FrameOK
<1>4. CASE f.type = "reset"
  <2>1. f = Reset(off) /\ AllSent /\ Abandoned
    BY <1>4, FrameIs, Zenon
  <2> QED BY <2>1, Zenon DEF FrameOK, SenderGrows
<1>5. CASE f.type = "max"
  <2>1. f.max \in Window..recvMax /\ f = MaxStreamData(f.max) /\ recvState # "absent"
    BY <1>5, FrameIs, Zenon
  <2>2. f.max \in Window..recvMax'
    BY <2>1, <1>1, SMT DEF ReceiverGrows
  <2> QED BY <2>1, <2>2, Zenon DEF FrameOK, ReceiverGrows
<1>6. CASE f.type = "stop"
  <2>1. f = StopSending
    BY <1>6, FrameIs, Zenon
  <2> QED BY <2>1, Zenon DEF FrameOK
<1> QED BY <1>2, <1>3, <1>4, <1>5, <1>6

-----------------------------------------------------------------------------
(***************************************************************************)
(* The steps of the sender.                                                *)
(***************************************************************************)

(* A write keeps SendBuf in order and takes nothing back.                  *)
LEMMA WriteIs ==
  ASSUME SendBufOK, WriterOK, sendMax \in Nat, NEW n \in Nat, NEW fin \in BOOLEAN,
         StreamSend(n, fin)
  PROVE  /\ SendBufOK' /\ WriterOK' /\ SenderGrows
         /\ off' <= sendMax /\ off' = off + n /\ acked' = acked
         /\ pending' = pending \cup off..(off + n - 1)
<1>1. /\ MaxBytes \in Nat /\ off \in Nat /\ emitOff \in Nat /\ base \in Nat
      /\ off <= MaxBytes /\ emitOff <= off /\ base <= emitOff
  BY SendTypes
<1>2. /\ ~sendGone /\ ~stopped
      /\ n > 0 \/ fin
      /\ off + n <= Min({sendMax, MaxBytes})
      /\ finOff # Unknown => n = 0
      /\ off' = off + n
      /\ finOff' = IF fin THEN off + n ELSE finOff
      /\ cuts' = IF n > 0 /\ base < off THEN cuts \cup {off} ELSE cuts
      /\ pending' = pending \cup off..(off + n - 1)
      /\ written' = IF shut THEN written ELSE off + n
      /\ ended' = (ended \/ (fin /\ ~shut))
      /\ UNCHANGED <<emitOff, acked, base, shut, stopped, resetQueued, sendGone>>
  BY Zenon DEF StreamSend
<1>3. off' <= sendMax /\ off' <= MaxBytes /\ off' \in Nat
  <2>1. Min({sendMax, MaxBytes}) = IF sendMax <= MaxBytes THEN sendMax ELSE MaxBytes
    BY <1>1, MinOfTwo, Zenon
  <2> QED BY <1>1, <1>2, <2>1, SMT
<1>4. finOff \in {Unknown, off} /\ (Abandoned => AllSent)
      /\ (resetQueued => Abandoned)
  BY DEF SendBufOK
<1>5. Abandoned' <=> Abandoned
  BY <1>2 DEF Abandoned
<1>6. finOff # Unknown => n = 0 /\ finOff = off /\ off' = off /\ finOff' = off
  BY <1>1, <1>2, <1>4, SMT
<1>7. AllSent => AllSent' /\ off' = off
  <2>1. ASSUME AllSent PROVE finOff # Unknown
    BY <2>1, <1>1, SMT DEF AllSent, Unknown
  <2> QED BY <2>1, <1>2, <1>6, Zenon DEF AllSent
<1>8. SendBufOK'
  <2>1. off' \in Offsets' /\ emitOff \in 0..off'
    BY <1>1, <1>2, <1>3, SMT DEF Offsets
  <2>2. finOff' \in {Unknown, off'}
    BY <1>2, <1>4, <1>6, Zenon
  <2>3. cuts' \subseteq 0..off'
    <3>1. cuts \subseteq 0..off
      BY DEF SendBufOK
    <3>2. \A c \in cuts' : c \in cuts \/ c = off
      BY <1>2, Zenon
    <3>3. ASSUME NEW c \in cuts' PROVE c \in 0..off
      <4>1. c \in cuts => c \in 0..off
        BY <3>1, Zenon
      <4>2. off \in 0..off
        BY <1>1, SMT
      <4> QED BY <3>2, <4>1, <4>2, Zenon
    <3> QED BY <3>3, <1>1, <1>2, SMT
  <2>4. pending' \subseteq base..(off' - 1) /\ emitOff..(off' - 1) \subseteq pending'
    <3>1. pending \subseteq base..(off - 1) /\ emitOff..(off - 1) \subseteq pending
      BY DEF SendBufOK
    <3> QED BY <3>1, <1>1, <1>2, SMT
  <2>5. Abandoned' => AllSent'
    BY <1>4, <1>5, <1>7
  <2> QED BY <2>1, <2>2, <2>3, <2>4, <2>5, <1>2, <1>4, <1>5, Zenon DEF SendBufOK
<1>9. WriterOK'
  <2>1. /\ written \in emitOff..MaxBytes
        /\ ended => finOff = off
        /\ ~Abandoned => written = off /\ (finOff = off => ended)
    BY DEF WriterOK
  <2>2. written' \in emitOff..MaxBytes
    BY <2>1, <1>1, <1>2, <1>3, SMT
  <2>3. ended' => finOff' = off'
    <3>1. ended => finOff # Unknown
      BY <2>1, <1>1, SMT DEF Unknown
    <3> QED BY <3>1, <1>2, <1>6, Zenon
  <2>4. ASSUME ~Abandoned PROVE written' = off' /\ (finOff' = off' => ended')
    <3>1. ~shut
      BY <2>4 DEF Abandoned
    <3>2. ASSUME finOff' = off', ~fin PROVE ended
      <4>1. finOff # Unknown
        BY <3>2, <1>2, <1>3, SMT DEF Unknown
      <4> QED BY <4>1, <1>6, <2>1, <2>4, Zenon
    <3> QED BY <3>1, <3>2, <1>2, Zenon
  <2> QED BY <2>2, <2>3, <2>4, <1>2, <1>5, Zenon DEF WriterOK
<1>10. SenderGrows
  BY <1>1, <1>2, <1>5, <1>7 DEF SenderGrows
<1>11. off' = off + n /\ acked' = acked
       /\ pending' = pending \cup off..(off + n - 1)
  BY <1>2, Zenon
<1> QED BY <1>3, <1>8, <1>9, <1>10, <1>11, Zenon

(* SendBuf::reset leaves what was sent as the whole stream.                *)
LEMMA ResetSendIs ==
  ASSUME SendBufOK, WriterOK, ~sendGone, ResetSend, Abandoned',
         UNCHANGED <<written, ended>>
  PROVE  /\ SendBufOK' /\ WriterOK' /\ SenderGrows
         /\ off' <= off
<1>1. /\ MaxBytes \in Nat /\ off \in Nat /\ emitOff \in Nat /\ base \in Nat
      /\ off <= MaxBytes /\ emitOff <= off /\ base <= emitOff
  BY SendTypes
<1> DEFINE size == Max({OffFront, emitOff})
<1>2. size = emitOff
  <2>1. OffFront \in Nat /\ OffFront <= emitOff
    BY FrontIs
  <2>2. OffFront \in Int /\ emitOff \in Int
    BY <1>1, <2>1, SMT
  <2>3. size = IF OffFront >= emitOff THEN OffFront ELSE emitOff
    BY <2>2, MaxOfTwo, Zenon
  <2> HIDE DEF size
  <2> QED BY <1>1, <2>1, <2>3, SMT
<1>3. /\ off' = size /\ finOff' = size
      /\ acked' = acked \cup 0..(size - 1)
      /\ base' = size /\ cuts' = {} /\ pending' = {}
      /\ UNCHANGED <<emitOff, sendGone>>
  BY Zenon DEF ResetSend
<1> HIDE DEF size
<1>4. acked' = 0..(emitOff - 1)
  BY <1>2, <1>3, Zenon DEF SendBufOK
<1>5. AllSent'
  BY <1>2, <1>3 DEF AllSent
<1>6. SendBufOK'
  <2>1. emitOff \in Offsets /\ emitOff \in 0..emitOff
        /\ emitOff..(emitOff - 1) = {}
    BY <1>1, SMT DEF Offsets
  <2> QED BY <1>2, <1>3, <1>4, <1>5, <2>1, Zenon DEF SendBufOK
<1>7. WriterOK'
  BY <1>2, <1>3, Zenon DEF WriterOK
<1>8. SenderGrows
  BY <1>1, <1>2, <1>3, <1>5, SMT DEF SenderGrows, AllSent
<1> QED BY <1>1, <1>2, <1>3, <1>6, <1>7, <1>8, SMT

(* A frame sent says what the sender holds to; it carries what leaves the  *)
(* bytes to emit.                                                          *)
LEMMA SendStreamIs ==
  ASSUME SendBufOK, WriterOK, NEW k \in Nat, SendStream(k)
  PROVE  /\ SendBufOK' /\ WriterOK' /\ SenderGrows
         /\ off' = off /\ acked' = acked
         /\ \E f : /\ f.type = "stream" /\ FrameOK(f)'
                   /\ out' = out \cup {f} /\ wire' = wire \cup {f}
                   /\ \A i \in pending : i \in pending' \/ (f.from <= i /\ i < f.to)
<1>1. PICK from, to : from = OffFront /\ to = OffFront + Run(k)
  OBVIOUS
<1>2. /\ MaxBytes \in Nat /\ off \in Nat /\ emitOff \in Nat /\ base \in Nat
      /\ off <= MaxBytes /\ emitOff <= off /\ base <= emitOff
  BY SendTypes
<1>3. from \in Nat /\ from <= emitOff
  BY <1>1, FrontIs
<1>4. Run(k) \in Nat /\ to <= off /\ from..(to - 1) \subseteq pending
  <2>1. /\ Run(k) \in 0..k
        /\ OffFront..(OffFront + Run(k) - 1) \subseteq pending
        /\ OffFront + Run(k) <= off
    BY RunIs, Zenon
  <2>2. \A x \in 0..k : x \in Nat
    BY SMT
  <2>3. to - 1 = OffFront + Run(k) - 1
    BY <1>1, <1>3, <2>1, SMT
  <2> QED BY <1>1, <2>1, <2>2, <2>3, Zenon
<1>5. to \in Nat /\ from <= to
  BY <1>1, <1>3, <1>4, SMT
<1>6. PICK f : f = Stream(from, to, finOff = to)
  OBVIOUS
<1>7. /\ ~sendGone /\ ~stopped
      /\ wire' = wire \cup {f} /\ out' = out \cup {f}
      /\ emitOff' = Max({emitOff, to})
      /\ pending' = pending \ from..(to - 1)
      /\ UNCHANGED <<off, finOff, acked, base, cuts, shut, stopped, resetQueued,
                     sendGone, written, ended>>
  BY <1>6, <1>1, Zenon DEF SendStream, Transmit, appVars
<1>8. emitOff' = IF emitOff >= to THEN emitOff ELSE to
  <2>1. emitOff \in Int /\ to \in Int
    BY <1>2, <1>5, SMT
  <2> QED BY <1>7, <2>1, MaxOfTwo, Zenon
<1>9. emitOff' \in Nat /\ emitOff <= emitOff' /\ to <= emitOff' /\ emitOff' <= off
  BY <1>2, <1>4, <1>5, <1>8, SMT
<1>10. Abandoned' <=> Abandoned
  BY <1>7 DEF Abandoned
<1>11. AllSent => AllSent'
  BY <1>2, <1>7, <1>9, SMT DEF AllSent
<1>12. SendBufOK'
  <2>1. /\ acked \subseteq 0..(emitOff - 1) /\ cuts \subseteq 0..off
        /\ pending \subseteq base..(off - 1)
        /\ emitOff..(off - 1) \subseteq pending
    BY DEF SendBufOK
  <2>2. emitOff' \in 0..off /\ base \in 0..emitOff'
    BY <1>2, <1>9, SMT
  <2>3. acked \subseteq 0..(emitOff' - 1)
    <3>1. 0..(emitOff - 1) \subseteq 0..(emitOff' - 1)
      BY <1>2, <1>9, PrefixGrows, Zenon
    <3> QED BY <2>1, <3>1, Zenon
  <2>4. pending' \subseteq base..(off - 1)
    BY <1>7, <2>1, Zenon
  <2>5. emitOff'..(off - 1) \subseteq pending'
    <3>1. SUFFICES ASSUME NEW i \in emitOff'..(off - 1) PROVE i \in pending'
      OBVIOUS
    <3>2. i \in pending
      BY <1>2, <1>9, <2>1, SMT
    <3>3. i \notin from..(to - 1)
      BY <1>2, <1>3, <1>5, <1>9, SMT
    <3> QED BY <3>2, <3>3, <1>7
  <2>6. Abandoned' => AllSent'
    BY <1>10, <1>11, Zenon DEF SendBufOK
  <2> QED BY <2>2, <2>3, <2>4, <2>5, <2>6, <1>7, <1>10, Zenon DEF SendBufOK
<1>13. WriterOK'
  <2>1. /\ written \in emitOff..MaxBytes
        /\ ended => finOff = off
        /\ ~Abandoned => written = off /\ (finOff = off => ended)
        /\ Abandoned => AllSent
    BY Zenon DEF WriterOK, SendBufOK
  <2>2. written \in emitOff'..MaxBytes
    <3>1. CASE Abandoned
      BY <3>1, <2>1, <1>2, <1>9, SMT DEF AllSent
    <3>2. CASE ~Abandoned
      BY <3>2, <2>1, <1>2, <1>9, SMT
    <3> QED BY <3>1, <3>2
  <2> QED BY <2>1, <2>2, <1>7, <1>10, Zenon DEF WriterOK
<1>14. SenderGrows
  BY <1>7, <1>9, <1>10, <1>11, Zenon DEF SenderGrows
<1>15. FrameOK(f)'
  <2>1. from \in Offsets /\ to \in Offsets
    BY <1>2, <1>3, <1>4, <1>5, SMT DEF Offsets
  <2>2. ASSUME finOff = to PROVE AllSent' /\ to = off'
    <3>1. finOff = off
      <4>1. finOff \in {Unknown, off}
        BY DEF SendBufOK
      <4> QED BY <4>1, <2>2, <1>5, SMT DEF Unknown
    <3>2. emitOff' = off
      BY <3>1, <2>2, <1>2, <1>9, SMT
    <3> QED BY <3>1, <3>2, <2>2, <1>7 DEF AllSent
  <2>3. (finOff = to) \in BOOLEAN
    OBVIOUS
  <2> QED BY <2>1, <2>2, <2>3, <1>6, <1>5, <1>9, Zenon DEF FrameOK
<1>16. f.type = "stream" /\ f.from = from /\ f.to = to
  BY <1>6 DEF Stream
<1>17. ASSUME NEW i \in pending PROVE i \in pending' \/ (f.from <= i /\ i < f.to)
  <2>1. i \in Int
    BY <1>2, SMT DEF SendBufOK
  <2>2. i \in from..(to - 1) \/ i \in pending'
    BY <1>7
  <2> QED BY <2>1, <2>2, <1>3, <1>5, <1>16, SMT
<1> QED BY <1>7, <1>12, <1>13, <1>14, <1>15, <1>16, <1>17, Zenon

(* A stream is collected only when all of it was acknowledged.             *)
LEMMA CollectIs ==
  ASSUME NEW acks, NEW any, Collect(acks, any)
  PROVE  sendGone' \in BOOLEAN
         /\ (sendGone' => finOff # Unknown /\ acks = 0..(finOff - 1))
<1>1. CASE IsComplete(acks, any)
  <2>1. sendGone' \in BOOLEAN
    BY <1>1 DEF Collect
  <2> QED BY <1>1, <2>1, Zenon DEF IsComplete
<1>2. CASE ~IsComplete(acks, any)
  BY <1>2 DEF Collect
<1> QED BY <1>1, <1>2

(* An acknowledgement keeps SendBuf in order: what it adds was in a frame, *)
(* what it drops was acknowledged.                                         *)
LEMMA AckedIs ==
  ASSUME SendBufOK, WriterOK, NEW f, FrameOK(f), FromSender(f), SenderAcked(f),
         sendGone \in BOOLEAN,
         UNCHANGED <<written, ended>>
  PROVE  /\ SendBufOK' /\ WriterOK' /\ SenderGrows
         /\ off' = off /\ finOff' = finOff /\ shut' = shut /\ stopped' = stopped
         /\ (sendGone => sendGone') /\ sendGone' \in BOOLEAN
         /\ f.type \in {"stream", "reset"}
         /\ \A i \in acked' : \/ i \in acked
                              \/ f.type = "stream" /\ i \in f.from..(f.to - 1)
         /\ \A i \in pending : i \in pending' \/ i \in acked'
<1>1. /\ MaxBytes \in Nat /\ off \in Nat /\ emitOff \in Nat /\ base \in Nat
      /\ off <= MaxBytes /\ emitOff <= off /\ base <= emitOff
  BY SendTypes
<1>2. UNCHANGED <<off, emitOff, finOff, sendMax, shut, stopped, resetQueued>>
  BY Zenon DEF SenderAcked
<1>3. (Abandoned' <=> Abandoned) /\ (AllSent' <=> AllSent)
  BY <1>2 DEF Abandoned, AllSent
<1>4. SenderGrows
  BY <1>1, <1>2, <1>3, SMT DEF SenderGrows
<1>5. WriterOK'
  BY <1>2, <1>3, Zenon DEF WriterOK
<1>6. f.type \in {"stream", "reset"}
  BY DEF FromSender
<1>7. /\ off \in Offsets /\ emitOff \in 0..off /\ base \in 0..emitOff
      /\ finOff \in {Unknown, off}
      /\ acked \subseteq 0..(emitOff - 1)
      /\ 0..(base - 1) \subseteq acked
      /\ cuts \subseteq 0..off
      /\ pending \subseteq base..(off - 1)
      /\ emitOff..(off - 1) \subseteq pending
      /\ Abandoned => AllSent
      /\ resetQueued => Abandoned
      /\ sendGone => finOff = off /\ acked = 0..(off - 1)
  BY Zenon DEF SendBufOK
<1>8. CASE sendGone
  <2>1. UNCHANGED <<acked, base, pending, cuts, sendGone>>
    BY <1>8, Zenon DEF SenderAcked
  <2>2. SendBufOK'
    BY <1>2, <1>3, <1>7, <2>1, Zenon DEF SendBufOK
  <2> QED BY <1>2, <1>4, <1>5, <1>6, <2>1, <2>2, Zenon
<1>9. CASE ~sendGone /\ f.type # "stream"
  <2>1. Collect(acked, ackedAny) /\ UNCHANGED <<acked, base, pending, cuts>>
    BY <1>9, Zenon DEF SenderAcked
  <2>2. sendGone' \in BOOLEAN /\ (sendGone' => finOff = off /\ acked = 0..(off - 1))
    BY <1>7, <2>1, CollectIs, Zenon
  <2>3. SendBufOK'
    BY <1>2, <1>3, <1>7, <2>1, <2>2, Zenon DEF SendBufOK
  <2> QED BY <1>2, <1>4, <1>5, <1>6, <1>9, <2>1, <2>2, <2>3, Zenon
<1>10. CASE ~sendGone /\ f.type = "stream"
  <2>1. AckStream(f)
    BY <1>10, Zenon DEF SenderAcked
  <2>2. PICK acks : acks = acked \cup f.from..(f.to - 1)
    OBVIOUS
  <2>3. PICK front : front = AckOff(acks)
    OBVIOUS
  <2>4. PICK drop : drop = IF f.from > front THEN base
                           ELSE Max({base} \cup {c \in cuts \cup {off} : c <= front})
    OBVIOUS
  <2>5. /\ acked' = acks /\ base' = drop
        /\ pending' = pending \ 0..(drop - 1)
        /\ cuts' = {c \in cuts : c > drop}
        /\ Collect(acks, TRUE)
    BY <2>1, <2>2, <2>3, <2>4, Zenon DEF AckStream
  <2>6. f.from \in Nat /\ f.to \in Nat /\ f.to <= emitOff
    <3>1. f.from \in Offsets /\ f.to \in Offsets /\ f.to <= emitOff
      BY <1>10, FrameIs, Zenon
    <3> QED BY <3>1, <1>1, SMT DEF Offsets
  <2>7. acks \subseteq 0..(emitOff - 1)
    <3>1. f.from..(f.to - 1) \subseteq 0..(emitOff - 1)
      BY <2>6, <1>1, SMT
    <3> QED BY <3>1, <2>2, <1>7, Zenon
  <2>8. front \in 0..emitOff /\ 0..(front - 1) \subseteq acks
    BY <2>3, <2>7, AckOffIs, Zenon
  <2>9. drop \in base..emitOff /\ (drop = base \/ drop <= front)
    BY <2>4, <2>6, <2>8, DropIs
  <2>10. drop \in Nat /\ base <= drop /\ drop <= emitOff /\ front \in Nat
    BY <1>1, <2>8, <2>9, SMT
  <2>11. 0..(drop - 1) \subseteq acks
    <3>1. CASE drop = base
      BY <3>1, <2>2, <1>7, Zenon
    <3>2. CASE drop <= front
      <4>1. 0..(drop - 1) \subseteq 0..(front - 1)
        BY <3>2, <2>10, PrefixGrows, Zenon
      <4> QED BY <4>1, <2>8, Zenon
    <3> QED BY <3>1, <3>2, <2>9
  <2>12. sendGone' \in BOOLEAN /\ (sendGone' => finOff = off /\ acks = 0..(off - 1))
    BY <1>7, <2>5, CollectIs, Zenon
  <2>13. pending' \subseteq drop..(off - 1)
    <3>1. SUFFICES ASSUME NEW i \in pending' PROVE i \in drop..(off - 1)
      OBVIOUS
    <3>2. i \in base..(off - 1) /\ i \notin 0..(drop - 1)
      BY <1>7, <2>5, Zenon
    <3> QED BY <3>2, <1>1, <2>10, SMT
  <2>14. emitOff..(off - 1) \subseteq pending'
    <3>1. SUFFICES ASSUME NEW i \in emitOff..(off - 1) PROVE i \in pending'
      OBVIOUS
    <3>2. i \in pending
      BY <1>7, Zenon
    <3>3. i \notin 0..(drop - 1)
      BY <1>1, <2>10, SMT
    <3> QED BY <3>2, <3>3, <2>5, Zenon
  <2>15. drop \in 0..emitOff
    BY <1>1, <2>10, SMT
  <2>16. cuts' \subseteq 0..off
    BY <1>7, <2>5, Zenon
  <2>17. SendBufOK'
    BY <1>2, <1>3, <1>7, <2>5, <2>7, <2>11, <2>12, <2>13, <2>14, <2>15, <2>16,
       Zenon DEF SendBufOK
  <2>18. \A i \in acked' : i \in acked \/ i \in f.from..(f.to - 1)
    BY <2>2, <2>5, Zenon
  <2>19. \A i \in pending : i \in pending' \/ i \in acked'
    BY <2>5, <2>11, Zenon
  <2> QED BY <1>2, <1>4, <1>5, <1>6, <1>10, <2>12, <2>17, <2>18, <2>19, Zenon
<1> QED BY <1>8, <1>9, <1>10

(* A loss keeps SendBuf in order; what the lost frame carried is to be     *)
(* emitted again, unless it was acknowledged.                              *)
LEMMA LostIs ==
  ASSUME SendBufOK, WriterOK, NEW f, FrameOK(f), FromSender(f), SenderLoses(f),
         {flushable, resetQueued} \subseteq BOOLEAN,
         UNCHANGED <<written, ended>>
  PROVE  /\ SendBufOK' /\ WriterOK' /\ SenderGrows
         /\ off' = off /\ finOff' = finOff /\ shut' = shut /\ stopped' = stopped
         /\ acked' = acked /\ sendGone' = sendGone
         /\ {flushable', resetQueued'} \subseteq BOOLEAN
         /\ f.type \in {"stream", "reset"}
         /\ pending \subseteq pending'
         /\ f.type = "stream" /\ ~Abandoned =>
              \A i \in f.from..(f.to - 1) : i \in pending' \/ i \in acked
<1>1. /\ MaxBytes \in Nat /\ off \in Nat /\ emitOff \in Nat /\ base \in Nat
      /\ off <= MaxBytes /\ emitOff <= off /\ base <= emitOff
  BY SendTypes
<1>2. UNCHANGED <<off, emitOff, finOff, sendMax, acked, base, shut, stopped,
                  sendGone>>
  BY Zenon DEF SenderLoses
<1>3. (Abandoned' <=> Abandoned) /\ (AllSent' <=> AllSent)
  BY <1>2 DEF Abandoned, AllSent
<1>4. SenderGrows
  BY <1>1, <1>2, <1>3, SMT DEF SenderGrows
<1>5. WriterOK'
  BY <1>2, <1>3, Zenon DEF WriterOK
<1>6. f.type \in {"stream", "reset"} /\ "stream" # "reset"
  BY DEF FromSender
<1>7. /\ off \in Offsets /\ emitOff \in 0..off /\ base \in 0..emitOff
      /\ finOff \in {Unknown, off}
      /\ acked \subseteq 0..(emitOff - 1)
      /\ 0..(base - 1) \subseteq acked
      /\ cuts \subseteq 0..off
      /\ pending \subseteq base..(off - 1)
      /\ emitOff..(off - 1) \subseteq pending
      /\ Abandoned => AllSent
      /\ resetQueued => Abandoned
      /\ sendGone => finOff = off /\ acked = 0..(off - 1)
  BY Zenon DEF SendBufOK
<1>8. CASE f.type # "stream"
  <2>1. resetQueued' = TRUE /\ UNCHANGED <<pending, cuts, flushable>>
    BY <1>8, Zenon DEF SenderLoses
  <2>2. Abandoned
    BY <1>6, <1>8, FrameIs, Zenon
  <2>3. SendBufOK'
    BY <1>2, <1>3, <1>7, <2>1, <2>2, Zenon DEF SendBufOK
  <2> QED BY <1>2, <1>4, <1>5, <1>6, <1>8, <2>1, <2>3
<1>9. CASE f.type = "stream"
  <2>1. resetQueued' = resetQueued
    BY <1>9, Zenon DEF SenderLoses
  <2>2. f.from \in Nat /\ f.to \in Nat /\ f.to <= emitOff
    <3>1. f.from \in Offsets /\ f.to \in Offsets /\ f.to <= emitOff
      BY <1>9, FrameIs, Zenon
    <3> QED BY <3>1, <1>1, SMT DEF Offsets
  <2>3. CASE sendGone \/ stopped
    <3>1. UNCHANGED <<pending, cuts, flushable>>
      BY <1>9, <2>3, Zenon DEF SenderLoses
    <3>2. SendBufOK'
      BY <1>2, <1>3, <1>7, <2>1, <3>1, Zenon DEF SendBufOK
    <3>3. ASSUME ~Abandoned, NEW i \in f.from..(f.to - 1) PROVE i \in acked
      <4>1. acked = 0..(off - 1)
        BY <2>3, <3>3, <1>7, Zenon DEF Abandoned
      <4>2. i \in 0..(off - 1)
        BY <1>1, <2>2, SMT
      <4> QED BY <4>1, <4>2
    <3> QED BY <1>2, <1>4, <1>5, <1>6, <2>1, <3>1, <3>2, <3>3
  <2>4. CASE ~ (sendGone \/ stopped)
    <3>1. Retransmit(f.from, f.to) /\ Queue(f.from = f.to /\ f.fin)
      BY <1>9, <2>4, Zenon DEF SenderLoses, Requeue
    <3>2. flushable' \in BOOLEAN
      BY <3>1 DEF Queue
    <3>3. CASE base = off \/ f.to <= AckOff(acked)
      <4>1. UNCHANGED <<pending, cuts>>
        BY <3>1, <3>3, Zenon DEF Retransmit
      <4>2. SendBufOK'
        BY <1>2, <1>3, <1>7, <2>1, <4>1, Zenon DEF SendBufOK
      <4>3. f.from..(f.to - 1) \subseteq acked
        <5>1. CASE base = off
          <6>1. f.from..(f.to - 1) \subseteq 0..(base - 1)
            BY <5>1, <1>1, <2>2, SMT
          <6> QED BY <6>1, <1>7, Zenon
        <5>2. CASE f.to <= AckOff(acked)
          <6>1. AckOff(acked) \in 0..emitOff /\ 0..(AckOff(acked) - 1) \subseteq acked
            BY <1>7, AckOffIs, Zenon
          <6>2. f.from..(f.to - 1) \subseteq 0..(AckOff(acked) - 1)
            BY <5>2, <6>1, <1>1, <2>2, SMT
          <6> QED BY <6>1, <6>2, Zenon
        <5> QED BY <3>3, <5>1, <5>2
      <4> QED BY <1>2, <1>4, <1>5, <1>6, <2>1, <3>2, <4>1, <4>2, <4>3
    <3>4. CASE ~ (base = off \/ f.to <= AckOff(acked))
      <4>1. /\ pending' = pending \cup (f.from..(f.to - 1) \cap base..(off - 1))
            /\ cuts' = IF base < f.to /\ f.to < off THEN cuts \cup {f.to} ELSE cuts
        BY <3>1, <3>4, Zenon DEF Retransmit
      <4>2. cuts' \subseteq 0..off
        <5>1. f.to \in 0..off
          BY <1>1, <2>2, SMT
        <5> QED BY <5>1, <4>1, <1>7
      <4>3. pending' \subseteq base..(off - 1) /\ pending \subseteq pending'
        BY <4>1, <1>7, Zenon
      <4>4. SendBufOK'
        BY <1>2, <1>3, <1>7, <2>1, <4>2, <4>3, Zenon DEF SendBufOK
      <4>5. ASSUME NEW i \in f.from..(f.to - 1) PROVE i \in pending' \/ i \in acked
        <5>1. i \in 0..(base - 1) \/ i \in base..(off - 1)
          BY <1>1, <2>2, SMT
        <5> QED BY <5>1, <4>1, <1>7, Zenon
      <4> QED BY <1>2, <1>4, <1>5, <1>6, <2>1, <3>2, <4>3, <4>4, <4>5
    <3> QED BY <3>3, <3>4
  <2> QED BY <2>3, <2>4
<1> QED BY <1>8, <1>9

-----------------------------------------------------------------------------
(***************************************************************************)
(* What a step that concerns one part leaves of the others.                *)
(***************************************************************************)

(* A limit within a window of what was read stays so when more is read.    *)
LEMMA LimitInWindow ==
  \A lo, max, win, from, to \in Nat :
    lo <= max /\ max <= from + win /\ from <= to => max \in lo..(to + win)
BY SMT

(* A limit a larger window past what was read is no smaller.               *)
LEMMA LimitGrows ==
  ASSUME NEW lo \in Nat, NEW max \in Nat, NEW win \in Nat, NEW more \in Nat,
         NEW from \in Nat, NEW new, new = from + more,
         lo <= max, max <= from + win, win <= more
  PROVE  /\ new \in Nat /\ max <= new /\ new \in lo..(from + more)
         /\ new - from = more
BY SMT

(* Half of a window of two or more is less than the window.                *)
LEMMA HalfIsLess ==
  ASSUME NEW lo \in Nat, NEW n \in Nat, 2 <= lo, lo <= n
  PROVE  ~ (n < n \div 2)
BY SMT

(* Limits and windows are naturals.                                        *)
LEMMA CreditTypes ==
  ASSUME SendBufOK, RecvBufOK, CreditOK
  PROVE  /\ window \in Nat /\ recvMax \in Nat /\ sendMax \in Nat
         /\ Window <= window /\ window <= MaxWindow /\ 2 <= Window
         /\ recvMax <= consumed + window /\ Window <= recvMax
         /\ off <= sendMax /\ sendMax <= recvMax
         /\ Window \in Nat /\ MaxWindow \in Nat
<1>1. Window \in Nat /\ MaxWindow \in Nat /\ 2 <= Window
  BY QuicAssumption, SMT
<1>2. consumed \in Nat /\ off \in Nat
  BY RecvTypes, SendTypes, Zenon
<1>3. window \in Window..MaxWindow
  BY DEF CreditOK
<1>4. recvMax \in Window..(consumed + window) /\ sendMax \in off..recvMax
  BY DEF CreditOK
<1> QED BY <1>1, <1>2, <1>3, <1>4, SMT

(* Frames stay true, the new ones are.                                     *)
LEMMA FramesKeep ==
  ASSUME QuicIInv, SendBufOK', recvMax' \in Int, SenderGrows, ReceiverGrows,
         \A f \in wire' \cup out' : f \in wire \cup out \/ FrameOK(f)',
         got' \subseteq out'
  PROVE  FramesOK'
<1>1. emitOff' \in Int
  <2>1. off' \in Nat
    BY QuicAssumption, SMT DEF SendBufOK, Offsets
  <2>2. emitOff' \in 0..off'
    BY DEF SendBufOK
  <2> QED BY <2>1, <2>2, SMT
<1>2. recvMax \in Int
  <2>1. recvMax \in Nat
    BY CreditTypes, Zenon DEF QuicIInv
  <2> QED BY <2>1, SMT
<1>3. ASSUME NEW f \in wire' \cup out' PROVE FrameOK(f)'
  <2>1. CASE f \in wire \cup out
    <3>1. FrameOK(f) /\ SendBufOK
      BY <2>1, Zenon DEF QuicIInv, FramesOK
    <3> QED BY <3>1, <1>1, <1>2, FramePersists
  <2> QED BY <2>1, <1>3
<1> QED BY <1>3 DEF FramesOK

(* Receipts stay receipts.                                                 *)
LEMMA ReceiptsKeep ==
  ASSUME QuicIInv, SenderGrows,
         \A i \in Int : Received(i) => Received(i)',
         \A f \in got' : f \in got \/ (f.type = "stream" =>
                                         \A i \in f.from..(f.to - 1) : Received(i)'),
         ~Abandoned' => \A i \in acked' : i \in acked \/ Received(i)'
  PROVE  ReceiptsOK'
<1>1. ASSUME NEW f \in got', f.type = "stream", NEW i \in f.from..(f.to - 1)
      PROVE  Received(i)'
  <2>1. CASE f \in got
    <3>1. Received(i) /\ FrameOK(f)
      BY <2>1, <1>1, Zenon DEF QuicIInv, ReceiptsOK, FramesOK
    <3>2. f.from \in Offsets /\ f.to \in Offsets
      BY <3>1, <1>1, FrameIs, Zenon
    <3>3. i \in Int
      BY <3>2, QuicAssumption, SMT DEF Offsets
    <3> QED BY <3>1, <3>3
  <2> QED BY <2>1, <1>1
<1>2. ASSUME ~Abandoned', NEW i \in acked' PROVE Received(i)'
  <2>1. CASE i \in acked
    <3>1. ~Abandoned
      BY <1>2 DEF SenderGrows
    <3>2. Received(i)
      BY <2>1, <3>1, Zenon DEF QuicIInv, ReceiptsOK
    <3>3. acked \subseteq 0..(emitOff - 1) /\ emitOff \in Nat
      BY SendTypes, Zenon DEF QuicIInv, SendBufOK
    <3>4. i \in Int
      BY <3>3, <2>1, SMT
    <3> QED BY <3>2, <3>4
  <2> QED BY <2>1, <1>2
<1> QED BY <1>1, <1>2, Zenon DEF ReceiptsOK

(* The sender, when only the receiver or the network moves.                *)
LEMMA SenderKeeps ==
  ASSUME QuicIInv, UNCHANGED <<sendVars, appVars>>
  PROVE  /\ SendBufOK' /\ WriterOK' /\ SenderGrows
         /\ Abandoned' <=> Abandoned
         /\ AllSent' <=> AllSent
<1>1. /\ UNCHANGED <<off, emitOff, finOff, acked, base, cuts, pending, shut,
                     stopped, resetQueued, sendGone>>
      /\ UNCHANGED <<written, ended>>
  BY Zenon DEF sendVars, appVars
<1>2. /\ Abandoned' <=> Abandoned
      /\ AllSent' <=> AllSent
  BY <1>1 DEF Abandoned, AllSent
<1>3. SendBufOK /\ WriterOK
  BY Zenon DEF QuicIInv
<1>4. SendBufOK'
  BY <1>1, <1>2, <1>3, Zenon DEF SendBufOK, Offsets
<1>5. WriterOK'
  BY <1>1, <1>2, <1>3, Zenon DEF WriterOK
<1>6. emitOff <= emitOff'
  <2>1. emitOff \in Nat
    BY <1>3, SendTypes
  <2> QED BY <2>1, <1>1
<1> QED BY <1>1, <1>2, <1>4, <1>5, <1>6, Zenon DEF SenderGrows

(* RecvBuf, when only the sender or the network moves.                     *)
LEMMA ReceiverKeeps ==
  ASSUME QuicIInv, SendBufOK', SenderGrows, UNCHANGED recvVars
  PROVE  /\ RecvBufOK' /\ ReceiverGrows
         /\ \A i \in Int : Received(i) => Received(i)'
<1>1. UNCHANGED <<bufs, readOff, recvLen, recvFin, wasReset, draining, recvMax,
                  consumed, almostFull, recvState, seen>>
  BY Zenon DEF recvVars
<1>2. RecvBufOK /\ SendBufOK /\ CreditOK
  BY Zenon DEF QuicIInv
<1>3. emitOff \in Nat /\ emitOff <= emitOff' /\ emitOff' \in Nat
  <2>1. off' \in Nat
    BY QuicAssumption, SMT DEF SendBufOK, Offsets
  <2>2. emitOff' \in 0..off'
    BY DEF SendBufOK
  <2>3. emitOff \in Nat /\ emitOff <= emitOff'
    BY <1>2, SendTypes, Zenon DEF SenderGrows
  <2> QED BY <2>1, <2>2, <2>3, SMT
<1>4. recvLen \in 0..emitOff'
  <2>1. recvLen \in Nat /\ recvLen <= emitOff
    BY <1>2, RecvTypes, Zenon
  <2> QED BY <2>1, <1>3, SMT
<1>5. RecvBufOK'
  BY <1>1, <1>2, <1>4, Zenon DEF RecvBufOK, SenderGrows, Offsets
<1>6. ReceiverGrows
  <2>1. recvMax \in Nat
    BY <1>2, CreditTypes, Zenon
  <2>2. recvMax <= recvMax'
    BY <2>1, <1>1, SMT
  <2> QED BY <2>2, <1>1, Zenon DEF ReceiverGrows
<1>7. \A i \in Int : Received(i) => Received(i)'
  BY <1>1, Zenon DEF Received, Covered
<1> QED BY <1>5, <1>6, <1>7

(* Flow control, when no limit moves and no update is received or lost.    *)
LEMMA CreditKeeps ==
  ASSUME QuicIInv, off' \in Nat, off' <= sendMax,
         UNCHANGED <<recvMax, window, consumed, sendMax>>,
         AlmostFull(consumed)' => AlmostFull(consumed) \/ almostFull',
         almostFull => almostFull',
         recvState' # "gone" => recvState # "gone",
         sendGone => sendGone',
         \A f \in out : f.type = "max" => f \in out',
         \A f \in got' : f.type = "max" => f \in got
  PROVE  CreditOK'
<1>1. /\ window \in Window..MaxWindow
      /\ recvMax \in Window..(consumed + window)
      /\ sendMax \in off..recvMax
      /\ AlmostFull(consumed) => almostFull
      /\ (recvState # "gone" /\ ~sendGone /\ recvMax > sendMax =>
            almostFull \/ MaxStreamData(recvMax) \in out)
      /\ \A m \in Window..recvMax : MaxStreamData(m) \in got => m <= sendMax \/ sendGone
  BY Zenon DEF QuicIInv, CreditOK
<1>2. sendMax \in off'..recvMax
  <2>1. sendMax \in Nat /\ recvMax \in Nat /\ sendMax <= recvMax
    BY CreditTypes, Zenon DEF QuicIInv
  <2> QED BY <2>1, SMT
<1>3. AlmostFull(consumed)' => almostFull'
  BY <1>1, Zenon
<1>4. recvState' # "gone" /\ ~sendGone' /\ recvMax > sendMax =>
        almostFull' \/ MaxStreamData(recvMax) \in out'
  BY <1>1, FrameTypes, Zenon
<1>5. \A m \in Window..recvMax : MaxStreamData(m) \in got' => m <= sendMax \/ sendGone'
  BY <1>1, FrameTypes, Zenon
<1> QED BY <1>1, <1>2, <1>3, <1>4, <1>5, Zenon DEF CreditOK

-----------------------------------------------------------------------------
(***************************************************************************)
(* Every step preserves the invariant: the steps of the sender.            *)
(***************************************************************************)

(* A step of the sender leaves the invariant if it leaves SendBuf in order *)
(* and forgets no byte.                                                    *)
LEMMA SenderStep ==
  ASSUME QuicIInv, UNCHANGED <<recvVars, sendMax, sendGone, got>>,
         SendBufOK', WriterOK', SenderGrows, FlagsOK', off' <= sendMax,
         out \subseteq out',
         \A f \in wire' \cup out' : f \in wire \cup out \/ FrameOK(f)',
         ~Abandoned' => acked' = acked,
         ~Abandoned' => \A i \in 0..(off' - 1) :
                          \/ i \in 0..(off - 1) /\ i \notin pending
                          \/ i \in pending' \/ InFlight(i)'
  PROVE  QuicIInv'
<1>1. UNCHANGED <<bufs, readOff, recvLen, recvFin, wasReset, draining, recvMax,
                  window, consumed, almostFull, recvState, seen, broken>>
  BY Zenon DEF recvVars
<1>2. /\ SendBufOK /\ RecvBufOK /\ CreditOK /\ FramesOK /\ NoByteForgotten /\ broken = FALSE
  BY Zenon DEF QuicIInv
<1>3. /\ RecvBufOK' /\ ReceiverGrows
      /\ \A i \in Int : Received(i) => Received(i)'
  BY ReceiverKeeps, Zenon
<1>4. recvMax' \in Int
  <2>1. recvMax \in Nat
    BY <1>2, CreditTypes, Zenon
  <2> QED BY <2>1, <1>1, SMT
<1>5. got' \subseteq out'
  BY <1>2, Zenon DEF FramesOK
<1>6. FramesOK'
  BY <1>3, <1>4, <1>5, FramesKeep
<1>7. CreditOK'
  <2>1. off' \in Nat
    BY QuicAssumption, SMT DEF SendBufOK, Offsets
  <2>2. AlmostFull(consumed)' => AlmostFull(consumed)
    BY <1>1 DEF AlmostFull
  <2> QED BY <2>1, <2>2, <1>1, CreditKeeps, Zenon
<1>8. ReceiptsOK'
  BY <1>3, ReceiptsKeep, Zenon
<1>9. NoByteForgotten'
  <2>1. SUFFICES ASSUME ~shut', ~stopped', NEW i \in 0..(off' - 1)
                 PROVE  \/ i \in pending' \/ InFlight(i)'
                        \/ i < readOff' \/ Covered(i)' \/ draining'
    BY Zenon DEF NoByteForgotten
  <2>2. ~Abandoned'
    BY <2>1 DEF Abandoned
  <2>3. CASE i \in 0..(off - 1) /\ i \notin pending
    <3>1. ~shut /\ ~stopped
      BY <2>2 DEF SenderGrows, Abandoned
    <3>2. InFlight(i) \/ i < readOff \/ Covered(i) \/ draining
      BY <1>2, <2>3, <3>1, Zenon DEF NoByteForgotten
    <3>3. InFlight(i) => InFlight(i)'
      BY Zenon DEF InFlight
    <3>4. Covered(i) => Covered(i)'
      BY <1>1, Zenon DEF Covered
    <3> QED BY <3>2, <3>3, <3>4, <1>1, Zenon
  <2> QED BY <2>2, <2>3, Zenon
<1> QED BY <1>1, <1>2, <1>3, <1>6, <1>7, <1>8, <1>9, Zenon DEF QuicIInv

(* The flags are Booleans.                                                 *)
LEMMA FlagTypes ==
  FlagsOK <=>
    /\ ackedAny \in BOOLEAN /\ flushable \in BOOLEAN /\ shut \in BOOLEAN
    /\ stopped \in BOOLEAN /\ resetQueued \in BOOLEAN /\ sendGone \in BOOLEAN
    /\ wasReset \in BOOLEAN /\ draining \in BOOLEAN /\ almostFull \in BOOLEAN
    /\ stopQueued \in BOOLEAN /\ ended \in BOOLEAN /\ faults \in 0..MaxFaults
BY Zenon DEF FlagsOK

(* And stay so.                                                            *)
LEMMA FlagTypesNext ==
  FlagsOK' <=>
    /\ ackedAny' \in BOOLEAN /\ flushable' \in BOOLEAN /\ shut' \in BOOLEAN
    /\ stopped' \in BOOLEAN /\ resetQueued' \in BOOLEAN /\ sendGone' \in BOOLEAN
    /\ wasReset' \in BOOLEAN /\ draining' \in BOOLEAN /\ almostFull' \in BOOLEAN
    /\ stopQueued' \in BOOLEAN /\ ended' \in BOOLEAN /\ faults' \in 0..MaxFaults
BY Zenon DEF FlagsOK

(* One more fault is within the bound.                                     *)
LEMMA OneMoreFault ==
  \A n \in 0..MaxFaults : n < MaxFaults => n + 1 \in 0..MaxFaults
BY QuicAssumption, SMT

(* A write.                                                                *)
LEMMA StreamSendKeeps ==
  ASSUME QuicIInv, NEW n \in Nat, NEW fin \in BOOLEAN, StreamSend(n, fin)
  PROVE  QuicIInv'
<1>1. SendBufOK /\ WriterOK /\ RecvBufOK /\ CreditOK /\ FlagsOK /\ broken = FALSE
  BY Zenon DEF QuicIInv
<1>2. sendMax \in Nat
  BY <1>1, CreditTypes, Zenon
<1>3. /\ SendBufOK' /\ WriterOK' /\ SenderGrows
      /\ off' <= sendMax /\ off' = off + n /\ acked' = acked
      /\ pending' = pending \cup off..(off + n - 1)
  BY <1>1, <1>2, WriteIs, Zenon
<1>4. /\ UNCHANGED recvVars
      /\ UNCHANGED <<sendMax, ackedAny, shut, stopped, resetQueued, sendGone,
                     wire, out, got>>
      /\ ended' = (ended \/ (fin /\ ~shut))
      /\ Queue(n = 0)
      /\ faults' = faults \/ (faults < MaxFaults /\ faults' = faults + 1)
  BY Zenon DEF StreamSend
<1>5. FlagsOK'
  <2>1. UNCHANGED <<wasReset, draining, almostFull, stopQueued>>
    BY <1>4, Zenon DEF recvVars
  <2>2. flushable' \in BOOLEAN /\ ended' \in BOOLEAN
    BY <1>4 DEF Queue
  <2>3. faults' \in 0..MaxFaults
    BY <1>1, <1>4, OneMoreFault, Zenon DEF FlagsOK
  <2> QED BY <1>1, <1>4, <2>1, <2>2, <2>3, FlagTypes, FlagTypesNext, Zenon
<1>6. ASSUME NEW i \in 0..(off' - 1)
      PROVE  (i \in 0..(off - 1) /\ i \notin pending) \/ i \in pending'
  <2>1. off \in Nat
    BY <1>1, SendTypes, Zenon
  <2>2. i \in 0..(off - 1) \/ i \in off..(off + n - 1)
    BY <2>1, <1>3, SMT
  <2> QED BY <2>2, <1>3, Zenon
<1> QED BY <1>3, <1>4, <1>5, <1>6, SenderStep

(* A STREAM frame.                                                         *)
LEMMA SendStreamKeeps ==
  ASSUME QuicIInv, NEW k \in Nat, SendStream(k)
  PROVE  QuicIInv'
<1>1. SendBufOK /\ WriterOK /\ RecvBufOK /\ CreditOK /\ FlagsOK /\ broken = FALSE
  BY Zenon DEF QuicIInv
<1>2. /\ SendBufOK' /\ WriterOK' /\ SenderGrows
      /\ off' = off /\ acked' = acked
  BY <1>1, SendStreamIs, Zenon
<1>3. PICK f : /\ f.type = "stream" /\ FrameOK(f)'
               /\ out' = out \cup {f} /\ wire' = wire \cup {f}
               /\ \A i \in pending : i \in pending' \/ (f.from <= i /\ i < f.to)
  BY <1>1, SendStreamIs, Zenon
<1>4. /\ UNCHANGED recvVars
      /\ UNCHANGED <<sendMax, ackedAny, shut, stopped, resetQueued, sendGone, got,
                     faults, ended>>
      /\ flushable' = (pending' # {})
  BY Zenon DEF SendStream, Transmit, appVars
<1>5. FlagsOK'
  <2>1. UNCHANGED <<wasReset, draining, almostFull, stopQueued>>
    BY <1>4, Zenon DEF recvVars
  <2>2. flushable' \in BOOLEAN
    BY <1>4
  <2> QED BY <1>1, <1>4, <2>1, <2>2, FlagTypes, FlagTypesNext, Zenon
<1>6. off' <= sendMax
  BY <1>1, <1>2, CreditTypes, Zenon
<1>7. ASSUME NEW i \in 0..(off' - 1)
      PROVE  \/ i \in 0..(off - 1) /\ i \notin pending
             \/ i \in pending' \/ InFlight(i)'
  <2>1. f \in out'
    BY <1>3
  <2>2. CASE i \in pending
    BY <2>1, <2>2, <1>3, Zenon DEF InFlight
  <2> QED BY <2>2, <1>2
<1>8. /\ out \subseteq out'
      /\ \A g \in wire' \cup out' : g \in wire \cup out \/ FrameOK(g)'
  BY <1>3, Zenon
<1> QED BY <1>2, <1>4, <1>5, <1>6, <1>7, <1>8, SenderStep, Zenon

(* A stopped stream leaves the queue.                                      *)
LEMMA SkipStoppedKeeps ==
  ASSUME QuicIInv, SkipStopped
  PROVE  QuicIInv'
<1>1. SendBufOK /\ WriterOK /\ RecvBufOK /\ CreditOK /\ FlagsOK /\ broken = FALSE
  BY Zenon DEF QuicIInv
<1>2. /\ UNCHANGED <<recvVars, off, emitOff, finOff, sendMax, acked, ackedAny, base,
                     cuts, pending, shut, stopped, resetQueued, sendGone, written,
                     ended, wire, out, got, faults>>
      /\ flushable' = FALSE
  BY Zenon DEF SkipStopped, appVars, netVars
<1>3. FlagsOK'
  <2>1. UNCHANGED <<wasReset, draining, almostFull, stopQueued>>
    BY <1>2, Zenon DEF recvVars
  <2>2. flushable' \in BOOLEAN
    BY <1>2
  <2> QED BY <1>1, <1>2, <2>1, <2>2, FlagTypes, FlagTypesNext, Zenon
<1>4. (Abandoned' <=> Abandoned) /\ (AllSent' <=> AllSent)
  BY <1>2 DEF Abandoned, AllSent
<1>5. SendBufOK' /\ WriterOK'
  BY <1>1, <1>2, <1>4, Zenon DEF SendBufOK, WriterOK, Offsets
<1>6. off' <= sendMax
  BY <1>1, <1>2, CreditTypes, Zenon
<1>7. SenderGrows
  <2>1. emitOff \in Nat
    BY <1>1, SendTypes
  <2>2. emitOff <= emitOff'
    BY <2>1, <1>2
  <2> QED BY <2>2, <1>2, <1>4, Zenon DEF SenderGrows
<1>8. /\ acked' = acked /\ out \subseteq out' /\ wire' \cup out' = wire \cup out
      /\ \A i \in 0..(off' - 1) : (i \in 0..(off - 1) /\ i \notin pending) \/ i \in pending'
  BY <1>2, Zenon
<1> QED BY <1>2, <1>3, <1>5, <1>6, <1>7, <1>8, SenderStep, Zenon

(* The writer gives the stream up.                                         *)
LEMMA ShutdownWriteKeeps ==
  ASSUME QuicIInv, ShutdownWrite
  PROVE  QuicIInv'
<1>1. SendBufOK /\ WriterOK /\ RecvBufOK /\ CreditOK /\ FlagsOK /\ broken = FALSE
  BY Zenon DEF QuicIInv
<1>2. /\ ~sendGone /\ ResetSend /\ shut' = TRUE
      /\ UNCHANGED <<stopped, recvVars, written, ended, wire, out, got, faults>>
      /\ ackedAny' = TRUE /\ resetQueued' = TRUE
      /\ UNCHANGED <<sendMax, flushable, sendGone>>
  BY Zenon DEF ShutdownWrite, ResetSend, appVars, netVars
<1>3. Abandoned'
  BY <1>2 DEF Abandoned
<1>4. /\ SendBufOK' /\ WriterOK' /\ SenderGrows /\ off' <= off
  BY <1>1, <1>2, <1>3, ResetSendIs
<1>5. off' <= sendMax
  <2>1. off' \in Nat
    BY <1>4, QuicAssumption, SMT DEF SendBufOK, Offsets
  <2>2. off \in Nat /\ sendMax \in Nat /\ off <= sendMax
    BY <1>1, SendTypes, CreditTypes, Zenon
  <2> QED BY <2>1, <2>2, <1>4, SMT
<1>6. FlagsOK'
  <2>1. UNCHANGED <<wasReset, draining, almostFull, stopQueued>>
    BY <1>2, Zenon DEF recvVars
  <2>2. shut' \in BOOLEAN /\ ackedAny' \in BOOLEAN /\ resetQueued' \in BOOLEAN
    BY <1>2
  <2> QED BY <1>1, <1>2, <2>1, <2>2, FlagTypes, FlagTypesNext, Zenon
<1>7. out \subseteq out' /\ wire' \cup out' = wire \cup out
  BY <1>2, Zenon
<1> QED BY <1>2, <1>3, <1>4, <1>5, <1>6, <1>7, SenderStep, Zenon

(* A RESET_STREAM frame.                                                   *)
LEMMA SendResetKeeps ==
  ASSUME QuicIInv, SendReset
  PROVE  QuicIInv'
<1>1. SendBufOK /\ WriterOK /\ RecvBufOK /\ CreditOK /\ FlagsOK /\ broken = FALSE
  BY Zenon DEF QuicIInv
<1>2. /\ resetQueued /\ resetQueued' = FALSE
      /\ wire' = wire \cup {Reset(emitOff)} /\ out' = out \cup {Reset(emitOff)}
      /\ UNCHANGED <<off, emitOff, finOff, sendMax, acked, ackedAny, base, cuts,
                     pending, flushable, shut, stopped, sendGone, recvVars,
                     written, ended, got, faults>>
  BY Zenon DEF SendReset, Transmit, appVars
<1>3. (Abandoned' <=> Abandoned) /\ (AllSent' <=> AllSent)
  BY <1>2 DEF Abandoned, AllSent
<1>4. Abandoned /\ AllSent /\ emitOff = off
  BY <1>1, <1>2, Zenon DEF SendBufOK, AllSent
<1>5. SendBufOK' /\ WriterOK'
  BY <1>1, <1>2, <1>3, Zenon DEF SendBufOK, WriterOK, Offsets
<1>6. SenderGrows
  <2>1. emitOff \in Nat
    BY <1>1, SendTypes
  <2>2. emitOff <= emitOff'
    BY <2>1, <1>2
  <2> QED BY <2>2, <1>2, <1>3, Zenon DEF SenderGrows
<1>7. FlagsOK'
  <2>1. UNCHANGED <<wasReset, draining, almostFull, stopQueued>>
    BY <1>2, Zenon DEF recvVars
  <2>2. resetQueued' \in BOOLEAN
    BY <1>2
  <2> QED BY <1>1, <1>2, <2>1, <2>2, FlagTypes, FlagTypesNext, Zenon
<1>8. off' <= sendMax
  BY <1>1, <1>2, CreditTypes, Zenon
<1>9. \A f \in wire' \cup out' : f \in wire \cup out \/ FrameOK(f)'
  <2>1. ASSUME NEW f, f = Reset(emitOff) PROVE FrameOK(f)'
    BY <2>1, <1>2, <1>3, <1>4, Zenon DEF FrameOK
  <2> QED BY <2>1, <1>2, Zenon
<1>10. out \subseteq out' /\ (~Abandoned' => acked' = acked)
  BY <1>2, Zenon
<1> QED BY <1>2, <1>3, <1>4, <1>5, <1>6, <1>7, <1>8, <1>9, <1>10, SenderStep, Zenon

-----------------------------------------------------------------------------
(***************************************************************************)
(* The steps of the receiver.                                              *)
(***************************************************************************)

(* A step of the receiver leaves the invariant if it leaves RecvBuf and    *)
(* its flow control in order and loses nothing it received.                *)
LEMMA ReceiverStep ==
  ASSUME QuicIInv, UNCHANGED <<sendVars, appVars, got, broken>>,
         RecvBufOK', CreditOK', FlagsOK', ReceiverGrows, recvMax' \in Int,
         \A i \in Int : Received(i) => Received(i)',
         out \subseteq out',
         \A f \in wire' \cup out' : f \in wire \cup out \/ FrameOK(f)'
  PROVE  QuicIInv'
<1>1. /\ off' = off /\ acked' = acked /\ pending' = pending
      /\ shut' = shut /\ stopped' = stopped
  BY Zenon DEF sendVars
<1>2. /\ SendBufOK /\ FramesOK /\ NoByteForgotten /\ broken = FALSE
  BY Zenon DEF QuicIInv
<1>3. SendBufOK' /\ WriterOK' /\ SenderGrows
  BY SenderKeeps, Zenon
<1>4. got' \subseteq out'
  BY <1>2, Zenon DEF FramesOK
<1>5. FramesOK'
  BY <1>3, <1>4, FramesKeep
<1>6. ReceiptsOK'
  BY <1>1, <1>3, ReceiptsKeep, Zenon
<1>7. NoByteForgotten'
  <2>1. SUFFICES ASSUME ~shut, ~stopped, NEW i \in 0..(off - 1)
                 PROVE  \/ i \in pending' \/ InFlight(i)'
                        \/ i < readOff' \/ Covered(i)' \/ draining'
    BY <1>1, Zenon DEF NoByteForgotten
  <2>2. i \in pending \/ InFlight(i) \/ Received(i)
    BY <1>2, <2>1, Zenon DEF NoByteForgotten, Received
  <2>3. InFlight(i) => InFlight(i)'
    BY Zenon DEF InFlight
  <2>4. i \in Int
    BY <1>2, SendTypes, SMT
  <2>5. Received(i) => Received(i)'
    BY <2>4
  <2> QED BY <2>2, <2>3, <2>5, <1>1, Zenon DEF Received
<1> QED BY <1>2, <1>3, <1>5, <1>6, <1>7, Zenon DEF QuicIInv

(* A read.                                                                 *)
LEMMA StreamRecvKeeps ==
  ASSUME QuicIInv, NEW cap \in Nat, StreamRecv(cap)
  PROVE  QuicIInv'
<1>1. SendBufOK /\ RecvBufOK /\ CreditOK /\ FlagsOK /\ broken = FALSE
  BY Zenon DEF QuicIInv
<1>2. /\ RecvBufOK'
      /\ \A i \in Int : Received(i) => Received(i)'
  BY <1>1, RecvIs, Zenon
<1>3. /\ UNCHANGED <<sendVars, appVars, netVars>>
      /\ UNCHANGED <<recvLen, recvFin, wasReset, draining, recvMax, window,
                     stopQueued, broken>>
      /\ recvState = "open"
  BY Zenon DEF StreamRecv
<1>4. /\ UNCHANGED <<wire, out, got, faults, off, sendMax, ackedAny, flushable,
                     shut, stopped, resetQueued, sendGone, ended>>
  BY <1>3, Zenon DEF netVars, sendVars, appVars
<1>5. /\ consumed' \in Nat /\ consumed <= consumed'
      /\ almostFull' \in BOOLEAN
      /\ almostFull => almostFull'
      /\ AlmostFull(consumed)' => almostFull'
      /\ recvState' \in {"open", "gone"}
  <2>1. consumed \in Nat /\ (AlmostFull(consumed) => almostFull)
        /\ almostFull \in BOOLEAN
    BY <1>1, RecvTypes, Zenon DEF CreditOK, FlagsOK
  <2>2. CASE wasReset
    <3>1. UNCHANGED <<consumed, almostFull>> /\ recvState' \in {"open", "gone"}
      BY <2>2 DEF StreamRecv
    <3>2. AlmostFull(consumed)' <=> AlmostFull(consumed)
      BY <3>1, <1>3 DEF AlmostFull
    <3> QED BY <2>1, <3>1, <3>2
  <2>3. CASE ~wasReset
    <3>1. /\ consumed' = consumed + Readable(cap)
          /\ recvState' \in {"open", "gone"}
          /\ almostFull' = (almostFull \/ AlmostFull(consumed + Readable(cap)))
      BY <2>3 DEF StreamRecv, Take
    <3>2. Readable(cap) \in Nat
      BY <1>1, ReadableIs, Zenon
    <3>3. consumed' \in Nat /\ consumed <= consumed'
      BY <3>1, <3>2, <2>1, SMT
    <3>4. AlmostFull(consumed)' <=> AlmostFull(consumed + Readable(cap))
      BY <3>1, <1>3 DEF AlmostFull
    <3> QED BY <3>1, <3>3, <3>4
  <2> QED BY <2>2, <2>3
<1>6. CreditOK'
  <2>1. recvMax \in Window..(consumed' + window)
    <3>1. /\ window \in Nat /\ recvMax \in Nat /\ recvMax <= consumed + window
          /\ Window <= recvMax /\ Window \in Nat
      BY <1>1, CreditTypes, Zenon
    <3>2. consumed \in Nat
      BY <1>1, RecvTypes, Zenon
    <3> QED BY <3>1, <3>2, <1>5, LimitInWindow, Zenon
  <2>2. recvState # "gone"
    BY <1>3
  <2> QED BY <2>1, <2>2, <1>1, <1>3, <1>4, <1>5, Zenon DEF CreditOK
<1>7. FlagsOK'
  BY <1>1, <1>3, <1>4, <1>5, FlagTypes, FlagTypesNext, Zenon
<1>8. ReceiverGrows /\ recvMax' \in Int
  <2>1. recvMax \in Nat
    BY <1>1, CreditTypes, Zenon
  <2> QED BY <2>1, <1>3, <1>5 DEF ReceiverGrows
<1>9. out \subseteq out' /\ wire' \cup out' = wire \cup out
  BY <1>4, Zenon
<1> QED BY <1>2, <1>3, <1>4, <1>6, <1>7, <1>8, <1>9, ReceiverStep

(* The reader gives up.                                                    *)
LEMMA ShutdownReadKeeps ==
  ASSUME QuicIInv, ShutdownRead
  PROVE  QuicIInv'
<1>1. SendBufOK /\ RecvBufOK /\ CreditOK /\ FlagsOK /\ broken = FALSE
  BY Zenon DEF QuicIInv
<1>2. /\ RecvBufOK'
      /\ \A i \in Int : Received(i) => Received(i)'
  BY <1>1, ShutdownReadIs, Zenon
<1>3. /\ UNCHANGED <<sendVars, appVars, netVars>>
      /\ UNCHANGED <<recvLen, recvFin, wasReset, recvMax, window, consumed,
                     almostFull, recvState, seen, broken>>
      /\ draining' = TRUE /\ stopQueued' = (stopQueued \/ ~IsFin(recvLen))
  BY Zenon DEF ShutdownRead
<1>4. /\ UNCHANGED <<wire, out, got, faults, off, sendMax, ackedAny, flushable,
                     shut, stopped, resetQueued, sendGone, ended>>
  BY <1>3, Zenon DEF netVars, sendVars, appVars
<1>5. CreditOK'
  <2>1. AlmostFull(consumed)' <=> AlmostFull(consumed)
    BY <1>3 DEF AlmostFull
  <2> QED BY <2>1, <1>1, <1>3, <1>4, Zenon DEF CreditOK
<1>6. FlagsOK'
  <2>1. draining' \in BOOLEAN /\ stopQueued' \in BOOLEAN
    BY <1>3
  <2> QED BY <2>1, <1>1, <1>3, <1>4, FlagTypes, FlagTypesNext, Zenon
<1>7. ReceiverGrows /\ recvMax' \in Int
  <2>1. recvMax \in Nat
    BY <1>1, CreditTypes, Zenon
  <2> QED BY <2>1, <1>3 DEF ReceiverGrows
<1>8. out \subseteq out' /\ wire' \cup out' = wire \cup out
  BY <1>4, Zenon
<1> QED BY <1>2, <1>3, <1>4, <1>5, <1>6, <1>7, <1>8, ReceiverStep

(* RecvBuf is what it was when nothing of it moves.                        *)
LEMMA RecvBufKeeps ==
  ASSUME QuicIInv, UNCHANGED <<sendVars, appVars>>,
         UNCHANGED <<bufs, readOff, recvLen, recvFin, wasReset, draining, consumed,
                     recvState, seen>>,
         recvState = "absent" => ~almostFull'
  PROVE  RecvBufOK' /\ \A i \in Int : Received(i) => Received(i)'
<1>1. UNCHANGED <<off, emitOff>>
  BY Zenon DEF sendVars
<1>2. (Abandoned' <=> Abandoned) /\ (AllSent' <=> AllSent)
  BY SenderKeeps, Zenon
<1>3. RecvBufOK
  BY Zenon DEF QuicIInv
<1>4. RecvBufOK'
  BY <1>1, <1>2, <1>3, Zenon DEF RecvBufOK, Offsets
<1>5. \A i \in Int : Received(i) => Received(i)'
  BY Zenon DEF Received, Covered
<1> QED BY <1>4, <1>5

(* A STOP_SENDING frame.                                                   *)
LEMMA SendStopKeeps ==
  ASSUME QuicIInv, SendStop
  PROVE  QuicIInv'
<1>1. SendBufOK /\ RecvBufOK /\ CreditOK /\ FlagsOK /\ FramesOK /\ broken = FALSE
  BY Zenon DEF QuicIInv
<1>2. /\ UNCHANGED <<sendVars, appVars>>
      /\ UNCHANGED <<bufs, readOff, recvLen, recvFin, wasReset, draining, recvMax,
                     window, consumed, almostFull, recvState, seen, broken>>
      /\ wire' = wire \cup {StopSending} /\ out' = out \cup {StopSending}
      /\ UNCHANGED <<got, faults>> /\ stopQueued' = FALSE
  BY Zenon DEF SendStop, Transmit
<1>3. /\ UNCHANGED <<off, sendMax, ackedAny, flushable, shut, stopped, resetQueued,
                     sendGone, ended>>
  BY <1>2, Zenon DEF sendVars, appVars
<1>4. RecvBufOK' /\ \A i \in Int : Received(i) => Received(i)'
  BY <1>1, <1>2, RecvBufKeeps, Zenon DEF RecvBufOK
<1>5. CreditOK'
  <2>1. AlmostFull(consumed)' <=> AlmostFull(consumed)
    BY <1>2 DEF AlmostFull
  <2> QED BY <2>1, <1>1, <1>2, <1>3, Zenon DEF CreditOK
<1>6. FlagsOK'
  <2>1. stopQueued' \in BOOLEAN
    BY <1>2
  <2> QED BY <2>1, <1>1, <1>2, <1>3, FlagTypes, FlagTypesNext, Zenon
<1>7. ReceiverGrows /\ recvMax' \in Int
  <2>1. recvMax \in Nat
    BY <1>1, CreditTypes, Zenon
  <2> QED BY <2>1, <1>2 DEF ReceiverGrows
<1>8. /\ out \subseteq out'
      /\ \A f \in wire' \cup out' : f \in wire \cup out \/ FrameOK(f)'
  <2>1. ASSUME NEW f, f = StopSending PROVE FrameOK(f)'
    BY <2>1, Zenon DEF FrameOK, StopSending
  <2> QED BY <2>1, <1>2, Zenon
<1> QED BY <1>2, <1>4, <1>5, <1>6, <1>7, <1>8, ReceiverStep

(* A new limit.                                                            *)
LEMMA SendMaxStreamDataKeeps ==
  ASSUME QuicIInv, SendMaxStreamData
  PROVE  QuicIInv'
<1>1. SendBufOK /\ RecvBufOK /\ CreditOK /\ FlagsOK /\ FramesOK /\ broken = FALSE
  BY Zenon DEF QuicIInv
<1>2. /\ almostFull /\ almostFull' = FALSE
      /\ UNCHANGED <<bufs, readOff, recvLen, recvFin, wasReset, draining, consumed,
                     stopQueued, recvState, seen, broken>>
      /\ UNCHANGED <<sendVars, appVars>>
  BY Zenon DEF SendMaxStreamData
<1>3. /\ UNCHANGED <<off, sendMax, ackedAny, flushable, shut, stopped, resetQueued,
                     sendGone, ended>>
  BY <1>2, Zenon DEF sendVars, appVars
<1>4. /\ window \in Nat /\ recvMax \in Nat /\ sendMax \in Nat
      /\ Window <= window /\ window <= MaxWindow /\ 2 <= Window
      /\ recvMax <= consumed + window /\ Window <= recvMax
      /\ off <= sendMax /\ sendMax <= recvMax
      /\ Window \in Nat /\ MaxWindow \in Nat
  BY <1>1, CreditTypes, Zenon
<1>5. consumed \in Nat /\ off \in Nat
  BY <1>1, RecvTypes, SendTypes, Zenon
<1>6. recvState # "absent"
  BY <1>1, <1>2, Zenon DEF RecvBufOK
<1>7. RecvBufOK' /\ \A i \in Int : Received(i) => Received(i)'
  BY <1>2, <1>6, RecvBufKeeps, Zenon
<1>8. CASE recvState = "gone"
  <2>1. UNCHANGED <<window, recvMax, wire, out, got, faults>>
    BY <1>8, Zenon DEF SendMaxStreamData, netVars
  <2>2. CreditOK'
    <3>1. ~AlmostFull(consumed)
      <4>1. recvFin # Unknown
        BY <1>1, <1>5, <1>8, RecvTypes, SMT DEF RecvBufOK, Unknown
      <4> QED BY <4>1 DEF AlmostFull
    <3>2. AlmostFull(consumed)' <=> AlmostFull(consumed)
      BY <1>2, <2>1 DEF AlmostFull
    <3> QED BY <3>1, <3>2, <1>1, <1>2, <1>3, <1>8, <2>1, Zenon DEF CreditOK
  <2>3. FlagsOK'
    <3>1. almostFull' \in BOOLEAN
      BY <1>2
    <3> QED BY <3>1, <1>1, <1>2, <1>3, <2>1, FlagTypes, FlagTypesNext, Zenon
  <2>4. ReceiverGrows /\ recvMax' \in Int
    BY <1>2, <1>4, <2>1 DEF ReceiverGrows
  <2>5. out \subseteq out' /\ wire' \cup out' = wire \cup out
    BY <2>1, Zenon
  <2> QED BY <1>2, <1>7, <2>1, <2>2, <2>3, <2>4, <2>5, ReceiverStep
<1>9. CASE recvState # "gone"
  <2>1. /\ window' \in {window} \cup
             (IF AlmostFull(consumed) THEN {Min({2 * window, MaxWindow})} ELSE {})
        /\ recvMax' = consumed + window'
        /\ wire' = wire \cup {MaxStreamData(recvMax')}
        /\ out' = out \cup {MaxStreamData(recvMax')}
        /\ UNCHANGED <<got, faults>>
    BY <1>9, Zenon DEF SendMaxStreamData, Transmit
  <2>2. window' \in Nat /\ window <= window' /\ window' <= MaxWindow
    <3>1. window' = window \/ window' = Min({2 * window, MaxWindow})
      BY <2>1, Zenon
    <3>2. 2 * window \in Nat
      BY <1>4, SMT
    <3>3. Min({2 * window, MaxWindow}) =
            IF 2 * window <= MaxWindow THEN 2 * window ELSE MaxWindow
      BY <3>2, <1>4, MinOfTwo, Zenon
    <3> QED BY <3>1, <3>3, <1>4, SMT
  <2>3. /\ recvMax' \in Nat /\ recvMax <= recvMax'
        /\ recvMax' \in Window..(consumed + window')
        /\ recvMax' - consumed = window'
        /\ ~ (window' < window' \div 2)
    <3>1. Window <= window'
      BY <1>4, <2>2, SMT
    <3>2. ~ (window' < window' \div 2)
      BY <3>1, <1>4, <2>2, HalfIsLess, Zenon
    <3>3. /\ recvMax' \in Nat /\ recvMax <= recvMax'
          /\ recvMax' \in Window..(consumed + window')
          /\ recvMax' - consumed = window'
      <4>1. /\ Window \in Nat /\ recvMax \in Nat /\ window \in Nat
            /\ window' \in Nat /\ consumed \in Nat
            /\ recvMax' = consumed + window'
            /\ Window <= recvMax /\ recvMax <= consumed + window
            /\ window <= window'
        BY <1>4, <1>5, <2>1, <2>2, Zenon
      <4>2. PICK w, x : w = window' /\ x = recvMax'
        OBVIOUS
      <4>3. /\ w \in Nat /\ x = consumed + w /\ window <= w
        BY <4>1, <4>2
      <4>4. /\ x \in Nat /\ recvMax <= x /\ x \in Window..(consumed + w)
            /\ x - consumed = w
        BY <4>1, <4>3, SMT
      <4> QED BY <4>2, <4>4
    <3> QED BY <3>2, <3>3
  <2>4. CreditOK'
    <3>1. window' \in Window..MaxWindow /\ recvMax' \in Window..(consumed + window')
          /\ sendMax \in off..recvMax'
      <4>1. \A a, b, c \in Nat : a <= b /\ b <= c => b \in a..c
        BY SMT
      <4>2. \A a, b, c \in Nat : a <= b /\ b <= c => a <= c
        BY SMT
      <4> QED BY <4>1, <4>2, <1>4, <1>5, <2>2, <2>3, Zenon
    <3>2. ~AlmostFull(consumed)'
      BY <1>2, <2>3, Zenon DEF AlmostFull
    <3>3. MaxStreamData(recvMax') \in out'
      BY <2>1, Zenon
    <3>4. ASSUME NEW m \in Window..recvMax', MaxStreamData(m) \in got'
          PROVE  m <= sendMax \/ sendGone
      <4>1. FrameOK(MaxStreamData(m)) /\ MaxStreamData(m) \in got
        BY <3>4, <2>1, <1>1, Zenon DEF FramesOK
      <4>2. m \in Window..recvMax
        BY <4>1, FrameIs, FrameTypes
      <4> QED BY <4>1, <4>2, <1>1, Zenon DEF CreditOK
    <3> QED BY <3>1, <3>2, <3>3, <3>4, <1>2, <1>3, Zenon DEF CreditOK
  <2>5. FlagsOK'
    <3>1. almostFull' \in BOOLEAN
      BY <1>2
    <3> QED BY <3>1, <1>1, <1>2, <1>3, <2>1, FlagTypes, FlagTypesNext, Zenon
  <2>6. ReceiverGrows /\ recvMax' \in Int
    BY <1>2, <1>4, <2>3 DEF ReceiverGrows
  <2>7. \A f \in wire' \cup out' : f \in wire \cup out \/ FrameOK(f)'
    <3>1. recvMax' \in Window..recvMax'
      BY <1>4, <2>3, SMT
    <3>2. ASSUME NEW f, f = MaxStreamData(recvMax') PROVE FrameOK(f)'
      BY <3>1, <3>2, <1>2, <1>6, Zenon DEF FrameOK, MaxStreamData
    <3> QED BY <3>2, <2>1, Zenon
  <2>8. out \subseteq out'
    BY <2>1, Zenon
  <2> QED BY <1>2, <1>7, <2>1, <2>4, <2>5, <2>6, <2>7, <2>8, ReceiverStep
<1> QED BY <1>8, <1>9

-----------------------------------------------------------------------------
(***************************************************************************)
(* The network and loss detection.                                         *)
(***************************************************************************)

(* A frame of the sender arrives.                                          *)
LEMMA ArrivesAtReceiver ==
  ASSUME QuicIInv, NEW f \in wire, Deliver(f), FromSender(f)
  PROVE  QuicIInv'
<1>1. SendBufOK /\ RecvBufOK /\ CreditOK /\ FlagsOK /\ FramesOK /\ broken = FALSE
      /\ NoByteForgotten
  BY Zenon DEF QuicIInv
<1>2. /\ wire' = wire \ {f} /\ got' = got \cup ({f} \cap out)
      /\ ReceiverReceives(f)
      /\ UNCHANGED <<sendVars, appVars, out, faults>>
  BY Zenon DEF Deliver
<1>3. /\ UNCHANGED <<off, emitOff, finOff, acked, pending, sendMax, ackedAny,
                     flushable, shut, stopped, resetQueued, sendGone, ended>>
  BY <1>2, Zenon DEF sendVars, appVars
<1>4. FrameOK(f)
  BY <1>1, Zenon DEF FramesOK
<1>5. f.type \in {"stream", "reset"}
  BY DEF FromSender
<1>6. SendBufOK' /\ WriterOK' /\ SenderGrows
      /\ (Abandoned' <=> Abandoned) /\ (AllSent' <=> AllSent)
  BY <1>2, SenderKeeps, Zenon
<1>7. /\ off \in Nat /\ emitOff \in Nat /\ emitOff <= off /\ MaxBytes \in Nat
  BY <1>1, SendTypes, Zenon
<1>8. /\ recvMax \in Nat /\ sendMax \in Nat /\ off <= sendMax /\ sendMax <= recvMax
  BY <1>1, CreditTypes, Zenon
<1>9. /\ recvLen \in Nat /\ readOff \in Nat /\ readOff <= recvLen
      /\ recvLen <= emitOff
  BY <1>1, RecvTypes, Zenon
<1>10. /\ RecvBufOK' /\ broken' = FALSE
       /\ UNCHANGED <<draining, recvMax, window, consumed, almostFull, stopQueued>>
       /\ wasReset' \in BOOLEAN
       /\ recvState' # "absent" /\ (recvState' # "gone" => recvState # "gone")
       /\ AlmostFull(consumed)' => AlmostFull(consumed)
       /\ \A i \in Int : Received(i) => Received(i)'
       /\ f.type = "stream" => \A i \in f.from..(f.to - 1) : Received(i)'
  <2>1. CASE recvState = "gone"
    <3>1. UNCHANGED recvVars
      BY <1>2, <2>1, Zenon DEF ReceiverReceives
    <3>2. UNCHANGED <<bufs, readOff, recvLen, recvFin, wasReset, draining, recvMax,
                      window, consumed, almostFull, stopQueued, recvState, seen,
                      broken>>
      BY <3>1, Zenon DEF recvVars
    <3>3. RecvBufOK' /\ \A i \in Int : Received(i) => Received(i)'
      BY <1>6, <3>1, ReceiverKeeps, Zenon
    <3>4. AlmostFull(consumed)' => AlmostFull(consumed)
      BY <3>2 DEF AlmostFull
    <3>5. ASSUME f.type = "stream", NEW i \in f.from..(f.to - 1) PROVE Received(i)'
      <4>1. f.from \in Offsets /\ f.to \in Offsets /\ f.to <= emitOff
        BY <3>5, <1>4, FrameIs, Zenon
      <4>2. recvFin = readOff /\ recvFin \in {Unknown, off}
        BY <1>1, <2>1, Zenon DEF RecvBufOK
      <4>3. readOff = off
        BY <4>2, <1>9, SMT DEF Unknown
      <4>4. i < readOff
        BY <4>1, <4>3, <1>7, SMT DEF Offsets
      <4> QED BY <4>4, <3>2, Zenon DEF Received
    <3>6. wasReset' \in BOOLEAN
      BY <3>2, <1>1, FlagTypes, Zenon
    <3>7. recvState' # "absent" /\ recvState' = recvState
      BY <2>1, <3>2
    <3> QED BY <1>1, <3>2, <3>3, <3>4, <3>5, <3>6, <3>7, Zenon
  <2>2. CASE recvState # "gone" /\ f.type = "stream"
    <3>1. ReceiveStream(f)
      BY <1>2, <2>2, Zenon DEF ReceiverReceives
    <3>2. /\ f.from \in Offsets /\ f.to \in Offsets /\ f.fin \in BOOLEAN
          /\ f = Stream(f.from, f.to, f.fin)
          /\ f.from <= f.to /\ f.to <= emitOff
          /\ (f.fin => AllSent /\ f.to = off)
      BY <2>2, <1>4, FrameIs, Zenon
    <3>3. ~Unacceptable(f)
      <4>1. ~ (f.to > recvMax)
        BY <3>2, <1>7, <1>8, SMT DEF Offsets
      <4>2. ~ (recvFin # Unknown /\ (f.to > recvFin \/ (f.fin /\ f.to # recvFin)))
        <5>1. SUFFICES ASSUME recvFin # Unknown
                       PROVE  ~ (f.to > recvFin) /\ ~ (f.fin /\ f.to # recvFin)
          OBVIOUS
        <5>2. recvFin = off
          BY <5>1, <1>1, Zenon DEF RecvBufOK
        <5> QED BY <5>2, <3>2, <1>7, SMT DEF Offsets
      <4>3. ~ (f.fin /\ f.to < recvLen)
        BY <3>2, <1>7, <1>9, SMT
      <4> QED BY <4>1, <4>2, <4>3, Zenon DEF Unacceptable
    <3>4. /\ Insert(f) /\ recvState' = "open"
          /\ UNCHANGED <<wasReset, draining, recvMax, window, consumed, almostFull,
                         stopQueued, seen, broken>>
      BY <3>1, <3>3, Zenon DEF ReceiveStream
    <3>5. PICK from \in Offsets, to \in Offsets, fin \in BOOLEAN :
            /\ f = Stream(from, to, fin) /\ f.from = from /\ f.to = to /\ f.fin = fin
      BY <3>2, Zenon
    <3>6. /\ RecvBufOK'
          /\ \A i \in Int : Received(i) => Received(i)'
          /\ \A i \in from..(to - 1) : Received(i)'
      <4>1. /\ from <= to /\ to <= emitOff /\ (fin => AllSent /\ to = off)
            /\ Insert(Stream(from, to, fin))
        BY <3>2, <3>4, <3>5, Zenon
      <4> QED BY <4>1, <1>1, <1>3, <2>2, <3>4, InsertIs, Zenon
    <3>7. AlmostFull(consumed)' => AlmostFull(consumed)
      <4>1. recvFin' = Unknown => recvFin = Unknown
        <5>1. recvFin' = IF f.fin THEN f.to ELSE recvFin
          BY <3>4, Zenon DEF Insert
        <5>2. f.fin => f.to # Unknown
          BY <3>2, <1>7, SMT DEF Unknown
        <5> QED BY <5>1, <5>2, Zenon
      <4> QED BY <4>1, <3>4 DEF AlmostFull
    <3>8. wasReset' \in BOOLEAN
      BY <3>4, <1>1, FlagTypes, Zenon
    <3>9. recvState' # "absent"
      BY <3>4
    <3> QED BY <1>1, <2>2, <3>4, <3>5, <3>6, <3>7, <3>8, <3>9, Zenon
  <2>3. CASE recvState # "gone" /\ f.type # "stream"
    <3>1. f = Reset(off) /\ f.size = off /\ AllSent /\ Abandoned
      BY <2>3, <1>4, <1>5, FrameIs, Zenon
    <3>2. ReceiveReset(off)
      BY <1>2, <2>3, <3>1, Zenon DEF ReceiverReceives
    <3>3. ~ \/ recvFin # Unknown /\ recvFin # off
            \/ off < recvLen
            \/ ~wasReset /\ off > recvMax
      <4>1. ~ (recvFin # Unknown /\ recvFin # off)
        BY <1>1, Zenon DEF RecvBufOK
      <4>2. ~ (off < recvLen) /\ ~ (off > recvMax)
        BY <1>7, <1>8, <1>9, SMT
      <4> QED BY <4>1, <4>2
    <3>4. /\ recvState' = "open"
          /\ IF wasReset
             THEN UNCHANGED <<bufs, readOff, recvLen, recvFin, wasReset>>
             ELSE wasReset' = TRUE /\ recvFin' = off
          /\ UNCHANGED <<draining, recvMax, window, consumed, almostFull,
                         stopQueued, seen, broken>>
      BY <3>2, <3>3, Zenon DEF ReceiveReset
    <3>5. RecvBufOK' /\ \A i \in Int : Received(i) => Received(i)'
      BY <1>1, <1>3, <2>3, <3>1, <3>2, <3>4, ResetIs, Zenon
    <3>6. AlmostFull(consumed)' => AlmostFull(consumed)
      <4>1. CASE wasReset
        BY <4>1, <3>4 DEF AlmostFull
      <4>2. CASE ~wasReset
        <5>1. recvFin' # Unknown
          BY <4>2, <3>4, <1>7, SMT DEF Unknown
        <5> QED BY <5>1, Zenon DEF AlmostFull
      <4> QED BY <4>1, <4>2
    <3>7. wasReset' \in BOOLEAN
      <4>1. wasReset \in BOOLEAN
        BY <1>1, FlagTypes, Zenon
      <4> QED BY <4>1, <3>4
    <3>8. recvState' # "absent"
      BY <3>4
    <3> QED BY <1>1, <2>3, <3>4, <3>5, <3>6, <3>7, <3>8, Zenon
  <2> QED BY <2>1, <2>2, <2>3
<1>11. FlagsOK'
  BY <1>1, <1>2, <1>3, <1>10, FlagTypes, FlagTypesNext, Zenon
<1>12. got' \subseteq out'
  BY <1>1, <1>2, Zenon DEF FramesOK
<1>13. ReceiverGrows /\ recvMax' \in Int
  BY <1>8, <1>10 DEF ReceiverGrows
<1>14. FramesOK'
  <2>1. \A g \in wire' \cup out' : g \in wire \cup out
    BY <1>2, Zenon
  <2> QED BY <2>1, <1>6, <1>12, <1>13, FramesKeep, Zenon
<1>15. CreditOK'
  <2>1. off' \in Nat /\ off' <= sendMax
    BY <1>3, <1>7, <1>8
  <2>2. "stream" # "max" /\ "reset" # "max"
    OBVIOUS
  <2>3. \A g \in got' : g.type = "max" => g \in got
    BY <2>2, <1>2, <1>5, Zenon
  <2>4. \A g \in out : g.type = "max" => g \in out'
    BY <1>2, Zenon
  <2> QED BY <2>1, <2>3, <2>4, <1>3, <1>10, CreditKeeps, Zenon
<1>16. ReceiptsOK'
  <2>1. \A g \in got' : g \in got \/ g = f
    BY <1>2, Zenon
  <2>2. \A g \in got' : g \in got \/ (g.type = "stream" =>
                                        \A i \in g.from..(g.to - 1) : Received(i)')
    BY <2>1, <1>10, Zenon
  <2> QED BY <2>2, <1>3, <1>6, <1>10, ReceiptsKeep, Zenon
<1>17. NoByteForgotten'
  <2>1. SUFFICES ASSUME ~shut, ~stopped, NEW i \in 0..(off - 1)
                 PROVE  \/ i \in pending' \/ InFlight(i)'
                        \/ i < readOff' \/ Covered(i)' \/ draining'
    BY <1>3, Zenon DEF NoByteForgotten
  <2>2. i \in pending \/ InFlight(i) \/ Received(i)
    BY <1>1, <2>1, Zenon DEF NoByteForgotten, Received
  <2>3. InFlight(i) => InFlight(i)'
    BY <1>2, Zenon DEF InFlight
  <2>4. i \in Int
    BY <1>7, SMT
  <2>5. Received(i) => Received(i)'
    BY <2>4, <1>10
  <2> QED BY <2>2, <2>3, <2>5, <1>3, Zenon DEF Received
<1> QED BY <1>6, <1>10, <1>11, <1>14, <1>15, <1>16, <1>17, Zenon DEF QuicIInv

(* A frame of the receiver arrives.                                        *)
LEMMA ArrivesAtSender ==
  ASSUME QuicIInv, NEW f \in wire, Deliver(f), ~FromSender(f)
  PROVE  QuicIInv'
<1>1. SendBufOK /\ WriterOK /\ RecvBufOK /\ CreditOK /\ FlagsOK /\ FramesOK
      /\ NoByteForgotten /\ broken = FALSE
  BY Zenon DEF QuicIInv
<1>2. /\ wire' = wire \ {f} /\ got' = got \cup ({f} \cap out)
      /\ SenderReceives(f)
      /\ UNCHANGED <<recvVars, appVars, out, faults>>
  BY Zenon DEF Deliver
<1>3. /\ UNCHANGED <<bufs, readOff, recvLen, recvFin, wasReset, draining, recvMax,
                     window, consumed, almostFull, stopQueued, recvState, seen,
                     broken, written, ended>>
  BY <1>2, Zenon DEF recvVars, appVars
<1>4. FrameOK(f)
  BY <1>1, Zenon DEF FramesOK
<1>5. f.type \in {"max", "stop"} /\ "max" # "stop" /\ "max" # "stream"
      /\ "stop" # "stream"
  BY <1>4, FrameIs DEF FromSender
<1>6. /\ off \in Nat /\ emitOff \in Nat
  BY <1>1, SendTypes, Zenon
<1>7. /\ recvMax \in Nat /\ sendMax \in Nat /\ off <= sendMax /\ sendMax <= recvMax
      /\ Window \in Nat
  BY <1>1, CreditTypes, Zenon
<1>8. /\ SendBufOK' /\ WriterOK' /\ SenderGrows
      /\ off' <= off /\ sendMax' \in Nat /\ sendMax <= sendMax' /\ sendMax' <= recvMax
      /\ f.type = "max" => f.max <= sendMax' \/ sendGone'
      /\ f.type = "max" => f.max \in Window..recvMax /\ f = MaxStreamData(f.max)
      /\ sendGone' = sendGone
      /\ ackedAny' \in BOOLEAN /\ flushable' \in BOOLEAN /\ shut' \in BOOLEAN
      /\ stopped' \in BOOLEAN /\ resetQueued' \in BOOLEAN
      /\ ~Abandoned' => off' = off /\ acked' = acked /\ pending' = pending
  <2>1. f.type = "max" => f.max \in Window..recvMax /\ f = MaxStreamData(f.max)
    BY <1>4, FrameIs, Zenon
  <2>2. CASE UNCHANGED sendVars /\ (f.type = "max" => sendGone)
    <3>1. UNCHANGED <<off, emitOff, finOff, sendMax, acked, ackedAny, base, cuts,
                      pending, flushable, shut, stopped, resetQueued, sendGone>>
      BY <2>2, Zenon DEF sendVars
    <3>2. SendBufOK' /\ WriterOK' /\ SenderGrows
      BY <1>2, <2>2, SenderKeeps, Zenon
    <3>3. off' <= off /\ sendMax' \in Nat /\ sendMax <= sendMax' /\ sendMax' <= recvMax
      BY <3>1, <1>6, <1>7, SMT
    <3> QED BY <1>1, <2>1, <2>2, <3>1, <3>2, <3>3, FlagTypes, Zenon
  <2>3. CASE ~sendGone /\ f.type = "stop" /\ ~stopped
    <3>1. ResetSend /\ stopped' = TRUE /\ UNCHANGED shut
      BY <1>2, <1>5, <2>3, Zenon DEF SenderReceives, SenderStopped
    <3>2. Abandoned'
      BY <3>1 DEF Abandoned
    <3>3. SendBufOK' /\ WriterOK' /\ SenderGrows /\ off' <= off
      BY <1>1, <1>3, <2>3, <3>1, <3>2, ResetSendIs, Zenon
    <3>4. ackedAny' = TRUE /\ resetQueued' = TRUE
          /\ UNCHANGED <<sendMax, flushable, sendGone>>
      BY <3>1, Zenon DEF ResetSend
    <3>5. sendMax' \in Nat /\ sendMax <= sendMax' /\ sendMax' <= recvMax
      BY <3>4, <1>7, SMT
    <3>6. /\ ackedAny' \in BOOLEAN /\ flushable' \in BOOLEAN /\ shut' \in BOOLEAN
          /\ stopped' \in BOOLEAN /\ resetQueued' \in BOOLEAN
      <4>1. flushable \in BOOLEAN /\ shut \in BOOLEAN
        BY <1>1, FlagTypes, Zenon
      <4> QED BY <4>1, <3>1, <3>4
    <3> QED BY <1>5, <2>3, <3>2, <3>3, <3>4, <3>5, <3>6, Zenon
  <2>4. CASE ~sendGone /\ f.type = "max"
    <3>1. /\ sendMax' = Max({sendMax, f.max})
          /\ UNCHANGED <<off, emitOff, finOff, acked, ackedAny, base, cuts, pending,
                         flushable, shut, stopped, resetQueued, sendGone>>
      BY <1>2, <1>5, <2>4, Zenon DEF SenderReceives, SenderCredited
    <3>2. (Abandoned' <=> Abandoned) /\ (AllSent' <=> AllSent)
      BY <3>1 DEF Abandoned, AllSent
    <3>3. SendBufOK' /\ WriterOK'
      BY <1>1, <1>3, <3>1, <3>2, Zenon DEF SendBufOK, WriterOK, Offsets
    <3>4. SenderGrows
      <4>1. emitOff <= emitOff'
        BY <1>6, <3>1
      <4> QED BY <4>1, <3>1, <3>2, Zenon DEF SenderGrows
    <3>5. PICK m : m = f.max
      OBVIOUS
    <3>6. m \in Nat /\ m <= recvMax
      BY <2>1, <2>4, <3>5, <1>7, SMT
    <3>7. Max({sendMax, m}) = IF sendMax >= m THEN sendMax ELSE m
      <4>1. sendMax \in Int /\ m \in Int
        BY <1>7, <3>6, SMT
      <4> QED BY <4>1, MaxOfTwo, Zenon
    <3>8. PICK x : x = sendMax'
      OBVIOUS
    <3>9. x = IF sendMax >= m THEN sendMax ELSE m
      BY <3>1, <3>5, <3>7, <3>8, Zenon
    <3>10. x \in Nat /\ sendMax <= x /\ x <= recvMax /\ m <= x
      BY <3>6, <3>9, <1>7, SMT
    <3>11. off' <= off
      BY <3>1, <1>6
    <3>12. /\ sendMax' \in Nat /\ sendMax <= sendMax' /\ sendMax' <= recvMax
           /\ f.max <= sendMax'
      BY <3>5, <3>8, <3>10, Zenon
    <3> QED BY <1>1, <2>1, <3>1, <3>3, <3>4, <3>11, <3>12, FlagTypes, Zenon
  <2>5. \/ UNCHANGED sendVars /\ (f.type = "max" => sendGone)
        \/ ~sendGone /\ f.type = "stop" /\ ~stopped
        \/ ~sendGone /\ f.type = "max"
    BY <1>2, <1>5, Zenon DEF SenderReceives, SenderStopped
  <2> QED BY <2>2, <2>3, <2>4, <2>5, Zenon
<1>9. RecvBufOK' /\ ReceiverGrows /\ \A i \in Int : Received(i) => Received(i)'
  BY <1>2, <1>8, ReceiverKeeps, Zenon
<1>10. FlagsOK'
  BY <1>1, <1>2, <1>3, <1>8, FlagTypes, FlagTypesNext, Zenon
<1>11. FramesOK'
  <2>1. \A g \in wire' \cup out' : g \in wire \cup out
    BY <1>2, Zenon
  <2>2. got' \subseteq out'
    BY <1>1, <1>2, Zenon DEF FramesOK
  <2>3. recvMax' \in Int
    BY <1>3, <1>7
  <2> QED BY <2>1, <2>2, <2>3, <1>8, <1>9, FramesKeep, Zenon
<1>12. CreditOK'
  <2>1. /\ window \in Window..MaxWindow
        /\ recvMax \in Window..(consumed + window)
        /\ AlmostFull(consumed) => almostFull
        /\ (recvState # "gone" /\ ~sendGone /\ recvMax > sendMax =>
              almostFull \/ MaxStreamData(recvMax) \in out)
        /\ \A m \in Window..recvMax : MaxStreamData(m) \in got => m <= sendMax \/ sendGone
    BY <1>1, Zenon DEF CreditOK
  <2>2. PICK o, s : o = off' /\ s = sendMax'
    OBVIOUS
  <2>3. o \in Nat
    BY <1>8, <2>2, QuicAssumption, SMT DEF SendBufOK, Offsets
  <2>4. o <= off /\ s \in Nat /\ sendMax <= s /\ s <= recvMax
    BY <1>8, <2>2, Zenon
  <2>5. s \in o..recvMax /\ (recvMax > s => recvMax > sendMax)
        /\ \A m \in Window..recvMax : m <= sendMax => m <= s
    BY <2>3, <2>4, <1>6, <1>7, SMT
  <2>6. AlmostFull(consumed)' => almostFull'
    BY <2>1, <1>3 DEF AlmostFull
  <2>7. \A m \in Window..recvMax : MaxStreamData(m) \in got' => m <= s \/ sendGone'
    <3>1. SUFFICES ASSUME NEW m \in Window..recvMax, MaxStreamData(m) \in got'
                   PROVE  m <= s \/ sendGone'
      BY Zenon
    <3>2. CASE MaxStreamData(m) \in got
      BY <3>2, <2>1, <2>5, <1>8, Zenon
    <3>3. CASE MaxStreamData(m) = f
      BY <3>3, <2>2, <1>8, FrameTypes, Zenon
    <3> QED BY <3>1, <3>2, <3>3, <1>2, Zenon
  <2>8. recvState # "gone" /\ ~sendGone' /\ recvMax > s =>
          almostFull \/ MaxStreamData(recvMax) \in out
    BY <2>1, <2>5, <1>8, Zenon
  <2> QED BY <2>1, <2>2, <2>5, <2>6, <2>7, <2>8, <1>2, <1>3, Zenon DEF CreditOK
<1>13. ReceiptsOK'
  <2>1. \A g \in got' : g \in got \/ g = f
    BY <1>2, Zenon
  <2>2. \A g \in got' : g \in got \/ (g.type = "stream" =>
                                        \A i \in g.from..(g.to - 1) : Received(i)')
    BY <2>1, <1>5, Zenon
  <2> QED BY <2>2, <1>8, <1>9, ReceiptsKeep, Zenon
<1>14. NoByteForgotten'
  <2>1. SUFFICES ASSUME ~shut', ~stopped', NEW i \in 0..(off' - 1)
                 PROVE  \/ i \in pending' \/ InFlight(i)'
                        \/ i < readOff' \/ Covered(i)' \/ draining'
    BY Zenon DEF NoByteForgotten
  <2>2. ~Abandoned'
    BY <2>1 DEF Abandoned
  <2>3. ~shut /\ ~stopped
    BY <2>2, <1>8, Zenon DEF SenderGrows, Abandoned
  <2>4. i \in 0..(off - 1) /\ pending' = pending
    BY <2>1, <2>2, <1>8, Zenon
  <2>5. i \in pending \/ InFlight(i) \/ i < readOff \/ Covered(i) \/ draining
    BY <1>1, <2>3, <2>4, Zenon DEF NoByteForgotten
  <2>6. InFlight(i) => InFlight(i)'
    BY <1>2, Zenon DEF InFlight
  <2>7. Covered(i) => Covered(i)'
    BY <1>3, Zenon DEF Covered
  <2> QED BY <2>4, <2>5, <2>6, <2>7, <1>3, Zenon
<1> QED BY <1>1, <1>3, <1>8, <1>9, <1>10, <1>11, <1>12, <1>13, <1>14, Zenon DEF QuicIInv

(* A frame is dropped.                                                     *)
LEMMA DropKeeps ==
  ASSUME QuicIInv, NEW f \in wire, Drop(f)
  PROVE  QuicIInv'
<1>1. SendBufOK /\ RecvBufOK /\ CreditOK /\ FlagsOK
  BY Zenon DEF QuicIInv
<1>2. /\ wire' = wire \ {f} /\ faults < MaxFaults /\ faults' = faults + 1
      /\ UNCHANGED <<sendVars, recvVars, appVars, out, got>>
  BY Zenon DEF Drop
<1>3. UNCHANGED <<off, acked, pending, sendMax, ackedAny, flushable, shut, stopped,
                  resetQueued, sendGone, ended, wasReset, draining, almostFull,
                  stopQueued>>
  BY <1>2, Zenon DEF sendVars, recvVars, appVars
<1>4. FlagsOK'
  BY <1>1, <1>2, <1>3, OneMoreFault, FlagTypes, FlagTypesNext, Zenon
<1>5. SendBufOK' /\ WriterOK' /\ SenderGrows
  BY <1>2, SenderKeeps, Zenon
<1>6. off' <= sendMax
  BY <1>1, <1>3, CreditTypes, Zenon
<1>7. /\ out \subseteq out' /\ \A g \in wire' \cup out' : g \in wire \cup out
      /\ \A i \in 0..(off' - 1) : (i \in 0..(off - 1) /\ i \notin pending) \/ i \in pending'
  BY <1>2, <1>3, Zenon
<1> QED BY <1>2, <1>3, <1>4, <1>5, <1>6, <1>7, SenderStep, Zenon

(* A frame of the sender is acknowledged.                                  *)
LEMMA AckToSender ==
  ASSUME QuicIInv, NEW f \in out, Acknowledge(f), FromSender(f)
  PROVE  QuicIInv'
<1>1. SendBufOK /\ WriterOK /\ RecvBufOK /\ CreditOK /\ FlagsOK /\ FramesOK
      /\ ReceiptsOK /\ NoByteForgotten /\ broken = FALSE
  BY Zenon DEF QuicIInv
<1>2. /\ f \in got /\ out' = out \ {f} /\ got' = got \ {f}
      /\ SenderAcked(f)
      /\ UNCHANGED <<recvVars, appVars, wire, faults>>
  BY Zenon DEF Acknowledge
<1>3. /\ UNCHANGED <<bufs, readOff, recvLen, recvFin, wasReset, draining, recvMax,
                     window, consumed, almostFull, stopQueued, recvState, seen,
                     broken, written, ended>>
  BY <1>2, Zenon DEF recvVars, appVars
<1>4. FrameOK(f)
  BY <1>1, Zenon DEF FramesOK
<1>5. /\ SendBufOK' /\ WriterOK' /\ SenderGrows
      /\ off' = off /\ finOff' = finOff /\ shut' = shut /\ stopped' = stopped
      /\ (sendGone => sendGone') /\ sendGone' \in BOOLEAN
      /\ f.type \in {"stream", "reset"}
      /\ \A i \in acked' : \/ i \in acked
                           \/ f.type = "stream" /\ i \in f.from..(f.to - 1)
      /\ \A i \in pending : i \in pending' \/ i \in acked'
  <2>1. sendGone \in BOOLEAN
    BY <1>1, FlagTypes, Zenon
  <2> QED BY <2>1, <1>1, <1>2, <1>3, <1>4, AckedIs, Zenon
<1>6. /\ UNCHANGED <<sendMax, resetQueued>>
      /\ ackedAny' \in BOOLEAN /\ flushable' \in BOOLEAN
  <2>1. ackedAny \in BOOLEAN /\ flushable \in BOOLEAN
    BY <1>1, FlagTypes, Zenon
  <2>2. UNCHANGED <<sendMax, resetQueued>>
    BY <1>2, Zenon DEF SenderAcked
  <2>3. CASE sendGone
    <3>1. UNCHANGED <<ackedAny, flushable>>
      BY <2>3, <1>2, Zenon DEF SenderAcked
    <3> QED BY <3>1, <2>1, <2>2
  <2>4. CASE ~sendGone /\ f.type = "stream"
    <3>1. AckStream(f)
      BY <2>4, <1>2, Zenon DEF SenderAcked
    <3>2. ackedAny' = TRUE /\ flushable' = (flushable /\ ~sendGone')
      BY <3>1, Zenon DEF AckStream, Collect
    <3> QED BY <3>2, <2>2
  <2>5. CASE ~sendGone /\ f.type # "stream"
    <3>1. Collect(acked, ackedAny) /\ UNCHANGED ackedAny
      BY <2>5, <1>2, Zenon DEF SenderAcked
    <3>2. flushable' = (flushable /\ ~sendGone')
      BY <3>1, Zenon DEF Collect
    <3> QED BY <3>1, <3>2, <2>1, <2>2
  <2> QED BY <2>3, <2>4, <2>5
<1>7. RecvBufOK' /\ ReceiverGrows /\ \A i \in Int : Received(i) => Received(i)'
  BY <1>2, <1>5, ReceiverKeeps, Zenon
<1>8. FlagsOK'
  BY <1>1, <1>2, <1>3, <1>5, <1>6, FlagTypes, FlagTypesNext, Zenon
<1>9. FramesOK'
  <2>1. \A g \in wire' \cup out' : g \in wire \cup out
    BY <1>2, Zenon
  <2>2. got' \subseteq out'
    BY <1>1, <1>2, Zenon DEF FramesOK
  <2>3. recvMax \in Nat
    BY <1>1, CreditTypes, Zenon
  <2>4. recvMax' \in Int
    BY <2>3, <1>3
  <2> QED BY <2>1, <2>2, <2>4, <1>5, <1>7, FramesKeep, Zenon
<1>10. \A i \in f.from..(f.to - 1) : f.type = "stream" => Received(i)'
  <2>1. ASSUME f.type = "stream", NEW i \in f.from..(f.to - 1) PROVE Received(i)'
    <3>1. Received(i)
      BY <2>1, <1>1, <1>2, Zenon DEF ReceiptsOK
    <3> QED BY <3>1, <1>3, Zenon DEF Received, Covered
  <2> QED BY <2>1
<1>11. CreditOK'
  <2>1. off \in Nat /\ off <= sendMax
    BY <1>1, SendTypes, CreditTypes, Zenon
  <2>2. off' \in Nat /\ off' <= sendMax
    BY <2>1, <1>5
  <2>3. AlmostFull(consumed)' => AlmostFull(consumed)
    BY <1>3 DEF AlmostFull
  <2>4. "stream" # "max" /\ "reset" # "max"
    OBVIOUS
  <2>5. \A g \in out : g.type = "max" => g \in out'
    BY <2>4, <1>2, <1>5, Zenon
  <2>6. \A g \in got' : g.type = "max" => g \in got
    BY <1>2, Zenon
  <2> QED BY <2>2, <2>3, <2>5, <2>6, <1>3, <1>5, <1>6, CreditKeeps, Zenon
<1>12. ReceiptsOK'
  <2>1. \A g \in got' : g \in got
    BY <1>2, Zenon
  <2>2. \A i \in acked' : i \in acked \/ Received(i)'
    BY <1>5, <1>10, Zenon
  <2> QED BY <2>1, <2>2, <1>5, <1>7, ReceiptsKeep, Zenon
<1>13. NoByteForgotten'
  <2>1. SUFFICES ASSUME ~shut, ~stopped, NEW i \in 0..(off - 1)
                 PROVE  i \in pending' \/ InFlight(i)' \/ Received(i)'
    BY <1>5, Zenon DEF NoByteForgotten, Received
  <2>2. i \in pending \/ InFlight(i) \/ Received(i)
    BY <1>1, <2>1, Zenon DEF NoByteForgotten, Received
  <2>3. CASE i \in pending
    <3>1. i \in pending' \/ i \in acked'
      BY <2>3, <1>5, Zenon
    <3>2. ~Abandoned'
      BY <2>1, <1>5 DEF Abandoned
    <3> QED BY <3>1, <3>2, <1>12, Zenon DEF ReceiptsOK
  <2>4. CASE InFlight(i)
    <3>1. PICK g \in out : g.type = "stream" /\ g.from <= i /\ i < g.to
      BY <2>4 DEF InFlight
    <3>2. CASE g = f
      <4>1. f.from \in Offsets /\ f.to \in Offsets
        BY <3>1, <3>2, <1>4, FrameIs, Zenon
      <4>2. i \in f.from..(f.to - 1)
        BY <4>1, <3>1, <3>2, <1>1, SendTypes, SMT DEF Offsets
      <4> QED BY <4>2, <3>1, <3>2, <1>10, Zenon
    <3>3. CASE g # f
      BY <3>1, <3>3, <1>2, Zenon DEF InFlight
    <3> QED BY <3>2, <3>3
  <2>5. CASE Received(i)
    BY <2>5, <1>3, Zenon DEF Received, Covered
  <2> QED BY <2>2, <2>3, <2>4, <2>5
<1> QED BY <1>1, <1>3, <1>5, <1>7, <1>8, <1>9, <1>11, <1>12, <1>13, Zenon DEF QuicIInv

(* A loss of a frame of the sender, real or not, or its repetition by a    *)
(* probe.                                                                  *)
LEMMA LossAtSender ==
  ASSUME QuicIInv, NEW f \in out, FromSender(f), SenderLoses(f),
         UNCHANGED <<recvVars, appVars, wire>>,
         \/ out' = out \ {f} /\ got' = got \ {f}
         \/ UNCHANGED <<out, got>>,
         \/ faults' = faults
         \/ faults < MaxFaults /\ faults' = faults + 1
  PROVE  QuicIInv'
<1>1. SendBufOK /\ WriterOK /\ RecvBufOK /\ CreditOK /\ FlagsOK /\ FramesOK
      /\ ReceiptsOK /\ NoByteForgotten /\ broken = FALSE
  BY Zenon DEF QuicIInv
<1>2. \A g \in out : g \in out' \/ g = f
  BY Zenon
<1>3. /\ UNCHANGED <<bufs, readOff, recvLen, recvFin, wasReset, draining, recvMax,
                     window, consumed, almostFull, stopQueued, recvState, seen,
                     broken, written, ended>>
  BY Zenon DEF recvVars, appVars
<1>4. FrameOK(f)
  BY <1>1, Zenon DEF FramesOK
<1>5. /\ SendBufOK' /\ WriterOK' /\ SenderGrows
      /\ off' = off /\ finOff' = finOff /\ shut' = shut /\ stopped' = stopped
      /\ acked' = acked /\ sendGone' = sendGone
      /\ flushable' \in BOOLEAN /\ resetQueued' \in BOOLEAN
      /\ f.type \in {"stream", "reset"}
      /\ pending \subseteq pending'
      /\ f.type = "stream" /\ ~Abandoned =>
           \A i \in f.from..(f.to - 1) : i \in pending' \/ i \in acked
  <2>1. {flushable, resetQueued} \subseteq BOOLEAN
    BY <1>1, FlagTypes, Zenon
  <2>2. \A x, y : {x, y} \subseteq BOOLEAN => x \in BOOLEAN /\ y \in BOOLEAN
    BY Zenon
  <2> QED BY <2>1, <2>2, <1>1, <1>3, <1>4, LostIs, Zenon
<1>6. UNCHANGED <<ackedAny, sendMax>>
  BY Zenon DEF SenderLoses
<1>7. RecvBufOK' /\ ReceiverGrows /\ \A i \in Int : Received(i) => Received(i)'
  BY <1>5, ReceiverKeeps, Zenon
<1>8. FlagsOK'
  BY <1>1, <1>3, <1>5, <1>6, OneMoreFault, FlagTypes, FlagTypesNext, Zenon
<1>9. FramesOK'
  <2>1. \A g \in wire' \cup out' : g \in wire \cup out
    BY Zenon
  <2>2. got' \subseteq out'
    BY <1>1, Zenon DEF FramesOK
  <2>3. recvMax \in Nat
    BY <1>1, CreditTypes, Zenon
  <2>4. recvMax' \in Int
    BY <2>3, <1>3
  <2> QED BY <2>1, <2>2, <2>4, <1>5, <1>7, FramesKeep, Zenon
<1>10. CreditOK'
  <2>1. off \in Nat /\ off <= sendMax
    BY <1>1, SendTypes, CreditTypes, Zenon
  <2>2. off' \in Nat /\ off' <= sendMax
    BY <2>1, <1>5
  <2>3. AlmostFull(consumed)' => AlmostFull(consumed)
    BY <1>3 DEF AlmostFull
  <2>4. "stream" # "max" /\ "reset" # "max"
    OBVIOUS
  <2>5. \A g \in out : g.type = "max" => g \in out'
    BY <2>4, <1>2, <1>5, Zenon
  <2>6. \A g \in got' : g.type = "max" => g \in got
    BY Zenon
  <2> QED BY <2>2, <2>3, <2>5, <2>6, <1>3, <1>5, <1>6, CreditKeeps, Zenon
<1>11. ReceiptsOK'
  <2>1. \A g \in got' : g \in got
    BY Zenon
  <2> QED BY <2>1, <1>5, <1>7, ReceiptsKeep, Zenon
<1>12. NoByteForgotten'
  <2>1. SUFFICES ASSUME ~shut, ~stopped, NEW i \in 0..(off - 1)
                 PROVE  i \in pending' \/ InFlight(i)' \/ Received(i)'
    BY <1>5, Zenon DEF NoByteForgotten, Received
  <2>2. i \in pending \/ InFlight(i) \/ Received(i)
    BY <1>1, <2>1, Zenon DEF NoByteForgotten, Received
  <2>3. ~Abandoned /\ ~Abandoned'
    BY <2>1, <1>5 DEF Abandoned
  <2>4. CASE i \in pending
    BY <2>4, <1>5, Zenon
  <2>5. CASE InFlight(i)
    <3>1. PICK g \in out : g.type = "stream" /\ g.from <= i /\ i < g.to
      BY <2>5 DEF InFlight
    <3>2. CASE g = f
      <4>1. f.from \in Offsets /\ f.to \in Offsets
        BY <3>1, <3>2, <1>4, FrameIs, Zenon
      <4>2. i \in f.from..(f.to - 1)
        BY <4>1, <3>1, <3>2, <1>1, SendTypes, SMT DEF Offsets
      <4>3. i \in pending' \/ i \in acked'
        BY <4>2, <3>1, <3>2, <2>3, <1>5, Zenon
      <4> QED BY <4>3, <2>3, <1>11, Zenon DEF ReceiptsOK
    <3>3. CASE g # f
      BY <3>1, <3>3, <1>2, Zenon DEF InFlight
    <3> QED BY <3>2, <3>3
  <2>6. CASE Received(i)
    BY <2>6, <1>3, Zenon DEF Received, Covered
  <2> QED BY <2>2, <2>4, <2>5, <2>6
<1> QED BY <1>1, <1>3, <1>5, <1>7, <1>8, <1>9, <1>10, <1>11, <1>12, Zenon DEF QuicIInv

(* A frame of the receiver is acknowledged or lost.                        *)
LEMMA SettledAtReceiver ==
  ASSUME QuicIInv, NEW f \in out, ~FromSender(f),
         out' = out \ {f}, got' = got \ {f},
         UNCHANGED <<sendVars, appVars, wire>>,
         \/ faults' = faults
         \/ faults < MaxFaults /\ faults' = faults + 1,
         \/ f \in got /\ UNCHANGED recvVars
         \/ ReceiverLoses(f)
  PROVE  QuicIInv'
<1>1. SendBufOK /\ RecvBufOK /\ CreditOK /\ FlagsOK /\ FramesOK
      /\ NoByteForgotten /\ broken = FALSE
  BY Zenon DEF QuicIInv
<1>2. UNCHANGED <<off, emitOff, finOff, acked, pending, sendMax, ackedAny, flushable,
                  shut, stopped, resetQueued, sendGone, ended>>
  BY Zenon DEF sendVars, appVars
<1>3. FrameOK(f)
  BY <1>1, Zenon DEF FramesOK
<1>4. f.type \in {"max", "stop"} /\ "max" # "stop" /\ "max" # "stream"
      /\ "stop" # "stream"
  BY <1>3, FrameIs DEF FromSender
<1>5. /\ UNCHANGED <<bufs, readOff, recvLen, recvFin, wasReset, draining, recvMax,
                     window, consumed, recvState, seen, broken>>
      /\ almostFull' \in BOOLEAN /\ stopQueued' \in BOOLEAN
      /\ almostFull => almostFull'
      /\ recvState = "absent" => ~almostFull'
      /\ f.type = "max" => f \in got \/ recvState = "gone" \/ almostFull'
  <2>1. almostFull \in BOOLEAN /\ stopQueued \in BOOLEAN
    BY <1>1, FlagTypes, Zenon
  <2>2. recvState = "absent" => ~almostFull
    BY <1>1, Zenon DEF RecvBufOK
  <2>3. CASE f \in got /\ UNCHANGED recvVars
    <3>1. UNCHANGED <<bufs, readOff, recvLen, recvFin, wasReset, draining, recvMax,
                      window, consumed, almostFull, stopQueued, recvState, seen,
                      broken>>
      BY <2>3, Zenon DEF recvVars
    <3> QED BY <2>1, <2>2, <2>3, <3>1, Zenon
  <2>4. CASE ReceiverLoses(f)
    <3>1. UNCHANGED <<bufs, readOff, recvLen, recvFin, wasReset, draining, recvMax,
                      window, consumed, recvState, seen, broken>>
      BY <2>4, Zenon DEF ReceiverLoses
    <3>2. CASE f.type = "max"
      <4>1. almostFull' = (almostFull \/ recvState = "open") /\ UNCHANGED stopQueued
        BY <2>4, <3>2, Zenon DEF ReceiverLoses
      <4>2. recvState # "absent" /\ recvState \in {"absent", "open", "gone"}
        BY <3>2, <1>1, <1>3, FrameIs, Zenon DEF RecvBufOK
      <4> QED BY <2>1, <3>1, <4>1, <4>2
    <3>3. CASE f.type # "max"
      <4>1. /\ stopQueued' = (stopQueued \/ (recvState = "open" /\ ~IsFin(readOff)))
            /\ UNCHANGED almostFull
        BY <2>4, <3>3, Zenon DEF ReceiverLoses
      <4>2. stopQueued' \in BOOLEAN
        BY <4>1
      <4> QED BY <2>1, <2>2, <3>1, <3>3, <4>1, <4>2, Zenon
    <3> QED BY <3>2, <3>3
  <2> QED BY <2>3, <2>4
<1>6. RecvBufOK' /\ \A i \in Int : Received(i) => Received(i)'
  BY <1>5, RecvBufKeeps, Zenon
<1>7. SendBufOK' /\ WriterOK' /\ SenderGrows
  BY SenderKeeps, Zenon
<1>8. ReceiverGrows /\ recvMax' \in Int
  <2>1. recvMax \in Nat
    BY <1>1, CreditTypes, Zenon
  <2> QED BY <2>1, <1>5 DEF ReceiverGrows
<1>9. FlagsOK'
  BY <1>1, <1>2, <1>5, OneMoreFault, FlagTypes, FlagTypesNext, Zenon
<1>10. FramesOK'
  <2>1. \A g \in wire' \cup out' : g \in wire \cup out
    BY Zenon
  <2>2. got' \subseteq out'
    BY <1>1, Zenon DEF FramesOK
  <2> QED BY <2>1, <2>2, <1>7, <1>8, FramesKeep, Zenon
<1>11. CreditOK'
  <2>1. /\ window \in Window..MaxWindow
        /\ recvMax \in Window..(consumed + window)
        /\ sendMax \in off..recvMax
        /\ AlmostFull(consumed) => almostFull
        /\ (recvState # "gone" /\ ~sendGone /\ recvMax > sendMax =>
              almostFull \/ MaxStreamData(recvMax) \in out)
        /\ \A m \in Window..recvMax : MaxStreamData(m) \in got => m <= sendMax \/ sendGone
    BY <1>1, Zenon DEF CreditOK
  <2>2. AlmostFull(consumed)' => almostFull'
    BY <2>1, <1>5 DEF AlmostFull
  <2>3. ASSUME recvState # "gone", ~sendGone, recvMax > sendMax
        PROVE  almostFull' \/ MaxStreamData(recvMax) \in out'
    <3>1. CASE almostFull
      BY <3>1, <1>5
    <3>2. CASE MaxStreamData(recvMax) \in out /\ MaxStreamData(recvMax) # f
      BY <3>2
    <3>3. CASE MaxStreamData(recvMax) = f
      <4>1. f.type = "max"
        BY <3>3, FrameTypes, Zenon
      <4>2. f \notin got
        <5>1. /\ recvMax \in Nat /\ sendMax \in Nat /\ Window \in Nat
              /\ Window <= recvMax
          BY <1>1, CreditTypes, Zenon
        <5>2. recvMax \in Window..recvMax /\ ~ (recvMax <= sendMax)
          BY <5>1, <2>3, SMT
        <5> QED BY <5>2, <2>1, <2>3, <3>3, Zenon
      <4> QED BY <4>1, <4>2, <1>5, <2>3, Zenon
    <3> QED BY <2>1, <2>3, <3>1, <3>2, <3>3, Zenon
  <2>4. \A m \in Window..recvMax : MaxStreamData(m) \in got' => m <= sendMax \/ sendGone
    BY <2>1, Zenon
  <2> QED BY <2>1, <2>2, <2>3, <2>4, <1>2, <1>5, Zenon DEF CreditOK
<1>12. ReceiptsOK'
  <2>1. \A g \in got' : g \in got
    BY Zenon
  <2> QED BY <2>1, <1>2, <1>6, <1>7, ReceiptsKeep, Zenon
<1>13. NoByteForgotten'
  <2>1. SUFFICES ASSUME ~shut, ~stopped, NEW i \in 0..(off - 1)
                 PROVE  i \in pending' \/ InFlight(i)' \/ Received(i)'
    BY <1>2, Zenon DEF NoByteForgotten, Received
  <2>2. i \in pending \/ InFlight(i) \/ Received(i)
    BY <1>1, <2>1, Zenon DEF NoByteForgotten, Received
  <2>3. InFlight(i) => InFlight(i)'
    BY <1>4, Zenon DEF InFlight
  <2>4. Received(i) => Received(i)'
    BY <1>5, Zenon DEF Received, Covered
  <2> QED BY <2>2, <2>3, <2>4, <1>2, Zenon
<1> QED BY <1>1, <1>5, <1>6, <1>7, <1>9, <1>10, <1>11, <1>12, <1>13, Zenon DEF QuicIInv

(* An acknowledgement arrives.                                             *)
LEMMA AcknowledgeKeeps ==
  ASSUME QuicIInv, NEW f \in out, Acknowledge(f)
  PROVE  QuicIInv'
<1>1. CASE FromSender(f)
  BY <1>1, AckToSender, Zenon
<1>2. CASE ~FromSender(f)
  <2>1. /\ f \in got /\ out' = out \ {f} /\ got' = got \ {f}
        /\ UNCHANGED <<sendVars, recvVars, appVars, wire, faults>>
    BY <1>2, Zenon DEF Acknowledge
  <2> QED BY <1>2, <2>1, SettledAtReceiver, Zenon
<1> QED BY <1>1, <1>2

(* A frame is declared lost, whether it was or not.                        *)
LEMMA DeclareLostKeeps ==
  ASSUME QuicIInv, NEW f \in out, DetectLoss(f) \/ SpuriousLoss(f)
  PROVE  QuicIInv'
<1>1. /\ out' = out \ {f} /\ got' = got \ {f}
      /\ Loses(f)
      /\ UNCHANGED <<wire, appVars>>
      /\ \/ faults' = faults
         \/ faults < MaxFaults /\ faults' = faults + 1
  BY Zenon DEF DetectLoss, SpuriousLoss, DeclareLost
<1>2. CASE FromSender(f)
  <2>1. SenderLoses(f) /\ UNCHANGED recvVars
    BY <1>1, <1>2, Zenon DEF Loses
  <2> QED BY <1>1, <1>2, <2>1, LossAtSender, Zenon
<1>3. CASE ~FromSender(f)
  <2>1. ReceiverLoses(f) /\ UNCHANGED sendVars
    BY <1>1, <1>3, Zenon DEF Loses
  <2> QED BY <1>1, <1>3, <2>1, SettledAtReceiver, Zenon
<1> QED BY <1>2, <1>3

(* A probe repeats a frame.                                                *)
LEMMA ProbeKeeps ==
  ASSUME QuicIInv, NEW f \in out, Probe(f)
  PROVE  QuicIInv'
<1>1. /\ FromSender(f) /\ SenderLoses(f)
      /\ UNCHANGED <<recvVars, appVars, wire, out, got>>
      /\ faults < MaxFaults /\ faults' = faults + 1
  BY Zenon DEF Probe, Loses
<1> QED BY <1>1, LossAtSender, Zenon

-----------------------------------------------------------------------------
(***************************************************************************)
(* The theorems.                                                           *)
(***************************************************************************)

(* The invariant holds of a fresh stream.                                  *)
LEMMA InitQuicInv == QuicInit => QuicIInv
<1> SUFFICES ASSUME QuicInit PROVE QuicIInv
  OBVIOUS
<1>1. /\ MaxBytes \in Nat /\ Window \in Nat /\ MaxWindow \in Nat /\ Window <= MaxWindow
      /\ MaxFaults \in Nat /\ 2 <= Window
  BY QuicAssumption, SMT
<1>2. /\ off = 0 /\ emitOff = 0 /\ finOff = Unknown /\ sendMax = Window
      /\ acked = {} /\ ackedAny = FALSE /\ base = 0 /\ cuts = {} /\ pending = {}
      /\ flushable = FALSE /\ shut = FALSE /\ stopped = FALSE
      /\ resetQueued = FALSE /\ sendGone = FALSE
      /\ bufs = {} /\ readOff = 0 /\ recvLen = 0 /\ recvFin = Unknown
      /\ wasReset = FALSE /\ draining = FALSE
      /\ recvMax = Window /\ window = Window /\ consumed = 0
      /\ almostFull = FALSE /\ stopQueued = FALSE /\ recvState = "absent"
      /\ written = 0 /\ ended = FALSE /\ seen = "none" /\ broken = FALSE
      /\ wire = {} /\ out = {} /\ got = {} /\ faults = 0
  BY Zenon DEF QuicInit
<1>3. 0 \in Offsets /\ 0 \in 0..0 /\ 0..(0 - 1) = {} /\ 0 \in 0..MaxBytes
      /\ 0 \in 0..MaxFaults /\ Unknown # 0
  BY <1>1, SMT DEF Offsets, Unknown
<1>4. ~Abandoned
  BY <1>2 DEF Abandoned
<1>5. SendBufOK
  BY <1>2, <1>3, <1>4, Zenon DEF SendBufOK
<1>6. WriterOK
  BY <1>2, <1>3, <1>4, Zenon DEF WriterOK
<1>7. FramesOK
  BY <1>2, Zenon DEF FramesOK
<1>8. RecvBufOK
  <2>1. "absent" # "gone"
    OBVIOUS
  <2> QED BY <1>2, <1>3, <2>1, Zenon DEF RecvBufOK
<1>9. CreditOK
  <2>1. Window \in Window..MaxWindow /\ Window \in Window..(0 + Window)
        /\ Window \in 0..Window /\ ~ (Window > Window)
    BY <1>1, SMT
  <2>2. ~AlmostFull(consumed)
    <3>1. ~ (Window - 0 < Window \div 2)
      BY <1>1, SMT
    <3> QED BY <3>1, <1>2, Zenon DEF AlmostFull
  <2> QED BY <1>2, <2>1, <2>2, Zenon DEF CreditOK
<1>10. ReceiptsOK /\ NoByteForgotten
  BY <1>2, <1>3, Zenon DEF ReceiptsOK, NoByteForgotten
<1>11. FlagsOK
  BY <1>2, <1>3 DEF FlagsOK
<1> QED BY <1>2, <1>5, <1>6, <1>7, <1>8, <1>9, <1>10, <1>11, Zenon DEF QuicIInv

(* Every step preserves it.                                                *)
LEMMA QuicStepPreserves ==
  ASSUME QuicIInv, [QuicNext]_quicVars
  PROVE  QuicIInv'
<1>1. ASSUME NEW n \in Lengths, NEW fin \in BOOLEAN, StreamSend(n, fin)
      PROVE  QuicIInv'
  <2>1. n \in Nat
    BY QuicAssumption, SMT DEF Lengths
  <2> QED BY <1>1, <2>1, StreamSendKeeps, Zenon
<1>2. ASSUME NEW k \in 1..MaxFrame, SendStream(k) PROVE QuicIInv'
  <2>1. k \in Nat
    BY QuicAssumption, SMT
  <2> QED BY <1>2, <2>1, SendStreamKeeps, Zenon
<1>3. CASE SkipStopped
  BY <1>3, SkipStoppedKeeps
<1>4. CASE ShutdownWrite
  BY <1>4, ShutdownWriteKeeps
<1>5. CASE SendReset
  BY <1>5, SendResetKeeps
<1>6. ASSUME NEW cap \in 1..MaxBytes, StreamRecv(cap) PROVE QuicIInv'
  <2>1. cap \in Nat
    BY QuicAssumption, SMT
  <2> QED BY <1>6, <2>1, StreamRecvKeeps, Zenon
<1>7. CASE ShutdownRead
  BY <1>7, ShutdownReadKeeps
<1>8. CASE SendStop
  BY <1>8, SendStopKeeps
<1>9. CASE SendMaxStreamData
  BY <1>9, SendMaxStreamDataKeeps
<1>10. ASSUME NEW f \in wire, Deliver(f) PROVE QuicIInv'
  BY <1>10, ArrivesAtReceiver, ArrivesAtSender, Zenon
<1>11. ASSUME NEW f \in wire, Drop(f) PROVE QuicIInv'
  BY <1>11, DropKeeps, Zenon
<1>12. ASSUME NEW f \in out, Acknowledge(f) PROVE QuicIInv'
  BY <1>12, AcknowledgeKeeps, Zenon
<1>13. ASSUME NEW f \in out, DetectLoss(f) \/ SpuriousLoss(f) PROVE QuicIInv'
  BY <1>13, DeclareLostKeeps, Zenon
<1>14. ASSUME NEW f \in out, Probe(f) PROVE QuicIInv'
  BY <1>14, ProbeKeeps, Zenon
<1>15. CASE UNCHANGED quicVars
  <2>1. UNCHANGED <<sendVars, recvVars, appVars, netVars>>
    BY <1>15, Zenon DEF quicVars
  <2>2. UNCHANGED <<wire, out, got, faults>>
    BY <2>1, Zenon DEF netVars
  <2>3. UNCHANGED <<off, acked, pending, sendMax, ackedAny, flushable, shut, stopped,
                    resetQueued, sendGone, ended, wasReset, draining, almostFull,
                    stopQueued>>
    BY <2>1, Zenon DEF sendVars, recvVars, appVars
  <2>4. FlagsOK'
    BY <2>2, <2>3, FlagTypes, FlagTypesNext, Zenon DEF QuicIInv
  <2>5. SendBufOK' /\ WriterOK' /\ SenderGrows
    BY <2>1, SenderKeeps, Zenon
  <2>6. off' <= sendMax
    BY <2>3, CreditTypes, Zenon DEF QuicIInv
  <2>7. /\ out \subseteq out' /\ \A g \in wire' \cup out' : g \in wire \cup out
        /\ \A i \in 0..(off' - 1) : (i \in 0..(off - 1) /\ i \notin pending) \/ i \in pending'
    BY <2>2, <2>3, Zenon
  <2> QED BY <2>1, <2>2, <2>3, <2>4, <2>5, <2>6, <2>7, SenderStep, Zenon
<1> QED BY <1>1, <1>2, <1>3, <1>4, <1>5, <1>6, <1>7, <1>8, <1>9, <1>10, <1>11, <1>12,
           <1>13, <1>14, <1>15, Zenon DEF QuicNext

(* The inductive invariant holds of every behaviour.                       *)
THEOREM QuicInvariant == QuicSpec => []QuicIInv
BY InitQuicInv, QuicStepPreserves, PTL DEF QuicSpec

(* Every variable of both ends, of the two applications and of the network *)
(* stays in its type: in particular no limit passes the stream's length    *)
(* and the largest window together.                                        *)
THEOREM QuicTypeCorrect == QuicSpec => []QuicTypeOK
<1>1. QuicIInv => QuicTypeOK
  <2> SUFFICES ASSUME QuicIInv PROVE QuicTypeOK
    OBVIOUS
  <2>1. SendBufOK /\ WriterOK /\ RecvBufOK /\ CreditOK /\ FlagsOK /\ FramesOK /\ broken = FALSE
    BY Zenon DEF QuicIInv
  <2>2. /\ MaxBytes \in Nat /\ off \in Nat /\ emitOff \in Nat /\ base \in Nat
        /\ off <= MaxBytes /\ emitOff <= off /\ base <= emitOff
    BY <2>1, SendTypes, Zenon
  <2>3. /\ recvLen \in Nat /\ readOff \in Nat /\ consumed \in Nat
        /\ consumed <= readOff /\ readOff <= recvLen /\ recvLen <= emitOff
    BY <2>1, RecvTypes, Zenon
  <2>4. /\ window \in Nat /\ recvMax \in Nat /\ sendMax \in Nat
        /\ Window <= window /\ window <= MaxWindow
        /\ recvMax <= consumed + window /\ Window <= recvMax
        /\ off <= sendMax /\ sendMax <= recvMax
        /\ Window \in Nat /\ MaxWindow \in Nat
    BY <2>1, CreditTypes, Zenon
  <2>5. {off, emitOff, sendMax, base, readOff, recvLen, consumed, written}
          \subseteq 0..(MaxBytes + MaxWindow)
    <3>1. written \in Nat /\ written <= MaxBytes
      BY <2>1, <2>2, SMT DEF WriterOK
    <3>2. /\ off \in 0..(MaxBytes + MaxWindow) /\ emitOff \in 0..(MaxBytes + MaxWindow)
          /\ sendMax \in 0..(MaxBytes + MaxWindow)
          /\ base \in 0..(MaxBytes + MaxWindow)
      BY <2>2, <2>3, <2>4, SMT
    <3>3. /\ readOff \in 0..(MaxBytes + MaxWindow)
          /\ recvLen \in 0..(MaxBytes + MaxWindow)
          /\ consumed \in 0..(MaxBytes + MaxWindow)
          /\ written \in 0..(MaxBytes + MaxWindow)
      BY <2>2, <2>3, <2>4, <3>1, SMT
    <3> QED BY <3>2, <3>3, Zenon
  <2>6. off \in Offsets /\ \A x : x \in {Unknown, off} => x \in Offsets \cup {Unknown}
    BY <2>2 DEF Offsets
  <2>7. finOff \in Offsets \cup {Unknown} /\ recvFin \in Offsets \cup {Unknown}
    BY <2>1, <2>6, Zenon DEF SendBufOK, RecvBufOK
  <2>8. acked \subseteq 0..(off - 1)
    <3>1. 0..(emitOff - 1) \subseteq 0..(off - 1)
      BY <2>2, PrefixGrows, Zenon
    <3> QED BY <2>1, <3>1, Zenon DEF SendBufOK
  <2>9. recvMax \in Window..(MaxBytes + MaxWindow) /\ window \in Window..MaxWindow
    BY <2>2, <2>3, <2>4, SMT
  <2>10. {ackedAny, flushable, shut, stopped, resetQueued, sendGone, wasReset,
          draining, almostFull, stopQueued, ended, broken} \subseteq BOOLEAN
    <3>1. broken \in BOOLEAN
      BY <2>1 DEF QuicIInv
    <3> QED BY <2>1, <3>1, FlagTypes, Zenon
  <2>11. \A f : FrameOK(f) => f \in Frames
    <3>1. SUFFICES ASSUME NEW f, FrameOK(f) PROVE f \in Frames
      OBVIOUS
    <3>2. f.type \in {"stream", "reset", "max", "stop"}
      BY <3>1, FrameIs, Zenon
    <3>3. CASE f.type = "stream"
      <4>1. /\ f.from \in Offsets /\ f.to \in Offsets /\ f.fin \in BOOLEAN
            /\ f = Stream(f.from, f.to, f.fin)
        BY <3>1, <3>3, FrameIs, Zenon
      <4>2. PICK from \in Offsets, to \in Offsets, fin \in BOOLEAN : f = Stream(from, to, fin)
        BY <4>1, Zenon
      <4>3. f \in {Stream(a, b, c) : a \in Offsets, b \in Offsets, c \in BOOLEAN}
        BY <4>2
      <4> QED BY <4>3 DEF Frames
    <3>4. CASE f.type = "reset"
      <4>1. f = Reset(off)
        BY <3>1, <3>4, FrameIs, Zenon
      <4>2. f \in {Reset(n) : n \in Offsets}
        BY <4>1, <2>6
      <4> QED BY <4>2 DEF Frames
    <3>5. CASE f.type = "max"
      <4>1. f.max \in Window..recvMax /\ f = MaxStreamData(f.max)
        BY <3>1, <3>5, FrameIs, Zenon
      <4>2. f.max \in 0..(MaxBytes + MaxWindow)
        BY <4>1, <2>2, <2>3, <2>4, SMT
      <4>3. f \in {MaxStreamData(n) : n \in 0..(MaxBytes + MaxWindow)}
        BY <4>1, <4>2
      <4> QED BY <4>3 DEF Frames
    <3>6. CASE f.type = "stop"
      <4>1. f = StopSending
        BY <3>1, <3>6, FrameIs, Zenon
      <4> QED BY <4>1 DEF Frames
    <3> QED BY <3>2, <3>3, <3>4, <3>5, <3>6
  <2>12. wire \subseteq Frames /\ out \subseteq Frames /\ got \subseteq out
    BY <2>1, <2>11, Zenon DEF FramesOK
  <2>13. /\ cuts \subseteq 0..off /\ pending \subseteq base..(off - 1)
         /\ recvState \in {"absent", "open", "gone"}
         /\ bufs \subseteq Offsets \X Offsets
         /\ seen \in {"none", "fin", "reset"}
         /\ faults \in 0..MaxFaults
    BY <2>1, Zenon DEF SendBufOK, RecvBufOK, FlagsOK
  <2> QED BY <2>5, <2>7, <2>8, <2>9, <2>10, <2>12, <2>13, Zenon DEF QuicTypeOK
<1> QED BY QuicInvariant, <1>1, PTL

(* The receiver never finds a fault with a frame: no frame passes the      *)
(* limit it gave or disagrees about the end of the stream, whatever was    *)
(* retransmitted in other pieces, reset, or came late.                     *)
THEOREM PeersAgree == QuicSpec => []HonestPeersAgree
<1>1. QuicIInv => HonestPeersAgree
  BY Zenon DEF QuicIInv, HonestPeersAgree
<1> QED BY QuicInvariant, <1>1, PTL

(* No byte the writer was told is accepted is forgotten by both ends.      *)
THEOREM BytesAreKept == QuicSpec => []NoByteForgotten
<1>1. QuicIInv => NoByteForgotten
  BY Zenon DEF QuicIInv
<1> QED BY QuicInvariant, <1>1, PTL

(* A sender at its limit whose bytes were all read has a new limit coming. *)
THEOREM LimitReturns == QuicSpec => []CreditReturns
<1>1. QuicIInv => CreditReturns
  <2> SUFFICES ASSUME QuicIInv, ~shut, ~stopped, ~draining,
                      finOff = Unknown, sendMax = off, readOff = off
               PROVE  almostFull \/ \E f \in out : f.type = "max" /\ f.max > sendMax
    BY Zenon DEF CreditReturns
  <2>1. SendBufOK /\ RecvBufOK /\ CreditOK
    BY Zenon DEF QuicIInv
  <2>2. off \in Nat /\ Unknown # off
    <3>1. off \in Nat
      BY <2>1, SendTypes, Zenon
    <3> QED BY <3>1, SMT DEF Unknown
  <2>3. /\ window \in Nat /\ recvMax \in Nat /\ sendMax \in Nat /\ Window \in Nat
        /\ Window <= window /\ 2 <= Window /\ sendMax <= recvMax
    BY <2>1, CreditTypes, Zenon
  <2>4. ~Abandoned
    BY DEF Abandoned
  <2>5. consumed = off
    BY <2>1, <2>4, Zenon DEF RecvBufOK
  <2>6. recvFin = Unknown /\ ~sendGone /\ recvState # "gone"
    BY <2>1, <2>2, Zenon DEF RecvBufOK, SendBufOK, AllSent
  <2>7. CASE recvMax = sendMax
    <3>1. recvMax - consumed < window \div 2
      BY <2>2, <2>3, <2>5, <2>7, SMT
    <3>2. AlmostFull(consumed)
      BY <2>6, <3>1, Zenon DEF AlmostFull
    <3> QED BY <3>2, <2>1, Zenon DEF CreditOK
  <2>8. CASE recvMax > sendMax
    BY <2>1, <2>6, <2>8, FrameTypes, Zenon DEF CreditOK
  <2>9. recvMax = sendMax \/ recvMax > sendMax
    BY <2>3, SMT
  <2> QED BY <2>7, <2>8, <2>9
<1> QED BY QuicInvariant, <1>1, PTL

-----------------------------------------------------------------------------
(***************************************************************************)
(* The stream implements the abstract byte stream.                         *)
(***************************************************************************)

(* What both applications see of the stream stays as it is.                *)
AppsKeep == UNCHANGED <<written, ended, shut, stopped, consumed, seen>>

(* Then the abstract stream stutters.                                      *)
LEMMA KeepsBytes == AppsKeep => UNCHANGED Bytes!byteVars
<1>1. SUFFICES ASSUME AppsKeep
               PROVE  UNCHANGED Bytes!byteVars
  OBVIOUS
<1>2. (shut' \/ stopped') = (shut \/ stopped)
  BY <1>1, SMT DEF AppsKeep
<1> QED BY <1>1, <1>2, SMT DEF AppsKeep, Bytes!byteVars

(* A write is the abstract one; one that repeats the end, or follows a     *)
(* reset, changes nothing.                                                 *)
LEMMA WriteAccepts ==
  ASSUME QuicIInv, QuicIInv', NEW n \in Nat, NEW fin \in BOOLEAN, StreamSend(n, fin)
  PROVE  Bytes!Accept \/ AppsKeep
<1>1. /\ ~stopped
      /\ n > 0 \/ fin
      /\ finOff # Unknown => n = 0
      /\ off' = off + n
      /\ written' = IF shut THEN written ELSE off + n
      /\ ended' = (ended \/ (fin /\ ~shut))
      /\ UNCHANGED <<shut, stopped, recvVars>>
  BY Zenon DEF StreamSend
<1>2. UNCHANGED <<consumed, seen>>
  BY <1>1, Zenon DEF recvVars
<1>3. SendBufOK /\ WriterOK /\ WriterOK' /\ FlagsOK /\ FlagsOK'
  BY Zenon DEF QuicIInv
<1>4. ended \in BOOLEAN /\ ended' \in BOOLEAN
  BY <1>3, FlagTypes, FlagTypesNext, Zenon
<1>5. off \in Nat /\ MaxBytes \in Nat
  BY <1>3, SendTypes, Zenon
<1>6. CASE shut
  <2>1. written' = written /\ ended' = ended
    BY <1>1, <1>4, <1>6
  <2> QED BY <2>1, <1>1, <1>2, Zenon DEF AppsKeep
<1>7. CASE ~shut
  <2>1. written = off /\ written' = off + n
    BY <1>1, <1>3, <1>7, Zenon DEF WriterOK, Abandoned
  <2>2. CASE ended
    <3>1. finOff # Unknown
      BY <2>2, <1>3, <1>5, SMT DEF WriterOK, Unknown
    <3>2. n = 0 /\ ended' = ended
      BY <3>1, <2>2, <1>1, <1>4
    <3>3. written' = written
      BY <3>2, <2>1, <1>5, SMT
    <3> QED BY <3>2, <3>3, <1>1, <1>2, Zenon DEF AppsKeep
  <2>3. CASE ~ended
    <3>1. PICK w : w = written'
      OBVIOUS
    <3>2. w = off + n
      BY <3>1, <2>1
    <3>3. w <= MaxBytes
      <4>1. emitOff' \in 0..off' /\ off' \in Nat
        BY <1>1, <1>5, SMT DEF QuicIInv, SendBufOK
      <4>2. PICK e : e = emitOff'
        OBVIOUS
      <4>3. e \in Nat /\ w \in e..MaxBytes
        BY <1>3, <3>1, <4>1, <4>2, SMT DEF WriterOK
      <4> QED BY <4>3, <1>5, SMT
    <3>4. w \in off..MaxBytes
      BY <3>2, <3>3, <1>5, SMT
    <3> QED BY <3>1, <3>4, <2>1, <2>3, <1>1, <1>2, <1>4, <1>7, Zenon DEF Bytes!Accept
  <2> QED BY <2>2, <2>3
<1> QED BY <1>6, <1>7

(* A read hands over what was accepted, the end with the last of it, and a *)
(* reset only of a stream that was given up.                               *)
LEMMA ReadHands ==
  ASSUME QuicIInv, QuicIInv', NEW cap \in Nat, StreamRecv(cap)
  PROVE  Bytes!Hand \/ Bytes!HandReset
<1>1. /\ recvState = "open" /\ Ready
      /\ UNCHANGED <<recvFin, wasReset, draining, sendVars, appVars>>
  BY Zenon DEF StreamRecv
<1>2. UNCHANGED <<off, emitOff, finOff, shut, stopped, written, ended>>
  BY <1>1, Zenon DEF sendVars, appVars
<1>3. /\ SendBufOK /\ WriterOK /\ RecvBufOK /\ RecvBufOK' /\ SendBufOK'
      /\ FlagsOK
  BY Zenon DEF QuicIInv
<1>4. seen = "none" /\ ~draining
  BY <1>1, <1>3, Zenon DEF RecvBufOK, Ready
<1>5. /\ off \in Nat /\ emitOff \in Nat /\ MaxBytes \in Nat /\ emitOff <= off
  BY <1>3, SendTypes, Zenon
<1>6. CASE wasReset
  <2>1. seen' = "reset" /\ UNCHANGED consumed
    BY <1>6, Zenon DEF StreamRecv
  <2>2. shut \/ stopped
    BY <1>3, <1>6, Zenon DEF RecvBufOK, Abandoned
  <2> QED BY <2>1, <2>2, <1>2, <1>4, Zenon DEF Bytes!HandReset
<1>7. CASE ~wasReset
  <2>1. /\ readOff' = readOff + Readable(cap)
        /\ consumed' = consumed + Readable(cap)
        /\ seen' = IF recvFin = readOff' THEN "fin" ELSE seen
    BY <1>7, Zenon DEF StreamRecv, Take, IsFin
  <2>2. /\ consumed \in Nat /\ readOff \in Nat /\ consumed = readOff
    BY <1>3, <1>4, <1>7, RecvTypes, Zenon DEF RecvBufOK
  <2>3. Readable(cap) \in Nat /\ readOff + Readable(cap) <= recvLen
    BY <1>3, ReadableIs, Zenon
  <2>4. recvLen \in Nat /\ recvLen <= emitOff
    BY <1>3, RecvTypes, Zenon
  <2>5. written \in Nat /\ emitOff <= written
    BY <1>3, <1>5, SMT DEF WriterOK
  <2>6. PICK c : c = consumed'
    OBVIOUS
  <2>7. c = consumed + Readable(cap) /\ c = readOff'
    BY <2>1, <2>2, <2>6
  <2>8. c \in consumed..written
    <3>1. PICK k : k = Readable(cap)
      OBVIOUS
    <3>2. k \in Nat /\ readOff + k <= recvLen /\ c = consumed + k
      BY <2>3, <2>7, <3>1
    <3> QED BY <2>2, <2>4, <2>5, <1>5, <3>2, SMT
  <2>9. seen' \in {"none", "fin"}
    BY <2>1, <1>4
  <2>10. seen' = "fin" => (shut \/ stopped) \/ (ended /\ c = written)
    <3>1. SUFFICES ASSUME seen' = "fin", ~ (shut \/ stopped)
                   PROVE  ended /\ c = written
      OBVIOUS
    <3>2. recvFin = c
      BY <3>1, <2>1, <2>7, <1>4
    <3>3. c # Unknown
      BY <2>2, <2>3, <2>7, SMT DEF Unknown
    <3>4. recvFin = off /\ AllSent
      BY <3>2, <3>3, <1>3, Zenon DEF RecvBufOK
    <3>5. finOff = off
      BY <3>4 DEF AllSent
    <3> QED BY <3>1, <3>2, <3>4, <3>5, <1>3, Zenon DEF WriterOK, Abandoned
  <2> QED BY <2>6, <2>8, <2>9, <2>10, <1>2, <1>4, Zenon DEF Bytes!Hand
<1> QED BY <1>6, <1>7

(* What arrives at the receiver is not handed over yet; a STOP_SENDING     *)
(* frame gives the stream up.                                              *)
LEMMA ArrivalAbandons ==
  ASSUME QuicIInv, NEW f \in wire, Deliver(f)
  PROVE  Bytes!Abandon \/ AppsKeep
<1>1. UNCHANGED <<written, ended>>
  BY Zenon DEF Deliver, appVars
<1>2. CASE FromSender(f)
  <2>1. ReceiverReceives(f) /\ UNCHANGED sendVars
    BY <1>2, Zenon DEF Deliver
  <2>2. UNCHANGED <<shut, stopped>>
    BY <2>1, Zenon DEF sendVars
  <2>3. UNCHANGED <<consumed, seen>>
    <3>1. CASE recvState = "gone"
      BY <3>1, <2>1, Zenon DEF ReceiverReceives, recvVars
    <3>2. CASE recvState # "gone" /\ f.type = "stream"
      BY <3>2, <2>1, Zenon DEF ReceiverReceives, ReceiveStream, Breaks
    <3>3. CASE recvState # "gone" /\ f.type # "stream"
      BY <3>3, <2>1, Zenon DEF ReceiverReceives, ReceiveReset, Breaks
    <3> QED BY <3>1, <3>2, <3>3
  <2> QED BY <1>1, <2>2, <2>3, Zenon DEF AppsKeep
<1>3. CASE ~FromSender(f)
  <2>1. SenderReceives(f) /\ UNCHANGED recvVars
    BY <1>3, Zenon DEF Deliver
  <2>2. UNCHANGED <<consumed, seen>>
    BY <2>1, Zenon DEF recvVars
  <2>3. stopped' = TRUE \/ UNCHANGED <<shut, stopped>>
    BY <2>1, Zenon DEF SenderReceives, SenderStopped, SenderCredited, sendVars
  <2>4. CASE stopped' = TRUE
    <3>1. (shut' \/ stopped') = TRUE
      BY <2>4
    <3> QED BY <3>1, <1>1, <2>2, Zenon DEF Bytes!Abandon
  <2>5. CASE UNCHANGED <<shut, stopped>>
    BY <2>5, <1>1, <2>2, Zenon DEF AppsKeep
  <2> QED BY <2>3, <2>4, <2>5
<1> QED BY <1>2, <1>3

(* Losing, or acknowledging, a frame is nothing to the applications.       *)
LEMMA LossKeepsApps ==
  ASSUME NEW f, Loses(f), UNCHANGED appVars
  PROVE  AppsKeep
<1>1. UNCHANGED <<written, ended>>
  BY Zenon DEF appVars
<1>2. CASE FromSender(f)
  BY <1>1, <1>2, Zenon DEF Loses, SenderLoses, recvVars, AppsKeep
<1>3. CASE ~FromSender(f)
  BY <1>1, <1>3, Zenon DEF Loses, ReceiverLoses, sendVars, AppsKeep
<1> QED BY <1>2, <1>3

(* Every step of the stream is a step of the abstract one, or a stutter.   *)
LEMMA StepBytes ==
  ASSUME QuicIInv, QuicIInv', [QuicNext]_quicVars
  PROVE  [Bytes!ByteNext]_(Bytes!byteVars)
<1> SUFFICES \/ Bytes!Accept \/ Bytes!Abandon \/ Bytes!Hand \/ Bytes!HandReset
             \/ AppsKeep
  BY KeepsBytes, Zenon DEF Bytes!ByteNext
<1>1. ASSUME NEW n \in Lengths, NEW fin \in BOOLEAN, StreamSend(n, fin)
      PROVE  Bytes!Accept \/ AppsKeep
  <2>1. n \in Nat
    BY QuicAssumption, SMT DEF Lengths
  <2> QED BY <1>1, <2>1, WriteAccepts, Zenon
<1>2. ASSUME NEW k \in 1..MaxFrame, SendStream(k) PROVE AppsKeep
  BY <1>2, Zenon DEF SendStream, recvVars, appVars, AppsKeep
<1>3. CASE SkipStopped
  BY <1>3, Zenon DEF SkipStopped, recvVars, appVars, AppsKeep
<1>4. CASE ShutdownWrite
  <2>1. shut' = TRUE /\ UNCHANGED <<recvVars, appVars>>
    BY <1>4, Zenon DEF ShutdownWrite
  <2>2. UNCHANGED <<written, ended, consumed, seen>>
    BY <2>1, Zenon DEF recvVars, appVars
  <2>3. (shut' \/ stopped') = TRUE
    BY <2>1
  <2>4. Bytes!Abandon
    BY <2>2, <2>3, Zenon DEF Bytes!Abandon
  <2> QED BY <2>4
<1>5. CASE SendReset
  BY <1>5, Zenon DEF SendReset, recvVars, appVars, AppsKeep
<1>6. ASSUME NEW cap \in 1..MaxBytes, StreamRecv(cap)
      PROVE  Bytes!Hand \/ Bytes!HandReset
  <2>1. cap \in Nat
    BY QuicAssumption, SMT
  <2> QED BY <1>6, <2>1, ReadHands, Zenon
<1>7. CASE ShutdownRead
  BY <1>7, Zenon DEF ShutdownRead, sendVars, appVars, AppsKeep
<1>8. CASE SendStop
  BY <1>8, Zenon DEF SendStop, sendVars, appVars, AppsKeep
<1>9. CASE SendMaxStreamData
  BY <1>9, Zenon DEF SendMaxStreamData, sendVars, appVars, AppsKeep
<1>10. ASSUME NEW f \in wire, Deliver(f) PROVE Bytes!Abandon \/ AppsKeep
  BY <1>10, ArrivalAbandons, Zenon
<1>11. ASSUME NEW f \in wire, Drop(f) PROVE AppsKeep
  BY <1>11, Zenon DEF Drop, sendVars, recvVars, appVars, AppsKeep
<1>12. ASSUME NEW f \in out, Acknowledge(f) PROVE AppsKeep
  <2>1. CASE FromSender(f)
    BY <1>12, <2>1, Zenon DEF Acknowledge, SenderAcked, recvVars, appVars, AppsKeep
  <2>2. CASE ~FromSender(f)
    BY <1>12, <2>2, Zenon DEF Acknowledge, sendVars, recvVars, appVars, AppsKeep
  <2> QED BY <2>1, <2>2
<1>13. ASSUME NEW f \in out, DetectLoss(f) \/ SpuriousLoss(f) PROVE AppsKeep
  BY <1>13, LossKeepsApps, Zenon DEF DetectLoss, SpuriousLoss, DeclareLost
<1>14. ASSUME NEW f \in out, Probe(f) PROVE AppsKeep
  BY <1>14, LossKeepsApps, Zenon DEF Probe
<1>15. CASE UNCHANGED quicVars
  BY <1>15, Zenon DEF quicVars, sendVars, recvVars, appVars, AppsKeep
<1> QED BY <1>1, <1>2, <1>3, <1>4, <1>5, <1>6, <1>7, <1>8, <1>9, <1>10, <1>11, <1>12,
           <1>13, <1>14, <1>15, Zenon DEF QuicNext

(* The reader is handed what the writer was told is accepted, once each    *)
(* and in order, sees the end of a stream nobody gave up only when the     *)
(* writer finished and all was read, and a reset only of one that was      *)
(* given up: over a network that loses, delays and reorders, for a stream  *)
(* and frames of any size.                                                 *)
THEOREM StreamImplementsBytes == QuicSpec => ImplementsByteStream
<1>1. QuicInit => Bytes!ByteInit
  <2> SUFFICES ASSUME QuicInit PROVE Bytes!ByteInit
    OBVIOUS
  <2>1. /\ written = 0 /\ consumed = 0 /\ ended = FALSE /\ shut = FALSE
        /\ stopped = FALSE /\ seen = "none"
    BY Zenon DEF QuicInit
  <2>2. (shut \/ stopped) = FALSE
    BY <2>1
  <2> QED BY <2>1, <2>2, Zenon DEF Bytes!ByteInit
<1>2. QuicIInv /\ QuicIInv' /\ [QuicNext]_quicVars
        => [Bytes!ByteNext]_(Bytes!byteVars)
  BY StepBytes
<1> QED BY <1>1, <1>2, QuicInvariant, PTL
    DEF QuicSpec, ImplementsByteStream, Bytes!ByteSpec

=============================================================================
