---------------------------- MODULE NetstackProofs ----------------------------
(***************************************************************************)
(* Proofs about Netstack, for any set of connections, any number of units, *)
(* and buffers and channels of any size.                                   *)
(***************************************************************************)
EXTENDS Netstack, SequenceTheorems, TLAPS

(* Only entries of the table are serviced: none is removed, and the stack  *)
(* does not end, while some are still to do.                               *)
OnlyLiveServiced == phase = "service" => todo \subseteq Live

(* A command stands for a connection that is not in the table yet, and a   *)
(* connection that never was has moved nothing.                            *)
NotYetOpen(c) ==
  /\ caller[c] = "no" => c \notin cmds /\ entry[c] = "none"
  /\ c \in cmds => entry[c] = "none"
  /\ entry[c] = "none" =>
       /\ caller[c] \notin {"has", "gone"}
       /\ sentUp[c] = 0 /\ sentDown[c] = 0

(* Only an answered connection has or had a relay.                         *)
RelayIsAnswered(c) == caller[c] \in {"has", "gone"} => established[c]

(* The units on their way up lie end to end: the peer has those to gotUp,  *)
(* the socket those to m, the pending queue those to n, and the channel    *)
(* the rest.  What a removed connection held is lost, what its relay still *)
(* sends is not out of order.                                              *)
UpInOrder(c) ==
  \E m, n \in 0..MaxUnits :
    /\ gotUp[c] <= m /\ m <= n /\ n <= sentUp[c]
    /\ dataIn[c] = Units(n + 1, sentUp[c])
    /\ entry[c] # "removed" =>
         tx[c] = Units(gotUp[c] + 1, m) /\ pending[c] = Units(m + 1, n)

(* And on the way down: the relay has those to gotDown, its channel those  *)
(* to m, the socket the rest.                                              *)
DownInOrder(c) ==
  \E m \in 0..MaxUnits :
    /\ m <= sentDown[c]
    /\ entry[c] # "removed" => rx[c] = Units(m + 1, sentDown[c])
    /\ IF caller[c] = "gone" THEN toApp[c] = <<>>
       ELSE gotDown[c] <= m /\ toApp[c] = Units(gotDown[c] + 1, m)

ConnInv(c) ==
  NotYetOpen(c) /\ RelayIsAnswered(c) /\ UpInOrder(c) /\ DownInOrder(c)

NetIInv ==
  /\ NetTypeOK
  /\ OnlyLiveServiced
  /\ \A c \in Conns : ConnInv(c)
-----------------------------------------------------------------------------
(***************************************************************************)
(* Runs of consecutive units.                                              *)
(***************************************************************************)

(* Units(a + 1, b) is the run of the b - a units after a.                  *)
LEMMA UnitsAreASeq ==
  ASSUME NEW a \in Nat, NEW b \in Nat, a <= b
  PROVE  /\ Units(a + 1, b) \in Seq(Nat)
         /\ Len(Units(a + 1, b)) = b - a
         /\ \A i \in 1..(b - a) : Units(a + 1, b)[i] = a + i
<1>1. (b + 1) - (a + 1) = b - a /\ b - a \in Nat
  OBVIOUS
<1>2. Units(a + 1, b) = [i \in 1..(b - a) |-> a + 1 + i - 1]
  BY <1>1 DEF Units
<1>3. \A i \in 1..(b - a) : a + 1 + i - 1 = a + i /\ a + i \in Nat
  OBVIOUS
<1>4. Units(a + 1, b) \in [1..(b - a) -> Nat]
  BY <1>2, <1>3
<1>5. QED
  BY <1>1, <1>2, <1>3, <1>4

(* A run that ends where it starts is empty.                               *)
LEMMA NoUnits ==
  ASSUME NEW a \in Nat
  PROVE  Units(a + 1, a) = <<>>
  BY UnitsAreASeq, EmptySeq

(* One more at the end, one less at the start.                             *)
LEMMA UnitsAppend ==
  ASSUME NEW a \in Nat, NEW b \in Nat, a <= b
  PROVE  Append(Units(a + 1, b), b + 1) = Units(a + 1, b + 1)
<1> DEFINE s == Units(a + 1, b)
<1> DEFINE t == Append(s, b + 1)
<1> DEFINE u == Units(a + 1, b + 1)
<1>1. s \in Seq(Nat) /\ Len(s) = b - a /\ \A i \in 1..(b - a) : s[i] = a + i
  BY UnitsAreASeq
<1>2. u \in Seq(Nat) /\ Len(u) = b + 1 - a /\ \A i \in 1..(b + 1 - a) : u[i] = a + i
  BY UnitsAreASeq, a <= b + 1, b + 1 \in Nat
<1>3. /\ t \in Seq(Nat) /\ Len(t) = Len(s) + 1
      /\ \A i \in 1..Len(s) : t[i] = s[i]
      /\ t[Len(s) + 1] = b + 1
  BY <1>1, AppendProperties, b + 1 \in Nat
<1> HIDE DEF s, t, u
<1>4. ASSUME NEW i \in 1..Len(t) PROVE t[i] = u[i]
  <2>1. CASE i \in 1..Len(s)
    BY <1>1, <1>2, <1>3, <2>1
  <2>2. CASE i = Len(s) + 1
    <3>1. t[i] = b + 1 /\ i = b - a + 1
      BY <1>1, <1>3, <2>2
    <3>2. u[i] = a + i
      BY <1>2, <3>1
    <3>3. QED
      BY <3>1, <3>2
  <2>3. QED
    BY <1>1, <1>3, <2>1, <2>2
<1>5. t = u
  BY <1>1, <1>2, <1>3, <1>4, SeqEqual
<1>6. QED
  BY <1>5 DEF s, t, u

(* Without its first unit a run starts one later.                          *)
LEMMA UnitsTail ==
  ASSUME NEW a \in Nat, NEW b \in Nat, a < b
  PROVE  /\ Units(a + 1, b) # <<>>
         /\ Tail(Units(a + 1, b)) = Units(a + 1 + 1, b)
<1> DEFINE s == Units(a + 1, b)
<1> DEFINE u == Units(a + 1 + 1, b)
<1>1. s \in Seq(Nat) /\ Len(s) = b - a /\ \A i \in 1..(b - a) : s[i] = a + i
  BY UnitsAreASeq
<1>2. /\ u \in Seq(Nat) /\ Len(u) = b - (a + 1)
      /\ \A i \in 1..(b - (a + 1)) : u[i] = a + 1 + i
  BY UnitsAreASeq, a + 1 <= b, a + 1 \in Nat
<1> HIDE DEF s, u
<1>3. s # <<>>
  BY <1>1
<1>4. /\ Tail(s) \in Seq(Nat) /\ Len(Tail(s)) = Len(s) - 1
      /\ \A i \in 1..Len(Tail(s)) : Tail(s)[i] = s[i + 1]
  BY <1>1, <1>3, HeadTailProperties
<1>5. Len(Tail(s)) = Len(u) /\ \A i \in 1..Len(u) : Tail(s)[i] = u[i]
  BY <1>1, <1>2, <1>4
<1>6. Tail(s) = u
  BY <1>2, <1>4, <1>5, SeqEqual
<1>7. QED
  BY <1>3, <1>6 DEF s, u

(* A run goes on where the one before it ends.                             *)
LEMMA UnitsConcat ==
  ASSUME NEW a \in Nat, NEW b \in Nat, NEW d \in Nat, a <= b, b <= d
  PROVE  Units(a + 1, b) \o Units(b + 1, d) = Units(a + 1, d)
<1> DEFINE s == Units(a + 1, b)
<1> DEFINE t == Units(b + 1, d)
<1> DEFINE u == Units(a + 1, d)
<1>1. s \in Seq(Nat) /\ Len(s) = b - a /\ \A i \in 1..(b - a) : s[i] = a + i
  BY UnitsAreASeq
<1>2. t \in Seq(Nat) /\ Len(t) = d - b /\ \A i \in 1..(d - b) : t[i] = b + i
  BY UnitsAreASeq
<1>3. u \in Seq(Nat) /\ Len(u) = d - a /\ \A i \in 1..(d - a) : u[i] = a + i
  BY UnitsAreASeq, a <= d
<1> HIDE DEF s, t, u
<1>4. /\ s \o t \in Seq(Nat) /\ Len(s \o t) = Len(s) + Len(t)
      /\ \A i \in 1..Len(s) + Len(t) :
           (s \o t)[i] = IF i <= Len(s) THEN s[i] ELSE t[i - Len(s)]
  BY <1>1, <1>2, ConcatProperties
<1>5. \A i \in 1..(d - a) : (s \o t)[i] = a + i
  BY <1>1, <1>2, <1>4
<1>6. Len(s \o t) = Len(u) /\ \A i \in 1..Len(u) : (s \o t)[i] = u[i]
  BY <1>1, <1>2, <1>3, <1>4, <1>5
<1>7. s \o t = u
  BY <1>3, <1>4, <1>6, SeqEqual
<1>8. QED
  BY <1>7 DEF s, t, u

(* Cutting a run after its first n units leaves two runs.                  *)
LEMMA UnitsCut ==
  ASSUME NEW a \in Nat, NEW b \in Nat, NEW n \in Nat, a + n <= b
  PROVE  /\ First(n, Units(a + 1, b)) = Units(a + 1, a + n)
         /\ After(n, Units(a + 1, b)) = Units(a + n + 1, b)
<1> DEFINE s == Units(a + 1, b)
<1> DEFINE t == Units(a + 1, a + n)
<1> DEFINE u == Units(a + n + 1, b)
<1>1. s \in Seq(Nat) /\ Len(s) = b - a /\ \A i \in 1..(b - a) : s[i] = a + i
  BY UnitsAreASeq, a <= b
<1>2. t \in Seq(Nat) /\ Len(t) = n /\ \A i \in 1..n : t[i] = a + i
  BY UnitsAreASeq, a <= a + n, a + n \in Nat, (a + n) - a = n
<1>3. /\ u \in Seq(Nat) /\ Len(u) = b - (a + n)
      /\ \A i \in 1..(b - (a + n)) : u[i] = a + n + i
  BY UnitsAreASeq, a + n \in Nat
<1> HIDE DEF s, t, u
<1>4. First(n, s) = t
  <2>1. \A i \in 1..n : s[i] \in Nat
    BY <1>1
  <2>2. /\ SubSeq(s, 1, n) \in Seq(Nat) /\ Len(SubSeq(s, 1, n)) = n
        /\ \A i \in 1..n : SubSeq(s, 1, n)[i] = s[i]
    <3>1. /\ SubSeq(s, 1, n) \in Seq(Nat)
          /\ Len(SubSeq(s, 1, n)) = IF 1 <= n THEN n - 1 + 1 ELSE 0
          /\ \A i \in 1..(n - 1 + 1) : SubSeq(s, 1, n)[i] = s[1 + i - 1]
      BY <2>1, 1 \in Int, n \in Int, SubSeqProperties
    <3>2. QED
      BY <3>1
  <2>3. \A i \in 1..n : SubSeq(s, 1, n)[i] = t[i]
    BY <1>1, <1>2, <2>2
  <2>4. QED
    BY <1>2, <2>2, <2>3, SeqEqual DEF First
<1>5. After(n, s) = u
  <2>1. \A i \in (n + 1)..Len(s) : s[i] \in Nat
    BY <1>1
  <2>2. /\ SubSeq(s, n + 1, Len(s)) \in Seq(Nat)
        /\ Len(SubSeq(s, n + 1, Len(s))) = Len(s) - n
        /\ \A i \in 1..(Len(s) - n) : SubSeq(s, n + 1, Len(s))[i] = s[n + i]
    <3>1. /\ SubSeq(s, n + 1, Len(s)) \in Seq(Nat)
          /\ Len(SubSeq(s, n + 1, Len(s)))
               = IF n + 1 <= Len(s) THEN Len(s) - (n + 1) + 1 ELSE 0
          /\ \A i \in 1..(Len(s) - (n + 1) + 1) :
               SubSeq(s, n + 1, Len(s))[i] = s[n + 1 + i - 1]
      BY <1>1, <2>1, n + 1 \in Int, Len(s) \in Int, SubSeqProperties
    <3>2. QED
      BY <1>1, <3>1
  <2>3. Len(SubSeq(s, n + 1, Len(s))) = Len(u)
    BY <1>1, <1>3, <2>2
  <2>4. \A i \in 1..Len(u) : SubSeq(s, n + 1, Len(s))[i] = u[i]
    BY <1>1, <1>3, <2>2
  <2>5. QED
    BY <1>3, <2>2, <2>3, <2>4, SeqEqual DEF After
<1>6. QED
  BY <1>4, <1>5 DEF s, t, u

(* Smaller is a lower bound of its two arguments.                          *)
LEMMA SmallerOfBoth ==
  ASSUME NEW m \in Nat, NEW n \in Nat
  PROVE  Smaller(m, n) \in Nat /\ Smaller(m, n) <= m /\ Smaller(m, n) <= n
  BY DEF Smaller

(* A run within the bound has the type of a buffer.                        *)
LEMMA UnitsTyped ==
  ASSUME NEW a \in 0..MaxUnits, NEW b \in 0..MaxUnits
  PROVE  Units(a + 1, b) \in UnitSeqs
<1>1. a + 1 \in 1..(MaxUnits + 1)
  BY NetAssumption
<1>2. QED
  BY <1>1 DEF UnitSeqs

(* So has the empty buffer.                                                *)
LEMMA EmptyTyped == <<>> \in UnitSeqs
<1>1. 0 \in 0..MaxUnits
  BY NetAssumption
<1>2. Units(0 + 1, 0) = <<>>
  BY NoUnits
<1>3. QED
  BY <1>1, <1>2, UnitsTyped

-----------------------------------------------------------------------------
USE DEF loop, tcb, up, down

Phases == {"select", "poll", "service", "over"}
Callers == {"no", "waiting", "left", "refused", "has", "gone"}
Entries == {"none", "there", "removed"}
Socks == {"none", "synsent", "est", "finwait", "closewait", "lastack", "timewait",
          "closed"}

(* NetTypeOK in three parts, as the steps change them.                     *)
ControlTypeOK ==
  /\ phase \in Phases
  /\ todo \subseteq Conns
  /\ silent \subseteq Conns
  /\ caller \in [Conns -> Callers]
  /\ cmds \subseteq Conns
  /\ entry \in [Conns -> Entries]
  /\ sock \in [Conns -> Socks]
  /\ established \in [Conns -> BOOLEAN]
  /\ half \in [Conns -> BOOLEAN]
  /\ closeIn \in [Conns -> BOOLEAN]

UpTypeOK ==
  /\ dataIn \in [Conns -> UnitSeqs]
  /\ pending \in [Conns -> UnitSeqs]
  /\ tx \in [Conns -> UnitSeqs]
  /\ sentUp \in [Conns -> 0..MaxUnits]
  /\ gotUp \in [Conns -> 0..MaxUnits]
  /\ \A c \in Conns : Len(tx[c]) <= SocketBuf

DownTypeOK ==
  /\ rx \in [Conns -> UnitSeqs]
  /\ toApp \in [Conns -> UnitSeqs]
  /\ sentDown \in [Conns -> 0..MaxUnits]
  /\ gotDown \in [Conns -> 0..MaxUnits]
  /\ \A c \in Conns : Len(toApp[c]) <= AppQueue /\ Len(rx[c]) <= SocketBuf

(* The type invariant in three parts: the loop, the way up, the way down.  *)
LEMMA TypeParts == NetTypeOK <=> ControlTypeOK /\ UpTypeOK /\ DownTypeOK
<1>1. {established, half, closeIn} \subseteq [Conns -> BOOLEAN]
        <=> /\ established \in [Conns -> BOOLEAN]
            /\ half \in [Conns -> BOOLEAN]
            /\ closeIn \in [Conns -> BOOLEAN]
  OBVIOUS
<1>2. {dataIn, pending, tx, rx, toApp} \subseteq [Conns -> UnitSeqs]
        <=> /\ dataIn \in [Conns -> UnitSeqs]
            /\ pending \in [Conns -> UnitSeqs]
            /\ tx \in [Conns -> UnitSeqs]
            /\ rx \in [Conns -> UnitSeqs]
            /\ toApp \in [Conns -> UnitSeqs]
  OBVIOUS
<1>3. {sentUp, sentDown, gotUp, gotDown} \subseteq [Conns -> 0..MaxUnits]
        <=> /\ sentUp \in [Conns -> 0..MaxUnits]
            /\ sentDown \in [Conns -> 0..MaxUnits]
            /\ gotUp \in [Conns -> 0..MaxUnits]
            /\ gotDown \in [Conns -> 0..MaxUnits]
  OBVIOUS
<1>4. QED
  BY <1>1, <1>2, <1>3, Zenon DEF NetTypeOK, ControlTypeOK, UpTypeOK, DownTypeOK, Phases,
    Callers, Entries, Socks

(* At the start there is no entry and every buffer is empty.               *)
LEMMA NetStarts == NetInit => NetIInv
<1> SUFFICES ASSUME NetInit PROVE NetIInv
  OBVIOUS
<1>1. 0 \in 0..MaxUnits /\ Len(<<>>) = 0 /\ 0 <= SocketBuf /\ 0 <= AppQueue
  BY NetAssumption
<1>2. ControlTypeOK
  BY DEF NetInit, ControlTypeOK, Phases, Callers, Entries, Socks
<1>3. UpTypeOK
  BY <1>1, EmptyTyped DEF NetInit, UpTypeOK
<1>4. DownTypeOK
  BY <1>1, EmptyTyped DEF NetInit, DownTypeOK
<1>5. OnlyLiveServiced
  BY DEF NetInit, OnlyLiveServiced
<1>6. ASSUME NEW c \in Conns PROVE ConnInv(c)
  <2>1. Units(0 + 1, 0) = <<>>
    BY NoUnits
  <2>2. NotYetOpen(c) /\ RelayIsAnswered(c)
    BY DEF NetInit, NotYetOpen, RelayIsAnswered
  <2>3. UpInOrder(c)
    BY <1>1, <2>1 DEF NetInit, UpInOrder
  <2>4. DownInOrder(c)
    BY <1>1, <2>1 DEF NetInit, DownInOrder
  <2>5. QED
    BY <2>2, <2>3, <2>4 DEF ConnInv
<1>7. QED
  BY <1>2, <1>3, <1>4, <1>5, <1>6, TypeParts DEF NetIInv

-----------------------------------------------------------------------------
(* What a step that moves no unit of a connection has to keep.             *)
LEMMA UpStays ==
  ASSUME NEW c \in Conns, UpInOrder(c),
         dataIn'[c] = dataIn[c], pending'[c] = pending[c], tx'[c] = tx[c],
         sentUp'[c] = sentUp[c], gotUp'[c] = gotUp[c],
         entry[c] = "removed" => entry'[c] = "removed"
  PROVE  UpInOrder(c)'
  BY DEF UpInOrder

(* The way down stays in order when its buffers stay as they are.          *)
LEMMA DownStays ==
  ASSUME NEW c \in Conns, DownInOrder(c),
         rx'[c] = rx[c], toApp'[c] = toApp[c],
         sentDown'[c] = sentDown[c], gotDown'[c] = gotDown[c],
         entry[c] = "removed" => entry'[c] = "removed",
         caller'[c] = "gone" <=> caller[c] = "gone"
  PROVE  DownInOrder(c)'
  BY DEF DownInOrder

(* The other connections of a step.                                        *)
LEMMA ConnStays ==
  ASSUME NEW c \in Conns, ConnInv(c),
         caller'[c] = caller[c], entry'[c] = entry[c], established'[c] = established[c],
         c \in cmds' <=> c \in cmds,
         dataIn'[c] = dataIn[c], pending'[c] = pending[c], tx'[c] = tx[c],
         sentUp'[c] = sentUp[c], gotUp'[c] = gotUp[c],
         rx'[c] = rx[c], toApp'[c] = toApp[c],
         sentDown'[c] = sentDown[c], gotDown'[c] = gotDown[c]
  PROVE  ConnInv(c)'
<1>1. NotYetOpen(c)' /\ RelayIsAnswered(c)'
  BY DEF ConnInv, NotYetOpen, RelayIsAnswered
<1>2. UpInOrder(c)' /\ DownInOrder(c)'
  BY UpStays, DownStays DEF ConnInv
<1>3. QED
  BY <1>1, <1>2 DEF ConnInv

(* A step that leaves the units where they are.                            *)
LEMMA QuietKeeps ==
  ASSUME NetIInv, UNCHANGED <<dataIn, pending, tx, sentUp, gotUp, down>>,
         ControlTypeOK', OnlyLiveServiced',
         \A c \in Conns :
           /\ NotYetOpen(c)'
           /\ RelayIsAnswered(c)'
           /\ entry[c] = "removed" => entry'[c] = "removed"
           /\ caller'[c] = "gone" <=> caller[c] = "gone"
  PROVE  NetIInv'
<1>1. UpTypeOK' /\ DownTypeOK'
  BY TypeParts DEF NetIInv, UpTypeOK, DownTypeOK
<1>2. ASSUME NEW c \in Conns PROVE ConnInv(c)'
  <2>1. UpInOrder(c)' /\ DownInOrder(c)'
    BY UpStays, DownStays DEF NetIInv, ConnInv
  <2>2. QED
    BY <2>1 DEF ConnInv
<1>3. NetTypeOK'
  <2>1. NetTypeOK' <=> ControlTypeOK' /\ UpTypeOK' /\ DownTypeOK'
    BY TypeParts, PTL
  <2>2. QED
    BY <1>1, <2>1
<1>4. QED
  BY <1>2, <1>3 DEF NetIInv

(* The calls of open_tcp and close.                                        *)
LEMMA CallsKeep ==
  ASSUME NetIInv, NEW c \in Conns,
         OpenTcp(c) \/ CallerLeaves(c) \/ RelayCloses(c)
  PROVE  NetIInv'
<1>1. UNCHANGED <<dataIn, pending, tx, sentUp, gotUp, down, entry, phase, todo, silent,
                  sock, established, half>>
  BY DEF OpenTcp, CallerLeaves, RelayCloses
<1>2. ControlTypeOK'
  BY TypeParts DEF NetIInv, ControlTypeOK, Callers, OpenTcp, CallerLeaves, RelayCloses
<1>3. OnlyLiveServiced'
  BY <1>1 DEF NetIInv, OnlyLiveServiced, Live
<1>4. ASSUME NEW d \in Conns
      PROVE  /\ NotYetOpen(d)' /\ RelayIsAnswered(d)'
             /\ caller'[d] = "gone" <=> caller[d] = "gone"
  <2>1. NotYetOpen(d) /\ RelayIsAnswered(d) /\ NotYetOpen(c) /\ ControlTypeOK
    BY TypeParts DEF NetIInv, ConnInv
  <2>2. CASE OpenTcp(c)
    BY <1>1, <2>1, <2>2 DEF OpenTcp, NotYetOpen, RelayIsAnswered, ControlTypeOK, Callers
  <2>3. CASE CallerLeaves(c) \/ RelayCloses(c)
    BY <1>1, <2>1, <2>3
    DEF CallerLeaves, RelayCloses, NotYetOpen, RelayIsAnswered, ControlTypeOK, Callers
  <2>4. QED
    BY <2>2, <2>3
<1>5. QED
  BY <1>1, <1>2, <1>3, <1>4, QuietKeeps

(* The turns that take no data, and the end of the stack.                  *)
LEMMA TurnsKeep ==
  ASSUME NetIInv,
         \/ Wake \/ Polled \/ StackEnds
         \/ \E c \in Conns : TakeOpen(c) \/ TakeOpenFails(c)
  PROVE  NetIInv'
<1>1. UNCHANGED <<dataIn, closeIn, pending, tx, sentUp, gotUp, down, silent, established,
                  half>>
  BY DEF Wake, Polled, StackEnds, TakeOpen, TakeOpenFails, Service
<1>2. Live \subseteq Conns /\ ControlTypeOK
  BY TypeParts DEF NetIInv, Live
<1>3. ControlTypeOK'
  <2>1. CASE Wake \/ Polled
    BY <1>2, <2>1 DEF ControlTypeOK, Phases, Wake, Polled, Service
  <2>2. CASE StackEnds
    BY <1>2, <2>2 DEF ControlTypeOK, Phases, Callers, Entries, StackEnds
  <2>3. ASSUME NEW c \in Conns, TakeOpen(c) \/ TakeOpenFails(c) PROVE ControlTypeOK'
    BY <1>2, <2>3 DEF ControlTypeOK, Phases, Callers, Entries, Socks, TakeOpen,
      TakeOpenFails, Service
  <2>4. QED
    BY <2>1, <2>2, <2>3
<1>4. OnlyLiveServiced'
  <2>1. CASE Wake \/ Polled \/ StackEnds
    BY <2>1 DEF OnlyLiveServiced, Live, Wake, Polled, StackEnds, Service
  <2>2. ASSUME NEW c \in Conns, TakeOpen(c) \/ TakeOpenFails(c) PROVE OnlyLiveServiced'
    BY <1>2, <2>2 DEF ControlTypeOK, OnlyLiveServiced, Live, TakeOpen, TakeOpenFails,
      Service
  <2>3. QED
    BY <2>1, <2>2
<1>5. ASSUME NEW d \in Conns
      PROVE  /\ NotYetOpen(d)' /\ RelayIsAnswered(d)'
             /\ entry[d] = "removed" => entry'[d] = "removed"
             /\ caller'[d] = "gone" <=> caller[d] = "gone"
  <2>1. NotYetOpen(d) /\ RelayIsAnswered(d)
    BY DEF NetIInv, ConnInv
  <2>2. CASE Wake \/ Polled
    BY <2>1, <2>2 DEF NotYetOpen, RelayIsAnswered, Wake, Polled, Service
  <2>3. CASE StackEnds
    BY <1>2, <2>1, <2>3
    DEF NotYetOpen, RelayIsAnswered, StackEnds, ControlTypeOK, Live, Entries
  <2>4. ASSUME NEW c \in Conns, TakeOpen(c) \/ TakeOpenFails(c)
        PROVE  /\ NotYetOpen(d)' /\ RelayIsAnswered(d)'
               /\ entry[d] = "removed" => entry'[d] = "removed"
               /\ caller'[d] = "gone" <=> caller[d] = "gone"
    BY <1>2, <2>1, <2>4
    DEF NotYetOpen, RelayIsAnswered, TakeOpen, TakeOpenFails, ControlTypeOK
  <2>5. QED
    BY <2>2, <2>3, <2>4
<1>6. QED
  BY <1>1, <1>3, <1>4, <1>5, QuietKeeps

(* What the peer does to the state of a socket, and service_tcp on one     *)
(* that closed unanswered.                                                 *)
LEMMA SocketsKeep ==
  ASSUME NetIInv, NEW c \in Conns,
         \/ SynAck(c) \/ Reset(c) \/ PeerFin(c) \/ PeerAcksFin(c)
         \/ TimeWaitEnds(c) \/ ServiceRefuses(c)
  PROVE  NetIInv'
<1>1. UNCHANGED <<silent, cmds, established, half, dataIn, closeIn, pending, tx, sentUp,
                  gotUp, down>>
  BY DEF SynAck, Reset, PeerFin, PeerAcksFin, TimeWaitEnds, ServiceRefuses, SocketBecomes,
         Serviced, Service
<1>2. ControlTypeOK
  BY TypeParts DEF NetIInv
<1>3. CASE ServiceRefuses(c)
  <2>1. ControlTypeOK'
    BY <1>2, <1>3 DEF ControlTypeOK, Phases, Callers, Entries, ServiceRefuses, Serviced,
      Service
  <2>2. OnlyLiveServiced'
    BY <1>2, <1>3 DEF NetIInv, OnlyLiveServiced, Live, ControlTypeOK, ServiceRefuses,
      Serviced, Service
  <2>3. ASSUME NEW d \in Conns
        PROVE  /\ NotYetOpen(d)' /\ RelayIsAnswered(d)'
               /\ entry[d] = "removed" => entry'[d] = "removed"
               /\ caller'[d] = "gone" <=> caller[d] = "gone"
    <3>1. /\ NotYetOpen(d) /\ RelayIsAnswered(d) /\ c \in Live
      BY <1>3 DEF NetIInv, ConnInv, OnlyLiveServiced, ServiceRefuses, Serviced
    <3>2. QED
      BY <1>1, <1>2, <1>3, <3>1
      DEF NotYetOpen, RelayIsAnswered, ServiceRefuses, ControlTypeOK, Live
  <2>4. QED
    BY <1>1, <2>1, <2>2, <2>3, QuietKeeps
<1>4. CASE ~ServiceRefuses(c)
  <2>1. UNCHANGED <<phase, todo, caller, entry>> /\ \E s \in Socks : SocketBecomes(c, s)
    BY <1>4 DEF SynAck, Reset, PeerFin, PeerAcksFin, TimeWaitEnds, SocketBecomes, Socks
  <2>2. ControlTypeOK'
    BY <1>1, <1>2, <2>1 DEF ControlTypeOK, SocketBecomes
  <2>3. OnlyLiveServiced'
    BY <2>1 DEF NetIInv, OnlyLiveServiced, Live
  <2>4. ASSUME NEW d \in Conns
        PROVE  /\ NotYetOpen(d)' /\ RelayIsAnswered(d)'
               /\ entry[d] = "removed" => entry'[d] = "removed"
               /\ caller'[d] = "gone" <=> caller[d] = "gone"
    BY <1>1, <2>1 DEF NetIInv, ConnInv, NotYetOpen, RelayIsAnswered
  <2>5. QED
    BY <1>1, <2>2, <2>3, <2>4, QuietKeeps
<1>5. QED
  BY <1>3, <1>4
-----------------------------------------------------------------------------
(* What a step that moves units of one connection, and changes nothing of  *)
(* the table, has to show.                                                 *)
LEMMA OneConnKeeps ==
  ASSUME NetIInv, NEW c \in Conns,
         UNCHANGED <<loop, cmds, tcb>>,
         ControlTypeOK', UpTypeOK', DownTypeOK', ConnInv(c)',
         \A d \in Conns \ {c} :
           /\ caller'[d] = caller[d]
           /\ dataIn'[d] = dataIn[d] /\ pending'[d] = pending[d] /\ tx'[d] = tx[d]
           /\ sentUp'[d] = sentUp[d] /\ gotUp'[d] = gotUp[d]
           /\ rx'[d] = rx[d] /\ toApp'[d] = toApp[d]
           /\ sentDown'[d] = sentDown[d] /\ gotDown'[d] = gotDown[d]
  PROVE  NetIInv'
<1>1. OnlyLiveServiced'
  BY DEF NetIInv, OnlyLiveServiced, Live
<1>2. ASSUME NEW d \in Conns PROVE ConnInv(d)'
  <2>1. CASE d # c
    BY <2>1, ConnStays DEF NetIInv
  <2>2. QED
    BY <2>1
<1>3. NetTypeOK'
  <2>1. NetTypeOK' <=> ControlTypeOK' /\ UpTypeOK' /\ DownTypeOK'
    BY TypeParts, PTL
  <2>2. QED
    BY <2>1
<1>4. QED
  BY <1>1, <1>2, <1>3 DEF NetIInv

(* A unit the relay sends goes to the end of its channel.                  *)
LEMMA RelaySendsKeeps ==
  ASSUME NetIInv, NEW c \in Conns, RelaySends(c)
  PROVE  NetIInv'
<1>1. /\ UNCHANGED <<loop, caller, cmds, tcb, closeIn, pending, tx, gotUp, down>>
      /\ caller[c] = "has" /\ sentUp[c] < MaxUnits
      /\ sentUp' = [sentUp EXCEPT ![c] = @ + 1]
      /\ dataIn' = [dataIn EXCEPT ![c] = Append(@, sentUp'[c])]
  BY DEF RelaySends
<1>2. ControlTypeOK /\ UpTypeOK /\ DownTypeOK /\ ConnInv(c)
  BY TypeParts DEF NetIInv
<1>3. sentUp[c] \in Nat /\ sentUp'[c] = sentUp[c] + 1
      /\ dataIn'[c] = Append(dataIn[c], sentUp[c] + 1)
  BY <1>1, <1>2, NetAssumption DEF UpTypeOK
<1>4. PICK m, n \in 0..MaxUnits :
        /\ gotUp[c] <= m /\ m <= n /\ n <= sentUp[c]
        /\ dataIn[c] = Units(n + 1, sentUp[c])
        /\ entry[c] # "removed" =>
             tx[c] = Units(gotUp[c] + 1, m) /\ pending[c] = Units(m + 1, n)
  BY <1>2 DEF ConnInv, UpInOrder
<1>5. dataIn'[c] = Units(n + 1, sentUp'[c])
  <2>1. n \in Nat /\ n <= sentUp[c]
    BY <1>4, NetAssumption
  <2>2. Append(Units(n + 1, sentUp[c]), sentUp[c] + 1) = Units(n + 1, sentUp[c] + 1)
    BY <1>3, <2>1, UnitsAppend
  <2>3. QED
    BY <1>3, <1>4, <2>2
<1>6. sentUp'[c] \in 0..MaxUnits /\ n <= sentUp'[c]
  BY <1>1, <1>3, <1>4, NetAssumption
<1>7. UpTypeOK'
  <2>1. dataIn'[c] \in UnitSeqs
    BY <1>5, <1>6, UnitsTyped
  <2>2. dataIn' = [dataIn EXCEPT ![c] = dataIn'[c]]
        /\ sentUp' = [sentUp EXCEPT ![c] = sentUp'[c]]
    BY <1>1, <1>2, <1>3 DEF UpTypeOK
  <2>3. QED
    BY <1>1, <1>2, <1>6, <2>1, <2>2 DEF UpTypeOK
<1>8. ControlTypeOK' /\ DownTypeOK'
  BY <1>1, <1>2 DEF ControlTypeOK, DownTypeOK
<1>9. UpInOrder(c)'
  BY <1>1, <1>4, <1>5, <1>6 DEF UpInOrder
<1>10. NotYetOpen(c)' /\ RelayIsAnswered(c)' /\ DownInOrder(c)'
  <2>1. entry[c] # "none"
    BY <1>1, <1>2 DEF ConnInv, NotYetOpen
  <2>2. QED
    BY <1>1, <1>2, <2>1, DownStays DEF ConnInv, NotYetOpen, RelayIsAnswered
<1>11. QED
  BY <1>1, <1>7, <1>8, <1>9, <1>10, OneConnKeeps, <1>2 DEF ConnInv, UpTypeOK

(* A unit the peer acknowledges leaves the front of the socket's buffer.   *)
LEMMA PeerAcksKeeps ==
  ASSUME NetIInv, NEW c \in Conns, PeerAcks(c)
  PROVE  NetIInv'
<1>1. /\ UNCHANGED <<loop, caller, cmds, tcb, dataIn, closeIn, pending, sentUp, down>>
      /\ c \in Live /\ tx[c] # <<>>
      /\ tx' = [tx EXCEPT ![c] = Tail(@)]
      /\ gotUp' = [gotUp EXCEPT ![c] = @ + 1]
  BY DEF PeerAcks, PeerMay
<1>2. ControlTypeOK /\ UpTypeOK /\ DownTypeOK /\ ConnInv(c)
  BY TypeParts DEF NetIInv
<1>3. /\ gotUp[c] \in Nat /\ sentUp[c] \in 0..MaxUnits /\ gotUp'[c] = gotUp[c] + 1
      /\ tx'[c] = Tail(tx[c]) /\ entry[c] # "removed"
  BY <1>1, <1>2, NetAssumption DEF UpTypeOK, Live
<1>4. PICK m, n \in 0..MaxUnits :
        /\ gotUp[c] <= m /\ m <= n /\ n <= sentUp[c]
        /\ dataIn[c] = Units(n + 1, sentUp[c])
        /\ tx[c] = Units(gotUp[c] + 1, m) /\ pending[c] = Units(m + 1, n)
  BY <1>2, <1>3 DEF ConnInv, UpInOrder
<1>5. gotUp[c] < m
  <2>1. CASE gotUp[c] = m
    BY <1>1, <1>3, <1>4, <2>1, NoUnits
  <2>2. QED
    BY <1>3, <1>4, <2>1, NetAssumption
<1>6. tx'[c] = Units(gotUp'[c] + 1, m)
  <2>1. m \in Nat
    BY NetAssumption
  <2>2. Tail(Units(gotUp[c] + 1, m)) = Units(gotUp[c] + 1 + 1, m)
    BY <1>3, <1>5, <2>1, UnitsTail
  <2>3. QED
    BY <1>3, <1>4, <2>2
<1>7. gotUp'[c] \in 0..MaxUnits /\ gotUp'[c] <= m
  BY <1>3, <1>4, <1>5, NetAssumption
<1>8. UpTypeOK'
  <2>1. tx'[c] \in UnitSeqs
    BY <1>6, <1>7, UnitsTyped
  <2>2. Len(tx'[c]) <= SocketBuf
    <3>1. Len(Units(gotUp'[c] + 1, m)) = m - gotUp'[c]
          /\ Len(Units(gotUp[c] + 1, m)) = m - gotUp[c]
      <4>1. m \in Nat /\ gotUp'[c] \in Nat /\ gotUp[c] <= m
        BY <1>4, <1>7, NetAssumption
      <4>2. QED
        BY <1>3, <1>7, <4>1, UnitsAreASeq
    <3>2. Len(tx[c]) <= SocketBuf
      BY <1>2 DEF UpTypeOK
    <3>3. QED
      BY <1>3, <1>4, <1>6, <3>1, <3>2, NetAssumption
  <2>3. tx' = [tx EXCEPT ![c] = tx'[c]] /\ gotUp' = [gotUp EXCEPT ![c] = gotUp'[c]]
    BY <1>1, <1>2, <1>3 DEF UpTypeOK
  <2>4. QED
    BY <1>1, <1>2, <1>7, <2>1, <2>2, <2>3 DEF UpTypeOK
<1>9. ControlTypeOK' /\ DownTypeOK'
  BY <1>1, <1>2 DEF ControlTypeOK, DownTypeOK
<1>10. UpInOrder(c)'
  BY <1>1, <1>4, <1>6, <1>7 DEF UpInOrder
<1>11. NotYetOpen(c)' /\ RelayIsAnswered(c)' /\ DownInOrder(c)'
  BY <1>1, <1>2, DownStays DEF ConnInv, NotYetOpen, RelayIsAnswered
<1>12. QED
  BY <1>1, <1>8, <1>9, <1>10, <1>11, OneConnKeeps, <1>2 DEF ConnInv, UpTypeOK

(* A unit the peer sends goes to the end of the socket's receive buffer.   *)
LEMMA PeerSendsKeeps ==
  ASSUME NetIInv, NEW c \in Conns, PeerSends(c)
  PROVE  NetIInv'
<1>1. /\ UNCHANGED <<loop, caller, cmds, tcb, up, toApp, gotDown>>
      /\ c \in Live /\ Len(rx[c]) < SocketBuf /\ sentDown[c] < MaxUnits
      /\ sentDown' = [sentDown EXCEPT ![c] = @ + 1]
      /\ rx' = [rx EXCEPT ![c] = Append(@, sentDown'[c])]
  BY DEF PeerSends, PeerMay
<1>2. ControlTypeOK /\ UpTypeOK /\ DownTypeOK /\ ConnInv(c)
  BY TypeParts DEF NetIInv
<1>3. /\ sentDown[c] \in Nat /\ sentDown'[c] = sentDown[c] + 1
      /\ rx'[c] = Append(rx[c], sentDown[c] + 1) /\ entry[c] = "there"
  BY <1>1, <1>2, NetAssumption DEF DownTypeOK, Live
<1>4. PICK m \in 0..MaxUnits :
        /\ m <= sentDown[c]
        /\ rx[c] = Units(m + 1, sentDown[c])
        /\ IF caller[c] = "gone" THEN toApp[c] = <<>>
           ELSE gotDown[c] <= m /\ toApp[c] = Units(gotDown[c] + 1, m)
  BY <1>2, <1>3 DEF ConnInv, DownInOrder
<1>5. rx'[c] = Units(m + 1, sentDown'[c])
  <2>1. m \in Nat /\ m <= sentDown[c]
    BY <1>4, NetAssumption
  <2>2. Append(Units(m + 1, sentDown[c]), sentDown[c] + 1) = Units(m + 1, sentDown[c] + 1)
    BY <1>3, <2>1, UnitsAppend
  <2>3. QED
    BY <1>3, <1>4, <2>2
<1>6. sentDown'[c] \in 0..MaxUnits /\ m <= sentDown'[c]
  BY <1>1, <1>3, <1>4, NetAssumption
<1>7. DownTypeOK'
  <2>1. rx'[c] \in UnitSeqs
    BY <1>5, <1>6, UnitsTyped
  <2>2. Len(rx'[c]) <= SocketBuf
    <3>1. Len(Units(m + 1, sentDown'[c])) = sentDown'[c] - m
          /\ Len(Units(m + 1, sentDown[c])) = sentDown[c] - m
      <4>1. m \in Nat /\ sentDown'[c] \in Nat /\ m <= sentDown[c]
        BY <1>4, <1>6, NetAssumption
      <4>2. QED
        BY <1>3, <1>6, <4>1, UnitsAreASeq
    <3>2. Len(rx[c]) < SocketBuf /\ SocketBuf \in Nat /\ m \in Nat
      BY <1>1, NetAssumption
    <3>3. QED
      BY <1>3, <1>4, <1>5, <3>1, <3>2
  <2>3. rx' = [rx EXCEPT ![c] = rx'[c]]
        /\ sentDown' = [sentDown EXCEPT ![c] = sentDown'[c]]
    BY <1>1, <1>2, <1>3 DEF DownTypeOK
  <2>4. QED
    BY <1>1, <1>2, <1>6, <2>1, <2>2, <2>3 DEF DownTypeOK
<1>8. ControlTypeOK' /\ UpTypeOK'
  BY <1>1, <1>2 DEF ControlTypeOK, UpTypeOK
<1>9. DownInOrder(c)'
  BY <1>1, <1>4, <1>5, <1>6 DEF DownInOrder
<1>10. NotYetOpen(c)' /\ RelayIsAnswered(c)' /\ UpInOrder(c)'
  BY <1>1, <1>2, <1>3, UpStays DEF ConnInv, NotYetOpen, RelayIsAnswered
<1>11. QED
  BY <1>1, <1>7, <1>8, <1>9, <1>10, OneConnKeeps, <1>2 DEF ConnInv, DownTypeOK

(* A unit the relay reads leaves the front of its channel.                 *)
LEMMA RelayReceivesKeeps ==
  ASSUME NetIInv, NEW c \in Conns, RelayReceives(c)
  PROVE  NetIInv'
<1>1. /\ UNCHANGED <<loop, caller, cmds, tcb, up, rx, sentDown>>
      /\ caller[c] = "has" /\ toApp[c] # <<>>
      /\ toApp' = [toApp EXCEPT ![c] = Tail(@)]
      /\ gotDown' = [gotDown EXCEPT ![c] = @ + 1]
  BY DEF RelayReceives
<1>2. ControlTypeOK /\ UpTypeOK /\ DownTypeOK /\ ConnInv(c)
  BY TypeParts DEF NetIInv
<1>3. /\ gotDown[c] \in Nat /\ gotDown'[c] = gotDown[c] + 1
      /\ sentDown[c] \in 0..MaxUnits /\ toApp'[c] = Tail(toApp[c])
  BY <1>1, <1>2, NetAssumption DEF DownTypeOK
<1>4. PICK m \in 0..MaxUnits :
        /\ m <= sentDown[c]
        /\ entry[c] # "removed" => rx[c] = Units(m + 1, sentDown[c])
        /\ gotDown[c] <= m /\ toApp[c] = Units(gotDown[c] + 1, m)
  BY <1>1, <1>2 DEF ConnInv, DownInOrder
<1>5. m \in Nat /\ gotDown[c] < m
  <2>1. CASE gotDown[c] = m
    BY <1>1, <1>3, <1>4, <2>1, NoUnits
  <2>2. QED
    BY <1>3, <1>4, <2>1, NetAssumption
<1>6. toApp'[c] = Units(gotDown'[c] + 1, m)
  <2>1. Tail(Units(gotDown[c] + 1, m)) = Units(gotDown[c] + 1 + 1, m)
    BY <1>3, <1>5, UnitsTail
  <2>2. QED
    BY <1>3, <1>4, <2>1
<1>7. gotDown'[c] \in 0..MaxUnits /\ gotDown'[c] <= m
  BY <1>3, <1>4, <1>5, NetAssumption
<1>8. DownTypeOK'
  <2>1. toApp'[c] \in UnitSeqs
    BY <1>6, <1>7, UnitsTyped
  <2>2. Len(toApp'[c]) <= AppQueue
    <3>1. Len(Units(gotDown'[c] + 1, m)) = m - gotDown'[c]
          /\ Len(Units(gotDown[c] + 1, m)) = m - gotDown[c]
      <4>1. gotDown'[c] \in Nat /\ gotDown'[c] <= m /\ gotDown[c] <= m
        BY <1>3, <1>5
      <4>2. Len(Units(gotDown'[c] + 1, m)) = m - gotDown'[c]
        BY <1>5, <4>1, UnitsAreASeq
      <4>3. Len(Units(gotDown[c] + 1, m)) = m - gotDown[c]
        BY <1>3, <1>5, <4>1, UnitsAreASeq
      <4>4. QED
        BY <4>2, <4>3
    <3>2. Len(toApp[c]) <= AppQueue
      BY <1>2 DEF DownTypeOK
    <3>3. QED
      BY <1>3, <1>4, <1>5, <1>6, <3>1, <3>2, NetAssumption
  <2>3. toApp' = [toApp EXCEPT ![c] = toApp'[c]]
        /\ gotDown' = [gotDown EXCEPT ![c] = gotDown'[c]]
    BY <1>1, <1>2, <1>3 DEF DownTypeOK
  <2>4. QED
    BY <1>1, <1>2, <1>7, <2>1, <2>2, <2>3 DEF DownTypeOK
<1>9. ControlTypeOK' /\ UpTypeOK'
  BY <1>1, <1>2 DEF ControlTypeOK, UpTypeOK
<1>10. DownInOrder(c)'
  BY <1>1, <1>4, <1>6, <1>7 DEF DownInOrder
<1>11. NotYetOpen(c)' /\ RelayIsAnswered(c)' /\ UpInOrder(c)'
  BY <1>1, <1>2, UpStays DEF ConnInv, NotYetOpen, RelayIsAnswered
<1>12. QED
  BY <1>1, <1>8, <1>9, <1>10, <1>11, OneConnKeeps, <1>2 DEF ConnInv, DownTypeOK

(* The relay that goes takes what is in its channel with it.               *)
LEMMA RelayDropsKeeps ==
  ASSUME NetIInv, NEW c \in Conns, RelayDrops(c)
  PROVE  NetIInv'
<1>1. /\ UNCHANGED <<loop, cmds, tcb, up, rx, sentDown, gotDown>>
      /\ caller[c] = "has"
      /\ caller' = [caller EXCEPT ![c] = "gone"]
      /\ toApp' = [toApp EXCEPT ![c] = <<>>]
  BY DEF RelayDrops
<1>2. ControlTypeOK /\ UpTypeOK /\ DownTypeOK /\ ConnInv(c)
  BY TypeParts DEF NetIInv
<1>3. caller'[c] = "gone" /\ toApp'[c] = <<>>
  BY <1>1, <1>2 DEF ControlTypeOK, DownTypeOK
<1>4. ControlTypeOK' /\ UpTypeOK'
  BY <1>1, <1>2 DEF ControlTypeOK, UpTypeOK, Callers
<1>5. DownTypeOK'
  <2>1. Len(<<>>) <= AppQueue
    BY NetAssumption
  <2>2. QED
    BY <1>1, <1>2, <2>1, EmptyTyped DEF DownTypeOK
<1>6. DownInOrder(c)'
  BY <1>1, <1>2, <1>3 DEF ConnInv, DownInOrder
<1>7. NotYetOpen(c)' /\ RelayIsAnswered(c)' /\ UpInOrder(c)'
  BY <1>1, <1>2, <1>3, UpStays DEF ConnInv, NotYetOpen, RelayIsAnswered
<1>8. QED
  BY <1>1, <1>4, <1>5, <1>6, <1>7, OneConnKeeps, <1>2 DEF ConnInv, ControlTypeOK, DownTypeOK

(* The data channel is drained into the pending queues, in order.          *)
LEMMA TakeDataKeeps ==
  ASSUME NetIInv, TakeData
  PROVE  NetIInv'
<1>1. /\ UNCHANGED <<silent, caller, cmds, entry, sock, established, tx, sentUp, gotUp,
                     down>>
      /\ pending' = [c \in Conns |-> IF entry[c] = "there" THEN pending[c] \o dataIn[c]
                                                           ELSE pending[c]]
      /\ half' = [c \in Conns |-> half[c] \/ (closeIn[c] /\ entry[c] = "there")]
      /\ dataIn' = [c \in Conns |-> <<>>]
      /\ closeIn' = [c \in Conns |-> FALSE]
      /\ phase' \in {"select", "service"} /\ todo' = Live
  BY DEF TakeData, Service
<1>2. ControlTypeOK /\ UpTypeOK /\ DownTypeOK
  BY TypeParts DEF NetIInv
<1>3. ControlTypeOK'
  <2>1. half' \in [Conns -> BOOLEAN] /\ closeIn' \in [Conns -> BOOLEAN]
    BY <1>1
  <2>2. QED
    BY <1>1, <1>2, <2>1 DEF ControlTypeOK, Phases, Live
<1>4. OnlyLiveServiced'
  BY <1>1 DEF OnlyLiveServiced, Live
<1>5. ASSUME NEW c \in Conns
      PROVE  UpInOrder(c)' /\ pending'[c] \in UnitSeqs
  <2>1. PICK m, n \in 0..MaxUnits :
          /\ gotUp[c] <= m /\ m <= n /\ n <= sentUp[c]
          /\ dataIn[c] = Units(n + 1, sentUp[c])
          /\ entry[c] # "removed" =>
               tx[c] = Units(gotUp[c] + 1, m) /\ pending[c] = Units(m + 1, n)
    BY DEF NetIInv, ConnInv, UpInOrder
  <2>2. /\ m \in Nat /\ n \in Nat /\ sentUp[c] \in 0..MaxUnits /\ sentUp[c] \in Nat
        /\ gotUp[c] \in Nat
    BY <1>2, NetAssumption DEF UpTypeOK
  <2>3. dataIn'[c] = Units(sentUp[c] + 1, sentUp[c])
    BY <1>1, <2>2, NoUnits
  <2>4. CASE entry[c] = "there"
    <3>1. Units(m + 1, n) \o Units(n + 1, sentUp[c]) = Units(m + 1, sentUp[c])
      BY <2>1, <2>2, UnitsConcat
    <3>2. pending'[c] = Units(m + 1, sentUp[c])
      BY <1>1, <2>1, <2>4, <3>1
    <3>3. m <= sentUp[c]
      BY <2>1, <2>2
    <3>4. UpInOrder(c)'
      BY <1>1, <2>1, <2>2, <2>3, <2>4, <3>2, <3>3 DEF UpInOrder
    <3>5. QED
      BY <2>2, <3>2, <3>4, UnitsTyped
  <2>5. CASE entry[c] = "removed"
    <3>1. gotUp[c] <= m /\ m <= sentUp[c]
      BY <2>1, <2>2
    <3>2. UpInOrder(c)'
      BY <1>1, <2>2, <2>3, <2>5, <3>1 DEF UpInOrder
    <3>3. QED
      BY <1>1, <1>2, <2>5, <3>2 DEF UpTypeOK
  <2>6. CASE entry[c] = "none"
    <3>1. sentUp[c] = 0 /\ n = 0 /\ m = 0
      BY <2>1, <2>2, <2>6 DEF NetIInv, ConnInv, NotYetOpen
    <3>2. pending'[c] = pending[c]
      BY <1>1, <2>6
    <3>3. UpInOrder(c)'
      BY <1>1, <2>1, <2>2, <2>3, <2>6, <3>1, <3>2 DEF UpInOrder
    <3>4. QED
      BY <1>2, <3>2, <3>3 DEF UpTypeOK
  <2>7. QED
    BY <1>2, <2>4, <2>5, <2>6 DEF ControlTypeOK, Entries
<1>6. UpTypeOK' /\ DownTypeOK'
  BY <1>1, <1>2, <1>5, EmptyTyped DEF UpTypeOK, DownTypeOK
<1>7. ASSUME NEW c \in Conns PROVE ConnInv(c)'
  <2>1. NotYetOpen(c) /\ RelayIsAnswered(c) /\ DownInOrder(c)
    BY DEF NetIInv, ConnInv
  <2>2. NotYetOpen(c)' /\ RelayIsAnswered(c)' /\ DownInOrder(c)'
    BY <1>1, <2>1, DownStays DEF NotYetOpen, RelayIsAnswered
  <2>3. QED
    BY <1>5, <2>2 DEF ConnInv
<1>8. NetTypeOK'
  <2>1. NetTypeOK' <=> ControlTypeOK' /\ UpTypeOK' /\ DownTypeOK'
    BY TypeParts, PTL
  <2>2. QED
    BY <1>3, <1>6, <2>1
<1>9. QED
  BY <1>4, <1>7, <1>8 DEF NetIInv

-----------------------------------------------------------------------------
(***************************************************************************)
(* service_tcp: a cut from the front of pending goes behind the socket's   *)
(* buffer, and one from the front of the socket's other buffer behind the  *)
(* relay's channel, whatever the two have room for.                        *)
(***************************************************************************)
LEMMA ServiceTcpKeeps ==
  ASSUME NetIInv, NEW c \in Conns, ServiceTcp(c)
  PROVE  NetIInv'
<1> DEFINE opened == ~established[c] /\ sock[c] = "est"
<1> DEFINE answered == established[c] \/ opened
<1> DEFINE relay == IF opened /\ caller[c] = "waiting" THEN "has" ELSE caller[c]
<1> DEFINE alive == Hears(answered, relay)
<1> DEFINE out == IF sock[c] \in {"est", "closewait"}
                    THEN Smaller(Len(pending[c]), SocketBuf - Len(tx[c])) ELSE 0
<1> DEFINE in == IF alive THEN Deliverable(c) ELSE 0
<1> DEFINE s1 == IF half[c] /\ out = Len(pending[c]) THEN Closed(sock[c]) ELSE sock[c]
<1> DEFINE s2 == IF alive THEN s1 ELSE Closed(s1)
<1> DEFINE s3 == IF s2 = "closewait" THEN Closed(s2) ELSE s2
<1>1. /\ Serviced(c)
      /\ caller' = [caller EXCEPT ![c] = relay]
      /\ established' = [established EXCEPT ![c] = answered]
      /\ sock' = [sock EXCEPT ![c] = s3]
      /\ entry' = [entry EXCEPT ![c] = IF s2 = "closed" /\ answered THEN "removed" ELSE @]
      /\ tx' = [tx EXCEPT ![c] = @ \o First(out, pending[c])]
      /\ pending' = [pending EXCEPT ![c] = Unsent(c, out)]
      /\ toApp' = [toApp EXCEPT ![c] = @ \o First(in, rx[c])]
      /\ rx' = [rx EXCEPT ![c] = After(in, @)]
      /\ UNCHANGED <<cmds, half, dataIn, closeIn, sentUp, gotUp, sentDown, gotDown>>
  BY Zenon DEF ServiceTcp
<1>2. ControlTypeOK /\ UpTypeOK /\ DownTypeOK /\ ConnInv(c)
  BY TypeParts DEF NetIInv
<1>3. /\ c \in todo /\ todo \subseteq Live /\ todo' = todo \ {c}
      /\ phase' \in {"select", "service"} /\ silent' = silent
      /\ entry[c] = "there"
  BY <1>1 DEF NetIInv, OnlyLiveServiced, Live, Serviced, Service
<1>4. relay \in Callers /\ answered \in BOOLEAN /\ s3 \in Socks
  BY <1>2 DEF ControlTypeOK, Callers, Socks, Closed
<1>5. /\ relay = "gone" <=> caller[c] = "gone"
      /\ relay \in {"has", "gone"} => answered
      /\ caller[c] = "gone" => ~alive
  BY <1>2 DEF ConnInv, RelayIsAnswered, Hears
<1> HIDE DEF opened, answered, relay, alive, s1, s2, s3
(* The way up.                                                             *)
<1>6. PICK m, n \in 0..MaxUnits :
        /\ gotUp[c] <= m /\ m <= n /\ n <= sentUp[c]
        /\ dataIn[c] = Units(n + 1, sentUp[c])
        /\ tx[c] = Units(gotUp[c] + 1, m) /\ pending[c] = Units(m + 1, n)
  BY <1>2, <1>3 DEF ConnInv, UpInOrder
<1>7. gotUp[c] \in 0..MaxUnits /\ gotUp[c] \in Nat /\ m \in Nat /\ n \in Nat
  BY <1>2, NetAssumption DEF UpTypeOK
<1>8. Len(tx[c]) = m - gotUp[c] /\ Len(pending[c]) = n - m
  <2>1. Len(Units(gotUp[c] + 1, m)) = m - gotUp[c]
    BY <1>6, <1>7, UnitsAreASeq
  <2>2. Len(Units(m + 1, n)) = n - m
    BY <1>6, <1>7, UnitsAreASeq
  <2>3. QED
    BY <1>6, <2>1, <2>2
<1>9. out \in Nat /\ m + out <= n /\ Len(tx[c]) + out <= SocketBuf
  <2>1. Len(tx[c]) <= SocketBuf
    BY <1>2 DEF UpTypeOK
  <2>2. Len(pending[c]) \in Nat /\ SocketBuf - Len(tx[c]) \in Nat
    BY <1>6, <1>7, <1>8, <2>1, NetAssumption
  <2>3. out \in Nat /\ out <= Len(pending[c]) /\ out <= SocketBuf - Len(tx[c])
    <3>1. /\ Smaller(Len(pending[c]), SocketBuf - Len(tx[c])) \in Nat
          /\ Smaller(Len(pending[c]), SocketBuf - Len(tx[c])) <= Len(pending[c])
          /\ Smaller(Len(pending[c]), SocketBuf - Len(tx[c])) <= SocketBuf - Len(tx[c])
      BY <2>2, SmallerOfBoth
    <3>2. QED
      BY <2>2, <3>1
  <2>4. QED
    BY <1>6, <1>7, <1>8, <2>1, <2>3, NetAssumption
<1> HIDE DEF out
<1>10. m + out \in 0..MaxUnits /\ m + out \in Nat /\ gotUp[c] <= m + out
  BY <1>6, <1>7, <1>9, NetAssumption
<1>11. tx'[c] = Units(gotUp[c] + 1, m + out) /\ pending'[c] = Units(m + out + 1, n)
  <2>1. First(out, Units(m + 1, n)) = Units(m + 1, m + out)
        /\ After(out, Units(m + 1, n)) = Units(m + out + 1, n)
    BY <1>7, <1>9, UnitsCut
  <2>2. Units(gotUp[c] + 1, m) \o Units(m + 1, m + out) = Units(gotUp[c] + 1, m + out)
    <3>1. m <= m + out
      BY <1>7, <1>9
    <3>2. QED
      BY <1>6, <1>7, <1>10, <3>1, UnitsConcat
  <2>3. tx'[c] = tx[c] \o First(out, pending[c]) /\ pending'[c] = After(out, pending[c])
    BY <1>1, <1>2 DEF UpTypeOK, Unsent
  <2>4. QED
    BY <1>6, <2>1, <2>2, <2>3
<1>12. UpInOrder(c)'
  BY <1>1, <1>6, <1>9, <1>10, <1>11 DEF UpInOrder
<1>13. UpTypeOK'
  <2>1. tx'[c] \in UnitSeqs /\ pending'[c] \in UnitSeqs
    BY <1>7, <1>10, <1>11, UnitsTyped
  <2>2. Len(tx'[c]) <= SocketBuf
    <3>1. Len(Units(gotUp[c] + 1, m + out)) = (m + out) - gotUp[c]
      BY <1>7, <1>10, UnitsAreASeq
    <3>2. QED
      BY <1>7, <1>8, <1>9, <1>11, <3>1, NetAssumption
  <2>3. tx' = [tx EXCEPT ![c] = tx'[c]] /\ pending' = [pending EXCEPT ![c] = pending'[c]]
    BY <1>1, <1>2 DEF UpTypeOK
  <2>4. QED
    BY <1>1, <1>2, <2>1, <2>2, <2>3 DEF UpTypeOK
(* The way down.                                                           *)
<1>14. PICK k \in 0..MaxUnits :
        /\ k <= sentDown[c]
        /\ rx[c] = Units(k + 1, sentDown[c])
        /\ IF caller[c] = "gone" THEN toApp[c] = <<>>
           ELSE gotDown[c] <= k /\ toApp[c] = Units(gotDown[c] + 1, k)
  BY <1>2, <1>3 DEF ConnInv, DownInOrder
<1>15. /\ gotDown[c] \in 0..MaxUnits /\ gotDown[c] \in Nat /\ k \in Nat
       /\ sentDown[c] \in 0..MaxUnits /\ sentDown[c] \in Nat
  BY <1>2, NetAssumption DEF DownTypeOK
<1>16. Len(rx[c]) = sentDown[c] - k
  BY <1>14, <1>15, UnitsAreASeq
<1>17. caller[c] # "gone" => Len(toApp[c]) = k - gotDown[c]
  BY <1>14, <1>15, UnitsAreASeq
<1>18. /\ in \in Nat /\ k + in <= sentDown[c]
       /\ caller[c] = "gone" => in = 0
       /\ Len(toApp[c]) + in <= AppQueue
  <2>1. Len(toApp[c]) <= AppQueue
    BY <1>2 DEF DownTypeOK
  <2>2. CASE caller[c] = "gone"
    <3>1. in = 0 /\ Len(toApp[c]) = 0
      BY <1>5, <1>14, <2>2
    <3>2. QED
      BY <1>14, <1>15, <2>1, <3>1
  <2>3. CASE caller[c] # "gone"
    <3>1. Len(toApp[c]) \in Nat /\ Len(rx[c]) \in Nat
      BY <1>14, <1>15, <1>16, <1>17, <2>3
    <3>2. AppQueue - Len(toApp[c]) \in Nat
      BY <2>1, <3>1, NetAssumption
    <3>3. in \in Nat /\ in <= Len(rx[c]) /\ in <= AppQueue - Len(toApp[c])
      <4>1. /\ Deliverable(c) \in Nat /\ Deliverable(c) <= Len(rx[c])
            /\ Deliverable(c) <= AppQueue - Len(toApp[c])
        BY <3>1, <3>2, SmallerOfBoth DEF Deliverable
      <4>2. QED
        BY <3>1, <3>2, <4>1
    <3>4. QED
      BY <1>15, <1>16, <2>1, <2>3, <3>1, <3>3, NetAssumption
  <2>4. QED
    BY <2>2, <2>3
<1> HIDE DEF in
<1>19. k + in \in 0..MaxUnits /\ k + in \in Nat
  BY <1>15, <1>18, NetAssumption
<1>20. rx'[c] = Units(k + in + 1, sentDown[c])
  <2>1. After(in, Units(k + 1, sentDown[c])) = Units(k + in + 1, sentDown[c])
    BY <1>15, <1>18, UnitsCut
  <2>2. rx'[c] = After(in, rx[c])
    BY <1>1, <1>2 DEF DownTypeOK
  <2>3. QED
    BY <1>14, <2>1, <2>2
<1>21. toApp'[c] = toApp[c] \o Units(k + 1, k + in)
  <2>1. First(in, Units(k + 1, sentDown[c])) = Units(k + 1, k + in)
    BY <1>15, <1>18, UnitsCut
  <2>2. toApp'[c] = toApp[c] \o First(in, rx[c])
    BY <1>1, <1>2 DEF DownTypeOK
  <2>3. QED
    BY <1>14, <2>1, <2>2
<1>22. ASSUME caller[c] = "gone"
       PROVE  toApp'[c] = <<>>
  <2>1. in = 0 /\ k + in = k
    BY <1>15, <1>18, <1>22
  <2>2. Units(k + 1, k) = <<>>
    BY <1>15, NoUnits
  <2>3. toApp'[c] = <<>> \o <<>>
    BY <1>14, <1>21, <1>22, <2>1, <2>2
  <2>4. QED
    BY <2>3
<1>23. ASSUME caller[c] # "gone"
       PROVE  gotDown[c] <= k + in /\ toApp'[c] = Units(gotDown[c] + 1, k + in)
  <2>1. gotDown[c] <= k /\ k <= k + in /\ gotDown[c] <= k + in
    BY <1>14, <1>15, <1>18, <1>23
  <2>2. Units(gotDown[c] + 1, k) \o Units(k + 1, k + in) = Units(gotDown[c] + 1, k + in)
    BY <1>15, <1>19, <2>1, UnitsConcat
  <2>3. QED
    BY <1>14, <1>21, <1>23, <2>1, <2>2
<1>24. DownInOrder(c)'
  <2>1. caller'[c] = "gone" <=> caller[c] = "gone"
    BY <1>1, <1>2, <1>5 DEF ControlTypeOK
  <2>2. k + in <= sentDown'[c] /\ rx'[c] = Units(k + in + 1, sentDown'[c])
    BY <1>1, <1>18, <1>20
  <2>3. IF caller'[c] = "gone" THEN toApp'[c] = <<>>
        ELSE gotDown'[c] <= k + in /\ toApp'[c] = Units(gotDown'[c] + 1, k + in)
    BY <1>1, <1>22, <1>23, <2>1
  <2>4. QED
    BY <1>19, <2>2, <2>3 DEF DownInOrder
<1>25. DownTypeOK'
  <2>1. rx'[c] \in UnitSeqs
    BY <1>15, <1>19, <1>20, UnitsTyped
  <2>2. toApp'[c] \in UnitSeqs
    BY <1>15, <1>19, <1>22, <1>23, UnitsTyped, EmptyTyped
  <2>3. Len(rx'[c]) <= SocketBuf
    <3>1. Len(Units(k + in + 1, sentDown[c])) = sentDown[c] - (k + in)
      BY <1>15, <1>18, <1>19, UnitsAreASeq
    <3>2. Len(rx[c]) <= SocketBuf
      BY <1>2 DEF DownTypeOK
    <3>3. QED
      BY <1>15, <1>16, <1>18, <1>20, <3>1, <3>2, NetAssumption
  <2>4. Len(toApp'[c]) <= AppQueue
    <3>1. CASE caller[c] = "gone"
      BY <1>22, <3>1, NetAssumption
    <3>2. CASE caller[c] # "gone"
      <4>1. gotDown[c] <= k + in
        BY <1>23, <3>2
      <4>2. Len(Units(gotDown[c] + 1, k + in)) = (k + in) - gotDown[c]
        BY <1>15, <1>19, <4>1, UnitsAreASeq
      <4>3. QED
        BY <1>15, <1>17, <1>18, <1>23, <3>2, <4>2, NetAssumption
    <3>3. QED
      BY <3>1, <3>2
  <2>5. rx' = [rx EXCEPT ![c] = rx'[c]] /\ toApp' = [toApp EXCEPT ![c] = toApp'[c]]
    BY <1>1, <1>2 DEF DownTypeOK
  <2>6. QED
    BY <1>1, <1>2, <2>1, <2>2, <2>3, <2>4, <2>5 DEF DownTypeOK
(* The table.                                                              *)
<1>26. ControlTypeOK'
  <2>1. entry' \in [Conns -> Entries]
    BY <1>1, <1>2 DEF ControlTypeOK, Entries
  <2>2. /\ caller' \in [Conns -> Callers] /\ sock' \in [Conns -> Socks]
        /\ established' \in [Conns -> BOOLEAN]
    BY <1>1, <1>2, <1>4 DEF ControlTypeOK
  <2>3. QED
    BY <1>1, <1>2, <1>3, <2>1, <2>2 DEF ControlTypeOK, Phases
<1>27. OnlyLiveServiced'
  BY <1>1, <1>2, <1>3 DEF OnlyLiveServiced, Live, ControlTypeOK
<1>28. ASSUME NEW d \in Conns PROVE ConnInv(d)'
  <2>1. CASE d # c
    <3>1. /\ caller'[d] = caller[d] /\ entry'[d] = entry[d]
          /\ established'[d] = established[d]
          /\ d \in cmds' <=> d \in cmds
      BY <1>1, <1>2, <2>1 DEF ControlTypeOK
    <3>2. /\ dataIn'[d] = dataIn[d] /\ pending'[d] = pending[d] /\ tx'[d] = tx[d]
          /\ sentUp'[d] = sentUp[d] /\ gotUp'[d] = gotUp[d]
      BY <1>1, <1>2, <2>1 DEF UpTypeOK
    <3>3. /\ rx'[d] = rx[d] /\ toApp'[d] = toApp[d]
          /\ sentDown'[d] = sentDown[d] /\ gotDown'[d] = gotDown[d]
      BY <1>1, <1>2, <2>1 DEF DownTypeOK
    <3>4. QED
      BY <3>1, <3>2, <3>3, ConnStays DEF NetIInv
  <2>2. CASE d = c
    <3>1. /\ caller'[c] = relay /\ established'[c] = answered
          /\ entry'[c] \in {"there", "removed"} /\ c \notin cmds'
      BY <1>1, <1>2, <1>3 DEF ControlTypeOK, ConnInv, NotYetOpen
    <3>2. relay # "no"
      BY <1>2, <1>3 DEF ConnInv, NotYetOpen, relay
    <3>3. NotYetOpen(c)' /\ RelayIsAnswered(c)'
      BY <1>5, <3>1, <3>2 DEF NotYetOpen, RelayIsAnswered
    <3>4. QED
      BY <1>12, <1>24, <2>2, <3>3 DEF ConnInv
  <2>3. QED
    BY <2>1, <2>2
<1>29. NetTypeOK'
  <2>1. NetTypeOK' <=> ControlTypeOK' /\ UpTypeOK' /\ DownTypeOK'
    BY TypeParts, PTL
  <2>2. QED
    BY <1>13, <1>25, <1>26, <2>1
<1>30. QED
  BY <1>27, <1>28, <1>29 DEF NetIInv

-----------------------------------------------------------------------------

(* Every step of the loop, of a relay and of a peer keeps the invariant.   *)
LEMMA NetSteps == NetIInv /\ [NetNext]_netVars => NetIInv'
<1> SUFFICES ASSUME NetIInv, [NetNext]_netVars PROVE NetIInv'
  OBVIOUS
<1>1. ASSUME NEW c \in Conns, Relay(c) PROVE NetIInv'
  BY <1>1, CallsKeep, RelaySendsKeeps, RelayReceivesKeeps, RelayDropsKeeps DEF Relay
<1>2. ASSUME NEW c \in Conns, Peer(c) PROVE NetIInv'
  BY <1>2, SocketsKeep, PeerSendsKeeps, PeerAcksKeeps DEF Peer
<1>3. CASE Turn
  <2>1. ASSUME NEW c \in Conns, ServiceRefuses(c) \/ ServiceTcp(c) PROVE NetIInv'
    BY <2>1, SocketsKeep, ServiceTcpKeeps
  <2>2. QED
    BY <1>3, <2>1, TurnsKeep, TakeDataKeeps DEF Turn
<1>4. CASE StackEnds
  BY <1>4, TurnsKeep
<1>5. CASE UNCHANGED netVars
  <2>1. UNCHANGED <<dataIn, pending, tx, sentUp, gotUp, down, phase, todo, silent, caller,
                    cmds, entry, sock, established, half, closeIn>>
    BY <1>5 DEF netVars
  <2>2. ControlTypeOK'
    BY <2>1, TypeParts DEF NetIInv, ControlTypeOK
  <2>3. OnlyLiveServiced'
    BY <2>1 DEF NetIInv, OnlyLiveServiced, Live
  <2>4. ASSUME NEW d \in Conns
        PROVE  /\ NotYetOpen(d)' /\ RelayIsAnswered(d)'
               /\ entry[d] = "removed" => entry'[d] = "removed"
               /\ caller'[d] = "gone" <=> caller[d] = "gone"
    BY <2>1 DEF NetIInv, ConnInv, NotYetOpen, RelayIsAnswered
  <2>5. QED
    BY <2>1, <2>2, <2>3, <2>4, QuietKeeps
<1>6. QED
  BY <1>1, <1>2, <1>3, <1>4, <1>5 DEF NetNext

(* On every connection the units lie end to end in the channel, the        *)
(* pending queue and the socket, in every reachable state.                 *)
THEOREM NetInvariant == NetSpec => []NetIInv
<1>1. QED
  BY NetStarts, NetSteps, PTL DEF NetSpec

(* The variables have their types, and no buffer or channel is ever over   *)
(* its capacity.                                                           *)
THEOREM NetTypeCorrect == NetSpec => []NetTypeOK
<1>1. NetIInv => NetTypeOK
  BY DEF NetIInv
<1>2. QED
  BY <1>1, NetInvariant, PTL

(* Nothing is lost, repeated or put out of order on a connection that has  *)
(* its entry and its relay: the runs that lie end to end are one run.      *)
THEOREM NetLosesNothing == NetSpec => []NothingLost
<1>1. ASSUME NetIInv PROVE NothingLost
  <2>1. SUFFICES ASSUME NEW c \in Live, caller[c] \in {"waiting", "has"}
                 PROVE  /\ tx[c] \o pending[c] \o dataIn[c] = Units(gotUp[c] + 1, sentUp[c])
                        /\ toApp[c] \o rx[c] = Units(gotDown[c] + 1, sentDown[c])
    BY DEF NothingLost
  <2>2. /\ c \in Conns /\ entry[c] = "there" /\ ConnInv(c)
        /\ UpTypeOK /\ DownTypeOK
    BY <1>1, TypeParts DEF NetIInv, Live
  <2>3. PICK m, n \in 0..MaxUnits :
          /\ gotUp[c] <= m /\ m <= n /\ n <= sentUp[c]
          /\ dataIn[c] = Units(n + 1, sentUp[c])
          /\ tx[c] = Units(gotUp[c] + 1, m) /\ pending[c] = Units(m + 1, n)
    BY <2>2 DEF ConnInv, UpInOrder
  <2>4. PICK k \in 0..MaxUnits :
          /\ k <= sentDown[c] /\ gotDown[c] <= k
          /\ rx[c] = Units(k + 1, sentDown[c])
          /\ toApp[c] = Units(gotDown[c] + 1, k)
    BY <2>1, <2>2 DEF ConnInv, DownInOrder
  <2>5. /\ m \in Nat /\ n \in Nat /\ k \in Nat /\ gotUp[c] \in Nat
        /\ sentUp[c] \in Nat /\ gotDown[c] \in Nat /\ sentDown[c] \in Nat
    BY <2>2, NetAssumption DEF UpTypeOK, DownTypeOK
  <2>6. Units(gotUp[c] + 1, m) \o Units(m + 1, n) = Units(gotUp[c] + 1, n)
    BY <2>3, <2>5, UnitsConcat
  <2>7. Units(gotUp[c] + 1, n) \o Units(n + 1, sentUp[c]) = Units(gotUp[c] + 1, sentUp[c])
    <3>1. gotUp[c] <= n
      BY <2>3, <2>5
    <3>2. QED
      BY <2>3, <2>5, <3>1, UnitsConcat
  <2>8. Units(gotDown[c] + 1, k) \o Units(k + 1, sentDown[c])
          = Units(gotDown[c] + 1, sentDown[c])
    BY <2>4, <2>5, UnitsConcat
  <2>9. QED
    BY <2>3, <2>4, <2>6, <2>7, <2>8
<1>2. QED
  BY <1>1, NetInvariant, PTL

(* The loop services only connections that are in its table.               *)
THEOREM ServicesTheTable == NetSpec => []OnlyLiveServiced
<1>1. NetIInv => OnlyLiveServiced
  BY DEF NetIInv
<1>2. QED
  BY <1>1, NetInvariant, PTL
=============================================================================
