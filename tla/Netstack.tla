------------------------------- MODULE Netstack -------------------------------
(***************************************************************************)
(* The user-space stack (src/core/aether/src/netstack.rs): one task owns   *)
(* all TCP connections, and serves the relays of SOCKS and HTTP clients    *)
(* through channels.  A turn of its loop takes one thing (packets, one     *)
(* command, the queued data, or nothing), lets smoltcp poll, and then      *)
(* services every connection.                                              *)
(*                                                                         *)
(* Data is counted in units: what one socket.recv returns on the way down, *)
(* what one call of send passes on the way up; units are numbered.  The    *)
(* socket is smoltcp's (external), reduced to its states and buffers; it   *)
(* has no timeout of its own.  Left out: UDP, addresses, ports, traffic    *)
(* counters, dropped packets (TCP repeats them), and the accept mode,      *)
(* which no code enables.                                                  *)
(***************************************************************************)
EXTENDS Naturals, Sequences

CONSTANTS Conns,      (* the calls of open_tcp; their ids are never reused   *)
          MaxUnits,   (* bound on the units sent each way                    *)
          AppQueue,   (* app_queue: capacity of the channel to a relay       *)
          SocketBuf   (* capacity of each socket buffer                      *)

ASSUME NetAssumption ==
  /\ MaxUnits \in Nat
  /\ AppQueue \in Nat \ {0}
  /\ SocketBuf \in Nat \ {0}

VARIABLES
  phase,       (* where run is: "select", "poll", "service", or "over"       *)
  todo,        (* the ids still to service in this turn                      *)
  silent,      (* the connections whose peer never answers anything          *)
  caller,      (* how the relay that called open_tcp stands                  *)
  cmds,        (* the OpenTcp commands in the command channel                *)
  entry,       (* the connection's entry in tcp_conns                        *)
  sock,        (* the state of its socket                                    *)
  established, (* the flag of the entry: open_tcp has been answered          *)
  half,        (* the flag half_closed of the entry                          *)
  dataIn,      (* the connection's units in the data channel                 *)
  closeIn,     (* its TcpClose is in the data channel, behind them           *)
  pending,     (* units taken from the channel and not yet in the socket     *)
  tx, rx,      (* the socket's buffers                                       *)
  toApp,       (* the channel to the relay                                   *)
  sentUp, sentDown,  (* history: units sent by the relay, by the peer        *)
  gotUp, gotDown     (* history: units received by the peer, by the relay    *)

loop == <<phase, todo, silent>>
tcb  == <<entry, sock, established, half>>
up   == <<dataIn, closeIn, pending, tx, sentUp, gotUp>>
down == <<rx, toApp, sentDown, gotDown>>

netVars == <<loop, caller, cmds, tcb, up, down>>

(* The units numbered first to last, in order.                              *)
Units(first, last) == [i \in 1..((last + 1) - first) |-> first + i - 1]

UnitSeqs == {Units(i, j) : i \in 1..(MaxUnits + 1), j \in 0..MaxUnits}

Smaller(m, n) == IF m <= n THEN m ELSE n
First(n, q) == SubSeq(q, 1, n)
After(n, q) == SubSeq(q, n + 1, Len(q))

NetTypeOK ==
  /\ phase \in {"select", "poll", "service", "over"}
  /\ todo \subseteq Conns
  /\ silent \subseteq Conns
  /\ caller \in [Conns -> {"no", "waiting", "left", "refused", "has", "gone"}]
  /\ cmds \subseteq Conns
  /\ entry \in [Conns -> {"none", "there", "removed"}]
  /\ sock \in [Conns -> {"none", "synsent", "est", "finwait", "closewait",
                         "lastack", "timewait", "closed"}]
  /\ {established, half, closeIn} \subseteq [Conns -> BOOLEAN]
  /\ {dataIn, pending, tx, rx, toApp} \subseteq [Conns -> UnitSeqs]
  /\ {sentUp, sentDown, gotUp, gotDown} \subseteq [Conns -> 0..MaxUnits]
  /\ \A c \in Conns :
       /\ Len(toApp[c]) <= AppQueue
       /\ Len(tx[c]) <= SocketBuf
       /\ Len(rx[c]) <= SocketBuf

NetInit ==
  LET All(v) == [c \in Conns |-> v] IN
  /\ phase = "select" /\ todo = {} /\ cmds = {}
  /\ silent \in SUBSET Conns
  /\ caller = All("no") /\ entry = All("none") /\ sock = All("none")
  /\ established = All(FALSE) /\ half = All(FALSE) /\ closeIn = All(FALSE)
  /\ dataIn = All(<<>>) /\ pending = All(<<>>) /\ tx = All(<<>>)
  /\ rx = All(<<>>) /\ toApp = All(<<>>)
  /\ sentUp = All(0) /\ sentDown = All(0) /\ gotUp = All(0) /\ gotDown = All(0)

Live == {c \in Conns : entry[c] = "there"}

-----------------------------------------------------------------------------
(***************************************************************************)
(* The relays.  A call of open_tcp can be dropped while it waits (a        *)
(* timeout around it); a relay stops sending with close, and lets both     *)
(* halves of its connection go together.                                   *)
(***************************************************************************)

OpenTcp(c) ==
  /\ phase # "over"
  /\ caller[c] = "no"
  /\ caller' = [caller EXCEPT ![c] = "waiting"]
  /\ cmds' = cmds \cup {c}
  /\ UNCHANGED <<loop, tcb, up, down>>

CallerLeaves(c) ==
  /\ caller[c] = "waiting"
  /\ caller' = [caller EXCEPT ![c] = "left"]
  /\ UNCHANGED <<loop, cmds, tcb, up, down>>

RelaySends(c) ==
  /\ phase # "over"
  /\ caller[c] = "has" /\ ~closeIn[c] /\ ~half[c]
  /\ sentUp[c] < MaxUnits
  /\ sentUp' = [sentUp EXCEPT ![c] = @ + 1]
  /\ dataIn' = [dataIn EXCEPT ![c] = Append(@, sentUp'[c])]
  /\ UNCHANGED <<loop, caller, cmds, tcb, closeIn, pending, tx, gotUp, down>>

RelayCloses(c) ==
  /\ phase # "over"
  /\ caller[c] = "has" /\ ~closeIn[c] /\ ~half[c]
  /\ closeIn' = [closeIn EXCEPT ![c] = TRUE]
  /\ UNCHANGED <<loop, caller, cmds, tcb, dataIn, pending, tx, sentUp, gotUp,
                 down>>

RelayReceives(c) ==
  /\ caller[c] = "has"
  /\ toApp[c] # <<>>
  /\ toApp' = [toApp EXCEPT ![c] = Tail(@)]
  /\ gotDown' = [gotDown EXCEPT ![c] = @ + 1]
  /\ UNCHANGED <<loop, caller, cmds, tcb, up, rx, sentDown>>

RelayDrops(c) ==
  /\ caller[c] = "has"
  /\ caller' = [caller EXCEPT ![c] = "gone"]
  /\ toApp' = [toApp EXCEPT ![c] = <<>>]
  /\ UNCHANGED <<loop, cmds, tcb, up, rx, sentDown, gotDown>>

-----------------------------------------------------------------------------
(***************************************************************************)
(* The select of run: packets or the timer (Wake), one command, or all the *)
(* data queued; commands come before data.  Then service, if there is      *)
(* anything to service.                                                    *)
(***************************************************************************)

Service(ids) ==
  /\ phase' = IF ids = {} THEN "select" ELSE "service"
  /\ todo' = ids
  /\ UNCHANGED silent

Wake ==
  /\ phase = "select"
  /\ phase' = "poll"
  /\ UNCHANGED <<todo, silent, caller, cmds, tcb, up, down>>

Polled ==
  /\ phase = "poll"
  /\ Service(Live)
  /\ UNCHANGED <<caller, cmds, tcb, up, down>>

TakeOpen(c) ==
  /\ phase = "select"
  /\ c \in cmds
  /\ cmds' = cmds \ {c}
  /\ entry' = [entry EXCEPT ![c] = "there"]
  /\ sock' = [sock EXCEPT ![c] = "synsent"]
  /\ Service(Live \cup {c})
  /\ UNCHANGED <<caller, established, half, up, down>>

(* The socket cannot connect: the caller is told, if it still listens.      *)
TakeOpenFails(c) ==
  /\ phase = "select"
  /\ c \in cmds
  /\ cmds' = cmds \ {c}
  /\ caller' = [caller EXCEPT ![c] = IF @ = "waiting" THEN "refused" ELSE @]
  /\ Service(Live)
  /\ UNCHANGED <<tcb, up, down>>

(* Units and closes for a connection that has no entry any more are lost.   *)
TakeData ==
  /\ phase = "select"
  /\ cmds = {}
  /\ \E c \in Conns : dataIn[c] # <<>> \/ closeIn[c]
  /\ pending' = [c \in Conns |-> IF entry[c] = "there" THEN pending[c] \o dataIn[c]
                                                      ELSE pending[c]]
  /\ half' = [c \in Conns |-> half[c] \/ (closeIn[c] /\ entry[c] = "there")]
  /\ dataIn' = [c \in Conns |-> <<>>]
  /\ closeIn' = [c \in Conns |-> FALSE]
  /\ Service(Live)
  /\ UNCHANGED <<caller, cmds, entry, sock, established, tx, sentUp, gotUp, down>>

(* The packets' sender or every handle is gone: run returns, and drops the  *)
(* stack with the answers it owes.                                          *)
StackEnds ==
  /\ phase = "select"
  /\ phase' = "over"
  /\ caller' = [c \in Conns |-> IF caller[c] = "waiting" THEN "refused"
                                                        ELSE caller[c]]
  /\ cmds' = {}
  /\ entry' = [c \in Conns |-> IF c \in Live THEN "removed" ELSE entry[c]]
  /\ UNCHANGED <<todo, silent, sock, established, half, up, down>>

-----------------------------------------------------------------------------
(***************************************************************************)
(* smoltcp's poll (external): any number of events, on any connection.  A  *)
(* batch of packets can hold a whole exchange.                             *)
(***************************************************************************)

PeerMay(c) == phase = "poll" /\ c \in Live /\ c \notin silent

SocketBecomes(c, s) ==
  /\ sock' = [sock EXCEPT ![c] = s]
  /\ UNCHANGED <<loop, caller, cmds, entry, established, half, up, down>>

SynAck(c) == PeerMay(c) /\ sock[c] = "synsent" /\ SocketBecomes(c, "est")

Reset(c) ==
  /\ PeerMay(c)
  /\ sock[c] \in {"synsent", "est", "finwait", "closewait", "lastack"}
  /\ SocketBecomes(c, "closed")

PeerFin(c) ==
  /\ PeerMay(c)
  /\ \/ sock[c] = "est" /\ SocketBecomes(c, "closewait")
     \/ sock[c] = "finwait" /\ tx[c] = <<>> /\ SocketBecomes(c, "timewait")

PeerAcksFin(c) ==
  /\ PeerMay(c)
  /\ sock[c] = "lastack" /\ tx[c] = <<>>
  /\ SocketBecomes(c, "closed")

TimeWaitEnds(c) ==
  /\ phase = "poll" /\ c \in Live
  /\ sock[c] = "timewait"
  /\ SocketBecomes(c, "closed")

PeerSends(c) ==
  /\ PeerMay(c)
  /\ sock[c] \in {"est", "finwait"}
  /\ Len(rx[c]) < SocketBuf
  /\ sentDown[c] < MaxUnits
  /\ sentDown' = [sentDown EXCEPT ![c] = @ + 1]
  /\ rx' = [rx EXCEPT ![c] = Append(@, sentDown'[c])]
  /\ UNCHANGED <<loop, caller, cmds, tcb, up, toApp, gotDown>>

PeerAcks(c) ==
  /\ PeerMay(c)
  /\ sock[c] \in {"est", "finwait", "closewait", "lastack"}
  /\ tx[c] # <<>>
  /\ tx' = [tx EXCEPT ![c] = Tail(@)]
  /\ gotUp' = [gotUp EXCEPT ![c] = @ + 1]
  /\ UNCHANGED <<loop, caller, cmds, tcb, dataIn, closeIn, pending, sentUp, down>>

-----------------------------------------------------------------------------
(***************************************************************************)
(* service_tcp, for one connection.                                        *)
(***************************************************************************)

(* close of a smoltcp socket (external).                                    *)
Closed(s) ==
  CASE s = "synsent"   -> "closed"
    [] s = "est"       -> "finwait"
    [] s = "closewait" -> "lastack"
    [] OTHER           -> s

Serviced(c) == phase = "service" /\ c \in todo /\ Service(todo \ {c})

(* Mutant: a reset is not taken for a refusal.                              *)
ServiceRefusesLate(c) ==
  /\ Serviced(c)
  /\ ~established[c] /\ sock[c] = "timewait"
  /\ caller' = [caller EXCEPT ![c] = IF @ = "waiting" THEN "refused" ELSE @]
  /\ entry' = [entry EXCEPT ![c] = "removed"]
  /\ UNCHANGED <<cmds, sock, established, half, up, down>>

(* A socket that closed before open_tcp was answered.                       *)
ServiceRefuses(c) ==
  /\ Serviced(c)
  /\ ~established[c] /\ sock[c] \in {"closed", "timewait"}
  /\ caller' = [caller EXCEPT ![c] = IF @ = "waiting" THEN "refused" ELSE @]
  /\ entry' = [entry EXCEPT ![c] = "removed"]
  /\ UNCHANGED <<cmds, sock, established, half, up, down>>

(* try_reserve finds the channel closed only once its other end has gone;   *)
(* until open_tcp is answered the entry itself holds that end.              *)
(* Mutant: the end of the relay is not looked for.                          *)
HearsAlways(answered, relay) == TRUE
Hears(answered, relay) == ~answered \/ relay = "has"

(* What the relay's channel still takes of what the socket has received.    *)
(* Mutant: units are received without a place reserved for them.            *)
DeliverableAll(c) == Len(rx[c])
Deliverable(c) == Smaller(Len(rx[c]), AppQueue - Len(toApp[c]))

(* What is left of the pending units when the socket has taken n of them.   *)
(* Mutant: all are dropped once the socket has taken some.                  *)
UnsentDropped(c, n) == IF n = 0 THEN pending[c] ELSE <<>>
Unsent(c, n) == After(n, pending[c])

(* Any other socket, in the order of the code: the answer to open_tcp; the  *)
(* pending units; the half-close, once they are out; units to the relay,    *)
(* each only after its place in the channel is reserved; a close if the     *)
(* relay has gone, and one if the peer has closed; the removal of a closed  *)
(* socket with all it still holds.                                          *)
ServiceTcp(c) ==
  LET opened   == ~established[c] /\ sock[c] = "est"
      answered == established[c] \/ opened
      relay    == IF opened /\ caller[c] = "waiting" THEN "has" ELSE caller[c]
      alive    == Hears(answered, relay)
      out      == IF sock[c] \in {"est", "closewait"}
                    THEN Smaller(Len(pending[c]), SocketBuf - Len(tx[c])) ELSE 0
      in       == IF alive THEN Deliverable(c) ELSE 0
      s1       == IF half[c] /\ out = Len(pending[c]) THEN Closed(sock[c])
                                                      ELSE sock[c]
      s2       == IF alive THEN s1 ELSE Closed(s1)
      s3       == IF s2 = "closewait" THEN Closed(s2) ELSE s2
  IN
  /\ Serviced(c)
  /\ answered \/ sock[c] \notin {"closed", "timewait"}
  /\ caller' = [caller EXCEPT ![c] = relay]
  /\ established' = [established EXCEPT ![c] = answered]
  /\ sock' = [sock EXCEPT ![c] = s3]
  /\ entry' = [entry EXCEPT ![c] = IF s2 = "closed" /\ answered THEN "removed" ELSE @]
  /\ tx' = [tx EXCEPT ![c] = @ \o First(out, pending[c])]
  /\ pending' = [pending EXCEPT ![c] = Unsent(c, out)]
  /\ toApp' = [toApp EXCEPT ![c] = @ \o First(in, rx[c])]
  /\ rx' = [rx EXCEPT ![c] = After(in, @)]
  /\ UNCHANGED <<cmds, half, dataIn, closeIn, sentUp, gotUp, sentDown, gotDown>>

-----------------------------------------------------------------------------
Relay(c) ==
  \/ OpenTcp(c) \/ CallerLeaves(c) \/ RelaySends(c) \/ RelayCloses(c)
  \/ RelayReceives(c) \/ RelayDrops(c)

Peer(c) ==
  \/ SynAck(c) \/ Reset(c) \/ PeerFin(c) \/ PeerAcksFin(c) \/ TimeWaitEnds(c)
  \/ PeerSends(c) \/ PeerAcks(c)

Turn ==
  \/ Wake \/ Polled \/ TakeData
  \/ \E c \in Conns : TakeOpen(c) \/ TakeOpenFails(c)
                     \/ ServiceRefuses(c) \/ ServiceTcp(c)

NetNext ==
  \/ \E c \in Conns : Relay(c) \/ Peer(c)
  \/ Turn
  \/ StackEnds

NetSpec == NetInit /\ [][NetNext]_netVars

(* What a peer that is there does in the end: answer a SYN, acknowledge,    *)
(* and close when the other side has closed.                                *)
PeerAnswers(c) ==
  \/ SynAck(c) \/ PeerAcks(c) \/ PeerAcksFin(c) \/ TimeWaitEnds(c)
  \/ sock[c] = "finwait" /\ PeerFin(c)

(* The loop turns (it wakes up four times a second while it has             *)
(* connections).  The biased select takes packets first, so nothing a relay *)
(* does keeps them out; that packets do not starve the commands and the     *)
(* data is assumed.  No relay is fair.                                      *)
FairNetSpec ==
  /\ NetSpec
  /\ WF_netVars(Turn)
  /\ SF_netVars(Wake)
  /\ SF_netVars(\E c \in Conns : TakeOpen(c) \/ TakeOpenFails(c))
  /\ SF_netVars(TakeData)
  /\ \A c \in Conns : SF_netVars(PeerAnswers(c))

-----------------------------------------------------------------------------
(***************************************************************************)
(* Properties.                                                             *)
(***************************************************************************)

(* While a connection has its entry and its relay, no unit is lost,         *)
(* repeated or put out of order between the relay and the peer's window,    *)
(* through channel, pending and socket buffers one way and socket buffer    *)
(* and channel the other way, however full they are.                        *)
NothingLost ==
  \A c \in Live :
    caller[c] \in {"waiting", "has"} =>
      /\ tx[c] \o pending[c] \o dataIn[c] = Units(gotUp[c] + 1, sentUp[c])
      /\ toApp[c] \o rx[c] = Units(gotDown[c] + 1, sentDown[c])

(* Every call of open_tcp is answered, unless the peer is silent: by a      *)
(* connection, a refusal, or the end of the stack, even if the socket has   *)
(* opened and closed again before service_tcp looks at it.                  *)
OpenIsAnswered ==
  \A c \in Conns : caller[c] = "waiting" ~> caller[c] # "waiting" \/ c \in silent

(* A connection whose relay has gone, or gave up waiting for it, does not   *)
(* stay in tcp_conns for ever, unless the peer is silent.                   *)
GoneIsFreed ==
  \A c \in Conns :
    caller[c] \in {"left", "gone"} /\ c \in Live ~> c \notin Live \/ c \in silent

=============================================================================
