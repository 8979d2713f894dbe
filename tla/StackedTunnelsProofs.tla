------------------------ MODULE StackedTunnelsProofs ------------------------
(***************************************************************************)
(* The safety properties of StackedTunnels, for every set of edges and     *)
(* every number of inner tries.                                            *)
(*                                                                         *)
(* What makes them inductive: the guard of the forwarder is never held     *)
(* without the handle of the stack, whichever way the session goes; a      *)
(* stack whose handle is held stops only under an outer tunnel that has    *)
(* ended; what a MASQUE-in-MASQUE teardown has still to await are distinct *)
(* handles nobody awaited; and a WARP-in-WARP session dials an edge once   *)
(* for every failure it counted.                                           *)
(***************************************************************************)
EXTENDS StackedTunnels, SequenceTheorems, TLAPS

Choosing == {"verify", "choose"}
Early    == Choosing \cup {"outer"}
Awaited  == {"dropping", "settling", "leaving", "panicked"}

(* What the session holds is a matter of where it is, and the guard is     *)
(* never held without the stack.                                           *)
HoldsByPlace ==
  /\ pc \in Early => held = {} /\ handle = NoTasks
  /\ pc = "forward" => held = {"stack"}
  /\ pc \in {"inner", "serving", "dropping"} => held = Locals
  /\ pc = "dropping" => Gool
  /\ pc = "settling" => held = IF Gool THEN {"stack"} ELSE Locals
  /\ "guard" \in held => "stack" \in held
  /\ pc = "inner" => left # <<>>

(* Results nobody took before select! did, and why a turn is being left.   *)
TakenByPlace ==
  /\ pc \notin Awaited => /\ winner = "none" /\ unsettled = <<>>
                          /\ \A h \in Hops : handle[h] # "taken"
  /\ pc = "dropping" => \A h \in Hops : handle[h] = "taken" => h = winner
  /\ pc = "leaving" <=> ending # "none"
  /\ ending = "outer" => handle["outer"] = "none" \/ winner = "outer"

(* A forwarder nobody aborted is held, and the stack whose handle is held  *)
(* runs until the tunnel below it has ended.                               *)
PumpsOverStack ==
  /\ forwarder = "pumping" => "guard" \in held
  /\ "stack" \in held => netstack \/ handle["outer"] \in {"done", "taken"}
  /\ forwarder = "pumping" /\ handle["outer"] = "taken" =>
       winner = "outer" \/ (Mim /\ pc \in {"settling", "leaving"})

(* The handles a MASQUE-in-MASQUE teardown has still to await.             *)
AwaitsOnce ==
  Mim => /\ pc # "panicked"
         /\ \A i \in 1..Len(unsettled) : handle[unsettled[i]] # "taken"
         /\ \A i, j \in 1..Len(unsettled) : unsettled[i] = unsettled[j] => i = j

(* Between turns every dial of the edge was charged; within one the last   *)
(* has yet to be.                                                          *)
DialsCharged ==
  /\ pc \notin Choosing => fails < MAX_FAILS
  /\ Gool => dials <= IF pc \in Choosing THEN fails ELSE fails + 1

StackedInv ==
  /\ StackedTypeOK
  /\ HoldsByPlace /\ TakenByPlace /\ PumpsOverStack
  /\ AwaitsOnce /\ DialsCharged

-----------------------------------------------------------------------------

(* Nothing is up, held or settled at the start.                            *)
LEMMA InitStackedInv == StackedInit => StackedInv
<1> SUFFICES ASSUME StackedInit PROVE StackedInv
  OBVIOUS
<1> USE DEF StackedInit
<1>1. StackedTypeOK
  <2>1. handle \in [Hops -> {"none", "running", "done", "taken"}]
    BY DEF NoTasks
  <2>2. left \in Seq(Edges) /\ unsettled \in Seq(Hops)
    OBVIOUS
  <2>3. fails \in 0..MAX_FAILS /\ dials \in 0..(MAX_FAILS + 1)
    BY DEF MAX_FAILS
  <2>4. answers \subseteq Edges /\ inside \subseteq Edges
    OBVIOUS
  <2>5. {saved, cached, lastPeer, lastInner, peer} \subseteq Edges \cup {NoEdge}
    OBVIOUS
  <2>6. QED
    BY <2>1, <2>2, <2>3, <2>4, <2>5 DEF StackedTypeOK
<1>2. HoldsByPlace
  BY DEF HoldsByPlace, Early, Choosing
<1>3. TakenByPlace /\ PumpsOverStack
  BY DEF TakenByPlace, PumpsOverStack, NoTasks, Hops
<1>4. AwaitsOnce
  BY DEF AwaitsOnce
<1>5. DialsCharged
  BY DEF DialsCharged, MAX_FAILS, Choosing
<1>6. QED
  BY <1>1, <1>2, <1>3, <1>4, <1>5 DEF StackedInv

(* The inner edges of a turn are a sequence of edges.                      *)
LEMMA InnerEdgesType ==
  ASSUME StackedTypeOK, NEW outer \in Edges
  PROVE  InnerEdges(outer) \subseteq Seq(Edges)
<1>1. CASE options.innerPin # NoEdge
  <2>1. options.innerPin \in Edges
    BY <1>1, StackedAssumption DEF StackedTypeOK, Options
  <2>2. QED
    BY <1>1, <2>1 DEF InnerEdges
<1>2. CASE options.innerPin = NoEdge /\ Gool
  BY <1>2 DEF InnerEdges
<1>3. CASE options.innerPin = NoEdge /\ ~Gool
  <2>1. SUFFICES ASSUME NEW pool \in Pools(outer)
                 PROVE  Candidates(outer, pool) \in Seq(Edges)
    BY <1>3 DEF InnerEdges
  <2>2. PICK n \in 1..MaxTries : pool \in [1..n -> Edges \ {outer}]
    BY DEF Pools
  <2>3. pool \in Seq(Edges)
    BY <2>2, StackedAssumption
  <2>4. lastInner \in Edges => <<lastInner>> \o pool \in Seq(Edges)
    BY <2>3
  <2>5. QED
    BY <2>3, <2>4 DEF Candidates
<1>4. QED
  BY <1>1, <1>2, <1>3

-----------------------------------------------------------------------------
(* The edges that come and go, and the tasks that end.                     *)
LEMMA WorldPreserves ==
  ASSUME StackedInv, NetChanges \/ (\E h \in Hops : TaskEnds(h))
  PROVE  StackedInv'
<1> USE DEF StackedInv
<1>1. CASE NetChanges
  <2>1. answers' \subseteq Edges /\ inside' \subseteq Edges
    BY <1>1 DEF NetChanges, SymDiff, StackedTypeOK
  <2>2. UNCHANGED <<options, loop, pc, turn, joins, owned, ending>>
    BY <1>1 DEF NetChanges
  <2>3. QED
    BY <2>1, <2>2 DEF StackedTypeOK, HoldsByPlace, TakenByPlace, PumpsOverStack,
       AwaitsOnce, DialsCharged, loop, turn, joins, owned, Gool, Mim
<1>2. ASSUME NEW h \in Hops, TaskEnds(h) PROVE StackedInv'
  <2>1. handle' \in [Hops -> {"none", "running", "done", "taken"}]
    BY <1>2 DEF TaskEnds, StackedTypeOK
  <2>2. \A x \in Hops : handle'[x] = IF x = h THEN "done" ELSE handle[x]
    BY <1>2 DEF TaskEnds, StackedTypeOK
  <2>3. UNCHANGED <<options, net, loop, pc, turn, winner, unsettled, owned, ending>>
        /\ handle[h] = "running"
    BY <1>2 DEF TaskEnds
  <2>4. StackedTypeOK'
    BY <2>1, <2>3 DEF StackedTypeOK, net, loop, turn, owned
  <2>5. pc \notin Early
    BY <2>3 DEF HoldsByPlace, NoTasks
  <2>6. HoldsByPlace'
    BY <2>3, <2>5 DEF HoldsByPlace, turn, owned, Gool
  <2>7. TakenByPlace'
    BY <2>2, <2>3 DEF TakenByPlace, Hops
  <2>8. PumpsOverStack'
    BY <2>2, <2>3 DEF PumpsOverStack, owned, Mim, Hops
  <2>9. AwaitsOnce'
    <3>1. \A i \in 1..Len(unsettled) : unsettled[i] \in Hops
      BY DEF StackedTypeOK
    <3>2. QED
      BY <2>2, <2>3, <3>1 DEF AwaitsOnce, Mim
  <2>10. DialsCharged'
    BY <2>3 DEF DialsCharged, loop, Gool
  <2>11. QED
    BY <2>4, <2>6, <2>7, <2>8, <2>9, <2>10
<1>3. QED
  BY <1>1, <1>2

(* The stack's task, and the forwarder's.                                  *)
LEMMA TasksPreserve ==
  ASSUME StackedInv, Tasks
  PROVE  StackedInv'
<1> USE DEF StackedInv
<1>1. UNCHANGED <<options, net, loop, pc, turn, joins, held, ending>>
      /\ netstack' \in BOOLEAN /\ forwarder' \in {forwarder, "none"}
  BY DEF Tasks, NetstackEnds, ForwarderAborted, ForwarderBreaks, StackedTypeOK
<1>2. StackedTypeOK'
  BY <1>1 DEF StackedTypeOK, net, loop, turn, joins
<1>3. HoldsByPlace' /\ TakenByPlace' /\ AwaitsOnce' /\ DialsCharged'
  BY <1>1 DEF HoldsByPlace, TakenByPlace, AwaitsOnce, DialsCharged, loop, turn,
     joins, Gool, Mim
<1>4. "stack" \in held => netstack' \/ handle["outer"] \in {"done", "taken"}
  BY DEF Tasks, NetstackEnds, ForwarderAborted, ForwarderBreaks, PumpsOverStack
<1>5. PumpsOverStack'
  BY <1>1, <1>4 DEF PumpsOverStack, joins, Mim
<1>6. QED
  BY <1>2, <1>3, <1>5

(* The user's stop, and the next session.                                  *)
LEMMA UserPreserves ==
  ASSUME StackedInv, Cancel \/ StartOver
  PROVE  StackedInv'
<1> USE DEF StackedInv
<1>1. Forget /\ pc' \in {"leaving", "verify"}
      /\ peer' \in {peer, NoEdge} /\ held' = held
      /\ netstack' \in {netstack, FALSE} /\ forwarder' \in {forwarder, "none"}
      /\ handle' \in {NoTasks, [NoTasks EXCEPT !["outer"] = handle["outer"]]}
      /\ ending' \in {"none", "stop"}
  BY DEF Cancel, StartOver, owned
<1>2. StackedTypeOK'
  <2>1. handle' \in [Hops -> {"none", "running", "done", "taken"}]
    BY <1>1 DEF NoTasks, StackedTypeOK, Hops
  <2>2. left' \in Seq(Edges) /\ unsettled' \in Seq(Hops)
    BY <1>1 DEF Forget
  <2>3. fails' \in 0..MAX_FAILS /\ dials' \in 0..(MAX_FAILS + 1)
    BY <1>1 DEF Forget, MAX_FAILS
  <2>4. UNCHANGED <<options, answers, inside, saved>>
        /\ cached' = NoEdge /\ lastPeer' = NoEdge /\ lastInner' = NoEdge
        /\ winner' = "none"
    BY <1>1 DEF Forget, net
  <2>5. QED
    BY <1>1, <2>1, <2>2, <2>3, <2>4 DEF StackedTypeOK
<1>3. HoldsByPlace'
  BY DEF HoldsByPlace, Cancel, StartOver, Early, Choosing, owned
<1>4. handle'["outer"] \in {"none", handle["outer"]}
      /\ \A h \in Hops \ {"outer"} : handle'[h] = "none"
  BY <1>1 DEF NoTasks, Hops
<1>5. TakenByPlace'
  BY <1>1, <1>4 DEF TakenByPlace, Cancel, StartOver, NoTasks, Hops, Forget, Awaited
<1>6. PumpsOverStack'
  <2>1. CASE StartOver
    BY <2>1 DEF StartOver, PumpsOverStack
  <2>2. CASE Cancel
    <3>1. handle'["outer"] = handle["outer"] /\ UNCHANGED owned /\ pc' = "leaving"
          /\ options' = options
      BY <2>2 DEF Cancel, NoTasks, Hops, Forget
    <3>2. pc \notin {"dropping", "leaving", "panicked"}
      BY <2>2 DEF Cancel
    <3>3. forwarder = "pumping" /\ handle["outer"] = "taken" => Mim
      <4>1. SUFFICES ASSUME forwarder = "pumping", handle["outer"] = "taken"
                     PROVE  Mim
        OBVIOUS
      <4>2. pc = "settling"
        BY <3>2, <4>1 DEF TakenByPlace, Awaited, Hops
      <4>3. ~Gool
        BY <4>1, <4>2 DEF PumpsOverStack, HoldsByPlace
      <4>4. QED
        BY <4>3 DEF Gool, Mim, StackedTypeOK, Options
    <3>4. QED
      BY <3>1, <3>3 DEF PumpsOverStack, owned, Mim
  <2>3. QED
    BY <2>1, <2>2
<1>7. AwaitsOnce'
  BY <1>1 DEF AwaitsOnce, Forget
<1>8. DialsCharged'
  BY <1>1 DEF DialsCharged, Forget, MAX_FAILS
<1>9. QED
  BY <1>2, <1>3, <1>5, <1>6, <1>7, <1>8

-----------------------------------------------------------------------------
(* The start of a turn keeps the parts of the type its edges are in.       *)
LEMMA StartTurnType ==
  ASSUME StackedTypeOK, NEW outer \in Edges, StartTurn(outer),
         cached' \in Edges \cup {NoEdge},
         fails' \in 0..MAX_FAILS, dials' \in 0..(MAX_FAILS + 1)
  PROVE  StackedTypeOK'
<1>1. left' \in Seq(Edges)
  BY InnerEdgesType DEF StartTurn
<1>2. peer' = outer /\ lastPeer' = outer /\ saved' \in {outer, saved}
      /\ pc' = "outer"
  BY DEF StartTurn
<1>3. UNCHANGED <<options, answers, inside, lastInner, joins, owned, ending>>
  BY DEF StartTurn, net
<1>4. QED
  BY <1>1, <1>2, <1>3 DEF StackedTypeOK, joins, owned

(* What the start of a turn leaves alone.                                  *)
LEMMA StartTurnHolds ==
  ASSUME StackedInv, pc = "choose", NEW outer, StartTurn(outer)
  PROVE  HoldsByPlace' /\ TakenByPlace' /\ PumpsOverStack' /\ AwaitsOnce'
<1>1. pc' = "outer" /\ UNCHANGED <<options, joins, owned, ending>>
  BY DEF StartTurn
<1>2. HoldsByPlace'
  BY <1>1 DEF StackedInv, HoldsByPlace, joins, owned, Early, Choosing
<1>3. TakenByPlace'
  BY <1>1 DEF StackedInv, TakenByPlace, joins, Awaited
<1>4. PumpsOverStack'
  BY <1>1 DEF StackedInv, HoldsByPlace, PumpsOverStack, joins, owned, Early, Choosing
<1>5. AwaitsOnce'
  BY <1>1 DEF StackedInv, AwaitsOnce, joins, Mim
<1>6. QED
  BY <1>2, <1>3, <1>4, <1>5

(* Choosing the edges of a turn.                                           *)
LEMMA ChoicePreserves ==
  ASSUME StackedInv, LoadCached \/ ReusePeer \/ ScanFinds \/ ScanFails
  PROVE  StackedInv'
<1> USE DEF StackedInv
<1>1. fails \in 0..MAX_FAILS /\ dials \in 0..(MAX_FAILS + 1)
  BY DEF StackedTypeOK
<1>2. CASE LoadCached \/ ScanFails
  <2>1. cached' \in Edges \cup {NoEdge}
        /\ pc \in Choosing /\ pc' = "choose"
        /\ UNCHANGED <<options, net, lastPeer, lastInner, fails, dials, saved,
                       turn, joins, owned, ending>>
    BY <1>2 DEF LoadCached, ScanFails, StackedTypeOK, Choosing
  <2>2. StackedTypeOK'
    BY <2>1 DEF StackedTypeOK, net, turn, joins, owned
  <2>3. HoldsByPlace' /\ TakenByPlace' /\ PumpsOverStack'
    BY <2>1 DEF HoldsByPlace, TakenByPlace, PumpsOverStack, joins, owned, Early,
       Choosing, Awaited
  <2>4. AwaitsOnce' /\ DialsCharged'
    BY <2>1 DEF AwaitsOnce, DialsCharged, joins, Choosing, Gool, Mim
  <2>5. QED
    BY <2>2, <2>3, <2>4
<1>3. CASE ReusePeer
  <2>1. pc = "choose" /\ StartTurn(Known) /\ Known # NoEdge
        /\ UNCHANGED <<cached, fails>>
        /\ dials' = IF Mim \/ dials > MAX_FAILS THEN dials ELSE dials + 1
    BY <1>3 DEF ReusePeer
  <2>2. Known \in Edges /\ fails # MAX_FAILS
    BY <2>1 DEF Known, StackedTypeOK
  <2>3. StackedTypeOK'
    <3>1. cached' \in Edges \cup {NoEdge}
      BY <2>1 DEF StackedTypeOK
    <3>2. fails' \in 0..MAX_FAILS /\ dials' \in 0..(MAX_FAILS + 1)
      BY <1>1, <2>1 DEF MAX_FAILS
    <3>3. QED
      BY <2>1, <2>2, <3>1, <3>2, StartTurnType
  <2>4. HoldsByPlace' /\ TakenByPlace' /\ PumpsOverStack' /\ AwaitsOnce'
    BY <2>1, StartTurnHolds
  <2>5. DialsCharged'
    BY <1>1, <2>1, <2>2 DEF StartTurn, DialsCharged, MAX_FAILS, Choosing, Gool
  <2>6. QED
    BY <2>3, <2>4, <2>5
<1>4. CASE ScanFinds
  <2>1. PICK e \in Edges : StartTurn(e)
    <3>1. PICK e \in IF options.pin # NoEdge THEN {options.pin} ELSE answers :
            StartTurn(e)
      BY <1>4 DEF ScanFinds
    <3>2. e \in Edges
      BY StackedAssumption DEF StackedTypeOK, Options
    <3>3. QED
      BY <3>1, <3>2
  <2>2. pc = "choose" /\ fails' = 0 /\ dials' \in {0, 1} /\ cached' \in {NoEdge, cached}
    BY <1>4 DEF ScanFinds
  <2>3. StackedTypeOK'
    <3>1. cached' \in Edges \cup {NoEdge}
      BY <2>2 DEF StackedTypeOK
    <3>2. fails' \in 0..MAX_FAILS /\ dials' \in 0..(MAX_FAILS + 1)
      BY <2>2 DEF MAX_FAILS
    <3>3. QED
      BY <2>1, <3>1, <3>2, StartTurnType
  <2>4. HoldsByPlace' /\ TakenByPlace' /\ PumpsOverStack' /\ AwaitsOnce'
    BY <2>1, <2>2, StartTurnHolds
  <2>5. DialsCharged'
    BY <2>1, <2>2 DEF StartTurn, DialsCharged, MAX_FAILS, Choosing, Gool
  <2>6. QED
    BY <2>3, <2>4, <2>5
<1>5. QED
  BY <1>2, <1>3, <1>4

-----------------------------------------------------------------------------
(* Leaving a session keeps the guard and the stack in step, and names the  *)
(* hop that pays.                                                          *)
LEMMA LeavePreserves ==
  ASSUME StackedInv, NEW result \in {"outer", "inner"}, Leave(result),
         pc \notin Choosing,
         held' \subseteq held, "guard" \in held <=> "guard" \in held',
         "guard" \in held' => "stack" \in held',
         forwarder' = forwarder,
         result = "outer" => handle["outer"] = "none" \/ winner = "outer"
  PROVE  StackedInv'
<1> USE DEF StackedInv
<1>1. pc' = "leaving" /\ ending' = result
      /\ UNCHANGED <<options, net, loop, turn, joins, netstack>>
  BY DEF Leave
<1>2. StackedTypeOK'
  BY <1>1 DEF StackedTypeOK, net, loop, turn, joins
<1>3. HoldsByPlace'
  BY <1>1 DEF HoldsByPlace, Early, Choosing
<1>4. TakenByPlace'
  BY <1>1 DEF TakenByPlace, joins, Awaited
<1>5. PumpsOverStack'
  BY <1>1 DEF PumpsOverStack, joins, Mim
<1>6. AwaitsOnce'
  BY <1>1 DEF AwaitsOnce, joins, Mim
<1>7. DialsCharged'
  BY <1>1 DEF DialsCharged, loop, Choosing, Gool
<1>8. QED
  BY <1>2, <1>3, <1>4, <1>5, <1>6, <1>7

(* The locals that go one after the other, the guard before the stack.     *)
LEMMA DropLocalPreserves ==
  ASSUME StackedInv, DropLocal
  PROVE  StackedInv'
<1> USE DEF StackedInv
<1>1. PICK x \in held : (\A y \in held : Declared[y] <= Declared[x]) /\ Release(x)
  BY DEF DropLocal
<1>2. pc \in {"leaving", "panicked"}
      /\ UNCHANGED <<options, net, loop, pc, turn, joins, netstack, ending>>
  BY DEF DropLocal
<1>3. held' = held \ {x} /\ forwarder' = IF x = "guard" THEN Abort(forwarder) ELSE forwarder
  BY <1>1 DEF Release
<1>4. x \in Locals /\ ("guard" \in held => x = "guard")
  <2>1. x \in Locals
    BY <1>1 DEF StackedTypeOK
  <2>2. Declared["stack"] = 1 /\ Declared["guard"] = 2
    BY DEF Declared
  <2>3. "guard" \in held => Declared["guard"] <= Declared[x]
    BY <1>1
  <2>4. QED
    BY <2>1, <2>2, <2>3 DEF Locals
<1>5. StackedTypeOK'
  BY <1>2, <1>3 DEF StackedTypeOK, Abort, net, loop, turn, joins
<1>6. HoldsByPlace'
  BY <1>2, <1>3, <1>4 DEF HoldsByPlace, Early, Choosing
<1>7. TakenByPlace' /\ AwaitsOnce' /\ DialsCharged'
  BY <1>2 DEF TakenByPlace, AwaitsOnce, DialsCharged, loop, joins, Gool, Mim
<1>8. PumpsOverStack'
  <2>1. forwarder' = "pumping" => forwarder = "pumping" /\ x # "guard"
    BY <1>3 DEF Abort
  <2>2. QED
    BY <1>2, <1>3, <1>4, <2>1 DEF PumpsOverStack, joins, Mim
<1>9. QED
  BY <1>5, <1>6, <1>7, <1>8

(* The end of a turn: nothing is held, and a hop has paid.                 *)
LEMMA TurnEndsPreserves ==
  ASSUME StackedInv, TurnEnds
  PROVE  StackedInv'
<1> USE DEF StackedInv
<1>1. pc = "leaving" /\ ending \in {"outer", "inner"}
  BY DEF TurnEnds, TakenByPlace, StackedTypeOK
<1>2. fails' \in {fails, fails + 1} /\ lastInner' \in {lastInner, NoEdge}
  BY <1>1 DEF TurnEnds, GoolEnds, MimEnds
<1>3. Gool => fails' = fails + 1
  BY DEF TurnEnds, GoolEnds
<1>4. fails < MAX_FAILS /\ fails \in Nat
  BY <1>1 DEF DialsCharged, StackedTypeOK, MAX_FAILS, Choosing
<1>5. StackedTypeOK'
  <2>1. fails' \in 0..MAX_FAILS
    BY <1>2, <1>4 DEF MAX_FAILS
  <2>2. handle' \in [Hops -> {"none", "running", "done", "taken"}]
    BY DEF TurnEnds, NoTasks
  <2>3. left' \in Seq(Edges) /\ unsettled' \in Seq(Hops)
    BY DEF TurnEnds
  <2>4. UNCHANGED <<options, answers, inside, cached, lastPeer, dials, saved, held>>
    BY DEF TurnEnds, net
  <2>5. peer' = NoEdge /\ pc' = "choose" /\ winner' = "none" /\ ending' = "none"
        /\ netstack' = FALSE /\ forwarder' = "none"
    BY DEF TurnEnds
  <2>6. QED
    BY <1>2, <2>1, <2>2, <2>3, <2>4, <2>5 DEF StackedTypeOK
<1>6. HoldsByPlace'
  BY DEF TurnEnds, HoldsByPlace, Early, Choosing
<1>7. TakenByPlace' /\ PumpsOverStack'
  BY DEF TurnEnds, TakenByPlace, PumpsOverStack, NoTasks, Hops
<1>8. AwaitsOnce'
  BY DEF TurnEnds, AwaitsOnce
<1>9. DialsCharged'
  BY <1>1, <1>3, <1>4 DEF TurnEnds, DialsCharged, Gool, Choosing
<1>10. QED
  BY <1>5, <1>6, <1>7, <1>8, <1>9

-----------------------------------------------------------------------------
(* Giving up a candidate, before the session serves.                       *)
LEMMA NextCandidatePreserves ==
  ASSUME StackedInv, NextCandidate, left # <<>>, pc \in {"forward", "inner"}
  PROVE  StackedInv'
<1> USE DEF StackedInv
<1>1. CASE Leave("inner") /\ UNCHANGED <<held, forwarder>>
  BY <1>1, LeavePreserves DEF HoldsByPlace, Choosing
<1>2. CASE /\ left' = Tail(left) /\ Release("guard") /\ pc' = "forward"
           /\ UNCHANGED <<options, net, loop, peer, joins, netstack, ending>>
  <2>1. left' \in Seq(Edges)
    BY <1>2 DEF StackedTypeOK
  <2>2. held' = held \ {"guard"} /\ forwarder' = Abort(forwarder)
    BY <1>2 DEF Release
  <2>3. held' = {"stack"}
    BY <2>2 DEF HoldsByPlace, Locals
  <2>4. StackedTypeOK'
    BY <1>2, <2>1, <2>2 DEF StackedTypeOK, Abort, net, loop, joins
  <2>5. HoldsByPlace' /\ TakenByPlace'
    BY <1>2, <2>3 DEF HoldsByPlace, TakenByPlace, joins, Early, Choosing, Awaited
  <2>6. PumpsOverStack'
    BY <1>2, <2>2 DEF PumpsOverStack, HoldsByPlace, Abort, Locals, joins
  <2>7. AwaitsOnce' /\ DialsCharged'
    BY <1>2 DEF AwaitsOnce, DialsCharged, joins, loop, Choosing, Gool, Mim
  <2>8. QED
    BY <2>4, <2>5, <2>6, <2>7
<1>3. QED
  BY <1>1, <1>2 DEF NextCandidate

(* Raising the outer hop: its stack runs, and its handle is held.          *)
LEMMA RaiseOuterPreserves ==
  ASSUME StackedInv, RaiseOuter
  PROVE  StackedInv'
<1> USE DEF StackedInv
<1>1. pc = "outer" /\ pc' = "forward" /\ held' = {"stack"} /\ netstack' = TRUE
      /\ handle' = [handle EXCEPT !["outer"] = "running"]
      /\ UNCHANGED <<options, net, loop, turn, forwarder, winner, unsettled, ending>>
  BY DEF RaiseOuter
<1>2. handle' \in [Hops -> {"none", "running", "done", "taken"}]
      /\ \A h \in Hops : handle'[h] # "taken"
  BY <1>1 DEF StackedTypeOK, HoldsByPlace, Early, NoTasks
<1>3. forwarder # "pumping"
  BY <1>1 DEF HoldsByPlace, PumpsOverStack, Early
<1>4. winner = "none" /\ unsettled = <<>> /\ ending # "outer"
  BY <1>1 DEF TakenByPlace, Awaited
<1>5. StackedTypeOK'
  BY <1>1, <1>2 DEF StackedTypeOK, Locals, net, loop, turn
<1>6. HoldsByPlace'
  BY <1>1 DEF HoldsByPlace, Early, Choosing
<1>7. TakenByPlace'
  BY <1>1, <1>2, <1>4 DEF TakenByPlace, Awaited
<1>8. PumpsOverStack'
  BY <1>1, <1>3 DEF PumpsOverStack
<1>9. AwaitsOnce'
  BY <1>1, <1>4 DEF AwaitsOnce
<1>10. DialsCharged'
  BY <1>1 DEF DialsCharged, loop, Choosing, Gool
<1>11. QED
  BY <1>5, <1>6, <1>7, <1>8, <1>9, <1>10

(* Raising the forwarder and the inner hop.                                *)
LEMMA RaisePreserves ==
  ASSUME StackedInv,
         \/ OuterRefused \/ RaiseForwarder \/ ForwarderFails
         \/ NoInnerAnswers \/ RaiseInner \/ InnerRefused
  PROVE  StackedInv'
<1> USE DEF StackedInv
<1>1. CASE OuterRefused
  <2>1. pc = "outer" /\ handle["outer"] = "none"
    BY <1>1 DEF OuterRefused, HoldsByPlace, Early, NoTasks, Hops
  <2>2. QED
    BY <1>1, <2>1, LeavePreserves DEF OuterRefused, HoldsByPlace, Choosing
<1>2. CASE RaiseForwarder
  <2>1. pc = "forward" /\ pc' = "inner" /\ left # <<>> /\ forwarder' = "pumping"
        /\ held' = held \cup {"guard"}
        /\ UNCHANGED <<options, net, loop, turn, joins, netstack, ending>>
    BY <1>2 DEF RaiseForwarder
  <2>2. held' = Locals
    BY <2>1 DEF HoldsByPlace, Locals
  <2>3. StackedTypeOK'
    BY <2>1, <2>2 DEF StackedTypeOK, net, loop, turn, joins
  <2>4. HoldsByPlace'
    BY <2>1, <2>2 DEF HoldsByPlace, Locals, Early, Choosing, turn
  <2>5. TakenByPlace' /\ PumpsOverStack'
    BY <2>1, <2>2 DEF TakenByPlace, PumpsOverStack, HoldsByPlace, Locals, Awaited,
       joins, Hops
  <2>6. AwaitsOnce' /\ DialsCharged'
    BY <2>1 DEF AwaitsOnce, DialsCharged, joins, loop, Choosing, Gool, Mim
  <2>7. QED
    BY <2>3, <2>4, <2>5, <2>6
<1>3. CASE ForwarderFails
  BY <1>3, NextCandidatePreserves DEF ForwarderFails
<1>4. CASE NoInnerAnswers
  BY <1>4, LeavePreserves DEF NoInnerAnswers, HoldsByPlace, Choosing
<1>5. CASE RaiseInner
  <2>1. pc = "inner" /\ pc' = "serving" /\ handle["outer"] = "running"
        /\ UNCHANGED <<options, net, loop, turn, winner, unsettled, owned, ending>>
    BY <1>5 DEF RaiseInner
  <2>2. handle' \in [Hops -> {"none", "running", "done", "taken"}]
        /\ handle'["outer"] = "running"
        /\ \A h \in Hops : handle'[h] = "taken" => handle[h] = "taken"
    BY <1>5, <2>1 DEF RaiseInner, StackedTypeOK, Hops
  <2>3. StackedTypeOK'
    BY <2>1, <2>2 DEF StackedTypeOK, net, loop, turn, owned
  <2>4. HoldsByPlace'
    BY <2>1 DEF HoldsByPlace, owned, Early, Choosing
  <2>5. TakenByPlace'
    BY <2>1, <2>2 DEF TakenByPlace, Awaited
  <2>6. PumpsOverStack'
    BY <2>1, <2>2 DEF PumpsOverStack, owned
  <2>7. AwaitsOnce'
    BY <2>1 DEF AwaitsOnce, TakenByPlace, Awaited
  <2>8. DialsCharged'
    BY <2>1 DEF DialsCharged, loop, Choosing, Gool
  <2>9. QED
    BY <2>3, <2>4, <2>5, <2>6, <2>7, <2>8
<1>6. CASE InnerRefused
  <2>1. left # <<>>
    BY <1>6 DEF InnerRefused, HoldsByPlace
  <2>2. QED
    BY <1>6, <2>1, NextCandidatePreserves DEF InnerRefused
<1>7. QED
  BY <1>1, <1>2, <1>3, <1>4, <1>5, <1>6

-----------------------------------------------------------------------------
Distinct(s) == \A i, j \in 1..Len(s) : s[i] = s[j] => i = j

(* Sequences of distinct elements of disjoint sets, one after the other.   *)
LEMMA JoinDistinct ==
  ASSUME NEW A, NEW B, A \cap B = {}, NEW s \in Seq(A), NEW t \in Seq(B),
         Distinct(s), Distinct(t)
  PROVE  s \o t \in Seq(A \cup B) /\ Distinct(s \o t)
<1>1. s \in Seq(A \cup B) /\ t \in Seq(A \cup B)
      /\ Len(s) \in Nat /\ Len(t) \in Nat
  OBVIOUS
<1>2. s \o t \in Seq(A \cup B) /\ Len(s \o t) = Len(s) + Len(t)
  BY <1>1, ConcatProperties
<1>3. \A i \in 1..(Len(s) + Len(t)) :
        (s \o t)[i] = IF i <= Len(s) THEN s[i] ELSE t[i - Len(s)]
  BY <1>1, ConcatProperties
<1>4. (\A i \in 1..Len(s) : s[i] \in A) /\ (\A i \in 1..Len(t) : t[i] \in B)
  OBVIOUS
<1>5. ASSUME NEW i \in 1..(Len(s) + Len(t)), NEW j \in 1..(Len(s) + Len(t)),
             (s \o t)[i] = (s \o t)[j]
      PROVE  i = j
  <2>1. CASE i <= Len(s) /\ j <= Len(s)
    BY <1>1, <1>3, <1>5, <2>1 DEF Distinct
  <2>2. CASE i > Len(s) /\ j > Len(s)
    <3>1. i - Len(s) \in 1..Len(t) /\ j - Len(s) \in 1..Len(t)
      BY <1>1, <2>2
    <3>2. t[i - Len(s)] = t[j - Len(s)]
      BY <1>1, <1>3, <1>5, <2>2
    <3>3. QED
      BY <1>1, <3>1, <3>2 DEF Distinct
  <2>3. CASE i <= Len(s) /\ j > Len(s)
    <3>1. s[i] \in A /\ t[j - Len(s)] \in B
      BY <1>1, <1>4, <2>3
    <3>2. QED
      BY <1>1, <1>3, <1>5, <2>3, <3>1
  <2>4. CASE i > Len(s) /\ j <= Len(s)
    <3>1. s[j] \in A /\ t[i - Len(s)] \in B
      BY <1>1, <1>4, <2>4
    <3>2. QED
      BY <1>1, <1>3, <1>5, <2>4, <3>1
  <2>5. QED
    BY <1>1, <2>1, <2>2, <2>3, <2>4
<1>6. QED
  BY <1>2, <1>5 DEF Distinct

(* What a MASQUE-in-MASQUE session settles: distinct handles, the resolved *)
(* one not among them.                                                     *)
LEMMA ToSettleOnce ==
  ASSUME NEW h \in Hops
  PROVE  /\ ToSettle(h) \in Seq(Hops)
         /\ ~Gool => ToSettle(h) \in Seq(Hops \ {h}) /\ Distinct(ToSettle(h))
<1> DEFINE unless(x) == IF x = h \/ handle[x] = "none" THEN <<>> ELSE <<x>>
           sole(x) == {x} \ {h}
<1>1. CASE Gool
  BY <1>1 DEF ToSettle, Hops
<1>2. CASE ~Gool
  <2>1. ToSettle(h) = unless("local") \o unless("outer") \o unless("inner")
    BY <1>2 DEF ToSettle
  <2>2. \A x \in Hops : unless(x) \in Seq(sole(x)) /\ Distinct(unless(x))
    <3>1. SUFFICES ASSUME NEW x \in Hops
                   PROVE  unless(x) \in Seq(sole(x)) /\ Distinct(unless(x))
      OBVIOUS
    <3>2. CASE unless(x) = <<>>
      BY <3>2 DEF Distinct
    <3>3. CASE x # h /\ unless(x) = <<x>>
      <4>1. <<x>> \in Seq(sole(x)) /\ Distinct(<<x>>)
        BY <3>3 DEF Distinct
      <4>2. QED
        BY <3>3, <4>1
    <3>4. QED
      BY <3>2, <3>3
  <2> DEFINE first == unless("local") \o unless("outer")
             both  == sole("local") \cup sole("outer")
  <2>3. first \in Seq(both) /\ Distinct(first)
    <3>1. sole("local") \cap sole("outer") = {}
      OBVIOUS
    <3>2. "local" \in Hops /\ "outer" \in Hops
      BY DEF Hops
    <3> HIDE DEF unless, sole
    <3>3. QED
      BY <2>2, <3>1, <3>2, JoinDistinct
  <2>4. ToSettle(h) \in Seq(both \cup sole("inner")) /\ Distinct(ToSettle(h))
    <3>1. both \cap sole("inner") = {}
      OBVIOUS
    <3>2. "inner" \in Hops /\ ToSettle(h) = first \o unless("inner")
      BY <2>1 DEF Hops
    <3> HIDE DEF unless, sole, first, both
    <3>3. unless("inner") \in Seq(sole("inner")) /\ Distinct(unless("inner"))
      BY <2>2, <3>2
    <3>4. first \o unless("inner") \in Seq(both \cup sole("inner"))
          /\ Distinct(first \o unless("inner"))
      BY <2>3, <3>1, <3>3, JoinDistinct
    <3>5. QED
      BY <3>2, <3>4
  <2>5. both \cup sole("inner") = Hops \ {h}
    BY DEF Hops
  <2>6. ToSettle(h) \in Seq(Hops \ {h})
    BY <2>4, <2>5
  <2>7. QED
    BY <1>2, <2>4, <2>6
<1>3. QED
  BY <1>1, <1>2

(* select! takes one result.                                               *)
LEMMA ResolvePreserves ==
  ASSUME StackedInv, NEW h \in Hops, TaskResolves(h)
  PROVE  StackedInv'
<1> USE DEF StackedInv
<1>1. pc = "serving" /\ winner' = h
      /\ pc' = (IF Gool THEN "dropping" ELSE "settling")
      /\ handle' = [handle EXCEPT ![h] = "taken"] /\ unsettled' = ToSettle(h)
      /\ UNCHANGED <<options, net, loop, turn, owned, ending>>
  BY DEF TaskResolves
<1>2. \A x \in Hops : handle'[x] = IF x = h THEN "taken" ELSE handle[x]
  BY <1>1 DEF StackedTypeOK
<1>3. \A x \in Hops \ {h} : handle'[x] # "taken"
  BY <1>1, <1>2 DEF TakenByPlace, Awaited
<1>4. StackedTypeOK'
  <2>1. unsettled' \in Seq(Hops)
    BY <1>1, ToSettleOnce
  <2>2. handle' \in [Hops -> {"none", "running", "done", "taken"}]
    BY <1>1 DEF StackedTypeOK
  <2>3. QED
    BY <1>1, <2>1, <2>2 DEF StackedTypeOK, net, loop, turn, owned
<1>5. HoldsByPlace'
  BY <1>1 DEF HoldsByPlace, owned, Early, Choosing, Gool
<1>6. TakenByPlace'
  BY <1>1, <1>3 DEF TakenByPlace, Awaited
<1>7. PumpsOverStack'
  BY <1>1, <1>2 DEF PumpsOverStack, HoldsByPlace, owned, TakenByPlace, Awaited, Hops
<1>8. AwaitsOnce'
  <2>1. SUFFICES ASSUME Mim PROVE AwaitsOnce'
    BY <1>1 DEF AwaitsOnce, Mim
  <2>2. ~Gool
    BY <2>1 DEF Gool, Mim
  <2>3. unsettled' \in Seq(Hops \ {h}) /\ Distinct(unsettled')
    BY <1>1, <2>2, ToSettleOnce
  <2>4. QED
    BY <1>1, <1>3, <2>2, <2>3 DEF AwaitsOnce, Distinct
<1>9. DialsCharged'
  BY <1>1 DEF DialsCharged, loop, Choosing, Gool
<1>10. QED
  BY <1>4, <1>5, <1>6, <1>7, <1>8, <1>9

(* Awaiting one more handle.                                               *)
LEMMA SettlePreserves ==
  ASSUME StackedInv, Settle
  PROVE  StackedInv'
<1> USE DEF StackedInv
<1>1. pc = "settling" /\ unsettled # <<>>
      /\ UNCHANGED <<options, net, loop, turn, winner, owned, ending>>
  BY DEF Settle
<1>2. unsettled \in Seq(Hops) /\ Len(unsettled) \in Nat \ {0}
      /\ Head(unsettled) = unsettled[1] /\ Head(unsettled) \in Hops
  BY <1>1 DEF StackedTypeOK
<1>3. held = (IF Gool THEN {"stack"} ELSE Locals) /\ (forwarder = "pumping" => Mim)
  <2>1. held = IF Gool THEN {"stack"} ELSE Locals
    BY <1>1 DEF HoldsByPlace
  <2>2. forwarder = "pumping" => ~Gool
    BY <2>1 DEF PumpsOverStack
  <2>3. QED
    BY <2>1, <2>2 DEF Gool, Mim, StackedTypeOK, Options
<1>4. ending = "none"
  BY <1>1 DEF TakenByPlace
<1>5. CASE handle[Head(unsettled)] = "taken"
  <2>1. pc' = "panicked" /\ UNCHANGED <<handle, unsettled>>
    BY <1>5 DEF Settle
  <2>2. ~Mim
    BY <1>2, <1>5 DEF AwaitsOnce
  <2>3. StackedTypeOK'
    BY <1>1, <2>1 DEF StackedTypeOK, net, loop, turn, owned
  <2>4. HoldsByPlace'
    BY <1>1, <2>1 DEF HoldsByPlace, owned, Early, Choosing
  <2>5. TakenByPlace'
    BY <1>1, <1>4, <2>1 DEF TakenByPlace, Awaited
  <2>6. PumpsOverStack'
    BY <1>1, <1>3, <2>1, <2>2 DEF PumpsOverStack, owned
  <2>7. AwaitsOnce' /\ DialsCharged'
    BY <1>1, <2>1, <2>2 DEF AwaitsOnce, DialsCharged, loop, Choosing, Gool, Mim
  <2>8. QED
    BY <2>3, <2>4, <2>5, <2>6, <2>7
<1>6. CASE handle[Head(unsettled)] # "taken"
  <2>1. handle' = [handle EXCEPT ![Head(unsettled)] = "taken"]
        /\ unsettled' = Tail(unsettled) /\ pc' = pc
    BY <1>6 DEF Settle
  <2>2. unsettled' \in Seq(Hops) /\ Len(unsettled') = Len(unsettled) - 1
        /\ \A i \in 1..Len(unsettled') : unsettled'[i] = unsettled[i + 1]
    BY <1>1, <1>2, <2>1
  <2>3. handle' \in [Hops -> {"none", "running", "done", "taken"}]
        /\ handle'["outer"] \in {handle["outer"], "taken"}
    BY <1>2, <2>1 DEF StackedTypeOK, Hops
  <2>4. StackedTypeOK'
    BY <1>1, <2>1, <2>2, <2>3 DEF StackedTypeOK, net, loop, turn, owned
  <2>5. HoldsByPlace'
    BY <1>1, <2>1 DEF HoldsByPlace, owned, Early, Choosing, Gool
  <2>6. TakenByPlace'
    BY <1>1, <1>4, <2>1 DEF TakenByPlace, Awaited
  <2>7. PumpsOverStack'
    BY <1>1, <1>3, <2>1, <2>3 DEF PumpsOverStack, owned, Mim
  <2>8. AwaitsOnce'
    <3>1. SUFFICES ASSUME Mim PROVE AwaitsOnce'
      BY <1>1 DEF AwaitsOnce, Mim
    <3>2. \A i, j \in 1..Len(unsettled) : unsettled[i] = unsettled[j] => i = j
      BY <3>1 DEF AwaitsOnce
    <3>3. \A i, j \in 1..Len(unsettled') : unsettled'[i] = unsettled'[j] => i = j
      BY <1>2, <2>2, <3>2
    <3>4. ASSUME NEW i \in 1..Len(unsettled')
          PROVE  handle'[unsettled'[i]] # "taken"
      <4>1. i + 1 \in 1..Len(unsettled) /\ 1 \in 1..Len(unsettled)
            /\ i + 1 # 1 /\ unsettled'[i] = unsettled[i + 1]
        BY <1>2, <2>2
      <4>2. unsettled[i + 1] # Head(unsettled) /\ unsettled[i + 1] \in Hops
        BY <1>2, <3>2, <4>1
      <4>3. handle[unsettled[i + 1]] # "taken"
        BY <3>1, <4>1 DEF AwaitsOnce
      <4>4. QED
        BY <2>1, <4>1, <4>2, <4>3 DEF StackedTypeOK
    <3>5. QED
      BY <1>1, <2>1, <3>3, <3>4 DEF AwaitsOnce
  <2>9. DialsCharged'
    BY <1>1, <2>1 DEF DialsCharged, loop, Choosing, Gool
  <2>10. QED
    BY <2>4, <2>5, <2>6, <2>7, <2>8, <2>9
<1>7. QED
  BY <1>5, <1>6

(* The teardown's own drops, of the forwarder and of the stack.            *)
LEMMA TeardownPreserves ==
  ASSUME StackedInv, DropForwarder \/ SessionEnds
  PROVE  StackedInv'
<1> USE DEF StackedInv
<1>1. CASE DropForwarder
  <2>1. pc = "dropping" /\ pc' = "settling"
        /\ held' = held \ {"guard"} /\ forwarder' = Abort(forwarder)
        /\ UNCHANGED <<options, net, loop, turn, joins, netstack, ending>>
    BY <1>1 DEF DropForwarder, Release
  <2>2. held' = {"stack"} /\ forwarder' # "pumping"
    BY <2>1 DEF HoldsByPlace, Locals, Abort
  <2>3. StackedTypeOK'
    BY <2>1, <2>2 DEF StackedTypeOK, Locals, Abort, net, loop, turn, joins
  <2>4. Gool => HoldsByPlace'
    BY <2>1, <2>2 DEF HoldsByPlace, Early, Choosing, Gool
  <2>5. TakenByPlace'
    BY <2>1 DEF TakenByPlace, joins, Awaited
  <2>6. PumpsOverStack'
    BY <2>1, <2>2 DEF PumpsOverStack, HoldsByPlace, Locals, joins
  <2>7. AwaitsOnce' /\ DialsCharged'
    BY <2>1 DEF AwaitsOnce, DialsCharged, joins, loop, Choosing, Gool, Mim
  <2>8. Gool
    BY <2>1 DEF HoldsByPlace
  <2>9. QED
    BY <2>3, <2>4, <2>5, <2>6, <2>7, <2>8
<1>2. CASE SessionEnds
  <2>1. pc = "settling" /\ Outcome \in {"outer", "inner"} /\ Leave(Outcome)
        /\ (Outcome = "outer" => winner = "outer")
    BY <1>2 DEF SessionEnds, Outcome
  <2>2. CASE Gool
    <3>1. held = {"stack"} /\ held' = {} /\ forwarder' = forwarder
      BY <1>2, <2>1, <2>2 DEF SessionEnds, HoldsByPlace, Release
    <3>2. QED
      BY <2>1, <3>1, LeavePreserves DEF Choosing
  <2>3. CASE ~Gool
    <3>1. UNCHANGED <<held, forwarder>>
      BY <1>2, <2>3 DEF SessionEnds
    <3>2. QED
      BY <2>1, <3>1, LeavePreserves DEF HoldsByPlace, Choosing
  <2>4. QED
    BY <2>2, <2>3
<1>3. QED
  BY <1>1, <1>2

-----------------------------------------------------------------------------
(* Every step preserves the invariant.                                     *)
LEMMA StepPreserves == StackedInv /\ [StackedNext]_stackedVars => StackedInv'
<1> SUFFICES ASSUME StackedInv, [StackedNext]_stackedVars PROVE StackedInv'
  OBVIOUS
<1>1. CASE UNCHANGED stackedVars
  BY <1>1 DEF stackedVars, net, loop, turn, joins, owned, StackedInv, StackedTypeOK,
     HoldsByPlace, TakenByPlace, PumpsOverStack, AwaitsOnce, DialsCharged, Gool, Mim
<1>2. CASE StackedNext
  BY <1>2, WorldPreserves, TasksPreserve, UserPreserves, ChoicePreserves,
     RaiseOuterPreserves, RaisePreserves, ResolvePreserves, SettlePreserves,
     TeardownPreserves, DropLocalPreserves, TurnEndsPreserves
  DEF StackedNext, Turn
<1>3. QED
  BY <1>1, <1>2

(* The invariant of every reachable state.                                 *)
THEOREM StackedInvariant == StackedSpec => []StackedInv
<1>1. StackedInit => StackedInv
  BY InitStackedInv
<1>2. StackedInv /\ [StackedNext]_stackedVars => StackedInv'
  BY StepPreserves
<1>3. QED
  BY <1>1, <1>2, PTL DEF StackedSpec

(* The variables stay in their types: the failure count within its limit,  *)
(* the remaining inner tries a sequence of edges.                          *)
THEOREM StackedTypes == StackedSpec => []StackedTypeOK
<1>1. StackedInv => StackedTypeOK
  BY DEF StackedInv
<1>2. QED
  BY <1>1, StackedInvariant, PTL

(* A MASQUE-in-MASQUE teardown never polls a handle twice.                 *)
THEOREM MimTeardownIsSafe == StackedSpec => []MimNeverPanics
<1>1. StackedInv => MimNeverPanics
  BY DEF StackedInv, AwaitsOnce, MimNeverPanics
<1>2. QED
  BY <1>1, StackedInvariant, PTL

(* A forwarder nobody told to end has its outer stack: on every way out of *)
(* a session, between any two of its drops, and while a WARP-in-WARP       *)
(* teardown ends the outer tunnel.                                         *)
THEOREM StackOutlivesForwarder == StackedSpec => []ForwarderNeedsStack
<1>1. StackedInv => ForwarderNeedsStack
  <2>1. SUFFICES ASSUME StackedInv, forwarder = "pumping"
                 PROVE  /\ "stack" \in held
                        /\ \/ netstack \/ OuterEndedItself
                           \/ Mim /\ pc \in {"settling", "leaving"}
    BY DEF ForwarderNeedsStack
  <2>2. "stack" \in held
    BY <2>1 DEF StackedInv, HoldsByPlace, PumpsOverStack
  <2>3. netstack \/ handle["outer"] \in {"done", "taken"}
    BY <2>1, <2>2 DEF StackedInv, PumpsOverStack
  <2>4. QED
    BY <2>1, <2>2, <2>3 DEF StackedInv, PumpsOverStack, OuterEndedItself
<1>2. QED
  BY <1>1, StackedInvariant, PTL

(* A WARP-in-WARP session dials an edge at most twice between scans.       *)
THEOREM GoolRescansInTime == StackedSpec => []GoolDialsTwice
<1>1. StackedInv => GoolDialsTwice
  BY DEF StackedInv, StackedTypeOK, DialsCharged, GoolDialsTwice, MAX_FAILS
<1>2. QED
  BY <1>1, StackedInvariant, PTL

-----------------------------------------------------------------------------
(* Only the end of a turn charges anybody.                                 *)
LEMMA ChargedAtTheEnd ==
  ASSUME StackedTypeOK, StackedNext, fails' > fails
  PROVE  TurnEnds
<1>1. fails \in Nat
  BY DEF StackedTypeOK, MAX_FAILS
<1>2. ~(NetChanges \/ (\E h \in Hops : TaskEnds(h)) \/ Tasks)
  BY <1>1 DEF NetChanges, TaskEnds, Tasks, NetstackEnds, ForwarderAborted,
     ForwarderBreaks, loop
<1>3. ~(Cancel \/ StartOver)
  BY <1>1 DEF Cancel, StartOver, Forget
<1>4. ~(LoadCached \/ ReusePeer \/ ScanFinds \/ ScanFails)
  BY <1>1 DEF LoadCached, ReusePeer, ScanFinds, ScanFails
<1>5. ~(RaiseOuter \/ RaiseForwarder \/ RaiseInner)
  BY <1>1 DEF RaiseOuter, RaiseForwarder, RaiseInner, loop
<1>6. ~(OuterRefused \/ ForwarderFails \/ NoInnerAnswers \/ InnerRefused)
  BY <1>1 DEF OuterRefused, ForwarderFails, NoInnerAnswers, InnerRefused,
     NextCandidate, Leave, loop
<1>7. ~((\E h \in Hops : TaskResolves(h)) \/ DropForwarder \/ Settle)
  BY <1>1 DEF TaskResolves, DropForwarder, Settle, loop
<1>8. ~(SessionEnds \/ DropLocal)
  BY <1>1 DEF SessionEnds, DropLocal, Leave, loop
<1>9. QED
  BY <1>2, <1>3, <1>4, <1>5, <1>6, <1>7, <1>8 DEF StackedNext, Turn

(* A MASQUE-in-MASQUE outer edge pays for its own hop's failures only.     *)
THEOREM InnerFailuresAreFree == StackedSpec => OnlyOuterPays
<1>1. ASSUME StackedInv, StackedNext, Mim, fails' > fails
      PROVE  handle["outer"] = "none" \/ winner = "outer"
  <2>1. TurnEnds /\ MimEnds(ending)
    BY <1>1, ChargedAtTheEnd DEF StackedInv, TurnEnds, Gool, Mim
  <2>2. ending \in {"outer", "inner"} /\ fails \in Nat
    BY <1>1, <2>1 DEF StackedInv, StackedTypeOK, TakenByPlace, TurnEnds, MAX_FAILS
  <2>3. ending # "inner"
    BY <1>1, <2>1, <2>2 DEF MimEnds
  <2>4. QED
    BY <1>1, <2>2, <2>3 DEF StackedInv, TakenByPlace
<1>2. ASSUME StackedInv, [StackedNext]_stackedVars
      PROVE  [Mim /\ fails' > fails =>
                \/ handle["outer"] = "none" \/ winner = "outer"]_stackedVars
  BY <1>1, <1>2
<1>3. QED
  BY <1>2, StackedInvariant, PTL DEF StackedSpec, OnlyOuterPays
=============================================================================
