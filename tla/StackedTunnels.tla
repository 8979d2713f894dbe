--------------------------- MODULE StackedTunnels ---------------------------
(***************************************************************************)
(* The two nested sessions of the native core (src/core/aether/src/main.rs):*)
(* WARP-in-WARP, run_gool and run_warp_in_warp ("gool"), and MASQUE-in-    *)
(* MASQUE, run_mim and run_masque_in_masque ("mim").  Both raise an outer  *)
(* tunnel, a forwarder through the outer tunnel's network stack, and an    *)
(* inner tunnel through the forwarder, serve until one of the session's    *)
(* tasks ends, take the rest down and start over.                          *)
(*                                                                         *)
(* A task is its JoinHandle: running, done (finished, its result not taken *)
(* yet) or taken (its result was awaited; tokio panics when such a handle  *)
(* is polled again).  What has no handle in the session, the task of the   *)
(* outer hop's network stack and the forwarder's, ends some time after     *)
(* what it depends on was dropped or aborted.  What a turn leaves running  *)
(* is not followed past its end.                                           *)
(*                                                                         *)
(* Addresses are members of Edges; a validation is whether the edge answers *)
(* at that moment, directly (answers) or from inside the outer tunnel      *)
(* (inside).  Identities, ECH, MTU budgets, Smart  *)
(* DNS, the HTTP proxy and the waits between turns are left out.           *)
(***************************************************************************)
EXTENDS Naturals, Sequences, FiniteSets

CONSTANTS Edges, NoEdge,
          Pins,         (* the choices of forced_peer and forced_inner_peer  *)
          MaxTries      (* MIM_INNER_TRIES                                   *)

ASSUME StackedAssumption ==
  /\ NoEdge \notin Edges
  /\ Pins \subseteq Edges \cup {NoEdge}
  /\ \A e \in Edges : Edges # {e}       (* the built-in ladder has several   *)
  /\ MaxTries \in Nat \ {0}

(* MAX_CONSECUTIVE_FAILS of run_gool, MAX_OUTER_FAILS of run_mim.          *)
MAX_FAILS == 2

Hops == {"outer", "inner", "local"}

(* What a session owns of the outer hop and of the forwarder: the          *)
(* StackHandle (with MASQUE-in-MASQUE inside the MasqueHop, whose guard    *)
(* aborts the hop's tunnel) and the ForwarderGuard, in the order in which  *)
(* they are declared.                                                      *)
Locals   == {"stack", "guard"}
Declared == [stack |-> 1, guard |-> 2]

VARIABLES
  options,     (* protocol, forced_peer, forced_inner_peer, tun_fd given     *)
  answers,     (* edges that validate when dialled directly                  *)
  inside,      (* edges that validate when dialled through an outer tunnel   *)
  saved,       (* the last-connection file                                   *)
  cached,      (* cached_peer                                                *)
  lastPeer,    (* last_peer                                                  *)
  lastInner,   (* last_inner of run_mim                                      *)
  fails,       (* consecutive_fails, outer_fails                             *)
  pc,          (* where the session is                                       *)
  peer,        (* the outer edge of this turn                                *)
  left,        (* inner edges this turn has still to try                     *)
  handle,      (* the JoinHandle of each task                                *)
  held,        (* the locals of the session that are not dropped yet         *)
  netstack,    (* the task of the outer hop's network stack runs             *)
  forwarder,   (* the forwarder's tasks: pumping, aborted but not gone, none *)
  winner,      (* the handle select! resolved                                *)
  unsettled,   (* handles the teardown has still to abort and await          *)
  ending,      (* why the session is being left: a hop, or the user's stop   *)
  dials        (* history: turns of run_gool on this edge since the last     *)
               (* scan, capped                                               *)

net     == <<answers, inside>>
loop    == <<cached, lastPeer, lastInner, fails, dials, saved>>
joins   == <<handle, winner, unsettled>>
owned   == <<held, netstack, forwarder>>
turn    == <<peer, left>>
stackedVars == <<options, net, loop, pc, turn, joins, owned, ending>>

Gool == options.protocol = "gool"
Mim  == options.protocol = "mim"

NoTasks == [h \in Hops |-> "none"]

(* WARP-in-WARP is the same with and without a TUN.                        *)
Options ==
  {o \in [protocol : {"gool", "mim"}, pin : Pins, innerPin : Pins,
          tun : BOOLEAN] : o.protocol = "gool" => ~o.tun}

StackedTypeOK ==
  /\ options \in Options
  /\ answers \subseteq Edges /\ inside \subseteq Edges
  /\ {saved, cached, lastPeer, lastInner, peer} \subseteq Edges \cup {NoEdge}
  /\ fails \in 0..MAX_FAILS
  /\ pc \in {"verify", "choose", "outer", "forward", "inner", "serving",
             "dropping", "settling", "leaving", "panicked"}
  /\ left \in Seq(Edges)
  /\ handle \in [Hops -> {"none", "running", "done", "taken"}]
  /\ held \subseteq Locals /\ netstack \in BOOLEAN /\ forwarder \in {"none", "pumping", "told"}
  /\ winner \in Hops \cup {"none"}
  /\ unsettled \in Seq(Hops)
  /\ ending \in {"none", "outer", "inner", "stop"}
  /\ dials \in 0..(MAX_FAILS + 1)

StackedInit ==
  /\ options \in Options
  /\ answers \in SUBSET Edges /\ inside \in SUBSET Edges
  /\ saved \in IF options.pin = NoEdge THEN Edges \cup {NoEdge} ELSE {NoEdge}
  /\ cached = NoEdge /\ lastPeer = NoEdge /\ lastInner = NoEdge
  /\ fails = 0 /\ dials = 0
  /\ pc = "verify" /\ peer = NoEdge /\ left = <<>>
  /\ handle = NoTasks /\ winner = "none" /\ unsettled = <<>>
  /\ held = {} /\ netstack = FALSE /\ forwarder = "none"
  /\ ending = "none"

-----------------------------------------------------------------------------
(***************************************************************************)
(* The environment: edges come and go; a tunnel's task ends when its edge  *)
(* or the tunnel below it is gone, the local side's whenever its device or *)
(* listener fails.                                                         *)
(***************************************************************************)

SymDiff(S, T) == (S \ T) \cup (T \ S)

NetChanges ==
  /\ \E e \in Edges :
       \/ answers' = SymDiff(answers, {e}) /\ UNCHANGED inside
       \/ inside' = SymDiff(inside, {e}) /\ UNCHANGED answers
  /\ UNCHANGED <<options, loop, pc, turn, joins, owned, ending>>

Broken(h) ==
  CASE h = "outer" -> peer \notin answers
    [] h = "inner" -> Head(left) \notin inside \/ handle["outer"] # "running"
    [] h = "local" -> TRUE

TaskEnds(h) ==
  /\ handle[h] = "running"
  /\ Broken(h)
  /\ handle' = [handle EXCEPT ![h] = "done"]
  /\ UNCHANGED <<options, net, loop, pc, turn, winner, unsettled, owned, ending>>

-----------------------------------------------------------------------------
(***************************************************************************)
(* The tasks under the hops, and what drops do to them.                    *)
(***************************************************************************)

(* Mutant: a ForwarderGuard that is dropped aborts nothing.                *)
AbortNothing(f) == f

(* ForwarderGuard::drop asks the tasks to end; nobody awaits them.         *)
Abort(f) == IF f = "pumping" THEN "told" ELSE f

Release(x) ==
  /\ held' = held \ {x}
  /\ forwarder' = IF x = "guard" THEN Abort(forwarder) ELSE forwarder

(* The loop of a network stack ends when the tunnel that feeds it is gone, *)
(* or when no StackHandle is left.  (spawn_tcp_forwarder, the forwarder of *)
(* HTTP/2, holds a clone of the handle, so that under it the stack may     *)
(* stay on.)                                                               *)
NetstackEnds ==
  /\ netstack
  /\ handle["outer"] \in {"done", "taken"} \/ "stack" \notin held
  /\ netstack' = FALSE
  /\ UNCHANGED <<options, net, loop, pc, turn, joins, held, forwarder, ending>>

ForwarderAborted ==
  /\ forwarder = "told"
  /\ forwarder' = "none"
  /\ UNCHANGED <<options, net, loop, pc, turn, joins, held, netstack, ending>>

(* The UDP forwarder's tasks end by themselves when they find the stack    *)
(* closed; the TCP forwarder's goes on accepting.                          *)
ForwarderBreaks ==
  /\ forwarder = "pumping"
  /\ ~netstack
  /\ forwarder' = "none"
  /\ UNCHANGED <<options, net, loop, pc, turn, joins, held, netstack, ending>>

Tasks ==
  \/ NetstackEnds \/ ForwarderAborted \/ ForwarderBreaks

-----------------------------------------------------------------------------
(***************************************************************************)
(* The user stops the session: its future is dropped at an await, what the *)
(* loop remembers and the handles with it, and then the runtime with every *)
(* task.  Another session finds the file and nothing else.                 *)
(***************************************************************************)

Forget ==
  /\ cached' = NoEdge /\ lastPeer' = NoEdge /\ lastInner' = NoEdge
  /\ fails' = 0 /\ dials' = 0
  /\ left' = <<>> /\ winner' = "none" /\ unsettled' = <<>>
  /\ UNCHANGED <<options, net, saved>>

Cancel ==
  /\ held # {}
  /\ pc \notin {"dropping", "leaving", "panicked"}
  /\ pc' = "leaving" /\ ending' = "stop"
  /\ handle' = [NoTasks EXCEPT !["outer"] = handle["outer"]]
  /\ Forget
  /\ UNCHANGED <<peer, owned>>

StartOver ==
  /\ held = {}
  /\ pc' = "verify" /\ ending' = "none"
  /\ handle' = NoTasks
  /\ peer' = NoEdge /\ netstack' = FALSE /\ forwarder' = "none"
  /\ Forget
  /\ UNCHANGED held

-----------------------------------------------------------------------------
(***************************************************************************)
(* Choosing the edges of a turn.                                           *)
(***************************************************************************)

(* load_cached_gool_peer, load_cached_mim_peer: the file's edge, when the  *)
(* user takes it up and it still validates.                                *)
LoadCached ==
  /\ pc = "verify"
  /\ \/ cached' = NoEdge
     \/ /\ options.pin = NoEdge
        /\ saved \in answers
        /\ cached' = saved
  /\ pc' = "choose"
  /\ UNCHANGED <<options, net, lastPeer, lastInner, fails, dials, saved, turn,
                 joins, owned, ending>>

(* Mutant: an edge that keeps failing is kept.                             *)
KnownForever == IF lastPeer # NoEdge THEN lastPeer ELSE cached

(* last_peer.or(cached_peer), unless that edge has failed too often.       *)
Known ==
  IF fails = MAX_FAILS THEN NoEdge
  ELSE IF lastPeer # NoEdge THEN lastPeer ELSE cached

(* inner_masque_candidates: at most MaxTries distinct edges, never the     *)
(* outer one.                                                              *)
Pools(outer) ==
  {pool \in UNION {[1..n -> Edges \ {outer}] : n \in 1..MaxTries} :
     \A i, j \in DOMAIN pool : pool[i] = pool[j] => i = j}

(* The edges run_masque_in_masque dials when run_mim's pool is this one:   *)
(* the remembered one first, the outer one not at all.                     *)
Candidates(outer, pool) ==
  IF lastInner \in Edges \ ({pool[i] : i \in DOMAIN pool} \cup {outer})
  THEN <<lastInner>> \o pool
  ELSE pool

(* One operator per kind of session: the inner pin always wins, and a      *)
(* WARP-in-WARP session without one uses the outer edge for both hops.     *)
InnerEdges(outer) ==
  IF options.innerPin # NoEdge THEN {<<options.innerPin>>}
  ELSE IF Gool THEN {<<outer>>}
  ELSE {Candidates(outer, pool) : pool \in Pools(outer)}

(* The edge is recorded before the tunnel is raised.                       *)
StartTurn(outer) ==
  /\ peer' = outer
  /\ lastPeer' = outer
  /\ saved' = IF options.pin = NoEdge THEN outer ELSE saved
  /\ left' \in InnerEdges(outer)
  /\ pc' = "outer"
  /\ UNCHANGED <<options, net, lastInner, joins, owned, ending>>

ReusePeer ==
  /\ pc = "choose"
  /\ Known # NoEdge
  /\ StartTurn(Known)
  /\ dials' = IF Mim \/ dials > MAX_FAILS THEN dials ELSE dials + 1
  /\ UNCHANGED <<cached, fails>>

(* select_peer hands the pinned edge back at once.                         *)
ScanFinds ==
  /\ pc = "choose"
  /\ Known = NoEdge
  /\ \E e \in IF options.pin # NoEdge THEN {options.pin} ELSE answers :
       StartTurn(e)
  /\ cached' = IF fails = MAX_FAILS THEN NoEdge ELSE cached
  /\ fails' = 0
  /\ dials' = IF Gool THEN 1 ELSE 0

ScanFails ==
  /\ pc = "choose"
  /\ Known = NoEdge
  /\ options.pin = NoEdge
  /\ answers = {}
  /\ cached' = IF fails = MAX_FAILS THEN NoEdge ELSE cached
  /\ UNCHANGED <<options, net, lastPeer, lastInner, fails, dials, saved, pc,
                 turn, joins, owned, ending>>

-----------------------------------------------------------------------------
(***************************************************************************)
(* The end of a turn.  run_gool counts every one of them; run_mim counts   *)
(* the outer hop's failures and forgets the remembered inner edge on the   *)
(* inner hop's, and only a turn reported as served clears the count.       *)
(***************************************************************************)

(* Mutant: run_gool counts the outer hop's failures only, as run_mim does.  *)
GoolEndsOuterOnly(result) ==
  /\ fails' = IF result = "outer" THEN fails + 1 ELSE fails
  /\ UNCHANGED lastInner

GoolEnds(result) ==
  /\ fails' = fails + 1
  /\ UNCHANGED lastInner

(* Mutant: the count of version 1.8.8, which no failure escaped.           *)
MimEndsCountsAll(result) ==
  /\ fails' = IF result = "served" THEN 0 ELSE fails + 1
  /\ lastInner' = CASE result = "served" -> Head(left)
                    [] result = "outer"  -> lastInner
                    [] result = "inner"  -> NoEdge

(* Mutant: a dead outer hop is not counted either.                         *)
MimEndsCountsNone(result) ==
  /\ fails' = IF result = "served" THEN 0 ELSE fails
  /\ lastInner' = CASE result = "served" -> Head(left)
                    [] result = "outer"  -> lastInner
                    [] result = "inner"  -> NoEdge

MimEnds(result) ==
  /\ fails' = CASE result = "served" -> 0
                [] result = "outer"  -> fails + 1
                [] result = "inner"  -> fails
  /\ lastInner' = CASE result = "served" -> Head(left)
                    [] result = "outer"  -> lastInner
                    [] result = "inner"  -> NoEdge

(* Every way out: the locals go in the reverse order of their declaration, *)
(* one after the other.                                                    *)
Leave(result) ==
  /\ pc' = "leaving" /\ ending' = result
  /\ UNCHANGED <<options, net, loop, turn, joins, netstack>>

DropLocal ==
  /\ pc \in {"leaving", "panicked"}
  /\ \E x \in held : /\ \A y \in held : Declared[y] <= Declared[x]
                     /\ Release(x)
  /\ UNCHANGED <<options, net, loop, pc, turn, joins, netstack, ending>>

TurnEnds ==
  /\ pc = "leaving"
  /\ held = {} /\ ending # "stop"
  /\ IF Gool THEN GoolEnds(ending) ELSE MimEnds(ending)
  /\ pc' = "choose" /\ ending' = "none"
  /\ handle' = NoTasks /\ winner' = "none" /\ unsettled' = <<>>
  /\ netstack' = FALSE /\ forwarder' = "none"
  /\ left' = <<>> /\ peer' = NoEdge
  /\ UNCHANGED <<options, net, cached, lastPeer, dials, saved, held>>

-----------------------------------------------------------------------------
(***************************************************************************)
(* Raising the hops.                                                       *)
(***************************************************************************)

(* establish_wg and establish_masque of the outer hop.                     *)
RaiseOuter ==
  /\ pc = "outer"
  /\ peer \in answers
  /\ handle' = [handle EXCEPT !["outer"] = "running"]
  /\ held' = {"stack"} /\ netstack' = TRUE
  /\ pc' = "forward"
  /\ UNCHANGED <<options, net, loop, turn, forwarder, winner, unsettled, ending>>

OuterRefused ==
  /\ pc = "outer"
  /\ peer \notin answers
  /\ Leave("outer")
  /\ UNCHANGED <<held, forwarder>>

(* The next candidate, in the next iteration of run_masque_in_masque: the  *)
(* guard of this one's forwarder goes with the iteration.  An error of     *)
(* run_warp_in_warp leaves it.                                             *)
NextCandidate ==
  \/ /\ Gool
     /\ Leave("inner")
     /\ UNCHANGED <<held, forwarder>>
  \/ /\ Mim
     /\ left' = Tail(left)
     /\ Release("guard")
     /\ pc' = "forward"
     /\ UNCHANGED <<options, net, loop, peer, joins, netstack, ending>>

(* spawn_udp_forwarder opens a connection of the stack; with MASQUE-in-    *)
(* MASQUE it may be spawn_tcp_forwarder, which opens none yet.  (Tasks of  *)
(* an earlier candidate's that are still on their way out are not followed *)
(* further.)                                                               *)
RaiseForwarder ==
  /\ pc = "forward"
  /\ left # <<>>
  /\ netstack \/ Mim
  /\ held' = held \cup {"guard"}
  /\ forwarder' = "pumping"
  /\ pc' = "inner"
  /\ UNCHANGED <<options, net, loop, turn, joins, netstack, ending>>

ForwarderFails ==
  /\ pc = "forward"
  /\ left # <<>>
  /\ ~netstack
  /\ NextCandidate

NoInnerAnswers ==
  /\ pc = "forward"
  /\ left = <<>>
  /\ Leave("inner")
  /\ UNCHANGED <<held, forwarder>>

(* The inner tunnel validates; the local side is spawned (run_masque_in_   *)
(* masque bridges the TUN inside the hop and has no task of its own for    *)
(* it) and the session is announced.                                       *)
RaiseInner ==
  /\ pc = "inner"
  /\ Head(left) \in inside
  /\ handle["outer"] = "running"
  /\ handle' = [handle EXCEPT
       !["inner"] = "running",
       !["local"] = IF Mim /\ options.tun THEN "none" ELSE "running"]
  /\ pc' = "serving"
  /\ UNCHANGED <<options, net, loop, turn, winner, unsettled, owned, ending>>

InnerRefused ==
  /\ pc = "inner"
  /\ Head(left) \notin inside \/ handle["outer"] # "running"
  /\ NextCandidate

-----------------------------------------------------------------------------
(***************************************************************************)
(* select!, and the teardown after it.                                     *)
(***************************************************************************)

(* Mutant: run_masque_in_masque settles what run_warp_in_warp settles.     *)
ToSettleAll(h) == <<"outer", "inner", "local">>

(* The handles the teardown awaits once h resolved.  run_warp_in_warp      *)
(* settles its three; run_masque_in_masque those that did not win.         *)
ToSettle(h) ==
  LET unless(x) == IF x = h \/ handle[x] = "none" THEN <<>> ELSE <<x>>
  IN  IF Gool THEN <<"outer", "inner", "local">>
      ELSE unless("local") \o unless("outer") \o unless("inner")

TaskResolves(h) ==
  /\ pc = "serving"
  /\ handle[h] = "done"
  /\ handle' = [handle EXCEPT ![h] = "taken"]
  /\ winner' = h
  /\ unsettled' = ToSettle(h)
  /\ pc' = IF Gool THEN "dropping" ELSE "settling"
  /\ UNCHANGED <<options, net, loop, turn, owned, ending>>

(* Mutant: the guard is left to the end of run_warp_in_warp.               *)
KeepForwarder ==
  /\ pc = "dropping"
  /\ pc' = "settling"
  /\ UNCHANGED <<options, net, loop, turn, joins, owned, ending>>

(* run_warp_in_warp drops the forwarder before it settles the tasks.       *)
DropForwarder ==
  /\ pc = "dropping"
  /\ Release("guard")
  /\ pc' = "settling"
  /\ UNCHANGED <<options, net, loop, turn, joins, netstack, ending>>

(* settle, settle_join: abort and await one handle.  The panic of a second *)
(* poll unwinds through the session, whose caller reports it.              *)
Settle ==
  /\ pc = "settling"
  /\ unsettled # <<>>
  /\ IF handle[Head(unsettled)] = "taken"
     THEN /\ pc' = "panicked"
          /\ UNCHANGED <<handle, unsettled>>
     ELSE /\ handle' = [handle EXCEPT ![Head(unsettled)] = "taken"]
          /\ unsettled' = Tail(unsettled)
          /\ UNCHANGED pc
  /\ UNCHANGED <<options, net, loop, turn, winner, owned, ending>>

(* join_outcome makes an error of every way a task can end, so a session   *)
(* that served is reported as a failure of the hop whose task ended it.    *)
Outcome == IF winner = "outer" THEN "outer" ELSE "inner"

(* run_warp_in_warp drops its stack by hand (as long as Settle panics on   *)
(* the way, it never gets there).                                          *)
SessionEnds ==
  /\ pc = "settling"
  /\ unsettled = <<>>
  /\ Leave(Outcome)
  /\ IF Gool THEN Release("stack") ELSE UNCHANGED <<held, forwarder>>

-----------------------------------------------------------------------------

Turn ==
  \/ LoadCached \/ ReusePeer \/ ScanFinds \/ ScanFails
  \/ RaiseOuter \/ OuterRefused
  \/ RaiseForwarder \/ ForwarderFails \/ NoInnerAnswers
  \/ RaiseInner \/ InnerRefused
  \/ \E h \in Hops : TaskResolves(h)
  \/ DropForwarder \/ Settle \/ SessionEnds
  \/ DropLocal \/ TurnEnds

StackedNext ==
  \/ NetChanges
  \/ \E h \in Hops : TaskEnds(h)
  \/ Tasks
  \/ Cancel \/ StartOver
  \/ Turn

StackedSpec == StackedInit /\ [][StackedNext]_stackedVars

(* The session's task runs whenever it can.                                *)
FairStackedSpec == StackedSpec /\ WF_stackedVars(Turn)

-----------------------------------------------------------------------------
(***************************************************************************)
(* Properties.                                                             *)
(***************************************************************************)

(* A MASQUE-in-MASQUE teardown never polls a handle select! resolved: the  *)
(* winner guard of run_masque_in_masque.                                   *)
MimNeverPanics == Mim => pc # "panicked"

(* The forwarder dials through the outer stack.  Whatever is left of it    *)
(* after the stack is gone was told to end before: by every way out of a   *)
(* session, and by the teardown of WARP-in-WARP before it ends the outer   *)
(* tunnel under the stack.  That tunnel may end by itself, and MASQUE-in-  *)
(* MASQUE ends it before its forwarder.                                    *)
OuterEndedItself == handle["outer"] = "done" \/ winner = "outer"

ForwarderNeedsStack ==
  forwarder = "pumping" =>
    /\ "stack" \in held
    /\ \/ netstack
       \/ OuterEndedItself
       \/ Mim /\ pc \in {"settling", "leaving"}

(* An edge found by a scan is dialled at most twice by run_gool before the *)
(* next scan, whether it comes from the scan, the file or the last turn.   *)
GoolDialsTwice == Gool => dials <= MAX_FAILS

(* Only the hop that failed pays: a MASQUE-in-MASQUE outer edge is charged *)
(* with a failure only when it refused the dial or its own task ended.     *)
OnlyOuterPays ==
  [][Mim /\ fails' > fails =>
       \/ handle["outer"] = "none"
       \/ winner = "outer"]_stackedVars

(* The settle helper's contract: a handle is consumed exactly once.        *)
HandlesOnce == pc # "panicked"

(* Once the network is steady, with every edge reachable through a tunnel  *)
(* and a pinned outer edge answering, a session is served again and again, *)
(* unless a WARP-in-WARP teardown panics: an edge that has stopped         *)
(* answering does not hold the loop.  (A session started over is in        *)
(* "verify"; starting over for ever, and a stop that is not followed by    *)
(* another session, are left out.)                                         *)
Steady(S) ==
  /\ answers = S
  /\ inside = Edges
  /\ options.pin \in S \cup {NoEdge}

ServesAgain ==
  \A S \in (SUBSET Edges) \ {{}} :
    <>[](Steady(S) /\ pc # "verify" /\ ending # "stop") => []<>(pc \in {"serving", "panicked"})
=============================================================================
