-------------------------- MODULE WireGuardConnect --------------------------
(***************************************************************************)
(* run_wireguard and run_wireguard_tunnel (src/core/aether/src/main.rs): a *)
(* WireGuard session looks for an endpoint that passes verification, lets  *)
(* the tunnel validate it once more (DataPlane), and starts over when the  *)
(* tunnel ends.  An endpoint that ends two tunnels in a row rests for a    *)
(* while.                                                                  *)
(*                                                                         *)
(* An obfuscation profile is its place in the list of candidates; with it  *)
(* in hand, a verification passes or not.  A verification may fail at any  *)
(* time (UDP is lossy), and passes only when the peer answers.  The scan   *)
(* samples addresses: it may miss a peer that would have answered.  The    *)
(* errors of a malformed identity or parameter, before the loop, and the   *)
(* bridge, SOCKS server and noise around the tunnel are left out.          *)
(***************************************************************************)
EXTENDS DataPlane

CONSTANTS Peers,           (* WireGuard endpoints                            *)
          NoPeer,          (* no endpoint                                    *)
          MaxCandidates,   (* bound on the obfuscation profiles tried        *)
          MaxSessions      (* bound on the sessions of one process           *)

ASSUME WgAssumption ==
  /\ NoPeer \notin Peers
  /\ MaxCandidates \in Nat \ {0}
  /\ MaxSessions \in Nat

MAX_CONSECUTIVE_FAILS == 2

VARIABLES
  works,       (* the peers that answer at the moment                        *)
  lastconn,    (* the last-connection file                                   *)
  sessions,    (* history: sessions started                                  *)
  settings,    (* the options of the session                                 *)
  pc,          (* where run_wireguard is                                     *)
  cand,        (* the candidate profile in hand                              *)
  quick,       (* an endpoint verified before the loop                       *)
  lastGood,    (* last_good                                                  *)
  fails,       (* consecutive_fails_on_peer                                  *)
  cooling,     (* the endpoints in endpoint_cooldowns                        *)
  target,      (* the endpoint the tunnel runs to                            *)
  row          (* history: how often in a row the tunnel was built to a peer *)

outside  == <<works, lastconn, sessions, settings>>
choosing == <<cand, quick, lastGood, fails, cooling>>

wgVars == <<outside, pc, choosing, target, row, planeVars>>

MaybePeers == Peers \cup {NoPeer}

(* forced_peer, AETHER_TEAM_ENDPOINT, obfuscation_parameters,               *)
(* wireguard_data_check and the number of profiles to try: one, unless the  *)
(* others are to be tried as fallbacks.  With a pinned endpoint the         *)
(* assigned one is not looked at.                                           *)
Settings ==
  {s \in [pin : MaybePeers, assigned : MaybePeers, manual : BOOLEAN,
          check : BOOLEAN, candidates : 1..MaxCandidates] :
     /\ s.manual => s.candidates = 1
     /\ s.pin # NoPeer => s.assigned = NoPeer}

Pinned == settings.pin # NoPeer

WgTypeOK ==
  /\ PlaneTypeOK
  /\ works \subseteq Peers
  /\ lastconn \in MaybePeers
  /\ sessions \in 0..MaxSessions
  /\ settings \in Settings
  /\ pc \in {"off", "assigned", "cached", "turn", "retry", "pin", "hunt",
             "validate", "up"}
  /\ cand \in 1..MaxCandidates
  /\ quick \in MaybePeers
  /\ lastGood \in MaybePeers
  /\ fails \in 0..MAX_CONSECUTIVE_FAILS
  /\ cooling \subseteq Peers
  /\ target \in MaybePeers
  /\ row \in [peer : MaybePeers, times : 0..(MAX_CONSECUTIVE_FAILS + 1)]

WgInit ==
  /\ PlaneInit
  /\ works \in SUBSET Peers
  /\ lastconn = NoPeer
  /\ sessions = 0
  /\ settings = [pin |-> NoPeer, assigned |-> NoPeer, manual |-> FALSE,
                 check |-> TRUE, candidates |-> 1]
  /\ pc = "off"
  /\ cand = 1
  /\ quick = NoPeer
  /\ lastGood = NoPeer
  /\ fails = 0
  /\ cooling = {}
  /\ target = NoPeer
  /\ row = [peer |-> NoPeer, times |-> 0]

-----------------------------------------------------------------------------
(***************************************************************************)
(* The environment: peers come and go; aether_stop drops the session's     *)
(* future wherever it waits, and with it all the session holds.            *)
(***************************************************************************)

PeersChange ==
  /\ works' \in SUBSET Peers
  /\ UNCHANGED <<lastconn, sessions, settings, pc, choosing, target, row,
                 planeVars>>

SessionDropped ==
  /\ pc # "off"
  /\ pc' = "off"
  /\ cand' = 1
  /\ quick' = NoPeer
  /\ lastGood' = NoPeer
  /\ fails' = 0
  /\ cooling' = {}
  /\ target' = NoPeer
  /\ row' = [peer |-> NoPeer, times |-> 0]
  /\ Idle
  /\ proven' = 0
  /\ UNCHANGED <<outside, hint>>

-----------------------------------------------------------------------------
(***************************************************************************)
(* Verification.  A passing one has checked the data plane, if the session *)
(* checks it, and has left the size it found in the process-wide hint.     *)
(***************************************************************************)

HintMoves == IF settings.check THEN hint' \in Sizes ELSE UNCHANGED hint

Passes(p) ==
  /\ p \in works
  /\ HintMoves
  /\ UNCHANGED <<stage, successes, rung, proven>>

Fails == UNCHANGED planeVars

-----------------------------------------------------------------------------
(***************************************************************************)
(* Before the loop: an endpoint the organization assigned, with every      *)
(* candidate profile, then the last connection, unless an endpoint is      *)
(* pinned or the profile was set by hand.  The user may decline the last   *)
(* connection (want_quick_reconnect).                                      *)
(***************************************************************************)

TryCached(s) ==
  \/ /\ s.pin = NoPeer /\ ~s.manual /\ lastconn # NoPeer
     /\ pc' = "cached"
  \/ pc' = "turn"

StartSession ==
  /\ pc = "off"
  /\ sessions < MaxSessions
  /\ sessions' = sessions + 1
  /\ settings' \in Settings
  /\ IF settings'.pin = NoPeer /\ settings'.assigned # NoPeer
       THEN pc' = "assigned"
       ELSE TryCached(settings')
  /\ UNCHANGED <<works, lastconn, choosing, target, row, planeVars>>

AssignedPasses ==
  /\ pc = "assigned"
  /\ Passes(settings.assigned)
  /\ quick' = settings.assigned
  /\ pc' = "turn"
  /\ cand' = 1
  /\ UNCHANGED <<outside, lastGood, fails, cooling, target, row>>

AssignedFails ==
  /\ pc = "assigned"
  /\ Fails
  /\ IF cand < settings.candidates
       THEN cand' = cand + 1 /\ UNCHANGED pc
       ELSE cand' = 1 /\ TryCached(settings)
  /\ UNCHANGED <<outside, quick, lastGood, fails, cooling, target, row>>

CachedPasses ==
  /\ pc = "cached"
  /\ Passes(lastconn)
  /\ quick' = lastconn
  /\ pc' = "turn"
  /\ UNCHANGED <<outside, cand, lastGood, fails, cooling, target, row>>

CachedFails ==
  /\ pc = "cached"
  /\ Fails
  /\ pc' = "turn"
  /\ UNCHANGED <<outside, choosing, target, row>>

-----------------------------------------------------------------------------
(***************************************************************************)
(* One turn of the loop.                                                   *)
(***************************************************************************)

(* The peer of this turn is settled: it is saved, unless one is pinned, and *)
(* the count of failures goes on if it is also the last good one.           *)
Use(p, good) ==
  /\ target' = p
  /\ lastconn' = IF Pinned THEN lastconn ELSE p
  /\ fails' = IF good = p THEN fails ELSE 0
  /\ lastGood' = p
  /\ cand' = 1
  /\ pc' = "validate"
  /\ StartValidation
  /\ row' = IF row.peer # p THEN [peer |-> p, times |-> 1]
            ELSE IF row.times > MAX_CONSECUTIVE_FAILS THEN row
            ELSE [row EXCEPT !.times = @ + 1]
  /\ UNCHANGED <<works, sessions, settings>>

Search == pc' = (IF Pinned THEN "pin" ELSE "hunt") /\ cand' = 1

(* Mutant: one failure more than the limit.                                 *)
GivenUpLate == fails > MAX_CONSECUTIVE_FAILS

GivenUp == fails >= MAX_CONSECUTIVE_FAILS
Kept == IF GivenUp THEN NoPeer ELSE lastGood

(* The top of the loop: rested endpoints come back, and one that failed too *)
(* often goes.                                                              *)
LoopTop(rested) ==
  /\ pc = "turn"
  /\ rested \subseteq cooling
  /\ cooling' = (cooling \ rested) \cup (IF GivenUp THEN {lastGood} \ {NoPeer}
                                                    ELSE {})

TurnQuick(rested) ==
  /\ LoopTop(rested)
  /\ quick # NoPeer
  /\ quick' = NoPeer
  /\ Use(quick, Kept)
  /\ UNCHANGED hint

(* Mutant: the endpoint is excluded, but stays the last good one.           *)
TurnKeepsGivenUp(rested) ==
  /\ LoopTop(rested)
  /\ quick = NoPeer
  /\ fails' = IF GivenUp THEN 0 ELSE fails
  /\ IF lastGood # NoPeer THEN pc' = "retry" /\ UNCHANGED cand ELSE Search
  /\ row' = IF row.peer \in rested THEN [peer |-> NoPeer, times |-> 0] ELSE row
  /\ UNCHANGED <<outside, quick, lastGood, target, planeVars>>

Turn(rested) ==
  /\ LoopTop(rested)
  /\ quick = NoPeer
  /\ fails' = IF GivenUp THEN 0 ELSE fails
  /\ lastGood' = Kept
  /\ IF Kept # NoPeer THEN pc' = "retry" /\ UNCHANGED cand ELSE Search
  /\ row' = IF row.peer \in rested THEN [peer |-> NoPeer, times |-> 0] ELSE row
  /\ UNCHANGED <<outside, quick, target, planeVars>>

(* The last good endpoint is verified before it is used again.              *)
RetryPasses ==
  /\ pc = "retry"
  /\ lastGood \in works
  /\ HintMoves
  /\ Use(lastGood, lastGood)
  /\ UNCHANGED <<quick, cooling>>

RetryFails ==
  /\ pc = "retry"
  /\ Fails
  /\ Search
  /\ UNCHANGED <<outside, quick, lastGood, fails, cooling, target, row>>

(* The pinned endpoint, with one candidate profile after the other, whether *)
(* or not it is resting.                                                    *)
PinPasses ==
  /\ pc = "pin"
  /\ settings.pin \in works
  /\ HintMoves
  /\ Use(settings.pin, lastGood)
  /\ UNCHANGED <<quick, cooling>>

(* Mutant: a pin that failed every profile is tried again, without a scan.  *)
PinFailsForGood ==
  /\ pc = "pin"
  /\ Fails
  /\ IF cand < settings.candidates
       THEN cand' = cand + 1 /\ UNCHANGED pc
       ELSE cand' = 1 /\ pc' = "turn"
  /\ UNCHANGED <<outside, quick, lastGood, fails, cooling, target, row>>

(* When no profile passes, a scan instead.                                  *)
PinFails ==
  /\ pc = "pin"
  /\ Fails
  /\ IF cand < settings.candidates
       THEN cand' = cand + 1 /\ UNCHANGED pc
       ELSE cand' = 1 /\ pc' = "hunt"
  /\ UNCHANGED <<outside, quick, lastGood, fails, cooling, target, row>>

(* Mutant: the scan does not leave out the endpoints that rest.             *)
HuntFindsAny(p) ==
  /\ pc = "hunt"
  /\ p \in works
  /\ HintMoves
  /\ Use(p, lastGood)
  /\ UNCHANGED <<quick, cooling>>

(* hunt_wg_peer: a scan per candidate profile, of all but the endpoints     *)
(* that rest; without a result, another turn after a pause.                 *)
HuntFinds(p) ==
  /\ pc = "hunt"
  /\ p \in works \ cooling
  /\ HintMoves
  /\ Use(p, lastGood)
  /\ UNCHANGED <<quick, cooling>>

(* Probes that passed and were not selected have moved the hint as well.    *)
HuntMisses ==
  /\ pc = "hunt"
  /\ HintMoves \/ UNCHANGED hint
  /\ IF cand < settings.candidates
       THEN cand' = cand + 1 /\ UNCHANGED pc
       ELSE cand' = 1 /\ pc' = "turn"
  /\ UNCHANGED <<outside, quick, lastGood, fails, cooling, target, row,
                 stage, successes, rung, proven>>

-----------------------------------------------------------------------------
(***************************************************************************)
(* run_wireguard_tunnel: validation on the session that will carry the     *)
(* traffic, then the tunnel until one of its four tasks ends.              *)
(***************************************************************************)

Validating == pc = "validate" /\ UNCHANGED <<outside, choosing, target, row>>

(* Without the check the handshake is all it takes.                         *)
ValidateHandshake ==
  /\ Validating
  /\ HandshakeAnswered
  /\ target \in works
  /\ IF settings.check
       THEN stage' = "small" /\ UNCHANGED <<pc, successes, rung, proven, hint>>
       ELSE pc' = "up" /\ Idle /\ UNCHANGED <<proven, hint>>

ValidateSmall ==
  /\ Validating
  /\ target \in works
  /\ SmallReply
  /\ UNCHANGED pc

ValidateLarge ==
  /\ Validating
  /\ \E s \in 0..Rungs : LargeReply(s)
  /\ pc' = "up"

ValidateNextRung == Validating /\ RungExpires /\ UNCHANGED pc

ValidateKeeps == Validating /\ DeadlineKeeps /\ pc' = "up"

(* Whatever ends a tunnel, and whether it ever carried traffic or not, it   *)
(* counts as a failure of its endpoint.                                     *)
TunnelOver ==
  /\ fails' = fails + 1
  /\ pc' = "turn"
  /\ target' = NoPeer
  /\ proven' = 0
  /\ Idle
  /\ UNCHANGED <<outside, cand, quick, lastGood, cooling, row, hint>>

ValidateRejects == pc = "validate" /\ Rejects /\ TunnelOver

TunnelEnds == pc = "up" /\ TunnelOver

-----------------------------------------------------------------------------
Verify ==
  \/ AssignedPasses \/ AssignedFails \/ CachedPasses \/ CachedFails
  \/ RetryPasses \/ RetryFails \/ PinPasses \/ PinFails
  \/ \E p \in Peers : HuntFinds(p)
  \/ HuntMisses

Validate ==
  \/ ValidateHandshake \/ ValidateSmall \/ ValidateLarge
  \/ ValidateNextRung \/ ValidateKeeps \/ ValidateRejects

LoopTurn == \E rested \in SUBSET cooling : TurnQuick(rested) \/ Turn(rested)

WgNext ==
  \/ PeersChange
  \/ SessionDropped
  \/ StartSession
  \/ Verify
  \/ LoopTurn
  \/ Validate
  \/ TunnelEnds

WgSpec == WgInit /\ [][WgNext]_wgVars

(* Every verification has a timeout, so each wait of the loop ends.  What   *)
(* is tried over and over comes through at last, a probe as well as a scan, *)
(* and the cooldowns are over at last.                                      *)
WgFairness ==
  /\ WF_wgVars(Verify)
  /\ WF_wgVars(LoopTurn)
  /\ WF_wgVars(Validate)
  /\ SF_wgVars(\E p \in Peers : HuntFinds(p))
  /\ SF_wgVars(ValidateHandshake)
  /\ \A n \in 0..1 : SF_wgVars(successes = n /\ ValidateSmall)
  /\ SF_wgVars(ValidateLarge \/ ValidateKeeps)
  /\ SF_wgVars(cooling # {} /\ Turn(cooling))

FairWgSpec == WgSpec /\ WgFairness

-----------------------------------------------------------------------------
(***************************************************************************)
(* Properties.                                                             *)
(***************************************************************************)

(* An endpoint that ended two tunnels in a row gets a rest: without a pin,  *)
(* the loop never builds the tunnel to the same endpoint a third time in a  *)
(* row, and never to one whose cooldown is running.  The count lives in the *)
(* loop of run_wireguard, is carried over verifications that fail and scans *)
(* that find the same peer again, and is worth nothing if the endpoint it   *)
(* condemned comes back as last_good, quick or the result of a scan.        *)
RestsAfterTwo ==
  settings.pin = NoPeer =>
    /\ row.times <= MAX_CONSECUTIVE_FAILS
    /\ pc \in {"validate", "up"} => target \notin cooling
    /\ pc = "retry" => lastGood \notin cooling

(* The bridge of a tunnel whose data plane was checked clamps to a size     *)
(* that this very validation saw cross, or to the smallest: never to what   *)
(* a scan, an earlier session or a late answer left in the static hint.     *)
HintIsProven ==
  pc = "up" /\ settings.check => hint = Floor \/ hint <= proven

(* When some endpoint answers and the set of those that do stops changing,  *)
(* the session is served again and again, whatever is pinned, assigned,     *)
(* remembered or resting (run_wireguard never gives up).                    *)
WgServesAgain ==
  <>[](works # {}) /\ <>[][works' = works]_wgVars => []<>(pc \in {"up", "off"})

=============================================================================
