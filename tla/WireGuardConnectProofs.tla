----------------------- MODULE WireGuardConnectProofs -----------------------
(***************************************************************************)
(* Proofs about WireGuardConnect, for any set of endpoints, any number of  *)
(* profiles and sessions, and a ladder of any length.                      *)
(***************************************************************************)
EXTENDS WireGuardConnect, TLAPS

NoRow == [peer |-> NoPeer, times |-> 0]

(* What run_wireguard starts its loop with.                                *)
Fresh == lastGood = NoPeer /\ fails = 0 /\ cooling = {} /\ row = NoRow

Building == pc \in {"validate", "up"}

(* An endpoint verified before the loop is used in its first turn.         *)
QuickIsFirst ==
  /\ pc \in {"off", "assigned", "cached"} => quick = NoPeer /\ Fresh
  /\ quick # NoPeer => pc = "turn" /\ Fresh

(* The count belongs to the last good endpoint, and passes the limit only  *)
(* on the way to the top of the loop.                                      *)
FailsBelong ==
  /\ pc # "turn" => fails < MAX_CONSECUTIVE_FAILS
  /\ lastGood = NoPeer => fails = 0
  /\ Building => lastGood # NoPeer /\ target = lastGood
  /\ pc = "retry" => lastGood # NoPeer

(* Without a pin the count is exactly how often in a row the tunnel was    *)
(* built to the endpoint: an endpoint that was given up is resting until   *)
(* another one, or the end of its cooldown, breaks the row.                *)
RowIsCounted ==
  settings.pin = NoPeer =>
    /\ pc # "pin"
    /\ lastGood # NoPeer =>
         /\ lastGood \notin cooling
         /\ row.peer = lastGood
         /\ row.times = IF Building THEN fails + 1 ELSE fails
    /\ lastGood = NoPeer => row = NoRow \/ row.peer \in cooling
    /\ row.times <= MAX_CONSECUTIVE_FAILS

(* The second small reply leaves the stage of the small probes.            *)
SmallIsShort ==
  stage \in {"handshake", "small"} => successes < DATAPLANE_REQUIRED_SUCCESSES

WgInv ==
  /\ WgTypeOK
  /\ QuickIsFirst
  /\ FailsBelong
  /\ RowIsCounted
  /\ SmallIsShort
  /\ HintIsProven

-----------------------------------------------------------------------------
USE DEF outside, choosing, planeVars, MaybePeers, Building, NoRow,
        MAX_CONSECUTIVE_FAILS, DATAPLANE_REQUIRED_SUCCESSES, Pinned

(* The floor and the top of the ladder are sizes of it.                    *)
LEMMA FloorIsASize == Floor = 1 /\ Floor \in Sizes /\ Rungs \in Sizes
  BY RungsAssumption DEF Floor, SizeOf, Sizes

(* The values a session starts from have their types.                      *)
LEMMA Defaults ==
  /\ 1 \in 1..MaxCandidates /\ 0 \in 0..(Rungs - 1) /\ 0 \in 0..Rungs
  /\ 0 \in 0..DATAPLANE_REQUIRED_SUCCESSES
  /\ 0 \in 0..MAX_CONSECUTIVE_FAILS
  /\ NoRow \in [peer : MaybePeers, times : 0..(MAX_CONSECUTIVE_FAILS + 1)]
  BY WgAssumption, RungsAssumption

(* Nothing was tried, and nothing is cooling, at the start.                *)
LEMMA WgStarts == WgInit => WgInv
<1> SUFFICES ASSUME WgInit PROVE WgInv
  OBVIOUS
<1>1. settings \in Settings
  BY WgAssumption DEF WgInit, Settings
<1>2. PlaneTypeOK
  BY RungsAssumption, FloorIsASize DEF WgInit, PlaneInit, PlaneTypeOK
<1>3. row \in [peer : MaybePeers, times : 0..(MAX_CONSECUTIVE_FAILS + 1)]
  BY DEF WgInit
<1>4. sessions \in 0..MaxSessions /\ cand \in 1..MaxCandidates
      /\ fails \in 0..MAX_CONSECUTIVE_FAILS
  BY WgAssumption DEF WgInit
<1>5. WgTypeOK
  BY <1>1, <1>2, <1>3, <1>4 DEF WgInit, WgTypeOK
<1>6. QED
  BY <1>5 DEF WgInit, PlaneInit, WgInv, QuickIsFirst, Fresh, FailsBelong,
              RowIsCounted, SmallIsShort, HintIsProven

(* The step every turn with an endpoint ends in: it is not resting unless  *)
(* it is pinned, and the one verified before the loop is used up.          *)
LEMMA UseKeeps ==
  ASSUME WgInv, NEW p \in Peers, Use(p, lastGood), ~Building,
         fails < MAX_CONSECUTIVE_FAILS,
         hint' \in Sizes, quick' = NoPeer, cooling' = cooling,
         settings.pin # NoPeer \/ p \notin cooling
  PROVE  WgInv'
<1> USE WgAssumption, RungsAssumption
<1>1. p # NoPeer
  OBVIOUS
<1>2. WgTypeOK'
  BY DEF WgInv, WgTypeOK, PlaneTypeOK, Use, StartValidation
<1>3. QuickIsFirst' /\ SmallIsShort' /\ HintIsProven'
  BY DEF Use, StartValidation, QuickIsFirst, SmallIsShort, HintIsProven
<1>4. FailsBelong'
  BY <1>1 DEF WgInv, WgTypeOK, Use, FailsBelong
<1>5. RowIsCounted'
  <2>1. SUFFICES ASSUME settings.pin = NoPeer
                 PROVE  /\ row'.peer = p /\ p \notin cooling'
                        /\ row'.times = fails' + 1
                        /\ fails' + 1 <= MAX_CONSECUTIVE_FAILS
    BY <1>1 DEF RowIsCounted, Use
  <2>2. CASE lastGood = p
    BY <1>1, <2>1, <2>2 DEF WgInv, WgTypeOK, RowIsCounted, Use
  <2>3. CASE lastGood # p
    <3>1. row.peer # p
      BY <1>1, <2>1, <2>3 DEF WgInv, WgTypeOK, RowIsCounted
    <3>2. QED
      BY <2>1, <2>3, <3>1 DEF Use
  <2>4. QED
    BY <2>2, <2>3
<1>6. QED
  BY <1>2, <1>3, <1>4, <1>5 DEF WgInv

(* What changes nothing but what answers.                                  *)
LEMMA EnvironmentKeeps ==
  ASSUME WgInv, PeersChange \/ SessionDropped
  PROVE  WgInv'
<1> USE WgAssumption, RungsAssumption
<1>1. CASE PeersChange
  <2>1. WgTypeOK'
    BY <1>1 DEF WgInv, WgTypeOK, PlaneTypeOK, PeersChange
  <2>2. QuickIsFirst' /\ FailsBelong' /\ RowIsCounted'
    BY <1>1 DEF WgInv, WgTypeOK, QuickIsFirst, Fresh, FailsBelong,
      RowIsCounted, PeersChange
  <2>3. SmallIsShort' /\ HintIsProven'
    BY <1>1 DEF WgInv, SmallIsShort, HintIsProven, PeersChange
  <2>4. QED
    BY <2>1, <2>2, <2>3 DEF WgInv
<1>2. CASE SessionDropped
  <2>1. WgTypeOK'
    <3>1. PlaneTypeOK'
      BY <1>2, Defaults DEF WgInv, WgTypeOK, PlaneTypeOK, SessionDropped, Idle
    <3>2. row' = NoRow /\ cand' = 1 /\ fails' = 0
      BY <1>2 DEF SessionDropped
    <3>3. QED
      BY <1>2, <3>1, <3>2, Defaults DEF WgInv, WgTypeOK, SessionDropped
  <2>2. QuickIsFirst' /\ FailsBelong' /\ RowIsCounted'
    BY <1>2 DEF WgInv, WgTypeOK, QuickIsFirst, Fresh, FailsBelong,
      RowIsCounted, SessionDropped, Idle
  <2>3. SmallIsShort' /\ HintIsProven'
    BY <1>2 DEF WgInv, SmallIsShort, HintIsProven, SessionDropped, Idle
  <2>4. QED
    BY <2>1, <2>2, <2>3 DEF WgInv
<1>3. QED
  BY <1>1, <1>2

(* The tests before the loop.                                              *)
LEMMA EarlyKeeps ==
  ASSUME WgInv,
         \/ StartSession \/ AssignedPasses \/ AssignedFails
         \/ CachedPasses \/ CachedFails
  PROVE  WgInv'
<1> USE WgAssumption, RungsAssumption
<1>1. CASE StartSession
  <2>1. WgTypeOK'
    BY <1>1 DEF WgInv, WgTypeOK, PlaneTypeOK, StartSession, TryCached
  <2>2. QuickIsFirst' /\ FailsBelong' /\ RowIsCounted'
    BY <1>1 DEF WgInv, WgTypeOK, QuickIsFirst, Fresh, FailsBelong,
      RowIsCounted, StartSession, TryCached
  <2>3. SmallIsShort' /\ HintIsProven'
    BY <1>1 DEF WgInv, SmallIsShort, HintIsProven, StartSession, TryCached
  <2>4. QED
    BY <2>1, <2>2, <2>3 DEF WgInv
<1>2. CASE AssignedPasses
  <2>1. WgTypeOK'
    BY <1>2 DEF WgInv, WgTypeOK, PlaneTypeOK, AssignedPasses, Passes, HintMoves
  <2>2. QuickIsFirst' /\ FailsBelong' /\ RowIsCounted'
    BY <1>2 DEF WgInv, WgTypeOK, QuickIsFirst, Fresh, FailsBelong,
      RowIsCounted, AssignedPasses, Passes, HintMoves
  <2>3. SmallIsShort' /\ HintIsProven'
    BY <1>2 DEF WgInv, SmallIsShort, HintIsProven, AssignedPasses, Passes, HintMoves
  <2>4. QED
    BY <2>1, <2>2, <2>3 DEF WgInv
<1>3. CASE AssignedFails
  <2>1. WgTypeOK'
    <3>1. cand' \in 1..MaxCandidates
      BY <1>3, Defaults DEF WgInv, WgTypeOK, AssignedFails, Settings
    <3>2. QED
      BY <1>3, <3>1
      DEF WgInv, WgTypeOK, PlaneTypeOK, AssignedFails, Fails, TryCached
  <2>2. QuickIsFirst' /\ FailsBelong' /\ RowIsCounted'
    BY <1>3 DEF WgInv, WgTypeOK, QuickIsFirst, Fresh, FailsBelong,
      RowIsCounted, AssignedFails, Fails, TryCached
  <2>3. SmallIsShort' /\ HintIsProven'
    BY <1>3 DEF WgInv, SmallIsShort, HintIsProven, AssignedFails, Fails, TryCached
  <2>4. QED
    BY <2>1, <2>2, <2>3 DEF WgInv
<1>4. CASE CachedPasses
  <2>1. WgTypeOK'
    BY <1>4 DEF WgInv, WgTypeOK, PlaneTypeOK, CachedPasses, Passes, HintMoves
  <2>2. QuickIsFirst' /\ FailsBelong' /\ RowIsCounted'
    BY <1>4 DEF WgInv, WgTypeOK, QuickIsFirst, Fresh, FailsBelong,
      RowIsCounted, CachedPasses, Passes, HintMoves
  <2>3. SmallIsShort' /\ HintIsProven'
    BY <1>4 DEF WgInv, SmallIsShort, HintIsProven, CachedPasses, Passes, HintMoves
  <2>4. QED
    BY <2>1, <2>2, <2>3 DEF WgInv
<1>5. CASE CachedFails
  <2>1. WgTypeOK'
    BY <1>5 DEF WgInv, WgTypeOK, PlaneTypeOK, CachedFails, Fails
  <2>2. QuickIsFirst' /\ FailsBelong' /\ RowIsCounted'
    BY <1>5 DEF WgInv, WgTypeOK, QuickIsFirst, Fresh, FailsBelong,
      RowIsCounted, CachedFails, Fails
  <2>3. SmallIsShort' /\ HintIsProven'
    BY <1>5 DEF WgInv, SmallIsShort, HintIsProven, CachedFails, Fails
  <2>4. QED
    BY <2>1, <2>2, <2>3 DEF WgInv
<1>6. QED
  BY <1>1, <1>2, <1>3, <1>4, <1>5

(* The top of the loop: the condemned endpoint leaves as last good one and *)
(* goes where the scan does not look.                                      *)
LEMMA LoopKeeps ==
  ASSUME WgInv, NEW rested \in SUBSET cooling, TurnQuick(rested) \/ Turn(rested)
  PROVE  WgInv'
<1> USE WgAssumption, RungsAssumption
<1>1. CASE TurnQuick(rested)
  <2>1. quick \in Peers /\ pc = "turn" /\ Fresh
    BY <1>1 DEF TurnQuick, WgInv, WgTypeOK, QuickIsFirst
  <2>2. ~GivenUp /\ Kept = lastGood
    BY <2>1 DEF Fresh, GivenUp, Kept
  <2>3. cooling' = cooling
    BY <1>1, <2>1, <2>2 DEF TurnQuick, LoopTop, Fresh
  <2>4. Use(quick, lastGood) /\ hint' \in Sizes /\ quick' = NoPeer
    BY <1>1, <2>2 DEF TurnQuick, WgInv, WgTypeOK, PlaneTypeOK
  <2>5. QED
    BY <2>1, <2>3, <2>4, UseKeeps DEF Fresh
<1>2. CASE Turn(rested)
  <2>1. WgTypeOK'
    <3>1. cooling' \subseteq Peers
      BY <1>2 DEF WgInv, WgTypeOK, Turn, LoopTop
    <3>2. row' \in [peer : MaybePeers, times : 0..(MAX_CONSECUTIVE_FAILS + 1)]
      BY <1>2, Defaults DEF WgInv, WgTypeOK, Turn
    <3>3. cand' \in 1..MaxCandidates /\ fails' \in 0..MAX_CONSECUTIVE_FAILS
      BY <1>2, Defaults DEF WgInv, WgTypeOK, Turn, Search
    <3>4. lastGood' \in MaybePeers
          /\ pc' \in {"retry", "pin", "hunt"}
      BY <1>2 DEF WgInv, WgTypeOK, Turn, Search, Kept
    <3>5. QED
      BY <1>2, <3>1, <3>2, <3>3, <3>4 DEF WgInv, WgTypeOK, PlaneTypeOK, Turn
  <2>2. CASE GivenUp
    <3>1. lastGood \in Peers
      BY <2>2 DEF GivenUp, WgInv, WgTypeOK, FailsBelong
    <3>2. lastGood' = NoPeer /\ fails' = 0 /\ lastGood \in cooling'
          /\ pc' \in {"pin", "hunt"} /\ (pc' = "pin" => Pinned)
      BY <1>2, <2>2, <3>1 DEF Turn, Kept, LoopTop, Search
    <3>3. QuickIsFirst' /\ FailsBelong'
      BY <1>2, <3>2 DEF Turn, QuickIsFirst, FailsBelong
    <3>4. RowIsCounted'
      <4>1. SUFFICES ASSUME settings.pin = NoPeer
                     PROVE  /\ row' = NoRow \/ row'.peer \in cooling'
                            /\ row'.times <= MAX_CONSECUTIVE_FAILS
        BY <1>2, <3>2 DEF RowIsCounted, Turn
      <4>2. row' = row \/ row' = NoRow
        BY <1>2 DEF Turn
      <4>3. QED
        BY <3>1, <3>2, <4>1, <4>2 DEF WgInv, RowIsCounted
    <3>5. QED
      BY <1>2, <2>1, <3>3, <3>4
      DEF WgInv, Turn, Search, SmallIsShort, HintIsProven
  <2>3. CASE ~GivenUp
    <3>1. lastGood' = lastGood /\ fails' = fails /\ cooling' = cooling \ rested
          /\ fails < MAX_CONSECUTIVE_FAILS /\ pc = "turn"
      BY <1>2, <2>3 DEF Turn, Kept, LoopTop, GivenUp, WgInv, WgTypeOK
    <3>2. pc' \in {"retry", "pin", "hunt"} /\ (pc' = "pin" => Pinned)
          /\ (pc' = "retry" => lastGood # NoPeer)
      BY <1>2, <2>3 DEF Turn, Search, Kept
    <3>3. QuickIsFirst' /\ FailsBelong'
      BY <1>2, <3>1, <3>2 DEF Turn, QuickIsFirst, FailsBelong, WgInv
    <3>4. RowIsCounted'
      <4>1. SUFFICES ASSUME settings.pin = NoPeer PROVE RowIsCounted'
        BY <1>2 DEF RowIsCounted, Turn
      <4>2. row' = IF row.peer \in rested THEN NoRow ELSE row
        BY <1>2 DEF Turn
      <4>3. CASE lastGood # NoPeer
        <5>1. row.peer \notin rested
          BY <4>1, <4>3 DEF WgInv, RowIsCounted
        <5>2. QED
          BY <1>2, <3>1, <3>2, <4>1, <4>2, <4>3, <5>1
          DEF WgInv, RowIsCounted, Turn
      <4>4. CASE lastGood = NoPeer
        <5>1. row' = NoRow \/ row'.peer \in cooling'
          BY <3>1, <4>1, <4>2, <4>4 DEF WgInv, RowIsCounted
        <5>2. row'.times <= MAX_CONSECUTIVE_FAILS
          BY <4>1, <4>2 DEF WgInv, RowIsCounted
        <5>3. QED
          BY <1>2, <3>1, <3>2, <4>1, <4>4, <5>1, <5>2 DEF RowIsCounted, Turn
      <4>5. QED
        BY <4>3, <4>4
    <3>5. QED
      BY <1>2, <2>1, <3>2, <3>3, <3>4
      DEF WgInv, Turn, SmallIsShort, HintIsProven
  <2>4. QED
    BY <2>2, <2>3
<1>3. QED
  BY <1>1, <1>2

(* The choice of an endpoint: what is found is used, what is missed leads  *)
(* on.                                                                     *)
LEMMA SearchKeeps ==
  ASSUME WgInv,
         \/ RetryPasses \/ RetryFails \/ PinPasses \/ PinFails
         \/ (\E p \in Peers : HuntFinds(p)) \/ HuntMisses
  PROVE  WgInv'
<1> USE WgAssumption, RungsAssumption
<1>1. CASE RetryPasses
  <2>1. lastGood \in Peers /\ (settings.pin # NoPeer \/ lastGood \notin cooling)
    BY <1>1 DEF RetryPasses, WgInv, WgTypeOK, RowIsCounted, FailsBelong
  <2>2. Use(lastGood, lastGood) /\ hint' \in Sizes
    BY <1>1 DEF RetryPasses, HintMoves, WgInv, WgTypeOK, PlaneTypeOK
  <2>3. quick' = NoPeer /\ fails < MAX_CONSECUTIVE_FAILS /\ ~Building
    BY <1>1 DEF RetryPasses, WgInv, QuickIsFirst, FailsBelong
  <2>4. cooling' = cooling
    BY <1>1 DEF RetryPasses
  <2>5. QED
    BY <2>1, <2>2, <2>3, <2>4, UseKeeps
<1>2. CASE RetryFails
  <2>1. WgTypeOK'
    <3>1. cand' \in 1..MaxCandidates
      BY <1>2, Defaults DEF WgInv, WgTypeOK, Settings, RetryFails, Fails, Search
    <3>2. QED
      BY <1>2, <3>1 DEF WgInv, WgTypeOK, PlaneTypeOK, RetryFails, Fails, Search
  <2>2. QuickIsFirst' /\ FailsBelong' /\ RowIsCounted'
    BY <1>2 DEF WgInv, WgTypeOK, QuickIsFirst, Fresh, FailsBelong,
      RowIsCounted, RetryFails, Fails, Search
  <2>3. SmallIsShort' /\ HintIsProven'
    BY <1>2 DEF WgInv, SmallIsShort, HintIsProven, RetryFails, Fails, Search
  <2>4. QED
    BY <2>1, <2>2, <2>3 DEF WgInv
<1>3. CASE PinPasses
  <2>1. settings.pin \in Peers /\ (settings.pin # NoPeer)
    BY <1>3 DEF PinPasses, WgInv, WgTypeOK, RowIsCounted, FailsBelong
  <2>2. Use(settings.pin, lastGood) /\ hint' \in Sizes
    BY <1>3 DEF PinPasses, HintMoves, WgInv, WgTypeOK, PlaneTypeOK
  <2>3. quick' = NoPeer /\ fails < MAX_CONSECUTIVE_FAILS /\ ~Building
    BY <1>3 DEF PinPasses, WgInv, QuickIsFirst, FailsBelong
  <2>4. cooling' = cooling
    BY <1>3 DEF PinPasses
  <2>5. QED
    BY <2>1, <2>2, <2>3, <2>4, UseKeeps
<1>4. CASE PinFails
  <2>1. WgTypeOK'
    <3>1. cand' \in 1..MaxCandidates
      BY <1>4, Defaults DEF WgInv, WgTypeOK, Settings, PinFails, Fails
    <3>2. QED
      BY <1>4, <3>1 DEF WgInv, WgTypeOK, PlaneTypeOK, PinFails, Fails
  <2>2. QuickIsFirst' /\ FailsBelong' /\ RowIsCounted'
    BY <1>4 DEF WgInv, WgTypeOK, QuickIsFirst, Fresh, FailsBelong,
      RowIsCounted, PinFails, Fails
  <2>3. SmallIsShort' /\ HintIsProven'
    BY <1>4 DEF WgInv, SmallIsShort, HintIsProven, PinFails, Fails
  <2>4. QED
    BY <2>1, <2>2, <2>3 DEF WgInv
<1>5. ASSUME NEW p \in Peers, HuntFinds(p) PROVE WgInv'
  <2>1. Use(p, lastGood) /\ p \notin cooling /\ hint' \in Sizes
    BY <1>5 DEF HuntFinds, HintMoves, WgInv, WgTypeOK, PlaneTypeOK
  <2>2. quick' = NoPeer /\ fails < MAX_CONSECUTIVE_FAILS /\ ~Building
    BY <1>5 DEF HuntFinds, WgInv, QuickIsFirst, FailsBelong
  <2>3. cooling' = cooling
    BY <1>5 DEF HuntFinds
  <2>4. QED
    BY <2>1, <2>2, <2>3, UseKeeps
<1>6. CASE HuntMisses
  <2>1. WgTypeOK'
    <3>1. cand' \in 1..MaxCandidates
      BY <1>6, Defaults DEF WgInv, WgTypeOK, Settings, HuntMisses, HintMoves
    <3>2. QED
      BY <1>6, <3>1 DEF WgInv, WgTypeOK, PlaneTypeOK, HuntMisses, HintMoves
  <2>2. QuickIsFirst' /\ FailsBelong' /\ RowIsCounted'
    BY <1>6 DEF WgInv, WgTypeOK, QuickIsFirst, Fresh, FailsBelong,
      RowIsCounted, HuntMisses, HintMoves
  <2>3. SmallIsShort' /\ HintIsProven'
    BY <1>6 DEF WgInv, SmallIsShort, HintIsProven, HuntMisses, HintMoves
  <2>4. QED
    BY <2>1, <2>2, <2>3 DEF WgInv
<1>7. QED
  BY <1>1, <1>2, <1>3, <1>4, <1>5, <1>6

(* The validation: whichever reply ends the ladder, the size left in the   *)
(* hint is not above the one that crossed.                                 *)
LEMMA ValidationKeeps ==
  ASSUME WgInv,
         \/ ValidateHandshake \/ ValidateSmall \/ ValidateLarge
         \/ ValidateNextRung \/ ValidateKeeps
  PROVE  WgInv'
<1> USE WgAssumption, RungsAssumption DEF Validating
<1>1. CASE ValidateHandshake
  <2>1. WgTypeOK'
    BY <1>1 DEF WgInv, WgTypeOK, PlaneTypeOK, ValidateHandshake, HandshakeAnswered, Idle
  <2>2. QuickIsFirst' /\ FailsBelong' /\ RowIsCounted'
    BY <1>1 DEF WgInv, WgTypeOK, QuickIsFirst, Fresh, FailsBelong,
      RowIsCounted, ValidateHandshake, HandshakeAnswered, Idle
  <2>3. SmallIsShort' /\ HintIsProven'
    BY <1>1 DEF WgInv, SmallIsShort, HintIsProven, ValidateHandshake, HandshakeAnswered, Idle
  <2>4. QED
    BY <2>1, <2>2, <2>3 DEF WgInv
<1>2. CASE ValidateSmall
  <2>1. WgTypeOK'
    <3>1. successes' \in 0..DATAPLANE_REQUIRED_SUCCESSES
      BY <1>2 DEF WgInv, WgTypeOK, PlaneTypeOK, SmallIsShort, ValidateSmall,
        SmallReply
    <3>2. PlaneTypeOK'
      BY <1>2, <3>1 DEF WgInv, WgTypeOK, PlaneTypeOK, ValidateSmall, SmallReply
    <3>3. QED
      BY <1>2, <3>2 DEF WgInv, WgTypeOK, ValidateSmall
  <2>2. QuickIsFirst' /\ FailsBelong' /\ RowIsCounted'
    BY <1>2 DEF WgInv, WgTypeOK, QuickIsFirst, Fresh, FailsBelong,
      RowIsCounted, ValidateSmall, SmallReply
  <2>3. SmallIsShort' /\ HintIsProven'
    BY <1>2 DEF WgInv, SmallIsShort, HintIsProven, ValidateSmall, SmallReply
  <2>4. QED
    BY <2>1, <2>2, <2>3 DEF WgInv
<1>3. ASSUME NEW s \in 0..Rungs, Validating, LargeReply(s), pc' = "up"
      PROVE  WgInv'
  <2>1. hint' \in Sizes /\ proven' \in 0..Rungs /\ hint' <= proven'
    BY <1>3 DEF LargeReply, SizeOf, Sizes, WgInv, WgTypeOK, PlaneTypeOK
  <2>2. PlaneTypeOK'
    BY <1>3, <2>1, Defaults DEF LargeReply, Idle, PlaneTypeOK
  <2>3. WgTypeOK'
    BY <1>3, <2>2 DEF WgInv, WgTypeOK
  <2>4. QuickIsFirst' /\ FailsBelong' /\ RowIsCounted'
    BY <1>3 DEF WgInv, QuickIsFirst, Fresh, FailsBelong, RowIsCounted
  <2>5. SmallIsShort' /\ HintIsProven'
    BY <1>3, <2>1 DEF SmallIsShort, HintIsProven, LargeReply, Idle
  <2>6. QED
    BY <2>3, <2>4, <2>5 DEF WgInv
<1>4. CASE ValidateNextRung
  <2>1. WgTypeOK'
    BY <1>4 DEF WgInv, WgTypeOK, PlaneTypeOK, ValidateNextRung, RungExpires
  <2>2. QuickIsFirst' /\ FailsBelong' /\ RowIsCounted'
    BY <1>4 DEF WgInv, WgTypeOK, QuickIsFirst, Fresh, FailsBelong,
      RowIsCounted, ValidateNextRung, RungExpires
  <2>3. SmallIsShort' /\ HintIsProven'
    BY <1>4 DEF WgInv, SmallIsShort, HintIsProven, ValidateNextRung, RungExpires
  <2>4. QED
    BY <2>1, <2>2, <2>3 DEF WgInv
<1>5. CASE ValidateKeeps
  <2>1. WgTypeOK'
    BY <1>5, FloorIsASize DEF WgInv, WgTypeOK, PlaneTypeOK, ValidateKeeps, DeadlineKeeps, Idle
  <2>2. QuickIsFirst' /\ FailsBelong' /\ RowIsCounted'
    BY <1>5 DEF WgInv, WgTypeOK, QuickIsFirst, Fresh, FailsBelong,
      RowIsCounted, ValidateKeeps, DeadlineKeeps, Idle
  <2>3. SmallIsShort' /\ HintIsProven'
    BY <1>5 DEF WgInv, SmallIsShort, HintIsProven, ValidateKeeps, DeadlineKeeps, Idle
  <2>4. QED
    BY <2>1, <2>2, <2>3 DEF WgInv
<1>6. QED
  BY <1>1, <1>2, <1>3, <1>4, <1>5 DEF ValidateLarge

(* The end of a tunnel counts.                                             *)
LEMMA EndKeeps ==
  ASSUME WgInv, ValidateRejects \/ TunnelEnds
  PROVE  WgInv'
<1> USE WgAssumption, RungsAssumption
<1>1. Building /\ TunnelOver
  BY DEF ValidateRejects, TunnelEnds
<1>2. fails < MAX_CONSECUTIVE_FAILS /\ lastGood # NoPeer
  BY <1>1 DEF WgInv, FailsBelong
<1>3. PlaneTypeOK'
  BY <1>1, Defaults DEF TunnelOver, Idle, WgInv, WgTypeOK, PlaneTypeOK
<1>4. WgTypeOK'
  BY <1>1, <1>2, <1>3 DEF TunnelOver, WgInv, WgTypeOK
<1>5. QuickIsFirst' /\ FailsBelong' /\ SmallIsShort' /\ HintIsProven'
  BY <1>1, <1>2
  DEF TunnelOver, Idle, WgInv, QuickIsFirst, FailsBelong, SmallIsShort,
      HintIsProven
<1>6. RowIsCounted'
  BY <1>1, <1>2 DEF TunnelOver, WgInv, WgTypeOK, RowIsCounted
<1>7. QED
  BY <1>4, <1>5, <1>6 DEF WgInv

-----------------------------------------------------------------------------
(* The invariant is inductive.                                             *)
LEMMA WgStep == WgInv /\ [WgNext]_wgVars => WgInv'
<1> SUFFICES ASSUME WgInv, [WgNext]_wgVars PROVE WgInv'
  OBVIOUS
<1>1. CASE PeersChange \/ SessionDropped
  BY <1>1, EnvironmentKeeps
<1>2. CASE StartSession
  BY <1>2, EarlyKeeps
<1>3. CASE Verify
  BY <1>3, EarlyKeeps, SearchKeeps DEF Verify
<1>4. CASE LoopTurn
  BY <1>4, LoopKeeps DEF LoopTurn
<1>5. CASE Validate
  BY <1>5, ValidationKeeps, EndKeeps DEF Validate
<1>6. CASE TunnelEnds
  BY <1>6, EndKeeps
<1>7. CASE UNCHANGED wgVars
  BY <1>7 DEF wgVars, WgInv, WgTypeOK, PlaneTypeOK, QuickIsFirst, Fresh,
    FailsBelong, RowIsCounted, SmallIsShort, HintIsProven
<1>8. QED
  BY <1>1, <1>2, <1>3, <1>4, <1>5, <1>6, <1>7 DEF WgNext

(* Without a pin the count of failures of run_wireguard is how often in a  *)
(* row the tunnel was built to the last good endpoint, which is not        *)
(* resting; and once that one was given up the row is over or it rests.    *)
THEOREM WgInvariant == WgSpec => []WgInv
<1>1. QED
  BY WgStarts, WgStep, PTL DEF WgSpec

(* The locals of run_wireguard and of verify_dataplane keep their types:   *)
(* the count of failures never passes its limit.                           *)
THEOREM WgTypes == WgSpec => []WgTypeOK
<1>1. WgInv => WgTypeOK
  BY DEF WgInv
<1>2. QED
  BY <1>1, WgInvariant, PTL

(* run_wireguard lets an endpoint rest after two tunnels in a row, for any *)
(* number of endpoints, profiles and sessions.                             *)
THEOREM WgEndpointsRest == WgSpec => []RestsAfterTwo
<1>1. WgInv => RestsAfterTwo
  BY DEF WgInv, FailsBelong, RowIsCounted, RestsAfterTwo
<1>2. QED
  BY <1>1, WgInvariant, PTL

(* verify_dataplane leaves the bridge a size that crossed or the smallest, *)
(* for a ladder of any length.                                             *)
THEOREM WgClampCrossed == WgSpec => []HintIsProven
<1>1. WgInv => HintIsProven
  BY DEF WgInv
<1>2. QED
  BY <1>1, WgInvariant, PTL

=============================================================================
