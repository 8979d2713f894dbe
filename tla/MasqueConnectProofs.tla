------------------------- MODULE MasqueConnectProofs -------------------------
(***************************************************************************)
(* The safety properties of MasqueConnect, for every number of candidates  *)
(* and of sessions.                                                        *)
(*                                                                         *)
(* None of them is inductive.  What makes them so is that, as long as the  *)
(* passes last, the running count of the code equals the refusals of the   *)
(* certificate presented, whichever transport it was presented over; and   *)
(* that a pass knows how many renewals may lie behind it.                  *)
(***************************************************************************)
EXTENDS MasqueConnect, TLAPS

Dialling == Passes \cup {"pass2"}

(* The count in hand is the count of this certificate.                     *)
CountIsExact ==
  /\ pc \in Dialling => refusals = rejections
  /\ refusals \in 0..IDENTITY_REJECTED_LIMIT

(* Each of the two transports pays for at most one renewal.                *)
RenewalsBehind ==
  /\ pc = "h3" => renewals = 0
  /\ pc \in {"h3again", "pass2", "h2"} => renewals <= 1

(* Whatever an earlier session of the process left in H2_FALLBACK, the     *)
(* first pass of the next one is dialled on HTTP/3 unless the user chose   *)
(* HTTP/2.                                                                 *)
FreshStart == pc \in {"h3", "h3again"} => fallback = FALSE

ConnectInv ==
  /\ MasqueTypeOK
  /\ CountIsExact
  /\ RenewalsBehind
  /\ FreshStart
  /\ FailsOnlyRefused

-----------------------------------------------------------------------------
(* The invariant holds when the process starts.                            *)
LEMMA InitConnectInv == MasqueInit => ConnectInv
<1> SUFFICES ASSUME MasqueInit PROVE ConnectInv
  OBVIOUS
<1> USE DEF MasqueInit
<1>1. 0 \in 0..MaxCandidates /\ 0 \in 0..MaxSessions
  BY MasqueAssumption
<1>2. MasqueTypeOK
  <2>1. net \subseteq {"h3", "h2"} /\ forced \in {"no", "on443", "elsewhere"}
    OBVIOUS
  <2>2. fallback \in BOOLEAN /\ preferred \in BOOLEAN /\ up \in BOOLEAN
    OBVIOUS
  <2>3. rejections \in 0..IDENTITY_REJECTED_LIMIT /\ renewals \in 0..2
    BY DEF IDENTITY_REJECTED_LIMIT
  <2>4. \A p \in {quickPeer, lastGood, peer} : p = NoPeer
    OBVIOUS
  <2>5. left \in 0..MaxCandidates /\ sessions \in 0..MaxSessions
        /\ refusals \in Nat
    BY <1>1
  <2>6. pc = "start"
    OBVIOUS
  <2>7. QED
    BY <2>1, <2>2, <2>3, <2>4, <2>5, <2>6 DEF MasqueTypeOK
<1>3. CountIsExact /\ RenewalsBehind
  BY DEF CountIsExact, RenewalsBehind, IDENTITY_REJECTED_LIMIT
<1>4. FreshStart /\ FailsOnlyRefused
  BY DEF FreshStart, FailsOnlyRefused
<1>5. QED
  BY <1>2, <1>3, <1>4 DEF ConnectInv

(* The steps that leave the certificate's history alone and stay out of    *)
(* the passes: the network, the choice of an endpoint, scans and tunnels.  *)
LoopStep ==
  NetChanges \/ SessionDropped \/ Choose \/ Hunt \/ TunnelUp \/ TunnelEnds

(* The steps of the passes and of the start of a session.                  *)
PassStep == StartSession \/ Dial \/ AfterPass

(* The loop around the passes (start, scan, tunnel, retry) keeps the       *)
(* invariant.                                                              *)
LEMMA LoopPreservesInv == ConnectInv /\ LoopStep => ConnectInv'
<1> SUFFICES ASSUME ConnectInv, LoopStep PROVE ConnectInv'
  OBVIOUS
<1> USE MasqueAssumption
    DEF ConnectInv, MasqueTypeOK, CountIsExact, RenewalsBehind, FreshStart,
        FailsOnlyRefused, settings, history, dialling, loopVars, NoPeer,
        Peers, Passes, Dialling, IDENTITY_REJECTED_LIMIT
<1>1. CASE NetChanges
  BY <1>1 DEF NetChanges
<1>2. CASE SessionDropped
  <2>1. 0 \in 0..MaxCandidates
    BY MasqueAssumption
  <2>2. MasqueTypeOK'
    <3>1. pc' = "start" /\ up' \in BOOLEAN /\ left' = 0 /\ rejections' = 0
      BY <1>2 DEF SessionDropped
    <3>2. quickPeer' = NoPeer /\ lastGood' = NoPeer /\ peer' = NoPeer
      BY <1>2 DEF SessionDropped
    <3>3. UNCHANGED <<net, fallback, preferred, forced, sessions, refusals,
                      renewals>>
      BY <1>2 DEF SessionDropped
    <3>4. QED
      BY <2>1, <3>1, <3>2, <3>3
  <2>3. QED
    BY <1>2, <2>2 DEF SessionDropped
<1>3. CASE UseQuickPeer
  BY <1>3 DEF UseQuickPeer
<1>4. CASE LastGoodAnswers
  BY <1>4 DEF LastGoodAnswers
<1>5. CASE LastGoodSilent
  BY <1>5 DEF LastGoodSilent
<1>6. CASE UsePinned
  BY <1>6 DEF UsePinned
<1>7. CASE StartHunt
  BY <1>7 DEF StartHunt
<1>8. CASE HuntFinds
  BY <1>8 DEF HuntFinds
<1>9. CASE HuntFails
  BY <1>9 DEF HuntFails
<1>10. CASE AnycastFails
  BY <1>10 DEF AnycastFails
<1>11. CASE TunnelUp
  BY <1>11 DEF TunnelUp
<1>12. CASE TunnelEnds
  BY <1>12 DEF TunnelEnds
<1>13. QED
  BY <1>1, <1>2, <1>3, <1>4, <1>5, <1>6, <1>7, <1>8, <1>9, <1>10, <1>11,
     <1>12
  DEF LoopStep, Choose, Hunt

(* The steps of a pass over the candidates keep the invariant.             *)
LEMMA PassPreservesInv == ConnectInv /\ PassStep => ConnectInv'
<1> SUFFICES ASSUME ConnectInv, PassStep PROVE ConnectInv'
  OBVIOUS
<1> USE MasqueAssumption
    DEF ConnectInv, MasqueTypeOK, CountIsExact, RenewalsBehind, FreshStart,
        FailsOnlyRefused, settings, history, dialling, loopVars, NoPeer,
        Peers, Passes, Dialling, IDENTITY_REJECTED_LIMIT
<1>1. CASE StartSession
  <2>1. left' \in 0..MaxCandidates /\ sessions' \in 0..MaxSessions
    BY <1>1 DEF StartSession
  <2>2. pc' \in {"h3", "loop"} /\ forced' \in {"no", "on443", "elsewhere"}
    BY <1>1 DEF StartSession
  <2>3. fallback' = FALSE /\ preferred' \in BOOLEAN
    BY <1>1 DEF StartSession
  <2>4. refusals' = 0 /\ renewals' = 0 /\ rejections' = 0
    BY <1>1 DEF StartSession
  <2>5. UNCHANGED <<net, quickPeer, lastGood, peer, up>>
    BY <1>1 DEF StartSession
  <2>6. MasqueTypeOK'
    <3>1. refusals' \in Nat /\ renewals' \in 0..2 /\ rejections' \in 0..2
      BY <2>4
    <3>2. fallback' \in BOOLEAN
      BY <2>3
    <3>3. QED
      BY <2>1, <2>2, <2>3, <2>5, <3>1, <3>2
  <2>7. QED
    BY <2>2, <2>3, <2>4, <2>6
<1>2. CASE DialAccepted
  BY <1>2 DEF DialAccepted
<1>3. CASE DialRefused
  BY <1>3 DEF DialRefused, PassOver
<1>4. CASE DialUnreachable
  BY <1>4 DEF DialUnreachable, PassOver
<1>5. CASE CertificateRenewed
  BY <1>5 DEF CertificateRenewed, CertificateRefused
<1>6. CASE CertificateNotRenewed
  BY <1>6 DEF CertificateNotRenewed, CertificateRefused
<1>7. CASE RefusedAgain
  BY <1>7 DEF RefusedAgain
<1>8. CASE FirstPassExhausted
  BY <1>8 DEF FirstPassExhausted
<1>9. CASE SecondPass
  <2>1. left' \in 0..MaxCandidates /\ UNCHANGED rejections
    BY <1>9 DEF SecondPass
  <2>2. pc' \in {"h2", "loop"} /\ fallback' \in BOOLEAN
    BY <1>9 DEF SecondPass
  <2>3. UNCHANGED <<net, settings, loopVars, history>>
    BY <1>9 DEF SecondPass
  <2>4. MasqueTypeOK'
    BY <2>1, <2>2, <2>3
  <2>5. CountIsExact' /\ RenewalsBehind'
    BY <1>9, <2>1, <2>2, <2>3 DEF SecondPass
  <2>6. FreshStart' /\ FailsOnlyRefused'
    BY <2>2
  <2>7. QED
    BY <2>4, <2>5, <2>6
<1>10. CASE SecondPassExhausted
  BY <1>10 DEF SecondPassExhausted
<1>11. QED
  BY <1>1, <1>2, <1>3, <1>4, <1>5, <1>6, <1>7, <1>8, <1>9, <1>10
  DEF PassStep, Dial, AfterPass

-----------------------------------------------------------------------------
(* Every reachable state of the connect phase satisfies the invariant.     *)
THEOREM ConnectInvariant == MasqueSpec => []ConnectInv
<1>1. ConnectInv /\ [MasqueNext]_masqueVars => ConnectInv'
  <2> SUFFICES ASSUME ConnectInv, [MasqueNext]_masqueVars PROVE ConnectInv'
    OBVIOUS
  <2>1. CASE LoopStep
    BY <2>1, LoopPreservesInv
  <2>2. CASE PassStep
    BY <2>2, PassPreservesInv
  <2>3. CASE UNCHANGED masqueVars
    BY <2>3
    DEF masqueVars, settings, history, dialling, loopVars, ConnectInv,
        MasqueTypeOK, CountIsExact, RenewalsBehind, FreshStart,
        FailsOnlyRefused
  <2>4. QED
    BY <2>1, <2>2, <2>3 DEF MasqueNext, LoopStep, PassStep
<1>2. QED
  BY InitConnectInv, <1>1, PTL DEF MasqueSpec

(* The state of run_masque keeps its shape, and no session replaces its    *)
(* certificate more than twice.                                            *)
THEOREM ConnectTypes == MasqueSpec => []MasqueTypeOK
  BY ConnectInvariant, PTL DEF ConnectInv

(* No certificate is presented to more refusing gateways than the limit,   *)
(* however long the candidate lists of the two transports are.             *)
THEOREM ConnectRefusalsBounded == MasqueSpec => []RefusalsBounded
<1>1. ConnectInv => RefusalsBounded
  BY DEF ConnectInv, CountIsExact, RefusalsBounded, IDENTITY_REJECTED_LIMIT
<1>2. QED
  BY ConnectInvariant, <1>1, PTL

(* A session dials its first pass on HTTP/3 whatever earlier ones left.    *)
THEOREM ConnectFreshStart == MasqueSpec => []FreshStart
  BY ConnectInvariant, PTL DEF ConnectInv

(* A session gives up for good only over a refused certificate.            *)
THEOREM ConnectFailsOnlyRefused == MasqueSpec => []FailsOnlyRefused
  BY ConnectInvariant, PTL DEF ConnectInv

=============================================================================
