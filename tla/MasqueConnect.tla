---------------------------- MODULE MasqueConnect ----------------------------
(***************************************************************************)
(* run_masque (src/core/aether/src/main.rs): how a MASQUE session looks    *)
(* for a gateway that accepts it, and which of its two transports it does  *)
(* that on.  HTTP/3 is the one the public edge serves; HTTP/2 is switched  *)
(* on and off again through the process-wide H2_FALLBACK (masque_h2.rs),   *)
(* from four places.                                                       *)
(*                                                                         *)
(* A gateway's answer is what its dial reports: accepted, certificate      *)
(* refused, or unreachable.  Addresses are reduced to how they were come   *)
(* by; scans, probes and timeouts to their results; the waiting, the logs, *)
(* the TLS fragmentation knobs and the last-connection file are left out.  *)
(***************************************************************************)
EXTENDS Naturals

CONSTANTS MaxCandidates,   (* bound on the gateways of one dialling pass     *)
          MaxSessions      (* bound on the sessions of one process           *)

ASSUME MasqueAssumption == MaxCandidates \in Nat \ {0} /\ MaxSessions \in Nat

(* How many gateways may refuse the certificate before it is replaced.     *)
IDENTITY_REJECTED_LIMIT == 2

VARIABLES
  net,          (* transports over which some gateway accepts at the moment  *)
  fallback,     (* H2_FALLBACK                                               *)
  preferred,    (* H2_PREFERRED: the user chose HTTP/2                       *)
  forced,       (* the pinned endpoint: none, one on UDP/443 or another port *)
  pc,           (* where run_masque is                                       *)
  left,         (* gateways the current pass has still to dial               *)
  rejections,   (* identity_rejections of the current pass                   *)
  quickPeer,    (* quick_peer                                                *)
  lastGood,     (* last_good_peer                                            *)
  peer,         (* the endpoint chosen by the current turn of the loop       *)
  up,           (* the tunnel is carrying traffic                            *)
  refusals,     (* history: how often the passes had this certificate refused*)
  renewals,     (* history: certificates this session has replaced           *)
  sessions      (* history: sessions started                                 *)

settings == <<preferred, forced, sessions>>
history  == <<refusals, renewals>>
dialling == <<left, rejections>>
loopVars == <<quickPeer, lastGood, peer, up>>

masqueVars == <<net, fallback, settings, pc, dialling, loopVars, history>>

NoPeer == "none"

(* A gateway found by a pass or a scan, the pinned endpoint, and the pinned *)
(* host on the standard port.                                              *)
Peers == {"gateway", "pinned", "alternate"}

Passes == {"h3", "h3again", "h2", "h2again"}

(* masque_h2::enabled.                                                     *)
H2Enabled == preferred \/ fallback

Transport == IF H2Enabled THEN "h2" ELSE "h3"

Open == Transport \in net

MasqueTypeOK ==
  /\ net \subseteq {"h3", "h2"}
  /\ fallback \in BOOLEAN
  /\ preferred \in BOOLEAN
  /\ forced \in {"no", "on443", "elsewhere"}
  /\ pc \in Passes \cup {"start", "pass2", "loop", "choose", "hunt",
                         "anycast", "tunnel", "failed"}
  /\ left \in 0..MaxCandidates
  /\ rejections \in 0..IDENTITY_REJECTED_LIMIT
  /\ quickPeer \in Peers \cup {NoPeer}
  /\ lastGood \in Peers \cup {NoPeer}
  /\ peer \in Peers \cup {NoPeer}
  /\ up \in BOOLEAN
  /\ refusals \in Nat
  /\ renewals \in 0..2
  /\ sessions \in 0..MaxSessions

MasqueInit ==
  /\ net \in SUBSET {"h3", "h2"}
  /\ fallback = FALSE
  /\ preferred = FALSE
  /\ forced = "no"
  /\ pc = "start"
  /\ left = 0
  /\ rejections = 0
  /\ quickPeer = NoPeer
  /\ lastGood = NoPeer
  /\ peer = NoPeer
  /\ up = FALSE
  /\ refusals = 0
  /\ renewals = 0
  /\ sessions = 0

-----------------------------------------------------------------------------
(***************************************************************************)
(* The environment: the network changes, and aether_stop or an error drops *)
(* the session's future wherever it is waiting.                            *)
(***************************************************************************)

NetChanges ==
  /\ net' \in SUBSET {"h3", "h2"}
  /\ UNCHANGED <<fallback, settings, pc, dialling, loopVars, history>>

(* Everything the session held goes with its future; the statics stay.     *)
SessionDropped ==
  /\ pc # "start"
  /\ sessions < MaxSessions
  /\ pc' = "start"
  /\ quickPeer' = NoPeer
  /\ lastGood' = NoPeer
  /\ peer' = NoPeer
  /\ up' = FALSE
  /\ left' = 0
  /\ rejections' = 0
  /\ UNCHANGED <<net, fallback, settings, history>>

-----------------------------------------------------------------------------
(***************************************************************************)
(* start and set_preferred, which also withdraws the fallback an earlier   *)
(* session may have left behind; then the first pass, unless an endpoint   *)
(* is pinned.                                                              *)
(***************************************************************************)

StartSession ==
  /\ pc = "start"
  /\ sessions < MaxSessions
  /\ sessions' = sessions + 1
  /\ preferred' \in BOOLEAN
  /\ fallback' = FALSE
  /\ forced' \in {"no", "on443", "elsewhere"}
  /\ rejections' = 0
  /\ refusals' = 0
  /\ renewals' = 0
  /\ \/ /\ forced' = "no"
        /\ pc' = "h3"
        /\ left' \in 1..MaxCandidates
     \/ /\ forced' # "no"
        /\ pc' = "loop"
        /\ UNCHANGED left
  /\ UNCHANGED <<net, loopVars>>

-----------------------------------------------------------------------------
(***************************************************************************)
(* dial_masque_pass_from: the candidates are dialled one after the other.  *)
(* Any of them may refuse the certificate or be out of reach, and any may  *)
(* accept while the transport has a gateway that does.                     *)
(***************************************************************************)

(* Mutant: the count is compared with the limit one refusal late.          *)
PassOverLate == left = 0 \/ rejections > IDENTITY_REJECTED_LIMIT

PassOver == left = 0 \/ rejections >= IDENTITY_REJECTED_LIMIT

(* PassOutcome::Connected.  A gateway found by a second pass keeps the     *)
(* session on HTTP/2: the fallback stays set.                              *)
DialAccepted ==
  /\ pc \in Passes
  /\ ~PassOver
  /\ Open
  /\ quickPeer' = "gateway"
  /\ pc' = "loop"
  /\ UNCHANGED <<net, fallback, settings, dialling, lastGood, peer, up, history>>

DialRefused ==
  /\ pc \in Passes
  /\ ~PassOver
  /\ left' = left - 1
  /\ rejections' = rejections + 1
  /\ refusals' = refusals + 1
  /\ UNCHANGED <<net, fallback, settings, pc, loopVars, renewals>>

DialUnreachable ==
  /\ pc \in Passes
  /\ ~PassOver
  /\ left' = left - 1
  /\ UNCHANGED <<net, fallback, settings, pc, rejections, loopVars, history>>

-----------------------------------------------------------------------------
(***************************************************************************)
(* What run_masque makes of the outcome of a pass that did not connect.    *)
(***************************************************************************)

(* The first pass gives up on the certificate when enough gateways refused *)
(* it, the second one when a single refusal has been counted so far.       *)
CertificateRefused ==
  /\ PassOver
  /\ \/ pc = "h3" /\ rejections >= IDENTITY_REJECTED_LIMIT
     \/ pc = "h2" /\ rejections > 0

(* refresh_refused_masque_identity obtains a certificate and the same      *)
(* candidates are dialled with it from a count of zero.                    *)
CertificateRenewed ==
  /\ CertificateRefused
  /\ pc' = IF pc = "h3" THEN "h3again" ELSE "h2again"
  /\ left' \in 1..MaxCandidates
  /\ rejections' = 0
  /\ refusals' = 0
  /\ renewals' = renewals + 1
  /\ UNCHANGED <<net, fallback, settings, loopVars>>

CertificateNotRenewed ==
  /\ CertificateRefused
  /\ pc' = "failed"
  /\ UNCHANGED <<net, fallback, settings, dialling, loopVars, history>>

(* Mutant: a pass that reached nobody is reported as a refused certificate.*)
RefusedAgainOnSilence ==
  /\ pc \in {"h3again", "h2again"}
  /\ PassOver
  /\ pc' = "failed"
  /\ UNCHANGED <<net, fallback, settings, dialling, loopVars, history>>

(* The renewed certificate is refused too, if only once.                   *)
RefusedAgain ==
  /\ pc \in {"h3again", "h2again"}
  /\ PassOver
  /\ rejections > 0
  /\ pc' = "failed"
  /\ UNCHANGED <<net, fallback, settings, dialling, loopVars, history>>

(* The first pass connected to nobody; refusals short of the limit are     *)
(* carried on in rejections.                                               *)
FirstPassExhausted ==
  /\ PassOver
  /\ \/ pc = "h3" /\ rejections < IDENTITY_REJECTED_LIMIT
     \/ pc = "h3again" /\ rejections = 0
  /\ pc' = "pass2"
  /\ UNCHANGED <<net, fallback, settings, dialling, loopVars, history>>

(* Mutant: the second pass counts the refusals of the certificate afresh.  *)
SecondPassAfresh ==
  /\ pc = "pass2"
  /\ \/ /\ ~H2Enabled
        /\ fallback' = TRUE
        /\ left' \in 1..MaxCandidates
        /\ rejections' = 0
        /\ pc' = "h2"
     \/ /\ H2Enabled
        /\ pc' = "loop"
        /\ UNCHANGED <<fallback, dialling>>
  /\ UNCHANGED <<net, settings, loopVars, history>>

(* The same dialling over HTTP/2, unless the user's choice already was.    *)
SecondPass ==
  /\ pc = "pass2"
  /\ \/ /\ ~H2Enabled
        /\ fallback' = TRUE
        /\ left' \in 1..MaxCandidates
        /\ pc' = "h2"
     \/ /\ H2Enabled
        /\ pc' = "loop"
        /\ UNCHANGED <<fallback, left>>
  /\ UNCHANGED <<net, settings, rejections, loopVars, history>>

(* Mutant: the fallback stays latched when the second pass found nobody.   *)
SecondPassLatched ==
  /\ pc \in {"h2", "h2again"}
  /\ PassOver
  /\ rejections = 0
  /\ pc' = "loop"
  /\ UNCHANGED <<net, fallback, settings, dialling, loopVars, history>>

(* Nobody on HTTP/2 either: the scan loop is handed back to HTTP/3.        *)
SecondPassExhausted ==
  /\ pc \in {"h2", "h2again"}
  /\ PassOver
  /\ rejections = 0
  /\ fallback' = FALSE
  /\ pc' = "loop"
  /\ UNCHANGED <<net, settings, dialling, loopVars, history>>

-----------------------------------------------------------------------------
(***************************************************************************)
(* The loop: pick an endpoint, run a tunnel over it, start again when it   *)
(* ends.                                                                   *)
(***************************************************************************)

(* quick_peer.take().  Whatever is used is remembered as the last good.    *)
UseQuickPeer ==
  /\ pc = "loop"
  /\ quickPeer # NoPeer
  /\ peer' = quickPeer
  /\ lastGood' = quickPeer
  /\ quickPeer' = NoPeer
  /\ pc' = "tunnel"
  /\ UNCHANGED <<net, fallback, settings, dialling, up, history>>

(* The last known-good gateway is verified before it is used again.        *)
LastGoodAnswers ==
  /\ pc = "loop"
  /\ quickPeer = NoPeer
  /\ lastGood # NoPeer
  /\ Open
  /\ peer' = lastGood
  /\ pc' = "tunnel"
  /\ UNCHANGED <<net, fallback, settings, dialling, quickPeer, lastGood, up,
                 history>>

LastGoodSilent ==
  /\ pc = "loop"
  /\ quickPeer = NoPeer
  /\ pc' = "choose"
  /\ UNCHANGED <<net, fallback, settings, dialling, loopVars, history>>

UsePinned ==
  /\ pc = "choose"
  /\ forced # "no"
  /\ peer' = "pinned"
  /\ lastGood' = "pinned"
  /\ pc' = "tunnel"
  /\ UNCHANGED <<net, fallback, settings, dialling, quickPeer, up, history>>

StartHunt ==
  /\ pc = "choose"
  /\ forced = "no"
  /\ pc' = "hunt"
  /\ UNCHANGED <<net, fallback, settings, dialling, loopVars, history>>

-----------------------------------------------------------------------------
(***************************************************************************)
(* hunt_masque_peer: the scan finds a gateway exactly when the transport   *)
(* has one that accepts; the anycast check over HTTP/2 dials a few gateways *)
(* and may miss it.                                                        *)
(***************************************************************************)

HuntFinds ==
  /\ pc \in {"hunt", "anycast"}
  /\ Open
  /\ peer' = "gateway"
  /\ lastGood' = "gateway"
  /\ pc' = "tunnel"
  /\ UNCHANGED <<net, fallback, settings, dialling, quickPeer, up, history>>

(* A scan that fails on HTTP/2 clears nothing: only the anycast check      *)
(* undoes the fallback, the one it set itself.                             *)
HuntFails ==
  /\ pc = "hunt"
  /\ ~Open
  /\ IF H2Enabled
     THEN pc' = "loop" /\ UNCHANGED fallback
     ELSE pc' = "anycast" /\ fallback' = TRUE
  /\ UNCHANGED <<net, settings, dialling, loopVars, history>>

AnycastFails ==
  /\ pc = "anycast"
  /\ fallback' = FALSE
  /\ pc' = "loop"
  /\ UNCHANGED <<net, settings, dialling, loopVars, history>>

-----------------------------------------------------------------------------
(***************************************************************************)
(* run_masque_tunnel, and what follows its end.                            *)
(***************************************************************************)

TunnelUp ==
  /\ pc = "tunnel"
  /\ ~up
  /\ Open
  /\ up' = TRUE
  /\ UNCHANGED <<net, fallback, settings, pc, dialling, quickPeer, lastGood,
                 peer, history>>

(* peer.port() is the standard QUIC port.                                  *)
OnQuicPort == peer = "alternate" \/ (peer = "pinned" /\ forced = "on443")

(* Mutant: the comparison of the port is the wrong way round.              *)
TunnelEndsSamePort ==
  /\ pc = "tunnel"
  /\ up' = FALSE
  /\ pc' = "loop"
  /\ \/ /\ forced # "no"
        /\ ~H2Enabled
        /\ fallback' = TRUE
        /\ UNCHANGED <<quickPeer, lastGood>>
     \/ /\ forced # "no"
        /\ H2Enabled
        /\ OnQuicPort
        /\ quickPeer' = "alternate"
        /\ lastGood' = NoPeer
        /\ UNCHANGED fallback
     \/ /\ forced = "no" \/ (H2Enabled /\ ~OnQuicPort)
        /\ UNCHANGED <<fallback, quickPeer, lastGood>>
  /\ UNCHANGED <<net, settings, dialling, peer, history>>

(* A pinned endpoint has no scan to fall back on: its first failure turns  *)
(* HTTP/2 on, a later one moves it to the standard port.                   *)
TunnelEnds ==
  /\ pc = "tunnel"
  /\ up' = FALSE
  /\ pc' = "loop"
  /\ \/ /\ forced # "no"
        /\ ~H2Enabled
        /\ fallback' = TRUE
        /\ UNCHANGED <<quickPeer, lastGood>>
     \/ /\ forced # "no"
        /\ H2Enabled
        /\ ~OnQuicPort
        /\ quickPeer' = "alternate"
        /\ lastGood' = NoPeer
        /\ UNCHANGED fallback
     \/ /\ forced = "no" \/ (H2Enabled /\ OnQuicPort)
        /\ UNCHANGED <<fallback, quickPeer, lastGood>>
  /\ UNCHANGED <<net, settings, dialling, peer, history>>

-----------------------------------------------------------------------------
Dial == DialAccepted \/ DialRefused \/ DialUnreachable

AfterPass ==
  \/ CertificateRenewed \/ CertificateNotRenewed \/ RefusedAgain
  \/ FirstPassExhausted \/ SecondPass \/ SecondPassExhausted

Choose ==
  \/ UseQuickPeer \/ LastGoodAnswers \/ LastGoodSilent
  \/ UsePinned \/ StartHunt

Hunt == HuntFinds \/ HuntFails \/ AnycastFails

MasqueNext ==
  \/ NetChanges \/ SessionDropped \/ StartSession
  \/ Dial \/ AfterPass \/ Choose \/ Hunt \/ TunnelUp \/ TunnelEnds

MasqueSpec == MasqueInit /\ [][MasqueNext]_masqueVars

(* Every dial, renewal and scan has a timeout, and a tunnel that does not  *)
(* come up ends by its own.  A tunnel that is up may stay up for ever, and *)
(* nothing is assumed of the network.                                      *)
MasqueFairness ==
  /\ WF_masqueVars(Dial \/ AfterPass)
  /\ WF_masqueVars(Choose)
  /\ WF_masqueVars(Hunt)
  /\ WF_masqueVars(TunnelUp \/ (~up /\ TunnelEnds))

FairMasqueSpec == MasqueSpec /\ MasqueFairness

-----------------------------------------------------------------------------
(***************************************************************************)
(* Properties.                                                             *)
(***************************************************************************)

(* The passes never present one certificate to more refusing gateways than *)
(* the limit, although they count over two transports.                     *)
RefusalsBounded == refusals <= IDENTITY_REJECTED_LIMIT

(* A session only ever gives up for good over a certificate that a gateway *)
(* has read and refused: an unreachable network is retried, not reported   *)
(* as a bad registration.                                                  *)
FailsOnlyRefused == pc = "failed" => refusals > 0

(* A pinned endpoint that fails gets its second chance: unless it comes up *)
(* or the session goes away it is dialled on HTTP/2 on the standard port.  *)
PinnedSecondChance ==
  (pc = "tunnel" /\ forced = "elsewhere") ~>
    (up \/ pc = "start" \/ (pc = "tunnel" /\ OnQuicPort /\ H2Enabled))

(* On a network where HTTP/2 never passes, a search that outlives the time *)
(* HTTP/3 is blocked ends in a tunnel over HTTP/3: no earlier fallback     *)
(* keeps it away from the transport that works.                            *)
H3Recovers ==
  []("h2" \notin net) /\ <>[]("h3" \in net)
    => ((forced = "no" /\ ~preferred /\ pc = "choose") ~>
          (pc = "start" \/ (pc = "tunnel" /\ ~H2Enabled)))

=============================================================================
