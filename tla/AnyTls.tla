------------------------------- MODULE AnyTls -------------------------------
(***************************************************************************)
(* The session layer of the AnyTLS client (src/anytls/proxy/session):      *)
(* proxied connections each open one stream on a session of their own,     *)
(* sessions are kept in a pool between connections, and a session dies     *)
(* whole.  Goroutines of four kinds touch a session: the connections that  *)
(* use it (CreateStream, OpenStream, Stream.Close), its receive loop, the  *)
(* watchdog that waits for a SYNACK, and the client's idle cleanup.        *)
(*                                                                         *)
(* The server (src/anytls/cmd/server and the same package) is what it may  *)
(* send: its settings, one SYNACK per SYN with or without an error, one    *)
(* FIN per stream; it may also stop answering, and an alert is one of the  *)
(* ways a connection is lost.  Payload, padding, heartbeats and the frames *)
(* that carry them are left out, and a session's sequence number is its    *)
(* name: sessions are numbered as they are made.  Client.Close and         *)
(* disableReuse are never used by this program (anytls-client/main.go).    *)
(***************************************************************************)
EXTENDS Naturals, FiniteSets

CONSTANTS Callers,        (* goroutines of proxied connections               *)
          MaxSessions,    (* bound on the sessions of one client             *)
          MaxStreams,     (* bound on the streams of one session             *)
          MaxOpens,       (* bound on the streams of all of them             *)
          MinIdle         (* minIdleSession                                  *)

ASSUME AnyTlsAssumption ==
  /\ MaxSessions \in Nat \ {0} /\ MaxStreams \in Nat \ {0}
  /\ MaxOpens \in Nat /\ MinIdle \in Nat

Sessions == 1..MaxSessions
Sids     == 1..MaxStreams

VARIABLES
  made,        (* sessionCounter                                             *)
  pool,        (* idleSession                                                *)
  victims,     (* sessionToClose of idleCleanup                              *)
  stage,       (* a session's life: Close is three steps of one goroutine    *)
  lastSid,     (* streamId                                                   *)
  streams,     (* the sids registered in Session.streams                     *)
  stream,      (* a stream's life: dieOnce, streamClosed, dieHook            *)
  hook,        (* streams whose dieHook is set                               *)
  peerV2,      (* sessions that know the server speaks version 2             *)
  watchdog,    (* the sid whose SYNACK synDone waits for, 0 when disarmed    *)
  busy,        (* the stream recvLoop is closing, 0 for none                 *)
  finning,     (* the stream recvLoop took out of the map and closes next    *)
  asked,       (* what the server has been told and has told of each stream  *)
  pc, sess, sid   (* each caller: where it is, its session and its stream     *)

clientVars  == <<made, pool, victims>>
sessionVars == <<stage, lastSid, streams, peerV2, watchdog>>
streamVars  == <<stream, hook>>
recvVars    == <<busy, finning>>
serverVars  == <<recvVars, asked>>
callerVars  == <<pc, sess, sid>>
anyVars == <<clientVars, sessionVars, streamVars, serverVars, callerVars>>

IsClosed(s) == stage[s] # "open"

CallerPoints == {"idle", "get", "open", "syn", "register", "hook", "address",
                 "relay"}

AnyTypeOK ==
  /\ made \in 0..MaxSessions
  /\ pool \subseteq 1..made /\ victims \subseteq 1..made
  /\ peerV2 \subseteq Sessions
  /\ stage \in [Sessions -> {"unused", "open", "dying", "removed", "closed"}]
  /\ lastSid \in [Sessions -> 0..MaxStreams]
  /\ streams \in [Sessions -> SUBSET Sids]
  /\ stream \in [Sessions \X Sids ->
                   {"none", "live", "shut", "unlinked", "pooling", "dead"}]
  /\ hook \subseteq Sessions \X Sids
  /\ watchdog \in [Sessions -> 0..MaxStreams]
  /\ busy \in [Sessions -> 0..MaxStreams]
  /\ finning \in [Sessions -> 0..MaxStreams]
  /\ asked \in [Sessions \X Sids -> {"no", "syn", "answered", "finished"}]
  /\ pc \in [Callers -> CallerPoints]
  /\ sess \in [Callers -> 0..MaxSessions]
  /\ sid \in [Callers -> 0..MaxStreams]

AnyInit ==
  /\ made = 0 /\ pool = {} /\ victims = {}
  /\ stage = [s \in Sessions |-> "unused"]
  /\ lastSid = [s \in Sessions |-> 0]
  /\ streams = [s \in Sessions |-> {}]
  /\ stream = [x \in Sessions \X Sids |-> "none"]
  /\ hook = {} /\ peerV2 = {}
  /\ watchdog = [s \in Sessions |-> 0]
  /\ busy = [s \in Sessions |-> 0]
  /\ finning = [s \in Sessions |-> 0]
  /\ asked = [x \in Sessions \X Sids |-> "no"]
  /\ pc = [c \in Callers |-> "idle"]
  /\ sess = [c \in Callers |-> 0]
  /\ sid = [c \in Callers |-> 0]

Go(c, point) == pc' = [pc EXCEPT ![c] = point]

(* The connection is over for its goroutine.                               *)
Leave(c) ==
  /\ pc' = [pc EXCEPT ![c] = "idle"]
  /\ sess' = [sess EXCEPT ![c] = 0]
  /\ sid' = [sid EXCEPT ![c] = 0]

-----------------------------------------------------------------------------
(***************************************************************************)
(* CreateStream and OpenStream.                                            *)
(***************************************************************************)

CreateStream(c) ==
  /\ pc[c] = "idle"
  /\ Go(c, "get")
  /\ UNCHANGED <<clientVars, sessionVars, streamVars, serverVars, sess, sid>>

Newest(s) == s \in pool /\ \A t \in pool : t <= s

(* Mutant: the session is used and stays in the pool.                      *)
GetIdleSessionKept(c) ==
  /\ pc[c] = "get"
  /\ \E s \in Sessions :
       /\ Newest(s)
       /\ sess' = [sess EXCEPT ![c] = s]
  /\ Go(c, "open")
  /\ UNCHANGED <<clientVars, sessionVars, streamVars, serverVars, sid>>

(* getIdleSession: the newest one, taken out under the lock.               *)
GetIdleSession(c) ==
  /\ pc[c] = "get"
  /\ \E s \in Sessions :
       /\ Newest(s)
       /\ sess' = [sess EXCEPT ![c] = s]
       /\ pool' = pool \ {s}
  /\ Go(c, "open")
  /\ UNCHANGED <<made, victims, sessionVars, streamVars, serverVars, sid>>

(* createSession: dial, number, register, start recvLoop.                  *)
CreateSession(c) ==
  /\ pc[c] = "get"
  /\ pool = {}
  /\ made < MaxSessions
  /\ made' = made + 1
  /\ stage' = [stage EXCEPT ![made + 1] = "open"]
  /\ sess' = [sess EXCEPT ![c] = made + 1]
  /\ Go(c, "open")
  /\ UNCHANGED <<pool, victims, lastSid, streams, peerV2, watchdog,
                 streamVars, serverVars, sid>>

DialFails(c) ==
  /\ pc[c] = "get"
  /\ pool = {}
  /\ Leave(c)
  /\ UNCHANGED <<clientVars, sessionVars, streamVars, serverVars>>

(* A session that is handed out dead fails the connection.                 *)
OpenClosed(c) ==
  /\ pc[c] = "open"
  /\ IsClosed(sess[c])
  /\ Leave(c)
  /\ UNCHANGED <<clientVars, sessionVars, streamVars, serverVars>>

(* The bound on streams.                                                   *)
OpensLeft ==
  Cardinality({x \in Sessions \X Sids : x[2] <= lastSid[x[1]]}) < MaxOpens

(* OpenStream up to the SYN: the id is taken and, from the second stream   *)
(* on and with a version 2 server, the watchdog replaced by this stream's. *)
OpenStream(c) ==
  LET s == sess[c]
      n == lastSid[s] + 1
      armed == n >= 2 /\ s \in peerV2
  IN  /\ pc[c] = "open"
      /\ ~IsClosed(s)
      /\ n \in Sids
      /\ OpensLeft
      /\ lastSid' = [lastSid EXCEPT ![s] = n]
      /\ sid' = [sid EXCEPT ![c] = n]
      /\ watchdog' = IF armed THEN [watchdog EXCEPT ![s] = n] ELSE watchdog
      /\ Go(c, "syn")
      /\ UNCHANGED <<clientVars, stage, streams, peerV2, stream, hook,
                     serverVars, sess>>

(* The first SYN of a session waits in the buffer for the first data.      *)
WriteSyn(c) ==
  /\ pc[c] = "syn"
  /\ stage[sess[c]] # "closed"
  /\ asked' = IF sid[c] = 1 THEN asked
              ELSE [asked EXCEPT ![<<sess[c], sid[c]>>] = "syn"]
  /\ Go(c, "register")
  /\ UNCHANGED <<clientVars, sessionVars, streamVars, recvVars, sess, sid>>

(* writeControlFrame closes the session it could not write to.             *)
Dying(s) == IF stage[s] = "open" THEN [stage EXCEPT ![s] = "dying"] ELSE stage

SynFails(c) ==
  /\ pc[c] = "syn"
  /\ sid[c] > 1
  /\ stage' = Dying(sess[c])
  /\ Leave(c)
  /\ UNCHANGED <<clientVars, lastSid, streams, peerV2, watchdog, streamVars,
                 serverVars>>

(* Mutant: the session is checked before the lock, not under it.           *)
RegisterUnchecked(c) ==
  LET s == sess[c]
  IN  /\ pc[c] = "register"
      /\ streams' = [streams EXCEPT ![s] = @ \cup {sid[c]}]
      /\ stream' = [stream EXCEPT ![<<s, sid[c]>>] = "live"]
      /\ Go(c, "hook")
      /\ UNCHANGED <<clientVars, stage, lastSid, peerV2, watchdog, hook,
                     serverVars, sess, sid>>

(* die is checked again under streamLock, which Close takes for its walk.  *)
Register(c) ==
  LET s == sess[c]
  IN  /\ pc[c] = "register"
      /\ IF IsClosed(s)
         THEN Leave(c) /\ UNCHANGED <<streams, stream>>
         ELSE /\ streams' = [streams EXCEPT ![s] = @ \cup {sid[c]}]
              /\ stream' = [stream EXCEPT ![<<s, sid[c]>>] = "live"]
              /\ Go(c, "hook") /\ UNCHANGED <<sess, sid>>
      /\ UNCHANGED <<clientVars, stage, lastSid, peerV2, watchdog, hook,
                     serverVars>>

(* CreateStream sets the hook on the stream it was handed.                 *)
SetHook(c) ==
  /\ pc[c] = "hook"
  /\ hook' = hook \cup {<<sess[c], sid[c]>>}
  /\ Go(c, "address")
  /\ UNCHANGED <<clientVars, sessionVars, stream, serverVars, sess, sid>>

(* CreateProxy writes the destination, which flushes the buffered frames.  *)
Flush(s) ==
  asked' = IF asked[<<s, 1>>] = "no" /\ stage[s] # "closed"
           THEN [asked EXCEPT ![<<s, 1>>] = "syn"] ELSE asked

WriteAddress(c) ==
  /\ pc[c] = "address"
  /\ Flush(sess[c])
  /\ Go(c, "relay")
  /\ UNCHANGED <<clientVars, sessionVars, streamVars, recvVars, sess, sid>>

(* The relay ends, for whatever reason, and the connection closes its      *)
(* stream: closeWithError, of which one goroutine is the first.            *)
CloseStream(c) ==
  LET x == <<sess[c], sid[c]>>
  IN  /\ pc[c] = "relay"
      /\ stream' = IF stream[x] = "live" THEN [stream EXCEPT ![x] = "shut"]
                   ELSE stream
      /\ Leave(c)
      /\ UNCHANGED <<clientVars, sessionVars, hook, serverVars>>

-----------------------------------------------------------------------------
(***************************************************************************)
(* The end of a stream.                                                    *)
(***************************************************************************)

Released(x) == IF busy[x[1]] = x[2] THEN [busy EXCEPT ![x[1]] = 0] ELSE busy

(* closeLocally, after recvLoop took the stream out of the map.            *)
CloseLocally(x) ==
  LET first == stream[x] = "live"
  IN  /\ finning[x[1]] = x[2]
      /\ finning' = [finning EXCEPT ![x[1]] = 0]
      /\ busy' = IF first THEN [busy EXCEPT ![x[1]] = x[2]] ELSE busy
      /\ stream' = IF first THEN [stream EXCEPT ![x] = "unlinked"] ELSE stream
      /\ UNCHANGED <<clientVars, sessionVars, hook, asked, callerVars>>

(* streamClosed: FIN (which also flushes, and may fail), out of the map.   *)
Unlink(x) ==
  LET s == x[1]
  IN  /\ stream[x] = "shut"
      /\ stream' = [stream EXCEPT ![x] = "unlinked"]
      /\ IF IsClosed(s)
         THEN UNCHANGED <<asked, streams, stage>>
         ELSE /\ Flush(s)
              /\ streams' = [streams EXCEPT ![s] = @ \ {x[2]}]
              /\ stage' \in {stage, Dying(s)}
      /\ UNCHANGED <<clientVars, lastSid, peerV2, watchdog, hook, recvVars,
                     callerVars>>

(* dieHook up to its decision: nothing without a hook or on a session      *)
(* already closed.                                                         *)
RunHook(x) ==
  LET s == x[1]
      none == x \notin hook \/ IsClosed(s)
  IN  /\ stream[x] = "unlinked"
      /\ stream' = [stream EXCEPT ![x] = IF none THEN "dead" ELSE "pooling"]
      /\ busy' = IF none THEN Released(x) ELSE busy
      /\ UNCHANGED <<clientVars, stage, lastSid, streams, peerV2, watchdog,
                     hook, finning, asked, callerVars>>

(* Mutant: the pool is keyed by the stream.                                *)
PutIdleByStream(x) ==
  /\ stream[x] = "pooling"
  /\ pool' = pool \cup {x[2]}
  /\ stream' = [stream EXCEPT ![x] = "dead"]
  /\ busy' = Released(x)
  /\ UNCHANGED <<made, victims, sessionVars, hook, finning, asked, callerVars>>

(* The insertion, under idleSessionLock.                                   *)
PutIdle(x) ==
  /\ stream[x] = "pooling"
  /\ pool' = pool \cup {x[1]}
  /\ stream' = [stream EXCEPT ![x] = "dead"]
  /\ busy' = Released(x)
  /\ UNCHANGED <<made, victims, sessionVars, hook, finning, asked, callerVars>>

-----------------------------------------------------------------------------
(***************************************************************************)
(* The end of a session: die is closed once, by whoever comes first; that  *)
(* goroutine runs dieHook, closes the streams under streamLock and closes  *)
(* the connection.                                                         *)
(***************************************************************************)

SessionHook(s) ==
  /\ stage[s] = "dying"
  /\ stage' = [stage EXCEPT ![s] = "removed"]
  /\ pool' = pool \ {s}
  /\ UNCHANGED <<made, victims, lastSid, streams, peerV2, watchdog,
                 streamVars, serverVars, callerVars>>

(* Mutant: the map is emptied before the walk.                             *)
CloseStreamsForgets(s) ==
  /\ stage[s] = "removed"
  /\ stage' = [stage EXCEPT ![s] = "closed"]
  /\ streams' = [streams EXCEPT ![s] = {}]
  /\ UNCHANGED <<clientVars, lastSid, peerV2, watchdog, streamVars,
                 serverVars, callerVars>>

CloseStreams(s) ==
  /\ stage[s] = "removed"
  /\ stage' = [stage EXCEPT ![s] = "closed"]
  /\ stream' = [x \in DOMAIN stream |->
       IF x[1] = s /\ x[2] \in streams[s] /\ stream[x] = "live"
       THEN "dead" ELSE stream[x]]
  /\ streams' = [streams EXCEPT ![s] = {}]
  /\ UNCHANGED <<clientVars, lastSid, peerV2, watchdog, hook, serverVars,
                 callerVars>>

(* recvLoop is reading.                                                    *)
Idle(s) == busy[s] = 0 /\ finning[s] = 0

(* recvLoop returns: the connection is lost, or an alert arrived.          *)
ReadFails(s) ==
  /\ stage[s] = "open"
  /\ Idle(s)
  /\ stage' = Dying(s)
  /\ UNCHANGED <<clientVars, lastSid, streams, peerV2, watchdog, streamVars,
                 serverVars, callerVars>>

(* Three seconds without a SYNACK.                                         *)
WatchdogFires(s) ==
  /\ watchdog[s] # 0
  /\ watchdog' = [watchdog EXCEPT ![s] = 0]
  /\ stage' = Dying(s)
  /\ UNCHANGED <<clientVars, lastSid, streams, peerV2, streamVars, serverVars,
                 callerVars>>

-----------------------------------------------------------------------------
(***************************************************************************)
(* recvLoop: one frame at a time, in the order the server sent them.  The  *)
(* server may answer any stream it was asked for, once, also one closed    *)
(* meanwhile, and finish it; a version 1 server sends neither its settings *)
(* nor a SYNACK.                                                           *)
(***************************************************************************)

(* A frame may have been read before the session died.                     *)
Reading(s) == stage[s] \in {"open", "dying", "removed"} /\ Idle(s)

(* The settings answer the client's, which its first data flushes.         *)
RecvSettings(s) ==
  /\ Reading(s)
  /\ s \notin peerV2
  /\ asked[<<s, 1>>] # "no"
  /\ peerV2' = peerV2 \cup {s}
  /\ UNCHANGED <<clientVars, stage, lastSid, streams, watchdog, streamVars,
                 serverVars, callerVars>>

(* Whatever stream the SYNACK is for, the session's watchdog is disarmed;  *)
(* one with an error closes the stream, if it is registered.               *)
RecvSynAck(s, n) ==
  /\ Reading(s)
  /\ s \in peerV2
  /\ asked[<<s, n>>] = "syn"
  /\ asked' = [asked EXCEPT ![<<s, n>>] = "answered"]
  /\ watchdog' = [watchdog EXCEPT ![s] = 0]
  /\ \/ UNCHANGED <<stream, busy>>
     \/ /\ n \in streams[s]
        /\ stream[<<s, n>>] = "live"
        /\ stream' = [stream EXCEPT ![<<s, n>>] = "shut"]
        /\ busy' = [busy EXCEPT ![s] = n]
  /\ UNCHANGED <<clientVars, stage, lastSid, streams, peerV2, hook, finning,
                 callerVars>>

(* FIN: out of the map; CloseLocally follows.                              *)
RecvFin(s, n) ==
  /\ Reading(s)
  /\ asked[<<s, n>>] \in {"syn", "answered"}
  /\ asked' = [asked EXCEPT ![<<s, n>>] = "finished"]
  /\ streams' = [streams EXCEPT ![s] = @ \ {n}]
  /\ finning' = IF n \in streams[s] THEN [finning EXCEPT ![s] = n] ELSE finning
  /\ UNCHANGED <<clientVars, stage, lastSid, peerV2, watchdog, streamVars,
                 busy, callerVars>>

-----------------------------------------------------------------------------
(***************************************************************************)
(* idleCleanup.                                                            *)
(***************************************************************************)

(* The expired sessions past the MinIdle newest, out of the pool under the *)
(* lock.                                                                   *)
Cleanup ==
  /\ victims = {}
  /\ \E expired \in (SUBSET pool) \ {{}} :
       /\ \A s \in expired : Cardinality({t \in pool : t > s}) >= MinIdle
       /\ victims' = expired
       /\ pool' = pool \ expired
  /\ UNCHANGED <<made, sessionVars, streamVars, serverVars, callerVars>>

(* After the lock, one by one.                                             *)
CloseVictim(s) ==
  /\ s \in victims
  /\ victims' = victims \ {s}
  /\ stage' = Dying(s)
  /\ UNCHANGED <<made, pool, lastSid, streams, peerV2, watchdog, streamVars,
                 serverVars, callerVars>>

-----------------------------------------------------------------------------

Caller(c) ==
  \/ CreateStream(c) \/ GetIdleSession(c) \/ CreateSession(c) \/ DialFails(c)
  \/ OpenClosed(c) \/ OpenStream(c) \/ WriteSyn(c) \/ SynFails(c)
  \/ Register(c) \/ SetHook(c) \/ WriteAddress(c) \/ CloseStream(c)

StreamStep(x) == CloseLocally(x) \/ Unlink(x) \/ RunHook(x) \/ PutIdle(x)

CloseStep(s) == SessionHook(s) \/ CloseStreams(s) \/ CloseVictim(s)

Recv(s) ==
  \/ RecvSettings(s)
  \/ \E n \in Sids : RecvSynAck(s, n) \/ RecvFin(s, n)

AnyNext ==
  \/ \E c \in Callers : Caller(c)
  \/ \E x \in Sessions \X Sids : StreamStep(x)
  \/ \E s \in Sessions : \/ CloseStep(s) \/ Recv(s)
                         \/ ReadFails(s) \/ WatchdogFires(s)
  \/ Cleanup

AnySpec == AnyInit /\ [][AnyNext]_anyVars

(* Goroutines that can run do; the server owes nothing, and neither do the *)
(* people behind the connections.                                          *)
FairAnySpec ==
  /\ AnySpec
  /\ \A x \in Sessions \X Sids : WF_anyVars(StreamStep(x))
  /\ \A s \in Sessions : WF_anyVars(CloseStep(s))

-----------------------------------------------------------------------------
(***************************************************************************)
(* Properties.                                                             *)
(***************************************************************************)

(* Streams that still hold their session.                                  *)
Open(s) ==
  {n \in Sids : stream[<<s, n>>] \in {"live", "shut", "unlinked", "pooling"}}

Opening(s) ==
  {c \in Callers : sess[c] = s /\ pc[c] \in {"open", "syn", "register"}}

(* A session has one user: a connection opening a stream on it, a stream,  *)
(* the pool, or a cleanup that is about to close it.  In particular two    *)
(* connections never share one and a cleanup never cuts a live connection. *)
OneUser ==
  \A s \in Sessions :
    /\ \A m, n \in Open(s) : m = n
    /\ \A c, d \in Opening(s) : c = d
    /\ Open(s) = {} \/ Opening(s) = {}
    /\ s \in pool \cup victims => Open(s) = {} /\ Opening(s) = {}
    /\ s \notin pool \cap victims

(* Once Session.Close has walked the streams no stream of the session is   *)
(* open, not even one that was being opened at the same time; one that     *)
(* recvLoop took out of the map is closed by recvLoop.                     *)
ClosedSessionIsEmpty ==
  \A s \in Sessions : stage[s] = "closed" =>
    \A n \in Sids : stream[<<s, n>>] = "live" => finning[s] = n

(* Every stream of a session that died is released in the end.             *)
DeadSessionFreesStreams ==
  \A s \in Sessions : stage[s] = "dying" ~> Open(s) = {}

=============================================================================
