---------------------------- MODULE AnyTlsProofs ----------------------------
(***************************************************************************)
(* The safety properties of AnyTls, for every number of connections,       *)
(* sessions and streams.                                                   *)
(*                                                                         *)
(* A session is handed on: from the pool or its creator to a connection    *)
(* that opens a stream on it, from the connection to the stream, and from  *)
(* the stream back to the pool.  Most steps hand nothing on (HandsNothing- *)
(* On); the five that do are taken one by one.  That no stream outlives    *)
(* Session.Close rests on a live stream being found in the map, or in the  *)
(* hands of recvLoop, and on the map of a closed session staying empty.    *)
(***************************************************************************)
EXTENDS AnyTls, TLAPS

Held(s, n)  == stream[<<s, n>>] \in {"live", "shut", "unlinked", "pooling"}
Opens(c, s) == sess[c] = s /\ pc[c] \in {"open", "syn", "register"}

(* OneUser, without its sets.                                              *)
OneOwner ==
  \A s \in Sessions :
    /\ \A m, n \in Sids : Held(s, m) /\ Held(s, n) => m = n
    /\ \A c, d \in Callers : Opens(c, s) /\ Opens(d, s) => c = d
    /\ \A n \in Sids, c \in Callers : ~(Held(s, n) /\ Opens(c, s))
    /\ s \in pool \cup victims =>
         /\ \A n \in Sids : ~Held(s, n)
         /\ \A c \in Callers : ~Opens(c, s)
    /\ ~(s \in pool /\ s \in victims)

(* A connection past the choice of a session has one, and past OpenStream  *)
(* a stream.                                                               *)
CallersPlaced ==
  \A c \in Callers :
    /\ pc[c] \notin {"idle", "get"} => sess[c] \in 1..made
    /\ pc[c] \notin {"idle", "get", "open"} => sid[c] \in Sids

(* A session that was not made yet has no streams.                         *)
UnmadeUnused == \A s \in Sessions, n \in Sids : Held(s, n) => s \in 1..made

LiveIsLinked ==
  \A s \in Sessions, n \in Sids :
    stream[<<s, n>>] = "live" => n \in streams[s] \/ finning[s] = n

ClosedIsUnlinked == \A s \in Sessions : stage[s] = "closed" => streams[s] = {}

AnyInv ==
  /\ AnyTypeOK
  /\ OneOwner
  /\ CallersPlaced
  /\ UnmadeUnused
  /\ LiveIsLinked
  /\ ClosedIsUnlinked

-----------------------------------------------------------------------------

(* No session is made at the start, so none is in two places.              *)
LEMMA InitAnyInv == AnyInit => AnyInv
<1> SUFFICES ASSUME AnyInit PROVE AnyInv
  OBVIOUS
<1>1. \A s \in Sessions, n \in Sids : ~Held(s, n) /\ stream[<<s, n>>] = "none"
  BY DEF AnyInit, Held
<1>2. \A c \in Callers : pc[c] = "idle" /\ sess[c] = 0 /\ sid[c] = 0
  BY DEF AnyInit
<1>3. AnyTypeOK
  <2> USE DEF AnyInit
  <2>1. made \in 0..MaxSessions /\ pool \subseteq 1..made /\ victims \subseteq 1..made
        /\ peerV2 \subseteq Sessions /\ hook \subseteq Sessions \X Sids
    BY AnyTlsAssumption
  <2>2. stage \in [Sessions -> {"unused", "open", "dying", "removed", "closed"}]
        /\ streams \in [Sessions -> SUBSET Sids]
    OBVIOUS
  <2>3. lastSid \in [Sessions -> 0..MaxStreams]
        /\ watchdog \in [Sessions -> 0..MaxStreams]
        /\ busy \in [Sessions -> 0..MaxStreams]
        /\ finning \in [Sessions -> 0..MaxStreams]
    BY AnyTlsAssumption
  <2>4. stream \in [Sessions \X Sids ->
                      {"none", "live", "shut", "unlinked", "pooling", "dead"}]
        /\ asked \in [Sessions \X Sids -> {"no", "syn", "answered", "finished"}]
    OBVIOUS
  <2>5. pc \in [Callers -> CallerPoints] /\ sess \in [Callers -> 0..MaxSessions]
        /\ sid \in [Callers -> 0..MaxStreams]
    BY AnyTlsAssumption DEF CallerPoints
  <2>6. QED
    BY <2>1, <2>2, <2>3, <2>4, <2>5 DEF AnyTypeOK
<1>4. OneOwner
  BY <1>1, <1>2 DEF AnyInit, OneOwner, Opens
<1>5. CallersPlaced /\ UnmadeUnused /\ LiveIsLinked /\ ClosedIsUnlinked
  BY <1>1, <1>2 DEF AnyInit, CallersPlaced, UnmadeUnused, LiveIsLinked,
     ClosedIsUnlinked
<1>6. QED
  BY <1>3, <1>4, <1>5 DEF AnyInv

(* A step after which nobody holds a session who did not hold it before.   *)
HandsNothingOn ==
  /\ \A s \in Sessions, n \in Sids : Held(s, n)' => Held(s, n)
  /\ \A c \in Callers, s \in Sessions : Opens(c, s)' => Opens(c, s)
  /\ pool' \subseteq pool /\ victims' \subseteq victims

(* A step that hands no session on leaves each with the one owner it has.  *)
LEMMA QuietKeepsOwners ==
  ASSUME OneOwner, HandsNothingOn
  PROVE  OneOwner'
BY DEF OneOwner, HandsNothingOn

(* And it leaves unused whatever session is not made yet.                  *)
LEMMA QuietKeepsUnmade ==
  ASSUME AnyTypeOK, UnmadeUnused, HandsNothingOn, made' \in {made, made + 1}
  PROVE  UnmadeUnused'
BY DEF UnmadeUnused, HandsNothingOn, AnyTypeOK

(* The steps of a connection keep the types.                               *)
LEMMA CallerTypes ==
  ASSUME AnyInv, NEW c \in Callers,
         CreateStream(c) \/ GetIdleSession(c) \/ CreateSession(c)
         \/ DialFails(c) \/ OpenClosed(c) \/ OpenStream(c) \/ WriteSyn(c)
         \/ SynFails(c) \/ Register(c) \/ SetHook(c) \/ WriteAddress(c)
         \/ CloseStream(c)
  PROVE  AnyTypeOK'
<1>1. CASE CreateStream(c)
  <2>1. pc' \in [Callers -> CallerPoints]
    BY <1>1 DEF AnyInv, AnyTypeOK, CreateStream, Go, CallerPoints
  <2>2. UNCHANGED <<clientVars, sessionVars, streamVars, recvVars, sess, sid,
                    asked>>
    BY <1>1 DEF CreateStream, serverVars, recvVars
  <2>3. QED
    BY <2>1, <2>2 DEF AnyInv, AnyTypeOK, clientVars, sessionVars, streamVars, recvVars
<1>2. CASE GetIdleSession(c)
  <2>1. pool' \subseteq 1..made'
    BY <1>2 DEF AnyInv, AnyTypeOK, GetIdleSession, Sessions
  <2>2. pc' \in [Callers -> CallerPoints]
    BY <1>2 DEF AnyInv, AnyTypeOK, GetIdleSession, Go, CallerPoints
  <2>3. sess' \in [Callers -> 0..MaxSessions]
    BY <1>2, AnyTlsAssumption
    DEF AnyInv, AnyTypeOK, GetIdleSession, Go, Sessions
  <2>4. UNCHANGED <<made, victims, sessionVars, streamVars, recvVars, sid,
                    asked>>
    BY <1>2 DEF GetIdleSession, serverVars, recvVars
  <2>5. QED
    BY <2>1, <2>2, <2>3, <2>4
    DEF AnyInv, AnyTypeOK, sessionVars, streamVars, recvVars
<1>3. CASE CreateSession(c)
  <2>1. made' \in 0..MaxSessions
    BY <1>3, AnyTlsAssumption DEF AnyInv, AnyTypeOK, CreateSession, Sessions
  <2>2. pool' \subseteq 1..made'
    BY <1>3 DEF AnyInv, AnyTypeOK, CreateSession, Sessions
  <2>3. victims' \subseteq 1..made'
    BY <1>3 DEF AnyInv, AnyTypeOK, CreateSession
  <2>4. stage' \in [Sessions -> {"unused", "open", "dying", "removed", "closed"}]
    BY <1>3 DEF AnyInv, AnyTypeOK, CreateSession, Sessions
  <2>5. pc' \in [Callers -> CallerPoints]
    BY <1>3 DEF AnyInv, AnyTypeOK, CreateSession, Go, CallerPoints
  <2>6. sess' \in [Callers -> 0..MaxSessions]
    BY <1>3, AnyTlsAssumption
    DEF AnyInv, AnyTypeOK, CreateSession, Go, Sessions
  <2>7. UNCHANGED <<lastSid, streams, peerV2, watchdog, streamVars, recvVars,
                    sid, asked>>
    BY <1>3 DEF CreateSession, serverVars, recvVars
  <2>8. QED
    BY <2>1, <2>2, <2>3, <2>4, <2>5, <2>6, <2>7
    DEF AnyInv, AnyTypeOK, streamVars, recvVars
<1>4. CASE DialFails(c)
  <2>1. pc' \in [Callers -> CallerPoints]
    BY <1>4 DEF AnyInv, AnyTypeOK, DialFails, Leave, CallerPoints
  <2>2. sess' \in [Callers -> 0..MaxSessions]
    BY <1>4, AnyTlsAssumption DEF AnyInv, AnyTypeOK, DialFails, Leave
  <2>3. sid' \in [Callers -> 0..MaxStreams]
    BY <1>4, AnyTlsAssumption DEF AnyInv, AnyTypeOK, DialFails, Leave
  <2>4. UNCHANGED <<clientVars, sessionVars, streamVars, recvVars, asked>>
    BY <1>4 DEF DialFails, serverVars, recvVars
  <2>5. QED
    BY <2>1, <2>2, <2>3, <2>4
    DEF AnyInv, AnyTypeOK, clientVars, sessionVars, streamVars, recvVars
<1>5. CASE OpenClosed(c)
  <2>1. pc' \in [Callers -> CallerPoints]
    BY <1>5 DEF AnyInv, AnyTypeOK, OpenClosed, Leave, CallerPoints
  <2>2. sess' \in [Callers -> 0..MaxSessions]
    BY <1>5, AnyTlsAssumption DEF AnyInv, AnyTypeOK, OpenClosed, Leave
  <2>3. sid' \in [Callers -> 0..MaxStreams]
    BY <1>5, AnyTlsAssumption DEF AnyInv, AnyTypeOK, OpenClosed, Leave
  <2>4. UNCHANGED <<clientVars, sessionVars, streamVars, recvVars, asked>>
    BY <1>5 DEF OpenClosed, serverVars, recvVars
  <2>5. QED
    BY <2>1, <2>2, <2>3, <2>4
    DEF AnyInv, AnyTypeOK, clientVars, sessionVars, streamVars, recvVars
<1>6. CASE OpenStream(c)
  <2>1. lastSid' \in [Sessions -> 0..MaxStreams]
    <3>1. lastSid[sess[c]] + 1 \in 0..MaxStreams
      BY <1>6, AnyTlsAssumption DEF OpenStream, Sids
    <3>2. QED
      BY <1>6, <3>1 DEF OpenStream, AnyInv, AnyTypeOK
  <2>2. watchdog' \in [Sessions -> 0..MaxStreams]
    BY <1>6, AnyTlsAssumption DEF AnyInv, AnyTypeOK, OpenStream, Sids
  <2>3. pc' \in [Callers -> CallerPoints]
    BY <1>6 DEF AnyInv, AnyTypeOK, OpenStream, Go, CallerPoints
  <2>4. sid' \in [Callers -> 0..MaxStreams]
    BY <1>6, AnyTlsAssumption
    DEF AnyInv, AnyTypeOK, OpenStream, Go, CallersPlaced, Sessions, Sids
  <2>5. UNCHANGED <<clientVars, stage, streams, peerV2, stream, hook,
                    recvVars, sess, asked>>
    BY <1>6 DEF OpenStream, serverVars, recvVars
  <2>6. QED
    BY <2>1, <2>2, <2>3, <2>4, <2>5
    DEF AnyInv, AnyTypeOK, clientVars, recvVars
<1>7. CASE WriteSyn(c)
  <2>1. asked' \in [Sessions \X Sids -> {"no", "syn", "answered", "finished"}]
    BY <1>7 DEF AnyInv, AnyTypeOK, WriteSyn
  <2>2. pc' \in [Callers -> CallerPoints]
    BY <1>7 DEF AnyInv, AnyTypeOK, WriteSyn, Go, CallerPoints
  <2>3. UNCHANGED <<clientVars, sessionVars, streamVars, recvVars, sess, sid>>
    BY <1>7 DEF WriteSyn, serverVars, recvVars
  <2>4. QED
    BY <2>1, <2>2, <2>3
    DEF AnyInv, AnyTypeOK, clientVars, sessionVars, streamVars, recvVars
<1>8. CASE SynFails(c)
  <2>1. stage' \in [Sessions -> {"unused", "open", "dying", "removed", "closed"}]
    BY <1>8 DEF AnyInv, AnyTypeOK, SynFails, Dying
  <2>2. pc' \in [Callers -> CallerPoints]
    BY <1>8 DEF AnyInv, AnyTypeOK, SynFails, Leave, CallerPoints
  <2>3. sess' \in [Callers -> 0..MaxSessions]
    BY <1>8, AnyTlsAssumption DEF AnyInv, AnyTypeOK, SynFails, Leave
  <2>4. sid' \in [Callers -> 0..MaxStreams]
    BY <1>8, AnyTlsAssumption DEF AnyInv, AnyTypeOK, SynFails, Leave
  <2>5. UNCHANGED <<clientVars, lastSid, streams, peerV2, watchdog,
                    streamVars, recvVars, asked>>
    BY <1>8 DEF SynFails, serverVars, recvVars
  <2>6. QED
    BY <2>1, <2>2, <2>3, <2>4, <2>5
    DEF AnyInv, AnyTypeOK, clientVars, streamVars, recvVars
<1>9. CASE Register(c)
  <2>1. streams' \in [Sessions -> SUBSET Sids]
    BY <1>9 DEF AnyInv, AnyTypeOK, Register, CallersPlaced, Sids
  <2>2. stream' \in [Sessions \X Sids ->
                        {"none", "live", "shut", "unlinked", "pooling", "dead"}]
    BY <1>9 DEF AnyInv, AnyTypeOK, Register
  <2>3. pc' \in [Callers -> CallerPoints]
    BY <1>9 DEF AnyInv, AnyTypeOK, Register, Leave, Go, CallerPoints
  <2>4. sess' \in [Callers -> 0..MaxSessions]
    BY <1>9, AnyTlsAssumption
    DEF AnyInv, AnyTypeOK, Register, Leave, Go, CallersPlaced, Sids
  <2>5. sid' \in [Callers -> 0..MaxStreams]
    BY <1>9, AnyTlsAssumption
    DEF AnyInv, AnyTypeOK, Register, Leave, Go, CallersPlaced, Sids
  <2>6. UNCHANGED <<clientVars, stage, lastSid, peerV2, watchdog, hook, recvVars, asked>>
    BY <1>9 DEF Register, Leave, Go, serverVars, recvVars
  <2>7. QED
    BY <2>1, <2>2, <2>3, <2>4, <2>5, <2>6
    DEF AnyInv, AnyTypeOK, clientVars, recvVars
<1>10. CASE SetHook(c)
  <2>1. hook' \subseteq Sessions \X Sids
    <3>1. sess[c] \in 1..made /\ sid[c] \in Sids
      BY <1>10 DEF SetHook, AnyInv, CallersPlaced
    <3>2. sess[c] \in Sessions
      BY <3>1, AnyTlsAssumption DEF AnyInv, AnyTypeOK, Sessions
    <3>3. QED
      BY <1>10, <3>1, <3>2 DEF SetHook, AnyInv, AnyTypeOK
  <2>2. pc' \in [Callers -> CallerPoints]
    BY <1>10 DEF AnyInv, AnyTypeOK, SetHook, Go, CallerPoints
  <2>3. UNCHANGED <<clientVars, sessionVars, stream, recvVars, sess,
                    sid, asked>>
    BY <1>10 DEF SetHook, serverVars, recvVars
  <2>4. QED
    BY <2>1, <2>2, <2>3 DEF AnyInv, AnyTypeOK, clientVars, sessionVars, recvVars
<1>11. CASE WriteAddress(c)
  <2>1. asked' \in [Sessions \X Sids -> {"no", "syn", "answered", "finished"}]
    BY <1>11 DEF AnyInv, AnyTypeOK, WriteAddress, Flush
  <2>2. pc' \in [Callers -> CallerPoints]
    BY <1>11 DEF AnyInv, AnyTypeOK, WriteAddress, Go, CallerPoints
  <2>3. UNCHANGED <<clientVars, sessionVars, streamVars, recvVars, sess, sid>>
    BY <1>11 DEF WriteAddress, serverVars, recvVars
  <2>4. QED
    BY <2>1, <2>2, <2>3
    DEF AnyInv, AnyTypeOK, clientVars, sessionVars, streamVars, recvVars
<1>12. CASE CloseStream(c)
  <2>1. stream' \in [Sessions \X Sids ->
                        {"none", "live", "shut", "unlinked", "pooling", "dead"}]
    BY <1>12 DEF AnyInv, AnyTypeOK, CloseStream
  <2>2. pc' \in [Callers -> CallerPoints]
    BY <1>12 DEF AnyInv, AnyTypeOK, CloseStream, Leave, CallerPoints
  <2>3. sess' \in [Callers -> 0..MaxSessions]
    BY <1>12, AnyTlsAssumption DEF AnyInv, AnyTypeOK, CloseStream, Leave
  <2>4. sid' \in [Callers -> 0..MaxStreams]
    BY <1>12, AnyTlsAssumption DEF AnyInv, AnyTypeOK, CloseStream, Leave
  <2>5. UNCHANGED <<clientVars, sessionVars, hook, recvVars, asked>>
    BY <1>12 DEF CloseStream, serverVars, recvVars
  <2>6. QED
    BY <2>1, <2>2, <2>3, <2>4, <2>5
    DEF AnyInv, AnyTypeOK, clientVars, sessionVars, recvVars
<1>13. QED
  BY <1>1, <1>2, <1>3, <1>4, <1>5, <1>6, <1>7, <1>8, <1>9, <1>10, <1>11, <1>12

(* So do the steps of a stream that ends,                                  *)
LEMMA StreamTypes ==
  ASSUME AnyInv, NEW x \in Sessions \X Sids,
         CloseLocally(x) \/ Unlink(x) \/ RunHook(x) \/ PutIdle(x)
  PROVE  AnyTypeOK'
<1>1. CASE CloseLocally(x)
  <2>1. stream' \in [Sessions \X Sids ->
                        {"none", "live", "shut", "unlinked", "pooling", "dead"}]
    BY <1>1 DEF AnyInv, AnyTypeOK, CloseLocally
  <2>2. busy' \in [Sessions -> 0..MaxStreams]
    BY <1>1, AnyTlsAssumption DEF AnyInv, AnyTypeOK, CloseLocally, Sids
  <2>3. finning' \in [Sessions -> 0..MaxStreams]
    BY <1>1, AnyTlsAssumption DEF AnyInv, AnyTypeOK, CloseLocally, Sids
  <2>4. UNCHANGED <<clientVars, sessionVars, hook, callerVars, asked>>
    BY <1>1 DEF CloseLocally, serverVars, recvVars
  <2>5. QED
    BY <2>1, <2>2, <2>3, <2>4
    DEF AnyInv, AnyTypeOK, clientVars, sessionVars, callerVars
<1>2. CASE Unlink(x)
  <2>1. stage' \in [Sessions -> {"unused", "open", "dying", "removed", "closed"}]
    BY <1>2 DEF AnyInv, AnyTypeOK, Unlink, Dying
  <2>2. streams' \in [Sessions -> SUBSET Sids]
    BY <1>2 DEF AnyInv, AnyTypeOK, Unlink
  <2>3. stream' \in [Sessions \X Sids ->
                        {"none", "live", "shut", "unlinked", "pooling", "dead"}]
    BY <1>2 DEF AnyInv, AnyTypeOK, Unlink
  <2>4. asked' \in [Sessions \X Sids -> {"no", "syn", "answered", "finished"}]
    <3>1. asked' = asked \/ asked' = [asked EXCEPT ![<<x[1], 1>>] = "syn"]
      BY <1>2 DEF Unlink, Flush
    <3>2. QED
      BY <3>1 DEF AnyInv, AnyTypeOK
  <2>5. UNCHANGED <<clientVars, lastSid, peerV2, watchdog, hook,
                    recvVars, callerVars>>
    BY <1>2 DEF Unlink, serverVars, recvVars
  <2>6. QED
    BY <2>1, <2>2, <2>3, <2>4, <2>5
    DEF AnyInv, AnyTypeOK, clientVars, recvVars, callerVars
<1>3. CASE RunHook(x)
  <2>1. stream' \in [Sessions \X Sids ->
                        {"none", "live", "shut", "unlinked", "pooling", "dead"}]
    BY <1>3 DEF AnyInv, AnyTypeOK, RunHook
  <2>2. busy' \in [Sessions -> 0..MaxStreams]
    BY <1>3, AnyTlsAssumption DEF AnyInv, AnyTypeOK, RunHook, Released
  <2>3. UNCHANGED <<clientVars, sessionVars, hook, finning,
                    callerVars, asked>>
    BY <1>3 DEF RunHook, sessionVars
  <2>4. QED
    BY <2>1, <2>2, <2>3 DEF AnyInv, AnyTypeOK, clientVars, sessionVars, callerVars
<1>4. CASE PutIdle(x)
  <2>1. pool' \subseteq 1..made'
    <3>1. PICK s \in Sessions, n \in Sids : x = <<s, n>>
      OBVIOUS
    <3>2. s \in 1..made
      BY <1>4, <3>1 DEF PutIdle, AnyInv, UnmadeUnused, Held
    <3>3. pool' = pool \cup {s} /\ made' = made
      BY <1>4, <3>1 DEF PutIdle
    <3>4. QED
      BY <3>2, <3>3 DEF AnyInv, AnyTypeOK
  <2>2. stream' \in [Sessions \X Sids ->
                        {"none", "live", "shut", "unlinked", "pooling", "dead"}]
    BY <1>4 DEF AnyInv, AnyTypeOK, PutIdle
  <2>3. busy' \in [Sessions -> 0..MaxStreams]
    BY <1>4, AnyTlsAssumption DEF AnyInv, AnyTypeOK, PutIdle, Released
  <2>4. UNCHANGED <<made, victims, sessionVars, hook, finning,
                    callerVars, asked>>
    BY <1>4 DEF PutIdle, serverVars, recvVars
  <2>5. QED
    BY <2>1, <2>2, <2>3, <2>4 DEF AnyInv, AnyTypeOK, sessionVars, callerVars
<1>5. QED
  BY <1>1, <1>2, <1>3, <1>4

(* those of a session,                                                     *)
LEMMA SessionTypes ==
  ASSUME AnyInv, NEW s \in Sessions,
         SessionHook(s) \/ CloseStreams(s) \/ CloseVictim(s)
         \/ RecvSettings(s) \/ ReadFails(s) \/ WatchdogFires(s)
  PROVE  AnyTypeOK'
<1>1. CASE SessionHook(s)
  <2>1. pool' \subseteq 1..made'
    BY <1>1 DEF AnyInv, AnyTypeOK, SessionHook
  <2>2. stage' \in [Sessions -> {"unused", "open", "dying", "removed", "closed"}]
    BY <1>1 DEF AnyInv, AnyTypeOK, SessionHook
  <2>3. UNCHANGED <<made, victims, lastSid, streams, peerV2, watchdog,
                    streamVars, recvVars, callerVars, asked>>
    BY <1>1 DEF SessionHook, serverVars, recvVars
  <2>4. QED
    BY <2>1, <2>2, <2>3 DEF AnyInv, AnyTypeOK, streamVars, recvVars, callerVars
<1>2. CASE CloseStreams(s)
  <2>1. stage' \in [Sessions -> {"unused", "open", "dying", "removed", "closed"}]
    BY <1>2 DEF AnyInv, AnyTypeOK, CloseStreams
  <2>2. streams' \in [Sessions -> SUBSET Sids]
    BY <1>2 DEF AnyInv, AnyTypeOK, CloseStreams
  <2>3. stream' \in [Sessions \X Sids ->
                        {"none", "live", "shut", "unlinked", "pooling", "dead"}]
    BY <1>2 DEF AnyInv, AnyTypeOK, CloseStreams
  <2>4. UNCHANGED <<clientVars, lastSid, peerV2, watchdog, hook,
                    recvVars, callerVars, asked>>
    BY <1>2 DEF CloseStreams, serverVars, recvVars
  <2>5. QED
    BY <2>1, <2>2, <2>3, <2>4
    DEF AnyInv, AnyTypeOK, clientVars, recvVars, callerVars
<1>3. CASE CloseVictim(s)
  <2>1. victims' \subseteq 1..made'
    BY <1>3 DEF AnyInv, AnyTypeOK, CloseVictim
  <2>2. stage' \in [Sessions -> {"unused", "open", "dying", "removed", "closed"}]
    BY <1>3 DEF AnyInv, AnyTypeOK, CloseVictim, Dying
  <2>3. UNCHANGED <<made, pool, lastSid, streams, peerV2, watchdog,
                    streamVars, recvVars, callerVars, asked>>
    BY <1>3 DEF CloseVictim, serverVars, recvVars
  <2>4. QED
    BY <2>1, <2>2, <2>3 DEF AnyInv, AnyTypeOK, streamVars, recvVars, callerVars
<1>4. CASE RecvSettings(s)
  <2>1. peerV2' \subseteq Sessions
    BY <1>4 DEF AnyInv, AnyTypeOK, RecvSettings
  <2>2. UNCHANGED <<clientVars, stage, lastSid, streams, watchdog,
                    streamVars, recvVars, callerVars, asked>>
    BY <1>4 DEF RecvSettings, serverVars, recvVars
  <2>3. QED
    BY <2>1, <2>2 DEF AnyInv, AnyTypeOK, clientVars, streamVars, recvVars, callerVars
<1>5. CASE ReadFails(s)
  <2>1. stage' \in [Sessions -> {"unused", "open", "dying", "removed", "closed"}]
    BY <1>5 DEF AnyInv, AnyTypeOK, ReadFails, Dying
  <2>2. UNCHANGED <<clientVars, lastSid, streams, peerV2, watchdog,
                    streamVars, recvVars, callerVars, asked>>
    BY <1>5 DEF ReadFails, serverVars, recvVars
  <2>3. QED
    BY <2>1, <2>2 DEF AnyInv, AnyTypeOK, clientVars, streamVars, recvVars, callerVars
<1>6. CASE WatchdogFires(s)
  <2>1. stage' \in [Sessions -> {"unused", "open", "dying", "removed", "closed"}]
    BY <1>6 DEF AnyInv, AnyTypeOK, WatchdogFires, Dying
  <2>2. watchdog' \in [Sessions -> 0..MaxStreams]
    BY <1>6, AnyTlsAssumption DEF AnyInv, AnyTypeOK, WatchdogFires
  <2>3. UNCHANGED <<clientVars, lastSid, streams, peerV2, streamVars,
                    recvVars, callerVars, asked>>
    BY <1>6 DEF WatchdogFires, serverVars, recvVars
  <2>4. QED
    BY <2>1, <2>2, <2>3
    DEF AnyInv, AnyTypeOK, clientVars, streamVars, recvVars, callerVars
<1>7. QED
  BY <1>1, <1>2, <1>3, <1>4, <1>5, <1>6

(* and the frames that name a stream.                                      *)
LEMMA FrameTypes ==
  ASSUME AnyInv, NEW s \in Sessions, NEW n \in Sids,
         RecvSynAck(s, n) \/ RecvFin(s, n)
  PROVE  AnyTypeOK'
<1>1. CASE RecvSynAck(s, n)
  <2>1. watchdog' \in [Sessions -> 0..MaxStreams]
    BY <1>1, AnyTlsAssumption DEF AnyInv, AnyTypeOK, RecvSynAck, Sids
  <2>2. stream' \in [Sessions \X Sids ->
                        {"none", "live", "shut", "unlinked", "pooling", "dead"}]
    <3>1. \/ stream' = stream
          \/ stream' = [stream EXCEPT ![<<s, n>>] = "shut"]
      BY <1>1 DEF RecvSynAck
    <3>2. QED
      BY <3>1 DEF AnyInv, AnyTypeOK
  <2>3. busy' \in [Sessions -> 0..MaxStreams]
    BY <1>1, AnyTlsAssumption DEF AnyInv, AnyTypeOK, RecvSynAck, Sids
  <2>4. asked' \in [Sessions \X Sids -> {"no", "syn", "answered", "finished"}]
    BY <1>1 DEF AnyInv, AnyTypeOK, RecvSynAck
  <2>5. UNCHANGED <<clientVars, stage, lastSid, streams, peerV2, hook, finning, callerVars>>
    BY <1>1 DEF RecvSynAck, serverVars, recvVars
  <2>6. QED
    BY <2>1, <2>2, <2>3, <2>4, <2>5 DEF AnyInv, AnyTypeOK, clientVars, callerVars
<1>2. CASE RecvFin(s, n)
  <2>1. streams' \in [Sessions -> SUBSET Sids]
    BY <1>2 DEF AnyInv, AnyTypeOK, RecvFin, Sids
  <2>2. finning' \in [Sessions -> 0..MaxStreams]
    BY <1>2, AnyTlsAssumption DEF AnyInv, AnyTypeOK, RecvFin, Sids
  <2>3. asked' \in [Sessions \X Sids -> {"no", "syn", "answered", "finished"}]
    BY <1>2 DEF AnyInv, AnyTypeOK, RecvFin
  <2>4. UNCHANGED <<clientVars, stage, lastSid, peerV2, watchdog, streamVars,
                    busy, callerVars>>
    BY <1>2 DEF RecvFin, serverVars, recvVars
  <2>5. QED
    BY <2>1, <2>2, <2>3, <2>4
    DEF AnyInv, AnyTypeOK, clientVars, streamVars, callerVars
<1>3. QED
  BY <1>1, <1>2

(* The cleanup takes sessions only out of the pool.                        *)
LEMMA CleanupTypes ==
  ASSUME AnyInv, Cleanup
  PROVE  AnyTypeOK'
<1>1. pool' \subseteq pool /\ victims' \subseteq pool
  BY DEF Cleanup
<1>2. UNCHANGED <<made, sessionVars, streamVars, recvVars, asked, callerVars>>
  BY DEF Cleanup, serverVars
<1>3. QED
  BY <1>1, <1>2
  DEF AnyInv, AnyTypeOK, sessionVars, streamVars, recvVars, callerVars

-----------------------------------------------------------------------------
(* Who holds a session after the steps of a connection.                    *)
LEMMA CallerOwners ==
  ASSUME AnyInv, NEW c \in Callers, Caller(c)
  PROVE  OneOwner' /\ UnmadeUnused'
<1> USE DEF AnyInv
<1>1. ASSUME HandsNothingOn, made' \in {made, made + 1}
      PROVE  OneOwner' /\ UnmadeUnused'
  BY <1>1, QuietKeepsOwners, QuietKeepsUnmade
<1>2. ASSUME UNCHANGED <<made, pool, victims, stream>>,
             \A d \in Callers \ {c} : pc'[d] = pc[d] /\ sess'[d] = sess[d],
             \/ pc'[c] \notin {"open", "syn", "register"}
             \/ /\ sess'[c] = sess[c]
                /\ pc[c] \in {"open", "syn", "register"}
      PROVE  OneOwner' /\ UnmadeUnused'
  <2>1. HandsNothingOn
    BY <1>2 DEF HandsNothingOn, Held, Opens
  <2>2. QED
    BY <1>1, <1>2, <2>1
<1>3. CASE CreateStream(c)
  <2>1. UNCHANGED <<made, pool, victims, stream>>
        /\ (\A d \in Callers \ {c} : pc'[d] = pc[d] /\ sess'[d] = sess[d])
        /\ pc'[c] = "get"
    BY <1>3 DEF CreateStream, Go, clientVars, streamVars, AnyTypeOK
  <2>2. QED
    BY <1>2, <2>1
<1>4. CASE DialFails(c) \/ OpenClosed(c) \/ SynFails(c)
  <2>1. UNCHANGED <<made, pool, victims, stream>> /\ Leave(c)
    BY <1>4 DEF DialFails, OpenClosed, SynFails, clientVars, streamVars
  <2>2. (\A d \in Callers \ {c} : pc'[d] = pc[d] /\ sess'[d] = sess[d])
        /\ pc'[c] = "idle"
    BY <2>1 DEF Leave, AnyTypeOK
  <2>3. QED
    BY <1>2, <2>1, <2>2
<1>5. CASE OpenStream(c) \/ WriteSyn(c) \/ SetHook(c) \/ WriteAddress(c)
  <2>1. UNCHANGED <<made, pool, victims, stream, sess>>
    BY <1>5 DEF OpenStream, WriteSyn, SetHook, WriteAddress, clientVars, streamVars
  <2>2. \/ pc[c] = "open" /\ Go(c, "syn")
        \/ pc[c] = "syn" /\ Go(c, "register")
        \/ Go(c, "address")
        \/ Go(c, "relay")
    BY <1>5 DEF OpenStream, WriteSyn, SetHook, WriteAddress
  <2>3. (\A d \in Callers \ {c} : pc'[d] = pc[d])
        /\ \/ pc'[c] \notin {"open", "syn", "register"}
           \/ pc[c] \in {"open", "syn", "register"}
    BY <2>2 DEF Go, AnyTypeOK
  <2>4. QED
    BY <1>2, <2>1, <2>3
<1>6. CASE CloseStream(c)
  <2>1. UNCHANGED <<made, pool, victims>> /\ Leave(c)
    BY <1>6 DEF CloseStream, clientVars
  <2>2. \A s \in Sessions, n \in Sids : Held(s, n)' => Held(s, n)
    BY <1>6 DEF CloseStream, Held, AnyTypeOK
  <2>3. \A d \in Callers, s \in Sessions : Opens(d, s)' => Opens(d, s)
    BY <2>1 DEF Leave, Opens, AnyTypeOK
  <2>4. QED
    BY <1>1, <2>1, <2>2, <2>3 DEF HandsNothingOn
<1>7. CASE GetIdleSession(c)
  <2>1. PICK s \in Sessions : s \in pool /\ sess' = [sess EXCEPT ![c] = s]
                              /\ pool' = pool \ {s}
    BY <1>7 DEF GetIdleSession, Newest
  <2>2. UNCHANGED <<made, victims, stream>> /\ pc[c] = "get"
        /\ pc' = [pc EXCEPT ![c] = "open"]
    BY <1>7 DEF GetIdleSession, Go, streamVars
  <2>3. \A d \in Callers, t \in Sessions :
          Opens(d, t)' => (d = c /\ t = s) \/ (d # c /\ Opens(d, t))
    BY <2>1, <2>2 DEF Opens, AnyTypeOK
  <2>4. \A t \in Sessions, n \in Sids : Held(t, n)' <=> Held(t, n)
    BY <2>2 DEF Held
  <2>5. (\A d \in Callers : ~Opens(d, s)) /\ (\A n \in Sids : ~Held(s, n))
        /\ s \notin victims
    BY <2>1 DEF OneOwner
  <2>6. OneOwner'
    BY <2>1, <2>2, <2>3, <2>4, <2>5 DEF OneOwner
  <2>7. UnmadeUnused'
    BY <2>2, <2>4 DEF UnmadeUnused
  <2>8. QED
    BY <2>6, <2>7
<1>8. CASE CreateSession(c)
  <2>1. pc[c] = "get" /\ made' = made + 1
        /\ UNCHANGED <<pool, victims, stream>>
        /\ sess' = [sess EXCEPT ![c] = made + 1]
        /\ pc' = [pc EXCEPT ![c] = "open"]
    BY <1>8 DEF CreateSession, Go, streamVars
  <2>2. made \in Nat /\ pool \subseteq 1..made /\ victims \subseteq 1..made
    BY DEF AnyTypeOK
  <2>3. \A d \in Callers, t \in Sessions :
          Opens(d, t)' => (d = c /\ t = made + 1) \/ (d # c /\ Opens(d, t))
    BY <2>1 DEF Opens, AnyTypeOK
  <2>4. \A t \in Sessions, n \in Sids : Held(t, n)' <=> Held(t, n)
    BY <2>1 DEF Held
  <2>5. \A d \in Callers, t \in Sessions : Opens(d, t) => t # made + 1
    BY <2>2 DEF Opens, CallersPlaced
  <2>6. \A t \in Sessions, n \in Sids : Held(t, n) => t # made + 1
    BY <2>2 DEF UnmadeUnused
  <2>7. made + 1 \notin pool \cup victims
    BY <2>2
  <2>8. OneOwner'
    BY <2>1, <2>3, <2>4, <2>5, <2>6, <2>7 DEF OneOwner
  <2>9. UnmadeUnused'
    BY <2>1, <2>2, <2>4 DEF UnmadeUnused
  <2>10. QED
    BY <2>8, <2>9
<1>9. CASE Register(c)
  <2>1. CASE IsClosed(sess[c])
    <3>1. UNCHANGED <<made, pool, victims, stream>> /\ Leave(c)
      BY <1>9, <2>1 DEF Register, clientVars
    <3>2. (\A d \in Callers \ {c} : pc'[d] = pc[d] /\ sess'[d] = sess[d])
          /\ pc'[c] = "idle"
      BY <3>1 DEF Leave, AnyTypeOK
    <3>3. QED
      BY <1>2, <3>1, <3>2
  <2>2. CASE ~IsClosed(sess[c])
    <3>1. PICK s \in 1..made, n \in Sids : s = sess[c] /\ n = sid[c]
      BY <1>9 DEF Register, CallersPlaced
    <3>2. s \in Sessions
      BY <3>1, AnyTlsAssumption DEF AnyTypeOK, Sessions
    <3>3. pc[c] = "register" /\ UNCHANGED <<made, pool, victims, sess>>
          /\ stream' = [stream EXCEPT ![<<s, n>>] = "live"]
          /\ pc' = [pc EXCEPT ![c] = "hook"]
      BY <1>9, <2>2, <3>1 DEF Register, Go, clientVars
    <3>4. Opens(c, s)
      BY <3>1, <3>3 DEF Opens
    <3>5. \A t \in Sessions, m \in Sids :
            Held(t, m)' => (t = s /\ m = n) \/ Held(t, m)
      BY <3>2, <3>3 DEF Held, AnyTypeOK
    <3>6. \A d \in Callers, t \in Sessions :
            Opens(d, t)' => d # c /\ Opens(d, t)
      BY <3>3 DEF Opens, AnyTypeOK
    <3>7. (\A m \in Sids : ~Held(s, m)) /\ s \notin pool \cup victims
          /\ \A d \in Callers : Opens(d, s) => d = c
      BY <3>2, <3>4 DEF OneOwner
    <3>8. OneOwner'
      BY <3>2, <3>3, <3>5, <3>6, <3>7 DEF OneOwner
    <3>9. UnmadeUnused'
      BY <3>1, <3>3, <3>5 DEF UnmadeUnused
    <3>10. QED
      BY <3>8, <3>9
  <2>3. QED
    BY <2>1, <2>2
<1>10. QED
  BY <1>3, <1>4, <1>5, <1>6, <1>7, <1>8, <1>9 DEF Caller

(* After the steps of a stream that ends: PutIdle hands its session back.  *)
LEMMA StreamOwners ==
  ASSUME AnyInv, NEW x \in Sessions \X Sids, StreamStep(x)
  PROVE  OneOwner' /\ UnmadeUnused'
<1> USE DEF AnyInv
<1>1. PICK s \in Sessions, n \in Sids : x = <<s, n>>
  OBVIOUS
<1>2. CASE CloseLocally(x) \/ Unlink(x) \/ RunHook(x)
  <2>1. UNCHANGED <<made, pool, victims, pc, sess>>
    BY <1>2 DEF CloseLocally, Unlink, RunHook, clientVars, callerVars
  <2>2. \/ stream' = stream
        \/ /\ Held(s, n)
           /\ \E v : stream' = [stream EXCEPT ![<<s, n>>] = v]
    BY <1>1, <1>2 DEF CloseLocally, Unlink, RunHook, Held
  <2>3. \A t \in Sessions, m \in Sids : Held(t, m)' => Held(t, m)
    BY <2>2 DEF Held, AnyTypeOK
  <2>4. HandsNothingOn
    BY <2>1, <2>3 DEF HandsNothingOn, Opens
  <2>5. QED
    BY <2>1, <2>4, QuietKeepsOwners, QuietKeepsUnmade
<1>3. CASE PutIdle(x)
  <2>1. Held(s, n) /\ stream' = [stream EXCEPT ![<<s, n>>] = "dead"]
        /\ pool' = pool \cup {s} /\ UNCHANGED <<made, victims, pc, sess>>
    BY <1>1, <1>3 DEF PutIdle, Held, callerVars
  <2>2. \A t \in Sessions, m \in Sids :
          Held(t, m)' => Held(t, m) /\ <<t, m>> # <<s, n>>
    BY <2>1 DEF Held, AnyTypeOK
  <2>3. \A d \in Callers, t \in Sessions : Opens(d, t)' <=> Opens(d, t)
    BY <2>1 DEF Opens
  <2>4. (\A m \in Sids : Held(s, m) => m = n) /\ s \notin victims
        /\ \A d \in Callers : ~Opens(d, s)
    BY <2>1 DEF OneOwner
  <2>5. OneOwner'
    BY <2>1, <2>2, <2>3, <2>4 DEF OneOwner
  <2>6. UnmadeUnused'
    BY <2>1, <2>2 DEF UnmadeUnused
  <2>7. QED
    BY <2>5, <2>6
<1>4. QED
  BY <1>2, <1>3 DEF StreamStep

(* After the steps of a session, of its frames and of the cleanup.         *)
LEMMA SessionOwners ==
  ASSUME AnyInv, NEW s \in Sessions,
         CloseStep(s) \/ Recv(s) \/ ReadFails(s) \/ WatchdogFires(s)
  PROVE  OneOwner' /\ UnmadeUnused'
<1> USE DEF AnyInv
<1>1. UNCHANGED <<made, pc, sess>> /\ pool' \subseteq pool
      /\ victims' \subseteq victims
  BY DEF CloseStep, SessionHook, CloseStreams, CloseVictim, Recv, RecvSettings,
     RecvSynAck, RecvFin, ReadFails, WatchdogFires, clientVars, callerVars
<1>2. ASSUME NEW n \in Sids, RecvSynAck(s, n)
      PROVE  \A t \in Sessions, m \in Sids : Held(t, m)' => Held(t, m)
  <2>1. \/ stream' = stream
        \/ /\ stream[<<s, n>>] = "live"
           /\ stream' = [stream EXCEPT ![<<s, n>>] = "shut"]
    BY <1>2 DEF RecvSynAck
  <2>2. QED
    BY <2>1 DEF Held, AnyTypeOK
<1>3. stream' = stream \/ CloseStreams(s) \/ \E n \in Sids : RecvSynAck(s, n)
  BY DEF CloseStep, SessionHook, CloseVictim, Recv, RecvSettings, RecvFin,
     ReadFails, WatchdogFires, streamVars
<1>4. \A t \in Sessions, m \in Sids : Held(t, m)' => Held(t, m)
  <2>1. CASE stream' = stream
    BY <2>1 DEF Held
  <2>2. CASE CloseStreams(s)
    BY <2>2 DEF CloseStreams, Held, AnyTypeOK
  <2>3. QED
    BY <1>2, <1>3, <2>1, <2>2
<1>5. HandsNothingOn
  BY <1>1, <1>4 DEF HandsNothingOn, Opens
<1>6. QED
  BY <1>1, <1>5, QuietKeepsOwners, QuietKeepsUnmade

(* A session the cleanup takes leaves the pool in the same step.           *)
LEMMA CleanupOwners ==
  ASSUME AnyInv, Cleanup
  PROVE  OneOwner' /\ UnmadeUnused'
<1>1. PICK expired \in SUBSET pool : /\ victims' = expired
                                     /\ pool' = pool \ expired
                                     /\ victims = {}
  BY DEF Cleanup
<1>2. UNCHANGED <<made, stream, pc, sess>>
  BY DEF Cleanup, streamVars, callerVars
<1>3. (\A t \in Sessions, m \in Sids : Held(t, m)' <=> Held(t, m))
      /\ \A d \in Callers, t \in Sessions : Opens(d, t)' <=> Opens(d, t)
  BY <1>2 DEF Held, Opens
<1>4. QED
  BY <1>1, <1>2, <1>3 DEF AnyInv, OneOwner, UnmadeUnused

-----------------------------------------------------------------------------
(* A connection keeps the session and the stream it was given.             *)
LEMMA CallersStayPlaced ==
  ASSUME AnyInv, AnyNext
  PROVE  CallersPlaced'
<1> USE DEF AnyInv
<1>1. made \in Nat /\ made' \in {made, made + 1}
  <2>1. made' = made \/ \E c \in Callers : CreateSession(c)
    BY DEF AnyNext, Caller, CreateStream, GetIdleSession, DialFails, OpenClosed,
       OpenStream, WriteSyn, SynFails, Register, SetHook, WriteAddress,
       CloseStream, StreamStep, CloseLocally, Unlink, RunHook, PutIdle, CloseStep,
       SessionHook, CloseStreams, CloseVictim, Recv, RecvSettings, RecvSynAck,
       RecvFin, ReadFails, WatchdogFires, Cleanup, clientVars
  <2>2. QED
    BY <2>1 DEF CreateSession, AnyTypeOK
<1>2. 1..made \subseteq 1..made'
  BY <1>1
<1>3. CASE UNCHANGED callerVars
  BY <1>2, <1>3 DEF CallersPlaced, callerVars
<1>4. ASSUME NEW c \in Callers,
             \A d \in Callers \ {c} :
               pc'[d] = pc[d] /\ sess'[d] = sess[d] /\ sid'[d] = sid[d],
             pc'[c] \notin {"idle", "get"} => sess'[c] \in 1..made',
             pc'[c] \notin {"idle", "get", "open"} => sid'[c] \in Sids
      PROVE  CallersPlaced'
  BY <1>2, <1>4 DEF CallersPlaced
<1>5. ASSUME NEW c \in Callers, Caller(c) PROVE CallersPlaced'
  <2>1. CASE CreateStream(c)
    BY <1>4, <2>1 DEF CreateStream, Go, AnyTypeOK
  <2>2. CASE DialFails(c) \/ OpenClosed(c) \/ SynFails(c) \/ CloseStream(c)
    <3>1. Leave(c)
      BY <2>2 DEF DialFails, OpenClosed, SynFails, CloseStream
    <3>2. QED
      BY <1>4, <3>1 DEF Leave, AnyTypeOK
  <2>3. CASE GetIdleSession(c)
    <3>1. PICK s \in pool : sess' = [sess EXCEPT ![c] = s]
      BY <2>3 DEF GetIdleSession, Newest
    <3>2. s \in 1..made'
      BY <1>2 DEF AnyTypeOK
    <3>3. pc' = [pc EXCEPT ![c] = "open"] /\ sid' = sid
      BY <2>3 DEF GetIdleSession, Go
    <3>4. QED
      BY <1>4, <3>1, <3>2, <3>3 DEF AnyTypeOK
  <2>4. CASE CreateSession(c)
    <3>1. sess' = [sess EXCEPT ![c] = made + 1] /\ made' = made + 1
          /\ pc' = [pc EXCEPT ![c] = "open"] /\ sid' = sid
      BY <2>4 DEF CreateSession, Go
    <3>2. made + 1 \in 1..made'
      BY <1>1, <3>1
    <3>3. QED
      BY <1>4, <3>1, <3>2 DEF AnyTypeOK
  <2>5. CASE OpenStream(c)
    <3>1. pc[c] = "open" /\ pc' = [pc EXCEPT ![c] = "syn"] /\ sess' = sess
      BY <2>5 DEF OpenStream, Go
    <3>2. PICK n \in Sids : sid' = [sid EXCEPT ![c] = n]
      BY <2>5 DEF OpenStream
    <3>3. sess[c] \in 1..made'
      BY <1>2, <3>1 DEF CallersPlaced
    <3>4. QED
      BY <1>4, <3>1, <3>2, <3>3 DEF AnyTypeOK
  <2>6. CASE WriteSyn(c) \/ SetHook(c) \/ WriteAddress(c)
    <3>1. UNCHANGED <<sess, sid>> /\ pc[c] \in {"syn", "hook", "address"}
          /\ \E p : pc' = [pc EXCEPT ![c] = p]
      BY <2>6 DEF WriteSyn, SetHook, WriteAddress, Go
    <3>2. sess[c] \in 1..made' /\ sid[c] \in Sids
      BY <1>2, <3>1 DEF CallersPlaced
    <3>3. QED
      BY <1>4, <3>1, <3>2 DEF AnyTypeOK
  <2>7. CASE Register(c)
    <3>1. pc[c] = "register" /\ \/ Leave(c)
                                \/ Go(c, "hook") /\ UNCHANGED <<sess, sid>>
      BY <2>7 DEF Register
    <3>2. sess[c] \in 1..made' /\ sid[c] \in Sids
      BY <1>2, <3>1 DEF CallersPlaced
    <3>3. CASE Leave(c)
      BY <1>4, <3>3 DEF Leave, AnyTypeOK
    <3>4. CASE Go(c, "hook") /\ UNCHANGED <<sess, sid>>
      BY <1>4, <3>2, <3>4 DEF Go, AnyTypeOK
    <3>5. QED
      BY <3>1, <3>3, <3>4
  <2>8. QED
    BY <1>5, <2>1, <2>2, <2>3, <2>4, <2>5, <2>6, <2>7 DEF Caller
<1>6. UNCHANGED callerVars \/ \E c \in Callers : Caller(c)
  BY DEF AnyNext, StreamStep, CloseLocally, Unlink, RunHook, PutIdle, CloseStep,
     SessionHook, CloseStreams, CloseVictim, Recv, RecvSettings, RecvSynAck,
     RecvFin, ReadFails, WatchdogFires, Cleanup, callerVars
<1>7. QED
  BY <1>3, <1>5, <1>6

-----------------------------------------------------------------------------
(* A step that links no stream and revives none.                           *)
LEMMA QuietKeepsLinks ==
  ASSUME LiveIsLinked, ClosedIsUnlinked,
         \A s \in Sessions, n \in Sids :
           /\ stream'[<<s, n>>] = "live" => stream[<<s, n>>] = "live"
           /\ n \in streams[s] => n \in streams'[s] \/ stream'[<<s, n>>] # "live"
           /\ finning[s] = n => finning'[s] = n \/ stream'[<<s, n>>] # "live",
         \A s \in Sessions :
           /\ streams'[s] \subseteq streams[s]
           /\ stage'[s] = "closed" => stage[s] = "closed"
  PROVE  LiveIsLinked' /\ ClosedIsUnlinked'
BY DEF LiveIsLinked, ClosedIsUnlinked

(* A caller's step leaves each live stream in the table of its session, and *)
(* no stream in the table of a closed one.                                 *)
LEMMA CallerLinks ==
  ASSUME AnyInv, NEW c \in Callers, Caller(c)
  PROVE  LiveIsLinked' /\ ClosedIsUnlinked'
<1> USE DEF AnyInv
<1>1. finning' = finning
  BY DEF Caller, CreateStream, GetIdleSession, CreateSession, DialFails,
     OpenClosed, OpenStream, WriteSyn, SynFails, Register, SetHook, WriteAddress,
     CloseStream, serverVars, recvVars
<1>2. CASE Register(c)
  <2>1. CASE IsClosed(sess[c])
    <3>1. UNCHANGED <<stage, streams, stream>>
      BY <1>2, <2>1 DEF Register
    <3>2. QED
      BY <1>1, <3>1, QuietKeepsLinks
  <2>2. CASE ~IsClosed(sess[c])
    <3>1. PICK s \in 1..made, n \in Sids : s = sess[c] /\ n = sid[c]
      BY <1>2 DEF Register, CallersPlaced
    <3>2. s \in Sessions
      BY <3>1, AnyTlsAssumption DEF AnyTypeOK, Sessions
    <3>3. stream' = [stream EXCEPT ![<<s, n>>] = "live"]
          /\ streams' = [streams EXCEPT ![s] = @ \cup {n}]
          /\ stage' = stage /\ stage[s] = "open"
      BY <1>2, <2>2, <3>1 DEF Register, IsClosed
    <3>4. LiveIsLinked'
      BY <1>1, <3>2, <3>3 DEF LiveIsLinked, AnyTypeOK
    <3>5. ClosedIsUnlinked'
      BY <3>2, <3>3 DEF ClosedIsUnlinked, AnyTypeOK
    <3>6. QED
      BY <3>4, <3>5
  <2>3. QED
    BY <2>1, <2>2
<1>3. CASE CreateSession(c)
  <2>1. stage' = [stage EXCEPT ![made + 1] = "open"]
        /\ UNCHANGED <<streams, stream>>
    BY <1>3 DEF CreateSession, streamVars
  <2>2. \A s \in Sessions : stage'[s] = "closed" => stage[s] = "closed"
    BY <2>1 DEF AnyTypeOK
  <2>3. QED
    BY <1>1, <2>1, <2>2, QuietKeepsLinks
<1>4. CASE SynFails(c)
  <2>1. stage' = Dying(sess[c]) /\ UNCHANGED <<streams, stream>>
    BY <1>4 DEF SynFails, streamVars
  <2>2. \A s \in Sessions : stage'[s] = "closed" => stage[s] = "closed"
    BY <2>1 DEF Dying, AnyTypeOK
  <2>3. QED
    BY <1>1, <2>1, <2>2, QuietKeepsLinks
<1>5. CASE CloseStream(c)
  <2>1. UNCHANGED <<stage, streams>>
        /\ \A s \in Sessions, n \in Sids :
             stream'[<<s, n>>] = "live" => stream[<<s, n>>] = "live"
    BY <1>5 DEF CloseStream, sessionVars, AnyTypeOK
  <2>2. QED
    BY <1>1, <2>1, QuietKeepsLinks
<1>6. CASE UNCHANGED <<stage, streams, stream>>
  BY <1>1, <1>6, QuietKeepsLinks
<1>7. QED
  BY <1>2, <1>3, <1>4, <1>5, <1>6
  DEF Caller, CreateStream, GetIdleSession, DialFails, OpenClosed, OpenStream,
      WriteSyn, SetHook, WriteAddress, sessionVars, streamVars

(* So does a step of a stream that ends.                                   *)
LEMMA StreamLinks ==
  ASSUME AnyInv, NEW x \in Sessions \X Sids, StreamStep(x)
  PROVE  LiveIsLinked' /\ ClosedIsUnlinked'
<1> USE DEF AnyInv
<1>1. PICK s \in Sessions, n \in Sids : x = <<s, n>>
  OBVIOUS
<1>2. CASE CloseLocally(x)
  <2>1. UNCHANGED <<stage, streams>> /\ finning' = [finning EXCEPT ![s] = 0]
        /\ finning[s] = n
    BY <1>1, <1>2 DEF CloseLocally, sessionVars
  <2>2. stream' = IF stream[<<s, n>>] = "live"
                  THEN [stream EXCEPT ![<<s, n>>] = "unlinked"] ELSE stream
    BY <1>1, <1>2 DEF CloseLocally
  <2>3. stream'[<<s, n>>] # "live"
        /\ \A t \in Sessions, m \in Sids :
             stream'[<<t, m>>] = "live" => stream[<<t, m>>] = "live"
    BY <2>2 DEF AnyTypeOK
  <2>4. \A t \in Sessions, m \in Sids :
          finning[t] = m => finning'[t] = m \/ stream'[<<t, m>>] # "live"
    BY <2>1, <2>3 DEF AnyTypeOK
  <2>5. QED
    BY <2>1, <2>3, <2>4, QuietKeepsLinks
<1>3. CASE Unlink(x)
  <2>1. stream' = [stream EXCEPT ![<<s, n>>] = "unlinked"] /\ finning' = finning
    BY <1>1, <1>3 DEF Unlink, recvVars
  <2>2. streams' = streams \/ streams' = [streams EXCEPT ![s] = @ \ {n}]
    BY <1>1, <1>3 DEF Unlink
  <2>3. stage' = stage \/ stage' = Dying(s)
    BY <1>1, <1>3 DEF Unlink
  <2>4. \A t \in Sessions : stage'[t] = "closed" => stage[t] = "closed"
    BY <2>3 DEF Dying, AnyTypeOK
  <2>5. stream'[<<s, n>>] # "live"
        /\ \A t \in Sessions, m \in Sids :
             stream'[<<t, m>>] = "live" => stream[<<t, m>>] = "live"
    BY <2>1 DEF AnyTypeOK
  <2>6. \A t \in Sessions, m \in Sids :
          m \in streams[t] => m \in streams'[t] \/ stream'[<<t, m>>] # "live"
    BY <2>2, <2>5 DEF AnyTypeOK
  <2>7. \A t \in Sessions : streams'[t] \subseteq streams[t]
    BY <2>2 DEF AnyTypeOK
  <2>8. QED
    BY <2>1, <2>4, <2>5, <2>6, <2>7, QuietKeepsLinks
<1>4. CASE RunHook(x) \/ PutIdle(x)
  <2>1. UNCHANGED <<stage, streams, finning>>
    BY <1>4 DEF RunHook, PutIdle, sessionVars
  <2>2. \E v \in {"dead", "pooling"} : stream' = [stream EXCEPT ![<<s, n>>] = v]
    BY <1>1, <1>4 DEF RunHook, PutIdle
  <2>3. \A t \in Sessions, m \in Sids :
          stream'[<<t, m>>] = "live" => stream[<<t, m>>] = "live"
    BY <2>2 DEF AnyTypeOK
  <2>4. QED
    BY <2>1, <2>3, QuietKeepsLinks
<1>5. QED
  BY <1>2, <1>3, <1>4 DEF StreamStep

(* So do a session's close, its receive loop and its watchdog.             *)
LEMMA SessionLinks ==
  ASSUME AnyInv, NEW s \in Sessions,
         CloseStep(s) \/ Recv(s) \/ ReadFails(s) \/ WatchdogFires(s)
  PROVE  LiveIsLinked' /\ ClosedIsUnlinked'
<1> USE DEF AnyInv
<1>1. CASE CloseStreams(s)
  <2>1. stream' = [x \in DOMAIN stream |->
                     IF x[1] = s /\ x[2] \in streams[s] /\ stream[x] = "live"
                     THEN "dead" ELSE stream[x]]
        /\ streams' = [streams EXCEPT ![s] = {}] /\ finning' = finning
        /\ stage' = [stage EXCEPT ![s] = "closed"]
    BY <1>1 DEF CloseStreams, serverVars, recvVars
  <2>2. \A t \in Sessions, n \in Sids :
          /\ stream'[<<t, n>>] = "live" => stream[<<t, n>>] = "live"
          /\ n \in streams[s] => stream'[<<s, n>>] # "live"
    BY <2>1 DEF AnyTypeOK
  <2>3. LiveIsLinked'
    BY <2>1, <2>2 DEF LiveIsLinked, AnyTypeOK
  <2>4. ClosedIsUnlinked'
    BY <2>1 DEF ClosedIsUnlinked, AnyTypeOK
  <2>5. QED
    BY <2>3, <2>4
<1>2. CASE SessionHook(s) \/ CloseVictim(s) \/ ReadFails(s) \/ WatchdogFires(s)
  <2>1. UNCHANGED <<streams, stream, finning>>
    BY <1>2 DEF SessionHook, CloseVictim, ReadFails, WatchdogFires, streamVars,
       serverVars, recvVars
  <2>2. stage' = [stage EXCEPT ![s] = "removed"] \/ stage' = Dying(s)
    BY <1>2 DEF SessionHook, CloseVictim, ReadFails, WatchdogFires
  <2>3. \A t \in Sessions : stage'[t] = "closed" => stage[t] = "closed"
    BY <2>2 DEF Dying, AnyTypeOK
  <2>4. QED
    BY <2>1, <2>3, QuietKeepsLinks
<1>3. CASE RecvSettings(s)
  <2>1. UNCHANGED <<stage, streams, stream, finning>>
    BY <1>3 DEF RecvSettings, streamVars, serverVars, recvVars
  <2>2. QED
    BY <2>1, QuietKeepsLinks
<1>4. ASSUME NEW n \in Sids, RecvSynAck(s, n)
      PROVE  LiveIsLinked' /\ ClosedIsUnlinked'
  <2>1. UNCHANGED <<stage, streams, finning>>
    BY <1>4 DEF RecvSynAck
  <2>2. stream' = stream \/ stream' = [stream EXCEPT ![<<s, n>>] = "shut"]
    BY <1>4 DEF RecvSynAck
  <2>3. \A t \in Sessions, m \in Sids :
          stream'[<<t, m>>] = "live" => stream[<<t, m>>] = "live"
    BY <2>2 DEF AnyTypeOK
  <2>4. QED
    BY <2>1, <2>3, QuietKeepsLinks
<1>5. ASSUME NEW n \in Sids, RecvFin(s, n)
      PROVE  LiveIsLinked' /\ ClosedIsUnlinked'
  <2>1. UNCHANGED <<stage, stream>> /\ finning[s] = 0
        /\ streams' = [streams EXCEPT ![s] = @ \ {n}]
        /\ finning' = IF n \in streams[s] THEN [finning EXCEPT ![s] = n]
                      ELSE finning
    BY <1>5 DEF RecvFin, Reading, Idle, streamVars
  <2>2. 0 \notin Sids
    BY DEF Sids
  <2>3. LiveIsLinked'
    BY <2>1, <2>2 DEF LiveIsLinked, AnyTypeOK
  <2>4. ClosedIsUnlinked'
    BY <2>1 DEF ClosedIsUnlinked, AnyTypeOK
  <2>5. QED
    BY <2>3, <2>4
<1>6. QED
  BY <1>1, <1>2, <1>3, <1>4, <1>5 DEF CloseStep, Recv

-----------------------------------------------------------------------------
(* Every step preserves the invariant.                                     *)
LEMMA AnyStepPreserves == AnyInv /\ [AnyNext]_anyVars => AnyInv'
<1> SUFFICES ASSUME AnyInv, [AnyNext]_anyVars PROVE AnyInv'
  OBVIOUS
<1>1. ASSUME NEW c \in Callers, Caller(c) PROVE AnyInv'
  <2>1. AnyTypeOK'
    BY <1>1, CallerTypes DEF Caller
  <2>2. CallersPlaced'
    BY <1>1, CallersStayPlaced DEF AnyNext
  <2>3. QED
    BY <1>1, <2>1, <2>2, CallerOwners, CallerLinks DEF AnyInv
<1>2. ASSUME NEW x \in Sessions \X Sids, StreamStep(x) PROVE AnyInv'
  <2>1. AnyTypeOK'
    BY <1>2, StreamTypes DEF StreamStep
  <2>2. CallersPlaced'
    BY <1>2, CallersStayPlaced DEF AnyNext
  <2>3. QED
    BY <1>2, <2>1, <2>2, StreamOwners, StreamLinks DEF AnyInv
<1>3. ASSUME NEW s \in Sessions,
             CloseStep(s) \/ Recv(s) \/ ReadFails(s) \/ WatchdogFires(s)
      PROVE  AnyInv'
  <2>1. AnyTypeOK'
    BY <1>3, SessionTypes, FrameTypes DEF CloseStep, Recv
  <2>2. CallersPlaced'
    BY <1>3, CallersStayPlaced DEF AnyNext
  <2>3. QED
    BY <1>3, <2>1, <2>2, SessionOwners, SessionLinks DEF AnyInv
<1>4. CASE Cleanup
  <2>1. CallersPlaced'
    BY <1>4, CallersStayPlaced DEF AnyNext
  <2>2. UNCHANGED <<stage, streams, stream, finning>>
    BY <1>4 DEF Cleanup, sessionVars, streamVars, serverVars, recvVars
  <2>3. LiveIsLinked' /\ ClosedIsUnlinked'
    BY <2>2 DEF AnyInv, LiveIsLinked, ClosedIsUnlinked
  <2>4. QED
    BY <1>4, <2>1, <2>3, CleanupTypes, CleanupOwners DEF AnyInv
<1>5. CASE UNCHANGED anyVars
  <2>1. AnyTypeOK'
    BY <1>5 DEF AnyInv, AnyTypeOK, anyVars, clientVars, sessionVars, streamVars,
       serverVars, recvVars, callerVars
  <2>2. OneOwner' /\ UnmadeUnused' /\ CallersPlaced'
    BY <1>5 DEF AnyInv, OneOwner, UnmadeUnused, CallersPlaced, Held, Opens,
       anyVars, clientVars, streamVars, callerVars
  <2>3. LiveIsLinked' /\ ClosedIsUnlinked'
    BY <1>5 DEF AnyInv, LiveIsLinked, ClosedIsUnlinked, anyVars, sessionVars,
       streamVars, serverVars, recvVars
  <2>4. QED
    BY <2>1, <2>2, <2>3 DEF AnyInv
<1>6. QED
  BY <1>1, <1>2, <1>3, <1>4, <1>5 DEF AnyNext

(* The invariant of every reachable state.                                 *)
THEOREM AnyInvariant == AnySpec => []AnyInv
BY InitAnyInv, AnyStepPreserves, PTL DEF AnySpec

(* The variables stay in their types: the pool and the sessions taken out  *)
(* of it to be closed hold only sessions that were made.                   *)
THEOREM AnyTypes == AnySpec => []AnyTypeOK
<1>1. AnyInv => AnyTypeOK
  BY DEF AnyInv
<1>2. QED
  BY <1>1, AnyInvariant, PTL

(* Two connections never share a session, and the cleanup never closes one *)
(* that is in use.                                                         *)
THEOREM SessionHasOneUser == AnySpec => []OneUser
<1>1. AnyInv => OneUser
  BY DEF AnyInv, OneOwner, OneUser, Open, Opening, Held, Opens
<1>2. QED
  BY <1>1, AnyInvariant, PTL

(* A session that was closed left no stream open.                          *)
THEOREM CloseLeavesNoStream == AnySpec => []ClosedSessionIsEmpty
<1>1. AnyInv => ClosedSessionIsEmpty
  BY DEF AnyInv, LiveIsLinked, ClosedIsUnlinked, ClosedSessionIsEmpty
<1>2. QED
  BY <1>1, AnyInvariant, PTL
=============================================================================
