------------------------- MODULE TunnelServiceProofs -------------------------
(***************************************************************************)
(* Proofs about TunnelService, for any settings, any number of sessions    *)
(* and intents, and any number of quick reconnects waiting at one time.    *)
(***************************************************************************)
EXTENDS TunnelService, TLAPS

Restarting == pc["main"] \in {"restart_flag", "restart_halt"}

(* A quick reconnect was only begun with room for its wait, and nobody     *)
(* but the main thread schedules one.                                      *)
RestartHasRoom == Restarting => restarts < MaxRestarts

(* The core is up exactly while the worker is inside NativeCore.start:     *)
(* whichever threads claim, stop and disown sessions, and in whatever      *)
(* order, there is never a second session in the core, and none is left    *)
(* there when the worker goes on to close the TUN under it.                *)
CoreIsTheWorkers == core # "off" <=> worker = "native"

(* onDestroy is the end: it leaves no retry, no waiting quick reconnect and *)
(* no queued session behind, and no thread that is still under way in the  *)
(* service arms or queues one afterwards.                                  *)
DestroyedIsQuiet ==
  service = "destroyed" =>
    pc["main"] = "idle" /\ queue = <<>> /\ ~retry /\ restarts = 0

ServiceIInv ==
  /\ ServiceTypeOK
  /\ DestroyedIsQuiet
  /\ RestartHasRoom
  /\ CoreIsTheWorkers
  /\ ConnectedIsSomeones

-----------------------------------------------------------------------------
USE DEF userVars, latchVars, sealVars, taskVars, genVars, workVars, Threads

(* The service starts with the core off and nobody connected.              *)
LEMMA ServiceStarts == ServiceInit => ServiceIInv
<1> SUFFICES ASSUME ServiceInit PROVE ServiceIInv
  OBVIOUS
<1>1. 0 \in Generations /\ 0 \in 0..MaxIntents /\ 0 \in 0..MaxRestarts
  BY ServiceAssumption DEF Generations
<1>2. ServiceTypeOK
  <2>1. /\ DOMAIN pc = Threads /\ pc["main"] \in MainPoints
        /\ pc["sched"] \in SchedPoints /\ worker \in WorkerPoints
    BY DEF ServiceInit, MainPoints, SchedPoints, WorkerPoints
  <2>2. captured \in [Threads -> Generations] /\ queue \in Seq(Generations)
    BY <1>1 DEF ServiceInit
  <2>3. {connected, stopRequested, userInitiatedStop, reconnectRequested,
         killSwitchSealed, watchdog, retry, network, unexpected} \subseteq BOOLEAN
    BY DEF ServiceInit
  <2>4. QED
    BY <1>1, <2>1, <2>2, <2>3 DEF ServiceInit, ServiceTypeOK
<1>3. QED
  BY <1>2 DEF ServiceInit, ServiceIInv, RestartHasRoom, Restarting,
              DestroyedIsQuiet, CoreIsTheWorkers, ConnectedIsSomeones

(* What the steps have in common: a thread of the service that moves from  *)
(* one of its points to another leaves the other thread where it is.       *)
LEMMA MoveKeeps ==
  ASSUME ServiceTypeOK, NEW th \in Threads, NEW from, NEW to, Move(th, from, to),
         th = "main" => to \in MainPoints, th = "sched" => to \in SchedPoints
  PROVE  /\ DOMAIN pc' = Threads
         /\ pc'["main"] \in MainPoints
         /\ pc'["sched"] \in SchedPoints
         /\ pc[th] = from
         /\ \A t \in Threads : pc'[t] = IF t = th THEN to ELSE pc[t]
  BY DEF ServiceTypeOK, Move

-----------------------------------------------------------------------------
(* startTunnel.                                                            *)
LEMMA StartKeeps ==
  ASSUME ServiceIInv, NEW th \in Threads, Claim(th) \/ Begin(th)
  PROVE  ServiceIInv'
<1> USE ServiceAssumption
<1>1. CASE Claim(th)
  <2>1. PICK to \in {"idle", "begin"} : Move(th, "start", to)
    BY <1>1 DEF Claim
  <2>2. /\ DOMAIN pc' = Threads
        /\ pc'["main"] \in MainPoints
        /\ pc'["sched"] \in SchedPoints
        /\ pc[th] = "start"
        /\ \A t \in Threads : pc'[t] = IF t = th THEN to ELSE pc[t]
    BY <2>1, MoveKeeps DEF ServiceIInv, MainPoints, SchedPoints
  <2>3. ServiceTypeOK'
    <3>1. generation' \in Generations /\ captured' \in [Threads -> Generations]
      BY <1>1 DEF ServiceIInv, ServiceTypeOK, Claim, Generations
    <3>2. {connected', retry', unexpected'} \subseteq BOOLEAN
      BY <1>1 DEF ServiceIInv, ServiceTypeOK, Claim
    <3>3. QED
      BY <1>1, <2>2, <3>1, <3>2 DEF ServiceIInv, ServiceTypeOK, Claim
  <2>4. RestartHasRoom' /\ CoreIsTheWorkers'
    BY <1>1, <2>2 DEF ServiceIInv, RestartHasRoom, Restarting, CoreIsTheWorkers, Claim
  <2>5. ConnectedIsSomeones'
    <3>1. CASE connected
      BY <1>1, <2>2, <3>1 DEF ServiceIInv, ConnectedIsSomeones, Starting, InSession, Claim
    <3>2. CASE ~connected
      <4>1. Move(th, "start", "begin")
        BY <1>1, <3>2 DEF Claim
      <4>2. pc'[th] = "begin"
        BY <4>1 DEF ServiceIInv, ServiceTypeOK, Move
      <4>3. QED
        BY <4>2 DEF ConnectedIsSomeones, Starting
    <3>3. QED
      BY <3>1, <3>2
  <2>6. DestroyedIsQuiet'
    BY <1>1, <2>2 DEF ServiceIInv, DestroyedIsQuiet, Claim
  <2>7. QED
    BY <2>3, <2>4, <2>5, <2>6 DEF ServiceIInv
<1>2. CASE Begin(th)
  <2>1. /\ DOMAIN pc' = Threads
        /\ pc'["main"] \in MainPoints
        /\ pc'["sched"] \in SchedPoints
        /\ \A t \in Threads : pc'[t] = IF t = th THEN "idle" ELSE pc[t]
    BY <1>2, MoveKeeps DEF ServiceIInv, MainPoints, SchedPoints, Begin
  <2>2. queue' \in Seq(Generations)
    BY <1>2 DEF ServiceIInv, ServiceTypeOK, Begin
  <2>3. ServiceTypeOK'
    BY <1>2, <2>1, <2>2 DEF ServiceIInv, ServiceTypeOK, Begin
  <2>4. RestartHasRoom' /\ CoreIsTheWorkers'
    BY <1>2, <2>1 DEF ServiceIInv, RestartHasRoom, Restarting, CoreIsTheWorkers, Begin
  <2>5. service # "destroyed" => queue' # <<>>
    BY <1>2 DEF ServiceIInv, ServiceTypeOK, Begin
  <2>6. ConnectedIsSomeones'
    BY <1>2, <2>5 DEF ConnectedIsSomeones, Begin
  <2>7. DestroyedIsQuiet'
    BY <1>2, <2>1 DEF ServiceIInv, DestroyedIsQuiet, Begin
  <2>8. QED
    BY <2>3, <2>4, <2>6, <2>7 DEF ServiceIInv
<1>3. QED
  BY <1>1, <1>2

(* A thread moves and everything ConnectedIsSomeones is about stays, but   *)
(* that connected may be cleared or the service be destroyed.              *)
LEMMA OthersStay ==
  ASSUME ServiceIInv, NEW th \in Threads, NEW from, NEW to,
         Move(th, from, to), from # "begin",
         connected' => connected, queue' = queue, InSession' = InSession,
         service = "destroyed" => service' = "destroyed"
  PROVE  ConnectedIsSomeones'
<1>1. Starting => Starting'
  BY DEF ServiceIInv, ServiceTypeOK, Starting, Move
<1>2. QED
  BY <1>1 DEF ServiceIInv, ConnectedIsSomeones

(* stopTunnel, from every handler that calls it.                           *)
LEMMA StopFlagKeeps ==
  ASSUME ServiceIInv,
         \/ StopFlag("main", "disconnect_flag", "disconnect_halt")
         \/ StopFlag("main", "restart_flag", "restart_halt")
         \/ StopFlag("main", "destroy_flag", "destroy_halt")
         \/ StopFlag("sched", "drop_flag", "drop_halt")
         \/ StopFlag("sched", "off_flag", "off_halt")
  PROVE  ServiceIInv'
<1>1. PICK th \in Threads, from \in MainPoints \cup SchedPoints,
           to \in MainPoints \cup SchedPoints :
        /\ StopFlag(th, from, to)
        /\ from # "begin"
        /\ th = "main" => to \in MainPoints
        /\ th = "sched" => to \in SchedPoints
        /\ th = "main" /\ to = "restart_halt" => from = "restart_flag"
        /\ to # "restart_flag" /\ from # "idle"
  BY DEF MainPoints, SchedPoints
<1>2. Move(th, from, to)
  BY <1>1 DEF StopFlag
<1>3. /\ DOMAIN pc' = Threads
      /\ pc'["main"] \in MainPoints
      /\ pc'["sched"] \in SchedPoints
      /\ pc[th] = from
      /\ \A t \in Threads : pc'[t] = IF t = th THEN to ELSE pc[t]
  BY <1>1, <1>2, MoveKeeps DEF ServiceIInv
<1>4. ServiceTypeOK'
  BY <1>1, <1>3 DEF ServiceIInv, ServiceTypeOK, StopFlag
<1>5. RestartHasRoom' /\ CoreIsTheWorkers'
  BY <1>1, <1>3 DEF ServiceIInv, RestartHasRoom, Restarting, CoreIsTheWorkers, StopFlag
<1>6. ConnectedIsSomeones'
  BY <1>1, <1>2, OthersStay DEF StopFlag, InSession
<1>7. DestroyedIsQuiet'
  BY <1>1, <1>3 DEF ServiceIInv, DestroyedIsQuiet, StopFlag
<1>8. QED
  BY <1>4, <1>5, <1>6, <1>7 DEF ServiceIInv

-----------------------------------------------------------------------------
(* The intents and the rest of their handlers on the main thread.          *)
LEMMA MainKeeps ==
  ASSUME ServiceIInv,
         \/ Connect \/ Disconnect \/ Reconnect \/ Destroy
         \/ HaltForDisconnect \/ HaltForRestart \/ HaltForDestroy
  PROVE  ServiceIInv'
<1> USE ServiceAssumption
<1>1. PICK from, to \in MainPoints :
        /\ Move("main", from, to)
        /\ from # "begin"
        /\ to \in {"restart_flag", "restart_halt"} => Reconnect
        /\ HaltForRestart => from = "restart_halt"
  BY DEF Connect, Disconnect, Reconnect, Destroy, Intent, HaltForDisconnect,
         HaltForRestart, HaltForDestroy, MainPoints
<1>2. /\ DOMAIN pc' = Threads
      /\ pc'["main"] \in MainPoints
      /\ pc'["sched"] \in SchedPoints
      /\ pc["main"] = from
      /\ pc'["main"] = to
  BY <1>1, MoveKeeps DEF ServiceIInv
<1>3. ServiceTypeOK'
  <2>1. CASE Connect \/ Disconnect \/ Reconnect \/ Destroy
    <3>1. intents' \in 0..MaxIntents
      BY <2>1 DEF ServiceIInv, ServiceTypeOK, Connect, Disconnect, Reconnect, Destroy, Intent
    <3>2. QED
      BY <1>2, <2>1, <3>1 DEF ServiceIInv, ServiceTypeOK, Connect, Disconnect, Reconnect,
                 Destroy, cancelAutoReconnect
  <2>2. CASE HaltForDisconnect
    BY <1>2, <2>2 DEF ServiceIInv, ServiceTypeOK, HaltForDisconnect, NativeStop
  <2>3. CASE HaltForRestart
    <3>1. restarts' \in 0..MaxRestarts
      BY <1>1, <1>2, <2>3
      DEF ServiceIInv, ServiceTypeOK, HaltForRestart, RestartHasRoom, Restarting
    <3>2. QED
      BY <1>2, <2>3, <3>1 DEF ServiceIInv, ServiceTypeOK, HaltForRestart, NativeStop
  <2>4. CASE HaltForDestroy
    <3>1. restarts' \in 0..MaxRestarts /\ queue' \in Seq(Generations)
      BY <2>4 DEF HaltForDestroy
    <3>2. QED
      BY <1>2, <2>4, <3>1 DEF ServiceIInv, ServiceTypeOK, HaltForDestroy, NativeStop
  <2>5. QED
    BY <2>1, <2>2, <2>3, <2>4
<1>4. RestartHasRoom'
  <2>1. CASE Reconnect
    BY <2>1 DEF ServiceIInv, RestartHasRoom, Reconnect
  <2>2. CASE ~Reconnect
    BY <1>1, <1>2, <2>2 DEF RestartHasRoom, Restarting
  <2>3. QED
    BY <2>1, <2>2
<1>5. CoreIsTheWorkers'
  BY DEF ServiceIInv, CoreIsTheWorkers, Connect, Disconnect, Reconnect, Destroy,
         HaltForDisconnect, HaltForRestart, HaltForDestroy, NativeStop
<1>6. ConnectedIsSomeones'
  <2>1. CASE HaltForDestroy
    BY <2>1 DEF HaltForDestroy, ConnectedIsSomeones
  <2>2. CASE ~HaltForDestroy
    <3>1. /\ connected' = connected /\ queue' = queue /\ InSession' = InSession
          /\ service' = service
      BY <2>2 DEF Connect, Disconnect, Reconnect, Destroy, HaltForDisconnect,
                  HaltForRestart, InSession
    <3>2. QED
      BY <1>1, <3>1, OthersStay
  <2>3. QED
    BY <2>1, <2>2
<1>7. DestroyedIsQuiet'
  <2>1. CASE HaltForDestroy
    BY <1>2, <2>1 DEF HaltForDestroy, DestroyedIsQuiet, Move
  <2>2. CASE ~HaltForDestroy
    <3>1. service' = service /\ service # "destroyed"
      BY <1>2, <2>2 DEF ServiceIInv, DestroyedIsQuiet, Connect, Disconnect, Reconnect,
        Destroy, Intent, HaltForDisconnect, HaltForRestart, Move
    <3>2. QED
      BY <3>1 DEF DestroyedIsQuiet
  <2>3. QED
    BY <2>1, <2>2
<1>8. QED
  BY <1>3, <1>4, <1>5, <1>6, <1>7 DEF ServiceIInv

-----------------------------------------------------------------------------
(* ladderScheduler and the connectivity callback.                          *)
LEMMA TimersKeep ==
  ASSUME ServiceIInv,
         \/ RetryFires \/ RestartFires \/ RestartProceeds \/ RestartTimesOut
         \/ WatchdogTick \/ onTunnelLost \/ onAvailable
  PROVE  ServiceIInv'
<1> USE ServiceAssumption
<1>1. CASE onAvailable
  <2>1. UNCHANGED <<userVars, connected, stopRequested, latchVars, sealVars, watchdog,
                    network, restarts, genVars, workVars, core, service, pc>>
    BY <1>1 DEF onAvailable
  <2>2. retry' \in BOOLEAN /\ (service = "destroyed" => retry' = retry)
    BY <1>1 DEF onAvailable, Arm, ServiceIInv, ServiceTypeOK
  <2>3. QED
    BY <2>1, <2>2 DEF ServiceIInv, ServiceTypeOK, RestartHasRoom, Restarting,
      DestroyedIsQuiet, CoreIsTheWorkers, ConnectedIsSomeones, Starting, InSession
<1>2. CASE ~onAvailable
  <2>1. PICK from, to \in SchedPoints : Move("sched", from, to) /\ from # "begin"
    BY <1>2 DEF RetryFires, RestartFires, RestartProceeds, RestartTimesOut,
                WatchdogTick, onTunnelLost, SchedPoints
  <2>2. /\ DOMAIN pc' = Threads
        /\ pc'["main"] \in MainPoints
        /\ pc'["sched"] \in SchedPoints
        /\ pc'["main"] = pc["main"]
    BY <2>1, MoveKeeps DEF ServiceIInv
  <2>3. /\ UNCHANGED <<userVars, connected, stopRequested, userInitiatedStop, sealVars,
                       network, genVars, workVars, core, service>>
    BY <1>2 DEF RetryFires, RestartFires, RestartProceeds, RestartTimesOut,
                WatchdogTick, onTunnelLost
  <2>4. {reconnectRequested', watchdog', retry'} \subseteq BOOLEAN
    <3>1. {reconnectRequested, watchdog, retry} \subseteq BOOLEAN
      BY DEF ServiceIInv, ServiceTypeOK
    <3>2. QED
      BY <1>2, <3>1 DEF RetryFires, RestartFires, RestartProceeds, RestartTimesOut,
                  WatchdogTick, onTunnelLost
  <2>5. restarts' \in 0..MaxRestarts /\ restarts' <= restarts
    <3>1. restarts \in 0..MaxRestarts
      BY DEF ServiceIInv, ServiceTypeOK
    <3>2. QED
      BY <1>2, <3>1 DEF RetryFires, RestartFires, RestartProceeds, RestartTimesOut,
                  WatchdogTick, onTunnelLost
  <2>6. ServiceTypeOK'
    BY <2>2, <2>3, <2>4, <2>5 DEF ServiceIInv, ServiceTypeOK
  <2>7. RestartHasRoom' /\ CoreIsTheWorkers'
    BY <2>2, <2>3, <2>5 DEF ServiceIInv, ServiceTypeOK, RestartHasRoom, Restarting, CoreIsTheWorkers
  <2>8. ConnectedIsSomeones'
    BY <2>1, <2>3, OthersStay DEF InSession
  <2>9. DestroyedIsQuiet'
    <3>1. retry' => retry
      BY <1>2 DEF RetryFires, RestartFires, RestartProceeds, RestartTimesOut,
                  WatchdogTick, onTunnelLost
    <3>2. QED
      BY <2>2, <2>3, <2>5, <3>1 DEF ServiceIInv, DestroyedIsQuiet
  <2>10. QED
    BY <2>6, <2>7, <2>8, <2>9 DEF ServiceIInv
<1>3. QED
  BY <1>1, <1>2

(* The end of a session that ended by itself: the worker disowns it, seals *)
(* or rearms.                                                              *)
LEMMA DropKeeps ==
  ASSUME ServiceIInv,
         \/ Disown("drop", "drop_flag") \/ Disown("off", "off_flag")
         \/ HaltLost("drop_halt", "seal") \/ HaltLost("off_halt", "off_end")
         \/ SealDrop \/ Rearm \/ EndDrop
  PROVE  ServiceIInv'
<1>1. PICK from, to \in SchedPoints : Move("sched", from, to) /\ from # "begin"
  BY DEF Disown, HaltLost, SealDrop, Rearm, EndDrop, SchedPoints
<1>2. /\ DOMAIN pc' = Threads
      /\ pc'["main"] \in MainPoints
      /\ pc'["sched"] \in SchedPoints
      /\ pc'["main"] = pc["main"]
  BY <1>1, MoveKeeps DEF ServiceIInv
<1>3. /\ UNCHANGED <<userVars, stopRequested, latchVars, watchdog, restarts, genVars,
                     workVars>>
      /\ connected' => connected
  BY DEF Disown, HaltLost, SealDrop, Rearm, EndDrop
<1>4. {connected', killSwitchSealed', retry', network'} \subseteq BOOLEAN
  <2>1. {connected, killSwitchSealed, retry, network} \subseteq BOOLEAN
    BY DEF ServiceIInv, ServiceTypeOK
  <2>2. QED
    BY <2>1 DEF Disown, HaltLost, SealDrop, Rearm, EndDrop, Seal, Arm
<1>5. /\ tun' \in {"none", "session", "blocking"}
      /\ core' \in {"off", "claimed", "running", "stopping"}
      /\ service' \in {"up", "ending", "destroyed"}
      /\ service = "destroyed" => service' = "destroyed"
      /\ core' = "off" <=> core = "off"
  <2>1. /\ tun \in {"none", "session", "blocking"}
        /\ core \in {"off", "claimed", "running", "stopping"}
        /\ service \in {"up", "ending", "destroyed"}
    BY DEF ServiceIInv, ServiceTypeOK
  <2>2. QED
    BY <2>1 DEF Disown, HaltLost, SealDrop, Rearm, EndDrop, Seal, StopSelf, NativeStop
<1>6. ServiceTypeOK'
  BY <1>2, <1>3, <1>4, <1>5 DEF ServiceIInv, ServiceTypeOK
<1>7. RestartHasRoom' /\ CoreIsTheWorkers'
  BY <1>2, <1>3, <1>5 DEF ServiceIInv, RestartHasRoom, Restarting, CoreIsTheWorkers
<1>8. ConnectedIsSomeones'
  BY <1>1, <1>3, <1>5, OthersStay DEF InSession
<1>9. DestroyedIsQuiet'
  <2>1. service' = "destroyed" => service = "destroyed"
    BY DEF Disown, HaltLost, SealDrop, Rearm, EndDrop, StopSelf
  <2>2. service = "destroyed" /\ retry' => retry
    BY DEF Disown, HaltLost, SealDrop, Rearm, EndDrop, Arm
  <2>3. QED
    BY <1>2, <1>3, <2>1, <2>2 DEF ServiceIInv, DestroyedIsQuiet
<1>10. QED
  BY <1>6, <1>7, <1>8, <1>9 DEF ServiceIInv

-----------------------------------------------------------------------------
(* The worker's runnable, and what the core does by itself.                *)
LEMMA WorkerKeeps ==
  ASSUME ServiceIInv,
         \/ Take \/ Prepare \/ Establish \/ SetupFails \/ NoteExit \/ CloseTun
         \/ ReleaseConnected \/ CheckNewer \/ ConsumeLatch \/ Decide
  PROVE  ServiceIInv'
<1>1. PICK from, to \in WorkerPoints \ {"native"} : Work(from, to)
  BY DEF Take, Prepare, Establish, SetupFails, NoteExit, CloseTun, ReleaseConnected,
         CheckNewer, ConsumeLatch, Decide, Work, WorkerPoints
<1>2. UNCHANGED <<userVars, stopRequested, userInitiatedStop, network, restarts, genVars,
                  core, pc>>
  BY DEF Take, Prepare, Establish, SetupFails, NoteExit, CloseTun, ReleaseConnected,
         CheckNewer, ConsumeLatch, Decide
<1>3. {connected', reconnectRequested', killSwitchSealed', watchdog', retry',
       unexpected'} \subseteq BOOLEAN
  <2>1. {connected, stopRequested, reconnectRequested, killSwitchSealed, watchdog, retry,
         unexpected} \subseteq BOOLEAN
    BY DEF ServiceIInv, ServiceTypeOK
  <2>2. CASE Take \/ Prepare \/ Establish \/ SetupFails \/ NoteExit \/ CloseTun
    BY <2>1, <2>2 DEF Take, Prepare, Establish, SetupFails, NoteExit, CloseTun
  <2>3. CASE ReleaseConnected \/ CheckNewer \/ ConsumeLatch
    BY <2>1, <2>3 DEF ReleaseConnected, CheckNewer, ConsumeLatch
  <2>4. CASE Decide
    BY <2>1, <2>4 DEF Decide, Seal, Arm
  <2>5. QED
    BY <2>2, <2>3, <2>4
<1>4. /\ queue' \in Seq(Generations) /\ mine' \in Generations
      /\ tun' \in {"none", "session", "blocking"}
      /\ service' \in {"up", "ending", "destroyed"}
  <2>1. /\ queue \in Seq(Generations) /\ mine \in Generations
        /\ tun \in {"none", "session", "blocking"}
        /\ service \in {"up", "ending", "destroyed"}
    BY DEF ServiceIInv, ServiceTypeOK
  <2>2. CASE Take
    BY <2>1, <2>2 DEF Take
  <2>3. CASE ~Take
    BY <2>1, <2>3 DEF Prepare, Establish, SetupFails, NoteExit, CloseTun,
                      ReleaseConnected, CheckNewer, ConsumeLatch, Decide, Seal, StopSelf
  <2>4. QED
    BY <2>2, <2>3
<1>5. ServiceTypeOK'
  BY <1>1, <1>2, <1>3, <1>4 DEF ServiceIInv, ServiceTypeOK, Work
<1>6. RestartHasRoom' /\ CoreIsTheWorkers'
  BY <1>1, <1>2 DEF ServiceIInv, RestartHasRoom, Restarting, CoreIsTheWorkers, Work
<1>7. ConnectedIsSomeones'
  <2>1. CASE ReleaseConnected
    BY <2>1 DEF ReleaseConnected, ConnectedIsSomeones
  <2>2. CASE \/ Take \/ Prepare \/ Establish \/ SetupFails \/ NoteExit \/ CloseTun
    BY <2>2 DEF Take, Prepare, Establish, SetupFails, NoteExit, CloseTun, Work,
                ConnectedIsSomeones, InSession, WorkerPoints
  <2>3. CASE CheckNewer \/ ConsumeLatch \/ Decide
    <3>1. ~InSession /\ connected' = connected /\ queue' = queue
      BY <2>3 DEF CheckNewer, ConsumeLatch, Decide, Work, InSession
    <3>2. service = "destroyed" => service' = "destroyed"
      BY <2>3 DEF CheckNewer, ConsumeLatch, Decide, StopSelf
    <3>3. Starting' = Starting
      BY <1>2 DEF Starting
    <3>4. QED
      BY <3>1, <3>2, <3>3 DEF ServiceIInv, ConnectedIsSomeones
  <2>4. QED
    BY <2>1, <2>2, <2>3
<1>8. DestroyedIsQuiet'
  <2>1. service' = "destroyed" => service = "destroyed"
    BY DEF Take, Prepare, Establish, SetupFails, NoteExit, CloseTun, ReleaseConnected,
           CheckNewer, ConsumeLatch, Decide, StopSelf
  <2>2. service = "destroyed" /\ retry' => retry
    BY DEF Take, Prepare, Establish, SetupFails, NoteExit, CloseTun, ReleaseConnected,
           CheckNewer, ConsumeLatch, Decide, Arm
  <2>3. queue = <<>> => queue' = queue
    BY DEF Take, Prepare, Establish, SetupFails, NoteExit, CloseTun, ReleaseConnected,
           CheckNewer, ConsumeLatch, Decide
  <2>4. QED
    BY <1>2, <2>1, <2>2, <2>3 DEF ServiceIInv, DestroyedIsQuiet
<1>9. QED
  BY <1>5, <1>6, <1>7, <1>8 DEF ServiceIInv

(* The core claims, clears, reports and returns by itself.                 *)
LEMMA CoreKeeps ==
  ASSUME ServiceIInv,
         \/ CoreClaims \/ CoreClears \/ CoreReports
         \/ CoreReturns("stopping") \/ CoreReturns("running")
  PROVE  ServiceIInv'
<1>1. UNCHANGED <<userVars, connected, stopRequested, userInitiatedStop, sealVars,
                  taskVars, genVars, queue, mine, unexpected, service, pc>>
  BY DEF CoreClaims, CoreClears, CoreReports, CoreReturns
<1>2. /\ reconnectRequested' \in BOOLEAN /\ worker' \in WorkerPoints
      /\ core' \in {"off", "claimed", "running", "stopping"}
  BY DEF ServiceIInv, ServiceTypeOK, CoreClaims, CoreClears, CoreReports, CoreReturns,
         Work, WorkerPoints
<1>3. ServiceTypeOK'
  BY <1>1, <1>2 DEF ServiceIInv, ServiceTypeOK
<1>4. RestartHasRoom' /\ CoreIsTheWorkers'
  BY <1>1 DEF ServiceIInv, RestartHasRoom, Restarting, CoreIsTheWorkers, CoreClaims,
              CoreClears, CoreReports, CoreReturns, Work
<1>5. InSession' = InSession
  BY DEF CoreClaims, CoreClears, CoreReports, CoreReturns, Work, InSession, WorkerPoints
<1>6. ConnectedIsSomeones'
  BY <1>1, <1>5 DEF ServiceIInv, ConnectedIsSomeones, Starting
<1>7. DestroyedIsQuiet'
  BY <1>1 DEF ServiceIInv, DestroyedIsQuiet
<1>8. QED
  BY <1>3, <1>4, <1>6, <1>7 DEF ServiceIInv

-----------------------------------------------------------------------------
(* Every step, one lemma for each thread.                                  *)
LEMMA ServiceSteps == ServiceIInv /\ [ServiceNext]_serviceVars => ServiceIInv'
<1> SUFFICES ASSUME ServiceIInv, [ServiceNext]_serviceVars PROVE ServiceIInv'
  OBVIOUS
<1>1. CASE Connect \/ Disconnect \/ Reconnect \/ Destroy
  BY <1>1, MainKeeps
<1>2. CASE MainStep
  <2>1. CASE HaltForDisconnect \/ HaltForRestart \/ HaltForDestroy
    BY <2>1, MainKeeps
  <2>2. QED
    BY <1>2, <2>1, StartKeeps, StopFlagKeeps DEF MainStep
<1>3. CASE RetryFires \/ RestartFires \/ WatchdogTick \/ onAvailable
  BY <1>3, TimersKeep
<1>4. CASE SchedStep
  <2>1. CASE RestartProceeds \/ RestartTimesOut \/ onTunnelLost
    BY <2>1, TimersKeep
  <2>2. CASE \/ Disown("drop", "drop_flag") \/ Disown("off", "off_flag")
             \/ HaltLost("drop_halt", "seal") \/ HaltLost("off_halt", "off_end")
             \/ SealDrop \/ Rearm \/ EndDrop
    BY <2>2, DropKeeps
  <2>3. QED
    BY <1>4, <2>1, <2>2, StartKeeps, StopFlagKeeps DEF SchedStep
<1>5. CASE WorkerStep
  BY <1>5, WorkerKeeps, CoreKeeps DEF WorkerStep
<1>6. CASE CoreReports \/ CoreReturns("running")
  BY <1>6, CoreKeeps
<1>7. CASE UNCHANGED serviceVars
  BY <1>7 DEF serviceVars, ServiceIInv, ServiceTypeOK, RestartHasRoom, Restarting,
              DestroyedIsQuiet, CoreIsTheWorkers, ConnectedIsSomeones, Starting, InSession
<1>8. QED
  BY <1>1, <1>2, <1>3, <1>4, <1>5, <1>6, <1>7 DEF ServiceNext

(* The inductive invariant holds in every reachable state of the service.  *)
THEOREM ServiceInvariant == ServiceSpec => []ServiceIInv
<1>1. QED
  BY ServiceStarts, ServiceSteps, PTL DEF ServiceSpec

(* The service's fields have their types in every reachable state.         *)
THEOREM ServiceTypeCorrect == ServiceSpec => []ServiceTypeOK
<1>1. ServiceIInv => ServiceTypeOK
  BY DEF ServiceIInv
<1>2. QED
  BY <1>1, ServiceInvariant, PTL

(* connected is never left set by nobody.                                  *)
THEOREM ConnectedHasAnOwner == ServiceSpec => []ConnectedIsSomeones
<1>1. ServiceIInv => ConnectedIsSomeones
  BY DEF ServiceIInv
<1>2. QED
  BY <1>1, ServiceInvariant, PTL

(* The core is up exactly while the worker waits in NativeCore.start.      *)
THEOREM CoreHasOneSession == ServiceSpec => []CoreIsTheWorkers
<1>1. ServiceIInv => CoreIsTheWorkers
  BY DEF ServiceIInv
<1>2. QED
  BY <1>1, ServiceInvariant, PTL

(* Nothing is armed or queued on a service that onDestroy has left.        *)
THEOREM DestroyedStaysQuiet == ServiceSpec => []DestroyedIsQuiet
<1>1. ServiceIInv => DestroyedIsQuiet
  BY DEF ServiceIInv
<1>2. QED
  BY <1>1, ServiceInvariant, PTL
=============================================================================
