---------------------------- MODULE TunnelService ----------------------------
(***************************************************************************)
(* One instance of MsnGuardVpnService while it carries a native VPN        *)
(* session (MASQUE, WireGuard or WARP-on-WARP over the device TUN).  Four  *)
(* threads share its fields:                                               *)
(*   "main"   intents: onStartCommand, onRevoke, onDestroy                 *)
(*   "sched"  ladderScheduler: the watchdog tick, the auto-reconnect timer *)
(*            and the wait of a quick reconnect, one at a time             *)
(*   worker   the single-thread executor that prepares the identity,       *)
(*            establishes the TUN, blocks in NativeCore.start and unwinds  *)
(*   the core, whose events and whose exit come when they like.            *)
(* startTunnel and stopTunnel run on "main" and on "sched" alike.          *)
(*                                                                         *)
(* The core is the slot of TunnelSlot with the two windows of ffi.rs that  *)
(* its caller can see: aether_stop does nothing before RUNNING is set, and *)
(* a stop that comes between RUNNING and the reset of STOP_REQUESTED is    *)
(* erased.  Psiphon, Tor, SHARD, the chain, proxy mode and the             *)
(* exit-country rotation take other branches and are not modelled here.    *)
(***************************************************************************)
EXTENDS Naturals, Sequences

CONSTANTS Preferences,   (* the settings a user may have: records of the     *)
                         (* booleans kill_switch and auto_reconnect          *)
          MaxSessions,   (* bound: sessions claimed                          *)
          MaxIntents,    (* bound: intents the user sends                    *)
          MaxRestarts    (* bound: quick reconnects waiting at one time      *)

ASSUME ServiceAssumption ==
  /\ Preferences \subseteq [kill_switch : BOOLEAN, auto_reconnect : BOOLEAN]
  /\ MaxSessions \in Nat
  /\ MaxIntents \in Nat
  /\ MaxRestarts \in Nat

Threads == {"main", "sched"}

VARIABLES
  prefs,              (* the settings, which stay as they are                *)
  intents,            (* intents sent so far                                 *)
  connected,          (* AtomicBoolean connected: a session owns the service *)
  stopRequested,      (* AtomicBoolean stopRequested                         *)
  userInitiatedStop,  (* AtomicBoolean userInitiatedStop                     *)
  reconnectRequested, (* AtomicBoolean reconnectRequested: the restart latch *)
  killSwitchSealed,   (* AtomicBoolean killSwitchSealed                      *)
  tun,                (* the TUN: none, a session's, or the blocking one     *)
  watchdog,           (* watchdogTask is scheduled                           *)
  retry,              (* reconnectTask is scheduled                          *)
  network,            (* connectivityCallback is registered                  *)
  restarts,           (* quick reconnects scheduled and not begun            *)
  generation,         (* sessionGeneration                                   *)
  captured,           (* the generation a thread in startTunnel claimed      *)
  queue,              (* generations of the sessions given to the worker     *)
  worker,             (* where the worker is in the session's runnable       *)
  mine,               (* the generation that runnable captured               *)
  unexpected,         (* nativeExitWasUnexpected                             *)
  core,               (* the core: off; claimed, RUNNING set and STOP not    *)
                      (* yet cleared; running; stopping, STOP set since      *)
  service,            (* up; ending after stopSelf(); destroyed              *)
  pc                  (* where "main" and "sched" are                        *)

userVars == <<prefs, intents>>
latchVars == <<userInitiatedStop, reconnectRequested>>
sealVars == <<killSwitchSealed, tun>>
taskVars == <<watchdog, retry, network, restarts>>
genVars == <<generation, captured>>
workVars == <<queue, worker, mine, unexpected>>

serviceVars == <<userVars, connected, stopRequested, latchVars, sealVars,
                 taskVars, genVars, workVars, core, service, pc>>

killSwitchArmed == prefs.kill_switch
autoReconnectEnabled == prefs.auto_reconnect
willAutoReconnect == autoReconnectEnabled /\ ~userInitiatedStop

(* Program points.  "start" and "begin" are startTunnel; a point ending in *)
(* "flag" is stopTunnel before it sets stopRequested, one ending in "halt" *)
(* is stopTunnel before NativeCore.stop, named for the handler around it.  *)
MainPoints == {"idle", "start", "begin", "disconnect_flag", "disconnect_halt",
               "restart_flag", "restart_halt", "destroy_flag", "destroy_halt"}

SchedPoints == {"idle", "start", "begin", "polling", "lost",
                "drop", "drop_flag", "drop_halt", "seal", "rearm",
                "off", "off_flag", "off_halt", "off_end"}

WorkerPoints == {"idle", "prepare", "establish", "launch", "native", "exit",
                 "close", "release", "newer", "latch", "decide"}

Generations == 0 .. MaxSessions

ServiceTypeOK ==
  /\ prefs \in Preferences
  /\ intents \in 0 .. MaxIntents
  /\ {connected, stopRequested, userInitiatedStop, reconnectRequested,
      killSwitchSealed, watchdog, retry, network, unexpected} \subseteq BOOLEAN
  /\ tun \in {"none", "session", "blocking"}
  /\ restarts \in 0 .. MaxRestarts
  /\ generation \in Generations
  /\ captured \in [Threads -> Generations]
  /\ queue \in Seq(Generations)
  /\ worker \in WorkerPoints
  /\ mine \in Generations
  /\ core \in {"off", "claimed", "running", "stopping"}
  /\ service \in {"up", "ending", "destroyed"}
  /\ DOMAIN pc = Threads
  /\ pc["main"] \in MainPoints
  /\ pc["sched"] \in SchedPoints

ServiceInit ==
  /\ prefs \in Preferences
  /\ intents = 0
  /\ connected = FALSE
  /\ stopRequested = FALSE
  /\ userInitiatedStop = FALSE
  /\ reconnectRequested = FALSE
  /\ killSwitchSealed = FALSE
  /\ tun = "none"
  /\ watchdog = FALSE
  /\ retry = FALSE
  /\ network = FALSE
  /\ restarts = 0
  /\ generation = 0
  /\ captured = [th \in Threads |-> 0]
  /\ queue = <<>>
  /\ worker = "idle"
  /\ mine = 0
  /\ unexpected = FALSE
  /\ core = "off"
  /\ service = "up"
  /\ pc = [th \in Threads |-> "idle"]

Move(th, from, to) == pc[th] = from /\ pc' = [pc EXCEPT ![th] = to]

(* Mutant: a retry is only armed on a service that is about to end.        *)
ArmsTooLate == retry' = (retry \/ service = "ending")

(* schedule on ladderScheduler, which refuses work once it is shut down.   *)
Arm == retry' = (retry \/ service # "destroyed")

(* stopSelf, which the system answers with onDestroy on the main thread.   *)
StopSelf == service' = IF service = "up" THEN "ending" ELSE service

(* sealWithKillSwitch and rebuildKillSwitchVpn.                            *)
Seal ==
  /\ killSwitchSealed' = (killSwitchSealed \/ killSwitchArmed)
  /\ tun' = IF killSwitchArmed THEN "blocking" ELSE tun

cancelAutoReconnect == retry' = FALSE /\ watchdog' = FALSE /\ network' = FALSE

(* NativeCore.stop, as aether_stop sees the atomics of the core.           *)
NativeStop == core' = IF core = "running" THEN "stopping" ELSE core

-----------------------------------------------------------------------------
(***************************************************************************)
(* startTunnel.                                                            *)
(***************************************************************************)

(* The compareAndSet on connected decides: the loser returns.  The winner  *)
(* bumps the generation, cancels a pending retry and clears the exit note. *)
Claim(th) ==
  /\ \/ /\ connected
        /\ Move(th, "start", "idle")
        /\ UNCHANGED <<connected, genVars, retry, unexpected>>
     \/ /\ ~connected
        /\ Move(th, "start", "begin")
        /\ connected' = TRUE
        /\ generation < MaxSessions
        /\ generation' = generation + 1
        /\ captured' = [captured EXCEPT ![th] = generation']
        /\ retry' = FALSE
        /\ unexpected' = FALSE
  /\ UNCHANGED <<userVars, stopRequested, latchVars, sealVars, watchdog, network,
                 restarts, queue, worker, mine, core, service>>

(* stopRequested is cleared and the session's runnable is handed to the    *)
(* worker, which may still be busy with the previous one.                  *)
Begin(th) ==
  /\ Move(th, "begin", "idle")
  /\ stopRequested' = FALSE
  /\ queue' = IF service = "destroyed" THEN queue ELSE Append(queue, captured[th])
  /\ UNCHANGED <<userVars, connected, latchVars, sealVars, taskVars, genVars,
                 worker, mine, unexpected, core, service>>

(***************************************************************************)
(* stopTunnel on its native path: two stores that other threads see.  The  *)
(* TUN and connected are left to the worker's finally block.               *)
(***************************************************************************)
StopFlag(th, from, to) ==
  /\ Move(th, from, to)
  /\ stopRequested' = TRUE
  /\ watchdog' = FALSE
  /\ UNCHANGED <<userVars, connected, latchVars, sealVars, retry, network,
                 restarts, genVars, workVars, core, service>>

-----------------------------------------------------------------------------
(***************************************************************************)
(* The main thread.                                                        *)
(***************************************************************************)

Intent(to) ==
  /\ service # "destroyed"
  /\ intents < MaxIntents
  /\ intents' = intents + 1
  /\ Move("main", "idle", to)

(* ACTION_CONNECT.                                                         *)
Connect ==
  /\ Intent("start")
  /\ userInitiatedStop' = FALSE
  /\ killSwitchSealed' = FALSE
  /\ UNCHANGED <<prefs, connected, stopRequested, reconnectRequested, tun,
                 taskVars, genVars, workVars, core, service>>

(* ACTION_DISCONNECT, and ACTION_RESET_IDENTITIES and onRevoke, which do   *)
(* the same to this state: the latches, cancelAutoReconnect, stopTunnel.   *)
Disconnect ==
  /\ Intent("disconnect_flag")
  /\ userInitiatedStop' = TRUE
  /\ reconnectRequested' = FALSE
  /\ killSwitchSealed' = FALSE
  /\ cancelAutoReconnect
  /\ UNCHANGED <<prefs, connected, stopRequested, tun, restarts, genVars,
                 workVars, core, service>>

HaltForDisconnect ==
  /\ Move("main", "disconnect_halt", "idle")
  /\ NativeStop
  /\ UNCHANGED <<userVars, connected, stopRequested, latchVars, sealVars,
                 taskVars, genVars, workVars, service>>

(* ACTION_RECONNECT: requestQuickReconnect latches the restart before the  *)
(* teardown that races it, and schedules the wait after it.                *)
Reconnect ==
  /\ connected
  /\ restarts < MaxRestarts
  /\ Intent("restart_flag")
  /\ reconnectRequested' = TRUE
  /\ UNCHANGED <<prefs, connected, stopRequested, userInitiatedStop, sealVars,
                 taskVars, genVars, workVars, core, service>>

(* Mutant: the wait is scheduled twice.                                    *)
HaltForRestartTwice ==
  /\ Move("main", "restart_halt", "idle")
  /\ NativeStop
  /\ restarts' = restarts + 2
  /\ UNCHANGED <<userVars, connected, stopRequested, latchVars, sealVars,
                 watchdog, retry, network, genVars, workVars, service>>

HaltForRestart ==
  /\ Move("main", "restart_halt", "idle")
  /\ NativeStop
  /\ restarts' = restarts + 1
  /\ UNCHANGED <<userVars, connected, stopRequested, latchVars, sealVars,
                 watchdog, retry, network, genVars, workVars, service>>

(* onDestroy, after stopSelf: the timers go, the tunnel is stopped and     *)
(* both executors are shut down, which drops what is queued on them.  The  *)
(* system takes the interface away with the service.                       *)
Destroy ==
  /\ service = "ending"
  /\ Move("main", "idle", "destroy_flag")
  /\ cancelAutoReconnect
  /\ UNCHANGED <<userVars, connected, stopRequested, latchVars, sealVars,
                 restarts, genVars, workVars, core, service>>

HaltForDestroy ==
  /\ Move("main", "destroy_halt", "idle")
  /\ NativeStop
  /\ service' = "destroyed"
  /\ tun' = "none"
  /\ queue' = <<>>
  /\ restarts' = 0
  /\ retry' = FALSE
  /\ UNCHANGED <<userVars, connected, stopRequested, latchVars, killSwitchSealed,
                 watchdog, network, genVars, worker, mine, unexpected>>

(* What the main thread goes on to do once it has begun a handler.         *)
MainStep ==
  \/ Claim("main") \/ Begin("main")
  \/ StopFlag("main", "disconnect_flag", "disconnect_halt")
  \/ StopFlag("main", "restart_flag", "restart_halt")
  \/ StopFlag("main", "destroy_flag", "destroy_halt")
  \/ HaltForDisconnect \/ HaltForRestart \/ HaltForDestroy

-----------------------------------------------------------------------------
(***************************************************************************)
(* ladderScheduler and the system's connectivity callback, which only arms *)
(* its timer with no delay.                                                *)
(***************************************************************************)

onAvailable ==
  /\ network
  /\ willAutoReconnect
  /\ ~connected
  /\ Arm
  /\ UNCHANGED <<userVars, connected, stopRequested, latchVars, sealVars,
                 watchdog, network, restarts, genVars, workVars, core, service, pc>>

(* The reconnect timer fires; its check and startTunnel's are two steps.   *)
RetryFires ==
  /\ retry
  /\ retry' = FALSE
  /\ Move("sched", "idle",
          IF userInitiatedStop \/ connected THEN "idle" ELSE "start")
  /\ UNCHANGED <<userVars, connected, stopRequested, latchVars, sealVars,
                 watchdog, network, restarts, genVars, workVars, core, service>>

(* The scheduled half of requestQuickReconnect waits for the old session.  *)
RestartFires ==
  /\ restarts > 0
  /\ restarts' = restarts - 1
  /\ Move("sched", "idle", "polling")
  /\ UNCHANGED <<userVars, connected, stopRequested, latchVars, sealVars,
                 watchdog, retry, network, genVars, workVars, core, service>>

(* Both the core and connected have let go: restart, unless the user has   *)
(* disconnected meanwhile.                                                 *)
RestartProceeds ==
  /\ core = "off"
  /\ ~connected
  /\ \/ /\ userInitiatedStop
        /\ Move("sched", "polling", "idle")
        /\ reconnectRequested' = FALSE
     \/ /\ ~userInitiatedStop
        /\ Move("sched", "polling", "start")
        /\ UNCHANGED reconnectRequested
  /\ UNCHANGED <<userVars, connected, stopRequested, userInitiatedStop, sealVars,
                 taskVars, genVars, workVars, core, service>>

(* They have not within RECONNECT_CORE_WAIT_MS: the restart is given up.   *)
RestartTimesOut ==
  /\ core # "off" \/ connected
  /\ Move("sched", "polling", "idle")
  /\ reconnectRequested' = FALSE
  /\ UNCHANGED <<userVars, connected, stopRequested, userInitiatedStop, sealVars,
                 taskVars, genVars, workVars, core, service>>

(* A watchdog tick finds the tunnel dead: the core is not running, or no   *)
(* byte has come back for long enough, which may be true of any session.   *)
WatchdogTick ==
  /\ watchdog
  /\ connected
  /\ ~stopRequested
  /\ ~userInitiatedStop
  /\ Move("sched", "idle", "lost")
  /\ UNCHANGED <<userVars, connected, stopRequested, latchVars, sealVars,
                 taskVars, genVars, workVars, core, service>>

(***************************************************************************)
(* onTunnelLost.                                                           *)
(***************************************************************************)

(* A pending restart owns the drop; with auto-reconnect off the session    *)
(* ends; otherwise the latch is set to keep the service for the retry.     *)
onTunnelLost ==
  /\ \/ /\ reconnectRequested
        /\ Move("sched", "lost", "idle")
        /\ UNCHANGED <<reconnectRequested, watchdog>>
     \/ /\ ~reconnectRequested
        /\ ~autoReconnectEnabled
        /\ Move("sched", "lost", "off")
        /\ UNCHANGED <<reconnectRequested, watchdog>>
     \/ /\ ~reconnectRequested
        /\ autoReconnectEnabled
        /\ Move("sched", "lost", "drop")
        /\ reconnectRequested' = TRUE
        /\ watchdog' = FALSE
  /\ UNCHANGED <<userVars, connected, stopRequested, userInitiatedStop, sealVars,
                 retry, network, restarts, genVars, workVars, core, service>>

Disown(from, to) ==
  /\ Move("sched", from, to)
  /\ connected' = FALSE
  /\ UNCHANGED <<userVars, stopRequested, latchVars, sealVars, taskVars, genVars,
                 workVars, core, service>>

HaltLost(from, to) ==
  /\ Move("sched", from, to)
  /\ NativeStop
  /\ UNCHANGED <<userVars, connected, stopRequested, latchVars, sealVars,
                 taskVars, genVars, workVars, service>>

SealDrop ==
  /\ Move("sched", "seal", "rearm")
  /\ Seal
  /\ UNCHANGED <<userVars, connected, stopRequested, latchVars, taskVars,
                 genVars, workVars, core, service>>

(* scheduleAutoReconnect, then registerConnectivityCallback.               *)
Rearm ==
  /\ Move("sched", "rearm", "idle")
  /\ \/ /\ userInitiatedStop
        /\ network' = TRUE
        /\ UNCHANGED retry
     \/ /\ ~userInitiatedStop
        /\ Arm
        /\ network' = (network \/ service # "destroyed")
  /\ UNCHANGED <<userVars, connected, stopRequested, latchVars, sealVars,
                 watchdog, restarts, genVars, workVars, core, service>>

(* Auto-reconnect is off: seal and stay, or end the service.               *)
EndDrop ==
  /\ Move("sched", "off_end", "idle")
  /\ Seal
  /\ \/ killSwitchArmed /\ UNCHANGED service
     \/ ~killSwitchArmed /\ StopSelf
  /\ UNCHANGED <<userVars, connected, stopRequested, latchVars, taskVars,
                 genVars, workVars, core>>

SchedStep ==
  \/ RestartProceeds \/ RestartTimesOut
  \/ onTunnelLost
  \/ Disown("drop", "drop_flag") \/ Disown("off", "off_flag")
  \/ StopFlag("sched", "drop_flag", "drop_halt")
  \/ StopFlag("sched", "off_flag", "off_halt")
  \/ HaltLost("drop_halt", "seal") \/ HaltLost("off_halt", "off_end")
  \/ SealDrop \/ Rearm \/ EndDrop
  \/ Claim("sched") \/ Begin("sched")

-----------------------------------------------------------------------------
(***************************************************************************)
(* The worker: the runnable of one session.                                *)
(***************************************************************************)

Work(from, to) == worker = from /\ worker' = to

Take ==
  /\ Work("idle", "prepare")
  /\ queue # <<>>
  /\ mine' = Head(queue)
  /\ queue' = Tail(queue)
  /\ UNCHANGED <<userVars, connected, stopRequested, latchVars, sealVars,
                 taskVars, genVars, unexpected, core, service, pc>>

(* NativeCore.prepare returns the addresses of the interface.              *)
Prepare ==
  /\ Work("prepare", "establish")
  /\ UNCHANGED <<userVars, connected, stopRequested, latchVars, sealVars,
                 taskVars, genVars, queue, mine, unexpected, core, service, pc>>

(* The TUN is established, in place of a blocking one if there is one, and *)
(* the watchdog is armed for the session.  A scheduler that is shut down   *)
(* refuses it, which the catch block takes for a failed setup.             *)
Establish ==
  /\ tun' = "session"
  /\ \/ /\ service # "destroyed"
        /\ Work("establish", "launch")
        /\ watchdog' = TRUE
        /\ UNCHANGED unexpected
     \/ /\ service = "destroyed"
        /\ Work("establish", "close")
        /\ unexpected' = FALSE
        /\ UNCHANGED watchdog
  /\ UNCHANGED <<userVars, connected, stopRequested, latchVars, killSwitchSealed,
                 retry, network, restarts, genVars, queue, mine, core, service, pc>>

(* prepare or establish throws: the catch block says it was not a drop.    *)
SetupFails ==
  /\ \/ Work("prepare", "close")
     \/ Work("establish", "close")
  /\ unexpected' = FALSE
  /\ UNCHANGED <<userVars, connected, stopRequested, latchVars, sealVars,
                 taskVars, genVars, queue, mine, core, service, pc>>

(* NativeCore.start: RUNNING is set, then STOP_REQUESTED is cleared.       *)
CoreClaims ==
  /\ Work("launch", "native")
  /\ core' = "claimed"
  /\ UNCHANGED <<userVars, connected, stopRequested, latchVars, sealVars,
                 taskVars, genVars, queue, mine, unexpected, service, pc>>

CoreClears ==
  /\ core = "claimed"
  /\ core' = "running"
  /\ UNCHANGED <<userVars, connected, stopRequested, latchVars, sealVars,
                 taskVars, genVars, workVars, service, pc>>

(* The core reports a data plane, the first time or after a reconnect of   *)
(* its own: sendStatus(CONNECTED) ends a quick reconnect.                  *)
CoreReports ==
  /\ core \in {"running", "stopping"}
  /\ reconnectRequested' = FALSE
  /\ UNCHANGED <<userVars, connected, stopRequested, userInitiatedStop, sealVars,
                 taskVars, genVars, workVars, core, service, pc>>

(* The core returns because it was asked to, or because its session died.  *)
CoreReturns(state) ==
  /\ core = state
  /\ core' = "off"
  /\ Work("native", "exit")
  /\ UNCHANGED <<userVars, connected, stopRequested, latchVars, sealVars,
                 taskVars, genVars, queue, mine, unexpected, service, pc>>

(* Back from NativeCore.start: was anybody asking for the end?             *)
NoteExit ==
  /\ Work("exit", "close")
  /\ unexpected' = ~stopRequested
  /\ UNCHANGED <<userVars, connected, stopRequested, latchVars, sealVars,
                 taskVars, genVars, queue, mine, core, service, pc>>

(***************************************************************************)
(* The finally block.  It closes whatever TUN the service holds and clears *)
(* connected before it looks at whose session is current.                  *)
(***************************************************************************)
CloseTun ==
  /\ Work("close", "release")
  /\ tun' = "none"
  /\ UNCHANGED <<userVars, connected, stopRequested, latchVars, killSwitchSealed,
                 taskVars, genVars, queue, mine, unexpected, core, service, pc>>

(* Mutant: only an unexpected exit clears connected.                       *)
ReleaseWhenUnexpected ==
  /\ Work("release", "newer")
  /\ connected' = (connected /\ ~unexpected)
  /\ UNCHANGED <<userVars, stopRequested, latchVars, sealVars, taskVars, genVars,
                 queue, mine, unexpected, core, service, pc>>

ReleaseConnected ==
  /\ Work("release", "newer")
  /\ connected' = FALSE
  /\ UNCHANGED <<userVars, stopRequested, latchVars, sealVars, taskVars, genVars,
                 queue, mine, unexpected, core, service, pc>>

(* A newer session owns the service: hands off.                            *)
CheckNewer ==
  /\ Work("newer", IF mine # generation THEN "idle" ELSE "latch")
  /\ UNCHANGED <<userVars, connected, stopRequested, latchVars, sealVars,
                 taskVars, genVars, queue, mine, unexpected, core, service, pc>>

(* Mutant: the latch is read, not consumed.                                *)
ReadLatch ==
  /\ Work("latch", IF reconnectRequested THEN "idle" ELSE "decide")
  /\ UNCHANGED <<userVars, connected, stopRequested, latchVars, sealVars,
                 taskVars, genVars, queue, mine, unexpected, core, service, pc>>

(* A restart is due: the latch is consumed and the service stays.          *)
ConsumeLatch ==
  /\ Work("latch", IF reconnectRequested THEN "idle" ELSE "decide")
  /\ reconnectRequested' = FALSE
  /\ UNCHANGED <<userVars, connected, stopRequested, userInitiatedStop, sealVars,
                 taskVars, genVars, queue, mine, unexpected, core, service, pc>>

(* The kill switch, else a retry, else the end of the service.             *)
Decide ==
  /\ Work("decide", "idle")
  /\ \/ /\ killSwitchArmed /\ ~stopRequested
        /\ Seal
        /\ UNCHANGED <<unexpected, retry, service>>
     \/ /\ ~killSwitchArmed \/ stopRequested
        /\ unexpected' = FALSE
        /\ IF unexpected /\ willAutoReconnect
           THEN Arm /\ UNCHANGED service
           ELSE StopSelf /\ UNCHANGED retry
        /\ UNCHANGED sealVars
  /\ UNCHANGED <<userVars, connected, stopRequested, latchVars, watchdog, network,
                 restarts, genVars, queue, mine, core, pc>>

(* What the worker does by itself.  A core that nobody stops may run for   *)
(* ever: its death is not among these steps.                               *)
WorkerStep ==
  \/ Take \/ Prepare \/ Establish \/ SetupFails \/ CoreClaims \/ CoreClears
  \/ CoreReturns("stopping") \/ NoteExit \/ CloseTun \/ ReleaseConnected
  \/ CheckNewer \/ ConsumeLatch \/ Decide

-----------------------------------------------------------------------------
ServiceNext ==
  \/ Connect \/ Disconnect \/ Reconnect \/ Destroy \/ MainStep
  \/ RetryFires \/ RestartFires \/ WatchdogTick \/ onAvailable \/ SchedStep
  \/ WorkerStep \/ CoreReports \/ CoreReturns("running")

ServiceSpec == ServiceInit /\ [][ServiceNext]_serviceVars

(* A handler begun is finished, a scheduled task gets its turn on the      *)
(* scheduler's only thread, the worker takes what is queued, and a core    *)
(* that was told to stop returns.  No user acts, no watchdog has to find   *)
(* anything, no network has to come back and no session has to end.        *)
ServiceFairness ==
  /\ WF_serviceVars(Destroy)
  /\ WF_serviceVars(MainStep)
  /\ WF_serviceVars(SchedStep)
  /\ WF_serviceVars(WorkerStep)
  /\ SF_serviceVars(RetryFires)
  /\ SF_serviceVars(RestartFires)

FairServiceSpec == ServiceSpec /\ ServiceFairness

-----------------------------------------------------------------------------
(***************************************************************************)
(* Properties.                                                             *)
(***************************************************************************)

Starting == \E th \in Threads : pc[th] = "begin"

InSession == worker \in WorkerPoints \ {"idle", "newer", "latch", "decide"}

(* connected is never left set by nobody: while it is TRUE some thread is  *)
(* inside startTunnel, a session waits for the worker, or the worker has   *)
(* still to clear it.  Otherwise every later Connect and every retry would *)
(* return from startTunnel's compareAndSet for ever.                       *)
ConnectedIsSomeones ==
  connected /\ service # "destroyed" => Starting \/ queue # <<>> \/ InSession

(* A thread would claim a session that MaxSessions leaves out.             *)
BoundReached ==
  \E th \in Threads : pc[th] = "start" /\ ~connected /\ generation = MaxSessions

(* The restart latch is never stuck: while it is set every exit declines   *)
(* to retry or to end the service, so unless a session goes on running     *)
(* under it, or the user has switched the tunnel off, some exit, report or *)
(* failed restart consumes it, in whatever order the watchdog, the user    *)
(* and the old session's finally block come.                               *)
LatchSettles ==
  reconnectRequested
    ~> \/ ~reconnectRequested
       \/ core = "running"
       \/ userInitiatedStop
       \/ service = "destroyed"
       \/ BoundReached

(* The worker is about to settle a session that ended by itself, and the   *)
(* user wants the tunnel back.                                             *)
Dropped ==
  /\ worker = "decide"
  /\ unexpected
  /\ willAutoReconnect

ComingBack ==
  worker = "prepare" \/ userInitiatedStop \/ service = "destroyed" \/ BoundReached

(* With the kill switch off, a tunnel that died on its own is set up again *)
(* unless the user switches it off.                                        *)
UnsealedDropComesBack == Dropped /\ ~killSwitchArmed ~> ComingBack

-----------------------------------------------------------------------------
(***************************************************************************)
(* What the comments of the service say, which the code does not do.       *)
(***************************************************************************)

(* "and one the user switched off must stay off": a Disconnect while the   *)
(* worker prepares reaches no core, and nothing looks at it afterwards.    *)
StaysOff == userInitiatedStop ~> core = "off" \/ ~userInitiatedStop

(* "The backoff window is the leak the switch exists for": while a retry   *)
(* waits behind the seal and nothing else goes on, the blocking TUN is up. *)
(* The finally block of the dropped session closes it.                     *)
BackoffSealed ==
  /\ killSwitchSealed
  /\ retry
  /\ worker = "idle"
  /\ queue = <<>>
  /\ pc["sched"] = "idle"
  => tun = "blocking"

=============================================================================
