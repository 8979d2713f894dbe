----------------------------- MODULE NativeCore -----------------------------
(***************************************************************************)
(* The lifecycle of the Aether core behind its C interface                 *)
(* (src/core/aether/src/ffi.rs): the process-wide atomics RUNNING, READY   *)
(* and STOP_REQUESTED and the Notify that carries a stop, as any number of *)
(* Java threads call aether_start_json* and aether_stop at the same time.  *)
(*                                                                         *)
(* A session is the call of aether_start_json_inner made by one thread.    *)
(* Every atomic access of the source is a step of its own.  What the       *)
(* session does inside crate::start is left open here: it may report       *)
(* "connected" any number of times, and return, fail or panic at any time. *)
(* LAST_ERROR, LAST_LOG and the log ring are wording and are left out.     *)
(***************************************************************************)

CONSTANTS Starters,   (* threads that call aether_start_json*                *)
          Stoppers    (* threads that call aether_stop                       *)

VARIABLES
  running,        (* RUNNING                                                 *)
  ready,          (* READY                                                   *)
  stopRequested,  (* STOP_REQUESTED                                          *)
  pc,             (* where each starter is in aether_start_json_inner        *)
  task,           (* the session's spawned tunnel task: idle; inside         *)
                  (* mark_ready, between the READY store and the event; or   *)
                  (* done, when the runtime will not poll it again           *)
  waiter,         (* where the session is in wait_for_stop                   *)
  notified,       (* the Notified future of wait_for_stop has been woken     *)
  announced,      (* the session has emitted the "connected" status          *)
  stopPc          (* where each stopper is in aether_stop                    *)

coreVars == <<running, ready, stopRequested, pc, task, waiter, notified,
              announced, stopPc>>

(* The program points of a starter that owns RUNNING: from the successful  *)
(* compare_exchange to the first store of RunningGuard::drop.              *)
Owning == {"claimed", "cleared", "build", "run", "unwind", "release"}

StartPoints == {"idle", "released"} \cup Owning

Owns(t) == pc[t] \in Owning

CoreTypeOK ==
  /\ running \in BOOLEAN
  /\ ready \in BOOLEAN
  /\ stopRequested \in BOOLEAN
  /\ pc \in [Starters -> StartPoints]
  /\ task \in [Starters -> {"idle", "emit", "done"}]
  /\ waiter \in [Starters -> {"loop", "created", "waiting"}]
  /\ notified \in [Starters -> BOOLEAN]
  /\ announced \in [Starters -> BOOLEAN]
  /\ stopPc \in [Stoppers -> {"idle", "store", "notify"}]

CoreInit ==
  /\ running = FALSE
  /\ ready = FALSE
  /\ stopRequested = FALSE
  /\ pc = [t \in Starters |-> "idle"]
  /\ task = [t \in Starters |-> "idle"]
  /\ waiter = [t \in Starters |-> "loop"]
  /\ notified = [t \in Starters |-> FALSE]
  /\ announced = [t \in Starters |-> FALSE]
  /\ stopPc = [s \in Stoppers |-> "idle"]

-----------------------------------------------------------------------------
(***************************************************************************)
(* aether_start_json_inner.                                                *)
(***************************************************************************)

(* Mutant: RUNNING is stored without looking at it.                        *)
ClaimUnchecked(t) ==
  /\ pc[t] = "idle"
  /\ running' = TRUE
  /\ pc' = [pc EXCEPT ![t] = "claimed"]
  /\ UNCHANGED <<ready, stopRequested, task, waiter, notified, announced, stopPc>>

(* The compare_exchange succeeds and the RunningGuard exists.  A start that *)
(* finds RUNNING set, or whose options do not parse, returns without        *)
(* touching any of this state.                                              *)
Claim(t) ==
  /\ pc[t] = "idle"
  /\ ~running
  /\ running' = TRUE
  /\ pc' = [pc EXCEPT ![t] = "claimed"]
  /\ UNCHANGED <<ready, stopRequested, task, waiter, notified, announced, stopPc>>

ClearStop(t) ==
  /\ pc[t] = "claimed"
  /\ stopRequested' = FALSE
  /\ pc' = [pc EXCEPT ![t] = "cleared"]
  /\ UNCHANGED <<running, ready, task, waiter, notified, announced, stopPc>>

ClearReady(t) ==
  /\ pc[t] = "cleared"
  /\ ready' = FALSE
  /\ pc' = [pc EXCEPT ![t] = "build"]
  /\ UNCHANGED <<running, stopRequested, task, waiter, notified, announced, stopPc>>

(* Mutant: the early return after a failed build leaves no guard to drop.  *)
BuildRuntimeLeaking(t) ==
  /\ pc[t] = "build"
  /\ pc' = [pc EXCEPT ![t] = "leaked"]
  /\ UNCHANGED <<running, ready, stopRequested, task, waiter, notified,
                 announced, stopPc>>

(* The tokio runtime is built and block_on enters the select!, or building *)
(* it fails and the early return drops the guard.                          *)
BuildRuntime(t) ==
  /\ pc[t] = "build"
  /\ \/ /\ pc' = [pc EXCEPT ![t] = "run"]
        /\ task' = [task EXCEPT ![t] = "idle"]
        /\ waiter' = [waiter EXCEPT ![t] = "loop"]
        /\ notified' = [notified EXCEPT ![t] = FALSE]
     \/ /\ pc' = [pc EXCEPT ![t] = "release"]
        /\ UNCHANGED <<task, waiter, notified>>
  /\ UNCHANGED <<running, ready, stopRequested, announced, stopPc>>

(* crate::start resolves first, with Ok, with an error or by panicking.    *)
SessionEnds(t) ==
  /\ pc[t] = "run"
  /\ pc' = [pc EXCEPT ![t] = "unwind"]
  /\ UNCHANGED <<running, ready, stopRequested, task, waiter, notified,
                 announced, stopPc>>

(* Mutant: the runtime is detached (shutdown_background), not awaited.      *)
DropRuntimeDetached(t) ==
  /\ pc[t] = "unwind"
  /\ pc' = [pc EXCEPT ![t] = "release"]
  /\ UNCHANGED <<running, ready, stopRequested, task, waiter, notified,
                 announced, stopPc>>

(* The runtime is dropped before the guard declared above it.  The drop    *)
(* waits for the spawned tasks to stop, and a task only stops where it     *)
(* awaits: mark_ready has no await, so it is never cut in half.            *)
DropRuntime(t) ==
  /\ pc[t] = "unwind"
  /\ task[t] # "emit"
  /\ pc' = [pc EXCEPT ![t] = "release"]
  /\ UNCHANGED <<running, ready, stopRequested, task, waiter, notified,
                 announced, stopPc>>

(* RunningGuard::drop, its two stores in their order.                      *)
ReleaseRunning(t) ==
  /\ pc[t] = "release"
  /\ running' = FALSE
  /\ pc' = [pc EXCEPT ![t] = "released"]
  /\ announced' = [announced EXCEPT ![t] = FALSE]
  /\ UNCHANGED <<ready, stopRequested, task, waiter, notified, stopPc>>

(* Mutant: the guard gives RUNNING back and forgets READY.                  *)
ReleaseReadyKeeping(t) ==
  /\ pc[t] = "released"
  /\ pc' = [pc EXCEPT ![t] = "idle"]
  /\ UNCHANGED <<running, ready, stopRequested, task, waiter, notified,
                 announced, stopPc>>

ReleaseReady(t) ==
  /\ pc[t] = "released"
  /\ ready' = FALSE
  /\ pc' = [pc EXCEPT ![t] = "idle"]
  /\ UNCHANGED <<running, stopRequested, task, waiter, notified, announced, stopPc>>

-----------------------------------------------------------------------------
(***************************************************************************)
(* wait_for_stop, the second branch of the select!.                        *)
(***************************************************************************)

(* The Notified future is created before the flag is read.                 *)
CreateNotified(t) ==
  /\ pc[t] = "run"
  /\ waiter[t] = "loop"
  /\ waiter' = [waiter EXCEPT ![t] = "created"]
  /\ notified' = [notified EXCEPT ![t] = FALSE]
  /\ UNCHANGED <<running, ready, stopRequested, pc, task, announced, stopPc>>

(* The flag is read: set, the branch resolves and the session is unwound;  *)
(* clear, the branch awaits the notification.                              *)
CheckStop(t) ==
  /\ pc[t] = "run"
  /\ waiter[t] = "created"
  /\ \/ /\ stopRequested
        /\ pc' = [pc EXCEPT ![t] = "unwind"]
        /\ waiter' = [waiter EXCEPT ![t] = "loop"]
     \/ /\ ~stopRequested
        /\ waiter' = [waiter EXCEPT ![t] = "waiting"]
        /\ UNCHANGED pc
  /\ UNCHANGED <<running, ready, stopRequested, task, notified, announced, stopPc>>

WakeUp(t) ==
  /\ pc[t] = "run"
  /\ waiter[t] = "waiting"
  /\ notified[t]
  /\ waiter' = [waiter EXCEPT ![t] = "loop"]
  /\ UNCHANGED <<running, ready, stopRequested, pc, task, notified, announced, stopPc>>

-----------------------------------------------------------------------------
(***************************************************************************)
(* mark_ready, called from the session's tunnel task once its data plane   *)
(* is proven.  The task runs on a runtime thread of its own, so it may     *)
(* still get there while block_on is already returning; from then on it is *)
(* polled no more.                                                         *)
(***************************************************************************)

MarkReadyStore(t) ==
  /\ pc[t] \in {"run", "unwind"}
  /\ task[t] = "idle"
  /\ ready' = TRUE
  /\ task' = [task EXCEPT ![t] = "emit"]
  /\ UNCHANGED <<running, stopRequested, pc, waiter, notified, announced, stopPc>>

MarkReadyEmit(t) ==
  /\ task[t] = "emit"
  /\ announced' = [announced EXCEPT ![t] = TRUE]
  /\ task' = [task EXCEPT ![t] = IF pc[t] = "run" THEN "idle" ELSE "done"]
  /\ UNCHANGED <<running, ready, stopRequested, pc, waiter, notified, stopPc>>

-----------------------------------------------------------------------------
(***************************************************************************)
(* aether_stop.  It returns 0 and does nothing unless RUNNING is set.      *)
(***************************************************************************)

StopLoadRunning(s) ==
  /\ stopPc[s] = "idle"
  /\ running
  /\ stopPc' = [stopPc EXCEPT ![s] = "store"]
  /\ UNCHANGED <<running, ready, stopRequested, pc, task, waiter, notified, announced>>

(* Mutant: the flag is set and nobody is woken.                             *)
StopStoreSilent(s) ==
  /\ stopPc[s] = "store"
  /\ stopRequested' = TRUE
  /\ stopPc' = [stopPc EXCEPT ![s] = "idle"]
  /\ UNCHANGED <<running, ready, pc, task, waiter, notified, announced>>

StopStore(s) ==
  /\ stopPc[s] = "store"
  /\ stopRequested' = TRUE
  /\ stopPc' = [stopPc EXCEPT ![s] = "notify"]
  /\ UNCHANGED <<running, ready, pc, task, waiter, notified, announced>>

(* notify_waiters wakes every Notified future that exists at this moment,  *)
(* polled or not, and stores no permit for later ones.                     *)
StopNotify(s) ==
  /\ stopPc[s] = "notify"
  /\ notified' = [t \in Starters |->
                    notified[t] \/ waiter[t] \in {"created", "waiting"}]
  /\ stopPc' = [stopPc EXCEPT ![s] = "idle"]
  /\ UNCHANGED <<running, ready, stopRequested, pc, task, waiter, announced>>

-----------------------------------------------------------------------------
Start(t) ==
  \/ Claim(t) \/ ClearStop(t) \/ ClearReady(t) \/ BuildRuntime(t)
  \/ SessionEnds(t) \/ DropRuntime(t) \/ ReleaseRunning(t) \/ ReleaseReady(t)

WaitForStop(t) == CreateNotified(t) \/ CheckStop(t) \/ WakeUp(t)

MarkReady(t) == MarkReadyStore(t) \/ MarkReadyEmit(t)

Stop(s) == StopLoadRunning(s) \/ StopStore(s) \/ StopNotify(s)

CoreNext ==
  \/ \E t \in Starters : Start(t) \/ WaitForStop(t) \/ MarkReady(t)
  \/ \E s \in Stoppers : Stop(s)

CoreSpec == CoreInit /\ [][CoreNext]_coreVars

(* The runtime polls a woken branch, the drops run to their end and a      *)
(* native call in progress returns.  Nothing obliges a caller to start or  *)
(* to stop, nor a session to end or to become ready by itself.             *)
CoreFairness ==
  /\ \A t \in Starters :
       /\ WF_coreVars(WaitForStop(t))
       /\ WF_coreVars(MarkReadyEmit(t))
       /\ WF_coreVars(ClearStop(t) \/ ClearReady(t) \/ BuildRuntime(t))
       /\ WF_coreVars(DropRuntime(t) \/ ReleaseRunning(t) \/ ReleaseReady(t))
  /\ \A s \in Stoppers : WF_coreVars(StopStore(s) \/ StopNotify(s))

FairCoreSpec == CoreSpec /\ CoreFairness

-----------------------------------------------------------------------------
(***************************************************************************)
(* Properties.                                                             *)
(***************************************************************************)

(* Two sessions never overlap: from a successful compare_exchange until    *)
(* its guard stores FALSE no other thread is past its own compare_exchange *)
(* and RUNNING is TRUE, so aether_is_running never denies a session that   *)
(* still has a runtime.                                                    *)
OneSession ==
  /\ \A t, u \in Starters : Owns(t) /\ Owns(u) => t = u
  /\ running <=> \E t \in Starters : Owns(t)

(* READY does not survive the sessions that set it: once every start call  *)
(* has returned it is FALSE, although the task that sets it runs on        *)
(* another thread and the guard clears it in a second, separate store.     *)
ReadyIsSomeones == ready => \E t \in Starters : pc[t] # "idle"

(* "connected" is emitted only by a session whose runtime is still there:  *)
(* no event of a finished session reaches the application as news of the   *)
(* next one.                                                               *)
EmitsWhileAlive ==
  \A t \in Starters : task[t] = "emit" => pc[t] \in {"run", "unwind"}

(* A stop that finds the flag already cleared by the running session ends  *)
(* it: neither the read-then-await of wait_for_stop nor the lack of a      *)
(* stored permit in notify_waiters can lose it.                            *)
StopHonoured ==
  \A t \in Starters : (pc[t] = "run" /\ stopRequested) ~> pc[t] # "run"

=============================================================================
