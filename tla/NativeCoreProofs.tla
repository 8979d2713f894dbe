-------------------------- MODULE NativeCoreProofs --------------------------
(***************************************************************************)
(* Proofs about NativeCore for any sets of starting and stopping threads:  *)
(* its types, its mutual exclusion and what READY and "connected" mean,    *)
(* and that it implements the single slot of TunnelSlot.                   *)
(***************************************************************************)
EXTENDS TunnelSlotRefinement, TLAPS

(* What a step keeps.  OneSession alone is not inductive: that nothing is  *)
(* announced outside a session, and that no thread is inside mark_ready    *)
(* once the runtime is gone, are needed for the later conjuncts.           *)
CoreInv ==
  /\ CoreTypeOK
  /\ OneSession
  /\ ReadyIsSomeones
  /\ EmitsWhileAlive
  /\ \A t \in Starters : announced[t] => Owns(t)

(* Nothing runs at the start.                                              *)
LEMMA InitCoreInv == CoreInit => CoreInv
<1> SUFFICES ASSUME CoreInit PROVE CoreInv
  OBVIOUS
<1> USE DEF CoreInit, Owns, Owning
<1>1. CoreTypeOK
  BY DEF CoreTypeOK, StartPoints
<1>2. \A t \in Starters : ~Owns(t) /\ ~announced[t] /\ task[t] # "emit"
  OBVIOUS
<1>3. QED
  BY <1>1, <1>2 DEF CoreInv, OneSession, ReadyIsSomeones, EmitsWhileAlive

(* The types are kept by every step.                                       *)
LEMMA TypeStep == CoreTypeOK /\ [CoreNext]_coreVars => CoreTypeOK'
<1> SUFFICES ASSUME CoreTypeOK, [CoreNext]_coreVars PROVE CoreTypeOK'
  OBVIOUS
<1> USE DEF CoreTypeOK, StartPoints, Owning
<1>1. ASSUME NEW t \in Starters, Claim(t) PROVE CoreTypeOK'
  BY <1>1 DEF Claim
<1>2. ASSUME NEW t \in Starters, ClearStop(t) PROVE CoreTypeOK'
  BY <1>2 DEF ClearStop
<1>3. ASSUME NEW t \in Starters, ClearReady(t) PROVE CoreTypeOK'
  BY <1>3 DEF ClearReady
<1>4. ASSUME NEW t \in Starters, BuildRuntime(t) PROVE CoreTypeOK'
  BY <1>4 DEF BuildRuntime
<1>5. ASSUME NEW t \in Starters, SessionEnds(t) PROVE CoreTypeOK'
  BY <1>5 DEF SessionEnds
<1>6. ASSUME NEW t \in Starters, DropRuntime(t) PROVE CoreTypeOK'
  BY <1>6 DEF DropRuntime
<1>7. ASSUME NEW t \in Starters, ReleaseRunning(t) PROVE CoreTypeOK'
  BY <1>7 DEF ReleaseRunning
<1>8. ASSUME NEW t \in Starters, ReleaseReady(t) PROVE CoreTypeOK'
  BY <1>8 DEF ReleaseReady
<1>9. ASSUME NEW t \in Starters, WaitForStop(t) PROVE CoreTypeOK'
  BY <1>9 DEF WaitForStop, CreateNotified, CheckStop, WakeUp
<1>10. ASSUME NEW t \in Starters, MarkReady(t) PROVE CoreTypeOK'
  BY <1>10 DEF MarkReady, MarkReadyStore, MarkReadyEmit
<1>11. ASSUME NEW s \in Stoppers, Stop(s) PROVE CoreTypeOK'
  <2>1. CASE StopLoadRunning(s)
    BY <2>1 DEF StopLoadRunning
  <2>2. CASE StopStore(s)
    BY <2>2 DEF StopStore
  <2>3. CASE StopNotify(s)
    <3>1. \A t \in Starters :
            (notified[t] \/ waiter[t] \in {"created", "waiting"}) \in BOOLEAN
      OBVIOUS
    <3>2. notified' \in [Starters -> BOOLEAN]
      BY <2>3, <3>1 DEF StopNotify
    <3>3. QED
      BY <2>3, <3>2 DEF StopNotify
  <2>4. QED
    BY <1>11, <2>1, <2>2, <2>3 DEF Stop
<1>12. CASE UNCHANGED coreVars
  BY <1>12 DEF coreVars
<1>13. QED
  BY <1>1, <1>2, <1>3, <1>4, <1>5, <1>6, <1>7, <1>8, <1>9, <1>10, <1>11,
     <1>12 DEF CoreNext, Start

(* Only three steps change who owns RUNNING; every other step keeps the    *)
(* owners, RUNNING and, for the threads outside, the idle points.          *)
LEMMA OwnerStep ==
  ASSUME CoreTypeOK, OneSession, [CoreNext]_coreVars
  PROVE  OneSession'
<1> USE DEF CoreTypeOK, OneSession, Owns, Owning, StartPoints
<1>1. ASSUME NEW t \in Starters, Claim(t) PROVE OneSession'
  BY <1>1 DEF Claim
<1>2. ASSUME NEW t \in Starters, ClearStop(t) PROVE OneSession'
  BY <1>2 DEF ClearStop
<1>3. ASSUME NEW t \in Starters, ClearReady(t) PROVE OneSession'
  BY <1>3 DEF ClearReady
<1>4. ASSUME NEW t \in Starters, BuildRuntime(t) PROVE OneSession'
  BY <1>4 DEF BuildRuntime
<1>5. ASSUME NEW t \in Starters, SessionEnds(t) PROVE OneSession'
  BY <1>5 DEF SessionEnds
<1>6. ASSUME NEW t \in Starters, DropRuntime(t) PROVE OneSession'
  BY <1>6 DEF DropRuntime
<1>7. ASSUME NEW t \in Starters, ReleaseRunning(t) PROVE OneSession'
  BY <1>7 DEF ReleaseRunning
<1>8. ASSUME NEW t \in Starters, ReleaseReady(t) PROVE OneSession'
  BY <1>8 DEF ReleaseReady
<1>9. ASSUME NEW t \in Starters, WaitForStop(t) PROVE OneSession'
  BY <1>9 DEF WaitForStop, CreateNotified, CheckStop, WakeUp
<1>10. ASSUME NEW t \in Starters, MarkReady(t) PROVE OneSession'
  BY <1>10 DEF MarkReady, MarkReadyStore, MarkReadyEmit
<1>11. ASSUME NEW s \in Stoppers, Stop(s) PROVE OneSession'
  BY <1>11 DEF Stop, StopLoadRunning, StopStore, StopNotify
<1>12. CASE UNCHANGED coreVars
  BY <1>12 DEF coreVars
<1>13. QED
  BY <1>1, <1>2, <1>3, <1>4, <1>5, <1>6, <1>7, <1>8, <1>9, <1>10, <1>11,
     <1>12 DEF CoreNext, Start

(* The part of the invariant about READY and the "connected" event.        *)
ReadyPart ==
  /\ ReadyIsSomeones
  /\ EmitsWhileAlive
  /\ \A t \in Starters : announced[t] => Owns(t)

(* No step leaves the ready flag, or a task that may still emit, behind a  *)
(* session that ended.                                                     *)
LEMMA ReadyStep ==
  ASSUME CoreTypeOK, ReadyPart, [CoreNext]_coreVars
  PROVE  ReadyPart'
<1> USE DEF CoreTypeOK, ReadyPart, ReadyIsSomeones, EmitsWhileAlive, Owns,
            Owning, StartPoints
<1>1. ASSUME NEW t \in Starters, Claim(t) PROVE ReadyPart'
  BY <1>1 DEF Claim
<1>2. ASSUME NEW t \in Starters, ClearStop(t) PROVE ReadyPart'
  BY <1>2 DEF ClearStop
<1>3. ASSUME NEW t \in Starters, ClearReady(t) PROVE ReadyPart'
  BY <1>3 DEF ClearReady
<1>4. ASSUME NEW t \in Starters, BuildRuntime(t) PROVE ReadyPart'
  BY <1>4 DEF BuildRuntime
<1>5. ASSUME NEW t \in Starters, SessionEnds(t) PROVE ReadyPart'
  BY <1>5 DEF SessionEnds
<1>6. ASSUME NEW t \in Starters, DropRuntime(t) PROVE ReadyPart'
  BY <1>6 DEF DropRuntime
<1>7. ASSUME NEW t \in Starters, ReleaseRunning(t) PROVE ReadyPart'
  BY <1>7 DEF ReleaseRunning
<1>8. ASSUME NEW t \in Starters, ReleaseReady(t) PROVE ReadyPart'
  BY <1>8 DEF ReleaseReady
<1>9. ASSUME NEW t \in Starters, WaitForStop(t) PROVE ReadyPart'
  BY <1>9 DEF WaitForStop, CreateNotified, CheckStop, WakeUp
<1>10. ASSUME NEW t \in Starters, MarkReady(t) PROVE ReadyPart'
  BY <1>10 DEF MarkReady, MarkReadyStore, MarkReadyEmit
<1>11. ASSUME NEW s \in Stoppers, Stop(s) PROVE ReadyPart'
  BY <1>11 DEF Stop, StopLoadRunning, StopStore, StopNotify
<1>12. CASE UNCHANGED coreVars
  BY <1>12 DEF coreVars
<1>13. QED
  BY <1>1, <1>2, <1>3, <1>4, <1>5, <1>6, <1>7, <1>8, <1>9, <1>10, <1>11,
     <1>12 DEF CoreNext, Start

(* Every step of the core keeps the invariant.                             *)
LEMMA NextCoreInv == CoreInv /\ [CoreNext]_coreVars => CoreInv'
  BY TypeStep, OwnerStep, ReadyStep DEF CoreInv, ReadyPart

(* Every reachable state of the core satisfies the inductive invariant.    *)
THEOREM CoreInvariant == CoreSpec => []CoreInv
<1>1. CoreInit => CoreInv
  BY InitCoreInv
<1>2. CoreInv /\ [CoreNext]_coreVars => CoreInv'
  BY NextCoreInv
<1>3. QED
  BY <1>1, <1>2, PTL DEF CoreSpec

(* The atomics and the program points of the callers stay in their types,  *)
(* however many threads start and stop the core.                           *)
THEOREM CoreTypes == CoreSpec => []CoreTypeOK
<1>1. CoreInv => CoreTypeOK
  BY DEF CoreInv
<1>2. QED
  BY <1>1, CoreInvariant, PTL

(* Two sessions never overlap and RUNNING is TRUE exactly while one owns   *)
(* the core (the compare_exchange and RunningGuard of ffi.rs).             *)
THEOREM CoreOneSession == CoreSpec => []OneSession
<1>1. CoreInv => OneSession
  BY DEF CoreInv
<1>2. QED
  BY <1>1, CoreInvariant, PTL

(* READY is FALSE whenever no start call is in progress, although the task *)
(* that sets it and the guard that clears it are on different threads.     *)
THEOREM CoreReadyIsSomeones == CoreSpec => []ReadyIsSomeones
<1>1. CoreInv => ReadyIsSomeones
  BY DEF CoreInv
<1>2. QED
  BY <1>1, CoreInvariant, PTL

(* mark_ready never runs once the runtime of its session has been dropped. *)
THEOREM CoreEmitsWhileAlive == CoreSpec => []EmitsWhileAlive
<1>1. CoreInv => EmitsWhileAlive
  BY DEF CoreInv
<1>2. QED
  BY <1>1, CoreInvariant, PTL

-----------------------------------------------------------------------------
(***************************************************************************)
(* The refinement of TunnelSlot.                                           *)
(***************************************************************************)

(* The two values the refinement mapping takes.                            *)
LEMMA HolderIsOwner ==
  ASSUME OneSession, NEW t \in Starters, Owns(t)
  PROVE  slotHolder = t
  BY DEF OneSession, slotHolder

(* Without an owner the slot maps to a free one.                           *)
LEMMA HolderOfFree ==
  ASSUME \A t \in Starters : ~Owns(t)
  PROVE  slotHolder = NoSession /\ slotUp = FALSE
  BY DEF slotHolder, slotUp

(* A step that keeps the owners and what they have announced is a stutter. *)
LEMMA KeepsSlot ==
  ASSUME \A t \in Starters : Owns(t)' <=> Owns(t),
         \A t \in Starters : Owns(t) => (announced'[t] <=> announced[t])
  PROVE  UNCHANGED <<slotHolder, slotUp>>
  BY DEF slotHolder, slotUp

(* With an owner it does not.                                              *)
LEMMA HolderOfTaken ==
  ASSUME NEW t \in Starters, Owns(t)
  PROVE  slotHolder # NoSession
  BY SlotAssumption DEF slotHolder

(* The core starts with a free slot.                                       *)
LEMMA InitSlot == CoreInit => Slot!SlotInit
<1> SUFFICES ASSUME CoreInit PROVE Slot!SlotInit
  OBVIOUS
<1>1. \A t \in Starters : ~Owns(t)
  BY DEF CoreInit, Owns, Owning
<1>2. QED
  BY <1>1, HolderOfFree DEF Slot!SlotInit

(* Claim opens the slot: RUNNING was FALSE, so it had no holder, and its    *)
(* new owner has announced nothing yet.                                     *)
LEMMA ClaimOpens ==
  ASSUME CoreInv, CoreInv', NEW t \in Starters, Claim(t)
  PROVE  Slot!Open(t)
<1>1. \A u \in Starters : ~Owns(u)
  BY DEF CoreInv, OneSession, Claim
<1>2. Owns(t)' /\ OneSession' /\ announced' = announced
  BY DEF CoreInv, CoreTypeOK, Claim, Owns, Owning
<1>3. slotHolder' = t
  BY <1>2 DEF slotHolder, OneSession
<1>4. \A u \in Starters : ~announced[u]
  BY <1>1 DEF CoreInv
<1>5. slotUp' = FALSE
  BY <1>2, <1>4 DEF slotUp
<1>6. slotHolder = NoSession /\ slotUp = FALSE
  BY <1>1, HolderOfFree
<1>7. QED
  BY <1>3, <1>5, <1>6 DEF Slot!Open

(* The first store of the guard closes the slot.                            *)
LEMMA ReleaseCloses ==
  ASSUME CoreInv, NEW t \in Starters, ReleaseRunning(t)
  PROVE  Slot!Close
<1>1. Owns(t)
  BY DEF ReleaseRunning, Owns, Owning
<1>2. \A u \in Starters : ~(Owns(u)')
  BY <1>1 DEF CoreInv, CoreTypeOK, OneSession, ReleaseRunning, Owns, Owning
<1>3. slotHolder' = NoSession /\ slotUp' = FALSE
  BY <1>2 DEF slotHolder, slotUp
<1>4. slotHolder # NoSession
  BY <1>1, HolderOfTaken
<1>5. QED
  BY <1>3, <1>4 DEF Slot!Close

(* The end of mark_ready announces, and its thread is the holder.           *)
LEMMA EmitAnnounces ==
  ASSUME CoreInv, NEW t \in Starters, MarkReadyEmit(t)
  PROVE  Slot!Announce
<1>1. Owns(t)
  BY DEF CoreInv, EmitsWhileAlive, MarkReadyEmit, Owns, Owning
<1>2. pc' = pc /\ announced'[t] = TRUE
  BY DEF CoreInv, CoreTypeOK, MarkReadyEmit
<1>3. \A u \in Starters : Owns(u)' <=> Owns(u)
  BY <1>2 DEF Owns
<1>4. slotHolder' = slotHolder
  BY <1>3 DEF slotHolder
<1>5. slotUp' = TRUE
  BY <1>1, <1>2, <1>3 DEF slotUp
<1>6. QED
  BY <1>1, <1>4, <1>5, HolderOfTaken DEF Slot!Announce

(* The steps of a starter that move inside the session, or outside it.      *)
LEMMA InnerKeepsSlot ==
  ASSUME CoreInv, NEW t \in Starters,
         \/ ClearStop(t) \/ ClearReady(t) \/ BuildRuntime(t)
         \/ SessionEnds(t) \/ DropRuntime(t) \/ ReleaseReady(t)
         \/ WaitForStop(t) \/ MarkReadyStore(t)
  PROVE  UNCHANGED <<slotHolder, slotUp>>
<1> USE DEF CoreInv, CoreTypeOK, StartPoints
<1>1. announced' = announced
  BY DEF ClearStop, ClearReady, BuildRuntime, SessionEnds, DropRuntime,
         ReleaseReady, WaitForStop, CreateNotified, CheckStop, WakeUp,
         MarkReadyStore
<1>2. \A u \in Starters : Owns(u)' <=> Owns(u)
  BY DEF ClearStop, ClearReady, BuildRuntime, SessionEnds, DropRuntime,
         ReleaseReady, WaitForStop, CreateNotified, CheckStop, WakeUp,
         MarkReadyStore, Owns, Owning
<1>3. QED
  BY <1>1, <1>2, KeepsSlot

(* A stop only asks: it neither takes nor frees the slot.                  *)
LEMMA StopKeepsSlot ==
  ASSUME NEW s \in Stoppers, Stop(s)
  PROVE  UNCHANGED <<slotHolder, slotUp>>
<1>1. pc' = pc /\ announced' = announced
  BY DEF Stop, StopLoadRunning, StopStore, StopNotify
<1>2. QED
  BY <1>1, KeepsSlot DEF Owns

(* Every step of the core is a step of the slot, or none.                  *)
LEMMA StepSlot ==
  ASSUME CoreInv, CoreInv', [CoreNext]_coreVars
  PROVE  [Slot!SlotNext]_(Slot!slotVars)
<1> USE DEF Slot!slotVars
<1>1. ASSUME NEW t \in Starters, Start(t)
      PROVE  [Slot!SlotNext]_(Slot!slotVars)
  <2>1. CASE Claim(t)
    BY <2>1, ClaimOpens DEF Slot!SlotNext
  <2>2. CASE ReleaseRunning(t)
    BY <2>2, ReleaseCloses DEF Slot!SlotNext
  <2>3. CASE \/ ClearStop(t) \/ ClearReady(t) \/ BuildRuntime(t)
             \/ SessionEnds(t) \/ DropRuntime(t) \/ ReleaseReady(t)
    BY <2>3, InnerKeepsSlot
  <2>4. QED
    BY <1>1, <2>1, <2>2, <2>3 DEF Start
<1>2. ASSUME NEW t \in Starters, WaitForStop(t)
      PROVE  [Slot!SlotNext]_(Slot!slotVars)
  BY <1>2, InnerKeepsSlot
<1>3. ASSUME NEW t \in Starters, MarkReady(t)
      PROVE  [Slot!SlotNext]_(Slot!slotVars)
  BY <1>3, EmitAnnounces, InnerKeepsSlot DEF MarkReady, Slot!SlotNext
<1>4. ASSUME NEW s \in Stoppers, Stop(s)
      PROVE  [Slot!SlotNext]_(Slot!slotVars)
  BY <1>4, StopKeepsSlot
<1>5. CASE UNCHANGED coreVars
  BY <1>5, KeepsSlot DEF coreVars, Owns
<1>6. QED
  BY <1>1, <1>2, <1>3, <1>4, <1>5 DEF CoreNext

(* The atomics of ffi.rs implement the single slot for any threads: a start *)
(* never takes a slot that is held, and "connected" is only said by the     *)
(* session that holds it, while it holds it.                                *)
THEOREM CoreImplementsSlot == CoreSpec => ImplementsSlot
<1>1. CoreInit => Slot!SlotInit
  BY InitSlot
<1>2. CoreInv /\ CoreInv' /\ [CoreNext]_coreVars
        => [Slot!SlotNext]_(Slot!slotVars)
  BY StepSlot
<1>3. QED
  BY <1>1, <1>2, CoreInvariant, PTL DEF CoreSpec, ImplementsSlot, Slot!SlotSpec

=============================================================================
