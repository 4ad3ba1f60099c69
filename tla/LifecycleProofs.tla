-------------------------- MODULE LifecycleProofs --------------------------
(***************************************************************************)
(* Proofs about Lifecycle, for any number of callers and closers and any   *)
(* mix of calls: the type invariant, that Close drains before it closes    *)
(* the database and returns only when it is closed, that there is one      *)
(* cleanup goroutine, and that a cleanup started before the store is       *)
(* shared never outlives it.                                               *)
(***************************************************************************)
EXTENDS Lifecycle, TLAPS

Closing == {"cancelling", "waiting", "dbclose"}

(* The gate: who holds closeMu, and what closed and dbOpen say of it.      *)
GateInv ==
  /\ \A p \in Procs : readers[p] = IF pc[p] \in {"txn", "wantR2", "resume"} THEN 1
                                   ELSE IF pc[p] = "txn2" THEN 2 ELSE 0
  /\ \A p \in Closers : pc[p] = "draining" <=> wPending = p
  /\ \A p \in Closers : pc[p] \in Closing <=> wHolder = p
  /\ wPending = NoProc \/ wHolder = NoProc
  /\ closed => \A p \in Procs : readers[p] = 0
  /\ ~dbOpen => closed
  /\ wHolder # NoProc <=> (closed /\ dbOpen)
  /\ \A p \in Closers : pc[p] = "returned" => ~dbOpen

(* The callers that hold s.mu.                                             *)
InMu(p) == \/ pc[p] \in {"starting", "spawning", "holdMu"}
           \/ call[p] = "locked" /\ pc[p] \notin {"idle", "wantMu"}

StartInv ==
  /\ \A p \in Callers : InMu(p) => mu = p
  /\ ~cancel => pc[Cleaner] = "off"
  /\ pc[Cleaner] = "holdMu" => mu = Cleaner
  /\ \A p \in Callers : pc[p] = "spawning" => cancel /\ pc[Cleaner] = "off"

(* A cleanup started at open is cancelled and awaited by the first Close.  *)
StopInv ==
  /\ cancel /\ done /\ pc[Cleaner] # "off"
  /\ \A p \in Callers : pc[p] # "spawning"
  /\ (\E p \in Closers : pc[p] = "dbclose") => pc[Cleaner] = "exited"
  /\ ~dbOpen => pc[Cleaner] = "exited"

-----------------------------------------------------------------------------
(* Every variable keeps its type: in particular no goroutine ever holds    *)
(* more than two read locks on closeMu, and s.mu and closeMu are held by   *)
(* the goroutines that take them.                                          *)
LEMMA GateInductive ==
  ASSUME TypeOK, GateInv, StartInv, [Next]_vars
  PROVE  TypeOK' /\ GateInv'
<1> USE LifecycleAssumption DEF TypeOK, GateInv, Procs, CallerPCs, CleanerPCs,
        CloserPCs, InTxn, Closing, Goto, locks, cleanup, RLockFree, CallKinds,
        CleanupKinds
<1>1. ASSUME NEW p \in Callers, NEW k \in Calls, Call(p, k)
      PROVE  TypeOK' /\ GateInv'
  BY <1>1 DEF Call
<1>2. ASSUME NEW p \in Callers \cup {Cleaner}, LockMu(p)
      PROVE  TypeOK' /\ GateInv'
  BY <1>2 DEF LockMu
<1>3. ASSUME NEW p \in Callers \cup {Cleaner}, RLock(p)
      PROVE  TypeOK' /\ GateInv'
  BY <1>3 DEF RLock
<1>4. ASSUME NEW p \in Callers,
             EndUnguarded(p) \/ Nest(p) \/ RLockNested(p) \/ RUnlockNested(p)
      PROVE  TypeOK' /\ GateInv'
  BY <1>4 DEF EndUnguarded, Nest, RLockNested, RUnlockNested
<1>5. ASSUME NEW p \in Callers, RUnlock(p) \/ UnlockMu(p)
      PROVE  TypeOK' /\ GateInv'
  BY <1>5 DEF RUnlock, UnlockMu
<1>6. ASSUME NEW p \in Callers, StartCheck(p)
      PROVE  TypeOK' /\ GateInv'
  <2>1. TypeOK'
    <3>1. CASE cancel
      BY <1>6, <3>1 DEF StartCheck
    <3>2. CASE ~cancel
      BY <1>6, <3>2 DEF StartCheck
    <3>3. QED
      BY <3>1, <3>2
  <2>2. GateInv'
    BY <1>6 DEF StartCheck
  <2>3. QED
    BY <2>1, <2>2
<1>7. ASSUME NEW p \in Callers, StartSpawn(p)
      PROVE  TypeOK' /\ GateInv'
  <2>1. TypeOK'
    BY <1>7 DEF StartSpawn
  <2>2. GateInv'
    <3>1. pc[Cleaner] = "off"
      BY <1>7 DEF StartSpawn, StartInv
    <3>2. QED
      BY <1>7, <3>1 DEF StartSpawn
  <2>3. QED
    BY <2>1, <2>2
<1>8. CASE CleanupTick
  BY <1>8 DEF CleanupTick
<1>9. CASE CleanupExit
  BY <1>9 DEF CleanupExit
<1>10. CASE ContextDone
  BY <1>10 DEF ContextDone
<1>11. CASE CleanupRUnlock
  BY <1>11 DEF CleanupRUnlock, CleanupNext
<1>12. CASE CleanupUnlockMu
  BY <1>12 DEF CleanupUnlockMu, CleanupNext
<1>13. ASSUME NEW p \in Closers, CloseCall(p)
       PROVE  TypeOK' /\ GateInv'
  BY <1>13 DEF CloseCall
<1>14. ASSUME NEW p \in Closers, CloseAsk(p)
       PROVE  TypeOK' /\ GateInv'
  BY <1>14 DEF CloseAsk
<1>15. ASSUME NEW p \in Closers, CloseLock(p)
       PROVE  TypeOK' /\ GateInv'
  BY <1>15 DEF CloseLock
<1>16. ASSUME NEW p \in Closers, CloseCancel(p)
       PROVE  TypeOK' /\ GateInv'
  BY <1>16 DEF CloseCancel
<1>17. ASSUME NEW p \in Closers, CloseWait(p)
       PROVE  TypeOK' /\ GateInv'
  BY <1>17 DEF CloseWait
<1>18. ASSUME NEW p \in Closers, CloseDB(p)
       PROVE  TypeOK' /\ GateInv'
  <2>1. TypeOK'
    BY <1>18 DEF CloseDB
  <2>2. GateInv'
    BY <1>18 DEF CloseDB
  <2>3. QED
    BY <2>1, <2>2
<1>19. CASE UNCHANGED vars
  BY <1>19 DEF vars
<1>20. QED
  BY <1>1, <1>2, <1>3, <1>4, <1>5, <1>6, <1>7, <1>8, <1>9, <1>10, <1>11, <1>12,
     <1>13, <1>14, <1>15, <1>16, <1>17, <1>18, <1>19
     DEF Next, CallerStep, CleanerStep, CloserStep

-----------------------------------------------------------------------------
(* s.mu is exclusive over StartMemoryCleanup and the locked writers, so    *)
(* the check of s.cleanupCancel and the launch are one step for others.    *)
LEMMA StartInductive ==
  ASSUME TypeOK, StartInv, [Next]_vars
  PROVE  StartInv'
<1> USE LifecycleAssumption DEF TypeOK, StartInv, InMu, Procs, CallerPCs,
        CleanerPCs, CloserPCs, InTxn, Goto, locks, cleanup, CallKinds, CleanupKinds
<1>1. ASSUME NEW p \in Callers, NEW k \in Calls, Call(p, k)
      PROVE  StartInv'
  BY <1>1 DEF Call
<1>2. ASSUME NEW p \in Callers \cup {Cleaner}, LockMu(p)
      PROVE  StartInv'
  BY <1>2 DEF LockMu
<1>3. ASSUME NEW p \in Callers \cup {Cleaner}, RLock(p)
      PROVE  StartInv'
  BY <1>3 DEF RLock
<1>4. ASSUME NEW p \in Callers,
             EndUnguarded(p) \/ Nest(p) \/ RLockNested(p) \/ RUnlockNested(p)
      PROVE  StartInv'
  BY <1>4 DEF EndUnguarded, Nest, RLockNested, RUnlockNested
<1>5. ASSUME NEW p \in Callers, RUnlock(p) \/ UnlockMu(p)
      PROVE  StartInv'
  BY <1>5 DEF RUnlock, UnlockMu
<1>6. ASSUME NEW p \in Callers, StartCheck(p)
      PROVE  StartInv'
  BY <1>6 DEF StartCheck
<1>7. ASSUME NEW p \in Callers, StartSpawn(p)
      PROVE  StartInv'
  BY <1>7 DEF StartSpawn
<1>8. CASE CleanupTick \/ CleanupExit \/ ContextDone
  BY <1>8 DEF CleanupTick, CleanupExit, ContextDone
<1>9. CASE CleanupRUnlock \/ CleanupUnlockMu
  BY <1>9 DEF CleanupRUnlock, CleanupUnlockMu, CleanupNext
<1>10. ASSUME NEW p \in Closers, CloseCall(p) \/ CloserStep(p)
       PROVE  StartInv'
  BY <1>10 DEF CloseCall, CloserStep, CloseAsk, CloseLock, CloseCancel,
               CloseWait, CloseDB
<1>11. CASE UNCHANGED vars
  BY <1>11 DEF vars
<1>12. QED
  BY <1>1, <1>2, <1>3, <1>4, <1>5, <1>6, <1>7, <1>8, <1>9, <1>10, <1>11
     DEF Next, CallerStep, CleanerStep

LEMMA LifecycleInit == Init => TypeOK /\ GateInv /\ StartInv
<1> USE LifecycleAssumption DEF Init, Procs, CallerPCs, CleanerPCs, CloserPCs,
        InTxn, CallKinds, CleanupKinds
<1>1. Init => TypeOK
  <2> SUFFICES ASSUME Init PROVE TypeOK
    OBVIOUS
  <2>1. /\ closed \in BOOLEAN /\ dbOpen \in BOOLEAN
        /\ cancel \in BOOLEAN /\ done \in BOOLEAN /\ cancelled \in BOOLEAN
    OBVIOUS
  <2>2. pc \in [Procs -> CallerPCs \cup CleanerPCs \cup CloserPCs]
    OBVIOUS
  <2>3. /\ readers \in [Procs -> 0..2]
        /\ call \in [Procs -> CallKinds \cup CleanupKinds]
    OBVIOUS
  <2>4. QED
    BY <2>1, <2>2, <2>3 DEF TypeOK
<1>2. Init => GateInv
  BY DEF GateInv, Closing
<1>3. Init => StartInv
  <2>1. CASE cancel
    BY <2>1 DEF StartInv, InMu
  <2>2. CASE ~cancel
    BY <2>2 DEF StartInv, InMu
  <2>3. QED
    BY <2>1, <2>2
<1>4. QED
  BY <1>1, <1>2, <1>3

(* The three parts together are an inductive invariant of every behaviour. *)
THEOREM LifecycleInvariant == Spec => [](TypeOK /\ GateInv /\ StartInv)
<1>1. TypeOK /\ GateInv /\ StartInv /\ [Next]_vars
        => (TypeOK /\ GateInv /\ StartInv)'
  BY GateInductive, StartInductive
<1>2. QED
  BY <1>1, LifecycleInit, PTL DEF Spec

(* No View or Update is in flight once the database is closed, and a Close *)
(* that returned, concurrent with others or not, found or left it closed.  *)
THEOREM CloseDrains == Spec => []DrainedClose
<1>1. TypeOK /\ GateInv => NoneInside
  BY DEF TypeOK, GateInv, NoneInside, InTxn
<1>2. GateInv => ClosedOnReturn
  BY DEF GateInv, ClosedOnReturn
<1>3. QED
  BY <1>1, <1>2, LifecycleInvariant, PTL DEF DrainedClose

(* StartMemoryCleanup launches one cleanup goroutine, however often and    *)
(* from however many goroutines it is called.                              *)
THEOREM OneCleanup == Spec => []SingleCleanup
<1>1. StartInv => SingleCleanup
  BY DEF StartInv, SingleCleanup
<1>2. QED
  BY <1>1, LifecycleInvariant, PTL

-----------------------------------------------------------------------------
LEMMA StopInductive ==
  ASSUME TypeOK, GateInv, StopInv, [Next]_vars
  PROVE  StopInv'
<1> USE LifecycleAssumption DEF TypeOK, StopInv, Procs, CallerPCs,
        CleanerPCs, CloserPCs, InTxn, Goto, locks, cleanup
<1>1. ASSUME NEW p \in Callers, NEW k \in Calls, Call(p, k)
      PROVE  StopInv'
  BY <1>1 DEF Call
<1>2. ASSUME NEW p \in Callers, CallerStep(p)
      PROVE  StopInv'
  <2>1. CASE LockMu(p) \/ RLock(p) \/ EndUnguarded(p)
    BY ZenonT(60), <2>1 DEF LockMu, RLock, EndUnguarded
  <2>2. CASE Nest(p) \/ RLockNested(p) \/ RUnlockNested(p)
    BY ZenonT(60), <2>2 DEF Nest, RLockNested, RUnlockNested
  <2>3. CASE RUnlock(p) \/ UnlockMu(p) \/ StartCheck(p)
    BY ZenonT(60), <2>3 DEF RUnlock, UnlockMu, StartCheck
  <2>4. CASE StartSpawn(p)
    BY <2>4 DEF StartSpawn
  <2>5. QED
    BY <1>2, <2>1, <2>2, <2>3, <2>4 DEF CallerStep
<1>3. CASE CleanerStep \/ CleanupTick \/ ContextDone
  BY ZenonT(60), <1>3 DEF CleanerStep, CleanupTick, ContextDone, LockMu, RLock,
              CleanupRUnlock, CleanupUnlockMu, CleanupExit, CleanupNext
<1>4. ASSUME NEW p \in Closers, CloseCall(p) \/ CloseAsk(p) \/ CloseLock(p)
      PROVE  StopInv'
  BY ZenonT(60), <1>4 DEF CloseCall, CloseAsk, CloseLock
<1>5. ASSUME NEW p \in Closers, CloseCancel(p) \/ CloseWait(p) \/ CloseDB(p)
      PROVE  StopInv'
  BY <1>5 DEF CloseCancel, CloseWait, CloseDB
<1>6. CASE UNCHANGED vars
  BY <1>6 DEF vars
<1>7. QED
  BY <1>1, <1>2, <1>3, <1>4, <1>5, <1>6 DEF Next, CloserStep

(* A cleanup goroutine started before the store is shared, as gracedb.Open *)
(* does, has exited when the database is closed.                           *)
THEOREM CleanupStopsBeforeDB == Spec => CleanupStopped
<1>1. Init /\ cancel => StopInv
  BY LifecycleAssumption DEF Init, StopInv, Procs
<1>2. TypeOK /\ GateInv /\ StopInv /\ [Next]_vars => StopInv'
  BY StopInductive
<1>3. StopInv => (~dbOpen => pc[Cleaner] = "exited")
  BY DEF StopInv
<1>4. QED
  BY <1>1, <1>2, <1>3, LifecycleInvariant, PTL DEF Spec, CleanupStopped
=============================================================================
