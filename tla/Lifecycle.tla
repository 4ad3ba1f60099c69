------------------------------ MODULE Lifecycle ------------------------------
(***************************************************************************)
(* Life cycle of BadgerStore (src/pkg/store/store.go): the close gate that *)
(* View and Update pass through, Close, and the goroutine that removes     *)
(* expired memories.  The work a transaction does is left out: only the    *)
(* locks it holds, and whether the database is open under it, matter here. *)
(*                                                                         *)
(* closeMu is a sync.RWMutex, s.mu an exclusive mutex.  Both come from the *)
(* Go library and are modelled as it documents them: once a writer has     *)
(* asked for an RWMutex, no new reader gets it, not even a goroutine that  *)
(* already holds a read lock.                                              *)
(***************************************************************************)
EXTENDS Naturals, FiniteSets

CONSTANTS
  Callers,        \* goroutines calling operations of the store
  Closers,        \* goroutines that call Close, each once
  Cleaner,        \* the cleanup goroutine
  Calls,          \* the kinds of call the callers make, a subset of CallKinds
  CleanupAtOpen,  \* whether the cleanup is started before the store is shared,
                  \* or {TRUE, FALSE} for either
  NoProc          \* no goroutine

(* "view":   one View or Update with no other lock (GetMemory, IndexFTS)   *)
(* "locked": s.mu around one View or Update (SaveMemory, CreateSession)    *)
(* "nested": a View inside the function of a View (GetKnowledge)           *)
(* "ready":  Ready                                                         *)
(* "start":  StartMemoryCleanup                                            *)
(* "raw":    a transaction of the graph store or the RDF store, which Open *)
(*           gives the Badger database itself                              *)
CallKinds == {"view", "locked", "nested", "ready", "start", "raw"}

(* "scan" and "delete" are the calls the cleanup goroutine makes.          *)
CleanupKinds == {"scan", "delete"}

Procs == Callers \cup Closers \cup {Cleaner}

ASSUME LifecycleAssumption ==
  /\ Calls \subseteq CallKinds
  /\ CleanupAtOpen \subseteq BOOLEAN
  /\ Callers \cap Closers = {}
  /\ Cleaner \notin Callers \cup Closers
  /\ NoProc \notin Procs

VARIABLES
  readers,    \* read locks on closeMu each goroutine holds
  wPending,   \* the goroutine waiting in closeMu.Lock for readers to leave
  wHolder,    \* the goroutine holding closeMu for writing
  mu,         \* the goroutine holding s.mu
  closed,     \* s.closed
  dbOpen,     \* the Badger database is open
  cancel,     \* s.cleanupCancel # nil
  done,       \* s.cleanupDone # nil
  cancelled,  \* the cleanup context is done
  pc, call    \* where each goroutine is, and in which call

vars == <<readers, wPending, wHolder, mu, closed, dbOpen, cancel, done,
          cancelled, pc, call>>
locks == <<readers, wPending, wHolder, mu>>
cleanup == <<cancel, done, cancelled>>

(* pc values at which a goroutine is inside the function given to View or  *)
(* Update; "unguarded" is a transaction outside closeMu.                   *)
InTxn == {"txn", "txn2"}
CallerPCs == InTxn \cup {"idle", "wantMu", "wantR", "wantR2", "resume",
                         "holdMu", "unguarded", "starting", "spawning"}
CleanerPCs == InTxn \cup {"off", "select", "wantR", "wantMu", "holdMu", "exited"}
CloserPCs == {"idle", "wantW", "draining", "cancelling", "waiting", "dbclose",
              "returned"}

TypeOK ==
  /\ readers \in [Procs -> 0..2]
  /\ wPending \in Closers \cup {NoProc}
  /\ wHolder \in Closers \cup {NoProc}
  /\ mu \in Callers \cup {Cleaner, NoProc}
  /\ closed \in BOOLEAN /\ dbOpen \in BOOLEAN
  /\ cancel \in BOOLEAN /\ done \in BOOLEAN /\ cancelled \in BOOLEAN
  /\ pc \in [Procs -> CallerPCs \cup CleanerPCs \cup CloserPCs]
  /\ \A p \in Callers : pc[p] \in CallerPCs
  /\ \A p \in Closers : pc[p] \in CloserPCs
  /\ pc[Cleaner] \in CleanerPCs
  /\ call \in [Procs -> CallKinds \cup CleanupKinds]
  /\ \A p \in Callers : call[p] \in CallKinds
  /\ call[Cleaner] \in CleanupKinds

Init ==
  /\ readers = [p \in Procs |-> 0]
  /\ wPending = NoProc /\ wHolder = NoProc /\ mu = NoProc
  /\ closed = FALSE /\ dbOpen = TRUE
  /\ cancel \in CleanupAtOpen /\ done = cancel /\ cancelled = FALSE
  /\ pc = [p \in Procs |-> IF p # Cleaner THEN "idle"
                           ELSE IF cancel THEN "select" ELSE "off"]
  /\ call = [p \in Procs |-> IF p = Cleaner THEN "scan" ELSE "view"]

Goto(p, to) == pc' = [pc EXCEPT ![p] = to]

-----------------------------------------------------------------------------
(* The calls of a caller.  A program starts the cleanup before it closes   *)
(* the store, so that call is not made on a store marked closed.           *)
Call(p, k) ==
  /\ pc[p] = "idle"
  /\ k = "start" => ~closed
  /\ call' = [call EXCEPT ![p] = k]
  /\ Goto(p, CASE k \in {"locked", "start"} -> "wantMu"
               [] k = "raw" -> "unguarded"
               [] OTHER -> "wantR")
  /\ UNCHANGED <<locks, closed, dbOpen, cleanup>>

LockMu(p) ==
  /\ pc[p] = "wantMu"
  /\ mu = NoProc
  /\ mu' = p
  /\ Goto(p, CASE call[p] = "start" -> "starting"
               [] call[p] = "delete" -> "holdMu"
               [] OTHER -> "wantR")
  /\ UNCHANGED <<readers, wPending, wHolder, closed, dbOpen, cleanup, call>>

(* closeMu.RLock succeeds: nobody holds the lock for writing or waits to.  *)
RLockFree == wHolder = NoProc /\ wPending = NoProc

(* Mutant: View does not look at s.closed.                                 *)
RLockNoCheck(p) ==
  /\ pc[p] = "wantR"
  /\ RLockFree
  /\ readers' = [readers EXCEPT ![p] = @ + 1]
  /\ Goto(p, "txn")
  /\ UNCHANGED <<wPending, wHolder, mu, closed, dbOpen, cleanup, call>>

(* Entry of View, Update and Ready: RLock, read s.closed, and either give  *)
(* the lock back and fail or go on.  Ready gives it back in both cases.    *)
RLock(p) ==
  /\ pc[p] = "wantR"
  /\ RLockFree
  /\ IF ~closed /\ call[p] # "ready"
       THEN /\ readers' = [readers EXCEPT ![p] = @ + 1]
            /\ Goto(p, "txn")
       ELSE /\ Goto(p, CASE ~closed -> "unguarded"
                         [] call[p] = "locked" -> "holdMu"
                         [] p = Cleaner -> "select"
                         [] OTHER -> "idle")
            /\ UNCHANGED readers
  /\ UNCHANGED <<wPending, wHolder, mu, closed, dbOpen, cleanup, call>>

(* The db.View of Ready, or a transaction on the raw database, ends:       *)
(* Badger itself answers for a database closed under it.                   *)
EndUnguarded(p) ==
  /\ pc[p] = "unguarded"
  /\ Goto(p, "idle")
  /\ UNCHANGED <<locks, closed, dbOpen, cleanup, call>>

(* GetKnowledge calls View again inside the function of its own View.      *)
Nest(p) ==
  /\ pc[p] = "txn" /\ call[p] = "nested"
  /\ Goto(p, "wantR2")
  /\ UNCHANGED <<locks, closed, dbOpen, cleanup, call>>

RLockNested(p) ==
  /\ pc[p] = "wantR2"
  /\ RLockFree
  /\ IF closed
       THEN Goto(p, "resume") /\ UNCHANGED readers
       ELSE Goto(p, "txn2") /\ readers' = [readers EXCEPT ![p] = @ + 1]
  /\ UNCHANGED <<wPending, wHolder, mu, closed, dbOpen, cleanup, call>>

(* Mutant: the inner View keeps its read lock.                             *)
RUnlockNestedLeak(p) ==
  /\ pc[p] = "txn2"
  /\ Goto(p, "resume")
  /\ UNCHANGED <<locks, closed, dbOpen, cleanup, call>>

RUnlockNested(p) ==
  /\ pc[p] = "txn2"
  /\ readers' = [readers EXCEPT ![p] = @ - 1]
  /\ Goto(p, "resume")
  /\ UNCHANGED <<wPending, wHolder, mu, closed, dbOpen, cleanup, call>>

(* The end of View or Update: the transaction is over and the read lock    *)
(* is given back.                                                          *)
RUnlock(p) ==
  /\ pc[p] = "resume" \/ (pc[p] = "txn" /\ call[p] # "nested")
  /\ p \in Callers
  /\ readers' = [readers EXCEPT ![p] = @ - 1]
  /\ Goto(p, IF call[p] = "locked" THEN "holdMu" ELSE "idle")
  /\ UNCHANGED <<wPending, wHolder, mu, closed, dbOpen, cleanup, call>>

UnlockMu(p) ==
  /\ pc[p] = "holdMu" /\ p \in Callers
  /\ mu' = NoProc
  /\ Goto(p, "idle")
  /\ UNCHANGED <<readers, wPending, wHolder, closed, dbOpen, cleanup, call>>

-----------------------------------------------------------------------------
(* StartMemoryCleanup, under s.mu.                                         *)

(* Mutant: the check for a cleanup already running is dropped.             *)
StartNoCheck(p) ==
  /\ pc[p] = "starting"
  /\ cancel' = TRUE
  /\ Goto(p, "spawning")
  /\ UNCHANGED <<locks, closed, dbOpen, done, cancelled, call>>

StartCheck(p) ==
  /\ pc[p] = "starting"
  /\ IF cancel
       THEN Goto(p, "holdMu") /\ UNCHANGED cancel
       ELSE Goto(p, "spawning") /\ cancel' = TRUE
  /\ UNCHANGED <<locks, closed, dbOpen, done, cancelled, call>>

StartSpawn(p) ==
  /\ pc[p] = "spawning"
  /\ done' = TRUE
  /\ pc' = [pc EXCEPT ![p] = "holdMu", ![Cleaner] = "select"]
  /\ UNCHANGED <<locks, closed, dbOpen, cancel, cancelled, call>>

(* The context given to StartMemoryCleanup is cancelled by its owner.      *)
ContextDone ==
  /\ cancel /\ ~cancelled
  /\ cancelled' = TRUE
  /\ UNCHANGED <<locks, closed, dbOpen, cancel, done, pc, call>>

-----------------------------------------------------------------------------
(* The cleanup goroutine.  When the ticker and the context are both ready  *)
(* select takes either.                                                    *)
CleanupTick ==
  /\ pc[Cleaner] = "select"
  /\ call' = [call EXCEPT ![Cleaner] = "scan"]
  /\ Goto(Cleaner, "wantR")
  /\ UNCHANGED <<locks, closed, dbOpen, cleanup>>

CleanupExit ==
  /\ pc[Cleaner] = "select" /\ cancelled
  /\ Goto(Cleaner, "exited")
  /\ UNCHANGED <<locks, closed, dbOpen, cleanup, call>>

(* What follows a transaction or a removal of the cleanup: the next        *)
(* expired memory, or back to select when there is none left.              *)
CleanupNext(to) ==
  \/ to = "wantR" /\ call' = [call EXCEPT ![Cleaner] = "delete"]
  \/ to = "select" /\ UNCHANGED call

(* The scan, or one deleting transaction, ends.  A deletion that committed *)
(* goes on to s.mu to update the vector index; one that failed does not.   *)
CleanupRUnlock ==
  /\ pc[Cleaner] = "txn"
  /\ readers' = [readers EXCEPT ![Cleaner] = @ - 1]
  /\ \E to \in {"wantR", "select", "wantMu"} :
       /\ IF to = "wantMu" THEN call[Cleaner] = "delete" /\ UNCHANGED call
          ELSE CleanupNext(to)
       /\ Goto(Cleaner, to)
  /\ UNCHANGED <<wPending, wHolder, mu, closed, dbOpen, cleanup>>

CleanupUnlockMu ==
  /\ pc[Cleaner] = "holdMu"
  /\ mu' = NoProc
  /\ \E to \in {"wantR", "select"} : CleanupNext(to) /\ Goto(Cleaner, to)
  /\ UNCHANGED <<readers, wPending, wHolder, closed, dbOpen, cleanup>>

-----------------------------------------------------------------------------
(* Close.                                                                  *)
CloseCall(p) ==
  /\ pc[p] = "idle"
  /\ Goto(p, "wantW")
  /\ UNCHANGED <<locks, closed, dbOpen, cleanup, call>>

CloseAsk(p) ==
  /\ pc[p] = "wantW"
  /\ RLockFree
  /\ wPending' = p
  /\ Goto(p, "draining")
  /\ UNCHANGED <<readers, wHolder, mu, closed, dbOpen, cleanup, call>>

(* Mutant: Close of a store already closed tries again.                    *)
CloseLockRetry(p) ==
  /\ pc[p] = "draining"
  /\ \A q \in Procs : readers[q] = 0
  /\ wPending' = NoProc
  /\ closed' = TRUE
  /\ IF closed
       THEN Goto(p, "wantW") /\ UNCHANGED wHolder
       ELSE Goto(p, "cancelling") /\ wHolder' = p
  /\ UNCHANGED <<readers, mu, dbOpen, cleanup, call>>

(* The last reader left: closeMu is held for writing.  A store already     *)
(* closed returns at once; otherwise closed is set.                        *)
CloseLock(p) ==
  /\ pc[p] = "draining"
  /\ \A q \in Procs : readers[q] = 0
  /\ wPending' = NoProc
  /\ closed' = TRUE
  /\ IF closed
       THEN Goto(p, "returned") /\ UNCHANGED wHolder
       ELSE Goto(p, "cancelling") /\ wHolder' = p
  /\ UNCHANGED <<readers, mu, dbOpen, cleanup, call>>

(* s.cleanupCancel is read under closeMu but written under s.mu.           *)
CloseCancel(p) ==
  /\ pc[p] = "cancelling"
  /\ cancelled' = (cancelled \/ cancel)
  /\ Goto(p, "waiting")
  /\ UNCHANGED <<locks, closed, dbOpen, cancel, done, call>>

(* Mutant: the cleanup is cancelled but not waited for.                    *)
CloseNoWait(p) ==
  /\ pc[p] = "waiting"
  /\ Goto(p, "dbclose")
  /\ UNCHANGED <<locks, closed, dbOpen, cleanup, call>>

(* <-s.cleanupDone, if the channel exists.                                 *)
CloseWait(p) ==
  /\ pc[p] = "waiting"
  /\ done => pc[Cleaner] = "exited"
  /\ Goto(p, "dbclose")
  /\ UNCHANGED <<locks, closed, dbOpen, cleanup, call>>

CloseDB(p) ==
  /\ pc[p] = "dbclose"
  /\ dbOpen' = FALSE
  /\ wHolder' = NoProc
  /\ Goto(p, "returned")
  /\ UNCHANGED <<readers, wPending, mu, closed, cleanup, call>>

-----------------------------------------------------------------------------
(* A caller inside a call, without the choice of its next call.            *)
CallerStep(p) ==
  \/ LockMu(p) \/ RLock(p) \/ EndUnguarded(p) \/ Nest(p) \/ RLockNested(p)
  \/ RUnlockNested(p) \/ RUnlock(p) \/ UnlockMu(p)
  \/ StartCheck(p) \/ StartSpawn(p)

CleanerStep ==
  \/ LockMu(Cleaner) \/ RLock(Cleaner)
  \/ CleanupRUnlock \/ CleanupUnlockMu \/ CleanupExit

CloserStep(p) ==
  CloseAsk(p) \/ CloseLock(p) \/ CloseCancel(p) \/ CloseWait(p) \/ CloseDB(p)

Next ==
  \/ \E p \in Callers, k \in Calls : Call(p, k)
  \/ \E p \in Callers : CallerStep(p)
  \/ \E p \in Closers : CloseCall(p)
  \/ \E p \in Closers : CloserStep(p)
  \/ CleanupTick \/ CleanerStep \/ ContextDone

Spec == Init /\ [][Next]_vars

(* Every goroutine inside a call is scheduled.  Taking s.mu is strongly    *)
(* fair: a sync.Mutex hands itself to a waiter it has starved for 1 ms.    *)
(* Nothing is assumed of the calls made, the ticker or the context.        *)
Fairness ==
  /\ \A p \in Callers : WF_vars(CallerStep(p)) /\ SF_vars(LockMu(p))
  /\ \A p \in Closers : WF_vars(CloserStep(p))
  /\ WF_vars(CleanerStep) /\ SF_vars(LockMu(Cleaner))

FairSpec == Spec /\ Fairness

-----------------------------------------------------------------------------
(* Close drains: once the database is closed no goroutine is inside the    *)
(* function of a View or Update (store.go:65, "Close drains in-flight      *)
(* operations and closes the Badger database").                            *)
NoneInside == ~dbOpen => \A p \in Procs : pc[p] \notin InTxn

(* A call of Close that returned, the second of two concurrent ones too,   *)
(* leaves the database closed: its caller may reopen the directory.        *)
ClosedOnReturn == \A p \in Closers : pc[p] = "returned" => ~dbOpen

(* So a Close that has returned has drained all calls.                     *)
DrainedClose == NoneInside /\ ClosedOnReturn

(* StartMemoryCleanup is a no-op after the first call, from any goroutine: *)
(* no cleanup goroutine is launched while there is or was another.         *)
SingleCleanup == \A p \in Callers : pc[p] = "spawning" => pc[Cleaner] = "off"

(* A cleanup started before the store is shared does not outlive it: when  *)
(* the database is closed it has exited (store.go:129, "Stops when ctx is  *)
(* cancelled or Close() is called").                                       *)
CleanupStopped == cancel => [](~dbOpen => pc[Cleaner] = "exited")

(* Close always comes back, whatever calls are in flight (store.go:65,     *)
(* "Close drains in-flight operations and closes the Badger database").    *)
CloseReturns == \A p \in Closers : pc[p] = "wantW" ~> pc[p] = "returned"

(* A cleanup goroutine was launched, or a View is nested in another.       *)
Disturbed ==
  pc[Cleaner] # "off" \/ \E p \in Callers : call[p] = "nested" /\ pc[p] # "idle"

(* As long as nothing of that kind happens Close comes back, whatever      *)
(* calls are in flight and however many Close calls overlap, and so does   *)
(* every call, also one that a Close overtakes.                            *)
UndisturbedReturns ==
  /\ \A p \in Closers : pc[p] = "wantW" ~> pc[p] = "returned" \/ Disturbed
  /\ \A p \in Callers : pc[p] # "idle" ~> pc[p] = "idle" \/ Disturbed
=============================================================================
