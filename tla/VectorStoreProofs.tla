-------------------------- MODULE VectorStoreProofs --------------------------
(***************************************************************************)
(* Proofs about VectorStore for any callers, collections and embeddings:   *)
(* a collection name behaves as the set of Collection, indexes hold what   *)
(* is stored and searches find it but for what an index has missed.        *)
(***************************************************************************)
EXTENDS VectorStore, TLAPS

-----------------------------------------------------------------------------
(* Types, and the mutex.                                                   *)

Locking == {"inserting", "deleting", "dropping"}

MuInv == \A p \in Callers : call[p].pc \in Locking <=> mu = p

LEMMA CallUpdates ==
  ASSUME NEW c \in Call
  PROVE  /\ \A to \in PCs : [c EXCEPT !.pc = to] \in Call
         /\ \A E \in SUBSET Embs : /\ [c EXCEPT !.embs = E] \in Call
                                   /\ [c EXCEPT !.owed = E] \in Call
                                   /\ [c EXCEPT !.missed = E] \in Call
         /\ \A to \in PCs, E \in SUBSET Embs : [c EXCEPT !.pc = to, !.embs = E] \in Call
         /\ \A to \in PCs, E, F \in SUBSET Embs :
              /\ [c EXCEPT !.pc = to, !.embs = E, !.owed = F] \in Call
              /\ [c EXCEPT !.pc = to, !.embs = E, !.missed = F] \in Call
         /\ \A to \in PCs, k \in Colls : [c EXCEPT !.pc = to, !.cid = k] \in Call
         /\ [c EXCEPT !.snap = "written"] \in Call
BY DEF Call

LEMMA IdleIsCall == IdleCall \in Call /\ IdleCall.pc = "idle"
BY DEF IdleCall, Call, PCs

(* A step that gives p the call c and leaves to the others what they had,  *)
(* but for embeddings owed and missed and a noted snapshot.                *)
Others(p) ==
  \A q \in Callers \ {p} :
    /\ call'[q].pc = call[q].pc /\ call'[q].cid = call[q].cid
    /\ call'[q].embs = call[q].embs /\ call'[q].owed \subseteq call[q].owed
    /\ call[q].missed \subseteq call'[q].missed

CallsOK(c) ==
  /\ c \in [Callers -> Call]
  /\ \A p \in Callers : c[p].pc # "idle" => c[p].cid \in Colls

LEMMA MoveOK ==
  ASSUME CallsOK(call), NEW p \in Callers, NEW c \in Call, c.pc # "idle" => c.cid \in Colls,
         call' = [call EXCEPT ![p] = c]
  PROVE  CallsOK(call') /\ Others(p) /\ call'[p] = c
BY DEF CallsOK, Others

LEMMA ForgiveOK ==
  ASSUME CallsOK(call), NEW p \in Callers, NEW c \in Call, c.pc # "idle" => c.cid \in Colls,
         NEW k, NEW E, Forgive(p, c, k, E)
  PROVE  CallsOK(call') /\ Others(p) /\ call'[p] = c
<1>1. ASSUME NEW q \in Callers PROVE call'[q] \in Call
  <2>1. call[q] \in Call
    BY DEF CallsOK
  <2>2. call[q].owed \ E \in SUBSET Embs
    BY <2>1 DEF Call
  <2>3. [call[q] EXCEPT !.owed = call[q].owed \ E] \in Call
    BY <2>1, <2>2, CallUpdates
  <2>4. QED
    BY <2>1, <2>3 DEF Forgive
<1>2. ASSUME NEW q \in Callers, q # p
      PROVE  /\ call'[q].pc = call[q].pc /\ call'[q].cid = call[q].cid
             /\ call'[q].embs = call[q].embs /\ call'[q].owed \subseteq call[q].owed
             /\ call[q].missed \subseteq call'[q].missed
  BY <1>2 DEF Forgive, CallsOK, Call
<1>3. call'[p] = c /\ call' \in [Callers -> Call]
  BY <1>1 DEF Forgive
<1>4. QED
  BY <1>2, <1>3 DEF CallsOK, Others

LEMMA OverOK ==
  ASSUME CallsOK(call), NEW p \in Callers, NEW c \in Call, c.pc # "idle" => c.cid \in Colls,
         NEW k, NEW E \in SUBSET Embs, Over(p, c, k, E)
  PROVE  CallsOK(call') /\ Others(p) /\ call'[p] = c
<1>1. ASSUME NEW q \in Callers PROVE call'[q] \in Call
  <2>1. call[q] \in Call
    BY DEF CallsOK
  <2>2. call[q].missed \cup E \in SUBSET Embs
    BY <2>1 DEF Call
  <2>3. [call[q] EXCEPT !.missed = call[q].missed \cup E] \in Call
    BY <2>1, <2>2, CallUpdates
  <2>4. QED
    BY <2>1, <2>3 DEF Over
<1>2. ASSUME NEW q \in Callers, q # p
      PROVE  /\ call'[q].pc = call[q].pc /\ call'[q].cid = call[q].cid
             /\ call'[q].embs = call[q].embs /\ call'[q].owed = call[q].owed
             /\ call[q].missed \subseteq call'[q].missed
  <2>1. call[q] \in Call
    BY DEF CallsOK
  <2>2. CASE call[q].cid = k /\ call[q].pc \in {"installing", "saving"}
    <3>1. call'[q] = [call[q] EXCEPT !.missed = @ \cup E]
      BY <1>2, <2>2 DEF Over
    <3>2. QED
      BY <2>1, <3>1 DEF Call
  <2>3. CASE ~(call[q].cid = k /\ call[q].pc \in {"installing", "saving"})
    BY <1>2, <2>3 DEF Over
  <2>4. QED
    BY <2>2, <2>3
<1>3. call'[p] = c /\ call' \in [Callers -> Call]
  BY <1>1 DEF Over
<1>4. QED
  BY <1>2, <1>3 DEF CallsOK, Others

(* What loads and saves of k have at hand has missed E.                    *)
LEMMA OverMissed ==
  ASSUME call \in [Callers -> Call], NEW p \in Callers, NEW c, NEW k, NEW E, Over(p, c, k, E),
         NEW q \in Callers \ {p}, call[q].cid = k, call[q].pc \in {"installing", "saving"}
  PROVE  E \subseteq call'[q].missed
<1>1. call'[q] = [call[q] EXCEPT !.missed = @ \cup E] /\ call[q] \in Call
  BY DEF Over
<1>2. QED
  BY <1>1 DEF Call

LEMMA ForgiveOwed ==
  ASSUME call \in [Callers -> Call], NEW p \in Callers, NEW c, NEW k, NEW E, Forgive(p, c, k, E),
         NEW q \in Callers \ {p}, call[q].cid = k
  PROVE  call'[q].owed \cap E = {}
<1>1. call'[q] = [call[q] EXCEPT !.owed = @ \ E] /\ call[q] \in Call
  BY DEF Forgive
<1>2. QED
  BY <1>1 DEF Call

Types ==
  /\ col \in Colls \cup {NoColl}
  /\ emb \in [Colls -> SUBSET Embs]
  /\ fts \in [Colls -> SUBSET Embs]
  /\ snap \in [Colls -> {NoIndex} \cup SUBSET Embs]
  /\ index \in [Colls -> {NoIndex} \cup SUBSET Embs]
  /\ missed \in [Colls -> SUBSET Embs]
  /\ snapMissed \in [Colls -> SUBSET Embs]
  /\ used \subseteq Colls \cup Embs
  /\ mu \in Callers \cup {NoCaller}
  /\ CallsOK(call)
  /\ setup \in Setups

LEMMA TypesAre == TypeOK <=> Types
BY DEF TypeOK, Types, CallsOK

Inv0 == Types /\ MuInv

(* What a step of caller p does to the calls, and that types and mutex     *)
(* survive it.                                                             *)
LEMMA BeginKeeps ==
  ASSUME Inv0, UNCHANGED setup, NEW p \in Callers, Begin(p)
  PROVE  Inv0' /\ Others(p)
<1> USE VectorAssumption
<1>0. CallsOK(call) /\ call[p] \in Call /\ IdleCall \in Call /\ (col # NoColl => col \in Colls)
  BY IdleIsCall DEF Inv0, Types, CallsOK
<1>1. ASSUME NEW op \in Ops, NEW E \in SUBSET Embs, Start(p, op, E), op \notin {"create", "drop"},
             UNCHANGED <<db, idx, mu>>, used' \subseteq used \cup E, used \subseteq used'
      PROVE  Inv0' /\ Others(p)
  <2> DEFINE c == [IdleCall EXCEPT !.pc = op, !.cid = col, !.embs = E]
  <2>1. c \in Call /\ c.cid \in Colls /\ c.pc = op /\ op \notin Locking
    BY <1>0, <1>1 DEF Start, IdleCall, Call, PCs, OpKinds, Locking
  <2>2. call' = [call EXCEPT ![p] = c] /\ call[p].pc = "idle"
    BY <1>1 DEF Start
  <2> HIDE DEF c
  <2>3. CallsOK(call') /\ Others(p) /\ call'[p] = c
    BY <1>0, <2>1, <2>2, MoveOK
  <2>4. MuInv'
    BY <1>1, <2>1, <2>2, <2>3 DEF Inv0, MuInv, Others, Locking
  <2>5. Types'
    BY <1>1, <2>3 DEF Inv0, Types, db, idx
  <2>6. QED
    BY <2>3, <2>4, <2>5 DEF Inv0
<1>2. ASSUME NEW E \in SUBSET Embs, StartUpsert(p, E) PROVE Inv0' /\ Others(p)
  BY <1>1, <1>2 DEF StartUpsert, Start
<1>3. ASSUME NEW E \in SUBSET Embs, StartDelete(p, E) PROVE Inv0' /\ Others(p)
  BY <1>1, <1>3 DEF StartDelete, Start
<1>4. ASSUME NEW op \in Ops, StartOther(p, op) PROVE Inv0' /\ Others(p)
  <2>1. {} \in SUBSET Embs /\ Start(p, op, {}) /\ op \notin {"create", "drop"}
        /\ UNCHANGED <<db, idx, used, mu>>
    BY <1>4 DEF StartOther
  <2>2. QED
    BY <1>1, <2>1
<1>5. CASE StartSearch(p)
  <2> DEFINE c == [IdleCall EXCEPT !.pc = "search", !.cid = col, !.owed = Settled(col)]
  <2>1. Settled(col) \subseteq Embs
    BY <1>0, <1>5 DEF StartSearch, Settled, Inv0, Types
  <2>2. c \in Call /\ c.cid \in Colls /\ c.pc = "search"
    BY <1>0, <1>5, <2>1 DEF StartSearch, IdleCall, Call, PCs, OpKinds
  <2>3. call' = [call EXCEPT ![p] = c] /\ call[p].pc = "idle"
    BY <1>5 DEF StartSearch
  <2> HIDE DEF c
  <2>4. CallsOK(call') /\ Others(p) /\ call'[p] = c
    BY <1>0, <2>2, <2>3, MoveOK
  <2>5. MuInv'
    BY <1>5, <2>2, <2>3, <2>4 DEF Inv0, MuInv, Others, Locking, StartSearch
  <2>6. Types'
    BY <1>5, <2>4 DEF Inv0, Types, db, idx, StartSearch
  <2>7. QED
    BY <2>4, <2>5, <2>6 DEF Inv0
<1>6. ASSUME NEW k \in Colls, Create(p, k) PROVE Inv0' /\ Others(p)
  <2>1. call' = call /\ col' = k /\ used' = used \cup {k} /\ UNCHANGED <<emb, fts, snap, snapMissed, idx, mu>>
    BY <1>6 DEF Create
  <2>2. QED
    BY <2>1 DEF Inv0, Types, MuInv, Others, idx
<1>7. CASE DropBegin(p)
  <2> DEFINE c == [IdleCall EXCEPT !.pc = "dropping", !.cid = col, !.keys = fts[col],
                     !.snap = IF snap[col] = NoIndex THEN "unseen" ELSE "seen"]
  <2>1. c \in Call /\ c.cid \in Colls /\ c.pc = "dropping"
    BY <1>0, <1>7 DEF DropBegin, IdleCall, Call, PCs, Inv0, Types
  <2>2. Forgive(p, c, col, Embs) /\ call[p].pc = "idle" /\ mu = NoCaller /\ mu' = p
    BY <1>7 DEF DropBegin, Free
  <2> HIDE DEF c
  <2>3. CallsOK(call') /\ Others(p) /\ call'[p] = c
    BY <1>0, <2>1, <2>2, ForgiveOK
  <2>4. MuInv'
    BY <2>1, <2>2, <2>3 DEF Inv0, MuInv, Others, Locking
  <2>5. Types'
    BY <1>7, <2>3 DEF Inv0, Types, db, idx, DropBegin
  <2>6. QED
    BY <2>3, <2>4, <2>5 DEF Inv0
<1>8. QED
  BY <1>2, <1>3, <1>4, <1>5, <1>6, <1>7 DEF Begin

(* The record of p moves on, the mutex as its control demands.             *)
LEMMA StepMoves ==
  ASSUME Inv0, UNCHANGED setup, NEW p \in Callers, NEW c \in Call, c.cid \in Colls \/ c = IdleCall,
         call[p].pc # "idle",
         \/ call' = [call EXCEPT ![p] = c]
         \/ \E k, E : Forgive(p, c, k, E)
         \/ \E k : \E E \in SUBSET Embs : Over(p, c, k, E),
         IF c.pc \in Locking
         THEN mu' = p /\ (mu = NoCaller \/ call[p].pc \in Locking)
         ELSE mu' = IF call[p].pc \in Locking THEN NoCaller ELSE mu
  PROVE  CallsOK(call') /\ MuInv' /\ Others(p) /\ call'[p] = c
<1>1. CallsOK(call) /\ (c.pc # "idle" => c.cid \in Colls)
  BY IdleIsCall DEF Inv0, Types
<1>2. CallsOK(call') /\ Others(p) /\ call'[p] = c
  BY <1>1, MoveOK, ForgiveOK, OverOK
<1>3. MuInv'
  BY <1>2, VectorAssumption DEF Inv0, MuInv, Others
<1>4. QED
  BY <1>2, <1>3

LEMMA AgedOK ==
  ASSUME Types, NEW k \in Colls, NEW E \in SUBSET Embs
  PROVE  Aged(k, E) \in [Colls -> SUBSET Embs]
BY DEF Types, Aged

LEMMA StepKeeps ==
  ASSUME Inv0, UNCHANGED setup, NEW p \in Callers, Step(p)
  PROVE  Inv0' /\ Others(p)
<1> USE VectorAssumption
<1>0. CallsOK(call) /\ call[p] \in Call /\ IdleCall \in Call /\ IdleCall.pc = "idle"
  BY IdleIsCall DEF Inv0, Types, CallsOK
<1>1. call[p].pc # "idle" => call[p].cid \in Colls /\ call[p].embs \in SUBSET Embs
                             /\ call[p].keys \in SUBSET Embs
  BY <1>0 DEF CallsOK, Call
<1>2. Types /\ MuInv
  BY DEF Inv0
<1> DEFINE k == call[p].cid
<1>24. /\ col # NoColl => col \in Colls
       /\ call[p].pc # "idle" => /\ emb[k] \in SUBSET Embs
                                 /\ index[k] # NoIndex => index[k] \in SUBSET Embs
                                 /\ snap[k] # NoIndex => snap[k] \in SUBSET Embs
  BY <1>1, <1>2 DEF Types
<1>3. CASE DropCommit(p)
  <2>1. /\ Over(p, IdleCall, k, Embs) /\ call[p].pc = "dropping" /\ mu' = NoCaller
        /\ col' = NoColl /\ emb' = [emb EXCEPT ![k] = {}] /\ fts' = [fts EXCEPT ![k] = @ \ call[p].keys]
        /\ snap' = snap \/ snap' = [snap EXCEPT ![k] = NoIndex]
        /\ snapMissed' \in {[snapMissed EXCEPT ![k] = {}], Aged(k, Embs)}
        /\ UNCHANGED <<idx, used>>
    BY <1>3 DEF DropCommit
  <2>2. CallsOK(call') /\ MuInv' /\ Others(p)
    BY <1>0, <2>1, StepMoves DEF Locking
  <2>3. Types'
    BY <1>1, <1>2, <2>1, <2>2, AgedOK DEF Types, idx
  <2>4. QED
    BY <2>2, <2>3 DEF Inv0
<1>25. CASE DropFail(p)
  <2>1. /\ call' = [call EXCEPT ![p] = IdleCall] /\ call[p].pc = "dropping" /\ mu' = NoCaller
        /\ UNCHANGED <<db, idx, used>>
    BY <1>25 DEF DropFail, Return
  <2>2. CallsOK(call') /\ MuInv' /\ Others(p)
    BY <1>0, <2>1, StepMoves DEF Locking
  <2>3. Types'
    BY <1>1, <1>2, <2>1, <2>2 DEF Types, db, idx
  <2>4. QED
    BY <2>2, <2>3 DEF Inv0
<1>26. CASE Abort(p)
  <2>1. /\ call' = [call EXCEPT ![p] = IdleCall] /\ call[p].pc \in {"upsert", "deleteDoc", "saving"}
        /\ UNCHANGED <<db, idx, used, mu>>
    BY <1>26 DEF Abort, Return
  <2>2. CallsOK(call') /\ MuInv' /\ Others(p)
    BY <1>0, <2>1, StepMoves DEF Locking
  <2>3. Types'
    BY <1>1, <1>2, <2>1, <2>2 DEF Types, db, idx
  <2>4. QED
    BY <2>2, <2>3 DEF Inv0
<1>4. CASE UpsertCommit(p)
  <2> DEFINE c == [call[p] EXCEPT !.pc = "inserting"]
  <2>1. /\ call' = [call EXCEPT ![p] = c] /\ call[p].pc = "upsert" /\ mu' = p /\ mu = NoCaller
        /\ emb' = [emb EXCEPT ![k] = @ \cup call[p].embs]
        /\ UNCHANGED <<col, fts, snap, snapMissed, idx, used>>
    BY <1>0, <1>4 DEF UpsertCommit, Goto, Free, CallsOK
  <2>2. c \in Call /\ c.pc = "inserting" /\ c.cid = k
    BY <1>0, CallUpdates, ZenonT(60) DEF PCs, Call
  <2> HIDE DEF c
  <2>3. CallsOK(call') /\ MuInv' /\ Others(p)
    BY <1>1, <2>1, <2>2, StepMoves DEF Locking
  <2>4. Types'
    BY <1>1, <1>2, <2>1, <2>3 DEF Types, db, idx
  <2>5. QED
    BY <2>3, <2>4 DEF Inv0
<1>5. CASE UpsertIndex(p)
  <2> DEFINE c == [call[p] EXCEPT !.pc = "recheck"]
  <2>1. /\ Over(p, c, k, call[p].embs) /\ call[p].pc = "inserting" /\ mu' = NoCaller
        /\ index' = IF index[k] = NoIndex THEN index
                    ELSE [index EXCEPT ![k] = @ \cup call[p].embs]
        /\ missed' = [missed EXCEPT ![k] = @ \ call[p].embs]
        /\ snapMissed' = Aged(k, call[p].embs)
        /\ UNCHANGED <<col, emb, fts, snap, used>>
    BY <1>5 DEF UpsertIndex
  <2>2. c \in Call /\ c.pc = "recheck" /\ c.cid = k
    BY <1>0, CallUpdates, ZenonT(60) DEF PCs, Call
  <2> HIDE DEF c
  <2>3. CallsOK(call') /\ MuInv' /\ Others(p)
    BY <1>1, <2>1, <2>2, StepMoves DEF Locking
  <2>4. Types'
    BY <1>1, <1>2, <2>1, <2>3, AgedOK DEF Types
  <2>5. QED
    BY <2>3, <2>4 DEF Inv0
<1>6. ASSUME Recheck(p), col = NoColl PROVE Inv0' /\ Others(p)
  <2>1. /\ call' = [call EXCEPT ![p] = IdleCall] /\ call[p].pc = "recheck"
        /\ UNCHANGED <<db, idx, used, mu>>
    BY <1>6 DEF Recheck, Return
  <2>2. CallsOK(call') /\ MuInv' /\ Others(p)
    BY <1>0, <2>1, StepMoves DEF Locking
  <2>3. Types'
    BY <1>1, <1>2, <2>1, <2>2 DEF Types, db, idx
  <2>4. QED
    BY <2>2, <2>3 DEF Inv0
<1>7. CASE Recheck(p) /\ col # NoColl
  <2> DEFINE c == [call[p] EXCEPT !.pc = "text", !.cid = col]
  <2>1. /\ call' = [call EXCEPT ![p] = c] /\ call[p].pc = "recheck"
        /\ UNCHANGED <<db, idx, used, mu>>
    BY <1>0, <1>7 DEF Recheck, CallsOK, db, idx
  <2>2. c \in Call /\ c.pc = "text" /\ c.cid \in Colls
    BY <1>0, <1>7, <1>24, <2>1, CallUpdates, ZenonT(60) DEF PCs, Call
  <2> HIDE DEF c
  <2>3. CallsOK(call') /\ MuInv' /\ Others(p)
    BY <1>1, <2>1, <2>2, StepMoves DEF Locking
  <2>4. Types'
    BY <1>1, <1>2, <2>1, <2>3 DEF Types, db, idx
  <2>5. QED
    BY <2>3, <2>4 DEF Inv0
<1>8. ASSUME NEW e \in Embs, IndexFTS(p, e) PROVE Inv0' /\ Others(p)
  <2> DEFINE c == IF call[p].embs = {e} THEN IdleCall
                  ELSE [call[p] EXCEPT !.embs = call[p].embs \ {e}]
  <2>1. /\ call' = [call EXCEPT ![p] = c] /\ call[p].pc = "text"
        /\ fts' = [fts EXCEPT ![k] = @ \cup {e}] \/ UNCHANGED fts
        /\ UNCHANGED <<col, emb, snap, snapMissed, idx, used, mu>>
    BY <1>0, <1>8 DEF IndexFTS, Return, CallsOK
  <2>2. call[p].embs \ {e} \in SUBSET Embs /\ call[p].pc = "text"
    BY <1>0, <2>1 DEF Call
  <2>3. c \in Call /\ c.pc \in {"idle", "text"} /\ (c = IdleCall \/ c.cid = k)
    BY <1>0, <2>2, CallUpdates DEF Call
  <2> HIDE DEF c
  <2>4. CallsOK(call') /\ MuInv' /\ Others(p)
    BY <1>1, <2>1, <2>3, StepMoves DEF Locking
  <2>5. Types'
    BY <1>1, <1>2, <2>1, <2>4 DEF Types, idx
  <2>6. QED
    BY <2>4, <2>5 DEF Inv0
<1>9. ASSUME NEW E \in SUBSET Embs, Remove(p, E), call[p].pc \in {"delete", "deleteDoc"}
      PROVE  Inv0' /\ Others(p)
  <2> DEFINE c == [call[p] EXCEPT !.pc = "deleting", !.embs = E, !.keys = fts[k] \cap E]
  <2>1. /\ Forgive(p, c, k, E) /\ mu = NoCaller /\ mu' = p
        /\ index' = IF index[k] = NoIndex THEN index ELSE [index EXCEPT ![k] = @ \ E]
        /\ UNCHANGED <<db, missed, used>>
    BY <1>9 DEF Remove, Free
  <2>2. c \in Call /\ c.pc = "deleting" /\ c.cid = k
    BY <1>0, <1>9 DEF PCs, Call
  <2> HIDE DEF c
  <2>3. CallsOK(call') /\ MuInv' /\ Others(p)
    BY <1>1, <1>9, <2>1, <2>2, StepMoves DEF Locking
  <2>4. Types'
    BY <1>1, <1>2, <1>9, <2>1, <2>3 DEF Types, db, idx
  <2>5. QED
    BY <2>3, <2>4 DEF Inv0
<1>10. CASE DeleteBegin(p)
  BY <1>1, <1>9, <1>10 DEF DeleteBegin
<1>11. ASSUME NEW d \in Docs, DeleteDocBegin(p, d) PROVE Inv0' /\ Others(p)
  <2> DEFINE E == {e \in emb[k] : DocOf[e] = d}
  <2>1. E \in SUBSET Embs
    BY <1>1, <1>2, <1>11 DEF DeleteDocBegin, Types
  <2>2. Remove(p, E) /\ call[p].pc = "deleteDoc"
    BY <1>11 DEF DeleteDocBegin
  <2> HIDE DEF E
  <2>3. QED
    BY <1>9, <2>1, <2>2
<1>12. CASE DeleteCommit(p)
  <2>1. /\ Over(p, IdleCall, k, call[p].embs) /\ call[p].pc = "deleting"
        /\ mu' = NoCaller
        /\ emb' = [emb EXCEPT ![k] = @ \ call[p].embs]
        /\ fts' = [fts EXCEPT ![k] = @ \ call[p].keys]
        /\ missed' = [missed EXCEPT ![k] = @ \ call[p].embs]
        /\ snapMissed' = Aged(k, call[p].embs)
        /\ UNCHANGED <<col, snap, index, used>>
    BY <1>12 DEF DeleteCommit
  <2>2. CallsOK(call') /\ MuInv' /\ Others(p)
    BY <1>0, <1>1, <2>1, StepMoves DEF Locking
  <2>3. Types'
    BY <1>1, <1>2, <2>1, <2>2, AgedOK DEF Types
  <2>4. QED
    BY <2>2, <2>3 DEF Inv0
<1>28. CASE DeleteFail(p)
  <2>1. /\ Over(p, IdleCall, k, call[p].embs) /\ call[p].pc = "deleting"
        /\ mu' = NoCaller
        /\ missed' = IF index[k] = NoIndex THEN missed
                     ELSE [missed EXCEPT ![k] = @ \cup call[p].embs]
        /\ snapMissed' = Aged(k, call[p].embs)
        /\ UNCHANGED <<col, emb, fts, snap, index, used>>
    BY <1>28 DEF DeleteFail
  <2>2. CallsOK(call') /\ MuInv' /\ Others(p)
    BY <1>0, <1>1, <2>1, StepMoves DEF Locking
  <2>3. Types'
    BY <1>1, <1>2, <2>1, <2>2, AgedOK DEF Types
  <2>4. QED
    BY <2>2, <2>3 DEF Inv0
<1>13. CASE SearchIndex(p)
  <2> DEFINE E == IF index[k] \in {NoIndex, {}} THEN emb[k] ELSE index[k]
             F == IF index[k] \in {NoIndex, {}} THEN call[p].owed ELSE call[p].owed \ missed[k]
             c == [call[p] EXCEPT !.pc = "scanning", !.embs = E, !.owed = F]
  <2>1. call[p].pc = "search" /\ UNCHANGED <<db, idx, used, mu>>
    BY <1>13 DEF SearchIndex
  <2>2. call' = [call EXCEPT ![p] = c]
    <3>1. CASE index[k] \in {NoIndex, {}}
      <4>1. [call[p] EXCEPT !.pc = "scanning", !.embs = emb[k]]
              = [call[p] EXCEPT !.pc = "scanning", !.embs = emb[k], !.owed = call[p].owed]
        BY <1>0 DEF Call
      <4>2. QED
        BY <1>0, <1>13, <3>1, <4>1 DEF SearchIndex, CallsOK
    <3>2. CASE index[k] \notin {NoIndex, {}}
      BY <1>0, <1>13, <3>2 DEF SearchIndex, CallsOK
    <3>3. QED
      BY <3>1, <3>2
  <2>3. E \in SUBSET Embs /\ F \in SUBSET Embs /\ "scanning" \in PCs
    BY <1>0, <1>24, <2>1 DEF PCs, Call
  <2> HIDE DEF E, F
  <2>4. c \in Call /\ c.pc = "scanning" /\ c.cid = k
    BY <1>0, <2>3, CallUpdates, ZenonT(60) DEF Call
  <2> HIDE DEF c
  <2>5. CallsOK(call') /\ MuInv' /\ Others(p)
    BY <1>1, <2>1, <2>2, <2>4, StepMoves DEF Locking
  <2>6. Types'
    BY <1>1, <1>2, <2>1, <2>5 DEF Types, db, idx
  <2>7. QED
    BY <2>5, <2>6 DEF Inv0
<1>14. CASE SearchLoad(p)
  <2> DEFINE c == [call[p] EXCEPT !.pc = "answered", !.embs = @ \cap emb[k]]
  <2>1. /\ call' = [call EXCEPT ![p] = c] /\ call[p].pc = "scanning"
        /\ UNCHANGED <<db, idx, used, mu>>
    BY <1>0, <1>14 DEF SearchLoad, CallsOK, db, idx
  <2>2. c \in Call /\ c.pc = "answered" /\ c.cid = k
    BY <1>0, <1>24, <2>1, CallUpdates, ZenonT(60) DEF PCs, Call
  <2> HIDE DEF c
  <2>3. CallsOK(call') /\ MuInv' /\ Others(p)
    BY <1>1, <2>1, <2>2, StepMoves DEF Locking
  <2>4. Types'
    BY <1>1, <1>2, <2>1, <2>3 DEF Types, db, idx
  <2>5. QED
    BY <2>3, <2>4 DEF Inv0
<1>15. CASE SearchReturn(p)
  <2>1. /\ call' = [call EXCEPT ![p] = IdleCall] /\ call[p].pc = "answered"
        /\ UNCHANGED <<db, idx, used, mu>>
    BY <1>15 DEF SearchReturn, Return
  <2>2. CallsOK(call') /\ MuInv' /\ Others(p)
    BY <1>0, <2>1, StepMoves DEF Locking
  <2>3. Types'
    BY <1>1, <1>2, <2>1, <2>2 DEF Types, db, idx
  <2>4. QED
    BY <2>2, <2>3 DEF Inv0
<1>16. CASE LoadSnapshot(p) /\ snap[k] = NoIndex
  <2> DEFINE c == [call[p] EXCEPT !.pc = "reading"]
  <2>1. /\ call' = [call EXCEPT ![p] = c] /\ call[p].pc = "load"
        /\ UNCHANGED <<db, idx, used, mu>>
    BY <1>0, <1>16 DEF LoadSnapshot, CallsOK, db, idx
  <2>2. c \in Call /\ c.pc = "reading" /\ c.cid = k
    BY <1>0, <1>24, <2>1, CallUpdates, ZenonT(60) DEF PCs, Call
  <2> HIDE DEF c
  <2>3. CallsOK(call') /\ MuInv' /\ Others(p)
    BY <1>1, <2>1, <2>2, StepMoves DEF Locking
  <2>4. Types'
    BY <1>1, <1>2, <2>1, <2>3 DEF Types, db, idx
  <2>5. QED
    BY <2>3, <2>4 DEF Inv0
<1>17. CASE LoadSnapshot(p) /\ snap[k] # NoIndex
  <2> DEFINE E == snap[k]
             F == snapMissed[k]
             c == [call[p] EXCEPT !.pc = "installing", !.embs = E, !.missed = F]
  <2>1. /\ call' = [call EXCEPT ![p] = c] /\ call[p].pc = "load"
        /\ UNCHANGED <<db, idx, used, mu>>
    BY <1>0, <1>17 DEF LoadSnapshot, CallsOK
  <2>2. E \in SUBSET Embs /\ F \in SUBSET Embs /\ "installing" \in PCs
    BY <1>1, <1>2, <1>17, <1>24, <2>1 DEF PCs, Types
  <2> HIDE DEF E, F
  <2>3. c \in Call /\ c.pc = "installing" /\ c.cid = k
    BY <1>0, <2>2, CallUpdates DEF Call
  <2> HIDE DEF c
  <2>4. CallsOK(call') /\ MuInv' /\ Others(p)
    BY <1>1, <2>1, <2>3, StepMoves DEF Locking
  <2>5. Types'
    BY <1>1, <1>2, <2>1, <2>4 DEF Types, db, idx
  <2>6. QED
    BY <2>4, <2>5 DEF Inv0
<1>18. CASE RebuildDrop(p)
  <2> DEFINE c == [call[p] EXCEPT !.pc = "reading"]
  <2>1. /\ call' = [call EXCEPT ![p] = c] /\ call[p].pc = "rebuild"
        /\ index' = [index EXCEPT ![k] = NoIndex] /\ missed' = [missed EXCEPT ![k] = {}]
        /\ UNCHANGED <<db, used, mu>>
    BY <1>0, <1>18 DEF RebuildDrop, Goto, CallsOK, db, idx
  <2>2. c \in Call /\ c.pc = "reading" /\ c.cid = k
    BY <1>0, <1>24, <2>1, CallUpdates, ZenonT(60) DEF PCs, Call
  <2> HIDE DEF c
  <2>3. CallsOK(call') /\ MuInv' /\ Others(p)
    BY <1>1, <2>1, <2>2, StepMoves DEF Locking
  <2>4. Types'
    BY <1>1, <1>2, <2>1, <2>3 DEF Types, db, idx
  <2>5. QED
    BY <2>3, <2>4 DEF Inv0
<1>19. CASE ReadVectors(p)
  <2> DEFINE c == [call[p] EXCEPT !.pc = "installing", !.embs = emb[k]]
  <2>1. /\ call' = [call EXCEPT ![p] = c] /\ call[p].pc = "reading"
        /\ UNCHANGED <<db, idx, used, mu>>
    BY <1>0, <1>19 DEF ReadVectors, CallsOK, db, idx
  <2>2. c \in Call /\ c.pc = "installing" /\ c.cid = k
    BY <1>0, <1>24, <2>1, CallUpdates, ZenonT(60) DEF PCs, Call
  <2> HIDE DEF c
  <2>3. CallsOK(call') /\ MuInv' /\ Others(p)
    BY <1>1, <2>1, <2>2, StepMoves DEF Locking
  <2>4. Types'
    BY <1>1, <1>2, <2>1, <2>3 DEF Types, db, idx
  <2>5. QED
    BY <2>3, <2>4 DEF Inv0
<1>20. CASE Install(p)
  <2>1. /\ call' = [call EXCEPT ![p] = IdleCall] /\ call[p].pc = "installing"
        /\ index' = [index EXCEPT ![k] = call[p].embs]
        /\ missed' = [missed EXCEPT ![k] = call[p].missed]
        /\ UNCHANGED <<db, used, mu>>
    BY <1>20 DEF Install, Return
  <2>2. CallsOK(call') /\ MuInv' /\ Others(p)
    BY <1>0, <2>1, StepMoves DEF Locking
  <2>3. call[p].missed \in SUBSET Embs
    BY <1>0 DEF Call
  <2>4. Types'
    BY <1>1, <1>2, <2>1, <2>2, <2>3 DEF Types, db
  <2>5. QED
    BY <2>2, <2>4 DEF Inv0
<1>21. CASE SaveRead(p)
  <2> DEFINE E == IF setup = "ignored" THEN {} ELSE index[k]
             F == IF setup = "ignored" THEN Embs ELSE missed[k]
             c == IF index[k] = NoIndex THEN IdleCall
                  ELSE [call[p] EXCEPT !.pc = "saving", !.embs = E, !.missed = F]
  <2>1. /\ call' = [call EXCEPT ![p] = c] /\ call[p].pc = "save"
        /\ UNCHANGED <<db, idx, used, mu>>
    BY <1>0, <1>21 DEF SaveRead, Return, CallsOK
  <2>2. F \in SUBSET Embs /\ (index[k] # NoIndex => E \in SUBSET Embs) /\ "saving" \in PCs
    BY <1>1, <1>2, <2>1 DEF Types, PCs
  <2> HIDE DEF E, F
  <2>3. c \in Call /\ c.pc \in {"idle", "saving"} /\ (c = IdleCall \/ c.cid = k)
    BY <1>0, <1>24, <2>1, <2>2, CallUpdates, ZenonT(60) DEF Call
  <2> HIDE DEF c
  <2>4. CallsOK(call') /\ MuInv' /\ Others(p)
    BY <1>1, <2>1, <2>3, StepMoves DEF Locking
  <2>5. Types'
    BY <1>1, <1>2, <2>1, <2>4 DEF Types, db, idx
  <2>6. QED
    BY <2>4, <2>5 DEF Inv0
<1>22. CASE SaveCommit(p)
  <2>1. /\ snap' = [snap EXCEPT ![k] = call[p].embs] /\ call[p].pc = "saving"
        /\ snapMissed' = [snapMissed EXCEPT ![k] = call[p].missed]
        /\ call[p].missed \in SUBSET Embs
        /\ UNCHANGED <<col, emb, fts, idx, used, mu>>
    BY <1>0, <1>22 DEF SaveCommit, Call
  <2>2. call'[p] = IdleCall /\ Others(p)
    BY <1>0, <1>22 DEF SaveCommit, Others, CallsOK, Call
  <2>3. ASSUME NEW q \in Callers PROVE call'[q] \in Call
    BY <1>0, <1>22, CallUpdates DEF SaveCommit, CallsOK
  <2>4. CallsOK(call')
    BY <1>0, <1>22, <2>2, <2>3 DEF SaveCommit, CallsOK, Others
  <2>5. MuInv'
    BY <1>0, <1>2, <2>1, <2>2 DEF MuInv, Others, Locking
  <2>6. Types'
    BY <1>1, <1>2, <2>1, <2>4 DEF Types, idx
  <2>7. QED
    BY <2>2, <2>5, <2>6 DEF Inv0
<1>23. QED
  BY <1>3, <1>4, <1>5, <1>6, <1>7, <1>8, <1>10, <1>11, <1>12, <1>13, <1>14, <1>15, <1>16, <1>17,
     <1>18, <1>19, <1>20, <1>21, <1>22, <1>25, <1>26, <1>28 DEF Step

LEMMA InitTypes == Init => Inv0
<1> SUFFICES ASSUME Init PROVE Inv0
  OBVIOUS
<1>1. CallsOK(call) /\ \A p \in Callers : call[p].pc = "idle"
  BY IdleIsCall DEF Init, CallsOK
<1>2. QED
  BY <1>1, VectorAssumption DEF Init, Inv0, Types, MuInv, Locking

LEMMA ReopenTypes == Inv0 /\ Reopen /\ UNCHANGED setup => Inv0'
<1> SUFFICES ASSUME Inv0, Reopen, UNCHANGED setup PROVE Inv0'
  OBVIOUS
<1>1. CallsOK(call') /\ \A p \in Callers : call'[p].pc = "idle"
  BY IdleIsCall DEF Reopen, CallsOK
<1>2. ASSUME NEW k \in Colls PROVE Aged(k, Pending(k))[k] \in SUBSET Embs
  <2>1. Pending(k) \in SUBSET Embs
    BY VectorAssumption DEF Pending, Writes, Inv0, Types, CallsOK, Call
  <2>2. QED
    BY <2>1, AgedOK DEF Inv0
<1>3. Types'
  BY <1>1, <1>2, VectorAssumption DEF Reopen, Inv0, Types
<1>4. MuInv'
  BY <1>1, VectorAssumption DEF Reopen, MuInv, Locking
<1>5. QED
  BY <1>3, <1>4 DEF Inv0

LEMMA StutterTypes == Inv0 /\ UNCHANGED vars => Inv0'
BY DEF vars, db, idx, Inv0, Types, MuInv, CallsOK

(* Every part of the state has its type, and s.mu is held by the call that *)
(* is between its lock and its unlock.                                     *)
THEOREM WellTyped == Spec => []TypeOK
<1>1. Inv0 /\ [Next]_vars => Inv0'
  BY BeginKeeps, StepKeeps, ReopenTypes, StutterTypes DEF Next
<1>2. Inv0 => TypeOK
  BY TypesAre DEF Inv0
<1>3. QED
  BY <1>1, <1>2, InitTypes, PTL DEF Spec

-----------------------------------------------------------------------------
(* Identities are used once.                                               *)

Fresh ==
  /\ col # NoColl => col \in used
  /\ \A k \in Colls : emb[k] \subseteq used /\ (k \notin used => emb[k] = {})
  /\ \A p \in Callers : call[p].pc # "idle" => call[p].cid \in used
  /\ \A p \in Callers : call[p].pc = "upsert" =>
       /\ call[p].embs \subseteq used
       /\ \A k \in Colls : call[p].embs \cap emb[k] = {}
       /\ \A q \in Callers \ {p} : call[q].pc = "upsert" => call[p].embs \cap call[q].embs = {}
  /\ \A p \in Callers : call[p].pc = "dropping" => call[p].cid = col

LEMMA FreshInit == Init => Fresh
BY DEF Init, Fresh, IdleCall

LEMMA FreshBegin ==
  ASSUME Inv0, Fresh, NEW p \in Callers, Begin(p), Inv0', Others(p)
  PROVE  Fresh'
<1> USE DEF Fresh, Inv0, Types, Others
<1>0. call \in [Callers -> Call] /\ call' \in [Callers -> Call]
  BY DEF CallsOK
<1>1. ASSUME NEW E \in SUBSET Embs, StartUpsert(p, E) PROVE Fresh'
  <2>1. /\ call'[p].pc = "upsert" /\ call'[p].cid = col /\ call'[p].embs = E
        /\ call[p].pc = "idle" /\ col # NoColl
        /\ E \cap used = {} /\ used' = used \cup E /\ UNCHANGED <<col, emb>>
    BY <1>0, <1>1 DEF StartUpsert, Start, IdleCall, db, idx
  <2>2. QED
    BY <2>1
<1>2. ASSUME NEW E \in SUBSET Embs, StartDelete(p, E) PROVE Fresh'
  <2>1. /\ call'[p].pc = "delete" /\ call'[p].cid = col
        /\ call[p].pc = "idle" /\ col # NoColl /\ UNCHANGED <<col, emb, used>>
    BY <1>0, <1>2 DEF StartDelete, Start, IdleCall, db, idx
  <2>2. QED
    BY <2>1
<1>3. ASSUME NEW op \in Ops, StartOther(p, op) PROVE Fresh'
  <2>1. /\ call'[p].pc = op /\ op \notin {"upsert", "dropping"} /\ call'[p].cid = col
        /\ call[p].pc = "idle" /\ col # NoColl /\ UNCHANGED <<col, emb, used>>
    BY <1>0, <1>3 DEF StartOther, Start, IdleCall, db, idx
  <2>2. QED
    BY <2>1
<1>4. CASE StartSearch(p)
  <2>1. /\ call'[p].pc = "search" /\ call'[p].cid = col
        /\ call[p].pc = "idle" /\ col # NoColl /\ UNCHANGED <<col, emb, used>>
    BY <1>0, <1>4 DEF StartSearch, IdleCall, db, idx
  <2>2. QED
    BY <2>1
<1>5. ASSUME NEW k \in Colls, Create(p, k) PROVE Fresh'
  <2>1. \A q \in Callers : call[q].pc # "dropping"
    BY <1>5, VectorAssumption DEF Create, Free, MuInv, Locking
  <2>2. /\ UNCHANGED <<call, emb>> /\ col' = k /\ used' = used \cup {k}
    BY <1>5 DEF Create
  <2>3. QED
    BY <2>1, <2>2
<1>6. CASE DropBegin(p)
  <2>1. /\ call'[p].pc = "dropping" /\ call'[p].cid = col
        /\ call[p].pc = "idle" /\ col # NoColl /\ UNCHANGED <<col, emb, used>>
    BY <1>0, <1>6 DEF DropBegin, Forgive, IdleCall, db, idx
  <2>2. QED
    BY <2>1
<1>7. QED
  BY <1>1, <1>2, <1>3, <1>4, <1>5, <1>6 DEF Begin

LEMMA RemoveMoves ==
  ASSUME call \in [Callers -> Call], NEW p \in Callers, NEW E, Remove(p, E)
  PROVE  /\ call'[p].pc = "deleting" /\ call'[p].cid = call[p].cid /\ call'[p].embs = E
         /\ mu = NoCaller /\ mu' = p /\ UNCHANGED <<db, missed, used>>
<1>1. call'[p] = [call[p] EXCEPT !.pc = "deleting", !.embs = E, !.keys = fts[call[p].cid] \cap E]
  BY DEF Remove, Forgive
<1>2. call[p] \in Call
  OBVIOUS
<1>3. /\ call'[p].pc = "deleting" /\ call'[p].cid = call[p].cid /\ call'[p].embs = E
  BY <1>1, <1>2 DEF Call
<1>4. QED
  BY <1>3 DEF Remove, Free

(* What the steps of a call do to collections, embeddings and its record.  *)
Quiet(p) ==
  /\ call[p].pc # "upsert" /\ call'[p].pc \notin {"upsert", "dropping"}
  /\ call'[p].pc # "idle" => call'[p].cid = call[p].cid \/ (col # NoColl /\ call'[p].cid = col)
  /\ UNCHANGED used
  /\ col' = col \/ (col' = NoColl /\ mu = p)
  /\ \A k \in Colls : emb'[k] \subseteq emb[k]

LEMMA QuietSteps ==
  ASSUME Inv0, Inv0', NEW p \in Callers, Others(p), Step(p), ~UpsertCommit(p), ~Abort(p)
  PROVE  Quiet(p) /\ call[p].pc # "idle"
<1> USE DEF Inv0, Types, CallsOK, Others, Quiet
<1>0. call \in [Callers -> Call] /\ call' \in [Callers -> Call] /\ (call[p].pc # "idle" => call[p].cid \in Colls)
  OBVIOUS
<1>1. CASE DropCommit(p)
  BY <1>0, <1>1 DEF DropCommit, Over, IdleCall, MuInv, Locking
<1>2. CASE DropFail(p) \/ SearchReturn(p) \/ Install(p)
  BY <1>0, <1>2 DEF DropFail, SearchReturn, Install, Return, IdleCall, db, idx
<1>3. CASE UpsertIndex(p) \/ RebuildDrop(p)
  BY <1>0, <1>3 DEF UpsertIndex, RebuildDrop, Goto, Over, db, Call
<1>4. CASE Recheck(p)
  BY <1>0, <1>4 DEF Recheck, Return, IdleCall, db, Call
<1>5. ASSUME NEW e \in Embs, IndexFTS(p, e) PROVE Quiet(p) /\ call[p].pc # "idle"
  BY <1>0, <1>5 DEF IndexFTS, Return, IdleCall, Call
<1>6. CASE DeleteBegin(p) \/ \E d \in Docs : DeleteDocBegin(p, d)
  <2>1. PICK E : Remove(p, E) /\ call[p].pc \in {"delete", "deleteDoc"}
    BY <1>6 DEF DeleteBegin, DeleteDocBegin
  <2>2. /\ call'[p].pc = "deleting" /\ call'[p].cid = call[p].cid
        /\ UNCHANGED <<col, emb, used>>
    BY <1>0, <2>1, RemoveMoves DEF db
  <2>3. QED
    BY <2>1, <2>2
<1>7. CASE DeleteCommit(p) \/ DeleteFail(p)
  BY <1>0, <1>7 DEF DeleteCommit, DeleteFail, Over, IdleCall
<1>8. CASE SearchIndex(p) \/ SearchLoad(p) \/ LoadSnapshot(p) \/ ReadVectors(p)
  BY <1>0, <1>8 DEF SearchIndex, SearchLoad, LoadSnapshot, ReadVectors, db, Call
<1>9. CASE SaveRead(p) \/ SaveCommit(p)
  BY <1>0, <1>9 DEF SaveRead, SaveCommit, Return, IdleCall, db, Call
<1>10. QED
  BY <1>1, <1>2, <1>3, <1>4, <1>5, <1>6, <1>7, <1>8, <1>9 DEF Step

LEMMA FreshStep ==
  ASSUME Inv0, Fresh, NEW p \in Callers, Step(p), Inv0', Others(p)
  PROVE  Fresh'
<1> USE DEF Inv0, Types, Others
<1>0. call \in [Callers -> Call] /\ call' \in [Callers -> Call]
  BY DEF CallsOK
<1>1. CASE UpsertCommit(p)
  <2>1. /\ call[p].pc = "upsert" /\ call'[p].pc = "inserting" /\ call'[p].cid = call[p].cid
        /\ emb' = [emb EXCEPT ![call[p].cid] = @ \cup call[p].embs]
        /\ UNCHANGED <<col, used>>
    BY <1>0, <1>1 DEF UpsertCommit, Goto, Call
  <2>2. call[p].cid \in Colls
    BY <2>1 DEF CallsOK
  <2>3. QED
    BY <2>1, <2>2 DEF Fresh
<1>3. CASE Abort(p)
  <2>1. call'[p].pc = "idle" /\ UNCHANGED <<col, emb, used>>
    BY <1>0, <1>3 DEF Abort, Return, IdleCall, db
  <2>2. QED
    BY <2>1 DEF Fresh
<1>2. CASE ~UpsertCommit(p) /\ ~Abort(p)
  <2>1. Quiet(p) /\ call[p].pc # "idle"
    BY <1>2, QuietSteps
  <2>2. \A q \in Callers \ {p} : call'[q].pc = "dropping" => mu = q
    BY DEF MuInv, Locking
  <2>3. QED
    BY <2>1, <2>2, VectorAssumption, SMTT(60) DEF Fresh, Quiet
<1>4. QED
  BY <1>1, <1>2, <1>3

LEMMA FreshOther == Fresh /\ ((Reopen /\ UNCHANGED setup) \/ UNCHANGED vars) => Fresh'
BY DEF Fresh, Reopen, db, vars, IdleCall

-----------------------------------------------------------------------------
(* The collection of that name.                                            *)

LEMMA ContentsStep ==
  ASSUME Inv0, Fresh, Inv0', Fresh', [Next]_vars
  PROVE  [Contents!Next]_Held
<1> USE DEF Inv0, Types, Held, Contents!Next, Contents!Create, Contents!Drop, Contents!Upsert, Contents!Delete
<1>0. call \in [Callers -> Call] /\ \A E \in SUBSET Embs : E # NoColl
  BY VectorAssumption DEF CallsOK
<1>1. ASSUME NEW p \in Callers, Begin(p) PROVE [Contents!Next]_Held
  <2>1. CASE UNCHANGED <<col, emb>>
    BY <2>1
  <2>2. ASSUME NEW k \in Colls, Create(p, k) PROVE [Contents!Next]_Held
    BY <2>2, VectorAssumption DEF Create, Fresh
  <2>3. QED
    BY <1>1, <2>1, <2>2 DEF Begin, StartUpsert, StartDelete, StartSearch, StartOther, DropBegin, db
<1>2. ASSUME NEW p \in Callers, Step(p) PROVE [Contents!Next]_Held
  <2>1. CASE UNCHANGED <<col, emb>>
    BY <2>1
  <2>2. CASE UpsertCommit(p)
    <3>1. /\ call[p].pc = "upsert" /\ UNCHANGED col
          /\ emb' = [emb EXCEPT ![call[p].cid] = @ \cup call[p].embs]
      BY <2>2 DEF UpsertCommit
    <3>2. call[p].embs \in SUBSET Embs /\ call[p].cid \in Colls
      BY <1>0, <3>1 DEF Call, CallsOK
    <3>3. \A k \in Colls : call[p].embs \cap emb[k] = {}
      BY <3>1 DEF Fresh
    <3>4. QED
      BY <1>0, <3>1, <3>2, <3>3
  <2>3. CASE DropCommit(p)
    <3>1. col = call[p].cid /\ col' = NoColl
      BY <2>3 DEF DropCommit, Fresh
    <3>2. QED
      BY <1>0, <3>1
  <2>4. CASE DeleteCommit(p)
    <3>1. /\ call[p].pc = "deleting" /\ UNCHANGED col
          /\ emb' = [emb EXCEPT ![call[p].cid] = @ \ call[p].embs]
      BY <2>4 DEF DeleteCommit
    <3>2. call[p].embs \in SUBSET Embs /\ call[p].cid \in Colls
      BY <1>0, <3>1 DEF Call, CallsOK
    <3>3. QED
      BY <1>0, <3>1, <3>2
  <2>5. QED
    BY <1>2, <2>1, <2>2, <2>3, <2>4
       DEF Step, DropFail, Abort, DeleteFail, UpsertIndex, Recheck, IndexFTS, DeleteBegin, DeleteDocBegin, Remove,
           SearchIndex, SearchLoad, SearchReturn, LoadSnapshot, RebuildDrop, ReadVectors, Install,
           SaveRead, SaveCommit, db
<1>3. CASE Reopen \/ UNCHANGED vars
  BY <1>3 DEF Reopen, vars, db
<1>4. QED
  BY <1>1, <1>2, <1>3 DEF Next

LEMMA FreshInductive == Inv0 /\ Fresh /\ [Next]_vars => Inv0' /\ Fresh'
<1> SUFFICES ASSUME Inv0, Fresh, [Next]_vars PROVE Inv0' /\ Fresh'
  OBVIOUS
<1>1. QED
  BY BeginKeeps, StepKeeps, ReopenTypes, StutterTypes, FreshBegin, FreshStep, FreshOther DEF Next

(* Named through its collection, what is stored is the set of Collection.  *)
THEOREM StoreImplementsCollection == Spec => ImplementsCollection
<1>1. Init => Contents!Init
  BY DEF Init, Held, Contents!Init
<1>2. Inv0 /\ Fresh /\ Inv0' /\ Fresh' /\ [Next]_vars => [Contents!Next]_Held
  BY ContentsStep
<1>3. QED
  BY <1>1, <1>2, InitTypes, FreshInit, FreshInductive, PTL DEF Spec, ImplementsCollection, Contents!Spec

-----------------------------------------------------------------------------
(* Indexes, snapshots and vectors at hand, and what they have missed.      *)

(* The vectors E agree with the stored ones S, but for the embeddings they *)
(* have missed and those that are being written.                           *)
Agree(E, M, S, P) == (E \ S) \cup (S \ E) \subseteq M \cup P

IndexAgrees(k) == index[k] # NoIndex => Agree(index[k], missed[k], emb[k], Pending(k))
SnapAgrees(k) == snap[k] # NoIndex => Agree(snap[k], snapMissed[k], emb[k], Pending(k))
CallAgrees(p) ==
  call[p].pc \in {"installing", "saving"} =>
    Agree(call[p].embs, call[p].missed, emb[call[p].cid], Pending(call[p].cid))

(* What the holder of s.mu has done so far.                                *)
Half ==
  mu # NoCaller =>
    LET c == call[mu] IN
    /\ c.pc = "inserting" => c.embs \subseteq emb[c.cid]
    /\ c.pc = "deleting" /\ index[c.cid] # NoIndex => index[c.cid] \cap c.embs = {}
    /\ c.pc = "dropping" => index[c.cid] = NoIndex

Agreement ==
  /\ \A k \in Colls : IndexAgrees(k) /\ SnapAgrees(k)
  /\ \A p \in Callers : CallAgrees(p)
  /\ Half

(* A step of a caller that does not hold s.mu, then and later.             *)
LEMMA PendingStill ==
  ASSUME Inv0, NEW p \in Callers, Others(p), mu # p, UNCHANGED mu
  PROVE  \A k \in Colls : Pending(k)' = Pending(k)
BY DEF Inv0, Types, Others, Pending, Writes

LEMMA QuietCalls ==
  ASSUME Inv0, Agreement, NEW p \in Callers, Others(p), mu # p, UNCHANGED <<mu, emb>>,
         NEW q \in Callers \ {p}
  PROVE  CallAgrees(q)'
<1>1. \A k \in Colls : Pending(k)' = Pending(k)
  BY PendingStill
<1>2. SUFFICES ASSUME call[q].pc \in {"installing", "saving"}, NEW k \in Colls, k = call[q].cid
               PROVE  Agree(call'[q].embs, call'[q].missed, emb'[k], Pending(k)')
  BY DEF Others, CallAgrees, Inv0, Types, CallsOK
<1>3. Agree(call[q].embs, call[q].missed, emb[k], Pending(k))
  BY <1>2 DEF Agreement, CallAgrees
<1>4. call'[q].embs = call[q].embs /\ call[q].missed \subseteq call'[q].missed
  BY DEF Others
<1>5. QED
  BY <1>1, <1>3, <1>4 DEF Agree

LEMMA QuietHalf ==
  ASSUME Inv0, Agreement, NEW p \in Callers, Others(p), mu # p, UNCHANGED <<mu, emb>>,
         mu # NoCaller => UNCHANGED index
  PROVE  Half'
<1> SUFFICES ASSUME mu # NoCaller PROVE Half'
  BY DEF Half
<1>1. mu \in Callers \ {p}
  BY DEF Inv0, Types
<1>2. /\ call'[mu].pc = call[mu].pc /\ call'[mu].cid = call[mu].cid
      /\ call'[mu].embs = call[mu].embs
  BY <1>1 DEF Others
<1>3. QED
  BY <1>2 DEF Agreement, Half

(* Steps that change no embeddings, indexes and snapshots, and those that  *)
(* drop an index.                                                          *)
LEMMA QuietAgrees ==
  ASSUME Inv0, Agreement, NEW p \in Callers, Others(p), mu # p, UNCHANGED <<mu, emb, snap, snapMissed>>,
         mu # NoCaller => UNCHANGED index,
         \A k \in Colls : index'[k] = NoIndex \/ (index'[k] = index[k] /\ missed'[k] = missed[k]),
         call'[p].pc \notin {"installing", "saving"} \/ CallAgrees(p)'
  PROVE  Agreement'
<1>1. \A k \in Colls : Pending(k)' = Pending(k)
  BY PendingStill
<1>2. \A k \in Colls : IndexAgrees(k)' /\ SnapAgrees(k)'
  BY <1>1 DEF Agreement, IndexAgrees, SnapAgrees
<1>3. \A q \in Callers : CallAgrees(q)'
  BY QuietCalls DEF CallAgrees
<1>4. QED
  BY <1>2, <1>3, QuietHalf DEF Agreement

(* Steps of the holder of s.mu: of the collection k the embeddings X are   *)
(* no longer pending and have been missed, of others nothing changes.      *)
Shift(k, X) ==
  /\ emb[k] \ emb'[k] \subseteq Pending(k)' \cup X
  /\ emb'[k] \ emb[k] \subseteq Pending(k)' \cup X
  /\ Pending(k) \subseteq Pending(k)' \cup X

LEMMA HolderCalls ==
  ASSUME Inv0, Agreement, NEW p \in Callers, Others(p),
         NEW k \in Colls, NEW X, Shift(k, X), \A l \in Colls \ {k} : Shift(l, {}),
         NEW q \in Callers \ {p},
         call[q].cid = k /\ call[q].pc \in {"installing", "saving"} => X \subseteq call'[q].missed
  PROVE  CallAgrees(q)'
<1>1. SUFFICES ASSUME call[q].pc \in {"installing", "saving"}, NEW l \in Colls, l = call[q].cid
               PROVE  Agree(call'[q].embs, call'[q].missed, emb'[l], Pending(l)')
  BY DEF Others, CallAgrees, Inv0, Types, CallsOK
<1>2. Agree(call[q].embs, call[q].missed, emb[l], Pending(l))
  BY <1>1 DEF Agreement, CallAgrees
<1>3. call'[q].embs = call[q].embs /\ call[q].missed \subseteq call'[q].missed
  BY DEF Others
<1>4. CASE l = k
  BY <1>1, <1>2, <1>3, <1>4 DEF Agree, Shift
<1>5. CASE l # k
  BY <1>1, <1>2, <1>3, <1>5 DEF Agree, Shift
<1>6. QED
  BY <1>4, <1>5

LEMMA HolderSnaps ==
  ASSUME Inv0, Agreement, NEW k \in Colls, NEW X, Shift(k, X),
         \A l \in Colls \ {k} : Shift(l, {}),
         NEW l \in Colls, snap'[l] = NoIndex \/ snap'[l] = snap[l],
         snapMissed[l] \cup (IF l = k THEN X ELSE {}) \subseteq snapMissed'[l] \/ snap'[l] = NoIndex
  PROVE  SnapAgrees(l)'
<1> SUFFICES ASSUME snap'[l] # NoIndex
             PROVE  Agree(snap'[l], snapMissed'[l], emb'[l], Pending(l)')
  BY DEF SnapAgrees
<1>1. Agree(snap[l], snapMissed[l], emb[l], Pending(l)) /\ snap'[l] = snap[l]
  BY DEF Agreement, SnapAgrees
<1>2. CASE l = k
  BY <1>1, <1>2 DEF Agree, Shift
<1>3. CASE l # k
  BY <1>1, <1>3 DEF Agree, Shift
<1>4. QED
  BY <1>2, <1>3

LEMMA HolderIndexes ==
  ASSUME Inv0, Agreement, NEW l \in Colls, Shift(l, {}), index'[l] = index[l], missed'[l] = missed[l]
  PROVE  IndexAgrees(l)'
<1> SUFFICES ASSUME index'[l] # NoIndex
             PROVE  Agree(index'[l], missed'[l], emb'[l], Pending(l)')
  BY DEF IndexAgrees
<1>1. Agree(index[l], missed[l], emb[l], Pending(l))
  BY DEF Agreement, IndexAgrees
<1>2. QED
  BY <1>1 DEF Agree, Shift

LEMMA AgreementInit == Init => Agreement
BY VectorAssumption DEF Init, Agreement, IndexAgrees, SnapAgrees, CallAgrees, Half, IdleCall

(* With s.mu free nothing is pending.                                      *)
LEMMA FreePending == mu = NoCaller => \A k \in Colls : Pending(k) = {}
BY DEF Pending, Writes

(* The holder of s.mu is done: what was pending of its collection is not   *)
(* any more.                                                               *)
LEMMA DonePending ==
  ASSUME Inv0, NEW p \in Callers, call[p].pc \in Locking, mu' = NoCaller
  PROVE  /\ mu = p /\ \A l \in Colls : Pending(l)' = {}
         /\ \A l \in Colls \ {call[p].cid} : Pending(l) = {}
         /\ Pending(call[p].cid) \subseteq call[p].embs
BY DEF Inv0, MuInv, Pending, Writes

LEMMA AgreementBegin ==
  ASSUME Inv0, Agreement, NEW p \in Callers, Begin(p), Inv0', Others(p)
  PROVE  Agreement'
<1>0. call \in [Callers -> Call] /\ call' \in [Callers -> Call] /\ NoCaller \notin Callers
  BY VectorAssumption DEF Inv0, Types, CallsOK
<1>1. call[p].pc = "idle" => mu # p
  BY <1>0 DEF Inv0, MuInv, Locking
<1>2. ASSUME call[p].pc = "idle", call'[p].pc \notin {"installing", "saving"}, UNCHANGED <<db, idx, mu>>
      PROVE  Agreement'
  BY <1>1, <1>2, QuietAgrees DEF db, idx
<1>3. ASSUME NEW op \in Ops, NEW E \in SUBSET Embs, Start(p, op, E), UNCHANGED <<db, idx, mu>>
      PROVE  Agreement'
  <2>1. call[p].pc = "idle" /\ call'[p].pc = op /\ op \in OpKinds
    BY <1>0, <1>3, VectorAssumption DEF Start, IdleCall
  <2>2. QED
    BY <1>2, <1>3, <2>1 DEF OpKinds
<1>4. ASSUME NEW E \in SUBSET Embs, StartUpsert(p, E) \/ StartDelete(p, E) PROVE Agreement'
  <2>1. PICK op \in Ops \cap {"upsert", "delete"} : Start(p, op, E)
    BY <1>4 DEF StartUpsert, StartDelete, Start
  <2>2. QED
    BY <1>3, <1>4, <2>1 DEF StartUpsert, StartDelete
<1>5. ASSUME NEW op \in Ops, StartOther(p, op) PROVE Agreement'
  <2>1. {} \in SUBSET Embs /\ Start(p, op, {}) /\ UNCHANGED <<db, idx, mu>>
    BY <1>5 DEF StartOther
  <2>2. QED
    BY <1>3, <2>1
<1>6. CASE StartSearch(p)
  <2>1. call[p].pc = "idle" /\ call'[p].pc = "search" /\ UNCHANGED <<db, idx, mu>>
    BY <1>0, <1>6 DEF StartSearch, IdleCall
  <2>2. QED
    BY <1>2, <2>1
<1>7. ASSUME NEW k \in Colls, Create(p, k) PROVE Agreement'
  <2>1. call[p].pc = "idle" /\ call' = call /\ UNCHANGED <<emb, snap, snapMissed, idx, mu>>
    BY <1>7 DEF Create
  <2>2. QED
    BY <1>1, <2>1, QuietAgrees DEF idx
<1>8. CASE DropBegin(p)
  <2>1. /\ call'[p].pc = "dropping" /\ call'[p].cid = col /\ mu' = p /\ mu = NoCaller
        /\ col \in Colls /\ index' = [index EXCEPT ![col] = NoIndex]
        /\ missed' = [missed EXCEPT ![col] = {}] /\ UNCHANGED db
    BY <1>0, <1>8 DEF DropBegin, Forgive, IdleCall, Free, Inv0, Types
  <2>2. \A l \in Colls : Pending(l) = {} /\ Pending(l)' = {}
    BY <2>1, FreePending DEF Pending, Writes
  <2>3. \A l \in Colls : Shift(l, {})
    BY <2>1, <2>2 DEF Shift, db
  <2>4. \A l \in Colls : SnapAgrees(l)'
    BY <2>1, <2>3, HolderSnaps DEF db
  <2>5. index'[col] = NoIndex /\ \A l \in Colls \ {col} : index'[l] = index[l] /\ missed'[l] = missed[l]
    BY <2>1 DEF Inv0, Types
  <2>6. \A l \in Colls : IndexAgrees(l)'
    BY <2>3, <2>5, HolderIndexes DEF IndexAgrees
  <2>7. \A q \in Callers : CallAgrees(q)'
    BY <2>1, <2>3, HolderCalls DEF CallAgrees
  <2>8. Half'
    BY <2>1, <2>5 DEF Half
  <2>9. QED
    BY <2>4, <2>6, <2>7, <2>8 DEF Agreement
<1>9. QED
  BY <1>4, <1>5, <1>6, <1>7, <1>8 DEF Begin

(* A write that begins: E is pending, and what the index then lacks or     *)
(* holds of E is no matter.                                                *)
LEMMA AgreementPends ==
  ASSUME Inv0, Agreement, NEW p \in Callers, Inv0', Others(p),
         call'[p].pc \in {"inserting", "deleting"}, NEW k \in Colls, call'[p].cid = k,
         NEW E \in SUBSET Embs, call'[p].embs = E, mu = NoCaller, mu' = p,
         UNCHANGED <<snap, snapMissed, missed>>,
         \A l \in Colls : emb'[l] = IF l = k THEN emb[l] \cup (emb'[l] \cap E) ELSE emb[l],
         \A l \in Colls : index'[l] = index[l] \/ (l = k /\ index[l] # NoIndex /\ index'[l] = index[l] \ E),
         Half'
  PROVE  Agreement'
<1>1. \A l \in Colls : Pending(l) = {} /\ Pending(l)' = IF l = k THEN E ELSE {}
  <2>1. mu' # NoCaller
    BY VectorAssumption
  <2>2. QED
    BY <2>1, FreePending DEF Pending, Writes
<1>2. \A l \in Colls : Shift(l, {})
  BY <1>1 DEF Shift
<1>3. \A l \in Colls : SnapAgrees(l)'
  BY <1>2, HolderSnaps
<1>4. \A q \in Callers : CallAgrees(q)'
  BY <1>2, HolderCalls DEF CallAgrees
<1>5. ASSUME NEW l \in Colls PROVE IndexAgrees(l)'
  <2>1. CASE index'[l] = index[l]
    BY <1>2, <2>1, HolderIndexes
  <2>2. CASE l = k /\ index[l] # NoIndex /\ index'[l] = index[l] \ E
    <3>1. Agree(index[l], missed[l], emb[l], Pending(l)) /\ Pending(l) = {}
      BY <1>1, <2>2 DEF Agreement, IndexAgrees
    <3>2. emb'[l] = emb[l] \cup (emb'[l] \cap E) /\ missed'[l] = missed[l] /\ index'[l] = index[l] \ E
      BY <2>2
    <3>3. Agree(index'[l], missed'[l], emb'[l], E)
      BY <3>1, <3>2, SMTT(30) DEF Agree
    <3>4. QED
      BY <1>1, <2>2, <3>3 DEF IndexAgrees
  <2>3. QED
    BY <2>1, <2>2
<1>6. QED
  BY <1>3, <1>4, <1>5 DEF Agreement

(* A write that ends: what was pending has been missed by the snapshot and *)
(* the vectors at hand.                                                    *)
LEMMA AgreementEnds ==
  ASSUME Inv0, Agreement, NEW p \in Callers, Inv0', Others(p),
         call[p].pc \in Locking, NEW k \in Colls, call[p].cid = k, mu' = NoCaller,
         NEW X \in SUBSET Embs, NEW c, c.pc \notin {"installing", "saving"}, Over(p, c, k, X),
         call[p].pc # "dropping" => call[p].embs \subseteq X,
         \/ (snap' = snap /\ snapMissed' = Aged(k, X))
         \/ (snap' = [snap EXCEPT ![k] = NoIndex] /\ snapMissed' = [snapMissed EXCEPT ![k] = {}]),
         \A l \in Colls : emb'[l] = IF l = k THEN emb[l] \ (X \ emb'[l]) ELSE emb[l],
         \A l \in Colls \ {k} : index'[l] = index[l] /\ missed'[l] = missed[l],
         IndexAgrees(k)'
  PROVE  Agreement'
<1>1. /\ \A l \in Colls : Pending(l)' = {}
      /\ \A l \in Colls \ {k} : Pending(l) = {}
      /\ Pending(k) \subseteq X
  BY DonePending DEF Pending, Writes
<1>2. Shift(k, X) /\ \A l \in Colls \ {k} : Shift(l, {})
  BY <1>1, ZenonT(60) DEF Shift
<1>3. ASSUME NEW l \in Colls PROVE SnapAgrees(l)'
  <2>1. snap'[l] = NoIndex \/ snap'[l] = snap[l]
    BY DEF Inv0, Types
  <2>2. snapMissed[l] \cup (IF l = k THEN X ELSE {}) \subseteq snapMissed'[l] \/ snap'[l] = NoIndex
    <3>1. CASE snap' = snap /\ snapMissed' = Aged(k, X)
      BY <3>1 DEF Inv0, Types, Aged
    <3>2. CASE snap' = [snap EXCEPT ![k] = NoIndex] /\ snapMissed' = [snapMissed EXCEPT ![k] = {}]
      BY <3>2 DEF Inv0, Types
    <3>3. QED
      BY <3>1, <3>2
  <2>3. QED
    BY <1>2, <2>1, <2>2, HolderSnaps
<1>4. ASSUME NEW q \in Callers PROVE CallAgrees(q)'
  <2>1. call \in [Callers -> Call]
    BY DEF Inv0, Types, CallsOK
  <2>2. CASE q = p
    BY <2>1, <2>2 DEF Over, CallAgrees
  <2>3. CASE q # p
    <3>1. call[q].cid = k /\ call[q].pc \in {"installing", "saving"} => X \subseteq call'[q].missed
      BY <2>1, <2>3, OverMissed
    <3>2. QED
      BY <1>2, <2>3, <3>1, HolderCalls
  <2>4. QED
    BY <2>2, <2>3
<1>5. \A l \in Colls : IndexAgrees(l)'
  BY <1>2, HolderIndexes
<1>6. Half'
  BY DEF Half
<1>7. QED
  BY <1>3, <1>4, <1>5, <1>6 DEF Agreement

LEMMA AgreementDrop ==
  ASSUME Inv0, Agreement, NEW p \in Callers, DropCommit(p) \/ DropFail(p), Inv0', Others(p),
         NEW k, k = call[p].cid
  PROVE  Agreement'
<1>0. /\ call \in [Callers -> Call] /\ call[p].pc = "dropping" /\ k \in Colls
      /\ mu = p /\ mu' = NoCaller /\ mu # NoCaller /\ \A l \in Colls : Pending(l) = {} /\ Pending(l)' = {}
  BY VectorAssumption DEF Inv0, Types, CallsOK, MuInv, Locking, DropCommit, DropFail, Pending, Writes
<1>1. index[k] = NoIndex /\ UNCHANGED idx
  BY <1>0 DEF Agreement, Half, DropCommit, DropFail
<1>2. CASE DropCommit(p)
  <2>1. /\ Over(p, IdleCall, k, Embs) /\ emb' = [emb EXCEPT ![k] = {}] /\ UNCHANGED idx
        /\ \/ (snap' = snap /\ snapMissed' = Aged(k, Embs))
           \/ (snap' = [snap EXCEPT ![k] = NoIndex] /\ snapMissed' = [snapMissed EXCEPT ![k] = {}])
    BY <1>2 DEF DropCommit
  <2>2. IdleCall.pc \notin {"installing", "saving"} /\ call[p].pc \in Locking
    BY <1>0 DEF IdleCall, Locking
  <2>3. \A l \in Colls : emb'[l] = IF l = k THEN emb[l] \ (Embs \ emb'[l]) ELSE emb[l]
    BY <1>0, <2>1, ZenonT(60) DEF Inv0, Types
  <2>4. IndexAgrees(k)' /\ \A l \in Colls \ {k} : index'[l] = index[l] /\ missed'[l] = missed[l]
    BY <1>1 DEF IndexAgrees, idx
  <2>5. call[p].cid = k /\ k \in Colls /\ Embs \in SUBSET Embs
    BY <1>0
  <2>6. QED
    BY <1>0, <2>1, <2>2, <2>3, <2>4, <2>5, AgreementEnds
<1>3. CASE DropFail(p)
  <2>1. UNCHANGED <<db, idx>> /\ call'[p].pc = "idle"
    BY <1>0, <1>3 DEF DropFail, Return, IdleCall
  <2>2. \A l \in Colls : Shift(l, {})
    BY <1>0, <2>1 DEF Shift, db
  <2>3. \A l \in Colls : SnapAgrees(l)' /\ IndexAgrees(l)'
    BY <1>0, <2>1, <2>2, HolderSnaps, HolderIndexes DEF db, idx
  <2>4. \A q \in Callers : CallAgrees(q)'
    BY <1>0, <2>1, <2>2, HolderCalls DEF CallAgrees
  <2>5. Half'
    BY <1>0 DEF Half
  <2>6. QED
    BY <2>3, <2>4, <2>5 DEF Agreement
<1>4. QED
  BY <1>2, <1>3

LEMMA AgreementUpsert ==
  ASSUME Inv0, Agreement, NEW p \in Callers, UpsertCommit(p) \/ UpsertIndex(p), Inv0', Others(p),
         NEW k, k = call[p].cid, NEW E, E = call[p].embs
  PROVE  Agreement'
<1>0. /\ call \in [Callers -> Call] /\ call' \in [Callers -> Call] /\ k \in Colls /\ E \in SUBSET Embs
      /\ NoCaller \notin Callers
  BY VectorAssumption DEF Inv0, Types, CallsOK, UpsertCommit, UpsertIndex, Call
<1>1. CASE UpsertCommit(p)
  <2>1. /\ call'[p].pc = "inserting" /\ call'[p].cid = k /\ call'[p].embs = E
        /\ mu = NoCaller /\ mu' = p /\ emb' = [emb EXCEPT ![k] = @ \cup E]
        /\ UNCHANGED <<snap, snapMissed, index, missed>>
    BY <1>0, <1>1 DEF UpsertCommit, Goto, Free, Call, idx
  <2>2. \A l \in Colls : emb'[l] = IF l = k THEN emb[l] \cup (emb'[l] \cap E) ELSE emb[l]
    BY <1>0, <2>1 DEF Inv0, Types
  <2>3. Half'
    BY <1>0, <2>1 DEF Half, Inv0, Types
  <2>4. QED
    BY <1>0, <2>1, <2>2, <2>3, AgreementPends
<1>2. CASE UpsertIndex(p)
  <2> DEFINE c == [call[p] EXCEPT !.pc = "recheck"]
  <2>1. /\ call[p].pc = "inserting" /\ Over(p, c, k, E) /\ snapMissed' = Aged(k, E)
        /\ index' = IF index[k] = NoIndex THEN index ELSE [index EXCEPT ![k] = @ \cup E]
        /\ missed' = [missed EXCEPT ![k] = @ \ E] /\ mu' = NoCaller
        /\ UNCHANGED <<emb, snap>>
    BY <1>2 DEF UpsertIndex
  <2>2. c.pc \notin {"installing", "saving"} /\ call[p].pc \in Locking
    BY <1>0, <2>1 DEF Call, Locking
  <2> HIDE DEF c
  <2>3. mu = p /\ E \subseteq emb[k] /\ Pending(k) = E /\ Pending(k)' = {}
    BY <1>0, <2>1 DEF Agreement, Half, Inv0, MuInv, Locking, Pending, Writes
  <2>4. IndexAgrees(k)'
    <3>1. SUFFICES ASSUME index[k] # NoIndex PROVE Agree(index'[k], missed'[k], emb'[k], {})
      BY <1>0, <2>1, <2>3 DEF IndexAgrees
    <3>2. Agree(index[k], missed[k], emb[k], E)
      BY <1>0, <2>3, <3>1 DEF Agreement, IndexAgrees
    <3>3. index'[k] = index[k] \cup E /\ missed'[k] = missed[k] \ E /\ emb'[k] = emb[k]
      BY <1>0, <2>1, <3>1 DEF Inv0, Types
    <3>4. QED
      BY <2>3, <3>2, <3>3, SMTT(30) DEF Agree
  <2>5. \A l \in Colls \ {k} : index'[l] = index[l] /\ missed'[l] = missed[l]
    BY <1>0, <2>1 DEF Inv0, Types
  <2>6. \A l \in Colls : emb'[l] = IF l = k THEN emb[l] \ (E \ emb'[l]) ELSE emb[l]
    BY <2>1, <2>3
  <2>8. call[p].cid = k /\ k \in Colls /\ E \in SUBSET Embs /\ call[p].embs \subseteq E
    BY <1>0
  <2>7. QED
    BY <2>1, <2>2, <2>4, <2>5, <2>6, <2>8, AgreementEnds
<1>3. QED
  BY <1>1, <1>2

LEMMA AgreementRemove ==
  ASSUME Inv0, Agreement, NEW p \in Callers, NEW E \in SUBSET Embs, Remove(p, E),
         call[p].pc # "idle", Inv0', Others(p)
  PROVE  Agreement'
<1> DEFINE k == call[p].cid
<1>0. /\ call \in [Callers -> Call] /\ call' \in [Callers -> Call] /\ k \in Colls
  BY DEF Inv0, Types, CallsOK
<1>1. /\ call'[p].pc = "deleting" /\ call'[p].cid = k /\ call'[p].embs = E
      /\ mu = NoCaller /\ mu' = p /\ UNCHANGED <<emb, snap, snapMissed, missed>>
  BY <1>0, RemoveMoves DEF db
<1>2. index' = IF index[k] = NoIndex THEN index ELSE [index EXCEPT ![k] = @ \ E]
  BY DEF Remove
<1>3. \A l \in Colls : index'[l] = index[l] \/ (l = k /\ index[l] # NoIndex /\ index'[l] = index[l] \ E)
  BY <1>0, <1>2 DEF Inv0, Types
<1>4. index'[k] # NoIndex => index'[k] \cap E = {}
  BY <1>0, <1>2 DEF Inv0, Types
<1>5. Half'
  BY <1>1, <1>4 DEF Half
<1>6. \A l \in Colls : emb'[l] = IF l = k THEN emb[l] \cup (emb'[l] \cap E) ELSE emb[l]
  BY <1>1
<1> HIDE DEF k
<1>7. QED
  BY <1>0, <1>1, <1>3, <1>5, <1>6, AgreementPends

LEMMA AgreementDeleted ==
  ASSUME Inv0, Agreement, NEW p \in Callers, DeleteCommit(p) \/ DeleteFail(p), Inv0', Others(p),
         NEW k, k = call[p].cid, NEW E, E = call[p].embs
  PROVE  Agreement'
<1>0. /\ call \in [Callers -> Call] /\ k \in Colls /\ E \in SUBSET Embs /\ NoCaller \notin Callers
      /\ call[p].pc = "deleting" /\ call[p].pc \in Locking /\ IdleCall.pc \notin {"installing", "saving"}
  BY VectorAssumption DEF Inv0, Types, CallsOK, DeleteCommit, DeleteFail, Call, Locking, IdleCall
<1>1. /\ Over(p, IdleCall, k, E) /\ snapMissed' = Aged(k, E) /\ mu' = NoCaller
      /\ UNCHANGED <<snap, index>>
      /\ \/ emb' = [emb EXCEPT ![k] = @ \ E] /\ missed' = [missed EXCEPT ![k] = @ \ E]
         \/ /\ emb' = emb
            /\ missed' = IF index[k] = NoIndex THEN missed ELSE [missed EXCEPT ![k] = @ \cup E]
  BY DEF DeleteCommit, DeleteFail
<1>2. /\ mu = p /\ Pending(k) = E /\ Pending(k)' = {}
      /\ index[k] # NoIndex => index[k] \cap E = {}
  BY <1>0, <1>1 DEF Agreement, Half, Inv0, MuInv, Pending, Writes
<1>3. IndexAgrees(k)'
  <2>1. SUFFICES ASSUME index[k] # NoIndex PROVE Agree(index[k], missed'[k], emb'[k], {})
    BY <1>1, <1>2 DEF IndexAgrees
  <2>2. Agree(index[k], missed[k], emb[k], E)
    BY <1>0, <1>2, <2>1 DEF Agreement, IndexAgrees
  <2>3. \/ emb'[k] = emb[k] \ E /\ missed'[k] = missed[k] \ E
        \/ emb'[k] = emb[k] /\ missed'[k] = missed[k] \cup E
    BY <1>0, <1>1, <2>1 DEF Inv0, Types
  <2>4. QED
    BY <1>2, <2>1, <2>2, <2>3, SMTT(30) DEF Agree
<1>4. \A l \in Colls \ {k} : index'[l] = index[l] /\ missed'[l] = missed[l]
  BY <1>0, <1>1 DEF Inv0, Types
<1>5. \A l \in Colls : emb'[l] = IF l = k THEN emb[l] \ (E \ emb'[l]) ELSE emb[l]
  BY <1>0, <1>1, SMTT(30) DEF Inv0, Types
<1>6. call[p].cid = k /\ call[p].embs \subseteq E
  OBVIOUS
<1>7. QED
  BY <1>0, <1>1, <1>3, <1>4, <1>5, <1>6, AgreementEnds

(* Steps that read the vectors, the index or the snapshot, or install what *)
(* they have at hand.                                                      *)
LEMMA AgreementImages ==
  ASSUME Inv0, Agreement, NEW p \in Callers, Inv0', Others(p),
         \/ LoadSnapshot(p) \/ RebuildDrop(p) \/ ReadVectors(p) \/ Install(p)
         \/ SaveRead(p) \/ SaveCommit(p)
  PROVE  Agreement'
<1> DEFINE k == call[p].cid
<1>0. /\ call \in [Callers -> Call] /\ call' \in [Callers -> Call] /\ k \in Colls
      /\ UNCHANGED <<mu, emb>> /\ NoCaller \notin Callers
  BY VectorAssumption DEF Inv0, Types, CallsOK, LoadSnapshot, RebuildDrop, ReadVectors, Install,
     SaveRead, SaveCommit, db
<1>1. mu # p
  BY <1>0 DEF Inv0, MuInv, Locking, LoadSnapshot, RebuildDrop, ReadVectors, Install, SaveRead, SaveCommit
<1>2. \A l \in Colls : Pending(l)' = Pending(l)
  BY <1>0, <1>1, PendingStill
<1>3. ASSUME NEW E, NEW M, call'[p].cid = k, call'[p].embs = E, call'[p].missed = M,
             Agree(E, M, emb[k], Pending(k)), UNCHANGED <<db, idx>>
      PROVE  Agreement'
  <2>1. CallAgrees(p)'
    BY <1>0, <1>2, <1>3 DEF CallAgrees
  <2>2. QED
    BY <1>0, <1>1, <1>3, <2>1, QuietAgrees DEF db, idx
<1>4. CASE LoadSnapshot(p)
  <2>1. UNCHANGED <<db, idx>>
    BY <1>4 DEF LoadSnapshot
  <2>2. CASE snap[k] = NoIndex
    <3>1. call'[p].pc = "reading"
      BY <1>0, <1>4, <2>2 DEF LoadSnapshot, Call
    <3>2. QED
      BY <1>0, <1>1, <2>1, <3>1, QuietAgrees DEF db, idx
  <2>3. CASE snap[k] # NoIndex
    <3>1. call'[p] = [call[p] EXCEPT !.pc = "installing", !.embs = snap[k], !.missed = snapMissed[k]]
      BY <1>0, <1>4, <2>3 DEF LoadSnapshot
    <3>2. call'[p].cid = k /\ call'[p].embs = snap[k] /\ call'[p].missed = snapMissed[k]
      BY <1>0, <3>1 DEF Call
    <3>3. Agree(snap[k], snapMissed[k], emb[k], Pending(k))
      BY <1>0, <2>3 DEF Agreement, SnapAgrees
    <3>4. CallAgrees(p)'
      BY <1>0, <1>2, <3>2, <3>3 DEF CallAgrees
    <3>5. QED
      BY <1>0, <1>1, <2>1, <3>4, QuietAgrees DEF db, idx
  <2>4. QED
    BY <2>2, <2>3
<1>5. CASE RebuildDrop(p)
  <2>1. /\ call'[p].pc = "reading" /\ mu = NoCaller /\ UNCHANGED db
        /\ index' = [index EXCEPT ![k] = NoIndex] /\ missed' = [missed EXCEPT ![k] = {}]
    BY <1>0, <1>5 DEF RebuildDrop, Goto, Free, Call
  <2>2. \A l \in Colls : index'[l] = NoIndex \/ (index'[l] = index[l] /\ missed'[l] = missed[l])
    BY <1>0, <2>1 DEF Inv0, Types
  <2>3. QED
    BY <1>0, <1>1, <2>1, <2>2, QuietAgrees DEF db
<1>6. CASE ReadVectors(p)
  <2>1. call'[p] = [call[p] EXCEPT !.pc = "installing", !.embs = emb[k]] /\ UNCHANGED <<db, idx>>
    BY <1>0, <1>6 DEF ReadVectors
  <2>2. call'[p].cid = k /\ call'[p].embs = emb[k]
    BY <1>0, <2>1 DEF Call
  <2>3. CallAgrees(p)'
    BY <1>0, <2>2 DEF CallAgrees, Agree
  <2>4. QED
    BY <1>0, <1>1, <2>1, <2>3, QuietAgrees DEF db, idx
<1>7. CASE Install(p)
  <2>1. /\ call[p].pc = "installing" /\ call'[p].pc = "idle" /\ mu = NoCaller
        /\ index' = [index EXCEPT ![k] = call[p].embs]
        /\ missed' = [missed EXCEPT ![k] = call[p].missed] /\ UNCHANGED db
    BY <1>0, <1>7 DEF Install, Return, IdleCall, Free
  <2>2. Agree(call[p].embs, call[p].missed, emb[k], Pending(k))
    BY <2>1 DEF Agreement, CallAgrees
  <2>3. ASSUME NEW l \in Colls PROVE IndexAgrees(l)'
    <3>1. CASE l = k
      <4>1. index'[k] = call[p].embs /\ missed'[k] = call[p].missed
        BY <1>0, <2>1 DEF Inv0, Types
      <4>2. QED
        BY <1>0, <1>2, <2>2, <3>1, <4>1 DEF IndexAgrees
    <3>2. CASE l # k
      <4>1. index'[l] = index[l] /\ missed'[l] = missed[l]
        BY <1>0, <2>1, <3>2 DEF Inv0, Types
      <4>2. QED
        BY <1>0, <1>2, <4>1 DEF IndexAgrees, Agreement
    <3>3. QED
      BY <3>1, <3>2
  <2>4. \A l \in Colls : SnapAgrees(l)'
    BY <1>0, <1>2, <2>1 DEF Agreement, SnapAgrees, db
  <2>5. \A q \in Callers : CallAgrees(q)'
    BY <1>0, <1>1, <2>1, QuietCalls DEF CallAgrees
  <2>6. Half'
    BY <1>0, <2>1 DEF Half
  <2>7. QED
    BY <2>3, <2>4, <2>5, <2>6 DEF Agreement
<1>8. CASE SaveRead(p)
  <2>1. UNCHANGED <<db, idx>>
    BY <1>8 DEF SaveRead
  <2>2. CASE index[k] = NoIndex
    <3>1. call'[p].pc = "idle"
      BY <1>0, <1>8, <2>2 DEF SaveRead, Return, IdleCall
    <3>2. QED
      BY <1>0, <1>1, <2>1, <3>1, QuietAgrees DEF db, idx
  <2>3. CASE index[k] # NoIndex /\ setup = "ignored"
    <3>1. call'[p] = [call[p] EXCEPT !.pc = "saving", !.embs = {}, !.missed = Embs]
      BY <1>0, <1>8, <2>3 DEF SaveRead
    <3>2. call'[p].cid = k /\ call'[p].embs = {} /\ call'[p].missed = Embs
      BY <1>0, <3>1 DEF Call
    <3>3. Agree({}, Embs, emb[k], Pending(k))
      BY <1>0 DEF Agree, Inv0, Types
    <3>4. CallAgrees(p)'
      BY <1>0, <1>2, <3>2, <3>3 DEF CallAgrees
    <3>5. QED
      BY <1>0, <1>1, <2>1, <3>4, QuietAgrees DEF db, idx
  <2>4. CASE index[k] # NoIndex /\ setup # "ignored"
    <3>1. call'[p] = [call[p] EXCEPT !.pc = "saving", !.embs = index[k], !.missed = missed[k]]
      BY <1>0, <1>8, <2>4 DEF SaveRead
    <3>2. call'[p].cid = k /\ call'[p].embs = index[k] /\ call'[p].missed = missed[k]
      BY <1>0, <3>1 DEF Call
    <3>3. Agree(index[k], missed[k], emb[k], Pending(k))
      BY <1>0, <2>4 DEF Agreement, IndexAgrees
    <3>4. CallAgrees(p)'
      BY <1>0, <1>2, <3>2, <3>3 DEF CallAgrees
    <3>5. QED
      BY <1>0, <1>1, <2>1, <3>4, QuietAgrees DEF db, idx
  <2>5. QED
    BY <2>2, <2>3, <2>4
<1>9. CASE SaveCommit(p)
  <2>1. /\ call[p].pc = "saving" /\ call'[p].pc = "idle"
        /\ snap' = [snap EXCEPT ![k] = call[p].embs]
        /\ snapMissed' = [snapMissed EXCEPT ![k] = call[p].missed] /\ UNCHANGED idx
    BY <1>0, <1>9 DEF SaveCommit, IdleCall
  <2>2. Agree(call[p].embs, call[p].missed, emb[k], Pending(k))
    BY <2>1 DEF Agreement, CallAgrees
  <2>3. ASSUME NEW l \in Colls PROVE SnapAgrees(l)'
    <3>1. CASE l = k
      <4>1. snap'[k] = call[p].embs /\ snapMissed'[k] = call[p].missed
        BY <1>0, <2>1 DEF Inv0, Types
      <4>2. QED
        BY <1>0, <1>2, <2>2, <3>1, <4>1 DEF SnapAgrees
    <3>2. CASE l # k
      <4>1. snap'[l] = snap[l] /\ snapMissed'[l] = snapMissed[l]
        BY <1>0, <2>1, <3>2 DEF Inv0, Types
      <4>2. QED
        BY <1>0, <1>2, <4>1 DEF SnapAgrees, Agreement
    <3>3. QED
      BY <3>1, <3>2
  <2>4. \A l \in Colls : IndexAgrees(l)'
    BY <1>0, <1>2, <2>1 DEF Agreement, IndexAgrees, idx
  <2>5. \A q \in Callers : CallAgrees(q)'
    BY <1>0, <1>1, <2>1, QuietCalls DEF CallAgrees
  <2>6. Half'
    BY <1>0, <1>1, <2>1, QuietHalf DEF idx
  <2>7. QED
    BY <2>3, <2>4, <2>5, <2>6 DEF Agreement
<1>10. QED
  BY <1>4, <1>5, <1>6, <1>7, <1>8, <1>9

LEMMA AgreementStep ==
  ASSUME Inv0, Agreement, NEW p \in Callers, Step(p), Inv0', Others(p)
  PROVE  Agreement'
<1>0. call \in [Callers -> Call] /\ call' \in [Callers -> Call] /\ NoCaller \notin Callers
  BY VectorAssumption DEF Inv0, Types, CallsOK
<1>1. ASSUME call[p].pc \notin Locking, call'[p].pc \notin {"installing", "saving"},
             UNCHANGED <<mu, emb, snap, snapMissed, idx>>
      PROVE  Agreement'
  <2>1. mu # p
    BY <1>0, <1>1 DEF Inv0, MuInv
  <2>2. QED
    BY <1>1, <2>1, QuietAgrees DEF idx
<1>2. CASE Abort(p) \/ Recheck(p) \/ (\E e \in Embs : IndexFTS(p, e))
  <2>1. /\ call[p].pc \notin Locking /\ call'[p].pc \in {"idle", "text"}
        /\ UNCHANGED <<mu, emb, snap, snapMissed, idx>>
    BY <1>0, <1>2 DEF Abort, Recheck, IndexFTS, Return, IdleCall, Locking, Call, db
  <2>2. QED
    BY <1>1, <2>1
<1>3. CASE SearchIndex(p) \/ SearchLoad(p) \/ SearchReturn(p)
  <2>1. /\ call[p].pc \notin Locking /\ call'[p].pc \in {"idle", "scanning", "answered"}
        /\ UNCHANGED <<mu, emb, snap, snapMissed, idx>>
    BY <1>0, <1>3 DEF SearchIndex, SearchLoad, SearchReturn, Return, IdleCall, Locking, Call, db
  <2>2. QED
    BY <1>1, <2>1
<1>4. CASE DeleteBegin(p)
  <2>1. call[p].embs \in SUBSET Embs
    BY <1>0 DEF Call
  <2>2. QED
    BY <1>4, <2>1, AgreementRemove DEF DeleteBegin
<1>5. ASSUME NEW d \in Docs, DeleteDocBegin(p, d) PROVE Agreement'
  <2> DEFINE E == {e \in emb[call[p].cid] : DocOf[e] = d}
  <2>1. E \in SUBSET Embs /\ Remove(p, E) /\ call[p].pc # "idle"
    BY <1>5 DEF DeleteDocBegin, Inv0, Types, CallsOK
  <2> HIDE DEF E
  <2>2. QED
    BY <2>1, AgreementRemove
<1>6. QED
  BY <1>2, <1>3, <1>4, <1>5, AgreementDrop, AgreementUpsert, AgreementDeleted, AgreementImages DEF Step

LEMMA AgreementOther == Inv0 /\ Agreement /\ (Reopen \/ UNCHANGED vars) => Agreement'
<1> SUFFICES ASSUME Inv0, Agreement, Reopen \/ UNCHANGED vars PROVE Agreement'
  OBVIOUS
<1>1. CASE Reopen
  <2>1. /\ mu' = NoCaller /\ call' = [p \in Callers |-> IdleCall] /\ UNCHANGED <<emb, snap>>
        /\ index' = [k \in Colls |-> NoIndex]
        /\ snapMissed' = [k \in Colls |-> Aged(k, Pending(k))[k]]
    BY <1>1 DEF Reopen
  <2>2. ASSUME NEW k \in Colls, snap'[k] # NoIndex
        PROVE  Agree(snap'[k], snapMissed'[k], emb'[k], Pending(k)')
    <3>1. Agree(snap[k], snapMissed[k], emb[k], Pending(k)) /\ snap[k] # NoIndex
      BY <2>1, <2>2 DEF Agreement, SnapAgrees
    <3>2. snapMissed'[k] = snapMissed[k] \cup Pending(k)
      BY <2>1, <3>1 DEF Aged, Inv0, Types
    <3>3. QED
      BY <2>1, <3>1, <3>2 DEF Agree
  <2>3. \A p \in Callers : CallAgrees(p)'
    BY <2>1 DEF CallAgrees, IdleCall
  <2>4. QED
    BY <2>1, <2>2, <2>3 DEF Agreement, IndexAgrees, SnapAgrees, Half
<1>2. CASE UNCHANGED vars
  BY <1>2 DEF Agreement, IndexAgrees, SnapAgrees, CallAgrees, Half, Pending, Writes, vars, db, idx
<1>3. QED
  BY <1>1, <1>2

IndexInv == Inv0 /\ Fresh /\ Agreement

LEMMA IndexInductive == IndexInv /\ [Next]_vars => IndexInv'
<1> SUFFICES ASSUME IndexInv, [Next]_vars PROVE IndexInv'
  OBVIOUS
<1>1. Inv0 /\ Fresh /\ Agreement /\ Inv0' /\ Fresh'
  BY FreshInductive DEF IndexInv
<1>2. ASSUME NEW p \in Callers, Begin(p), UNCHANGED setup PROVE Agreement'
  BY <1>1, <1>2, BeginKeeps, AgreementBegin
<1>3. ASSUME NEW p \in Callers, Step(p), UNCHANGED setup PROVE Agreement'
  BY <1>1, <1>3, StepKeeps, AgreementStep
<1>4. Agreement'
  BY <1>1, <1>2, <1>3, AgreementOther DEF Next
<1>5. QED
  BY <1>1, <1>4 DEF IndexInv

(* With s.mu free an index agrees with what is stored, but for the writes  *)
(* that it has missed.                                                     *)
THEOREM IndexesAreCoherent == Spec => []IndexCoherent
<1>1. Init => IndexInv
  BY InitTypes, FreshInit, AgreementInit DEF IndexInv
<1>2. IndexInv => IndexCoherent
  <2> SUFFICES ASSUME IndexInv, Free, NEW k \in Colls, index[k] # NoIndex
               PROVE  (index[k] \ emb[k]) \cup (emb[k] \ index[k]) \subseteq missed[k]
    BY DEF IndexCoherent
  <2>1. Agree(index[k], missed[k], emb[k], {})
    BY FreePending DEF IndexInv, Agreement, IndexAgrees, Free
  <2>2. QED
    BY <2>1 DEF Agree
<1>3. QED
  BY <1>1, <1>2, IndexInductive, PTL DEF Spec

-----------------------------------------------------------------------------
(* What a search owes its caller.                                          *)

Owes(p) ==
  /\ call[p].owed \subseteq emb[call[p].cid]
  /\ mu # NoCaller /\ call[mu].cid = call[p].cid =>
       IF call[mu].pc = "dropping" THEN call[p].owed = {}
       ELSE call[p].owed \cap call[mu].embs = {}
  /\ call[p].pc # "search" => call[p].owed \subseteq call[p].embs

Searching == {"search", "scanning", "answered"}

SearchInv == \A p \in Callers : call[p].pc \in Searching => Owes(p)

LEMMA SearchBegin ==
  ASSUME IndexInv, SearchInv, NEW p \in Callers, Begin(p), UNCHANGED setup, IndexInv', Others(p)
  PROVE  SearchInv'
<1> USE DEF Inv0, Types, Others, SearchInv, Owes, Searching, IndexInv
<1>0. call \in [Callers -> Call] /\ call' \in [Callers -> Call]
  BY DEF CallsOK
<1>1. call[p].pc = "idle" => mu # p
  BY VectorAssumption DEF MuInv, Locking
<1>2. ASSUME call[p].pc = "idle", call'[p].pc \notin Searching, UNCHANGED <<emb, mu>>
      PROVE  SearchInv'
  BY <1>0, <1>1, <1>2
<1>3. ASSUME NEW op \in Ops, NEW E \in SUBSET Embs, Start(p, op, E), UNCHANGED <<emb, mu>>,
             op # "search"
      PROVE SearchInv'
  <2>1. call[p].pc = "idle" /\ call'[p].pc = op
    BY <1>0, <1>3 DEF Start, IdleCall
  <2>2. op \notin Searching
    BY <1>3, VectorAssumption DEF OpKinds
  <2>3. QED
    BY <1>2, <1>3, <2>1, <2>2
<1>4. CASE StartSearch(p)
  <2>1. /\ call[p].pc = "idle" /\ call'[p].pc = "search" /\ call'[p].cid = col /\ col \in Colls
        /\ call'[p].owed = Settled(col) /\ UNCHANGED <<emb, mu>> /\ mu # p
    BY <1>0, <1>1, <1>4 DEF StartSearch, IdleCall, db
  <2>2. Settled(col) \subseteq emb[col]
    BY DEF Settled
  <2>3. ASSUME mu # NoCaller, call[mu].cid = col
        PROVE  IF call[mu].pc = "dropping" THEN Settled(col) = {}
               ELSE Settled(col) \cap call[mu].embs = {}
    <3>1. mu \in Callers /\ call[mu].pc \in Locking
      BY <2>3 DEF MuInv
    <3>2. QED
      BY <2>3, <3>1 DEF Settled, Pending, Writes, Locking
  <2>4. QED
    BY <1>0, <1>1, <2>1, <2>2, <2>3
<1>5. ASSUME NEW k \in Colls, Create(p, k) PROVE SearchInv'
  BY <1>5 DEF Create
<1>6. CASE DropBegin(p)
  <2>1. /\ call[p].pc = "idle" /\ call'[p].pc = "dropping" /\ call'[p].cid = col /\ mu' = p
        /\ UNCHANGED emb
        /\ \A q \in Callers \ {p} : call[q].cid = col => call'[q].owed = {}
    <3>1. /\ call[p].pc = "idle" /\ call'[p].pc = "dropping" /\ call'[p].cid = col /\ mu' = p
          /\ UNCHANGED emb
      BY <1>0, <1>6 DEF DropBegin, Forgive, IdleCall, db
    <3>2. ASSUME NEW q \in Callers \ {p}, call[q].cid = col PROVE call'[q].owed = {}
      <4>1. call'[q].owed \cap Embs = {}
        BY <1>0, <1>6, <3>2, ForgiveOwed DEF DropBegin
      <4>2. call'[q].owed \in SUBSET Embs
        BY <1>0 DEF Call
      <4>3. QED
        BY <4>1, <4>2
    <3>3. QED
      BY <3>1, <3>2
  <2>2. ASSUME NEW q \in Callers \ {p}, call'[q].pc \in Searching PROVE Owes(q)'
    <3>1. Owes(q)
      BY <2>2
    <3>2. CASE call[q].cid = col
      BY <1>0, <2>1, <2>2, <3>1, <3>2
    <3>3. CASE call[q].cid # col
      BY <1>0, <2>1, <2>2, <3>1, <3>3
    <3>4. QED
      BY <3>2, <3>3
  <2>3. QED
    BY <1>0, <2>1, <2>2
<1>7. ASSUME NEW E \in SUBSET Embs, StartUpsert(p, E) \/ StartDelete(p, E) PROVE SearchInv'
  <2>1. PICK op \in Ops \cap {"upsert", "delete"} : Start(p, op, E)
    BY <1>7 DEF StartUpsert, StartDelete, Start
  <2>2. QED
    BY <1>3, <1>7, <2>1 DEF StartUpsert, StartDelete, db
<1>8. ASSUME NEW op \in Ops, StartOther(p, op) PROVE SearchInv'
  <2>1. {} \in SUBSET Embs /\ Start(p, op, {}) /\ op # "search" /\ UNCHANGED <<emb, mu>>
    BY <1>8 DEF StartOther, db
  <2>2. QED
    BY <1>3, <2>1
<1>9. QED
  BY <1>4, <1>5, <1>6, <1>7, <1>8 DEF Begin

LEMMA SearchStep ==
  ASSUME IndexInv, SearchInv, NEW p \in Callers, Step(p), UNCHANGED setup, IndexInv', Others(p)
  PROVE  SearchInv'
<1> USE DEF Inv0, Types, Others, SearchInv, Owes, Searching, IndexInv
<1>0. /\ call \in [Callers -> Call] /\ call' \in [Callers -> Call]
      /\ NoCaller \notin Callers
      /\ call[p].pc # "idle" => call[p].cid \in Colls
  BY VectorAssumption DEF CallsOK
<1>1. CASE DropCommit(p) \/ DropFail(p)
  <2>1. /\ call[p].pc = "dropping" /\ call'[p].pc = "idle" /\ mu' = NoCaller /\ mu = p
        /\ emb' = emb \/ emb' = [emb EXCEPT ![call[p].cid] = {}]
    BY <1>0, <1>1 DEF DropCommit, DropFail, Return, Over, IdleCall, MuInv, Locking, db
  <2>2. ASSUME NEW q \in Callers, q # p, call[q].pc \in Searching PROVE Owes(q)'
    <3>1. Owes(q) /\ call[q].cid \in Colls
      BY <1>0, <2>2 DEF CallsOK
    <3>2. call[q].cid = call[p].cid => call[q].owed = {}
      BY <1>0, <2>1, <3>1
    <3>3. QED
      BY <1>0, <2>1, <2>2, <3>1, <3>2
  <2>3. QED
    BY <1>0, <2>1, <2>2
<1>2. CASE UpsertCommit(p)
  <2>1. /\ call[p].pc = "upsert" /\ call'[p].pc = "inserting" /\ mu' = p /\ mu = NoCaller
        /\ call'[p].cid = call[p].cid /\ call'[p].embs = call[p].embs
        /\ emb' = [emb EXCEPT ![call[p].cid] = @ \cup call[p].embs]
    BY <1>0, <1>2 DEF UpsertCommit, Goto, Free, Call
  <2>2. call[p].embs \cap emb[call[p].cid] = {}
    BY <1>0, <2>1 DEF Fresh
  <2>3. QED
    BY <1>0, <2>1, <2>2
<1>3. CASE UpsertIndex(p)
  <2>1. call[p].pc = "inserting" /\ call'[p].pc = "recheck" /\ mu' = NoCaller /\ UNCHANGED emb
    <3>1. call'[p] = [call[p] EXCEPT !.pc = "recheck"] /\ call[p] \in Call
      BY <1>0, <1>3 DEF UpsertIndex, Over
    <3>2. call'[p].pc = "recheck"
      BY <3>1 DEF Call
    <3>3. QED
      BY <1>3, <3>2 DEF UpsertIndex
  <2>2. QED
    BY <1>0, <2>1
<1>4. ASSUME UNCHANGED <<emb, mu>>, mu # p, call'[p].pc \notin Searching PROVE SearchInv'
  BY <1>0, <1>4
<1>5. CASE Abort(p) \/ Recheck(p) \/ SearchReturn(p) \/ (\E e \in Embs : IndexFTS(p, e))
  <2>1. call'[p].pc \in {"idle", "text"} /\ UNCHANGED <<emb, mu>> /\ mu # p
    BY <1>0, <1>5 DEF Abort, Recheck, SearchReturn, IndexFTS, Return, IdleCall, MuInv, Locking, Call, db
  <2>2. QED
    BY <1>4, <2>1
<1>6. CASE LoadSnapshot(p) \/ RebuildDrop(p) \/ ReadVectors(p) \/ Install(p)
  <2>1. call'[p].pc \in {"reading", "installing", "idle"} /\ UNCHANGED <<emb, mu>> /\ mu # p
    BY <1>0, <1>6 DEF LoadSnapshot, RebuildDrop, ReadVectors, Install, Goto, Return, IdleCall,
       MuInv, Locking, Call, db
  <2>2. QED
    BY <1>4, <2>1
<1>7. CASE SaveRead(p) \/ SaveCommit(p)
  <2>1. call'[p].pc \in {"saving", "idle"} /\ UNCHANGED <<emb, mu>> /\ mu # p
    BY <1>0, <1>7 DEF SaveRead, SaveCommit, Return, IdleCall, MuInv, Locking, Call, db
  <2>2. QED
    BY <1>4, <2>1
<1>8. ASSUME NEW E, Remove(p, E) PROVE SearchInv'
  <2>1. /\ call'[p].pc = "deleting" /\ call'[p].cid = call[p].cid /\ call'[p].embs = E
        /\ mu' = p /\ UNCHANGED emb
    BY <1>0, <1>8, RemoveMoves DEF db
  <2>2. \A q \in Callers \ {p} : call[q].cid = call[p].cid => call'[q].owed \cap E = {}
    BY <1>0, <1>8, ForgiveOwed DEF Remove
  <2>3. QED
    BY <1>0, <2>1, <2>2
<1>9. CASE DeleteBegin(p) \/ \E d \in Docs : DeleteDocBegin(p, d)
  BY <1>8, <1>9 DEF DeleteBegin, DeleteDocBegin
<1>10. CASE DeleteCommit(p) \/ DeleteFail(p)
  <2>1. /\ call[p].pc = "deleting" /\ call'[p].pc = "idle" /\ mu' = NoCaller /\ mu = p
        /\ emb' = emb \/ emb' = [emb EXCEPT ![call[p].cid] = @ \ call[p].embs]
    BY <1>0, <1>10 DEF DeleteCommit, DeleteFail, Over, IdleCall, MuInv, Locking
  <2>2. ASSUME NEW q \in Callers \ {p}, call[q].pc \in Searching PROVE Owes(q)'
    <3>1. Owes(q) /\ (call[q].cid = call[p].cid => call[q].owed \cap call[p].embs = {})
      BY <1>0, <2>1, <2>2
    <3>2. call[q].owed \subseteq emb'[call[q].cid]
      BY <1>0, <2>1, <2>2, <3>1 DEF CallsOK
    <3>3. QED
      BY <1>0, <2>1, <3>1, <3>2
  <2>3. QED
    BY <1>0, <2>1, <2>2
<1>11. CASE SearchIndex(p)
  <2> DEFINE k == call[p].cid
  <2>1. /\ call[p].pc = "search" /\ UNCHANGED <<emb, mu>> /\ mu # p /\ k \in Colls
        /\ call[p] \in Call
    BY <1>0, <1>11 DEF SearchIndex, MuInv, Locking, db
  <2>2. /\ call'[p].pc = "scanning" /\ call'[p].cid = k
        /\ call'[p].owed \subseteq call[p].owed /\ call'[p].owed \subseteq call'[p].embs
    <3>1. CASE index[k] \in {NoIndex, {}}
      <4>1. call'[p] = [call[p] EXCEPT !.pc = "scanning", !.embs = emb[k]]
        BY <1>0, <1>11, <3>1 DEF SearchIndex
      <4>2. call[p].owed \subseteq emb[k]
        BY <2>1
      <4>3. QED
        BY <2>1, <4>1, <4>2 DEF Call
    <3>2. CASE index[k] \notin {NoIndex, {}}
      <4>1. call'[p] = [call[p] EXCEPT !.pc = "scanning", !.embs = index[k], !.owed = @ \ missed[k]]
        BY <1>0, <1>11, <3>2 DEF SearchIndex
      <4>2. Agree(index[k], missed[k], emb[k], Pending(k))
        BY <2>1, <3>2 DEF Agreement, IndexAgrees
      <4>3. call[p].owed \subseteq emb[k] /\ call[p].owed \cap Pending(k) = {}
        BY <2>1 DEF Pending, Writes, MuInv, Locking
      <4>4. call[p].owed \ missed[k] \subseteq index[k]
        BY <4>2, <4>3 DEF Agree
      <4>5. QED
        BY <2>1, <4>1, <4>4 DEF Call
    <3>3. QED
      BY <3>1, <3>2
  <2>3. QED
    BY <1>0, <2>1, <2>2
<1>12. CASE SearchLoad(p)
  <2>1. /\ call[p].pc = "scanning" /\ call'[p].pc = "answered" /\ call'[p].cid = call[p].cid
        /\ call'[p].owed = call[p].owed /\ UNCHANGED <<emb, mu>> /\ mu # p
        /\ call'[p].embs = call[p].embs \cap emb[call[p].cid]
    BY <1>0, <1>12 DEF SearchLoad, MuInv, Locking, Call, db
  <2>2. QED
    BY <1>0, <2>1
<1>13. QED
  BY <1>1, <1>2, <1>3, <1>5, <1>6, <1>7, <1>9, <1>10, <1>11, <1>12 DEF Step

LEMMA SearchOther == SearchInv /\ ((Reopen /\ UNCHANGED setup) \/ UNCHANGED vars) => SearchInv'
BY DEF SearchInv, Owes, Searching, Reopen, IdleCall, db, vars

(* A search finds all it owes its caller: what was settled when it began,  *)
(* is not taken away, and was not missed by an index that answered.        *)
THEOREM SearchesAreComplete == Spec => []SearchComplete
<1>1. Init => IndexInv /\ SearchInv
  BY InitTypes, FreshInit, AgreementInit DEF IndexInv, Init, SearchInv, Searching, IdleCall
<1>2. ASSUME IndexInv, SearchInv, [Next]_vars PROVE SearchInv'
  <2>1. IndexInv' /\ Inv0
    BY <1>2, IndexInductive DEF IndexInv
  <2>2. ASSUME NEW p \in Callers, Begin(p), UNCHANGED setup PROVE SearchInv'
    BY <1>2, <2>1, <2>2, BeginKeeps, SearchBegin
  <2>3. ASSUME NEW p \in Callers, Step(p), UNCHANGED setup PROVE SearchInv'
    BY <1>2, <2>1, <2>3, StepKeeps, SearchStep
  <2>4. QED
    BY <1>2, <2>2, <2>3, SearchOther DEF Next
<1>3. SearchInv => SearchComplete
  BY DEF SearchInv, Owes, Searching, SearchComplete
<1>4. QED
  BY <1>1, <1>2, <1>3, IndexInductive, PTL DEF Spec
=============================================================================
