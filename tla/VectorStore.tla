----------------------------- MODULE VectorStore -----------------------------
(***************************************************************************)
(* Collections, embeddings and their search structures in BadgerStore      *)
(* (src/pkg/store/crud.go, collection.go, search.go) as the facade calls   *)
(* them (src/pkg/gracedb/vector.go): the keys below emb:, the lexical      *)
(* entries below fts:, the in-memory vector index of a collection and the  *)
(* snapshot of it.                                                         *)
(*                                                                         *)
(* One collection name, used by several goroutines.  Every collection and  *)
(* every embedding gets a fresh identity (uuid.New): one from Colls, from  *)
(* Embs.  An index is the set of the embeddings it holds; vectors, scores  *)
(* and topK are left out, so a search returns all it can see.              *)
(*                                                                         *)
(* A Badger transaction that iterates over keys conflicts with a later     *)
(* writer of a key it has seen, never with the writer of a key that was    *)
(* not there: an entry added below the prefix meanwhile stays.             *)
(*                                                                         *)
(* History variables, which no action looks at, tell which writes an index *)
(* or a snapshot has missed: a load reads before it takes s.mu, a snapshot *)
(* grows old, and a deletion leaves the index before it can fail.          *)
(***************************************************************************)
EXTENDS Naturals, FiniteSets

CONSTANTS
  Callers, Colls, Embs, Docs,
  DocOf,         \* the document each embedding belongs to
  Ops,           \* the operations the callers use, a subset of OpKinds
  Setups,        \* the ways indexes can be configured
  MayReopen,     \* the process may be restarted
  NoColl, NoIndex, NoCaller

(* What becomes of the snapshot of an index when it is loaded: it is       *)
(* installed, or ignored by a combination of indexes.                      *)
Setup == {"kept", "ignored"}

OpKinds == {"create", "drop", "upsert", "delete", "deleteDoc", "search",
            "load", "save", "rebuild"}

ASSUME VectorAssumption ==
  /\ Ops \subseteq OpKinds
  /\ DocOf \in [Embs -> Docs]
  /\ Setups \subseteq Setup /\ MayReopen \in BOOLEAN
  /\ NoColl \notin Colls
  /\ NoCaller \notin Callers
  /\ \A E \in SUBSET Embs : E # NoIndex /\ E # NoColl

VARIABLES
  missed,      \* what the index of each collection has missed
  snapMissed,  \* and its snapshot
  col,    \* col:<name>
  emb,    \* emb:<cid>:<id>, with the vector and the content
  fts,    \* fts:<term>:<cid>:<id>, the embeddings with such entries
  snap,   \* idx:snapshot:<cid>
  index,  \* s.indexes
  used,   \* identities given out
  mu,     \* the caller that holds s.mu
  call,   \* the call each caller is in
  setup   \* s.idxType, s.idxTypes

db == <<col, emb, fts, snap, snapMissed>>
idx == <<index, missed>>
vars == <<db, idx, used, mu, call, setup>>

(* cid: the collection ID the call has read; embs: the embeddings it works *)
(* on; keys: the fts entries its transaction has seen; snap: whether that  *)
(* transaction has seen the snapshot, and whether it was written since;    *)
(* owed: the embeddings a search has to find; missed: what the vectors in  *)
(* embs have missed since they were read.                                  *)
PCs == {"idle", "inserting", "recheck", "text", "deleting", "dropping",
        "reading", "installing", "saving", "scanning", "answered"} \cup OpKinds
Call == [pc : PCs, cid : Colls \cup {NoColl}, embs : SUBSET Embs,
         keys : SUBSET Embs, snap : {"unseen", "seen", "written"},
         owed : SUBSET Embs, missed : SUBSET Embs]

IdleCall == [pc |-> "idle", cid |-> NoColl, embs |-> {}, keys |-> {},
             snap |-> "unseen", owed |-> {}, missed |-> {}]

TypeOK ==
  /\ col \in Colls \cup {NoColl}
  /\ emb \in [Colls -> SUBSET Embs]
  /\ fts \in [Colls -> SUBSET Embs]
  /\ snap \in [Colls -> {NoIndex} \cup SUBSET Embs]
  /\ index \in [Colls -> {NoIndex} \cup SUBSET Embs]
  /\ missed \in [Colls -> SUBSET Embs]
  /\ snapMissed \in [Colls -> SUBSET Embs]
  /\ used \subseteq Colls \cup Embs
  /\ mu \in Callers \cup {NoCaller}
  /\ call \in [Callers -> Call]
  /\ setup \in Setups
  /\ \A p \in Callers : call[p].pc # "idle" => call[p].cid \in Colls

Init ==
  /\ col = NoColl
  /\ emb = [k \in Colls |-> {}] /\ fts = [k \in Colls |-> {}]
  /\ snap = [k \in Colls |-> NoIndex]
  /\ index = [k \in Colls |-> NoIndex]
  /\ missed = [k \in Colls |-> {}] /\ snapMissed = [k \in Colls |-> {}]
  /\ used = {}
  /\ mu = NoCaller
  /\ call = [p \in Callers |-> IdleCall]
  /\ setup \in Setups

Goto(p, to) == call' = [call EXCEPT ![p].pc = to]
Return(p) == call' = [call EXCEPT ![p] = IdleCall]
Free == mu = NoCaller

(* A write of p is over, and its call becomes c: the vectors that loads    *)
(* and saves have at hand have missed the embeddings E, as has the         *)
(* snapshot there is.                                                      *)
Over(p, c, k, E) ==
  call' = [q \in Callers |->
            IF q = p THEN c
            ELSE IF call[q].cid = k /\ call[q].pc \in {"installing", "saving"}
                   THEN [call[q] EXCEPT !.missed = @ \cup E] ELSE call[q]]
Aged(k, E) == [snapMissed EXCEPT ![k] = IF snap[k] = NoIndex THEN {} ELSE @ \cup E]

-----------------------------------------------------------------------------
(* Every call but create and drop begins with GetCollection, in a          *)
(* transaction of its own and without s.mu; the ID it found is used from   *)
(* then on.  With no such collection the call fails and changes nothing.   *)
Start(p, op, E) ==
  /\ op \in Ops \ {"create", "drop"}
  /\ call[p].pc = "idle"
  /\ col # NoColl
  /\ call' = [call EXCEPT ![p] = [IdleCall EXCEPT !.pc = op, !.cid = col, !.embs = E]]

(* Upsert and UpsertBatch make a new embedding of each vector.             *)
StartUpsert(p, E) ==
  /\ E # {} /\ E \cap used = {}
  /\ Start(p, "upsert", E)
  /\ used' = used \cup E
  /\ UNCHANGED <<db, idx, mu>>

(* DeleteEmbedding, DeleteBatch: of identities found in the collection;    *)
(* another identity would be deleted to no effect.                         *)
StartDelete(p, E) ==
  /\ E # {}
  /\ Start(p, "delete", E)
  /\ E \subseteq emb[col]
  /\ UNCHANGED <<db, idx, used, mu>>

(* A search owes its caller the embeddings whose upsert is over and whose  *)
(* removal has not begun.                                                  *)
Writes(k, PC) == mu # NoCaller /\ call[mu].cid = k /\ call[mu].pc \in PC
Pending(k) == IF Writes(k, {"inserting", "deleting"}) THEN call[mu].embs ELSE {}
Settled(k) == IF Writes(k, {"dropping"}) THEN {} ELSE emb[k] \ Pending(k)

StartSearch(p) ==
  /\ "search" \in Ops
  /\ call[p].pc = "idle"
  /\ col # NoColl
  /\ call' = [call EXCEPT ![p] =
               [IdleCall EXCEPT !.pc = "search", !.cid = col, !.owed = Settled(col)]]
  /\ UNCHANGED <<db, idx, used, mu>>

StartOther(p, op) ==
  /\ op \in {"deleteDoc", "load", "save", "rebuild"}
  /\ Start(p, op, {})
  /\ UNCHANGED <<db, idx, used, mu>>

-----------------------------------------------------------------------------
(* Mutant: the ID is made from the name, the same each time.               *)
CreateSameID(p, k) ==
  /\ "create" \in Ops
  /\ call[p].pc = "idle" /\ Free
  /\ col = NoColl /\ used \cap Colls \subseteq {k}
  /\ col' = k
  /\ used' = used \cup {k}
  /\ UNCHANGED <<emb, fts, snap, snapMissed, idx, mu, call>>

(* CreateCollection does all its work under s.mu, in one transaction.      *)
Create(p, k) ==
  /\ "create" \in Ops
  /\ call[p].pc = "idle" /\ Free
  /\ col = NoColl /\ k \notin used
  /\ col' = k
  /\ used' = used \cup {k}
  /\ UNCHANGED <<emb, fts, snap, snapMissed, idx, mu, call>>

(* The call of p becomes c; searches of k no longer owe the embeddings E.  *)
Forgive(p, c, k, E) ==
  call' = [q \in Callers |->
            IF q = p THEN c
            ELSE IF call[q].cid = k THEN [call[q] EXCEPT !.owed = @ \ E] ELSE call[q]]

(* DeleteCollection takes s.mu, drops the index and reads every key of the *)
(* collection.                                                             *)
DropBegin(p) ==
  /\ "drop" \in Ops
  /\ call[p].pc = "idle" /\ Free
  /\ col # NoColl
  /\ mu' = p
  /\ index' = [index EXCEPT ![col] = NoIndex] /\ missed' = [missed EXCEPT ![col] = {}]
  /\ Forgive(p, [IdleCall EXCEPT !.pc = "dropping", !.cid = col, !.keys = fts[col],
                   !.snap = IF snap[col] = NoIndex THEN "unseen" ELSE "seen"], col, Embs)
  /\ UNCHANGED <<db, used>>

DropCommit(p) ==
  LET k == call[p].cid IN
  /\ call[p].pc = "dropping" /\ call[p].snap # "written"
  /\ col' = NoColl
  /\ emb' = [emb EXCEPT ![k] = {}]
  /\ fts' = [fts EXCEPT ![k] = @ \ call[p].keys]
  /\ IF call[p].snap = "seen"
       THEN /\ snap' = [snap EXCEPT ![k] = NoIndex]
            /\ snapMissed' = [snapMissed EXCEPT ![k] = {}]
       ELSE snap' = snap /\ snapMissed' = Aged(k, Embs)
  /\ mu' = NoCaller
  /\ Over(p, IdleCall, k, Embs)
  /\ UNCHANGED <<idx, used>>

(* A conflict, a transaction that is too big: the index stays dropped.     *)
DropFail(p) ==
  /\ call[p].pc = "dropping"
  /\ mu' = NoCaller
  /\ Return(p)
  /\ UNCHANGED <<db, idx, used>>

-----------------------------------------------------------------------------
(* writeEmbedding and UpsertBatch under s.mu: one transaction for all      *)
(* embeddings, whatever became of the collection, then the index if there  *)
(* is one.                                                                 *)
UpsertCommit(p) ==
  LET u == call[p] IN
  /\ u.pc = "upsert" /\ Free
  /\ mu' = p
  /\ emb' = [emb EXCEPT ![u.cid] = @ \cup u.embs]
  /\ Goto(p, "inserting")
  /\ UNCHANGED <<col, fts, snap, snapMissed, idx, used>>

(* A transaction fails before anything else has changed; IVF and LSH       *)
(* indexes never make the snapshot that SaveIndex would write.             *)
Abort(p) ==
  /\ call[p].pc = "saving" \/ (call[p].pc \in {"upsert", "deleteDoc"} /\ Free)
  /\ Return(p)
  /\ UNCHANGED <<db, idx, used, mu>>

(* Mutant: the new vectors are not put into the index.                     *)
UpsertIndexNone(p) ==
  LET u == call[p] IN
  /\ u.pc = "inserting"
  /\ missed' = [missed EXCEPT ![u.cid] = @ \ u.embs]
  /\ snapMissed' = Aged(u.cid, u.embs)
  /\ mu' = NoCaller
  /\ Over(p, [u EXCEPT !.pc = "recheck"], u.cid, u.embs)
  /\ UNCHANGED <<col, emb, fts, snap, index, used>>

UpsertIndex(p) ==
  LET u == call[p] IN
  /\ u.pc = "inserting"
  /\ index' = IF index[u.cid] = NoIndex THEN index
              ELSE [index EXCEPT ![u.cid] = @ \cup u.embs]
  /\ missed' = [missed EXCEPT ![u.cid] = @ \ u.embs]
  /\ snapMissed' = Aged(u.cid, u.embs)
  /\ mu' = NoCaller
  /\ Over(p, [u EXCEPT !.pc = "recheck"], u.cid, u.embs)
  /\ UNCHANGED <<col, emb, fts, snap, used>>

(* The facade looks the collection up a second time, and not at all if it  *)
(* is gone, before it indexes the contents.                                *)
Recheck(p) ==
  /\ call[p].pc = "recheck"
  /\ IF col = NoColl THEN Return(p)
     ELSE call' = [call EXCEPT ![p].pc = "text", ![p].cid = col]
  /\ UNCHANGED <<db, idx, used, mu>>

(* IndexFTS, a transaction for each embedding that has a content, without  *)
(* s.mu; its error is dropped.                                             *)
IndexFTS(p, e) ==
  LET u == call[p] IN
  /\ u.pc = "text" /\ e \in u.embs
  /\ \/ fts' = [fts EXCEPT ![u.cid] = @ \cup {e}]
     \/ UNCHANGED fts
  /\ IF u.embs = {e} THEN Return(p)
     ELSE call' = [call EXCEPT ![p].embs = @ \ {e}]
  /\ UNCHANGED <<col, emb, snap, snapMissed, idx, used, mu>>

-----------------------------------------------------------------------------
(* Mutant: the vectors stay in the index.                                  *)
RemoveNotIndexed(p, E) ==
  LET d == call[p] IN
  /\ Free
  /\ mu' = p
  /\ Forgive(p, [d EXCEPT !.pc = "deleting", !.embs = E, !.keys = fts[d.cid] \cap E],
             d.cid, E)
  /\ UNCHANGED <<db, idx, used>>

(* DeleteEmbedding, DeleteBatch and DeleteByDocID under s.mu: the vectors  *)
(* leave the index before the transaction commits.                         *)
Remove(p, E) ==
  LET d == call[p] IN
  /\ Free
  /\ mu' = p
  /\ index' = IF index[d.cid] = NoIndex THEN index
              ELSE [index EXCEPT ![d.cid] = @ \ E]
  /\ Forgive(p, [d EXCEPT !.pc = "deleting", !.embs = E, !.keys = fts[d.cid] \cap E],
             d.cid, E)
  /\ UNCHANGED <<db, missed, used>>

DeleteBegin(p) == call[p].pc = "delete" /\ Remove(p, call[p].embs)

DeleteDocBegin(p, d) ==
  /\ call[p].pc = "deleteDoc"
  /\ Remove(p, {e \in emb[call[p].cid] : DocOf[e] = d})

DeleteCommit(p) ==
  LET d == call[p] IN
  /\ d.pc = "deleting"
  /\ emb' = [emb EXCEPT ![d.cid] = @ \ d.embs]
  /\ fts' = [fts EXCEPT ![d.cid] = @ \ d.keys]
  /\ missed' = [missed EXCEPT ![d.cid] = @ \ d.embs]
  /\ snapMissed' = Aged(d.cid, d.embs)
  /\ mu' = NoCaller
  /\ Over(p, IdleCall, d.cid, d.embs)
  /\ UNCHANGED <<col, snap, index, used>>

(* The transaction fails: stored, and gone from the index.                 *)
DeleteFail(p) ==
  LET d == call[p] IN
  /\ d.pc = "deleting"
  /\ missed' = IF index[d.cid] = NoIndex THEN missed
               ELSE [missed EXCEPT ![d.cid] = @ \cup d.embs]
  /\ snapMissed' = Aged(d.cid, d.embs)
  /\ mu' = NoCaller
  /\ Over(p, IdleCall, d.cid, d.embs)
  /\ UNCHANGED <<col, emb, fts, snap, index, used>>

-----------------------------------------------------------------------------
(* vectorSearch, without s.mu: the index answers as soon as it holds a     *)
(* vector, else all stored vectors are compared; then the records of the   *)
(* hits are loaded, and hits without one are dropped.  What an index that  *)
(* answers has missed is no longer owed.                                   *)
SearchIndex(p) ==
  LET k == call[p].cid IN
  /\ call[p].pc = "search"
  /\ call' = IF index[k] \in {NoIndex, {}}
               THEN [call EXCEPT ![p].pc = "scanning", ![p].embs = emb[k]]
             ELSE [call EXCEPT ![p].pc = "scanning", ![p].embs = index[k],
                               ![p].owed = @ \ missed[k]]
  /\ UNCHANGED <<db, idx, used, mu>>

SearchLoad(p) ==
  /\ call[p].pc = "scanning"
  /\ call' = [call EXCEPT ![p].pc = "answered", ![p].embs = @ \cap emb[call[p].cid]]
  /\ UNCHANGED <<db, idx, used, mu>>

SearchReturn(p) ==
  /\ call[p].pc = "answered"
  /\ Return(p)
  /\ UNCHANGED <<db, idx, used, mu>>

-----------------------------------------------------------------------------
(* LoadIndex: a snapshot, however old, is preferred to the vectors.        *)
LoadSnapshot(p) ==
  LET k == call[p].cid IN
  /\ call[p].pc = "load"
  /\ call' = IF snap[k] = NoIndex THEN [call EXCEPT ![p].pc = "reading"]
             ELSE [call EXCEPT ![p].pc = "installing", ![p].embs = snap[k],
                               ![p].missed = snapMissed[k]]
  /\ UNCHANGED <<db, idx, used, mu>>

RebuildDrop(p) ==
  /\ call[p].pc = "rebuild" /\ Free
  /\ index' = [index EXCEPT ![call[p].cid] = NoIndex]
  /\ missed' = [missed EXCEPT ![call[p].cid] = {}]
  /\ Goto(p, "reading")
  /\ UNCHANGED <<db, used, mu>>

ReadVectors(p) ==
  /\ call[p].pc = "reading"
  /\ call' = [call EXCEPT ![p].pc = "installing", ![p].embs = emb[call[p].cid]]
  /\ UNCHANGED <<db, idx, used, mu>>

(* s.mu is taken only to publish the finished index.                       *)
Install(p) ==
  /\ call[p].pc = "installing" /\ Free
  /\ index' = [index EXCEPT ![call[p].cid] = call[p].embs]
  /\ missed' = [missed EXCEPT ![call[p].cid] = call[p].missed]
  /\ Return(p)
  /\ UNCHANGED <<db, used, mu>>

(* SaveIndex reads s.indexes without s.mu and writes what it marshalled.   *)
(* A combination of indexes writes a snapshot as well, but what it reads   *)
(* back from any is nothing, so that its snapshots count as empty.         *)
SaveRead(p) ==
  LET k == call[p].cid IN
  /\ call[p].pc = "save"
  /\ IF index[k] = NoIndex THEN Return(p)
     ELSE call' = IF setup = "ignored"
                    THEN [call EXCEPT ![p].pc = "saving", ![p].embs = {}, ![p].missed = Embs]
                  ELSE [call EXCEPT ![p].pc = "saving", ![p].embs = index[k],
                                    ![p].missed = missed[k]]
  /\ UNCHANGED <<db, idx, used, mu>>

SaveCommit(p) ==
  LET k == call[p].cid IN
  /\ call[p].pc = "saving"
  /\ snap' = [snap EXCEPT ![k] = call[p].embs]
  /\ snapMissed' = [snapMissed EXCEPT ![k] = call[p].missed]
  /\ call' = [q \in Callers |->
               IF q = p THEN IdleCall
               ELSE IF call[q].cid = k /\ call[q].snap = "seen"
                      THEN [call[q] EXCEPT !.snap = "written"] ELSE call[q]]
  /\ UNCHANGED <<col, emb, fts, idx, used, mu>>

-----------------------------------------------------------------------------
(* Closed or killed at any point and opened again.                         *)
Reopen ==
  /\ MayReopen
  /\ index' = [k \in Colls |-> NoIndex] /\ missed' = [k \in Colls |-> {}]
  /\ snapMissed' = [k \in Colls |-> Aged(k, Pending(k))[k]]
  /\ mu' = NoCaller
  /\ call' = [p \in Callers |-> IdleCall]
  /\ UNCHANGED <<col, emb, fts, snap, used>>

Begin(p) ==
  \/ \E E \in SUBSET Embs : StartUpsert(p, E) \/ StartDelete(p, E)
  \/ StartSearch(p)
  \/ \E op \in Ops : StartOther(p, op)
  \/ \E k \in Colls : Create(p, k)
  \/ DropBegin(p)

Step(p) ==
  \/ DropCommit(p) \/ DropFail(p) \/ Abort(p)
  \/ UpsertCommit(p) \/ UpsertIndex(p) \/ Recheck(p) \/ \E e \in Embs : IndexFTS(p, e)
  \/ DeleteBegin(p) \/ (\E d \in Docs : DeleteDocBegin(p, d))
  \/ DeleteCommit(p) \/ DeleteFail(p)
  \/ SearchIndex(p) \/ SearchLoad(p) \/ SearchReturn(p)
  \/ LoadSnapshot(p) \/ RebuildDrop(p) \/ ReadVectors(p) \/ Install(p)
  \/ SaveRead(p) \/ SaveCommit(p)

Next == (Reopen \/ \E p \in Callers : Begin(p) \/ Step(p)) /\ UNCHANGED setup

Spec == Init /\ [][Next]_vars

-----------------------------------------------------------------------------
(* With s.mu free, a vector index agrees with what is stored               *)
(* (architecture-en.md:192, "Upsert synchronously updates in-memory        *)
(* index"), but for what it has missed: writes that were not over when a   *)
(* load read the vectors or a save the index, and deletions that failed.   *)
IndexCoherent ==
  Free => \A k \in Colls : index[k] # NoIndex =>
            (index[k] \ emb[k]) \cup (emb[k] \ index[k]) \subseteq missed[k]

(* A search finds every embedding whose upsert was over when it began and  *)
(* whose removal had not begun when it ended (README.md:32, "Stored        *)
(* vectors are durable and searchable after reopen"), but for what the     *)
(* index had missed if one answered.                                       *)
SearchComplete ==
  \A p \in Callers : call[p].pc = "answered" => call[p].owed \subseteq call[p].embs

(* Named through its collection, what is stored is the set of Collection:  *)
(* a restart cuts no call in half, and a name dropped and used again names *)
(* an empty collection though calls that began before are still writing.   *)
Held == IF col = NoColl THEN NoColl ELSE emb[col]
Contents == INSTANCE Collection WITH held <- Held, Absent <- NoColl
ImplementsCollection == Contents!Spec
=============================================================================
