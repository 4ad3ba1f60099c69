-------------------------- MODULE MemoryStoreProofs --------------------------
(***************************************************************************)
(* Proofs about MemoryStore, for any sets of memories, buckets, contents   *)
(* and vectors, with or without expiry and restarts: the type invariant,   *)
(* that mem:idx always leads to a record, that the lexical index agrees    *)
(* with the contents and the vector index with the stored vectors, and     *)
(* that the store implements the map of MemoryMap.                         *)
(***************************************************************************)
EXTENDS MemoryStore, TLAPS

(* What an open transaction that will commit relies on: the ID it resolved *)
(* still resolves to the same bucket.  Conflict detection is what keeps it *)
(* true while the other side commits.                                      *)
OpenTxns ==
  /\ w.pc = "txn" /\ ~w.conflict /\ w.req.kind # "save" => Stored(w.req.m)
  /\ w.pc = "indexing" => w.req.kind # "delete"
  /\ c.pc = "txn" /\ ~c.conflict => idx[c.m] = c.b

MemoryInv == TypeOK /\ OpenTxns /\ IdxLeadsToRecord /\ LexicalAgrees

LEMMA FreshIsRecord ==
  ASSUME NEW content \in Contents, NEW ttl \in BOOLEAN
  PROVE  /\ Map!Fresh(content, ttl) \in Map!Records
         /\ Map!Fresh(content, ttl).content = content
  BY DEF Map!Fresh, Map!Records, Map!Expiries

LEMMA ChangedIsRecord ==
  ASSUME NEW r \in Map!Records, NEW content \in Contents \cup {Keep},
         NEW ttl \in Map!TTLChanges
  PROVE  /\ Map!Changed(r, content, ttl) \in Map!Records
         /\ Map!Changed(r, content, ttl).content =
              IF content = Keep THEN r.content ELSE content
  BY DEF Map!Changed, Map!Records, Map!Expiries, Map!TTLChanges

(* The request of an open call, by its kind.                               *)
LEMMA OpenRequest ==
  ASSUME w \in Writers, w.pc # "idle"
  PROVE  /\ w \in [pc : {"txn", "indexing"}, req : Requests, conflict : BOOLEAN]
         /\ w.req.m \in Memories
         /\ w.req.kind = "save" => w.req \in SaveReq
         /\ w.req.kind = "update" => w.req \in UpdateReq
         /\ w.req.kind # "delete" => w.req.vector \in Vectors \cup {NoVector}
<1>1. w \in [pc : {"txn", "indexing"}, req : Requests, conflict : BOOLEAN]
  BY DEF Writers, Idle
<1>2. w.req \in SaveReq \cup UpdateReq \cup DeleteReq
  BY <1>1 DEF Requests
<1>3. QED
  BY <1>1, <1>2 DEF SaveReq, UpdateReq, DeleteReq

LEMMA TaintTypes ==
  ASSUME NEW req, c \in Cleaners, TaintCleaner(req)
  PROVE  c' \in Cleaners
<1>1. CASE c.pc = "txn"
  <2>1. c \in [pc : {"txn", "removing"}, queue : SUBSET Memories, m : Memories,
               b : Buckets, conflict : BOOLEAN]
    BY <1>1 DEF Cleaners, Idle
  <2>2. QED
    BY <2>1 DEF TaintCleaner, Cleaners
<1>2. CASE c.pc # "txn"
  BY <1>2 DEF TaintCleaner, TaintsCleaner
<1>3. QED
  BY <1>1, <1>2

LEMMA TypeInvariant ==
  ASSUME TypeOK, OpenTxns, IdxLeadsToRecord, [Next]_vars
  PROVE  TypeOK'
<1> USE MemoryAssumption DEF TypeOK
<1>1. ASSUME NEW req \in Requests, Begin(req) PROVE TypeOK'
  BY <1>1 DEF Begin, db, Writers, Idle, Stored, Requests, DeleteReq, UpdateReq, SaveReq
<1>2. CASE Conflict
  BY <1>2 DEF Conflict, db, Writers, Idle
<1>3. CASE CommitSave
  <2>1. w.req \in SaveReq /\ w.pc = "txn" /\ w.req.vector \in Vectors \cup {NoVector}
    BY <1>3, OpenRequest DEF CommitSave, CanCommit
  <2>2. w.req.m \in Memories /\ w.req.b \in Buckets /\ w.req.content \in Contents
    BY <2>1 DEF SaveReq
  <2>3. Map!Fresh(w.req.content, w.req.ttl) \in Map!Records
    BY <2>1, FreshIsRecord DEF SaveReq
  <2>4. rec' \in [Buckets -> [Memories -> Map!Records \cup {NoRecord}]]
    BY <1>3, <2>2, <2>3 DEF CommitSave
  <2>5. /\ fts' \in [Buckets -> [Memories -> Contents \cup {NoContent}]]
        /\ vec' \in [Buckets -> [Memories -> Vectors \cup {NoVector}]]
        /\ idx' \in [Memories -> Buckets \cup {NoBucket}]
        /\ memIndex' = memIndex
    BY <1>3, <2>1, <2>2 DEF CommitSave, StoreVector
  <2>6. w' \in Writers
    BY <1>3, <2>1, OpenRequest DEF CommitSave, Committed, Writers, Idle
  <2>7. c' \in Cleaners
    BY <1>3, TaintTypes DEF CommitSave
  <2>8. QED
    BY <2>4, <2>5, <2>6, <2>7
<1>4. CASE CommitUpdate
  <2> DEFINE b == idx[w.req.m]
  <2>1. w.req \in UpdateReq /\ w.pc = "txn" /\ w.req.vector \in Vectors \cup {NoVector}
    BY <1>4, OpenRequest DEF CommitUpdate, CanCommit
  <2>2. /\ w.req.m \in Memories /\ w.req.content \in Contents \cup {Keep}
        /\ w.req.ttl \in Map!TTLChanges
    BY <2>1 DEF UpdateReq
  <2>3. b \in Buckets /\ rec[b][w.req.m] \in Map!Records
    BY <1>4, <2>2 DEF CommitUpdate, CanCommit, OpenTxns, Stored, IdxLeadsToRecord
  <2>4. Map!Changed(rec[b][w.req.m], w.req.content, w.req.ttl) \in Map!Records
    BY <2>2, <2>3, ChangedIsRecord
  <2>5. rec' \in [Buckets -> [Memories -> Map!Records \cup {NoRecord}]]
    BY <1>4, <2>2, <2>3, <2>4 DEF CommitUpdate
  <2>6. /\ fts' \in [Buckets -> [Memories -> Contents \cup {NoContent}]]
        /\ vec' \in [Buckets -> [Memories -> Vectors \cup {NoVector}]]
        /\ idx' = idx /\ memIndex' = memIndex
    BY <1>4, <2>1, <2>2, <2>3 DEF CommitUpdate, StoreVector
  <2>7. w' \in Writers
    BY <1>4, <2>1, OpenRequest DEF CommitUpdate, Committed, Writers, Idle
  <2>8. c' \in Cleaners
    BY <1>4, TaintTypes DEF CommitUpdate
  <2>9. QED
    BY <2>5, <2>6, <2>7, <2>8
<1>5. CASE CommitDelete
  BY <1>5, TaintTypes DEF CommitDelete, DropKeys, Writers
<1>6. CASE IndexVector
  <2> DEFINE b == Bucket(w.req)
  <2>1. w.req.m \in Memories /\ w.req.vector \in Vectors \cup {NoVector}
    BY <1>6, OpenRequest DEF IndexVector, OpenTxns
  <2>2. b \in Buckets \cup {NoBucket}
    BY <1>6, OpenRequest DEF Bucket, IndexVector, SaveReq
  <2>3. memIndex' \in [Buckets -> [Memories -> Vectors \cup {NoVector}]]
    BY <1>6, <2>1, <2>2 DEF IndexVector
  <2>4. QED
    BY <1>6, <2>3 DEF IndexVector, db, Writers
<1>7. CASE Scan
  BY <1>7 DEF Scan, Expired, db, Cleaners, Idle
<1>8. ASSUME NEW m \in Memories, DirectBegin(m) PROVE TypeOK'
  BY <1>8 DEF DirectBegin, Rest, Stored, db, Cleaners, Idle
<1>9. CASE DirectConflict
  BY <1>9 DEF DirectConflict, Rest, db, Cleaners, Idle
<1>10. CASE DirectCommit
  <2>1. c \in [pc : {"txn", "removing"}, queue : SUBSET Memories, m : Memories,
               b : Buckets, conflict : BOOLEAN]
    BY <1>10 DEF DirectCommit, Cleaners, Idle
  <2>2. c' \in Cleaners
    BY <1>10, <2>1 DEF DirectCommit, Cleaners
  <2>3. w' \in Writers
    BY <1>10, OpenRequest DEF DirectCommit, TaintsWriter, Writers
  <2>4. QED
    BY <1>10, <2>1, <2>2, <2>3 DEF DirectCommit, DropKeys
<1>11. CASE DirectRemove
  BY <1>11 DEF DirectRemove, Rest, db, Cleaners, Idle
<1>12. ASSUME NEW b \in Buckets, NEW m \in Memories, Expire(b, m) PROVE TypeOK'
  <2>1. [rec[b][m] EXCEPT !.expiry = "past"] \in Map!Records
    <3>1. rec[b][m] \in Map!Records
      BY <1>12 DEF Expire
    <3>2. QED
      BY <3>1 DEF Map!Records, Map!Expiries
  <2>2. rec' \in [Buckets -> [Memories -> Map!Records \cup {NoRecord}]]
    BY <1>12, <2>1 DEF Expire
  <2>3. QED
    BY <1>12, <2>2 DEF Expire
<1>13. CASE Reopen
  BY <1>13 DEF Reopen, Everywhere, db, Cleaners, Writers, Idle
<1>14. CASE UNCHANGED vars
  BY <1>14 DEF vars
<1>15. QED
  BY <1>1, <1>2, <1>3, <1>4, <1>5, <1>6, <1>7, <1>8, <1>9, <1>10, <1>11, <1>12,
     <1>13, <1>14 DEF Next, CallStep, CleanupStep

(* Commits of the two sides: each marks the other's open transaction when  *)
(* it writes what that one has read.                                       *)
LEMMA OpenTxnsInductive ==
  ASSUME TypeOK, OpenTxns, IdxLeadsToRecord, LexicalAgrees, [Next]_vars
  PROVE  OpenTxns'
<1> USE MemoryAssumption DEF TypeOK, OpenTxns, Stored
<1>1. ASSUME NEW req \in Requests, Begin(req) PROVE OpenTxns'
  BY <1>1 DEF Begin, db
<1>2. CASE Conflict
  BY <1>2 DEF Conflict, db, Idle
<1>3. CASE CommitSave
  <2>1. w'.pc # "txn" /\ w'.pc = "indexing" => w'.req = w.req /\ w.req.kind = "save"
    BY <1>3, OpenRequest DEF CommitSave, CanCommit, Committed, Idle
  <2>2. w'.pc # "txn"
    BY <1>3, OpenRequest DEF CommitSave, Committed, Idle
  <2>3. c'.pc = "txn" /\ ~c'.conflict => idx'[c'.m] = c'.b
    BY <1>3 DEF CommitSave, CanCommit, TaintCleaner, TaintsCleaner, Cleaners, Idle
  <2>4. QED
    BY <2>1, <2>2, <2>3
<1>4. CASE CommitUpdate
  <2>1. w'.pc # "txn" /\ (w'.pc = "indexing" => w'.req = w.req)
    BY <1>4, OpenRequest DEF CommitUpdate, Committed, Idle
  <2>2. c'.pc = "txn" /\ ~c'.conflict => idx'[c'.m] = c'.b
    BY <1>4 DEF CommitUpdate, TaintCleaner, TaintsCleaner, Cleaners, Idle
  <2>3. QED
    BY <1>4, <2>1, <2>2 DEF CommitUpdate, CanCommit
<1>5. CASE CommitDelete
  <2>1. c'.pc = "txn" /\ ~c'.conflict => idx'[c'.m] = c'.b
    BY <1>5 DEF CommitDelete, CanCommit, DropKeys, TaintCleaner, TaintsCleaner, Cleaners, Idle
  <2>2. QED
    BY <1>5, <2>1 DEF CommitDelete, Idle
<1>6. CASE IndexVector
  BY <1>6 DEF IndexVector, db, Idle
<1>7. CASE Scan
  BY <1>7 DEF Scan, db
<1>8. ASSUME NEW m \in Memories, DirectBegin(m) PROVE OpenTxns'
  BY <1>8 DEF DirectBegin, Rest, db, Idle
<1>9. CASE DirectConflict
  BY <1>9 DEF DirectConflict, Rest, db, Idle
<1>10. CASE DirectCommit
  <2>1. c'.pc = "removing"
    BY <1>10 DEF DirectCommit, Cleaners, Idle
  <2>2. w'.pc = "txn" /\ ~w'.conflict /\ w'.req.kind # "save" => idx'[w'.req.m] # NoBucket
    BY <1>10, OpenRequest DEF DirectCommit, DropKeys, TaintsWriter
  <2>3. w'.pc = "indexing" => w'.req.kind # "delete"
    BY <1>10 DEF DirectCommit, TaintsWriter
  <2>4. QED
    BY <2>1, <2>2, <2>3
<1>11. CASE DirectRemove
  BY <1>11 DEF DirectRemove, Rest, db, Idle
<1>12. ASSUME NEW b \in Buckets, NEW m \in Memories, Expire(b, m) PROVE OpenTxns'
  BY <1>12 DEF Expire
<1>13. CASE Reopen
  BY <1>13 DEF Reopen, db, Idle
<1>14. CASE UNCHANGED vars
  BY <1>14 DEF vars
<1>15. QED
  BY <1>1, <1>2, <1>3, <1>4, <1>5, <1>6, <1>7, <1>8, <1>9, <1>10, <1>11, <1>12,
     <1>13, <1>14 DEF Next, CallStep, CleanupStep

LEMMA KeysInductive ==
  ASSUME TypeOK, OpenTxns, IdxLeadsToRecord, LexicalAgrees, [Next]_vars
  PROVE  IdxLeadsToRecord' /\ LexicalAgrees'
<1> USE MemoryAssumption DEF TypeOK, IdxLeadsToRecord, LexicalAgrees, Stored
<1>1. CASE UNCHANGED <<rec, fts, idx>>
  BY <1>1
<1>2. CASE CommitSave
  <2> DEFINE f == Map!Fresh(w.req.content, w.req.ttl)
  <2>1. w.req \in SaveReq
    BY <1>2, OpenRequest DEF CommitSave, CanCommit
  <2>2. w.req.m \in Memories /\ w.req.b \in Buckets
    BY <2>1 DEF SaveReq
  <2>3. f # NoRecord /\ f.content = w.req.content
    BY <2>1, FreshIsRecord DEF SaveReq
  <2>4. QED
    BY <1>2, <2>2, <2>3 DEF CommitSave
<1>3. CASE CommitUpdate
  <2> DEFINE b == idx[w.req.m]
             n == Map!Changed(rec[b][w.req.m], w.req.content, w.req.ttl)
  <2>1. w.req \in UpdateReq
    BY <1>3, OpenRequest DEF CommitUpdate, CanCommit
  <2>2. w.req.m \in Memories
    BY <2>1 DEF UpdateReq
  <2>3. b \in Buckets /\ rec[b][w.req.m] \in Map!Records
    BY <1>3, <2>2 DEF CommitUpdate, CanCommit, OpenTxns
  <2>4. n # NoRecord /\ n.content = IF w.req.content = Keep
                                    THEN rec[b][w.req.m].content ELSE w.req.content
    BY <2>1, <2>3, ChangedIsRecord DEF UpdateReq
  <2>5. /\ rec' = [rec EXCEPT ![b][w.req.m] = n]
        /\ fts' = IF w.req.content = Keep THEN fts
                  ELSE [fts EXCEPT ![b][w.req.m] = w.req.content]
        /\ idx' = idx
    BY <1>3, <2>2, <2>3 DEF CommitUpdate
  <2> HIDE DEF n, b
  <2>6. IdxLeadsToRecord'
    BY <2>2, <2>3, <2>4, <2>5
  <2>7. LexicalAgrees'
    BY <2>2, <2>3, <2>4, <2>5
  <2>8. QED
    BY <2>6, <2>7
<1>4. CASE CommitDelete
  <2> DEFINE m == w.req.m
             b == idx[m]
  <2>1. m \in Memories
    BY <1>4, OpenRequest DEF CommitDelete, CanCommit
  <2>2. b \in Buckets
    BY <1>4, <2>1 DEF CommitDelete, CanCommit, OpenTxns
  <2>3. /\ rec' = [rec EXCEPT ![b][m] = NoRecord]
        /\ fts' = [fts EXCEPT ![b][m] = NoContent]
        /\ idx' = [idx EXCEPT ![m] = NoBucket]
    BY <1>4 DEF CommitDelete, DropKeys
  <2> HIDE DEF b, m
  <2>4. IdxLeadsToRecord'
    BY <2>1, <2>2, <2>3
  <2>5. LexicalAgrees'
    BY <2>1, <2>2, <2>3
  <2>6. QED
    BY <2>4, <2>5
<1>5. CASE DirectCommit
  BY <1>5 DEF DirectCommit, DropKeys, OpenTxns, Cleaners, Idle
<1>6. ASSUME NEW b \in Buckets, NEW m \in Memories, Expire(b, m)
      PROVE  IdxLeadsToRecord' /\ LexicalAgrees'
  <2> DEFINE n == [rec[b][m] EXCEPT !.expiry = "past"]
  <2>1. rec[b][m] \in Map!Records
    BY <1>6 DEF Expire
  <2>2. n \in Map!Records /\ n.content = rec[b][m].content
    BY <2>1 DEF Map!Records, Map!Expiries
  <2>3. rec' = [rec EXCEPT ![b][m] = n] /\ fts' = fts /\ idx' = idx
    BY <1>6, <2>1 DEF Expire
  <2> HIDE DEF n
  <2>4. IdxLeadsToRecord'
    BY <2>2, <2>3
  <2>5. LexicalAgrees'
    BY <2>1, <2>2, <2>3
  <2>6. QED
    BY <2>4, <2>5
<1>7. QED
  BY <1>1, <1>2, <1>3, <1>4, <1>5, <1>6
     DEF Next, CallStep, CleanupStep, Begin, Conflict, IndexVector, Scan, DirectBegin,
         DirectConflict, DirectRemove, Reopen, db, vars

THEOREM MemoryInvariant == Spec => []MemoryInv
<1>1. Init => MemoryInv
  BY MemoryAssumption DEF Init, MemoryInv, TypeOK, OpenTxns, IdxLeadsToRecord,
     LexicalAgrees, Stored, Everywhere, Writers, Cleaners, Idle
<1>2. MemoryInv /\ [Next]_vars => MemoryInv'
  BY TypeInvariant, OpenTxnsInductive, KeysInductive DEF MemoryInv
<1>3. QED
  BY <1>1, <1>2, PTL DEF Spec

(* An ID that mem:idx knows has its record in the bucket it names, and the *)
(* terms stored for a memory are those of its current content.             *)
THEOREM MemoryKeysAgree == Spec => []KeysAgree
<1>1. MemoryInv => KeysAgree
  BY DEF MemoryInv, KeysAgree
<1>2. QED
  BY <1>1, MemoryInvariant, PTL

-----------------------------------------------------------------------------
(* Who may owe the index an update: the cleanup that has committed its     *)
(* deletion, and the call that has committed its vector.                   *)
Removing(b, m) == c.pc = "removing" /\ c.m = m /\ c.b = b
Indexing(b, m) == w.pc = "indexing" /\ w.req.m = m /\ Bucket(w.req) = b

(* An index entry is the stored vector unless its update is owed.  A       *)
(* delete that will commit has taken its vector out already; a call that   *)
(* is about to index carries the stored vector, unless the cleanup has     *)
(* deleted it and owes the removal.                                        *)
Owed(b, m) ==
  memIndex[b][m] \in {NoVector, vec[b][m]} \/ Removing(b, m) \/ Indexing(b, m)

IndexInv ==
  /\ \A b \in Buckets, m \in Memories : Owed(b, m)
  /\ w.pc = "txn" /\ ~w.conflict /\ w.req.kind = "delete" =>
       memIndex[idx[w.req.m]][w.req.m] = NoVector
  /\ w.pc = "indexing" /\ w.req.kind = "save" => idx[w.req.m] \in {w.req.b, NoBucket}
  /\ \A b \in Buckets : w.pc = "indexing" /\ Bucket(w.req) = b =>
       vec[b][w.req.m] = w.req.vector \/ Removing(b, w.req.m)

LEMMA IndexInductive ==
  ASSUME MemoryInv, IndexInv, [Next]_vars
  PROVE  IndexInv'
<1> USE MemoryAssumption DEF MemoryInv, TypeOK, IndexInv, Owed, Removing, Indexing, Stored
<1>1. ASSUME NEW req \in Requests, Begin(req) PROVE IndexInv'
  <2>1. req.m \in Memories
    BY DEF Requests, SaveReq, UpdateReq, DeleteReq
  <2>2. w'.pc = "txn" /\ w'.req = req /\ w.pc = "idle" /\ vec' = vec /\ idx' = idx /\ c' = c
    BY <1>1 DEF Begin, db
  <2>3. \A b \in Buckets, m \in Memories : memIndex'[b][m] \in {NoVector, memIndex[b][m]}
    BY <1>1, <2>1 DEF Begin
  <2>4. req.kind = "delete" => memIndex'[idx[req.m]][req.m] = NoVector
    BY <1>1, <2>1 DEF Begin
  <2>5. QED
    BY <2>2, <2>3, <2>4
<1>2. CASE Conflict
  BY <1>2 DEF Conflict, db, Idle
<1>3. CASE CommitSave
  <2> DEFINE r == w.req
  <2>1. r \in SaveReq /\ w.pc = "txn" /\ r.kind = "save"
        /\ w \in [pc : {"txn", "indexing"}, req : Requests, conflict : BOOLEAN]
    BY <1>3, OpenRequest DEF CommitSave, CanCommit
  <2>2. r.m \in Memories /\ r.b \in Buckets
    BY <2>1 DEF SaveReq
  <2>3. /\ memIndex' = memIndex /\ idx' = [idx EXCEPT ![r.m] = r.b]
        /\ \A b \in Buckets, m \in Memories : Removing(b, m)' = Removing(b, m)
    BY <1>3 DEF CommitSave, TaintCleaner, TaintsCleaner, Cleaners, Idle
  <2>4. CASE r.vector = NoVector
    <3>1. w' = Idle /\ vec' = vec
      BY <1>3, <2>4 DEF CommitSave, Committed, StoreVector
    <3>2. QED
      BY <2>1, <2>3, <3>1 DEF Idle
  <2>5. CASE r.vector # NoVector
    <3>1. w'.pc = "indexing" /\ w'.req = r /\ vec' = [vec EXCEPT ![r.b][r.m] = r.vector]
      BY <1>3, <2>1, <2>5 DEF CommitSave, Committed, StoreVector
    <3>2. Bucket(w.req)' = r.b
      BY <2>1, <3>1 DEF Bucket
    <3>3. QED
      BY <2>1, <2>2, <2>3, <3>1, <3>2
  <2>6. QED
    BY <2>4, <2>5
<1>4. CASE CommitUpdate
  <2> DEFINE r == w.req
             k == idx[w.req.m]
  <2>1. r \in UpdateReq /\ w.pc = "txn" /\ r.kind = "update"
        /\ w \in [pc : {"txn", "indexing"}, req : Requests, conflict : BOOLEAN]
    BY <1>4, OpenRequest DEF CommitUpdate, CanCommit
  <2>2. r.m \in Memories /\ k \in Buckets
    BY <1>4, <2>1 DEF CommitUpdate, CanCommit, OpenTxns, UpdateReq
  <2>3. /\ memIndex' = memIndex /\ idx' = idx
        /\ \A b \in Buckets, m \in Memories : Removing(b, m)' = Removing(b, m)
    BY <1>4 DEF CommitUpdate, TaintCleaner, TaintsCleaner, Cleaners, Idle
  <2>4. CASE r.vector = NoVector
    <3>1. w' = Idle /\ vec' = vec
      BY <1>4, <2>4 DEF CommitUpdate, Committed, StoreVector
    <3>2. QED
      BY <2>1, <2>3, <3>1 DEF Idle
  <2>5. CASE r.vector # NoVector
    <3>1. w'.pc = "indexing" /\ w'.req = r /\ vec' = [vec EXCEPT ![k][r.m] = r.vector]
      BY <1>4, <2>1, <2>5 DEF CommitUpdate, Committed, StoreVector
    <3>2. Bucket(w.req)' = k
      BY <2>1, <2>3, <3>1 DEF Bucket
    <3> HIDE DEF k
    <3>3. QED
      BY <2>1, <2>2, <2>3, <3>1, <3>2
  <2>6. QED
    BY <2>4, <2>5
<1>5. CASE CommitDelete
  <2> DEFINE m == w.req.m
             k == idx[w.req.m]
  <2>1. m \in Memories /\ k \in Buckets /\ w.pc = "txn" /\ w' = Idle /\ memIndex' = memIndex
    BY <1>5, OpenRequest DEF CommitDelete, CanCommit, OpenTxns
  <2>2. memIndex[k][m] = NoVector
    BY <1>5 DEF CommitDelete, CanCommit
  <2>3. /\ vec' = [vec EXCEPT ![k][m] = NoVector]
        /\ \A b \in Buckets, n \in Memories : Removing(b, n)' = Removing(b, n)
    BY <1>5 DEF CommitDelete, DropKeys, TaintCleaner, TaintsCleaner, Cleaners, Idle
  <2> HIDE DEF m, k
  <2>4. QED
    BY <2>1, <2>2, <2>3 DEF Idle
<1>6. CASE IndexVector
  <2> DEFINE r == w.req
             k == Bucket(w.req)
  <2>1. r.m \in Memories /\ w' = Idle /\ vec' = vec /\ c' = c /\ w.pc = "indexing"
    BY <1>6, OpenRequest DEF IndexVector, db
  <2>2. memIndex' = IF k = NoBucket THEN memIndex ELSE [memIndex EXCEPT ![k][r.m] = r.vector]
    BY <1>6 DEF IndexVector
  <2>3. \A b \in Buckets : k = b => vec[b][r.m] = r.vector \/ Removing(b, r.m)
    BY <2>1
  <2>4. \A b \in Buckets, m \in Memories : Indexing(b, m) <=> m = r.m /\ b = k
    BY <2>1
  <2> HIDE DEF k, Indexing
  <2>5. ASSUME NEW b \in Buckets, NEW m \in Memories PROVE Owed(b, m)'
    <3>1. CASE m = r.m /\ b = k
      BY <2>1, <2>2, <2>3, <3>1
    <3>2. CASE ~(m = r.m /\ b = k)
      BY <2>1, <2>2, <2>4, <3>2
    <3>3. QED
      BY <3>1, <3>2
  <2>6. QED
    BY <2>1, <2>5 DEF Idle
<1>7. CASE Scan
  BY <1>7 DEF Scan, db, Bucket, Idle
<1>8. ASSUME NEW m \in Memories, DirectBegin(m) PROVE IndexInv'
  BY <1>8 DEF DirectBegin, Rest, db, Bucket, Idle
<1>9. CASE DirectConflict
  BY <1>9 DEF DirectConflict, Rest, db, Bucket, Idle
<1>10. CASE DirectCommit
  <2>1. /\ c.m \in Memories /\ c.b \in Buckets /\ idx[c.m] = c.b /\ memIndex' = memIndex
        /\ c'.pc = "removing" /\ c'.m = c.m /\ c'.b = c.b /\ c.pc = "txn"
    BY <1>10 DEF DirectCommit, OpenTxns, Cleaners, Idle
  <2>2. /\ vec' = [vec EXCEPT ![c.b][c.m] = NoVector]
        /\ idx' = [idx EXCEPT ![c.m] = NoBucket]
    BY <1>10 DEF DirectCommit, DropKeys
  <2>3. /\ w'.pc = w.pc /\ (w.pc # "idle" => w'.req = w.req)
        /\ w'.pc = "indexing" => w' = w
        /\ w'.pc = "txn" /\ ~w'.conflict /\ w.req.kind = "delete" =>
             ~w.conflict /\ w.req.m # c.m
    BY <1>10, OpenRequest DEF DirectCommit, TaintsWriter, Idle
  <2>4. w.pc # "idle" => w.req.m \in Memories
    BY OpenRequest
  <2>5. ASSUME NEW b \in Buckets, NEW m \in Memories PROVE Owed(b, m)'
    <3>1. CASE b = c.b /\ m = c.m
      BY <2>1, <3>1
    <3>2. CASE ~(b = c.b /\ m = c.m)
      <4>1. vec'[b][m] = vec[b][m] /\ ~Removing(b, m)
        BY <2>1, <2>2, <3>2
      <4>2. Indexing(b, m) => Indexing(b, m)'
        BY <2>1, <2>2, <2>3, <3>2 DEF Bucket
      <4>3. QED
        BY <2>1, <4>1, <4>2
    <3>3. QED
      BY <3>1, <3>2
  <2>6. w'.pc = "txn" /\ ~w'.conflict /\ w'.req.kind = "delete" =>
          memIndex'[idx'[w'.req.m]][w'.req.m] = NoVector
    BY <2>1, <2>2, <2>3, <2>4
  <2>7. w'.pc = "indexing" /\ w'.req.kind = "save" => idx'[w'.req.m] \in {w'.req.b, NoBucket}
    BY <2>1, <2>2, <2>3, <2>4
  <2>8. ASSUME NEW b \in Buckets, w'.pc = "indexing", Bucket(w.req)' = b
        PROVE  vec'[b][w.req.m] = w.req.vector \/ Removing(b, w.req.m)'
    <3>1. w.pc = "indexing" /\ w' = w
      BY <2>3, <2>8
    <3>2. CASE w.req.m = c.m /\ b = c.b
      BY <2>1, <3>1, <3>2
    <3>3. CASE ~(w.req.m = c.m /\ b = c.b)
      <4>1. Bucket(w.req) = b
        BY <2>1, <2>2, <2>4, <2>8, <3>1, <3>3 DEF Bucket
      <4>2. vec'[b][w.req.m] = vec[b][w.req.m] /\ ~Removing(b, w.req.m)
        BY <2>1, <2>2, <2>4, <3>1, <3>3
      <4>3. QED
        BY <3>1, <4>1, <4>2
    <3>4. QED
      BY <3>2, <3>3
  <2>9. QED
    BY <2>3, <2>5, <2>6, <2>7, <2>8
<1>11. CASE DirectRemove
  <2>1. /\ c.m \in Memories /\ c.b \in Buckets /\ w.pc = "idle" /\ w' = w /\ vec' = vec
        /\ memIndex' = [memIndex EXCEPT ![c.b][c.m] = NoVector] /\ c.pc = "removing"
    BY <1>11 DEF DirectRemove, db, Cleaners, Idle
  <2>2. QED
    BY <2>1
<1>12. ASSUME NEW b \in Buckets, NEW m \in Memories, Expire(b, m) PROVE IndexInv'
  BY <1>12 DEF Expire, Bucket
<1>13. CASE Reopen
  BY <1>13 DEF Reopen, Everywhere, db, Idle
<1>14. CASE UNCHANGED vars
  BY <1>14 DEF vars, Bucket
<1>15. QED
  BY <1>1, <1>2, <1>3, <1>4, <1>5, <1>6, <1>7, <1>8, <1>9, <1>10, <1>11, <1>12,
     <1>13, <1>14 DEF Next, CallStep, CleanupStep

(* With s.mu free the index of a bucket holds stored vectors only, but for *)
(* the one whose removal the cleanup is about to finish: whatever calls,   *)
(* cleanups, conflicts and restarts overlap.                               *)
THEOREM IndexesAreSound == Spec => []IndexSound
<1>1. Init => IndexInv
  BY MemoryAssumption DEF Init, IndexInv, Owed, Everywhere, Idle
<1>2. MemoryInv /\ IndexInv /\ [Next]_vars => IndexInv'
  BY IndexInductive
<1>3. IndexInv => IndexSound
  BY DEF IndexInv, Owed, Removing, Indexing, IndexSound
<1>4. QED
  BY <1>1, <1>2, <1>3, MemoryInvariant, PTL DEF Spec

-----------------------------------------------------------------------------
(* Each step of the store is one step of the map, or none.                 *)
LEMMA StepSimulation ==
  ASSUME MemoryInv, [Next]_vars
  PROVE  [Map!Next]_GetMemory
<1> USE MemoryAssumption DEF MemoryInv, TypeOK, Stored, Map!Next
<1>1. CASE UNCHANGED <<rec, idx>>
  BY <1>1 DEF GetMemory
<1>2. CASE CommitSave
  <2>1. w.req \in SaveReq
    BY <1>2, OpenRequest DEF CommitSave, CanCommit
  <2>2. w.req.m \in Memories /\ w.req.b \in Buckets
        /\ w.req.content \in Contents /\ w.req.ttl \in BOOLEAN
    BY <2>1 DEF SaveReq
  <2>3. GetMemory' = [GetMemory EXCEPT ![w.req.m] = Map!Fresh(w.req.content, w.req.ttl)]
    BY <1>2, <2>2 DEF CommitSave, GetMemory
  <2>4. Map!Save(w.req.m)
    BY <2>2, <2>3 DEF Map!Save
  <2>5. QED
    BY <2>2, <2>4
<1>3. CASE CommitUpdate
  <2> DEFINE b == idx[w.req.m]
  <2>1. w.req \in UpdateReq
    BY <1>3, OpenRequest DEF CommitUpdate, CanCommit
  <2>2. w.req.m \in Memories /\ w.req.content \in Contents \cup {Keep}
        /\ w.req.ttl \in Map!TTLChanges
    BY <2>1 DEF UpdateReq
  <2>3. b \in Buckets /\ GetMemory[w.req.m] = rec[b][w.req.m]
    BY <1>3, <2>2 DEF CommitUpdate, CanCommit, OpenTxns, GetMemory
  <2>4. GetMemory[w.req.m] # NoRecord
    BY <1>3, <2>2, <2>3 DEF CommitUpdate, CanCommit, OpenTxns, IdxLeadsToRecord
  <2>5. GetMemory' = [GetMemory EXCEPT
                        ![w.req.m] = Map!Changed(@, w.req.content, w.req.ttl)]
    BY <1>3, <2>2, <2>3 DEF CommitUpdate, GetMemory
  <2>6. Map!Update(w.req.m)
    BY <2>2, <2>4, <2>5 DEF Map!Update
  <2>7. QED
    BY <2>2, <2>6
<1>4. CASE CommitDelete
  <2>1. w.req.m \in Memories
    BY <1>4, OpenRequest DEF CommitDelete, CanCommit
  <2>2. GetMemory' = [GetMemory EXCEPT ![w.req.m] = NoRecord]
    BY <1>4, <2>1 DEF CommitDelete, CanCommit, DropKeys, GetMemory, OpenTxns
  <2>3. QED
    BY <2>1, <2>2 DEF Map!Remove
<1>5. CASE DirectCommit
  <2>1. c.m \in Memories /\ idx[c.m] = c.b
    BY <1>5 DEF DirectCommit, OpenTxns, Cleaners, Idle
  <2>2. GetMemory' = [GetMemory EXCEPT ![c.m] = NoRecord]
    BY <1>5, <2>1 DEF DirectCommit, DropKeys, GetMemory
  <2>3. QED
    BY <2>1, <2>2 DEF Map!Remove
<1>6. ASSUME NEW b \in Buckets, NEW m \in Memories, Expire(b, m)
      PROVE  [Map!Next]_GetMemory
  <2>1. CASE idx[m] = b
    <3>1. GetMemory[m] = rec[b][m]
      BY <2>1 DEF GetMemory
    <3>2. GetMemory' = [GetMemory EXCEPT ![m].expiry = "past"]
      BY <1>6, <2>1 DEF Expire, GetMemory
    <3>3. Map!Expire(m)
      BY <1>6, <3>1, <3>2 DEF Expire, Map!Expire
    <3>4. QED
      BY <3>3
  <2>2. CASE idx[m] # b
    BY <1>6, <2>2 DEF Expire, GetMemory
  <2>3. QED
    BY <2>1, <2>2
<1>7. QED
  BY <1>1, <1>2, <1>3, <1>4, <1>5, <1>6
     DEF Next, CallStep, CleanupStep, Begin, Conflict, IndexVector, Scan, DirectBegin,
         DirectConflict, DirectRemove, Reopen, db, vars

(* To a caller that names memories by ID the store is a map: overlapping   *)
(* calls and cleanups never lose part of a record or bring one back.       *)
THEOREM StoreImplementsMap == Spec => ImplementsMap
<1>1. Init => Map!Init
  BY DEF Init, Map!Init, GetMemory, Stored
<1>2. QED
  BY <1>1, StepSimulation, MemoryInvariant, PTL DEF Spec, ImplementsMap, Map!Spec
=============================================================================
