----------------------- MODULE KnowledgeStoreProofs -----------------------
(***************************************************************************)
(* Proofs about KnowledgeStore, for any callers, items, words, contents    *)
(* and number of UUIDs.                                                    *)
(***************************************************************************)
EXTENDS KnowledgeStore, TLAPS

KnowledgeInv == TypeOK /\ NothingLeft /\ WordsIndexed

(* The first save or update of an item has version 1, a later one the next.*)
LEMMA NextVersionType ==
  ASSUME NEW r \in Records \cup {NoRecord}, NextVersion(r) <= MaxVersion
  PROVE  NextVersion(r) \in 1..MaxVersion
BY KnowledgeAssumption DEF Records, NextVersion

(* What a cut makes are chunks of the item.                                *)
LEMMA NewChunksType ==
  ASSUME NEW k \in Items, NEW t \in Contents, NEW u \in Batches,
         NEW pieces \in Cuts(t)
  PROVE  /\ NewChunks(k, pieces, u) \subseteq Chunks
         /\ EntriesOf(NewChunks(k, pieces, u)) \subseteq Entries
         /\ \A x \in NewChunks(k, pieces, u) : x.item = k
<1>1. \A q \in pieces : q \subseteq Words
  BY KnowledgeAssumption DEF Cuts
<1>2. QED  BY <1>1 DEF NewChunks, EntriesOf, Chunks, Entries

(* The chunks and entries of a call lead from every word of the content.   *)
LEMMA NewChunksIndexed ==
  ASSUME NEW k \in Items, NEW t \in Contents, NEW u \in Batches,
         NEW pieces \in Cuts(t), NEW x \in t
  PROVE  \E e \in EntriesOf(NewChunks(k, pieces, u)) :
           e.word = x /\ e.chunk \in NewChunks(k, pieces, u)
<1>1. PICK q \in pieces : x \in q
  BY DEF Cuts
<1> DEFINE c == [item |-> k, batch |-> u, words |-> q]
<1>2. c \in NewChunks(k, pieces, u)
  BY DEF NewChunks
<1>3. [word |-> x, chunk |-> c] \in EntriesOf(NewChunks(k, pieces, u))
  BY <1>1, <1>2, KnowledgeAssumption DEF EntriesOf
<1>4. QED  BY <1>2, <1>3

(* A transaction that replaces some chunks of its item keeps the invariant.*)
LEMMA CommitKeeps ==
  ASSUME KnowledgeInv, NEW p \in Callers, NEW dropped, Commit(p, dropped),
         w[p] \in Writing, dropped \subseteq ChunkIDs(w[p].item)
  PROVE  KnowledgeInv'
<1> DEFINE k == w[p].item  t == w[p].content
<1>1. /\ k \in Items /\ t \in Contents /\ w[p].read \in Records \cup {NoRecord}
      /\ NextVersion(w[p].read) <= MaxVersion
  BY DEF Writing
<1>2. PICK pieces \in Cuts(t), u \in Batches :
        /\ rec' = [rec EXCEPT ![k] =
                     [content |-> t, version |-> NextVersion(w[p].read)]]
        /\ chunks' = (chunks \ dropped) \cup NewChunks(k, pieces, u)
        /\ fts' = fts \cup EntriesOf(NewChunks(k, pieces, u))
  BY DEF Commit
<1> DEFINE new == NewChunks(k, pieces, u)
           r == [content |-> t, version |-> NextVersion(w[p].read)]
<1>3. r \in Records
  BY <1>1, NextVersionType DEF Records
<1>4. TypeOK'
  <2>1. w' \in [Callers -> {Idle} \cup Writing]
    BY DEF KnowledgeInv, TypeOK, Commit
  <2>2. new \subseteq Chunks /\ EntriesOf(new) \subseteq Entries
    BY <1>1, NewChunksType
  <2>3. rec' \in [Items -> Records \cup {NoRecord}]
    BY <1>1, <1>2, <1>3 DEF KnowledgeInv, TypeOK
  <2>4. QED  BY <1>2, <2>1, <2>2, <2>3 DEF KnowledgeInv, TypeOK
<1>5. \A j \in Items : rec'[j] = IF j = k THEN r ELSE rec[j]
  BY <1>1, <1>2 DEF KnowledgeInv, TypeOK
<1>6. r # NoRecord
  BY <1>3, NoRecordAssumption
<1>7. NothingLeft'
  <2> SUFFICES ASSUME NEW x \in chunks' \cup {e.chunk : e \in fts'}
               PROVE  Stored(x.item)'
    BY DEF NothingLeft
  <2>1. \A e \in EntriesOf(new) : e.chunk \in new
    BY DEF EntriesOf
  <2>2. x \in new \/ x \in chunks \cup {e.chunk : e \in fts}
    BY <1>2, <2>1
  <2>3. x \in Chunks
    BY <1>4 DEF TypeOK, Entries
  <2>4. CASE x \in new
    BY <2>4, <1>1, <1>5, <1>6, NewChunksType DEF Stored
  <2>5. CASE x \in chunks \cup {e.chunk : e \in fts}
    <3>1. Stored(x.item) /\ x.item \in Items
      BY <2>3, <2>5 DEF KnowledgeInv, NothingLeft, Chunks
    <3>2. QED  BY <3>1, <1>5, <1>6 DEF Stored
  <2>6. QED  BY <2>2, <2>4, <2>5
<1>8. WordsIndexed'
  <2> SUFFICES ASSUME NEW j \in Items, Stored(j)', NEW x \in rec'[j].content
               PROVE  \E e \in fts' : e.word = x /\ e.chunk \in ChunkIDs(j)'
    BY DEF WordsIndexed
  <2>1. CASE j = k
    <3>1. x \in t
      BY <1>5, <2>1
    <3>2. PICK e \in EntriesOf(new) : e.word = x /\ e.chunk \in new
      BY <1>1, <3>1, NewChunksIndexed
    <3>3. e.chunk.item = k
      BY <1>1, <3>2, NewChunksType
    <3>4. QED  BY <1>2, <2>1, <3>2, <3>3 DEF ChunkIDs
  <2>2. CASE j # k
    <3>1. Stored(j) /\ x \in rec[j].content
      BY <1>5, <2>2 DEF Stored
    <3>2. PICK e \in fts : e.word = x /\ e.chunk \in ChunkIDs(j)
      BY <3>1 DEF KnowledgeInv, WordsIndexed
    <3>3. e.chunk \notin dropped
      BY <2>2, <3>2 DEF ChunkIDs
    <3>4. QED  BY <1>2, <3>2, <3>3 DEF ChunkIDs
  <2>3. QED  BY <2>1, <2>2
<1>9. QED  BY <1>4, <1>7, <1>8 DEF KnowledgeInv

(* A deletion takes everything of its item and nothing of another.         *)
LEMMA DeleteKeeps ==
  ASSUME KnowledgeInv, NEW k \in Items, Delete(k)
  PROVE  KnowledgeInv'
<1> USE DEF KnowledgeInv, Delete
<1>1. \A j \in Items : rec'[j] = IF j = k THEN NoRecord ELSE rec[j]
  BY DEF TypeOK
<1>2. TypeOK'
  BY DEF TypeOK
<1>3. NothingLeft'
  <2> SUFFICES ASSUME NEW x \in chunks' \cup {e.chunk : e \in fts'}
               PROVE  Stored(x.item)'
    BY DEF NothingLeft
  <2>1. x \in Chunks
    BY <1>2 DEF TypeOK, Entries
  <2>2. x \in chunks \cup {e.chunk : e \in fts} /\ x.item # k
    BY <2>1 DEF ChunkIDs
  <2>3. x.item \in Items /\ Stored(x.item)
    BY <2>1, <2>2 DEF NothingLeft, Chunks
  <2>4. QED  BY <1>1, <2>2, <2>3 DEF Stored
<1>4. WordsIndexed'
  <2> SUFFICES ASSUME NEW j \in Items, Stored(j)', NEW x \in rec'[j].content
               PROVE  \E e \in fts' : e.word = x /\ e.chunk \in ChunkIDs(j)'
    BY DEF WordsIndexed
  <2>1. j # k /\ Stored(j) /\ x \in rec[j].content
    BY <1>1 DEF Stored
  <2>2. PICK e \in fts : e.word = x /\ e.chunk \in ChunkIDs(j)
    BY <2>1 DEF WordsIndexed
  <2>3. e.chunk.item = j
    BY <2>2 DEF ChunkIDs
  <2>4. QED  BY <2>1, <2>2, <2>3 DEF ChunkIDs
<1>5. QED  BY <1>2, <1>3, <1>4

(* What only moves the callers keeps the invariant.                        *)
LEMMA CallsKeep ==
  ASSUME KnowledgeInv, UNCHANGED <<rec, chunks, fts>>,
         w' \in [Callers -> {Idle} \cup Writing]
  PROVE  KnowledgeInv'
BY DEF KnowledgeInv, TypeOK, NothingLeft, WordsIndexed, Stored, ChunkIDs

(* The inductive invariant: types, nothing left of deleted items, and      *)
(* every word of a stored content leading to a stored chunk.               *)
THEOREM KnowledgeInvariant == Spec => []KnowledgeInv
<1>1. Init => KnowledgeInv
  BY DEF Init, KnowledgeInv, TypeOK, NothingLeft, WordsIndexed, Stored
<1>2. KnowledgeInv /\ [Next]_vars => KnowledgeInv'
  <2> SUFFICES ASSUME KnowledgeInv, [Next]_vars PROVE KnowledgeInv'
    OBVIOUS
  <2> USE DEF KnowledgeInv
  <2>1. ASSUME NEW p \in Callers, NEW k \in Items, NEW t \in Contents,
               SaveRead(p, k, t)
        PROVE  KnowledgeInv'
    <3>1. w'[p] \in Writing
      BY <2>1 DEF SaveRead, TypeOK, Writing
    <3>2. w' \in [Callers -> {Idle} \cup Writing]
      BY <2>1, <3>1 DEF SaveRead, TypeOK
    <3>3. QED  BY <2>1, <3>2, CallsKeep DEF SaveRead
  <2>2. ASSUME NEW p \in Callers, NEW k \in Items,
               NEW t \in Contents \cup {Keep}, UpdateRead(p, k, t)
        PROVE  KnowledgeInv'
    <3>1. rec[k] \in Records
      BY <2>2 DEF UpdateRead, TypeOK, Stored
    <3>2. w'[p] \in Writing
      BY <2>2, <3>1 DEF UpdateRead, TypeOK, Writing, Records
    <3>3. w' \in [Callers -> {Idle} \cup Writing]
      BY <2>2, <3>2 DEF UpdateRead, TypeOK
    <3>4. QED  BY <2>2, <3>3, CallsKeep DEF UpdateRead
  <2>3. ASSUME NEW p \in Callers, SaveCommit(p)
        PROVE  KnowledgeInv'
    <3>1. w[p] \in Writing
      BY <2>3 DEF SaveCommit, TypeOK, Idle
    <3>2. QED  BY <2>3, <3>1, CommitKeeps DEF SaveCommit
  <2>4. ASSUME NEW p \in Callers, UpdateCommit(p)
        PROVE  KnowledgeInv'
    <3>1. w[p] \in Writing
      BY <2>4 DEF UpdateCommit, TypeOK, Idle
    <3>2. QED  BY <2>4, <3>1, CommitKeeps DEF UpdateCommit
  <2>5. ASSUME NEW p \in Callers, UpdateConflict(p)
        PROVE  KnowledgeInv'
    <3>1. w' \in [Callers -> {Idle} \cup Writing]
      BY <2>5 DEF UpdateConflict, TypeOK
    <3>2. QED  BY <2>5, <3>1, CallsKeep DEF UpdateConflict
  <2>6. CASE Reopen
    <3>1. w' \in [Callers -> {Idle} \cup Writing]
      BY <2>6 DEF Reopen
    <3>2. QED  BY <2>6, <3>1, CallsKeep DEF Reopen
  <2>7. CASE UNCHANGED vars
    BY <2>7, CallsKeep DEF vars, TypeOK
  <2>8. QED
    BY <2>1, <2>2, <2>3, <2>4, <2>5, <2>6, <2>7, DeleteKeeps DEF Next
<1>3. QED  BY <1>1, <1>2, PTL DEF Spec

(* A deleted item leaves no chunk and no full-text entry behind.           *)
THEOREM DeletedLeavesNothing == Spec => []NothingLeft
BY KnowledgeInvariant, PTL DEF KnowledgeInv

(* Every word of a stored content leads to a stored chunk of the item.     *)
THEOREM ContentIndexed == Spec => []WordsIndexed
BY KnowledgeInvariant, PTL DEF KnowledgeInv

(* Versions count the writes, but for calls that overlapped another.       *)
THEOREM WritesCounted == Spec => VersionsCount
<1> DEFINE Counted ==
      \A k \in Items :
        \/ rec'[k] \in {rec[k], NoRecord}
        \/ ~Stored(k) /\ rec'[k].version = 1
        \/ Stored(k) /\ rec'[k].version = rec[k].version + 1
        \/ \E p \in Callers : Stale(p) /\ w[p].item = k /\ w'[p] = Idle
<1>1. TypeOK /\ [Next]_vars => [Counted]_vars
  <2> SUFFICES ASSUME TypeOK, Next PROVE Counted
    BY DEF vars
  <2>1. ASSUME UNCHANGED rec PROVE Counted
    BY <2>1
  <2>2. ASSUME NEW k \in Items, Delete(k) PROVE Counted
    BY <2>2 DEF Delete, TypeOK
  <2>3. ASSUME NEW p \in Callers, NEW dropped, w[p] # Idle, Commit(p, dropped)
        PROVE  Counted
    <3> SUFFICES ASSUME NEW k \in Items,
                        rec'[k] \notin {rec[k], NoRecord}, ~Stale(p)
                 PROVE  \/ ~Stored(k) /\ rec'[k].version = 1
                        \/ Stored(k) /\ rec'[k].version = rec[k].version + 1
                        \/ \E q \in Callers : Stale(q) /\ w[q].item = k /\ w'[q] = Idle
      <4>1. CASE Stale(p)
        <5>1. \A k \in Items : k # w[p].item => rec'[k] = rec[k]
          BY <2>3 DEF Commit, TypeOK
        <5>2. w'[p] = Idle
          BY <2>3 DEF Commit, TypeOK
        <5>3. QED  BY <4>1, <5>1, <5>2
      <4>2. QED  BY <4>1
    <3>1. k = w[p].item
      BY <2>3 DEF Commit, TypeOK
    <3>2. w[p].read = rec[k]
      BY <2>3, <3>1 DEF Stale, TypeOK, Idle, Writing
    <3>3. rec'[k].version = NextVersion(w[p].read)
      BY <2>3, <3>1 DEF Commit, TypeOK
    <3>4. QED  BY <3>2, <3>3 DEF NextVersion, Stored
  <2>4. ASSUME NEW p \in Callers, SaveCommit(p) \/ UpdateCommit(p) PROVE Counted
    <3>1. w[p] # Idle
      BY <2>4 DEF SaveCommit, UpdateCommit, Idle
    <3>2. QED  BY <2>3, <2>4, <3>1 DEF SaveCommit, UpdateCommit
  <2>5. QED
    BY <2>1, <2>2, <2>4 DEF Next, SaveRead, UpdateRead, UpdateConflict, Reopen
<1>2. Spec => []TypeOK
  BY KnowledgeInvariant, PTL DEF KnowledgeInv
<1>3. QED  BY <1>1, <1>2, PTL DEF Spec, VersionsCount
=============================================================================
