--------------------------- MODULE KnowledgeStore ---------------------------
(***************************************************************************)
(* The knowledge items of one collection (src/pkg/store/knowledge.go):     *)
(* the record of each item, the chunks its content is cut into, and the    *)
(* full-text entries that lead from a word to the chunks that have it.     *)
(*                                                                         *)
(* SaveKnowledge and UpdateKnowledge read the stored record in a           *)
(* transaction of their own and before they take s.mu; each writes in one  *)
(* Badger transaction under s.mu, so the writing is one step and s.mu      *)
(* needs no variable.                                                      *)
(*                                                                         *)
(* A content is the set of its words.  ChunkBySize cuts it anywhere, so    *)
(* its chunks are any sets of words that cover it, and gives each chunk a  *)
(* fresh UUID: the chunks of one call share a batch no entry has yet.      *)
(***************************************************************************)
EXTENDS Naturals

CONSTANTS
  Callers,     \* goroutines calling the store
  Items,       \* knowledge IDs
  Words,       \* the words Tokenize finds
  Contents,    \* the contents callers give, sets of words
  Batches,     \* UUIDs, one for the chunks of one call
  MaxVersion,  \* bound on the versions of a record
  Coll,        \* the ID of the collection
  NoRecord, Keep

ASSUME KnowledgeAssumption ==
  /\ Contents \subseteq SUBSET Words
  /\ MaxVersion \in Nat
  /\ Coll \notin Items

Records == [content : Contents, version : 1..MaxVersion]
Chunks == [item : Items, batch : Batches, words : SUBSET Words]
Entries == [word : Words, chunk : Chunks]

ASSUME NoRecordAssumption == NoRecord \notin Records

VARIABLES
  rec,     \* know:<coll>:<item>
  chunks,  \* know:chunk:<coll>:<item>:<id>
  fts,     \* fts:<word>:<coll>:<item>:<id>
  w        \* what each caller is at, and the record it has read

vars == <<rec, chunks, fts, w>>

(* Mutant: the version of an existing record is kept.                      *)
NextVersionSame(r) == IF r = NoRecord THEN 1 ELSE r.version

NextVersion(r) == IF r = NoRecord THEN 1 ELSE r.version + 1

Idle == [pc |-> "idle"]
Writing == [pc : {"save", "update"}, item : Items, content : Contents,
            read : {r \in Records \cup {NoRecord} : NextVersion(r) <= MaxVersion}]

TypeOK ==
  /\ rec \in [Items -> Records \cup {NoRecord}]
  /\ chunks \subseteq Chunks
  /\ fts \subseteq Entries
  /\ w \in [Callers -> {Idle} \cup Writing]

Init ==
  /\ rec = [k \in Items |-> NoRecord]
  /\ chunks = {} /\ fts = {}
  /\ w = [p \in Callers |-> Idle]

Stored(k) == rec[k] # NoRecord

(* The chunks GetKnowledge lists with an item, of whatever content.        *)
ChunkIDs(k) == {x \in chunks : x.item = k}

(* The ways ChunkBySize may cut a content, by chunk size and overlap.      *)
Cuts(t) == {pieces \in SUBSET (SUBSET t \ {{}}) : UNION pieces = t}

NewChunks(k, pieces, u) == [item : {k}, batch : {u}, words : pieces]

EntriesOf(new) == {e \in [word : Words, chunk : new] : e.word \in e.chunk.words}

Fresh(u) == \A x \in chunks \cup {e.chunk : e \in fts} : x.batch # u

-----------------------------------------------------------------------------
(* Mutant: the entries of the item are dropped after its new chunks are    *)
(* indexed.                                                                *)
CommitDropEntries(p, dropped) ==
  /\ \E pieces \in Cuts(w[p].content), u \in Batches :
       LET new == NewChunks(w[p].item, pieces, u) IN
         /\ Fresh(u)
         /\ rec' = [rec EXCEPT ![w[p].item] =
                      [content |-> w[p].content,
                       version |-> NextVersion(w[p].read)]]
         /\ chunks' = (chunks \ dropped) \cup new
         /\ fts' = {e \in fts \cup EntriesOf(new) :
                      dropped = {} \/ e.chunk.item # w[p].item}
  /\ w' = [w EXCEPT ![p] = Idle]

(* The transaction of a call: the record, with the version after the one   *)
(* the call has read, the new chunks in place of the dropped ones, and the *)
(* entries of the new chunks beside all others.                            *)
Commit(p, dropped) ==
  /\ \E pieces \in Cuts(w[p].content), u \in Batches :
       LET new == NewChunks(w[p].item, pieces, u) IN
         /\ Fresh(u)
         /\ rec' = [rec EXCEPT ![w[p].item] =
                      [content |-> w[p].content,
                       version |-> NextVersion(w[p].read)]]
         /\ chunks' = (chunks \ dropped) \cup new
         /\ fts' = fts \cup EntriesOf(new)
  /\ w' = [w EXCEPT ![p] = Idle]

(* SaveKnowledge reads the record, then replaces it.  Chunks and entries   *)
(* of an earlier content are left where they are.                          *)
SaveRead(p, k, t) ==
  /\ w[p] = Idle
  /\ NextVersion(rec[k]) <= MaxVersion
  /\ w' = [w EXCEPT ![p] = [pc |-> "save", item |-> k, content |-> t,
                            read |-> rec[k]]]
  /\ UNCHANGED <<rec, chunks, fts>>

SaveCommit(p) ==
  /\ w[p].pc = "save"
  /\ Commit(p, {})

(* UpdateKnowledge of an item that exists when it is read; without a new   *)
(* content the one that was read is written, and cut, again.               *)
UpdateRead(p, k, t) ==
  /\ w[p] = Idle
  /\ Stored(k)
  /\ NextVersion(rec[k]) <= MaxVersion
  /\ w' = [w EXCEPT ![p] = [pc |-> "update", item |-> k, read |-> rec[k],
                            content |-> IF t = Keep THEN rec[k].content ELSE t]]
  /\ UNCHANGED <<rec, chunks, fts>>

(* The old chunks of the item are deleted; their entries stay.             *)
UpdateCommit(p) ==
  /\ w[p].pc = "update"
  /\ Commit(p, ChunkIDs(w[p].item))

(* The transaction of an update iterates over the whole database, so any   *)
(* write that overlaps it makes Badger refuse the commit.                  *)
UpdateConflict(p) ==
  /\ w[p].pc = "update"
  /\ w' = [w EXCEPT ![p] = Idle]
  /\ UNCHANGED <<rec, chunks, fts>>

(* Mutant: the chunks are deleted, their entries are not.                  *)
DeleteKeepEntries(k) ==
  /\ rec' = [rec EXCEPT ![k] = NoRecord]
  /\ chunks' = chunks \ ChunkIDs(k)
  /\ UNCHANGED <<fts, w>>

(* DeleteKnowledge, of an item that exists or not, in one transaction.     *)
Delete(k) ==
  /\ rec' = [rec EXCEPT ![k] = NoRecord]
  /\ chunks' = chunks \ ChunkIDs(k)
  /\ fts' = {e \in fts : e.chunk.item # k}
  /\ UNCHANGED w

(* The process stops and the database is opened again.                     *)
Reopen ==
  /\ w' = [p \in Callers |-> Idle]
  /\ UNCHANGED <<rec, chunks, fts>>

Next ==
  \/ \E p \in Callers, k \in Items :
       \/ \E t \in Contents : SaveRead(p, k, t)
       \/ \E t \in Contents \cup {Keep} : UpdateRead(p, k, t)
  \/ \E p \in Callers : SaveCommit(p) \/ UpdateCommit(p) \/ UpdateConflict(p)
  \/ \E k \in Items : Delete(k)
  \/ Reopen

Spec == Init /\ [][Next]_vars

-----------------------------------------------------------------------------
(* SearchKnowledge reads the item of an entry from what follows the word   *)
(* in its key, where the ID of the collection comes first.                 *)
ItemOfEntry(e) == Coll

SearchKnowledge(query) ==
  {k \in {ItemOfEntry(e) : e \in {x \in fts : x.word \in query}} :
     k \in Items /\ Stored(k)}

-----------------------------------------------------------------------------
(* Every word of the current content of an item leads, through an entry,   *)
(* to a chunk that is stored, whatever saves and updates came before it.   *)
WordsIndexed ==
  \A k \in Items : Stored(k) =>
    \A x \in rec[k].content :
      \E e \in fts : e.word = x /\ e.chunk \in ChunkIDs(k)

(* What a deletion leaves behind is nothing: chunks and entries, also      *)
(* those of earlier contents, belong to items that have a record.          *)
NothingLeft ==
  \A x \in chunks \cup {e.chunk : e \in fts} : Stored(x.item)

(* The call has read a record of the item that is not the stored one now.  *)
Stale(p) == w[p].pc # "idle" /\ w[p].read # rec[w[p].item]

(* Versions count the writes of an item: a record that is written follows  *)
(* the stored one, unless the call that writes it overlapped another.      *)
VersionsCount ==
  [][\A k \in Items :
       \/ rec'[k] \in {rec[k], NoRecord}
       \/ ~Stored(k) /\ rec'[k].version = 1
       \/ Stored(k) /\ rec'[k].version = rec[k].version + 1
       \/ \E p \in Callers : Stale(p) /\ w[p].item = k /\ w'[p] = Idle]_vars

(* An item is found by the words of the content it is stored with          *)
(* (docs/api-reference-en.md:212, "Searches knowledge items, aggregating   *)
(* chunk results by document").                                            *)
SearchFinds ==
  \A k \in Items, x \in Words :
    Stored(k) /\ x \in rec[k].content => k \in SearchKnowledge({x})
=============================================================================
