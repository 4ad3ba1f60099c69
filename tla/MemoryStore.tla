----------------------------- MODULE MemoryStore -----------------------------
(***************************************************************************)
(* The agent memory of BadgerStore (src/pkg/store/memory.go, store.go):    *)
(* SaveMemory, UpdateMemory and DeleteMemory under s.mu, the cleanup that  *)
(* scans for expired memories and deletes them in transactions of its own, *)
(* and the process being closed or killed and opened again.                *)
(*                                                                         *)
(* Persistent state is kept per bucket and ID as the keys are.  A content  *)
(* stands for the terms it tokenizes to, at least one.  The nearest-       *)
(* neighbour index of a bucket is a map from IDs to vectors; no index and  *)
(* an empty index answer a search alike and are one value.                 *)
(*                                                                         *)
(* Badger transactions read one snapshot and fail at commit (ErrConflict)  *)
(* when a key they read or iterated over was written since.  So what a     *)
(* transaction that commits has read is still current, and a step that     *)
(* commits reads the state it is taken in.                                 *)
(***************************************************************************)
EXTENDS Naturals, FiniteSets

CONSTANTS
  Memories, Buckets, Contents, Vectors,
  Home,          \* the buckets the callers save each memory in
  NoBucket, NoRecord, NoContent, NoVector,
  Keep,          \* a field an update does not name
  MayExpire,     \* callers ask for a TTL
  MayReopen      \* the process may be restarted

VARIABLES
  rec,      \* mem:<bucket>:<id> and mem:content:<bucket>:<id>
  fts,      \* mem:fts:<term>:<bucket>:<id>, the terms of one content
  vec,      \* mem:vec:<bucket>:<id>
  idx,      \* mem:idx:<id>
  memIndex, \* s.memoryIndexes
  w,        \* the call that holds s.mu
  c         \* the cleanup goroutine

db == <<rec, fts, vec, idx>>
vars == <<rec, fts, vec, idx, memIndex, w, c>>

Stored(m) == idx[m] # NoBucket

(* GetMemory: the map from IDs to records the callers see.                 *)
GetMemory == [m \in Memories |-> IF Stored(m) THEN rec[idx[m]][m] ELSE NoRecord]

Map == INSTANCE MemoryMap WITH store <- GetMemory

ASSUME MemoryAssumption ==
  /\ Home \in [Memories -> SUBSET Buckets]
  /\ NoBucket \notin Buckets
  /\ NoContent \notin Contents /\ Keep \notin Contents
  /\ NoVector \notin Vectors
  /\ NoRecord \notin Map!Records
  /\ MayExpire \in BOOLEAN /\ MayReopen \in BOOLEAN

SaveReq == [kind : {"save"}, m : Memories, b : Buckets, content : Contents,
            ttl : BOOLEAN, vector : Vectors \cup {NoVector}]
UpdateReq == [kind : {"update"}, m : Memories, content : Contents \cup {Keep},
              ttl : Map!TTLChanges, vector : Vectors \cup {NoVector}]
DeleteReq == [kind : {"delete"}, m : Memories]
Requests ==
  {r \in SaveReq : r.b \in Home[r.m] /\ (r.ttl => MayExpire)}
  \cup {r \in UpdateReq : r.ttl = "on" => MayExpire}
  \cup DeleteReq

(* The holder of s.mu is in its transaction, or has committed and is about *)
(* to update the vector index; conflict: a key it read was written since.  *)
Idle == [pc |-> "idle"]
Writers == {Idle} \cup [pc : {"txn", "indexing"}, req : Requests, conflict : BOOLEAN]

(* The cleanup has the IDs still to delete; one of them may be in its      *)
(* transaction, or committed with its index entry not removed yet.         *)
Cleaners == {Idle}
  \cup [pc : {"deleting"}, queue : SUBSET Memories]
  \cup [pc : {"txn", "removing"}, queue : SUBSET Memories, m : Memories,
        b : Buckets, conflict : BOOLEAN]

TypeOK ==
  /\ rec \in [Buckets -> [Memories -> Map!Records \cup {NoRecord}]]
  /\ fts \in [Buckets -> [Memories -> Contents \cup {NoContent}]]
  /\ vec \in [Buckets -> [Memories -> Vectors \cup {NoVector}]]
  /\ idx \in [Memories -> Buckets \cup {NoBucket}]
  /\ memIndex \in [Buckets -> [Memories -> Vectors \cup {NoVector}]]
  /\ w \in Writers
  /\ c \in Cleaners

Everywhere(v) == [b \in Buckets |-> [m \in Memories |-> v]]

Init ==
  /\ rec = Everywhere(NoRecord)
  /\ fts = Everywhere(NoContent)
  /\ vec = Everywhere(NoVector)
  /\ idx = [m \in Memories |-> NoBucket]
  /\ memIndex = Everywhere(NoVector)
  /\ w = Idle /\ c = Idle

-----------------------------------------------------------------------------
(* Conflicts between the transaction of a call and that of the cleanup.    *)

(* deleteMemoryFTSEntries iterates over every key below mem:fts:.          *)
ReadsFTS(req) == req.kind # "update" \/ req.content # Keep

(* The commit of req writes a key the cleanup's open transaction has read: *)
(* the bucket key of its memory, or a term key that was there (one written *)
(* and rewritten since the snapshot counts too: a conflict more, none less) *)
TaintsCleaner(req, b) ==
  /\ c.pc = "txn"
  /\ \/ req.m = c.m /\ req.kind # "update"
     \/ ReadsFTS(req) /\ fts[b][req.m] # NoContent

(* The cleanup's commit writes a key the open call has read.               *)
TaintsWriter ==
  /\ w.pc = "txn"
  /\ \/ ReadsFTS(w.req) /\ fts[c.b][c.m] # NoContent
     \/ w.req.kind # "save" /\ w.req.m = c.m

Bucket(req) == IF req.kind = "save" THEN req.b ELSE idx[req.m]

TaintCleaner(req) ==
  c' = IF TaintsCleaner(req, Bucket(req)) THEN [c EXCEPT !.conflict = TRUE] ELSE c

-----------------------------------------------------------------------------
(* A call takes s.mu and runs the function of its transaction.  Update and *)
(* delete of an unknown ID end there, with nothing changed.  A delete      *)
(* takes the vector out of the index inside that function.                 *)
Begin(req) ==
  /\ w.pc = "idle"
  /\ req.kind # "save" => Stored(req.m)
  /\ w' = [pc |-> "txn", req |-> req, conflict |-> FALSE]
  /\ memIndex' = IF req.kind = "delete"
                 THEN [memIndex EXCEPT ![idx[req.m]][req.m] = NoVector]
                 ELSE memIndex
  /\ UNCHANGED <<db, c>>

Conflict ==
  /\ w.pc = "txn" /\ w.conflict
  /\ w' = Idle
  /\ UNCHANGED <<db, memIndex, c>>

(* After the commit: on to the vector index if the request has a vector.   *)
Committed == w' = IF w.req.vector # NoVector THEN [w EXCEPT !.pc = "indexing"] ELSE Idle

StoreVector(b) ==
  vec' = IF w.req.vector = NoVector THEN vec
         ELSE [vec EXCEPT ![b][w.req.m] = w.req.vector]

CanCommit(kind) == w.pc = "txn" /\ w.req.kind = kind /\ ~w.conflict

(* Mutant: the save leaves the terms of the old content in the index.      *)
CommitSaveKeepTerms ==
  LET r == w.req IN
  /\ CanCommit("save")
  /\ rec' = [rec EXCEPT ![r.b][r.m] = Map!Fresh(r.content, r.ttl)]
  /\ fts' = IF fts[r.b][r.m] = NoContent THEN [fts EXCEPT ![r.b][r.m] = r.content] ELSE fts
  /\ StoreVector(r.b)
  /\ idx' = [idx EXCEPT ![r.m] = r.b]
  /\ TaintCleaner(r)
  /\ Committed
  /\ UNCHANGED memIndex

CommitSave ==
  LET r == w.req IN
  /\ CanCommit("save")
  /\ rec' = [rec EXCEPT ![r.b][r.m] = Map!Fresh(r.content, r.ttl)]
  /\ fts' = [fts EXCEPT ![r.b][r.m] = r.content]
  /\ StoreVector(r.b)
  /\ idx' = [idx EXCEPT ![r.m] = r.b]
  /\ TaintCleaner(r)
  /\ Committed
  /\ UNCHANGED memIndex

(* Mutant: only an update that names a TTL computes expires_at anew.       *)
CommitUpdateNoRenew ==
  LET r == w.req
      b == idx[r.m]
      new == Map!Changed(rec[b][r.m], r.content, r.ttl) IN
  /\ CanCommit("update")
  /\ rec' = [rec EXCEPT ![b][r.m] =
               IF r.ttl = "keep" THEN [new EXCEPT !.expiry = rec[b][r.m].expiry] ELSE new]
  /\ fts' = IF r.content = Keep THEN fts ELSE [fts EXCEPT ![b][r.m] = r.content]
  /\ StoreVector(b)
  /\ TaintCleaner(r)
  /\ Committed
  /\ UNCHANGED <<idx, memIndex>>

CommitUpdate ==
  LET r == w.req
      b == idx[r.m] IN
  /\ CanCommit("update")
  /\ rec' = [rec EXCEPT ![b][r.m] = Map!Changed(@, r.content, r.ttl)]
  /\ fts' = IF r.content = Keep THEN fts ELSE [fts EXCEPT ![b][r.m] = r.content]
  /\ StoreVector(b)
  /\ TaintCleaner(r)
  /\ Committed
  /\ UNCHANGED <<idx, memIndex>>

(* All keys of memory m in bucket b, and its entry in mem:idx.             *)
DropKeys(b, m) ==
  /\ rec' = [rec EXCEPT ![b][m] = NoRecord]
  /\ fts' = [fts EXCEPT ![b][m] = NoContent]
  /\ vec' = [vec EXCEPT ![b][m] = NoVector]
  /\ idx' = [idx EXCEPT ![m] = NoBucket]

CommitDelete ==
  /\ CanCommit("delete")
  /\ DropKeys(idx[w.req.m], w.req.m)
  /\ TaintCleaner(w.req)
  /\ w' = Idle
  /\ UNCHANGED memIndex

(* Mutant: the index keeps the vector it has.                              *)
IndexVectorOnce ==
  LET r == w.req
      b == Bucket(r) IN
  /\ w.pc = "indexing"
  /\ memIndex' = IF b = NoBucket \/ memIndex[b][r.m] # NoVector THEN memIndex
                 ELSE [memIndex EXCEPT ![b][r.m] = r.vector]
  /\ w' = Idle
  /\ UNCHANGED <<db, c>>

(* upsertMemoryIndex after the commit, still under s.mu.  An update looks  *)
(* the bucket up again and skips the index when the memory is gone.        *)
IndexVector ==
  LET r == w.req
      b == Bucket(r) IN
  /\ w.pc = "indexing"
  /\ memIndex' = IF b = NoBucket THEN memIndex
                 ELSE [memIndex EXCEPT ![b][r.m] = r.vector]
  /\ w' = Idle
  /\ UNCHANGED <<db, c>>

-----------------------------------------------------------------------------
(* deleteExpiredMemories.                                                  *)
Past(b, m) == rec[b][m] # NoRecord /\ rec[b][m].expiry = "past"
Expired == {m \in Memories : Stored(m) /\ Past(idx[m], m)}

Scan ==
  /\ c.pc = "idle"
  /\ Expired # {}
  /\ c' = [pc |-> "deleting", queue |-> Expired]
  /\ UNCHANGED <<db, memIndex, w>>

Rest(queue) == IF queue = {} THEN Idle ELSE [pc |-> "deleting", queue |-> queue]

(* DeleteMemoryDirect opens its transaction, without s.mu.  The memory may *)
(* be gone by now; whether it is still expired is not asked again.         *)
DirectBegin(m) ==
  /\ c.pc = "deleting" /\ m \in c.queue
  /\ c' = IF Stored(m)
          THEN [pc |-> "txn", queue |-> c.queue \ {m}, m |-> m, b |-> idx[m],
                conflict |-> FALSE]
          ELSE Rest(c.queue \ {m})
  /\ UNCHANGED <<db, memIndex, w>>

DirectConflict ==
  /\ c.pc = "txn" /\ c.conflict
  /\ c' = Rest(c.queue)
  /\ UNCHANGED <<db, memIndex, w>>

(* Mutant: the deletion gives up without deleting.                         *)
DirectCommitNothing ==
  /\ c.pc = "txn" /\ ~c.conflict
  /\ c' = [c EXCEPT !.pc = "removing"]
  /\ UNCHANGED <<db, memIndex, w>>

DirectCommit ==
  /\ c.pc = "txn" /\ ~c.conflict
  /\ DropKeys(c.b, c.m)
  /\ c' = [c EXCEPT !.pc = "removing"]
  /\ w' = IF TaintsWriter THEN [w EXCEPT !.conflict = TRUE] ELSE w
  /\ UNCHANGED memIndex

(* The index entry goes in a second step, once s.mu is free.               *)
DirectRemove ==
  /\ c.pc = "removing" /\ w.pc = "idle"
  /\ memIndex' = [memIndex EXCEPT ![c.b][c.m] = NoVector]
  /\ c' = Rest(c.queue)
  /\ UNCHANGED <<db, w>>

-----------------------------------------------------------------------------
(* expires_at of a record comes to lie in the past.                        *)
Expire(b, m) ==
  /\ rec[b][m] # NoRecord /\ rec[b][m].expiry = "live"
  /\ rec' = [rec EXCEPT ![b][m].expiry = "past"]
  /\ UNCHANGED <<fts, vec, idx, memIndex, w, c>>

(* Closed or killed at any point and opened again: what is committed       *)
(* stays, the indexes start empty and calls in flight are gone.            *)
Reopen ==
  /\ MayReopen
  /\ memIndex' = Everywhere(NoVector)
  /\ w' = Idle /\ c' = Idle
  /\ UNCHANGED db

CallStep == Conflict \/ CommitSave \/ CommitUpdate \/ CommitDelete \/ IndexVector

CleanupStep ==
  \/ Scan \/ DirectConflict \/ DirectCommit \/ DirectRemove
  \/ \E m \in Memories : DirectBegin(m)

Next ==
  \/ \E req \in Requests : Begin(req)
  \/ CallStep
  \/ CleanupStep
  \/ \E b \in Buckets, m \in Memories : Expire(b, m)
  \/ Reopen

Spec == Init /\ [][Next]_vars

(* The holder of s.mu finishes its call and the ticker keeps firing.       *)
FairSpec == Spec /\ WF_vars(CallStep) /\ WF_vars(CleanupStep)

-----------------------------------------------------------------------------
(* searchMemoryVectors: the index of the bucket answers alone as soon as   *)
(* it holds one vector; else every stored vector is compared.              *)
VectorHits(b) ==
  LET indexed == {m \in Memories : memIndex[b][m] # NoVector}
  IN  IF indexed # {} THEN indexed ELSE {m \in Memories : vec[b][m] # NoVector}

(* The terms under which a memory is found are those of its current        *)
(* content, in every bucket, whatever calls and cleanups overlap           *)
(* (api-reference-en.md, UpdateMemory: "remove old index entries").        *)
LexicalAgrees ==
  \A b \in Buckets, m \in Memories :
    fts[b][m] = IF rec[b][m] = NoRecord THEN NoContent ELSE rec[b][m].content

(* mem:idx never leads nowhere: an ID that resolves to a bucket has its    *)
(* record there, so GetMemory and UpdateMemory find what SaveMemory saved. *)
IdxLeadsToRecord ==
  \A m \in Memories : Stored(m) => rec[idx[m]][m] # NoRecord

(* The keys of the store agree with each other, all over.                  *)
KeysAgree == TypeOK /\ LexicalAgrees /\ IdxLeadsToRecord

(* With s.mu free, the index of a bucket holds no vector other than the    *)
(* stored one, but for the memory whose deletion the cleanup is finishing. *)
IndexSound ==
  w.pc = "idle" =>
    \A b \in Buckets, m \in Memories :
      \/ memIndex[b][m] \in {NoVector, vec[b][m]}
      \/ c.pc = "removing" /\ c.m = m /\ c.b = b

(* With s.mu free, every vector stored in a bucket takes part in semantic  *)
(* search there (README.md:32, "Stored vectors are durable and searchable  *)
(* after reopen").                                                         *)
VectorsSearchable ==
  w.pc = "idle" =>
    \A b \in Buckets : {m \in Memories : vec[b][m] # NoVector} \subseteq VectorHits(b)

(* Once the callers leave the store alone and the process stays up, an     *)
(* expired memory is removed.                                              *)
ExpiredIsReaped ==
  <>[](w.pc = "idle") /\ <>[][~Reopen]_vars =>
    \A m \in Memories : m \in Expired ~> m \notin Expired

(* Named by ID, the memories are the map of MemoryMap, though each call    *)
(* and each deletion of the cleanup is several steps that interleave.      *)
ImplementsMap == Map!Spec
=============================================================================
