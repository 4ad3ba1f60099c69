----------------------------- MODULE AgentStore -----------------------------
(***************************************************************************)
(* The memory store and the knowledge store as the agent layer uses them   *)
(* (src/pkg/gracedb/memory.go, knowledge.go): one step saves, deletes or   *)
(* searches.  MemoryStore and KnowledgeStore model what is underneath.     *)
(*                                                                         *)
(* A memory is found by its ID alone, which leads to the bucket it was     *)
(* saved in last.  A bucket it was saved in before still lists it, and a   *)
(* search there gives what the ID leads to now.                            *)
(***************************************************************************)
EXTENDS Naturals, Sequences, FiniteSets, FiniteSetsExt, SequencesExt, Functions, TLC

CONSTANTS
  Sessions,   \* session IDs, strings other than the empty one
  FactIds,    \* the IDs a fact extractor gives to facts
  Notes,      \* what the turns of a transcript have to say that is worth promoting
  MaxTurns,   \* bound on the turns of a transcript
  Budgets,    \* the calls of each kind that one behaviour may make
  None

NoSession == ""     \* a request without a session: the global scope
Calls == {"open", "close", "say", "drop", "set", "flow", "consolidate", "forget", "fail", "crash"}

ASSUME AgentStoreAssumption ==
  /\ NoSession \notin Sessions
  /\ None \notin Notes
  /\ MaxTurns \in Nat
  /\ Budgets \subseteq [Calls -> Nat]

VARIABLES
  mem,     \* the memory each stored ID leads to: its bucket and content
  listed,  \* the buckets that list an ID
  know,    \* the content of each item of the collection "default"
  left     \* the calls still to be made

storeVars == <<mem, listed, know>>

Namespaces == {"auto-retained", "assistant"}
Bucket(s, ns) == <<s, ns>>
Buckets == (Sessions \cup {NoSession}) \X Namespaces

Fact(f) == <<"fact", f>>
Episode(s, n) == <<"episode", s, n>>
Summary(s) == <<"summary", s>>
MemoryIds == {Fact(f) : f \in FactIds}
             \cup {Episode(s, n) : s \in Sessions, n \in 0..MaxTurns - 1}
             \cup {Summary(s) : s \in Sessions \cup {NoSession}}

(* An item promoted with an ID of its own, or with the empty one, and the  *)
(* promoted summary of a session.                                          *)
Promoted(s, note) == <<"note", s, note>>
Unnamed == <<"note", NoSession, None>>
SummaryItem(s) == <<"item", s>>
KnowledgeIds == {Promoted(s, note) : s \in Sessions, note \in Notes}
                \cup {Unnamed} \cup {SummaryItem(s) : s \in Sessions \cup {NoSession}}

StoreInit ==
  /\ mem = [m \in {} |-> None]
  /\ listed = {}
  /\ know = [k \in KnowledgeIds |-> None]
  /\ left \in Budgets

Stored(m) == m \in DOMAIN mem

Spend(call) == left[call] > 0 /\ left' = [left EXCEPT ![call] = @ - 1]

(* SaveMemory with the ID given replaces what the ID leads to.             *)
SaveMemory(m, bucket, content) ==
  /\ mem' = [x \in DOMAIN mem \cup {m} |->
               IF x = m THEN [bucket |-> bucket, content |-> content] ELSE mem[x]]
  /\ listed' = listed \cup {<<bucket, m>>}

(* DeleteMemory takes the record from the bucket its ID leads to.          *)
DeleteMemory(m) ==
  /\ Stored(m)
  /\ mem' = Restrict(mem, DOMAIN mem \ {m})
  /\ listed' = listed \ {<<mem[m].bucket, m>>}

(* The memories a search of a bucket may hit: a search gives some of them. *)
Hits(bucket) == {m \in MemoryIds : <<bucket, m>> \in listed /\ Stored(m)}

SaveKnowledge(k, content) == know' = [know EXCEPT ![k] = content]

KnowledgeHits == {k \in KnowledgeIds : know[k] # None}

(* A call that saves nothing because the store, or the embedder before it, *)
(* fails; the caller goes on as it does after an error.                    *)
SaveFails == Spend("fail") /\ UNCHANGED storeVars
=============================================================================
