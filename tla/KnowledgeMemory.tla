--------------------------- MODULE KnowledgeMemory ---------------------------
(***************************************************************************)
(* Recall, reflection and consolidation over memories and knowledge        *)
(* (src/pkg/knowledge/knowledge_memory.go).  Consolidate searches the      *)
(* memories of one bucket, then the knowledge of the collection, puts the  *)
(* facts it found into a summary, saves the summary as a memory and, if    *)
(* asked to, as knowledge: four calls of the stores without a lock.        *)
(***************************************************************************)
EXTENDS AgentStore

CONSTANTS
  Keepers,   \* goroutines calling Consolidate
  Requests,  \* the requests they make
  TopKMemories, TopKKnowledge, MaxFacts

(* session: of the request itself, reflect: of the reflection in it.       *)
ConsolidateRequests == [session : Sessions \cup {NoSession}, reflect : Sessions \cup {NoSession},
                        namespace : Namespaces, promote : BOOLEAN]

ASSUME KnowledgeMemoryAssumption ==
  /\ Requests \subseteq ConsolidateRequests
  /\ {TopKMemories, TopKKnowledge, MaxFacts} \subseteq Nat \ {0}

(* Requests that name one session, or the global scope beside it.          *)
OneSessionEach ==
  \A r \in Requests : r.session # NoSession => r.reflect \in {r.session, NoSession}

VARIABLES
  keep,        \* what each caller is at
  remembered   \* the summaries that were saved as memories, by session

keeperVars == <<keep, remembered>>

Resting == [pc |-> "idle"]
NoSummary == [facts |-> {}, sources |-> {}]

KeeperInit ==
  /\ keep = [p \in Keepers |-> Resting]
  /\ remembered = {}

Sample(S, k) == {x \in SUBSET S : Cardinality(x) <= k}
Best(S, k) == {x \in SUBSET S : Cardinality(x) = Min({k, Cardinality(S)})}

-----------------------------------------------------------------------------
Consolidate(p, r) ==
  /\ keep[p] = Resting
  /\ keep' = [keep EXCEPT ![p] = [pc |-> "recall", req |-> r, hits |-> {},
                                  summary |-> NoSummary]]
  /\ UNCHANGED <<storeVars, remembered>>

(* Mutant: the memories of every session are searched.                     *)
RecallAnySession(p) ==
  /\ keep[p].pc = "recall"
  /\ \E found \in Sample({m \in MemoryIds : Stored(m)}, TopKMemories) :
       keep' = [keep EXCEPT ![p].pc = "reflect", ![p].hits = found]
  /\ UNCHANGED <<storeVars, left, remembered>>

(* Recall, first search: some memories of the bucket, the best TopK of the *)
(* ones the query matches; none when the search fails.                     *)
RecallMemories(p) ==
  /\ keep[p].pc = "recall"
  /\ LET r == keep[p].req IN
       \E found \in Sample(Hits(Bucket(r.reflect, r.namespace)), TopKMemories) :
         keep' = [keep EXCEPT ![p].pc = "reflect", ![p].hits = found]
  /\ UNCHANGED <<storeVars, left, remembered>>

(* The context pack names all the hits, whether their text fits or not.    *)
PackIDs(memories, items) == memories \cup items

(* The summary joins the facts, those of memories first; its sources are   *)
(* those of the context pack.                                              *)
Summaries(memories, items) ==
  {[facts |-> f \cup g, sources |-> PackIDs(memories, items)] :
     f \in Best(memories, MaxFacts),
     g \in Best(items, MaxFacts - Min({MaxFacts, Cardinality(memories)}))}

(* Recall, second search, and the reflection on what both found.  Without  *)
(* any fact the summary is empty and the call fails.                       *)
Reflect(p) ==
  /\ keep[p].pc = "reflect"
  /\ \E found \in Sample(KnowledgeHits, TopKKnowledge) :
       \E summary \in Summaries(keep[p].hits, found) :
         keep' = [keep EXCEPT ![p] =
                    IF summary.facts = {} THEN Resting
                    ELSE [@ EXCEPT !.pc = "remember", !.summary = summary]]
  /\ UNCHANGED <<storeVars, left, remembered>>

(* The bucket is that of the request's session, or else the reflection's;  *)
(* the ID is made from the request's session alone.                        *)
SummaryBucket(r) ==
  Bucket(IF r.session # NoSession THEN r.session ELSE r.reflect, r.namespace)

(* Mutant: the promotion does not wait for the memory to be saved.         *)
RememberUnchecked(p) ==
  /\ keep[p].pc = "remember"
  /\ LET k == keep[p] IN
       \/ /\ SaveMemory(Summary(k.req.session), SummaryBucket(k.req), k.summary)
          /\ remembered' = remembered \cup {<<k.req.session, k.summary>>}
          /\ UNCHANGED <<know, left>>
       \/ SaveFails /\ UNCHANGED remembered
  /\ keep' = [keep EXCEPT ![p] = IF @.req.promote THEN [@ EXCEPT !.pc = "promote"] ELSE Resting]

(* The summary is saved as a memory; an error ends the call.               *)
Remember(p) ==
  /\ keep[p].pc = "remember"
  /\ LET k == keep[p] IN
       \/ /\ SaveMemory(Summary(k.req.session), SummaryBucket(k.req), k.summary)
          /\ remembered' = remembered \cup {<<k.req.session, k.summary>>}
          /\ keep' = [keep EXCEPT ![p] =
                        IF k.req.promote THEN [k EXCEPT !.pc = "promote"] ELSE Resting]
          /\ UNCHANGED <<know, left>>
       \/ /\ SaveFails
          /\ keep' = [keep EXCEPT ![p] = Resting]
          /\ UNCHANGED remembered

(* Then as knowledge; after an error the memory stays.                     *)
PromoteSummary(p) ==
  /\ keep[p].pc = "promote"
  /\ LET k == keep[p] IN
       \/ /\ SaveKnowledge(SummaryItem(k.req.session), k.summary)
          /\ UNCHANGED <<mem, listed, left>>
       \/ SaveFails
  /\ keep' = [keep EXCEPT ![p] = Resting]
  /\ UNCHANGED remembered

KeeperRestart ==
  /\ keep' = [p \in Keepers |-> Resting]
  /\ UNCHANGED remembered
=============================================================================
