# Verification of gracedb

TLA+ specifications of gracedb, TLC models that check them on small instances,
and TLAPS proofs of what matters most for instances of every size. gracedb is an
embedded database in Go: vectors, texts, memories, knowledge items, a property
graph and RDF triples, all kept as keys of one Badger key-value store, with
vector indexes in memory beside it.

Paths such as `store.go:65` are below `src/pkg/store` unless they name another
package; every definition of the modules is mapped to its lines in
`PROJECT.json`, which also lists the hazards of the code and the properties that
face them.

    tlc -workers 2 -config MCMemoryStore_all.cfg MCMemoryStore.tla
    tlapm MemoryStoreProofs.tla

Contents: 1 the system; 2 the modules; 3 the runs; 4 fairness; 5 what is proved;
6 findings; 7 deviations that no run shows; 8 what is not modelled; 9 the plan.

## 1. The system

### How the parts interact

`pkg/gracedb` is the facade. `Open` makes one `BadgerStore` (`pkg/store`), which
owns the Badger database, and starts the goroutine that removes expired
memories. Graph and RDF stores are objects of their own that get the same Badger
database, and not the `BadgerStore` around it. Above them, without state in the
database of its own, is the agent layer: automatic extraction of facts from chat
sessions, the memory workflow, and consolidation, which call the memory store and
the knowledge store. Nothing sends messages: goroutines of the program call in,
and share

- the Badger database: serializable transactions over snapshots. A transaction
  fails at commit (`ErrConflict`) when a key it read, iteration included, was
  written since. No caller in the code retries.
- `closeMu`, an RWMutex: `View`, `Update` and `Ready` hold its read side,
  `Close` its write side. Graph and RDF transactions go past it.
- `s.mu` of the `BadgerStore`: writers of vectors, memories, collections,
  sessions and knowledge hold it exclusively. Readers do not take it. The graph
  store has a lock of its own for writers; the RDF store has none.
- `s.indexes` and `s.memoryIndexes`: vector indexes per collection and per
  memory bucket, built in memory, lost at exit, maintained after (upserts) or
  before (deletions) the transaction that changes the keys.
- the settings and the message counters of AutoRetain, globals of the process,
  and the goroutines that extraction is launched in.

Almost every hard behaviour comes from there: an operation is several
transactions, or a transaction and an index update, and what is read before one
of them is used after it. In the agent layer an operation is several calls of the
stores, without a lock around them, any of which may fail or be the last.

### The components

| component | state | operations | hard behaviour | correct when | module |
|---|---|---|---|---|---|
| store life cycle (`store.go`) | `closeMu`, `closed`, cleanup context and channel | New, View, Update, Ready, Close, StartMemoryCleanup | calls, two Closes and the cleanup overlap; locks nest | Close drains; no transaction on a closed database; one cleanup; calls and Close come back | `Lifecycle` |
| memory store (`memory.go`, cleanup in `store.go`) | `mem:`, `mem:content:`, `mem:vec:`, `mem:idx:`, `mem:fts:` keys; one index per bucket | SaveMemory, UpdateMemory, DeleteMemory, GetMemory, SearchMemory; deletion of expired memories | the cleanup's transactions conflict with writers; the index is updated outside the transaction; restart | IDs lead to records, terms agree with contents, vectors are searchable, expired memories go | `MemoryStore` |
| vectors and collections (`crud.go`, `collection.go`, `search.go`, `gracedb/vector.go`) | `col:`, `emb:`, `fts:`, `idx:snapshot:` keys; one index per collection | Create/DeleteCollection, Upsert, UpsertBatch, Delete, DeleteBatch, DeleteByDocID, Search, LoadIndex, SaveIndex, RebuildVectorIndex | collection looked up before the lock; snapshots grow stale; conflicts after the index has changed | a name leads to its own embeddings only; an index lacks or keeps nothing but what it has missed, and a search finds the rest | `VectorStore` |
| full-text search (`fts.go`, `gracedb/text.go`) | `fts:` keys | IndexFTS, SearchFTS, RebuildIndex | entries written and removed in other transactions than the records | the entries are those of stored records | within `VectorStore`, `MemoryStore` |
| knowledge store (`knowledge.go`) | `know:`, `know:chunk:`, `fts:` keys | SaveKnowledge, UpdateKnowledge, GetKnowledge, DeleteKnowledge, SearchKnowledge | read before the lock and written under it; chunks and entries of earlier contents | the current content is indexed; a deletion leaves nothing; versions count writes | `KnowledgeStore` |
| property graph (`pkg/graph`) | node and edge records, from/to/type keys | UpsertNode, DeleteNode, UpsertEdge, DeleteEdge, GetNeighbors, BFS, DFS, ShortestPath | stale index keys; GetNeighbors is many transactions | every edge is indexed; deletion leaves no edge; traversals find what is reachable | `GraphStore`, `GraphTraversal` |
| RDF store and inference (`pkg/rdf`) | triples, subject/predicate/object keys | UpsertTriple, DeleteTriple, Query, Infer, ClearInferred | IDs ignore kind and language; stale keys; check and write in two transactions; one pass per rule | queries are exact; inference is sound and, repeated, complete; assertions survive it | `RdfStore`, `Rdfs` |
| vector index structures (`pkg/index`) | flat, HNSW, IVF, LSH and combinations of them | Insert, InsertBatch, RemoveVector, Search, Train | the search of a layer never expands; the entry point may be removed; an ID inserted twice | no removed vector is found, a vector finds itself, the graph stays sound, the fusion is full | `Ranking`, `HnswIndex`, `LshIndex`, `IvfIndex`, `MultiIndex` |
| sessions (`session.go`, `gracedb/session.go`) | session and message keys; settings and counters of AutoRetain | Create/DeleteSession, Add/DeleteMessage, history, SetAutoRetain | check and write are two transactions; extraction in goroutines reads the history late | messages go with their session; what is extracted saw what fired it | `Sessions`, `Agent` |
| knowledge memory (`pkg/knowledge`) | none of its own | Retain, Recall, Reflect, Consolidate | four calls without a lock, the last of which may fail | nothing is promoted that was not remembered; sessions stay apart | `KnowledgeMemory`, `Agent` |
| memory flow, hindsight (`pkg/memoryflow`, `pkg/hindsight`) | none of its own | IngestTranscript, CloseSession, promotion | broken off, repeated and overlapping ingestion | episodes retell the transcript without a gap; promotions reported are kept | `MemoryFlow`, `Agent` |
| facade (`pkg/gracedb`) | embedder, observers | forwards | order of its two calls per upsert | - | within `VectorStore`, `Lifecycle`, `Sessions` |
| SPARQL, SHACL, N-Triples (`pkg/rdf`) | none | parse and evaluate over Query | - | - | see section 8 |
| graph flow (`pkg/graphflow`) | none | extract and write | - | - | see section 8 |
| text algorithms (`chunking.go`, `fuzzy.go`, `stemmer.go`, `thesaurus.go`) | none | chunk, edit distance, stems, synonyms | - | - | see section 8 |
| fusion, reranking, aggregation | none | scores of result lists | - | - | see section 8 |
| semantic router | routes with cached vectors | Add, Remove, Route | - | - | see section 8 |
| backup and restore (`gracedb/backup.go`) | - | Backup, Restore | restores keys under live indexes | - | see section 8 |
| quantization, similarity, geo | none | arithmetic | - | - | see section 8 |
| MCP server, tool box | tool table | requests | - | - | see section 8 |

## 2. The modules

    module           over                                       proofs                TLC
    Lifecycle        -                                          LifecycleProofs       MCLifecycle
    MemoryStore      MemoryMap (abstract)                       MemoryStoreProofs     MCMemoryStore
    VectorStore      Collection (abstract)                      VectorStoreProofs     MCVectorStore
    KnowledgeStore   -                                          KnowledgeStoreProofs  MCKnowledgeStore
    GraphTraversal   GraphStore                                 GraphStoreProofs      MCGraphStore
    Rdfs             RdfStore                                   RdfStoreProofs        MCRdfs
    MultiIndex       HnswIndex, LshIndex, IvfIndex, Ranking     MultiIndexProofs      MCMultiIndex
    Agent            Sessions, MemoryFlow, KnowledgeMemory,     AgentProofs           MCAgent
                     all three over AgentStore

Lifecycle says when transactions may run; the modules of the records take a
transaction as one step (commit of what it read and wrote) and leave the gate
out. That split is sound because `closeMu` only delays or refuses a transaction,
and a call refused by a closed store changes nothing but the vector index, which
dies with the process.

**Lifecycle** (`store.go`). Every goroutine has a program counter; the read locks
it holds on `closeMu`, the waiting and the holding writer, the holder of `s.mu`,
`closed`, the database, and cancellation and completion of the cleanup are
variables. The RWMutex is the library's, writer preference included: once `Close`
has asked for the lock no new reader gets in, not even a nested one. Callers make
six kinds of call, each standing for all operations that lock alike: one
transaction (`view`), one under `s.mu` (`locked`), a View inside a View (`nested`,
GetKnowledge), `ready`, `start` (StartMemoryCleanup) and a transaction on the raw
database (`raw`, all of graph and RDF). A step is what happens between two
synchronisations.

**MemoryMap** is the promise: a map from IDs to records (content, expiry) with
save, update, delete and removal of what has expired. **MemoryStore** is the code
of `memory.go` and of the cleanup: a call takes `s.mu` and runs its function
(`Begin`), commits or fails (`Commit...`, `Conflict`) and updates the index
(`IndexVector`); the cleanup scans, then for each ID opens a transaction
(`DirectBegin`), commits or fails, and takes the vector out of the index in a last
step under `s.mu`. Conflicts are Badger's: each side is tainted when the other
commits a key it has read. `GetMemory` is the refinement mapping. A content stands
for the terms it is tokenized to, a vector is a value without geometry, expiry is
`none`, `live` or `past`.

**Collection** is the promise of a collection name: unused, or a set of embeddings.
**VectorStore** is the code from the facade down: lookup of the collection without
a lock, one transaction under `s.mu` for all embeddings of a call, the index
afterwards (or, deleting, before), a second lookup and the lexical entries in
transactions of their own; search in two steps, index and records; loading,
rebuilding and saving of indexes with their reads outside the lock; restart at any
point. Embeddings have no geometry: a search returns all that it can see, so
completeness is about visibility, not about rank. A load or a save that overlaps
writes, a snapshot that has aged and a deletion that fails after it has changed the
index make an index miss embeddings; history variables (`missed`, `snapMissed`, and
those of the vectors a call has at hand) follow which, so that the properties can say
that it misses no others. Transactions of upserts, deletions and saves fail at any
time, drops too.

**KnowledgeStore** is `knowledge.go` for one collection: records with content and
version, chunks, and entries that lead from a word to a chunk. Saving and updating
are two steps, the read of the stored record before `s.mu` and the transaction
under it (`Commit`, with the chunks that each drops); a deletion is one
transaction and so one step. A content is a set of words and `Cuts` is every way
to cut it that ChunkBySize may take, by chunk size, overlap and sentence ends; the
UUIDs of the chunks of one call are a batch. SearchKnowledge is an operator over
the state, with the item of an entry read from its key as the code does.

**GraphStore** has the six key families as sets; each write is one transaction
under `g.mu`, one action; `GetNeighbors` is one step per transaction.
**GraphTraversal** adds BFS, as a fold over levels, and ShortestPath, as iteration
of its queue, both over `Neighbors`, which reads keys as the code does; `Within`
is the reference, which knows edges only. The nodes are finite.

**RdfStore** has triples with their hash as ID and the three index families;
`Query` chooses the index as `store.go:168` does and filters. **Rdfs** is `Infer` and
`ClearInferred`, a step per query, check and write; `Entails` is the reference:
what follows by one use of one rule.

**HnswIndex**, **LshIndex** and **IvfIndex** are the structures of `pkg/index`, each
with its own state; **MultiIndex** feeds them and the flat index with the same
vectors, searches each alone and some together, and fuses what they find by
reciprocal rank (`PlaceScore`, added up by `Total`). An answer is the set of
sequences that sorting by score and cutting may give (**Ranking**: ties in any order). Similarity, distance and hashes
are constants; random levels, centroids and ties are any choice. HNSW's search of a
layer is modelled as what it computes, its start alone: `hnsw.go:314` marks the
start visited and then expands unvisited candidates only.

**AgentStore** is the memory store and the knowledge store as the agent layer sees
them: a save or a deletion is one step, which MemoryStore and KnowledgeStore
justify (the first implements a map), and a search gives some of what it might.
Every save may fail. **Sessions** has the messages, AddMessage in its steps (ID and
time, check and write, count, fire), and an extraction goroutine that reads the
history, asks the caller's extractor and saves facts one by one; the history is the
messages by their rank in time. **MemoryFlow** cuts a
transcript into exchanges (turn by turn, `CutUp`), saves an episode per exchange
and promotes candidates; **KnowledgeMemory** is Consolidate as four calls. **Agent**
puts the three on one store, with callers that delete memories and a process that
restarts. A behaviour has a budget of calls of each kind (`Budgets`).

Assumptions the modules make on the data, which the code does not enforce:

- No ID followed by a colon is the beginning of another ID with its colon: keys
  are joined with colons and scanned by prefix.
- `hashTriple` has no collisions between different values, and callers leave the
  ID of a triple empty.
- Identities from `uuid.New` are fresh.
- A content has at least one term, but in KnowledgeStore, where it may be empty.
- KnowledgeStore: cutting a content breaks no word in two; the collection exists
  all the time; no item has the ID of the collection.
- Rdfs: the IRI with the value of a term of the instance is a term of it. Three of
  its theorems take data as RDFS expects it besides (`OrdinaryData`, section 5).
- MultiIndex: `Build` of LSH has been called (the store never does, see section 7),
  and there are at most twelve clusters, so that sorting keeps equal ones in order.
- Agent: an ID the layer makes has the parts of its session and its number told
  apart; a session is named, so the empty string is no session.

## 3. The runs

| run | instance | checked | states |
|---|---|---|---|
| lifecycle_all | 2 callers, all 6 kinds of call; 2 closers; cleanup started at open or not | TypeOK, DrainedClose, SingleCleanup, CleanupStopped, UndisturbedReturns | 119,634 |
| lifecycle_closecleanup | 1 caller, 1 closer, cleanup at open | CloseReturns: **violated** | - |
| memory | 1 memory, 2 buckets, 2 contents, 2 vectors, expiry, restart | KeysAgree, IndexSound, ImplementsMap, ExpiredIsReaped | 2,130,422 |
| memory_reopen | 2 memories, restart | VectorsSearchable: **violated** | - |
| vector | 2 callers, all operations; 2 identities of collections, 2 of embeddings; failures, restart; snapshots kept or ignored | ImplementsCollection, IndexCoherent, SearchComplete | 3,270,780 |
| knowledge | 2 callers, 2 items, 3 contents of up to 2 words, 2 batches of UUIDs, versions to 3; restart | WordsIndexed, NothingLeft, VersionsCount | 1,186,738 |
| knowledge_search | 2 callers, 1 item, 1 batch | SearchFinds: **violated** | - |
| graph | 3 nodes in a cycle with a shortcut, 4 edges, typed and not; 1 reader | IndexComplete, NeighborsExact, BFSReaches, PathShortest, NoEdgeOfDeleted | 623,854 |
| rdfs | 13 terms, 7 assertable triples | TypeOK, QueryExact, AssertedKept, InferCloses, ClearRemovesAll, InferSound | 99,336 |
| index | 3 IDs, 2 vectors, 2 layers, 1 link per node, 2 LSH tables, 2 clusters of which 1 is probed | HnswSound, HnswAnswersStored, HitsHeld, FindsItself, FusionSound | 64,331 |
| index_topk | the same | HnswFillsTopK: **violated** | - |
| agent | 2 sessions, both consolidated; 2 goroutines of each kind, five budgets of calls | MessagesOfSessions, TriggerSeen, MemoriesFit, EpisodesGapFree, EpisodesRetell, PromotionsKept, PromotedRemembered, SummariesApart | 1,119,297 |

What they show and why the bounds are enough:

- **lifecycle_all**. Two closers give the second Close that overlaps the first;
  two callers give one that holds `s.mu` while the other waits for it, both
  calling StartMemoryCleanup, and one nesting next to one waiting. A third
  goroutine of a kind adds no new relation: the state keeps no count but
  `readers`, and the proofs of section 5 hold for any number. UndisturbedReturns
  says that Close and every call come back as long as no cleanup was launched and
  no View is nested in another.
- **memory**. The state of a memory is per ID, and calls on different IDs meet only
  in `s.mu`, in conflicts over `mem:fts:` keys and in the index of a bucket. One ID
  in two buckets with two contents and two vectors has every overwrite, move and
  stale index entry. KeysAgree (types, terms, IDs) and IndexSound are about the
  keys and the index; ImplementsMap says that every step of the interleaving is a
  step of the map; ExpiredIsReaped is the liveness of the cleanup, which meets a
  caller's conflicts again and again. The safety part is proved for any number of
  IDs.
- **memory_reopen** has two memories because hiding takes one vector in the index
  and another beside it.
- **vector**: two identities of collections allow the name to be dropped and used
  again while calls of the first use still run; both callers may be in any call.
  ImplementsCollection holds whatever is stale. IndexCoherent and SearchComplete
  say exactly how stale: what an index may lack, or keep, are embeddings whose write
  was not over when a load read the vectors or a save the index, and those of
  deletions that failed; a search may miss them only if that index answered it. So in
  a program that loads its indexes while no other call runs, as the documentation
  tells it to at startup (README.md:349), saves no snapshot and has no failing
  deletion, nothing is ever missed. Two embeddings give one that is missed beside one
  that is not, and hide stored vectors behind an index that is not empty.
- **knowledge**: two callers are enough for a call to commit after another has
  replaced or deleted the record it read; a content that may be cut in five ways,
  one that may not and an empty one give chunks of earlier contents beside
  current ones. A batch returns to the pool when nothing stored has it
  any more, so that two of them bound how many generations of chunks exist at
  once (`Batches`), not how many there were; `MaxVersion` bounds the versions a
  record reaches before it is deleted. Both bounds are arbitrary in the proofs.
- **graph**: a cycle and a shortcut of another type give paths of length one to
  three, parallel ways and both endpoints deleted in every order. Edges keep
  their endpoints and readers ask for "out" or "in" here (see section 7); the
  theorems on the keys do not assume it.
- **rdfs**: two texts that share an ID, a class under another, a property under
  another with domain and range, so that rule 4 feeds rules 5 and 6 and these
  feed rule 2 of the next call: one call of Infer is not enough. Callers leave
  the store alone during Infer (`InferAlone`) and assert nothing during
  ClearInferred, though they may retract (see section 7); no value occurs as a
  resource and as a text in assertable triples. TLC evaluates that the instance
  has ordinary data (`OrdinaryInstance`).
- **index**: three IDs on two layers with one link each have an entry point removed
  while others link to it, a layer left empty, links cut and ties between them; two
  vectors on a line, one table that tells them apart and one that does not, and
  two clusters of which one is probed make each structure miss something. Lists of
  one, two and three members are searched together, for one and two hits
  (`MaxTopK`). An ID may be inserted once while it is held (`MaxAgain`): the store
  does not do it, the package allows it. IDs are symmetric.
- **agent**: each of five budgets lets one part go deep: three messages, a deletion of
  the session and of a message, a change of settings, a failure and a restart
  (`Talk`); two workflows on one session with a deleted memory, a failure and a
  restart (`Workflows`), or three with a failure (`Retries`); a workflow and two
  consolidations (`Keeping`); a little of everything (`Mixed`). Two goroutines of a
  kind, which are symmetric, overlap in every way. Three turns give an exchange and a question left over,
  and a second transcript that stops short of it. Facts share one ID, the worst case.
  Requests to Consolidate name one session, either of the two, or one and none
  (`OneSessionEach`), so that each may meet the episodes and summary of the other.

`CHECK_DEADLOCK FALSE` stands where the system may stop: in Lifecycle a Close may
wait for ever, and all Close calls may have returned with nothing left to do; in
Agent a behaviour ends when its calls are made.

Each property of a passing run has a mutant, a wrong version of one definition
kept beside the right one (`(* Mutant: ... *)`), under which that run finds the
property violated.

## 4. Fairness

Safety is checked without fairness, but in lifecycle_all and memory, where the same
run also checks liveness (fairness removes no reachable state).

- Lifecycle, `FairSpec`: weak fairness of every step of a goroutine that is inside
  a call: the Go scheduler runs every runnable goroutine. Strong fairness of
  taking `s.mu`: a `sync.Mutex` hands itself over to a waiter it has starved for a
  millisecond. None for starting calls, the ticker, the choice of `select`, or the
  context.
- MemoryStore, `FairSpec`: weak fairness of the holder of `s.mu`, as above, and of
  the cleanup, whose ticker keeps firing while the process lives. Expiry, calls
  and restarts are not fair. ExpiredIsReaped asks in addition that callers leave
  the store alone and the process stays up from some time on: writers could
  otherwise conflict with the cleanup, which does not retry before its next pass,
  every time, and a process that restarts for ever never comes to a pass.

## 5. What is proved

TLAPS checks these for every value of the constants that meets the named
assumptions (`...Assumption`) of the modules; TLC evaluates those on every run.
A theorem without a property is the type and lock invariant of its module.

| module | theorem | property: statement |
|---|---|---|
| Lifecycle | LifecycleInvariant | TypeOK, and GateInv, StartInv |
| | CloseDrains | DrainedClose: no View or Update on a closed database, and a Close that returned left it closed |
| | OneCleanup | SingleCleanup: one cleanup goroutine is launched |
| | CleanupStopsBeforeDB | CleanupStopped: a cleanup started at open has exited before the database closes |
| MemoryStore | MemoryInvariant | types, OpenTxns, IDs, terms |
| | MemoryKeysAgree | KeysAgree: IDs lead to records and terms are those of the contents |
| | IndexesAreSound | IndexSound: an index holds stored vectors, but for one whose removal is owed |
| | StoreImplementsMap | ImplementsMap: MemoryStore implements MemoryMap |
| VectorStore | WellTyped | types, who holds `s.mu` |
| | StoreImplementsCollection | ImplementsCollection: VectorStore implements Collection |
| | IndexesAreCoherent | IndexCoherent: with `s.mu` free an index agrees with what is stored, but for what it has missed |
| | SearchesAreComplete | SearchComplete: a search finds all that is stored all the while, but for what the index that answered had missed |
| KnowledgeStore | KnowledgeInvariant | types and the two invariants |
| | DeletedLeavesNothing, ContentIndexed | NothingLeft, WordsIndexed |
| | WritesCounted | VersionsCount: versions count the writes that do not overlap |
| GraphStore | WellTyped | types, of readers too |
| | EdgesAreIndexed | IndexComplete: every edge has its keys |
| | DeletionIsComplete | NoEdgeOfDeleted: no edge survives its node |
| | NeighborsAreExact | NeighborsExact: GetNeighbors beside writers, under `Endpoints` |
| GraphTraversal | TraversalReaches | BFSReaches: BFS finds what so many steps lead to, under `Endpoints` |
| | PathsAreShortest | PathShortest: ShortestPath finds a path no other is shorter than, or there is none, under `Endpoints` |
| RdfStore, Rdfs | WellFormed | TypeOK: one triple per ID, well-formed runs |
| | QueriesAreExact | QueryExact: Query is exact |
| | ClearingIsComplete | ClearRemovesAll: nothing inferred is left |
| | AssertionsAreKept | AssertedKept: what is stored and not flagged is what callers asserted (+) |
| | InferenceIsSound | InferSound: what Infer stores follows by one rule from what is stored then (+) |
| | InferenceCloses | InferCloses: an Infer that adds nothing leaves a closed store (+) |
| MultiIndex | WellTyped | types, and the parts below |
| | GraphIsSound | HnswSound: entry point and links stay among stored vectors |
| | SearchEndsAtStored | HnswAnswersStored: the descent ends at a stored vector |
| | VectorsFindThemselves | FindsItself: LSH and IVF consider an equal vector |
| | RemovedIsNotFound | HitsHeld: what is not held is not found |
| | FusionIsSound | FusionSound: the fusion is full, has none twice and puts first what all members put first |
| Agent | MessagesGoWithSession | MessagesOfSessions: a message has its session |
| | EpisodesHaveNoGap | EpisodesGapFree: episodes are numbered without a gap |
| | PromotedWasRemembered | PromotedRemembered: what is promoted was a memory first |
| | ReportsAreTrue | PromotionsKept: what a workflow reports as promoted is there |
| | EpisodesTellTheTranscript | EpisodesRetell: the episodes of a workflow alone on its session retell the transcript |
| | SummariesAreApart | SummariesApart: a summary draws on its session, under `OneSessionEach` |
| | TriggersAreSeen | TriggerSeen: an extraction sees what fired it, or a window of newer messages |
| | MemoriesStayFit | MemoriesFit: types of all parts, and facts of one session each |

Some theorems have a hypothesis besides, which is about callers and without which
the property may fail:

- `Endpoints`: an edge keeps the endpoints it was first stored with, and readers ask
  for "out" or "in" (section 7 has what happens otherwise).
- (+) `InferAlone`: callers leave the store alone while Infer runs, and assert nothing
  while ClearInferred does; and `OrdinaryData`: no value names both a resource and a text,
  since triple IDs do not tell them apart; predicates and classes are IRIs; no
  property is declared below `rdfs:subClassOf` or `rdfs:subPropertyOf`, which would
  let rule 2 make premises of the rules before it.
- `OneSessionEach`: a request to Consolidate does not name one session for its
  summary and another to reflect on. The code takes both; such a request files what
  the memories of one session say as the summary of the other.

TLC evaluates the last two on the instances of the runs; the instance of the run
graph meets `Endpoints` by its constants.

The arguments:

- **Lifecycle.** DrainedClose is not inductive. GateInv ties the program counters
  to the locks: who is inside a transaction holds the read locks of his place,
  at most one closer is past the lock, the database is closed only after
  `closed` was set with no reader left, and once `closed` is set no read lock is
  ever taken again. StartInv says `s.mu` is held from the check in
  StartMemoryCleanup to the launch, which makes them one step. StopInv is kept
  when the cleanup exists before the first call: then `cancel` and `done` never
  change, and the Close that reaches the database has seen the goroutine exit.
- **MemoryStore.** That IDs lead to records fails to be inductive where the cleanup
  deletes under an open call: OpenTxns says that a transaction that will be allowed to
  commit still finds what it has read, the bucket of its ID above all, because
  the commit that changed it has tainted it. That is Badger's conflict detection
  put to use; without the taint the proof and the run both fail. The refinement
  then goes action by action: commits of the calls are steps of the map, commits
  of the cleanup are removals, all else stutters. IndexSound needs to know who
  owes an update (IndexInv): an index entry is the stored vector, or the cleanup
  is about to remove it, or the open call is about to overwrite it; and a delete
  that will commit took its vector out before.
- **VectorStore.** A lemma for every action gives the types and that the holder of
  `s.mu` is between its lock and its unlock (Inv0), with what it does to the calls
  of others (Others). The refinement needs one more fact, Fresh: an identity of a
  collection that is not named now is never named again, so that an upsert that
  comes late writes where no name leads. IndexCoherent is inductive only
  with the same statement about every source an index may come from (Agreement): the
  index, the snapshot and the vectors a load or a save has at hand each agree with
  what is stored, but for what they have missed and what the holder of `s.mu` is
  writing (Pending), of which half has been done (Half). A load that read before a
  write has missed it as soon as the write is over; a load that began after it has
  not. SearchComplete follows with what a search owes (Owes): all that was settled
  when it began and has not begun to go since is stored, and is in an index that
  answers unless that had missed it.
- **KnowledgeStore.** The three parts are inductive together with what the types say
  of a call under way. WordsIndexed survives an update since that takes away
  chunks of its own item only and covers the content with the new ones; NothingLeft
  survives since a call that brings a deleted item back writes its record too.
- **GraphStore.** A stored edge has its keys at both ends and below its type; stale
  keys do no harm to that. So DeleteNode, which trusts keys, finds every edge of
  the node, whatever endpoints edges had before. NeighborsAreExact assumes that edges
  keep their endpoints and readers do not ask for both directions (`Endpoints`),
  without which it is false (section 7). Then stale keys lie at ends of their edge
  (KeysAtEnds), and a reader holds an ID, an edge or a neighbour for everything it
  owes (QueriesOK).
- **GraphTraversal.** Under the same hypothesis `Neighbors` is what the edges say, in
  every reachable state, so that a traversal is an argument about a graph. BFS: after d
  levels the visited nodes are those that walks of at most d steps lead to, and all
  neighbours of visited nodes outside the queue have been visited (LevelOK).
  ShortestPath: the proof gives each visited node a distance D, which the code does
  not keep. Parents are one nearer over a stored edge; the queue is in the
  order of D and nothing visited is farther than one beyond its head; expanded nodes have
  their neighbours visited, at most one farther (SearchOK). Each step expands a
  node more, so the search ends within as many steps as there are nodes, and as it
  ends D of the target is the length of the shortest walk (NearestFirst), or no walk
  leaves the visited nodes. The parents then lead back in D steps, over stored edges
  (Backs).
- **RdfStore, Rdfs.** The invariant is of the store alone: types, keys of every
  triple, one triple per ID. The last is why DeleteTriple may delete the keys of
  its triple: none with the same ID is left to need them. QueryExact then splits
  by the index chosen. ClearRemovesAll is: what is still inferred is still to be
  cleared (ClearInv), since callers replace or retract what is inferred but add
  none. Neither needs `InferAlone`. With it, and on ordinary data, the rules as
  coded, in joins over the predicate index, derive what follows by one use of a rule
  and only that (RulesComplete; LinkedFollows, AppliedFollows). What Infer has in hand was derived from an earlier
  reading, but what followed then still does, since the store only grows while it
  runs (EntailsGrows): that is RuleInv, with AssertedKept as one part, because a
  derived triple is written only if none has its ID. A call that has stored nothing saw
  one and the same store throughout, and has found stored what the rules behind
  it derive (CloseInv).
- **MultiIndex.** The invariant has the graph (HnswSound), that all structures hold
  the same vectors (Copies), that a held vector is in its buckets and cluster
  (Bucketed, Clustered), and, as long as no ID was inserted while held, nowhere
  twice and an ID that is not held nowhere (Once). HnswSound is where a removal
  could go wrong: a new entry point is chosen after links of all layers were cut. The
  descent through the layers is a recursive function; induction theorems take an
  operator, which the provers cannot instantiate, but that every non-empty set of
  naturals has a least element (LeastNatural) is proved from the axioms of the naturals,
  and a least counterexample gives what the function computes (DescentStays) and
  that a best candidate exists. FusionSound rests on lists that have no ID twice,
  which for IVF needs that an ID is in one cluster only (OneCluster, inductive beside
  the rest as long as no ID was inserted while held). The score of an ID is a sum over
  the lists, a recursive function again (TotalIs): it grows with each place, so that a
  hit every member has first scores strictly more than all others (TotalLess); and with
  the flat member, which lists all that is held, there is enough to fill the answer.
- **Agent.** MessagesOfSessions holds since the check and the write of AddMessage are
  under one `s.mu`, so that a talker past the check still has its session (TalkInv).
  EpisodesGapFree needs that a workflow finds the episodes before its next one where
  it left them (PrefixStored), or somebody deleted one; PromotedRemembered that a
  call about to promote has saved its memory (PromoteReady). Failures, restarts
  and the budgets of calls are arbitrary in all theorems. PromotionsKept is about a
  workflow that stays alone on its session, which keeps the IDs of others apart from
  its own (AloneApart). EpisodesRetell has two halves: that cutting loses and
  reorders nothing, a fact on lists of any length (ExchangesTell: what is done, joined,
  and what is open are the turns so far), and that the episodes saved so far are the
  first exchanges, as long as the workflow is alone (RetellInv). SummariesApart follows
  what a bucket lists, since it lists memories that have moved elsewhere: the ID
  tells the session of an episode or a summary (ListedApart). TriggerSeen needs
  times: no two messages have the same, of those stored, on their way, or remembered
  by an extraction (TimesApart); then a history, the last messages by rank, has the
  message that fired it or is all newer (HistorySees). MemoriesFit needs everything
  above about sessions and workflows, and that a counter never exceeds the messages
  begun (CountOK), which counts the callers between the write and the count.

Only model-checked:

- UndisturbedReturns and ExpiredIsReaped, the two liveness properties: fairness and
  ENABLED are beyond the prover.

Every other property that a passing run checks is stated by a theorem. The
findings of section 6 are counterexamples of TLC. Induction over data is done
by hand where it is needed (the descent, sums, cutting, sorting, levels and the
search): the set of numbers at which the claim holds has zero and the successor of each
member, or its complement no least element (AllNumbers, LeastNatural).

## 6. Findings

1. **Close can wait for ever** (`store.go:80`, lifecycle_closecleanup). Close holds
   `closeMu` for writing while it waits for the cleanup goroutine, and a goroutine in
   its pass needs `closeMu` for reading. store.go:65 promises that Close drains and
   closes.
2. **The first save after a restart hides all older vectors of a bucket**
   (`memory.go:555`, memory_reopen). The index is created empty, not from the stored
   vectors, and answers alone once it holds one. README.md:32 promises searchable
   vectors after reopen.
3. **SearchKnowledge finds nothing** (`knowledge.go:366`, knowledge_search). It cuts
   the key after the word at the first colon and takes the ID of the collection,
   which comes first, for the ID of the item. docs/api-reference-en.md:212 promises
   a search of knowledge items; the test (`integration_test.go:70`) logs an empty
   result and passes.
4. **HNSW returns one hit whatever topK is** (`pkg/index/hnsw.go:314`, index_topk).
   The search of a layer marks its start visited and then expands only candidates
   that are not visited. hnsw.go:265 promises the topK nearest neighbours.
   searchLayer, which finds the neighbours of a new node, is written the same way:
   an insertion links to one node per layer.

## 7. Deviations that no run shows

The models take the following steps as the code does, and the properties are
stated so as not to promise what they break. They are worth a look of the
maintainers.

Life cycle and memories:

- `gracedb/db.go:94`: graph and RDF stores have the raw database, so that Close does
  not wait for their transactions (`raw` calls of Lifecycle), as gracedb/db.go:136
  promises.
- `knowledge.go:142`: GetKnowledge nests a View in a View; a Close that asks for the
  lock in between stops both. UndisturbedReturns promises nothing once such a
  call, or a cleanup goroutine (finding 1), is there (`Disturbed`).
- `store.go:135`: StartMemoryCleanup that waits for `s.mu` while Close runs launches
  its goroutine on the closed store. CleanupStopped is about one started before.
- `store.go:140`: a TTLInterval of zero starts the cleanup with the default interval;
  `pkg/types/embedding.go:104` says that zero means no cleanup.
- `store.go:223`: a memory renewed between the scan and its deletion is deleted
  (`DirectBegin` does not ask again). A removal of MemoryMap may take any record,
  expired or not.
- `store.go:282`: a save between the cleanup's commit and its index update loses its
  vector from the index.
- `memory.go:155`: saving an ID under another bucket leaves the record, terms and
  vector of the old bucket, found by searches there.
- `memory.go:289`: DeleteMemory that fails at commit has taken the vector out of the
  index already.
- `memory.go:311`: a search without query and vector is empty, so that ListDiaryEntries
  (`pkg/memoryflow/service.go:344`), which lists by such a search, finds no entry.

Vectors and their indexes:

- `search.go:348`: LoadIndex installs a saved snapshot without comparing it with the
  stored vectors. Embeddings upserted after SaveIndex are in no index after a
  restart, against README.md:32, in the way of finding 2; they are among what
  IndexCoherent and SearchComplete let an index miss. Restore
  (`gracedb/backup.go:52`) loads the keys and then such snapshots. A combination of
  indexes is saved, but its Unmarshal reads nothing (`pkg/index/multi.go:109`), so that
  LoadIndex installs it empty; IVF and LSH fail to save, gob finding no exported field.
- `search.go:106`: searches read indexes without the read lock that
  docs/architecture-en.md:276 describes; loading (`search.go:358`) next to upserts
  may publish an index that misses them for good.
- `crud.go:236`, `search.go:487`, `crud.go:308`: deletions take vectors out of the index
  before their transaction commits; when it fails they are stored and, while the index
  answers, not found. DeleteCollection that fails (`collection.go:131`) leaves the
  collection without its index until it is loaded.
- `crud.go:20`: an upsert that looked its collection up before it was dropped stores
  embeddings below the dropped ID.
- `gracedb/vector.go:28`: the lexical entries are written after the embedding, in
  another transaction: a crash between leaves it without, a deletion between leaves
  entries without an embedding; an error of IndexFTS is dropped. Nothing repairs them: RebuildIndex, documented to
  rebuild the FTS index (README.md:346, docs/api-reference-en.md:616), rebuilds the
  vector index (`search.go:397`).
- `search.go:456`: nothing in the store trains an IVF index, and one that is not trained
  finds nothing (FindsItself is about trained ones); nor does it call Build of an LSH
  index (`:458`), without which the first Insert indexes an empty table of hyperplanes
  and panics. LshIndex starts after Build; IvfIndex covers both, trained and not.
- `pkg/index/ivf.go:40` and `lsh.go`: a vector inserted again while held leaves its
  entry in the old cluster or bucket, which removal does not clear. The store removes first.

Knowledge, graph and triples:

- `knowledge.go:35` and `:156`: the record is read before `s.mu`, so that two saves
  write the same version, a later write may carry an earlier version, an update
  undoes another, and an update that overlaps a deletion brings the item back.
  VersionsCount makes an exception of calls whose record was replaced.
- `knowledge.go:77`: SaveKnowledge, documented to replace an item and its chunks
  (`knowledge.go:18`), leaves the old chunks, which GetKnowledge goes on listing;
  UpdateKnowledge replaces them but leaves their entries (`knowledge.go:200`).
- `knowledge.go:202`: UpdateKnowledge iterates over the whole database inside its
  transaction, so that any overlapping write, of whatever part, makes it fail.
- `pkg/graph/store.go:149` and `:265`: an edge upserted with other endpoints is still
  returned for the old ones; direction "both" takes ToNodeID for the neighbour
  whichever end was asked for.
- `pkg/rdf/rdfs.go:125`: a triple asserted between the check and the write of Infer
  is overwritten as inferred and goes with the next ClearInferred. `pkg/rdf/store.go:440`:
  the same values as resource and as text are one triple.

Agent layer:

- `gracedb/knowledge_memory.go:94`: extractions run in goroutines and save under the IDs
  the extractor chose. An older one may overwrite what a newer one saved, and facts
  of one ID, such as the "fact-1" of README.md:291, of different sessions overwrite
  each other. The counters that fire them are of the process, not of the database,
  and outlive their session (`gracedb/session.go:52`).
- `session.go:90`: memories outlive the deletion of their session.
- `pkg/knowledge/knowledge_memory.go:240`: a consolidation whose own SessionID is empty, as
  in README.md:277 and in the tool box, saves under "summary:" and "knowledge:",
  which the next of any session replaces. `:291`: when the promotion fails, or two
  overlap, memory and knowledge hold different summaries.
- `pkg/knowledge/knowledge_memory.go:121`: Recall builds the context pack after it has added
  the section of the graph to it, and the section is lost.
- `pkg/memoryflow/service.go:297`: the candidates of HeuristicExtractor have no ID, so that
  all are saved under one key and only the last stays, while the response lists all.
  DefaultPromotionPolicy has not the method of the interface PromotionPolicy
  (`promotion.go:13`, `types.go:80`).
- `pkg/memoryflow/service.go:410`: the plan is made from the query alone and the plan of the
  request, with the keywords and entities that Hindsight finds, is not looked at.
  Recall cuts text at a number of runes which it compares with the length in
  bytes, and beyond MaxContextChunks leaves half of them to memories even when there
  is no knowledge.

## 8. What is not modelled

In the parts that are modelled: ranking by scores where no index structure is the
subject, filters by metadata and type, limits, tokenization, metadata other than
expiry, named graphs and datatypes, namespaces, IDs of triples that callers choose,
DFS and the edges that BFS collects, documents and listings of sessions and Stats, the
diary, the texts of WakeUpLayers, of the context pack and of cues, snapshots outside
VectorStore, errors of the disk, and data races on index maps, whose outcome Go
leaves open. `RebuildIndex` counts as rebuilding the vector index, which is what
it does.

Left out altogether, and why:

- SPARQL, SHACL and N-Triples: parsers of text, and a join and a validator without
  state over the answers of Query, which is proved exact.
- Graph flow: one sequential pipeline around a language model that writes
  to the graph store.
- Text algorithms: functions of strings. What the stores need of chunking, that the
  chunks cover the content, is in `Cuts` of KnowledgeStore.
- Fusion, reranking and aggregation: floating-point functions of result lists;
  reciprocal rank fusion is in MultiIndex.
- Semantic router: a table of routes behind one lock, over similarities.
- Backup and restore: Badger writes and loads the keys; what snapshots do after it is in
  VectorStore (section 7).
- Quantization, similarity and geo search: floating-point arithmetic without state.
- MCP server and tool box: a loop over requests around calls of the facade.

## 9. The plan

Done, in this order: Lifecycle; MemoryStore over MemoryMap; VectorStore over
Collection; GraphStore and GraphTraversal; RdfStore and Rdfs; KnowledgeStore; the
index structures and MultiIndex; Sessions, MemoryFlow and KnowledgeMemory composed in
Agent; proofs about each of them.

Next, most important first:

1. An abstract specification of the agent layer (per session, a transcript told as
   far as it was saved, and a set of promoted notes) that Agent implements.
2. MemoryStore and the gate of Lifecycle in one module, in which Close overlaps the
   transactions of a call, in the place of the argument of section 2.
3. Restore over the keys of VectorStore, under live indexes.
4. SPARQL joins and edit distance as operators against reference definitions on
   bounded inputs.
