-------------------------------- MODULE Agent --------------------------------
(***************************************************************************)
(* The agent layer as a whole: chat sessions with automatic extraction,    *)
(* the memory workflow and consolidation, all at work on one memory store  *)
(* and one collection of knowledge, in a process that may be restarted.    *)
(***************************************************************************)
EXTENDS Sessions, MemoryFlow, KnowledgeMemory

VARIABLE forgotten  \* auxiliary: the sessions with an episode somebody deleted

vars == <<storeVars, left, sessionVars, flow, keeperVars, forgotten>>

Init ==
  /\ StoreInit
  /\ SessionsInit
  /\ FlowInit
  /\ KeeperInit
  /\ forgotten = {}

(* A caller deletes a memory, whoever saved it.                            *)
Forget(m) ==
  /\ DeleteMemory(m)
  /\ IF m[1] = "episode"
     THEN /\ forgotten' = forgotten \cup {m[2]}
          /\ flow' = [p \in Flows |-> IF OnSession(p, m[2])
                                      THEN [flow[p] EXCEPT !.alone = FALSE] ELSE flow[p]]
     ELSE UNCHANGED <<forgotten, flow>>
  /\ UNCHANGED <<know, sessionVars, keeperVars>>

(* The process ends and is started again.                                  *)
Restart ==
  /\ SessionsRestart
  /\ FlowRestart
  /\ KeeperRestart
  /\ UNCHANGED <<storeVars, forgotten>>

TalkNext ==
  \/ /\ \E s \in Sessions : CreateSession(s)
     /\ Spend("open") /\ UNCHANGED storeVars
  \/ /\ \E s \in Sessions : DeleteSession(s)
     /\ Spend("close") /\ UNCHANGED storeVars
  \/ /\ \E p \in Talkers, s \in Sessions, heard \in BOOLEAN : Say(p, s, heard)
     /\ Spend("say") /\ UNCHANGED storeVars
  \/ /\ \E p \in Talkers : StoreMessage(p) \/ CountMessage(p) \/ Fire(p)
     /\ UNCHANGED <<left, storeVars>>
  \/ /\ \E m \in msgs : DeleteMessage(m)
     /\ Spend("drop") /\ UNCHANGED storeVars
  \/ /\ \E c \in Settings : SetAutoRetain(c)
     /\ Spend("set") /\ UNCHANGED storeVars
  \/ /\ \E j \in jobs : ReadWindow(j) \/ ExtractFacts(j)
     /\ UNCHANGED <<left, storeVars>>
  \/ \E j \in jobs : \E f \in j.todo : Retain(j, f)

FlowNext ==
  \/ /\ \E p \in Flows, s \in Sessions, t \in Transcripts :
          \/ IngestTranscript(p, s, t)
          \/ \E named \in BOOLEAN : CloseSession(p, s, t, named)
     /\ Spend("flow")
  \/ \E p \in Flows : SaveEpisode(p) \/ \E i \in 1..MaxTurns : Promote(p, i)
  \/ /\ \E p \in Flows : ExtractKnowledge(p)
     /\ UNCHANGED left

KeeperNext ==
  \/ /\ \E p \in Keepers, r \in Requests : Consolidate(p, r)
     /\ Spend("consolidate")
  \/ \E p \in Keepers : RecallMemories(p) \/ Reflect(p) \/ Remember(p) \/ PromoteSummary(p)

Next ==
  \/ TalkNext /\ UNCHANGED <<flow, keeperVars, forgotten>>
  \/ FlowNext /\ UNCHANGED <<sessionVars, keeperVars, forgotten>>
  \/ KeeperNext /\ UNCHANGED <<sessionVars, flow, forgotten>>
  \/ (\E m \in MemoryIds : Forget(m)) /\ Spend("forget")
  \/ Restart /\ Spend("crash")

Spec == Init /\ [][Next]_vars

-----------------------------------------------------------------------------
Jobs == [pc : {"reading", "extracting", "saving"}, trigger : Messages,
         size : Nat, window : Seq(Messages), todo : SUBSET FactIds]

FlowStates ==
  [pc : {"saving", "extracting", "promoting", "returned"}, session : Sessions,
   turns : Transcripts, next : 0..MaxTurns, promote : BOOLEAN, named : BOOLEAN,
   todo : SUBSET (1..MaxTurns), promoted : SUBSET (1..MaxTurns), alone : BOOLEAN]

SummaryContents == [facts : SUBSET (MemoryIds \cup KnowledgeIds),
                    sources : SUBSET (MemoryIds \cup KnowledgeIds)]

ContentsOf(m) ==
  CASE m[1] = "fact" -> Seq(Messages)
    [] m[1] = "episode" -> Seq(Turns)
    [] m[1] = "summary" -> SummaryContents

(* Every part of the state has its type: a memory found by the ID of a     *)
(* fact, an episode or a summary holds one, wherever it is.                *)
TypeOK ==
  /\ \A m \in MemoryIds : Stored(m) =>
       mem[m].bucket \in Buckets /\ mem[m].content \in ContentsOf(m)
  /\ listed \subseteq Buckets \X MemoryIds
  /\ \A m \in MemoryIds : Stored(m) => <<mem[m].bucket, m>> \in listed
  /\ left \in [Calls -> Nat]
  /\ sess \in [Sessions -> {"none", "stored", "deleted"}]
  /\ msgs \subseteq Messages /\ clock \in 0..MaxMessages
  /\ counter \in [Sessions -> 0..MaxMessages]
  /\ jobs \subseteq Jobs
  /\ \A p \in Flows : flow[p] = Free \/ flow[p] \in FlowStates
  /\ \A p \in Keepers : keep[p] = Resting \/ keep[p].summary \in SummaryContents
  /\ forgotten \subseteq Sessions

(* A message is only there as long as its session is, though AddMessage    *)
(* and DeleteSession overlap (store/session.go:128, "Verify session        *)
(* exists").                                                               *)
MessagesOfSessions == \A m \in msgs : sess[m.session] = "stored"

(* The extraction that a message fired works on that message, unless it    *)
(* has been deleted or a whole window of newer messages has come since:    *)
(* however late the history is read, and whoever adds and deletes.         *)
TriggerSeen ==
  \A j \in jobs :
    j.pc # "reading" /\ j.trigger \in msgs =>
      \/ j.trigger \in ToSet(j.window)
      \/ /\ Len(j.window) = j.size
         /\ \A i \in DOMAIN j.window : j.window[i].at > j.trigger.at

(* A retained fact lies in the bucket of the session whose messages it was *)
(* extracted from, in their order, also when several sessions give their   *)
(* facts the same ID and extractions overlap.                              *)
FactsOfOneTalk ==
  \A f \in FactIds : Stored(Fact(f)) =>
    LET m == mem[Fact(f)]
    IN  /\ m.bucket[2] = "auto-retained"
        /\ \A i \in DOMAIN m.content : m.content[i].session = m.bucket[1]
        /\ \A i, j \in DOMAIN m.content : i < j => m.content[i].at < m.content[j].at

(* Whatever overlaps, repeats, fails or is cut off, each ID leads to a     *)
(* memory of the kind it names, listed in its bucket, and a fact tells of  *)
(* the one session it lies with.                                           *)
MemoriesFit == TypeOK /\ FactsOfOneTalk

(* The episodes of a session are numbered without a gap, after failed,     *)
(* interrupted, repeated and overlapping ingestions of whatever            *)
(* transcripts, as long as nobody deletes one.                             *)
EpisodesGapFree ==
  \A s \in Sessions \ forgotten, n \in 1..MaxTurns - 1 :
    Stored(Episode(s, n)) => Stored(Episode(s, n - 1))

(* The episodes of an ingestion that came through tell its transcript,     *)
(* turn by turn, whatever earlier ones have left in the session; unless    *)
(* another workflow on the session has run since it began.                 *)
EpisodesRetell ==
  \A p \in Flows :
    LET f == flow[p]
    IN  f.pc \in {"extracting", "promoting", "returned"} /\ f.alone =>
          /\ \A n \in 0..f.next - 1 : Stored(Episode(f.session, n))
          /\ FlattenSeq([i \in 1..f.next |-> mem[Episode(f.session, i - 1)].content]) = f.turns

(* What CloseSession reports as promoted is in the collection, with the    *)
(* content reported, though other candidates failed; unless it was         *)
(* promoted without an ID, or another workflow on the session has run.     *)
PromotionsKept ==
  \A p \in Flows :
    LET f == flow[p]
    IN  f.pc \in {"promoting", "returned"} /\ f.alone =>
          \A i \in f.promoted :
            CandidateID(f, i) # Unnamed => know[CandidateID(f, i)] = <<f.turns[i].note>>

(* A summary in the collection was a memory of its session before: no      *)
(* failure or restart between the two saves promotes what was not          *)
(* remembered, however calls on one session overlap.                       *)
PromotedRemembered ==
  \A s \in Sessions \cup {NoSession} :
    know[SummaryItem(s)] # None => <<s, know[SummaryItem(s)]>> \in remembered

(* The summary of a session does not draw on the episodes or the summary   *)
(* of another, whatever either consolidates and in which order.            *)
SummariesApart ==
  \A s \in Sessions : Stored(Summary(s)) =>
    \A m \in mem[Summary(s)].content.sources :
      m[1] \in {"episode", "summary"} => m[2] \in {s, NoSession}

=============================================================================
