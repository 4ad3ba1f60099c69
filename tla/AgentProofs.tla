----------------------------- MODULE AgentProofs -----------------------------
(***************************************************************************)
(* Proofs about Agent for any sessions, transcripts, requests and numbers  *)
(* of goroutines: messages go with their session and extractions see the   *)
(* message that fired them, every ID leads to a memory that fits it,       *)
(* episodes are numbered without a gap and tell their transcript, reports  *)
(* of promotions are true, what was promoted had been remembered, and the  *)
(* summaries of sessions stay apart.                                       *)
(***************************************************************************)
EXTENDS Agent, TLAPS, FiniteSetTheorems, SequenceTheorems

-----------------------------------------------------------------------------
(* Messages and sessions.                                                  *)

TalkOK ==
  /\ sess \in [Sessions -> {"none", "stored", "deleted"}]
  /\ msgs \subseteq Messages
  /\ clock \in 0..MaxMessages
  /\ talk \in [Talkers -> {Silent} \cup [pc : {"storing", "counting", "firing"}, msg : Messages]]

TalkInv == TalkOK /\ MessagesOfSessions

talkVars == <<sess, msgs, clock, talk>>

LEMMA TalkInit == Init => TalkInv
BY SessionsAssumption DEF Init, SessionsInit, TalkInv, TalkOK, MessagesOfSessions

LEMMA TalkStutter == TalkInv /\ UNCHANGED talkVars => TalkInv'
BY DEF TalkInv, TalkOK, MessagesOfSessions, talkVars

LEMMA TalkStep == TalkInv /\ [Next]_vars => TalkInv'
<1> SUFFICES ASSUME TalkInv, [Next]_vars PROVE TalkInv'
  OBVIOUS
<1> USE DEF TalkInv, TalkOK, MessagesOfSessions
<1>1. ASSUME NEW s \in Sessions, CreateSession(s) PROVE TalkInv'
  BY <1>1 DEF CreateSession, Messages
<1>2. ASSUME NEW s \in Sessions, DeleteSession(s) PROVE TalkInv'
  BY <1>2 DEF DeleteSession, Messages
<1>3. ASSUME NEW p \in Talkers, NEW s \in Sessions, NEW heard \in BOOLEAN, Say(p, s, heard)
      PROVE TalkInv'
  <2>1. clock + 1 \in 1..MaxMessages /\ clock' \in 0..MaxMessages
    BY <1>3, SessionsAssumption DEF Say
  <2>2. [session |-> s, at |-> clock + 1, heard |-> heard] \in Messages
    BY <2>1 DEF Messages
  <2>3. QED
    BY <1>3, <2>1, <2>2 DEF Say
<1>4. ASSUME NEW p \in Talkers, StoreMessage(p) PROVE TalkInv'
  <2>1. talk[p].msg \in Messages
    BY <1>4 DEF StoreMessage, Silent
  <2>2. [talk[p] EXCEPT !.pc = "counting"] \in
          [pc : {"storing", "counting", "firing"}, msg : Messages]
    BY <1>4 DEF StoreMessage, Silent
  <2>3. QED
    BY <1>4, <2>1, <2>2 DEF StoreMessage
<1>5. ASSUME NEW p \in Talkers, CountMessage(p) PROVE TalkInv'
  <2>1. [talk[p] EXCEPT !.pc = "firing"] \in
          [pc : {"storing", "counting", "firing"}, msg : Messages]
    BY <1>5 DEF CountMessage, Silent
  <2>2. QED
    BY <1>5, <2>1 DEF CountMessage
<1>6. ASSUME NEW p \in Talkers, Fire(p) PROVE TalkInv'
  BY <1>6 DEF Fire
<1>7. ASSUME NEW m \in msgs, DeleteMessage(m) PROVE TalkInv'
  BY <1>7 DEF DeleteMessage
<1>8. CASE SessionsRestart
  BY <1>8 DEF SessionsRestart
<1>9. CASE UNCHANGED sessionVars
  BY <1>9, TalkStutter DEF sessionVars, talkVars
<1>10. CASE TalkNext
  <2>1. CASE UNCHANGED talkVars
    BY <2>1, TalkStutter
  <2>2. QED
    BY <1>1, <1>2, <1>3, <1>4, <1>5, <1>6, <1>7, <1>10, <2>1
       DEF TalkNext, SetAutoRetain, ReadWindow, ExtractFacts, Retain, talkVars
<1>11. QED
  BY <1>8, <1>9, <1>10 DEF Next, Forget, Restart, vars

(* A message is only there as long as its session is.                      *)
THEOREM MessagesGoWithSession == Spec => []MessagesOfSessions
<1>1. TalkInv => MessagesOfSessions
  BY DEF TalkInv
<1>2. QED
  BY <1>1, TalkInit, TalkStep, PTL DEF Spec

-----------------------------------------------------------------------------
(* What the IDs are told apart by.                                         *)

LEMMA IdsApart ==
  /\ \A s, n, t, k : Episode(s, n) = Episode(t, k) => s = t /\ n = k
  /\ \A s, n, f : Episode(s, n) # Fact(f) /\ Episode(s, n) # Summary(f)
  /\ \A s, n : Episode(s, n)[1] = "episode" /\ Episode(s, n)[2] = s
  /\ \A s, t : SummaryItem(s) = SummaryItem(t) => s = t
  /\ \A s, t, note : SummaryItem(s) # Promoted(t, note)
  /\ \A s : SummaryItem(s) # Unnamed
BY DEF Episode, Fact, Summary, SummaryItem, Promoted, Unnamed

LEMMA SaveStores ==
  ASSUME NEW m, NEW bucket, NEW content, SaveMemory(m, bucket, content)
  PROVE  \A x : x \in DOMAIN mem' <=> Stored(x) \/ x = m
BY DEF SaveMemory, Stored


-----------------------------------------------------------------------------
(* Workflows and the numbers of episodes.                                  *)

FlowFields == {"pc", "session", "turns", "next", "promote", "named", "todo", "promoted", "alone"}

FlowOK ==
  /\ flow = [p \in Flows |-> flow[p]]
  /\ \A p \in Flows :
       \/ flow[p] = Free
       \/ /\ DOMAIN flow[p] = FlowFields
          /\ flow[p].session \in Sessions
          /\ flow[p].next \in Nat

(* A workflow finds the episodes before its next one where it left them.   *)
PrefixStored ==
  \A p \in Flows :
    flow[p].pc = "saving" /\ flow[p].session \notin forgotten =>
      \A k \in 0..MaxTurns - 1 : k < flow[p].next => Stored(Episode(flow[p].session, k))

GapInv == FlowOK /\ PrefixStored /\ EpisodesGapFree

LEMMA GapInit == Init => GapInv
BY DEF Init, StoreInit, FlowInit, GapInv, FlowOK, PrefixStored, EpisodesGapFree, Free, Stored

(* Steps that leave workflows alone and the episodes stored.               *)
LEMMA GapFrame ==
  ASSUME GapInv, UNCHANGED <<flow, forgotten>>,
         \A s, n : Stored(Episode(s, n))' <=> Stored(Episode(s, n))
  PROVE  GapInv'
BY DEF GapInv, FlowOK, PrefixStored, EpisodesGapFree

(* Steps that leave the memories alone and begin no episode.               *)
LEMMA GapFlowOnly ==
  ASSUME GapInv, FlowOK', UNCHANGED <<mem, forgotten>>,
         \A p \in Flows : flow'[p].pc = "saving" =>
           \/ flow'[p].next = 0
           \/ /\ flow[p].pc = "saving"
              /\ flow'[p].session = flow[p].session /\ flow'[p].next = flow[p].next
  PROVE  GapInv'
BY DEF GapInv, PrefixStored, EpisodesGapFree, Stored

LEMMA FlowBegins ==
  ASSUME GapInv, NEW p \in Flows, NEW s \in Sessions, NEW turns, NEW promote, NEW named,
         Begin(p, s, turns, promote, named), UNCHANGED <<mem, forgotten>>
  PROVE  GapInv'
<1>1. FlowOK'
  BY DEF Begin, GapInv, FlowOK, FlowFields, OnSession, Free
<1>2. QED
  BY <1>1, GapFlowOnly DEF Begin, GapInv, FlowOK, FlowFields, OnSession, Free

LEMMA EpisodeSaved ==
  ASSUME GapInv, NEW p \in Flows, SaveEpisode(p), UNCHANGED forgotten
  PROVE  GapInv'
<1> DEFINE f == flow[p]
<1>1. f.pc = "saving" /\ f # Free /\ DOMAIN f = FlowFields /\ f.session \in Sessions /\ f.next \in Nat
  BY DEF SaveEpisode, GapInv, FlowOK, Free
<1>2. CASE SaveFails /\ flow' = [flow EXCEPT ![p] = Free]
  <2>1. FlowOK'
    BY <1>2 DEF GapInv, FlowOK
  <2>2. UNCHANGED mem
    BY <1>2 DEF SaveFails, storeVars
  <2>3. QED
    BY <1>2, <2>1, <2>2, GapFlowOnly DEF GapInv, FlowOK, Free
<1>3. CASE /\ SaveMemory(Episode(f.session, f.next), Bucket(f.session, "assistant"),
                         Exchanges(f.turns)[f.next + 1])
           /\ flow' = [flow EXCEPT ![p] = Saved(@)]
  <2>1. \A x : x \in DOMAIN mem' <=> Stored(x) \/ x = Episode(f.session, f.next)
    BY <1>3, SaveStores
  <2>2. /\ DOMAIN Saved(f) = FlowFields
        /\ Saved(f).session = f.session /\ Saved(f).next = f.next + 1
    BY <1>1 DEF Saved, FlowFields
  <2>3. FlowOK'
    BY <1>1, <1>3, <2>2 DEF GapInv, FlowOK
  <2>4. PrefixStored'
    <3> SUFFICES ASSUME NEW q \in Flows, NEW k \in 0..MaxTurns - 1,
                        flow'[q].pc = "saving", flow'[q].session \notin forgotten,
                        k < flow'[q].next
                 PROVE  Episode(flow'[q].session, k) \in DOMAIN mem'
      BY DEF PrefixStored, Stored
    <3>1. CASE q = p
      <4>1. flow'[q] = Saved(f)
        BY <1>3, <3>1 DEF GapInv, FlowOK
      <4>2. k < f.next => Stored(Episode(f.session, k))
        BY <1>1, <2>2, <4>1 DEF GapInv, PrefixStored
      <4>3. k = f.next \/ k < f.next
        BY <1>1, <2>2, <4>1
      <4>4. QED
        BY <2>1, <2>2, <4>1, <4>2, <4>3 DEF Stored
    <3>2. CASE q # p
      <4>1. flow'[q] = flow[q]
        BY <1>3, <3>2 DEF GapInv, FlowOK
      <4>2. Stored(Episode(flow[q].session, k))
        BY <4>1 DEF GapInv, PrefixStored
      <4>3. QED
        BY <2>1, <4>1, <4>2 DEF Stored
    <3>3. QED
      BY <3>1, <3>2
  <2>5. EpisodesGapFree'
    <3> SUFFICES ASSUME NEW s \in Sessions \ forgotten, NEW n \in 1..MaxTurns - 1,
                        Episode(s, n) \in DOMAIN mem'
                 PROVE  Episode(s, n - 1) \in DOMAIN mem'
      BY DEF EpisodesGapFree, Stored
    <3>1. CASE Stored(Episode(s, n))
      BY <2>1, <3>1 DEF GapInv, EpisodesGapFree
    <3>2. CASE Episode(s, n) = Episode(f.session, f.next)
      <4>1. s = f.session /\ n = f.next
        BY <3>2, IdsApart
      <4>2. n - 1 \in 0..MaxTurns - 1 /\ n - 1 < f.next
        BY <4>1, AgentStoreAssumption
      <4>3. QED
        BY <1>1, <2>1, <4>1, <4>2 DEF GapInv, PrefixStored
    <3>3. QED
      BY <2>1, <3>1, <3>2
  <2>6. QED
    BY <2>3, <2>4, <2>5 DEF GapInv
<1>4. QED
  BY <1>2, <1>3 DEF SaveEpisode

LEMMA FlowMoves ==
  ASSUME GapInv, UNCHANGED <<mem, forgotten>>, NEW p \in Flows, NEW new,
         flow' = [flow EXCEPT ![p] = new], new.pc # "saving",
         \/ new = Free
         \/ DOMAIN new = FlowFields /\ new.session \in Sessions /\ new.next \in Nat
  PROVE  GapInv'
<1>1. FlowOK' /\ \A q \in Flows : flow'[q].pc = "saving" => flow'[q] = flow[q]
  BY DEF GapInv, FlowOK
<1>2. QED
  BY <1>1, GapFlowOnly

LEMMA KnowledgeExtracted ==
  ASSUME GapInv, NEW p \in Flows, ExtractKnowledge(p), UNCHANGED forgotten
  PROVE  GapInv'
<1>1. UNCHANGED mem
  BY DEF ExtractKnowledge, storeVars
<1>2. /\ DOMAIN flow[p] = FlowFields
      /\ flow[p].session \in Sessions /\ flow[p].next \in Nat
  <2>1. flow[p].pc = "extracting"
    BY DEF ExtractKnowledge
  <2>2. QED
    BY <2>1 DEF GapInv, FlowOK, Free
<1>3. CASE flow' = [flow EXCEPT ![p] = Free]
  <2>1. Free.pc # "saving"
    BY DEF Free
  <2>2. QED
    BY <1>1, <1>3, <2>1, FlowMoves
<1>4. ASSUME NEW todo, flow' = [flow EXCEPT ![p].todo = todo,
                        ![p].pc = IF todo = {} THEN "returned" ELSE "promoting"]
      PROVE  GapInv'
  <2> DEFINE new == [flow[p] EXCEPT !.todo = todo,
                       !.pc = IF todo = {} THEN "returned" ELSE "promoting"]
  <2>1. flow' = [flow EXCEPT ![p] = new]
    BY <1>2, <1>4 DEF GapInv, FlowOK
  <2>2. /\ DOMAIN new = FlowFields /\ new.pc # "saving"
        /\ new.session \in Sessions /\ new.next \in Nat
    BY <1>2 DEF FlowFields
  <2> HIDE DEF new
  <2>3. QED
    BY <1>1, <2>1, <2>2, FlowMoves
<1>5. QED
  BY <1>3, <1>4 DEF ExtractKnowledge

LEMMA CandidatePromoted ==
  ASSUME GapInv, NEW p \in Flows, NEW i, Promote(p, i), UNCHANGED forgotten
  PROVE  GapInv'
<1>1. UNCHANGED mem
  BY DEF Promote, SaveFails, storeVars
<1>2. /\ DOMAIN flow[p] = FlowFields
      /\ flow[p].session \in Sessions /\ flow[p].next \in Nat
  BY DEF Promote, GapInv, FlowOK, Free
<1> DEFINE dealt == Dealt(flow[p], i)
           told == [dealt EXCEPT !.promoted = @ \cup {i}]
<1>3. /\ DOMAIN dealt = FlowFields /\ dealt.pc # "saving"
      /\ dealt.session \in Sessions /\ dealt.next \in Nat
  BY <1>2 DEF Dealt, FlowFields
<1>4. flow' = [flow EXCEPT ![p] = dealt] \/ flow' = [flow EXCEPT ![p] = told]
  BY DEF Promote
<1> HIDE DEF dealt
<1>5. /\ DOMAIN told = FlowFields /\ told.pc # "saving"
      /\ told.session \in Sessions /\ told.next \in Nat
  BY <1>3 DEF FlowFields
<1> HIDE DEF told
<1>6. QED
  BY <1>1, <1>3, <1>4, <1>5, FlowMoves

LEMMA MemoryForgotten ==
  ASSUME GapInv, NEW m, Forget(m)
  PROVE  GapInv'
<1>1. \A x : Stored(x)' <=> Stored(x) /\ x # m
  BY DEF Forget, DeleteMemory, Stored, Restrict
<1>2. CASE m[1] = "episode"
  <2>1. /\ forgotten' = forgotten \cup {m[2]}
        /\ flow' = [p \in Flows |-> IF OnSession(p, m[2])
                                    THEN [flow[p] EXCEPT !.alone = FALSE] ELSE flow[p]]
    BY <1>2 DEF Forget
  <2>2. FlowOK'
    BY <2>1 DEF GapInv, FlowOK, FlowFields, OnSession
  <2>3. \A s, n : s \notin forgotten' => (Stored(Episode(s, n))' <=> Stored(Episode(s, n)))
    BY <1>1, <2>1, IdsApart
  <2>4. \A p \in Flows : /\ flow'[p].pc = flow[p].pc
                         /\ flow[p].pc = "saving" => /\ flow'[p].session = flow[p].session
                                                     /\ flow'[p].next = flow[p].next
    BY <2>1 DEF GapInv, FlowOK, FlowFields, OnSession, Free
  <2>5. QED
    BY <2>1, <2>2, <2>3, <2>4 DEF GapInv, PrefixStored, EpisodesGapFree
<1>3. CASE m[1] # "episode"
  <2>1. UNCHANGED <<flow, forgotten>>
    BY <1>3 DEF Forget
  <2>2. QED
    BY <1>1, <1>3, <2>1, IdsApart, GapFrame
<1>4. QED
  BY <1>2, <1>3

LEMMA OtherSaved ==
  ASSUME GapInv, UNCHANGED <<flow, forgotten>>, NEW m, NEW bucket, NEW content,
         SaveMemory(m, bucket, content), \A s, n : m # Episode(s, n)
  PROVE  GapInv'
BY SaveStores, GapFrame DEF Stored

LEMMA GapStutter == GapInv /\ UNCHANGED <<mem, flow, forgotten>> => GapInv'
BY GapFrame DEF Stored

LEMMA GapStep == GapInv /\ [Next]_vars => GapInv'
<1> SUFFICES ASSUME GapInv, [Next]_vars PROVE GapInv'
  OBVIOUS
<1>1. CASE TalkNext /\ UNCHANGED <<flow, forgotten>>
  <2>1. ASSUME NEW j \in jobs, NEW f \in j.todo, Retain(j, f) PROVE GapInv'
    BY <1>1, <2>1, OtherSaved, GapStutter, IdsApart DEF Retain, SaveFails, storeVars
  <2>2. QED
    BY <1>1, <2>1, GapStutter DEF TalkNext, storeVars
<1>2. CASE FlowNext /\ UNCHANGED forgotten
  <2>1. ASSUME NEW p \in Flows, NEW s \in Sessions, NEW t \in Transcripts,
               IngestTranscript(p, s, t)
        PROVE  GapInv'
    BY <1>2, <2>1, FlowBegins DEF IngestTranscript, storeVars
  <2>2. ASSUME NEW p \in Flows, NEW s \in Sessions, NEW t \in Transcripts,
               NEW named \in BOOLEAN, CloseSession(p, s, t, named)
        PROVE  GapInv'
    BY <1>2, <2>2, FlowBegins DEF CloseSession, storeVars
  <2>3. QED
    BY <1>2, <2>1, <2>2, EpisodeSaved, CandidatePromoted, KnowledgeExtracted DEF FlowNext
<1>3. CASE KeeperNext /\ UNCHANGED <<flow, forgotten>>
  <2>1. ASSUME NEW p \in Keepers, Remember(p) PROVE GapInv'
    BY <1>3, <2>1, OtherSaved, GapStutter, IdsApart DEF Remember, SaveFails, storeVars
  <2>2. QED
    BY <1>3, <2>1, GapStutter DEF KeeperNext, Consolidate, RecallMemories, Reflect,
       PromoteSummary, SaveFails, storeVars
<1>4. ASSUME NEW m \in MemoryIds, Forget(m) PROVE GapInv'
  BY <1>4, MemoryForgotten
<1>5. CASE Restart
  <2>1. FlowOK'
    BY <1>5 DEF Restart, FlowRestart, FlowOK
  <2>2. QED
    BY <1>5, <2>1, GapFlowOnly DEF Restart, FlowRestart, Free, storeVars
<1>6. CASE UNCHANGED vars
  BY <1>6, GapStutter DEF vars, storeVars
<1>7. QED
  BY <1>1, <1>2, <1>3, <1>4, <1>5, <1>6 DEF Next

(* The episodes of a session are numbered without a gap as long as nobody  *)
(* deletes one, whatever ingestions fail, repeat, overlap or are cut off.  *)
THEOREM EpisodesHaveNoGap == Spec => []EpisodesGapFree
<1>1. GapInv => EpisodesGapFree
  BY DEF GapInv
<1>2. QED
  BY <1>1, GapInit, GapStep, PTL DEF Spec

-----------------------------------------------------------------------------
(* Consolidation: memory first, knowledge second.                          *)

KeepFields == {"pc", "req", "hits", "summary"}

KeepOK ==
  /\ keep = [p \in Keepers |-> keep[p]]
  /\ \A p \in Keepers : keep[p] = Resting \/ DOMAIN keep[p] = KeepFields

(* A call that is about to promote a summary has saved it as a memory.     *)
PromoteReady ==
  \A p \in Keepers :
    keep[p].pc = "promote" => <<keep[p].req.session, keep[p].summary>> \in remembered

RememberInv ==
  /\ know = [k \in KnowledgeIds |-> know[k]]
  /\ KeepOK
  /\ PromoteReady
  /\ PromotedRemembered

LEMMA RememberInit == Init => RememberInv
BY DEF Init, StoreInit, KeeperInit, RememberInv, KeepOK, PromoteReady, PromotedRemembered,
   Resting, KnowledgeIds

LEMMA RememberStutter ==
  RememberInv /\ UNCHANGED <<know, keeperVars>> => RememberInv'
BY DEF RememberInv, KeepOK, PromoteReady, PromotedRemembered, keeperVars

(* A caller whose record becomes one that is not about to promote.         *)
LEMMA KeeperMoves ==
  ASSUME RememberInv, UNCHANGED know, NEW p \in Keepers, NEW new,
         keep' = [keep EXCEPT ![p] = new], remembered \subseteq remembered',
         new = Resting \/ DOMAIN new = KeepFields,
         new.pc = "promote" => <<new.req.session, new.summary>> \in remembered'
  PROVE  RememberInv'
<1>1. KeepOK' /\ \A q \in Keepers : q # p => keep'[q] = keep[q]
  BY DEF RememberInv, KeepOK
<1>2. keep'[p] = new
  BY DEF RememberInv, KeepOK
<1>3. QED
  BY <1>1, <1>2 DEF RememberInv, PromoteReady, PromotedRemembered

LEMMA CandidatesApart ==
  ASSUME RememberInv, NEW p \in Flows, NEW i, Promote(p, i), UNCHANGED keeperVars
  PROVE  RememberInv'
<1>1. CASE UNCHANGED know
  BY <1>1, RememberStutter
<1>2. CASE SaveKnowledge(CandidateID(flow[p], i), <<flow[p].turns[i].note>>)
  <2>1. \A s : CandidateID(flow[p], i) # SummaryItem(s)
    BY IdsApart DEF CandidateID
  <2>2. \A s : know'[SummaryItem(s)] = know[SummaryItem(s)]
    BY <1>2, <2>1 DEF SaveKnowledge, RememberInv
  <2>3. know' = [k \in KnowledgeIds |-> know'[k]]
    BY <1>2 DEF SaveKnowledge, RememberInv
  <2>4. QED
    BY <2>2, <2>3 DEF RememberInv, KeepOK, PromoteReady, PromotedRemembered, keeperVars
<1>3. QED
  BY <1>1, <1>2 DEF Promote, SaveFails, storeVars

LEMMA KeeperCalls ==
  ASSUME RememberInv, NEW p \in Keepers, NEW r \in Requests, Consolidate(p, r)
  PROVE  RememberInv'
<1> DEFINE new == [pc |-> "recall", req |-> r, hits |-> {}, summary |-> NoSummary]
<1>1. DOMAIN new = KeepFields /\ new.pc # "promote"
  BY DEF KeepFields
<1>2. keep' = [keep EXCEPT ![p] = new] /\ UNCHANGED <<know, remembered>>
  BY DEF Consolidate, storeVars
<1> HIDE DEF new
<1>3. QED
  BY <1>1, <1>2, KeeperMoves

LEMMA KeeperRecalls ==
  ASSUME RememberInv, NEW p \in Keepers, RecallMemories(p)
  PROVE  RememberInv'
<1>1. DOMAIN keep[p] = KeepFields
  BY DEF RecallMemories, RememberInv, KeepOK, Resting
<1>2. ASSUME NEW found, keep' = [keep EXCEPT ![p].pc = "reflect", ![p].hits = found]
      PROVE  RememberInv'
  <2> DEFINE new == [keep[p] EXCEPT !.pc = "reflect", !.hits = found]
  <2>1. keep' = [keep EXCEPT ![p] = new] /\ UNCHANGED <<know, remembered>>
    BY <1>2 DEF RecallMemories, storeVars, RememberInv, KeepOK
  <2>2. DOMAIN new = KeepFields /\ new.pc # "promote"
    BY <1>1 DEF KeepFields
  <2> HIDE DEF new
  <2>3. QED
    BY <2>1, <2>2, KeeperMoves
<1>3. QED
  BY <1>2 DEF RecallMemories

LEMMA KeeperReflects ==
  ASSUME RememberInv, NEW p \in Keepers, Reflect(p)
  PROVE  RememberInv'
<1>1. DOMAIN keep[p] = KeepFields /\ UNCHANGED <<know, remembered>>
  BY DEF Reflect, RememberInv, KeepOK, Resting, storeVars
<1>2. ASSUME NEW summary,
             keep' = [keep EXCEPT ![p] =
                        IF summary.facts = {} THEN Resting
                        ELSE [@ EXCEPT !.pc = "remember", !.summary = summary]]
      PROVE  RememberInv'
  <2> DEFINE new == [keep[p] EXCEPT !.pc = "remember", !.summary = summary]
  <2>1. DOMAIN new = KeepFields /\ new.pc # "promote"
    BY <1>1 DEF KeepFields
  <2>2. keep' = [keep EXCEPT ![p] = Resting] \/ keep' = [keep EXCEPT ![p] = new]
    BY <1>2
  <2>3. Resting.pc # "promote"
    BY DEF Resting
  <2> HIDE DEF new
  <2>4. QED
    BY <1>1, <2>1, <2>2, <2>3, KeeperMoves
<1>3. QED
  BY <1>2 DEF Reflect

LEMMA KeeperRemembers ==
  ASSUME RememberInv, NEW p \in Keepers, Remember(p)
  PROVE  RememberInv'
<1> DEFINE k == keep[p]
           new == IF k.req.promote THEN [k EXCEPT !.pc = "promote"] ELSE Resting
<1>1. DOMAIN k = KeepFields /\ UNCHANGED know
  BY DEF Remember, RememberInv, KeepOK, Resting, SaveFails, storeVars
<1>2. Resting.pc # "promote"
  BY DEF Resting
<1>3. CASE keep' = [keep EXCEPT ![p] = Resting] /\ UNCHANGED remembered
  BY <1>1, <1>2, <1>3, KeeperMoves
<1>4. CASE /\ remembered' = remembered \cup {<<k.req.session, k.summary>>}
           /\ keep' = [keep EXCEPT ![p] = new]
  <2>1. new = Resting \/ DOMAIN new = KeepFields
    BY <1>1
  <2>2. new.pc = "promote" => <<new.req.session, new.summary>> \in remembered'
    BY <1>1, <1>2, <1>4 DEF KeepFields
  <2> HIDE DEF new
  <2>3. QED
    BY <1>1, <1>4, <2>1, <2>2, KeeperMoves
<1>5. QED
  BY <1>3, <1>4 DEF Remember

LEMMA KeeperPromotes ==
  ASSUME RememberInv, NEW p \in Keepers, PromoteSummary(p)
  PROVE  RememberInv'
<1> DEFINE k == keep[p]
<1>1. /\ k.pc = "promote" /\ keep' = [keep EXCEPT ![p] = Resting]
      /\ UNCHANGED remembered
  BY DEF PromoteSummary
<1>2. Resting.pc # "promote"
  BY DEF Resting
<1>3. CASE UNCHANGED know
  BY <1>1, <1>2, <1>3, KeeperMoves
<1>4. CASE SaveKnowledge(SummaryItem(k.req.session), k.summary)
  <2>1. <<k.req.session, k.summary>> \in remembered
    BY <1>1 DEF RememberInv, PromoteReady
  <2>2. \A s \in Sessions \cup {NoSession} :
          \/ know'[SummaryItem(s)] = know[SummaryItem(s)]
          \/ s = k.req.session /\ know'[SummaryItem(s)] = k.summary
    BY <1>4, IdsApart DEF SaveKnowledge, RememberInv, KnowledgeIds
  <2>3. PromotedRemembered'
    BY <1>1, <2>1, <2>2 DEF RememberInv, PromotedRemembered
  <2>4. know' = [x \in KnowledgeIds |-> know'[x]]
    BY <1>4 DEF SaveKnowledge, RememberInv
  <2>5. KeepOK' /\ PromoteReady'
    BY <1>1, <1>2 DEF RememberInv, KeepOK, PromoteReady
  <2>6. QED
    BY <2>3, <2>4, <2>5 DEF RememberInv
<1>5. QED
  BY <1>3, <1>4 DEF PromoteSummary, SaveFails, storeVars

LEMMA RememberStep == RememberInv /\ [Next]_vars => RememberInv'
<1> SUFFICES ASSUME RememberInv, [Next]_vars PROVE RememberInv'
  OBVIOUS
<1>1. CASE TalkNext /\ UNCHANGED keeperVars
  BY <1>1, RememberStutter DEF TalkNext, Retain, SaveFails, storeVars
<1>2. CASE FlowNext /\ UNCHANGED keeperVars
  <2>1. CASE UNCHANGED know
    BY <1>2, <2>1, RememberStutter
  <2>2. QED
    BY <1>2, <2>1, CandidatesApart
       DEF FlowNext, IngestTranscript, CloseSession, SaveEpisode, ExtractKnowledge,
           SaveFails, storeVars
<1>3. CASE KeeperNext
  BY <1>3, KeeperCalls, KeeperRecalls, KeeperReflects, KeeperRemembers, KeeperPromotes
     DEF KeeperNext
<1>4. ASSUME NEW m \in MemoryIds, Forget(m) PROVE RememberInv'
  BY <1>4, RememberStutter DEF Forget
<1>5. CASE Restart
  BY <1>5 DEF Restart, KeeperRestart, storeVars, RememberInv, KeepOK, PromoteReady,
     PromotedRemembered, Resting
<1>6. CASE UNCHANGED vars
  BY <1>6, RememberStutter DEF vars, storeVars
<1>7. QED
  BY <1>1, <1>2, <1>3, <1>4, <1>5, <1>6 DEF Next

(* What is promoted as the summary of a session was remembered before,     *)
(* whatever fails between the two saves and however calls overlap.         *)
THEOREM PromotedWasRemembered == Spec => []PromotedRemembered
<1>1. RememberInv => PromotedRemembered
  BY DEF RememberInv
<1>2. QED
  BY <1>1, RememberInit, RememberStep, PTL DEF Spec

-----------------------------------------------------------------------------
(* Workflows that are alone on their session.                              *)

FlowShapes ==
  /\ FlowOK
  /\ \A p \in Flows : flow[p] # Free =>
       /\ flow[p].pc \in {"saving", "extracting", "promoting", "returned"}
       /\ flow[p].alone \in BOOLEAN

(* Nobody else is at work on the session of a workflow that is alone.      *)
Works(f, s) == f # Free /\ f.session = s /\ f.pc \notin {"idle", "returned"}

AloneApart ==
  \A p, q \in Flows :
    flow[p] # Free /\ flow[p].alone /\ q # p => ~Works(flow[q], flow[p].session)

(* What a workflow may still promote was proposed with a note, and it has  *)
(* promoted nothing before it has looked.                                  *)
PromotionsGoOn ==
  \A p \in Flows : flow[p] # Free =>
    /\ \A i \in flow[p].todo : flow[p].turns[i].note \in Notes
    /\ flow[p].pc \in {"saving", "extracting"} => flow[p].promoted = {}

PromoteInv ==
  /\ know = [k \in KnowledgeIds |-> know[k]]
  /\ FlowShapes /\ AloneApart /\ PromotionsGoOn /\ PromotionsKept

LEMMA PromoteInit == Init => PromoteInv
BY DEF Init, StoreInit, FlowInit, PromoteInv, FlowShapes, FlowOK, AloneApart, PromotionsGoOn,
   PromotionsKept, Free

LEMMA PromoteStutter == PromoteInv /\ UNCHANGED <<know, flow>> => PromoteInv'
BY DEF PromoteInv, FlowShapes, FlowOK, AloneApart, PromotionsGoOn, PromotionsKept

(* A workflow that goes on, or drops out, disturbs nobody.                 *)
LEMMA FlowGoesOn ==
  ASSUME FlowShapes, AloneApart, NEW p \in Flows, NEW new, flow' = [flow EXCEPT ![p] = new],
         \/ new = Free
         \/ /\ flow[p].pc \notin {"idle", "returned"}
            /\ DOMAIN new = FlowFields /\ new.session = flow[p].session
            /\ new.alone = flow[p].alone /\ new.next \in Nat
            /\ new.pc \in {"saving", "extracting", "promoting", "returned"}
  PROVE  FlowShapes' /\ AloneApart'
<1>1. /\ flow' = [q \in Flows |-> flow'[q]] /\ flow'[p] = new
      /\ \A q \in Flows : q # p => flow'[q] = flow[q]
  BY DEF FlowShapes, FlowOK
<1>2. flow[p].pc \notin {"idle", "returned"} => flow[p] # Free
  BY DEF Free
<1>3. FlowShapes'
  BY <1>1, <1>2 DEF FlowShapes, FlowOK
<1>4. \A q \in Flows : \A s : Works(flow'[q], s) => Works(flow[q], s)
  BY <1>1, <1>2 DEF Works
<1>5. \A q \in Flows : flow'[q] # Free =>
        flow[q] # Free /\ flow'[q].alone = flow[q].alone /\ flow'[q].session = flow[q].session
  BY <1>1, <1>2
<1>6. AloneApart'
  BY <1>4, <1>5 DEF AloneApart
<1> QED BY <1>3, <1>6

(* What others say of a workflow on the session where somebody begins one, *)
(* or deletes an episode: it is not alone any more, and else as it was.    *)
NotAlone(f, g) ==
  /\ f # Free /\ g # Free /\ g.alone = FALSE /\ DOMAIN g = FlowFields
  /\ g.pc = f.pc /\ g.session = f.session /\ g.next = f.next
  /\ g.turns = f.turns /\ g.todo = f.todo /\ g.promoted = f.promoted

LEMMA AloneNoMore ==
  ASSUME FlowShapes, NEW q \in Flows, NEW s, OnSession(q, s),
         flow'[q] = [flow[q] EXCEPT !.alone = FALSE]
  PROVE  NotAlone(flow[q], flow'[q])
BY DEF FlowShapes, FlowOK, FlowFields, OnSession, NotAlone, Free

LEMMA FlowBegun ==
  ASSUME FlowShapes, AloneApart, NEW p \in Flows, NEW s \in Sessions, NEW turns, NEW promote,
         NEW named, Begin(p, s, turns, promote, named), ~Busy(p)
  PROVE  FlowShapes' /\ AloneApart'
<1> DEFINE new == [pc |-> "saving", session |-> s, turns |-> turns, next |-> 0,
                   promote |-> promote, named |-> named, todo |-> {}, promoted |-> {},
                   alone |-> \A o \in Flows \ {p} : ~(OnSession(o, s) /\ Busy(o))]
<1>1. /\ flow' = [q \in Flows |-> flow'[q]] /\ flow'[p] = new
      /\ \A q \in Flows : q # p =>
           flow'[q] = IF OnSession(q, s) THEN [flow[q] EXCEPT !.alone = FALSE] ELSE flow[q]
  BY DEF Begin
<1>2. /\ DOMAIN new = FlowFields /\ new.session = s /\ new.next = 0 /\ new.pc = "saving"
      /\ new.alone \in BOOLEAN /\ new # Free
  BY DEF FlowFields, Free
<1>3. new.alone => \A o \in Flows : o # p => ~Works(flow[o], s)
  BY DEF Works, OnSession, Busy
<1> HIDE DEF new
<1>4. \A q \in Flows : q # p =>
        IF OnSession(q, s) THEN NotAlone(flow[q], flow'[q]) ELSE flow'[q] = flow[q]
  BY <1>1, AloneNoMore
<1>5. FlowShapes'
  <2>1. ASSUME NEW q \in Flows, flow'[q] # Free
        PROVE  /\ DOMAIN flow'[q] = FlowFields
               /\ flow'[q].session \in Sessions /\ flow'[q].next \in Nat
               /\ flow'[q].pc \in {"saving", "extracting", "promoting", "returned"}
               /\ flow'[q].alone \in BOOLEAN
    <3>1. CASE q = p
      BY <1>1, <1>2, <3>1
    <3>2. CASE q # p
      BY <1>4, <2>1, <3>2 DEF FlowShapes, FlowOK, NotAlone
    <3> QED BY <3>1, <3>2
  <2> QED BY <1>1, <2>1 DEF FlowShapes, FlowOK
<1>6. \A q \in Flows : q # p => \A t : Works(flow'[q], t) <=> Works(flow[q], t)
  BY <1>4 DEF Works, NotAlone
<1>7. ASSUME NEW q \in Flows, NEW o \in Flows, flow'[q] # Free, flow'[q].alone, o # q
      PROVE  ~Works(flow'[o], flow'[q].session)
  <2>1. CASE q = p
    BY <1>1, <1>2, <1>3, <1>6, <1>7, <2>1
  <2>2. CASE q # p
    <3>1. ~OnSession(q, s) /\ flow'[q] = flow[q]
      BY <1>4, <1>7, <2>2 DEF NotAlone
    <3>2. CASE o = p
      BY <1>1, <1>2, <1>7, <3>1, <3>2 DEF OnSession, Works
    <3>3. CASE o # p
      <4>1. ~Works(flow[o], flow[q].session)
        BY <1>7, <3>1 DEF AloneApart
      <4> QED BY <1>6, <3>1, <3>3, <4>1
    <3> QED BY <3>2, <3>3
  <2> QED BY <2>1, <2>2
<1>8. AloneApart'
  BY <1>7 DEF AloneApart
<1> QED BY <1>5, <1>8

(* An episode that somebody deletes ends the claim of its session's flows. *)
LEMMA FlowForgets ==
  ASSUME FlowShapes, AloneApart, NEW s,
         flow' = [p \in Flows |-> IF OnSession(p, s)
                                  THEN [flow[p] EXCEPT !.alone = FALSE] ELSE flow[p]]
  PROVE  /\ FlowShapes' /\ AloneApart'
         /\ \A q \in Flows :
              IF OnSession(q, s) THEN NotAlone(flow[q], flow'[q]) ELSE flow'[q] = flow[q]
<1>1. \A q \in Flows :
        IF OnSession(q, s) THEN NotAlone(flow[q], flow'[q]) ELSE flow'[q] = flow[q]
  BY AloneNoMore
<1>2. FlowShapes'
  <2>1. ASSUME NEW q \in Flows, flow'[q] # Free
        PROVE  /\ DOMAIN flow'[q] = FlowFields
               /\ flow'[q].session \in Sessions /\ flow'[q].next \in Nat
               /\ flow'[q].pc \in {"saving", "extracting", "promoting", "returned"}
               /\ flow'[q].alone \in BOOLEAN
    BY <1>1, <2>1 DEF FlowShapes, FlowOK, NotAlone
  <2> QED BY <2>1 DEF FlowShapes, FlowOK
<1>3. \A q \in Flows : \A t : Works(flow'[q], t) <=> Works(flow[q], t)
  BY <1>1 DEF Works, NotAlone
<1>4. AloneApart'
  BY <1>1, <1>3 DEF AloneApart, NotAlone
<1> QED BY <1>1, <1>2, <1>4

-----------------------------------------------------------------------------
(* Each action keeps what a workflow that is alone has promoted.           *)

LEMMA PromotedIDs ==
  ASSUME NEW f, f.session \in Sessions, NEW i, f.turns[i].note \in Notes
  PROVE  CandidateID(f, i) \in KnowledgeIds
BY DEF CandidateID, KnowledgeIds

(* Nothing changes for the reports as long as the collection and the       *)
(* workflows that are alone stay as they are.                              *)
LEMMA KeptByTheSame ==
  ASSUME PromotionsKept, UNCHANGED know,
         \A q \in Flows : flow'[q].pc \in {"promoting", "returned"} /\ flow'[q].alone =>
           flow'[q] = flow[q]
  PROVE  PromotionsKept'
<1> SUFFICES ASSUME NEW q \in Flows, flow'[q].pc \in {"promoting", "returned"}, flow'[q].alone,
                    NEW i \in flow'[q].promoted, CandidateID(flow'[q], i) # Unnamed
             PROVE  know[CandidateID(flow'[q], i)] = <<flow'[q].turns[i].note>>
  BY DEF PromotionsKept
<1> DEFINE g == flow'[q]
<1>1. flow[q] = g
  OBVIOUS
<1> HIDE DEF g
<1>2. g.pc \in {"promoting", "returned"} /\ g.alone /\ i \in g.promoted /\ CandidateID(g, i) # Unnamed
  BY DEF g
<1>3. know[CandidateID(g, i)] = <<g.turns[i].note>>
  BY <1>1, <1>2 DEF PromotionsKept
<1> QED BY <1>3 DEF g

LEMMA PromoteBegins ==
  ASSUME PromoteInv, NEW p \in Flows, NEW s \in Sessions, NEW turns, NEW promote,
         NEW named, Begin(p, s, turns, promote, named), ~Busy(p), UNCHANGED know
  PROVE  PromoteInv'
<1>1. FlowShapes' /\ AloneApart'
  BY FlowBegun DEF PromoteInv
<1>2. flow'[p].todo = {} /\ flow'[p].promoted = {} /\ flow'[p].pc = "saving"
  BY DEF Begin
<1>3. \A q \in Flows : q # p =>
        IF OnSession(q, s) THEN NotAlone(flow[q], flow'[q]) ELSE flow'[q] = flow[q]
  BY AloneNoMore DEF Begin, PromoteInv
<1>4. PromotionsGoOn'
  BY <1>2, <1>3 DEF PromoteInv, PromotionsGoOn, NotAlone
<1>5. \A q \in Flows : flow'[q].pc \in {"promoting", "returned"} /\ flow'[q].alone =>
        flow'[q] = flow[q]
  BY <1>2, <1>3 DEF NotAlone
<1>6. PromotionsKept'
  BY <1>5, KeptByTheSame DEF PromoteInv
<1> QED BY <1>1, <1>4, <1>6 DEF PromoteInv

(* A workflow goes on without touching the collection or what it reported. *)
LEMMA PromoteGoesOn ==
  ASSUME PromoteInv, UNCHANGED know, NEW p \in Flows, NEW new, flow' = [flow EXCEPT ![p] = new],
         \/ new = Free
         \/ /\ flow[p].pc \notin {"idle", "returned"}
            /\ DOMAIN new = FlowFields /\ new.session = flow[p].session
            /\ new.alone = flow[p].alone /\ new.next \in Nat
            /\ new.pc \in {"saving", "extracting", "promoting", "returned"}
            /\ new.promoted = flow[p].promoted /\ new.turns = flow[p].turns
            /\ new.named = flow[p].named
            /\ \A i \in new.todo : new.turns[i].note \in Notes
            /\ new.pc \in {"saving", "extracting"} => flow[p].pc \in {"saving", "extracting"}
  PROVE  PromoteInv'
<1>1. FlowShapes' /\ AloneApart'
  BY FlowGoesOn DEF PromoteInv
<1>2. flow'[p] = new /\ \A q \in Flows : q # p => flow'[q] = flow[q]
  BY DEF PromoteInv, FlowShapes, FlowOK
<1>3. flow[p].pc \notin {"idle", "returned"} => flow[p] # Free
  BY DEF Free
<1>4. PromotionsGoOn'
  BY <1>2, <1>3 DEF PromoteInv, PromotionsGoOn
<1>5. PromotionsKept'
  <2> SUFFICES ASSUME NEW q \in Flows, flow'[q].pc \in {"promoting", "returned"}, flow'[q].alone,
                      NEW i \in flow'[q].promoted, CandidateID(flow'[q], i) # Unnamed
               PROVE  know[CandidateID(flow'[q], i)] = <<flow'[q].turns[i].note>>
    BY DEF PromotionsKept
  <2>1. CASE q # p
    <3>1. flow[q] = flow'[q]
      BY <1>2, <2>1
    <3> DEFINE g == flow'[q]
    <3>2. /\ flow[q] = g /\ g.pc \in {"promoting", "returned"} /\ g.alone
          /\ i \in g.promoted /\ CandidateID(g, i) # Unnamed
      BY <3>1
    <3> HIDE DEF g
    <3>3. know[CandidateID(g, i)] = <<g.turns[i].note>>
      BY <3>2 DEF PromoteInv, PromotionsKept
    <3> QED BY <3>3 DEF g
  <2>2. CASE q = p
    <3>1. new # Free
      BY <1>2, <2>2 DEF Free
    <3>2. flow[p].pc \in {"promoting", "returned"}
      BY <1>2, <1>3, <2>2, <3>1 DEF PromoteInv, PromotionsGoOn, FlowShapes
    <3>3. CandidateID(flow'[q], i) = CandidateID(flow[q], i)
      BY <1>2, <2>2, <3>1 DEF CandidateID
    <3> QED BY SMTT(60), <1>2, <2>2, <3>1, <3>2, <3>3 DEF PromoteInv, PromotionsKept
  <2> QED BY <2>1, <2>2
<1> QED BY <1>1, <1>4, <1>5 DEF PromoteInv

LEMMA PromotePromotes ==
  ASSUME PromoteInv, NEW p \in Flows, NEW i, Promote(p, i)
  PROVE  PromoteInv'
<1> DEFINE f == flow[p]
           dealt == Dealt(f, i)
           told == [dealt EXCEPT !.promoted = @ \cup {i}]
<1>1. /\ f.pc = "promoting" /\ f # Free /\ DOMAIN f = FlowFields /\ f.session \in Sessions
      /\ f.next \in Nat /\ i \in f.todo
  BY DEF Promote, NextCandidate, PromoteInv, FlowShapes, FlowOK, Free
<1>2. \A j \in f.todo : f.turns[j].note \in Notes
  BY <1>1 DEF PromoteInv, PromotionsGoOn
<1>3. /\ DOMAIN dealt = FlowFields /\ dealt.session = f.session /\ dealt.alone = f.alone
      /\ dealt.next = f.next /\ dealt.pc \in {"promoting", "returned"}
      /\ dealt.promoted = f.promoted /\ dealt.turns = f.turns /\ dealt.named = f.named
      /\ dealt.todo \subseteq f.todo
  BY <1>1 DEF Dealt, FlowFields
<1>4. CASE SaveFails /\ flow' = [flow EXCEPT ![p] = dealt]
  <2>1. UNCHANGED know
    BY <1>4 DEF SaveFails, storeVars
  <2> HIDE DEF dealt
  <2> QED BY <1>1, <1>2, <1>3, <1>4, <2>1, PromoteGoesOn
<1>5. CASE /\ SaveKnowledge(CandidateID(f, i), <<f.turns[i].note>>)
           /\ flow' = [flow EXCEPT ![p] = told]
  <2> HIDE DEF dealt
  <2>1. /\ DOMAIN told = FlowFields /\ told.session = f.session /\ told.alone = f.alone
        /\ told.next = f.next /\ told.pc \in {"promoting", "returned"}
        /\ told.promoted = f.promoted \cup {i} /\ told.turns = f.turns /\ told.named = f.named
        /\ told.todo \subseteq f.todo
    BY <1>3 DEF FlowFields
  <2> HIDE DEF told
  <2>2. FlowShapes' /\ AloneApart'
    BY <1>1, <1>5, <2>1, FlowGoesOn DEF PromoteInv
  <2>3. flow'[p] = told /\ \A q \in Flows : q # p => flow'[q] = flow[q]
    BY <1>5 DEF PromoteInv, FlowShapes, FlowOK
  <2>4. PromotionsGoOn'
    BY <1>1, <1>2, <2>1, <2>3 DEF PromoteInv, PromotionsGoOn
  <2>5. CandidateID(f, i) \in KnowledgeIds
    BY <1>1, <1>2, PromotedIDs
  <2>6. /\ know' = [k \in KnowledgeIds |-> know'[k]]
        /\ know'[CandidateID(f, i)] = <<f.turns[i].note>>
        /\ \A k : k # CandidateID(f, i) => know'[k] = know[k]
    BY <1>5, <2>5 DEF SaveKnowledge, PromoteInv
  <2>7. PromotionsKept'
    <3> SUFFICES ASSUME NEW q \in Flows, flow'[q].pc \in {"promoting", "returned"},
                        flow'[q].alone, NEW j \in flow'[q].promoted,
                        CandidateID(flow'[q], j) # Unnamed
                 PROVE  know'[CandidateID(flow'[q], j)] = <<flow'[q].turns[j].note>>
      BY DEF PromotionsKept
    <3>1. CASE q # p
      <4>1. flow'[q] = flow[q] /\ flow[q] # Free
        BY <2>3, <3>1 DEF Free
      <4>2. flow[q].session # f.session
        BY <1>1, <3>1, <4>1 DEF PromoteInv, AloneApart, Works
      <4>3. CandidateID(flow[q], j) # CandidateID(f, i)
        BY <4>1, <4>2 DEF CandidateID, Promoted, Unnamed
      <4>4. know[CandidateID(flow[q], j)] = <<flow[q].turns[j].note>>
        BY <4>1 DEF PromoteInv, PromotionsKept
      <4> QED BY <2>6, <4>1, <4>3, <4>4
    <3>2. CASE q = p
      <4>1. CandidateID(told, j) = CandidateID(f, j) /\ flow'[q] = told
        BY <2>1, <2>3, <3>2 DEF CandidateID
      <4>2. CASE CandidateID(f, j) = CandidateID(f, i)
        <5>1. f.turns[j].note = f.turns[i].note
          BY <4>1, <4>2 DEF CandidateID, Promoted
        <5> QED BY <2>1, <2>6, <4>1, <4>2, <5>1
      <4>3. CASE CandidateID(f, j) # CandidateID(f, i)
        <5>1. j \in f.promoted
          BY <2>1, <4>1, <4>3
        <5>2. know[CandidateID(f, j)] = <<f.turns[j].note>>
          BY <1>1, <2>1, <4>1, <5>1 DEF PromoteInv, PromotionsKept
        <5> QED BY <2>1, <2>6, <4>1, <4>3, <5>2
      <4> QED BY <4>2, <4>3
    <3> QED BY <3>1, <3>2
  <2> QED BY <2>2, <2>4, <2>6, <2>7 DEF PromoteInv
<1> QED BY <1>4, <1>5 DEF Promote

LEMMA PromoteSaves ==
  ASSUME PromoteInv, NEW p \in Flows, SaveEpisode(p)
  PROVE  PromoteInv'
<1> DEFINE f == flow[p]  new == Saved(f)
<1>1. /\ f.pc = "saving" /\ f # Free /\ DOMAIN f = FlowFields /\ f.session \in Sessions
      /\ f.next \in Nat
  BY DEF SaveEpisode, PromoteInv, FlowShapes, FlowOK, Free
<1>2. UNCHANGED know
  BY DEF SaveEpisode, SaveFails, storeVars
<1>3. flow' = [flow EXCEPT ![p] = new] \/ flow' = [flow EXCEPT ![p] = Free]
  BY DEF SaveEpisode
<1>4. /\ DOMAIN new = FlowFields /\ new.session = f.session /\ new.alone = f.alone
      /\ new.next \in Nat /\ new.pc \in {"saving", "extracting", "returned"}
      /\ new.promoted = f.promoted /\ new.turns = f.turns /\ new.named = f.named
      /\ new.todo = f.todo
  BY <1>1 DEF Saved, FlowFields
<1>5. \A i \in f.todo : f.turns[i].note \in Notes
  BY <1>1 DEF PromoteInv, PromotionsGoOn
<1> HIDE DEF new
<1> QED BY <1>1, <1>2, <1>3, <1>4, <1>5, PromoteGoesOn

LEMMA PromoteExtracts ==
  ASSUME PromoteInv, NEW p \in Flows, ExtractKnowledge(p)
  PROVE  PromoteInv'
<1> DEFINE f == flow[p]
<1>1. /\ f.pc = "extracting" /\ f # Free /\ DOMAIN f = FlowFields /\ f.session \in Sessions
      /\ f.next \in Nat
  <2>1. f.pc = "extracting" /\ f # Free
    BY DEF ExtractKnowledge, Free
  <2> QED BY <2>1 DEF PromoteInv, FlowShapes, FlowOK
<1>2. UNCHANGED know
  BY DEF ExtractKnowledge, storeVars
<1>3. CASE flow' = [flow EXCEPT ![p] = Free]
  BY <1>2, <1>3, PromoteGoesOn
<1>4. ASSUME NEW kept \in SUBSET Notes, NEW todo, todo = Candidates(f.turns, kept),
             flow' = [flow EXCEPT ![p].todo = todo,
                        ![p].pc = IF todo = {} THEN "returned" ELSE "promoting"]
      PROVE  PromoteInv'
  <2> DEFINE new == [f EXCEPT !.todo = todo,
                       !.pc = IF todo = {} THEN "returned" ELSE "promoting"]
  <2>1. flow' = [flow EXCEPT ![p] = new]
    BY <1>1, <1>4 DEF PromoteInv, FlowShapes, FlowOK
  <2>2. /\ DOMAIN new = FlowFields /\ new.session = f.session /\ new.alone = f.alone
        /\ new.next = f.next /\ new.pc \in {"promoting", "returned"}
        /\ new.promoted = f.promoted /\ new.turns = f.turns /\ new.named = f.named
        /\ new.todo = todo
    BY <1>1 DEF FlowFields
  <2> HIDE DEF new
  <2>3. \A i \in todo : f.turns[i].note \in Notes
    BY <1>4 DEF Candidates
  <2> QED BY <1>1, <1>2, <2>1, <2>2, <2>3, PromoteGoesOn
<1> QED BY <1>3, <1>4 DEF ExtractKnowledge

LEMMA PromoteForgets ==
  ASSUME PromoteInv, NEW m, Forget(m)
  PROVE  PromoteInv'
<1>1. UNCHANGED know
  BY DEF Forget
<1>2. CASE m[1] = "episode"
  <2>1. flow' = [p \in Flows |-> IF OnSession(p, m[2])
                                 THEN [flow[p] EXCEPT !.alone = FALSE] ELSE flow[p]]
    BY <1>2 DEF Forget
  <2>2. /\ FlowShapes' /\ AloneApart'
        /\ \A q \in Flows :
             IF OnSession(q, m[2]) THEN NotAlone(flow[q], flow'[q]) ELSE flow'[q] = flow[q]
    BY <2>1, FlowForgets DEF PromoteInv
  <2>3. PromotionsGoOn'
    BY <2>2 DEF PromoteInv, PromotionsGoOn, NotAlone
  <2>4. PromotionsKept'
    <3>1. \A q \in Flows : flow'[q].pc \in {"promoting", "returned"} /\ flow'[q].alone =>
            flow'[q] = flow[q]
      BY <2>2 DEF NotAlone
    <3> QED BY <1>1, <3>1, KeptByTheSame DEF PromoteInv
  <2> QED BY <1>1, <2>2, <2>3, <2>4 DEF PromoteInv
<1>3. CASE m[1] # "episode"
  BY <1>1, <1>3, PromoteStutter DEF Forget
<1> QED BY <1>2, <1>3

LEMMA PromoteOther ==
  ASSUME PromoteInv, NEW p \in Keepers, PromoteSummary(p), UNCHANGED flow
  PROVE  PromoteInv'
<1>1. CASE UNCHANGED know
  BY <1>1, PromoteStutter
<1>2. CASE SaveKnowledge(SummaryItem(keep[p].req.session), keep[p].summary)
  <2>1. \A g, i : CandidateID(g, i) # SummaryItem(keep[p].req.session)
    BY IdsApart DEF CandidateID
  <2>2. \A g, i : know'[CandidateID(g, i)] = know[CandidateID(g, i)]
    BY <1>2, <2>1 DEF SaveKnowledge, PromoteInv
  <2>3. know' = [k \in KnowledgeIds |-> know'[k]]
    BY <1>2 DEF SaveKnowledge, PromoteInv
  <2>4. PromotionsKept'
    BY <2>2 DEF PromoteInv, PromotionsKept
  <2>5. FlowShapes' /\ AloneApart' /\ PromotionsGoOn'
    BY DEF PromoteInv, FlowShapes, FlowOK, AloneApart, PromotionsGoOn
  <2> QED BY <2>3, <2>4, <2>5 DEF PromoteInv
<1> QED BY <1>1, <1>2 DEF PromoteSummary, SaveFails, storeVars

LEMMA PromoteStep == PromoteInv /\ [Next]_vars => PromoteInv'
<1> SUFFICES ASSUME PromoteInv, [Next]_vars PROVE PromoteInv'
  OBVIOUS
<1>1. CASE TalkNext /\ UNCHANGED flow
  BY <1>1, PromoteStutter DEF TalkNext, Retain, SaveFails, storeVars
<1>2. CASE FlowNext
  <2>1. ASSUME NEW p \in Flows, NEW s \in Sessions, NEW t \in Transcripts,
               IngestTranscript(p, s, t)
        PROVE  PromoteInv'
    BY <2>1, PromoteBegins DEF IngestTranscript, storeVars
  <2>2. ASSUME NEW p \in Flows, NEW s \in Sessions, NEW t \in Transcripts,
               NEW named \in BOOLEAN, CloseSession(p, s, t, named)
        PROVE  PromoteInv'
    BY <2>2, PromoteBegins DEF CloseSession, storeVars
  <2> QED
    BY <1>2, <2>1, <2>2, PromoteSaves, PromotePromotes, PromoteExtracts DEF FlowNext
<1>3. CASE KeeperNext /\ UNCHANGED flow
  <2>1. ASSUME NEW p \in Keepers, PromoteSummary(p) PROVE PromoteInv'
    BY <1>3, <2>1, PromoteOther
  <2>2. CASE UNCHANGED know
    BY <1>3, <2>2, PromoteStutter
  <2> QED BY <1>3, <2>1, <2>2 DEF KeeperNext, Consolidate, RecallMemories, Reflect, Remember,
                                  SaveFails, storeVars
<1>4. ASSUME NEW m \in MemoryIds, Forget(m) PROVE PromoteInv'
  BY <1>4, PromoteForgets
<1>5. CASE Restart
  <2>1. flow' = [p \in Flows |-> Free] /\ UNCHANGED know
    BY <1>5 DEF Restart, FlowRestart, storeVars
  <2> QED BY <2>1 DEF PromoteInv, FlowShapes, FlowOK, AloneApart, PromotionsGoOn,
                      PromotionsKept, Free
<1>6. CASE UNCHANGED vars
  BY <1>6, PromoteStutter DEF vars, storeVars
<1> QED BY <1>1, <1>2, <1>3, <1>4, <1>5, <1>6 DEF Next

(* What CloseSession reports as promoted is in the collection with the     *)
(* content reported, unless it has no ID of its own or another workflow on *)
(* the session has run: whatever else fails, overlaps or is promoted.      *)
THEOREM ReportsAreTrue == Spec => []PromotionsKept
<1>1. PromoteInv => PromotionsKept
  BY DEF PromoteInv
<1> QED BY <1>1, PromoteInit, PromoteStep, PTL DEF Spec

-----------------------------------------------------------------------------
(* Summaries and the sessions they draw on.                                *)

(* A bucket of a session lists no episode or summary of another.           *)
ListedApart ==
  \A e \in listed :
    e[2][1] = "episode" \/ (e[2][1] = "summary" /\ e[2][2] # NoSession) => e[1][1] = e[2][2]

Drawn(s, S) == \A m \in S : m[1] \in {"episode", "summary"} => m[2] \in {s, NoSession}

(* What a call of Consolidate has found is of the session it reflects on.  *)
KeepApart ==
  \A p \in Keepers : keep[p] # Resting =>
    /\ keep[p].req \in Requests
    /\ Drawn(keep[p].req.reflect, keep[p].hits)
    /\ Drawn(keep[p].req.reflect, keep[p].summary.sources)

ApartInv == KeepOK /\ ListedApart /\ KeepApart /\ SummariesApart

LEMMA ApartInit == Init => ApartInv
BY DEF Init, StoreInit, KeeperInit, ApartInv, KeepOK, ListedApart, KeepApart, SummariesApart, Stored

LEMMA ApartStutter == ApartInv /\ UNCHANGED <<mem, listed, keep>> => ApartInv'
BY DEF ApartInv, KeepOK, ListedApart, KeepApart, SummariesApart, Stored

(* Saving a memory that is no summary of a session, where it belongs.      *)
LEMMA ApartSaves ==
  ASSUME ApartInv, UNCHANGED keep, NEW m, NEW bucket, NEW content,
         SaveMemory(m, bucket, content), \A s \in Sessions : m # Summary(s),
         m[1] = "episode" \/ (m[1] = "summary" /\ m[2] # NoSession) => bucket[1] = m[2]
  PROVE  ApartInv'
<1>1. ListedApart'
  BY DEF ApartInv, ListedApart, SaveMemory
<1>2. \A s \in Sessions : /\ Summary(s) \in DOMAIN mem' <=> Summary(s) \in DOMAIN mem
                          /\ Summary(s) \in DOMAIN mem => mem'[Summary(s)] = mem[Summary(s)]
  BY DEF SaveMemory
<1>3. SummariesApart'
  BY <1>2 DEF ApartInv, SummariesApart, Stored
<1> QED BY <1>1, <1>3 DEF ApartInv, KeepOK, KeepApart

LEMMA ApartKeeps ==
  ASSUME ApartInv, UNCHANGED <<mem, listed>>, NEW p \in Keepers, NEW new,
         keep' = [keep EXCEPT ![p] = new],
         \/ new = Resting
         \/ /\ DOMAIN new = KeepFields /\ new.req \in Requests
            /\ Drawn(new.req.reflect, new.hits) /\ Drawn(new.req.reflect, new.summary.sources)
  PROVE  ApartInv'
<1>1. KeepOK' /\ keep'[p] = new /\ \A q \in Keepers : q # p => keep'[q] = keep[q]
  BY DEF ApartInv, KeepOK
<1>2. KeepApart'
  BY <1>1 DEF ApartInv, KeepApart
<1> QED BY <1>1, <1>2 DEF ApartInv, ListedApart, SummariesApart, Stored

LEMMA ApartCalls ==
  ASSUME ApartInv, NEW p \in Keepers, NEW r \in Requests, Consolidate(p, r)
  PROVE  ApartInv'
<1> DEFINE new == [pc |-> "recall", req |-> r, hits |-> {}, summary |-> NoSummary]
<1>1. /\ DOMAIN new = KeepFields /\ new.req \in Requests
      /\ Drawn(new.req.reflect, new.hits) /\ Drawn(new.req.reflect, new.summary.sources)
  BY DEF KeepFields, Drawn, NoSummary
<1>2. keep' = [keep EXCEPT ![p] = new] /\ UNCHANGED <<mem, listed>>
  BY DEF Consolidate, storeVars
<1> HIDE DEF new
<1> QED BY <1>1, <1>2, ApartKeeps

LEMMA ApartRecalls ==
  ASSUME ApartInv, NEW p \in Keepers, RecallMemories(p)
  PROVE  ApartInv'
<1> DEFINE k == keep[p]
<1>1. DOMAIN k = KeepFields /\ k # Resting
  BY DEF RecallMemories, ApartInv, KeepOK, Resting
<1>2. k.req \in Requests /\ Drawn(k.req.reflect, k.summary.sources)
  BY <1>1 DEF ApartInv, KeepApart
<1>3. PICK found \in SUBSET Hits(Bucket(k.req.reflect, k.req.namespace)) :
        keep' = [keep EXCEPT ![p].pc = "reflect", ![p].hits = found]
  BY DEF RecallMemories, Sample
<1>4. Drawn(k.req.reflect, found)
  <2> SUFFICES ASSUME NEW m \in found, m[1] \in {"episode", "summary"}
               PROVE  m[2] \in {k.req.reflect, NoSession}
    BY DEF Drawn
  <2>1. <<Bucket(k.req.reflect, k.req.namespace), m>> \in listed
    BY <1>3 DEF Hits
  <2> QED BY <2>1 DEF ApartInv, ListedApart, Bucket
<1> DEFINE new == [k EXCEPT !.pc = "reflect", !.hits = found]
<1>5. keep' = [keep EXCEPT ![p] = new] /\ UNCHANGED <<mem, listed>>
  BY <1>3 DEF RecallMemories, storeVars, ApartInv, KeepOK
<1>6. /\ DOMAIN new = KeepFields /\ new.req = k.req /\ new.hits = found
      /\ new.summary = k.summary
  BY <1>1 DEF KeepFields
<1> HIDE DEF new
<1> QED BY <1>2, <1>4, <1>5, <1>6, ApartKeeps

LEMMA ApartReflects ==
  ASSUME ApartInv, NEW p \in Keepers, Reflect(p)
  PROVE  ApartInv'
<1> DEFINE k == keep[p]
<1>1. DOMAIN k = KeepFields /\ k # Resting
  BY DEF Reflect, ApartInv, KeepOK, Resting
<1>2. k.req \in Requests /\ Drawn(k.req.reflect, k.hits)
  BY <1>1 DEF ApartInv, KeepApart
<1>3. PICK found \in SUBSET KnowledgeHits : \E summary \in Summaries(k.hits, found) :
        keep' = [keep EXCEPT ![p] =
                   IF summary.facts = {} THEN Resting
                   ELSE [@ EXCEPT !.pc = "remember", !.summary = summary]]
  BY DEF Reflect, Sample
<1>4. PICK summary \in Summaries(k.hits, found) :
        keep' = [keep EXCEPT ![p] =
                   IF summary.facts = {} THEN Resting
                   ELSE [@ EXCEPT !.pc = "remember", !.summary = summary]]
  BY <1>3
<1>5. Drawn(k.req.reflect, summary.sources)
  <2>1. summary.sources = k.hits \cup found
    BY DEF Summaries, PackIDs
  <2>2. \A m \in found : m[1] \in {"note", "item"}
    BY DEF KnowledgeHits, KnowledgeIds, Promoted, Unnamed, SummaryItem
  <2> QED BY <1>2, <2>1, <2>2 DEF Drawn
<1> DEFINE new == [k EXCEPT !.pc = "remember", !.summary = summary]
<1>6. keep' = [keep EXCEPT ![p] = Resting] \/ keep' = [keep EXCEPT ![p] = new]
  BY <1>4
<1>7. UNCHANGED <<mem, listed>>
  BY DEF Reflect, storeVars
<1>8. /\ DOMAIN new = KeepFields /\ new.req = k.req /\ new.hits = k.hits
      /\ new.summary = summary
  BY <1>1 DEF KeepFields
<1> HIDE DEF new
<1> QED BY <1>2, <1>5, <1>6, <1>7, <1>8, ApartKeeps

LEMMA ApartRemembers ==
  ASSUME OneSessionEach, ApartInv, NEW p \in Keepers, Remember(p)
  PROVE  ApartInv'
<1> DEFINE k == keep[p]  r == k.req
           new == IF r.promote THEN [k EXCEPT !.pc = "promote"] ELSE Resting
<1>1. DOMAIN k = KeepFields /\ k # Resting
  BY DEF Remember, ApartInv, KeepOK, Resting
<1>2. r \in Requests /\ Drawn(r.reflect, k.hits) /\ Drawn(r.reflect, k.summary.sources)
  BY <1>1 DEF ApartInv, KeepApart
<1>3. \/ new = Resting
      \/ /\ DOMAIN new = KeepFields /\ new.req = r /\ new.hits = k.hits
         /\ new.summary = k.summary
  BY <1>1 DEF KeepFields
<1>4. CASE SaveFails /\ keep' = [keep EXCEPT ![p] = Resting]
  BY <1>4, ApartKeeps DEF SaveFails, storeVars
<1>5. CASE /\ SaveMemory(Summary(r.session), SummaryBucket(r), k.summary)
           /\ keep' = [keep EXCEPT ![p] = new]
  <2>1. r.session # NoSession => SummaryBucket(r)[1] = r.session
    BY DEF SummaryBucket, Bucket
  <2>2. Summary(r.session)[1] = "summary" /\ Summary(r.session)[2] = r.session
    BY DEF Summary
  <2>3. ListedApart'
    BY <1>5, <2>1, <2>2 DEF ApartInv, ListedApart, SaveMemory
  <2>4. SummariesApart'
    <3> SUFFICES ASSUME NEW s \in Sessions, Summary(s) \in DOMAIN mem',
                        NEW m \in mem'[Summary(s)].content.sources,
                        m[1] \in {"episode", "summary"}
                 PROVE  m[2] \in {s, NoSession}
      BY DEF SummariesApart, Stored
    <3>1. CASE s = r.session
      <4>1. mem'[Summary(s)].content = k.summary
        BY <1>5, <3>1 DEF SaveMemory
      <4>2. r.reflect \in {s, NoSession}
        BY <1>2, <3>1, AgentStoreAssumption DEF OneSessionEach
      <4> QED BY <1>2, <4>1, <4>2 DEF Drawn
    <3>2. CASE s # r.session
      <4>1. Summary(s) # Summary(r.session)
        BY <3>2 DEF Summary
      <4>2. Summary(s) \in DOMAIN mem /\ mem'[Summary(s)] = mem[Summary(s)]
        BY <1>5, <4>1 DEF SaveMemory
      <4> QED BY <4>2 DEF ApartInv, SummariesApart, Stored
    <3> QED BY <3>1, <3>2
  <2> HIDE DEF new
  <2>5. KeepOK' /\ keep'[p] = new /\ \A q \in Keepers : q # p => keep'[q] = keep[q]
    BY <1>3, <1>5 DEF ApartInv, KeepOK
  <2>6. KeepApart'
    BY <1>2, <1>3, <2>5 DEF ApartInv, KeepApart
  <2> QED BY <2>3, <2>4, <2>5, <2>6 DEF ApartInv
<1> QED BY <1>4, <1>5 DEF Remember

LEMMA ApartForgets ==
  ASSUME ApartInv, NEW m, DeleteMemory(m), UNCHANGED keep
  PROVE  ApartInv'
<1>1. \A x : x \in DOMAIN mem' => x \in DOMAIN mem /\ mem'[x] = mem[x]
  BY DEF DeleteMemory, Restrict
<1>2. listed' \subseteq listed
  BY DEF DeleteMemory
<1>3. SummariesApart'
  BY <1>1 DEF ApartInv, SummariesApart, Stored
<1> QED BY <1>2, <1>3 DEF ApartInv, KeepOK, ListedApart, KeepApart

LEMMA ApartStep == OneSessionEach /\ ApartInv /\ [Next]_vars => ApartInv'
<1> SUFFICES ASSUME OneSessionEach, ApartInv, [Next]_vars PROVE ApartInv'
  OBVIOUS
<1>1. CASE TalkNext /\ UNCHANGED keeperVars
  <2>1. ASSUME NEW j \in jobs, NEW f \in j.todo, Retain(j, f) PROVE ApartInv'
    <3>1. CASE UNCHANGED <<mem, listed>>
      BY <1>1, <3>1, ApartStutter DEF keeperVars
    <3>2. CASE SaveMemory(Fact(f), Bucket(j.trigger.session, "auto-retained"), j.window)
      <4>1. Fact(f)[1] = "fact" /\ \A s \in Sessions : Fact(f) # Summary(s)
        BY DEF Fact, Summary
      <4> QED BY <1>1, <3>2, <4>1, ApartSaves DEF keeperVars
    <3> QED BY <2>1, <3>1, <3>2 DEF Retain, SaveFails, storeVars
  <2> QED
    BY <1>1, <2>1, ApartStutter DEF TalkNext, storeVars, keeperVars
<1>2. CASE FlowNext /\ UNCHANGED keeperVars
  <2>1. ASSUME NEW p \in Flows, SaveEpisode(p) PROVE ApartInv'
    <3> DEFINE f == flow[p]
    <3>1. CASE UNCHANGED <<mem, listed>>
      BY <1>2, <3>1, ApartStutter DEF keeperVars
    <3>2. CASE SaveMemory(Episode(f.session, f.next), Bucket(f.session, "assistant"),
                          Exchanges(f.turns)[f.next + 1])
      <4>1. /\ Episode(f.session, f.next)[1] = "episode"
            /\ Episode(f.session, f.next)[2] = f.session
            /\ Bucket(f.session, "assistant")[1] = f.session
            /\ \A s \in Sessions : Episode(f.session, f.next) # Summary(s)
        BY DEF Episode, Bucket, Summary
      <4> QED BY <1>2, <3>2, <4>1, ApartSaves DEF keeperVars
    <3> QED BY <2>1, <3>1, <3>2 DEF SaveEpisode, SaveFails, storeVars
  <2> QED
    BY <1>2, <2>1, ApartStutter
       DEF FlowNext, IngestTranscript, CloseSession, Promote, ExtractKnowledge, SaveFails,
           storeVars, keeperVars
<1>3. CASE KeeperNext
  <2>1. ASSUME NEW p \in Keepers, PromoteSummary(p) PROVE ApartInv'
    <3>1. keep' = [keep EXCEPT ![p] = Resting] /\ UNCHANGED <<mem, listed>>
      BY <2>1 DEF PromoteSummary, SaveFails, storeVars
    <3> QED BY <3>1, ApartKeeps
  <2> QED BY <1>3, <2>1, ApartCalls, ApartRecalls, ApartReflects, ApartRemembers DEF KeeperNext
<1>4. ASSUME NEW m \in MemoryIds, Forget(m) PROVE ApartInv'
  BY <1>4, ApartForgets DEF Forget, keeperVars
<1>5. CASE Restart
  <2>1. keep' = [p \in Keepers |-> Resting] /\ UNCHANGED <<mem, listed>>
    BY <1>5 DEF Restart, KeeperRestart, storeVars
  <2> QED BY <2>1 DEF ApartInv, KeepOK, ListedApart, KeepApart, SummariesApart, Stored
<1>6. CASE UNCHANGED vars
  BY <1>6, ApartStutter DEF vars, storeVars, keeperVars
<1> QED BY <1>1, <1>2, <1>3, <1>4, <1>5, <1>6 DEF Next

(* The summary of a session draws on no episode and no summary of another  *)
(* session, though a bucket goes on listing what has moved elsewhere, for  *)
(* callers whose requests name one session each.                           *)
THEOREM SummariesAreApart ==
  ASSUME OneSessionEach
  PROVE  Spec => []SummariesApart
<1>1. ApartInv => SummariesApart
  BY DEF ApartInv
<1>2. ApartInv /\ [Next]_vars => ApartInv'
  BY ApartStep
<1> QED BY <1>1, <1>2, ApartInit, PTL DEF Spec

-----------------------------------------------------------------------------
(* Numbers, and functions defined by recursion on them.                    *)

LEMMA LeastNatural ==
  ASSUME NEW S \in SUBSET Nat, S # {}
  PROVE  \E m \in S : \A n \in S : m <= n
<1> DEFINE less == {p \in Nat \X Nat : p[1] < p[2]}
<1>1. IsWellFoundedOn(less, Nat)
  BY NatLessThanWellFounded DEF OpToRel
<1>2. PICK m \in S : \A n \in S : ~ (<<n, m>> \in less)
  <2> HIDE DEF less
  <2> QED BY <1>1, WFMin
<1>3. \A n \in S : ~ (n < m)
  BY <1>2
<1> QED BY <1>3

LEMMA AllNumbers ==
  ASSUME NEW S \in SUBSET Nat, 0 \in S, \A n \in S : n + 1 \in S
  PROVE  \A n \in Nat : n \in S
<1> SUFFICES ASSUME Nat \ S # {} PROVE FALSE
  OBVIOUS
<1>1. PICK m \in Nat \ S : \A n \in Nat \ S : m <= n
  BY LeastNatural
<1>2. m # 0 /\ m - 1 \in Nat /\ ~(m <= m - 1) /\ (m - 1) + 1 = m
  BY <1>1
<1>3. m - 1 \in S
  BY <1>1, <1>2
<1> QED BY <1>1, <1>2, <1>3

(* From a first value and a step there is a function on 0..n.              *)
Steps(f, b, step, n) == f[0] = b /\ \A i \in 1..n : f[i] = step[<<i, f[i - 1]>>]

LEMMA StepByStep ==
  ASSUME NEW G, NEW b \in G, NEW step \in [Nat \X G -> G]
  PROVE  \A n \in Nat : \E f \in [0..n -> G] : Steps(f, b, step, n)
<1> DEFINE S == {n \in Nat : \E f \in [0..n -> G] : Steps(f, b, step, n)}
<1>1. 0 \in S
  <2>1. [i \in 0..0 |-> b] \in [0..0 -> G] /\ Steps([i \in 0..0 |-> b], b, step, 0)
    BY DEF Steps
  <2> QED BY <2>1
<1>2. ASSUME NEW n \in S PROVE n + 1 \in S
  <2>1. PICK f \in [0..n -> G] : Steps(f, b, step, n)
    OBVIOUS
  <2> DEFINE g == [i \in 0..n + 1 |-> IF i = n + 1 THEN step[<<n + 1, f[n]>>] ELSE f[i]]
  <2>2. n \in Nat /\ n + 1 \in Nat /\ f[n] \in G
    OBVIOUS
  <2>3. g \in [0..n + 1 -> G]
    <3>1. step[<<n + 1, f[n]>>] \in G
      BY <2>2
    <3>2. \A i \in 0..n + 1 : i # n + 1 => i \in 0..n
      BY <2>2
    <3> QED BY <3>1, <3>2
  <2>4. ASSUME NEW i \in 1..n + 1 PROVE g[i] = step[<<i, g[i - 1]>>]
    <3>1. CASE i = n + 1
      <4>1. g[i] = step[<<n + 1, f[n]>>] /\ g[i - 1] = f[n]
        BY <2>2, <3>1
      <4> QED BY <3>1, <4>1
    <3>2. CASE i # n + 1
      <4>1. i \in 1..n /\ i - 1 \in 0..n /\ g[i] = f[i] /\ g[i - 1] = f[i - 1]
        BY <2>2, <3>2
      <4> QED BY <2>1, <4>1 DEF Steps
    <3> QED BY <3>1, <3>2
  <2>5. g[0] = b
    BY <2>1, <2>2 DEF Steps
  <2> HIDE DEF g
  <2>6. Steps(g, b, step, n + 1)
    BY <2>4, <2>5 DEF Steps
  <2> QED BY <2>2, <2>3, <2>6
<1> HIDE DEF S
<1>3. \A n \in Nat : n \in S
  <2>1. S \in SUBSET Nat
    BY DEF S
  <2> QED BY <1>1, <1>2, <2>1, AllNumbers
<1> QED BY <1>3 DEF S

-----------------------------------------------------------------------------
(* Exchanges cuts a transcript up and loses nothing.                       *)

(* FlattenSeq, by its last sequence.                                       *)
Flat(f, S, n) == f = [i \in 1..n |-> IF i = 1 THEN S[i] ELSE f[i - 1] \o S[i]]

LEMMA FlattenIs ==
  ASSUME NEW T, NEW S \in Seq(Seq(T)), Len(S) # 0
  PROVE  \E f \in [1..Len(S) -> Seq(T)] : Flat(f, S, Len(S)) /\ FlattenSeq(S) = f[Len(S)]
<1> DEFINE n == Len(S)
           G == Seq(T)
           step == [x \in Nat \X G |-> IF x[1] \in 1..n THEN x[2] \o S[x[1]] ELSE x[2]]
<1>1. n \in Nat /\ n >= 1 /\ \A i \in 1..n : S[i] \in G
  BY LenProperties, ElementOfSeq
<1>2. \A x, y \in G : x \o y \in G
  BY ConcatProperties
<1>3. step \in [Nat \X G -> G]
  BY <1>1, <1>2
<1>4. <<>> \in G
  OBVIOUS
<1> HIDE DEF G
<1>5. PICK g \in [0..n -> G] : Steps(g, <<>>, step, n)
  <2> HIDE DEF step, n
  <2> QED BY <1>1, <1>3, <1>4, StepByStep
<1>6. \A i \in 1..n : g[i] = g[i - 1] \o S[i]
  <2> SUFFICES ASSUME NEW i \in 1..n PROVE g[i] = g[i - 1] \o S[i]
    OBVIOUS
  <2>1. i \in Nat /\ i - 1 \in 0..n
    <3> HIDE DEF n
    <3> QED BY <1>1
  <2>2. g[i - 1] \in G
    <3> HIDE DEF n, step
    <3> QED BY <2>1, <1>5
  <2>3. <<i, g[i - 1]>> \in Nat \X G
    BY <2>1, <2>2
  <2>4. step[<<i, g[i - 1]>>] = g[i - 1] \o S[i]
    <3> HIDE DEF n
    <3> QED BY <2>3
  <2> QED BY <1>5, <2>4 DEF Steps
<1> DEFINE f == [i \in 1..n |-> g[i]]
<1>7. f \in [1..n -> G]
  BY <1>1
<1>8. \A i \in 1..n : f[i] = IF i = 1 THEN S[i] ELSE f[i - 1] \o S[i]
  <2> SUFFICES ASSUME NEW i \in 1..n PROVE f[i] = IF i = 1 THEN S[i] ELSE f[i - 1] \o S[i]
    OBVIOUS
  <2>1. CASE i = 1
    <3> HIDE DEF n, step
    <3>1. g[1] = g[1 - 1] \o S[1] /\ S[1] \in G
      BY <1>1, <1>6, <2>1
    <3>2. 1 - 1 = 0 /\ g[0] = <<>>
      BY <1>5 DEF Steps
    <3>3. <<>> \o S[1] = S[1]
      BY <3>1, ConcatEmptySeq DEF G
    <3> QED BY <2>1, <3>1, <3>2, <3>3
  <2>2. CASE i # 1
    <3>1. i - 1 \in 1..n
      BY <1>1, <2>2
    <3> QED BY <1>6, <2>2, <3>1
  <2> QED BY <2>1, <2>2
<1>9. Flat(f, S, n)
  <2>1. f = [i \in 1..n |-> f[i]]
    OBVIOUS
  <2> HIDE DEF f
  <2> QED BY <1>8, <2>1 DEF Flat
<1> DEFINE flatten[i \in 1..n] == IF i = 1 THEN S[i] ELSE flatten[i - 1] \o S[i]
<1>10. FlattenSeq(S) = flatten[n]
  BY DEF FlattenSeq
<1>11. Flat(flatten, S, n)
  <2>1. \E h : Flat(h, S, n)
    <3> HIDE DEF f
    <3> QED BY <1>9
  <2> QED BY <2>1 DEF Flat
<1> HIDE DEF flatten
<1>12. flatten \in [1..n -> G]
  <2> DEFINE A == {i \in Nat : i \in 1..n => flatten[i] \in G}
  <2>1. 0 \in A
    OBVIOUS
  <2>2. ASSUME NEW i \in A PROVE i + 1 \in A
    <3> SUFFICES ASSUME i + 1 \in 1..n PROVE flatten[i + 1] \in G
      OBVIOUS
    <3>1. flatten[i + 1] = IF i + 1 = 1 THEN S[i + 1] ELSE flatten[(i + 1) - 1] \o S[i + 1]
      BY <1>11 DEF Flat
    <3>2. CASE i = 0
      BY <1>1, <3>1, <3>2
    <3>3. CASE i # 0
      <4>1. i \in 1..n /\ i + 1 # 1 /\ (i + 1) - 1 = i
        BY <1>1, <3>3
      <4>2. flatten[i] \in G /\ S[i + 1] \in G
        BY <1>1, <4>1
      <4> QED BY <1>2, <3>1, <4>1, <4>2
    <3> QED BY <3>2, <3>3
  <2> HIDE DEF A
  <2>3. \A i \in Nat : i \in A
    <3>1. A \in SUBSET Nat
      BY DEF A
    <3> QED BY <2>1, <2>2, <3>1, AllNumbers
  <2>4. \A i \in 1..n : flatten[i] \in G
    BY <1>1, <2>3 DEF A
  <2>5. flatten = [i \in 1..n |-> flatten[i]]
    BY <1>11 DEF Flat
  <2> QED BY <2>4, <2>5
<1> QED BY <1>10, <1>11, <1>12 DEF G

LEMMA FlattenAppend ==
  ASSUME NEW T, NEW S \in Seq(Seq(T)), NEW e \in Seq(T)
  PROVE  /\ FlattenSeq(S) \in Seq(T)
         /\ FlattenSeq(Append(S, e)) = FlattenSeq(S) \o e
<1> DEFINE n == Len(S)
           R == Append(S, e)
<1>1. /\ n \in Nat /\ R \in Seq(Seq(T)) /\ Len(R) = n + 1 /\ R[n + 1] = e
      /\ \A i \in 1..n : R[i] = S[i]
  BY AppendProperties, LenProperties
<1> HIDE DEF R
<1>2. Len(R) # 0
  BY <1>1
<1>3. PICK r \in [1..Len(R) -> Seq(T)] : Flat(r, R, Len(R)) /\ FlattenSeq(R) = r[Len(R)]
  BY <1>1, <1>2, FlattenIs
<1>4. CASE n = 0
  <2>1. S = <<>> /\ FlattenSeq(S) = <<>>
    BY <1>4, EmptySeq DEF FlattenSeq
  <2>2. Len(R) = 1 /\ r[1] = R[1]
    BY <1>1, <1>3, <1>4 DEF Flat
  <2>3. FlattenSeq(R) = e
    BY <1>1, <1>3, <1>4, <2>2
  <2>4. <<>> \o e = e
    BY ConcatEmptySeq
  <2>5. <<>> \in Seq(T)
    BY EmptySeq
  <2> HIDE DEF n
  <2> QED BY <2>1, <2>3, <2>4, <2>5 DEF R
<1>5. CASE n # 0
  <2>1. PICK h \in [1..n -> Seq(T)] : Flat(h, S, n) /\ FlattenSeq(S) = h[n]
    BY <1>5, FlattenIs
  <2> HIDE DEF n
  <2> DEFINE A == {i \in Nat : i \in 1..n => h[i] = r[i]}
  <2>2. 0 \in A
    OBVIOUS
  <2>3. ASSUME NEW i \in A PROVE i + 1 \in A
    <3> SUFFICES ASSUME i + 1 \in 1..n PROVE h[i + 1] = r[i + 1]
      OBVIOUS
    <3>0. i \in Nat
      OBVIOUS
    <3> HIDE DEF A
    <3>5. R[i + 1] = S[i + 1]
      BY <1>1
    <3>1. i + 1 \in 1..Len(R) /\ (i + 1) - 1 = i /\ R[i + 1] = S[i + 1]
      BY <1>1, <3>0, <3>5
    <3>2. h[i + 1] = IF i + 1 = 1 THEN S[i + 1] ELSE h[(i + 1) - 1] \o S[i + 1]
      BY <2>1 DEF Flat
    <3>3. r[i + 1] = IF i + 1 = 1 THEN R[i + 1] ELSE r[(i + 1) - 1] \o R[i + 1]
      BY <1>3, <3>1 DEF Flat
    <3>4. i # 0 => h[i] = r[i]
      BY <1>1, <3>0 DEF A
    <3> QED BY <3>0, <3>1, <3>2, <3>3, <3>4
  <2> HIDE DEF A
  <2>4. \A i \in Nat : i \in A
    <3>1. A \in SUBSET Nat
      BY DEF A
    <3> QED BY <2>2, <2>3, <3>1, AllNumbers
  <2>5. n \in 1..n /\ n \in A
    BY <1>1, <1>5, <2>4
  <2>6. h[n] = r[n]
    BY <2>5 DEF A
  <2>7. r[n + 1] = r[n] \o e
    <3>1. n + 1 \in 1..Len(R) /\ n + 1 # 1 /\ (n + 1) - 1 = n
      BY <1>1, <1>5
    <3>2. r[n + 1] = IF n + 1 = 1 THEN R[n + 1] ELSE r[(n + 1) - 1] \o R[n + 1]
      BY <1>3, <3>1 DEF Flat
    <3> QED BY <1>1, <3>1, <3>2
  <2>8. h[n] \in Seq(T)
    BY <2>1, <2>5
  <2> QED BY <1>1, <1>3, <2>1, <2>6, <2>7, <2>8 DEF R
<1> QED BY <1>4, <1>5, EmptySeq DEF FlattenSeq

(* After i turns: they are told in order, in at most i exchanges, and the  *)
(* first turn begins one.                                                  *)
CutOK(c, T, turns, i) ==
  /\ c.done \in Seq(Seq(T)) /\ c.open \in Seq(T)
  /\ FlattenSeq(c.done) \o c.open = SubSeq(turns, 1, i)
  /\ Len(c.done) + (IF c.open = <<>> THEN 0 ELSE 1) <= i
  /\ i # 0 => c.done # <<>> \/ c.open # <<>>

LEMMA JoinedTells ==
  ASSUME NEW T, NEW turns \in Seq(T), NEW i \in 0..Len(turns) - 1, NEW c,
         CutOK(c, T, turns, i)
  PROVE  CutOK(Joined(c, turns[i + 1]), T, turns, i + 1)
<1> DEFINE t == turns[i + 1]
           F == FlattenSeq(c.done)
<1>1. Len(turns) \in Nat /\ i \in Nat /\ i + 1 \in 1..Len(turns)
  BY LenProperties
<1>2. t \in T
  BY <1>1, ElementOfSeq
<1>3. /\ c.done \in Seq(Seq(T)) /\ c.open \in Seq(T)
      /\ F \o c.open = SubSeq(turns, 1, i)
      /\ Len(c.done) + (IF c.open = <<>> THEN 0 ELSE 1) <= i
  BY DEF CutOK
<1>4. F \in Seq(T)
  BY <1>3, FlattenAppend
<1> HIDE DEF F, t
<1>5. /\ Append(c.open, t) \in Seq(T) /\ Append(c.open, t) # <<>>
      /\ Append(c.open, t) = c.open \o <<t>> /\ <<t>> \in Seq(T)
  BY <1>2, <1>3, AppendProperties, AppendIsConcat
<1>6. SubSeq(turns, 1, i) \o <<t>> = SubSeq(turns, 1, i + 1)
  <2>1. 1 \in 1..Len(turns) /\ i + 1 \in 1..Len(turns) /\ (i + 1) - 1 = i
    BY <1>1
  <2>2. SubSeq(turns, 1, i + 1) = SubSeq(turns, 1, (i + 1) - 1) \o <<turns[i + 1]>>
    BY <2>1, SubSeqRecursiveSecond
  <2> QED BY <2>1, <2>2 DEF t
<1>7. F \o Append(c.open, t) = SubSeq(turns, 1, i + 1)
  <2>1. (F \o c.open) \o <<t>> = F \o (c.open \o <<t>>)
    <3>1. F \in Seq(T) /\ c.open \in Seq(T) /\ <<t>> \in Seq(T)
      BY <1>3, <1>4, <1>5
    <3>2. \A a, b, d \in Seq(T) : (a \o b) \o d = a \o (b \o d)
      BY SMTT(60), ConcatAssociative
    <3> QED BY <3>1, <3>2
  <2> QED BY <1>3, <1>5, <1>6, <2>1
<1>8. Len(c.done) \in Nat
  BY <1>3, LenProperties
<1>9. CASE t.role = "assistant" /\ c.open # <<>>
  <2> DEFINE e == Append(c.done, Append(c.open, t))
  <2>1. /\ e \in Seq(Seq(T)) /\ e # <<>> /\ Len(e) = Len(c.done) + 1
    <3>1. c.done \in Seq(Seq(T)) /\ Append(c.open, t) \in Seq(T)
      BY <1>3, <1>5
    <3>2. \A q \in Seq(Seq(T)), x \in Seq(T) :
            Append(q, x) \in Seq(Seq(T)) /\ Append(q, x) # <<>> /\ Len(Append(q, x)) = Len(q) + 1
      BY SMTT(60), AppendProperties
    <3> QED BY <3>1, <3>2
  <2>2. FlattenSeq(e) = F \o Append(c.open, t)
    BY <1>3, <1>5, FlattenAppend DEF F
  <2>3. FlattenSeq(e) \o <<>> = SubSeq(turns, 1, i + 1)
    <3>1. FlattenSeq(e) \in Seq(T)
      BY <2>1, <1>5, FlattenAppend
    <3> QED BY <1>7, <2>2, <3>1, ConcatEmptySeq
  <2>4. Joined(c, t) = [done |-> e, open |-> <<>>]
    BY <1>9 DEF Joined
  <2>5. <<>> \in Seq(T)
    BY EmptySeq
  <2>6. Len(e) + 0 <= i + 1
    BY <1>1, <1>3, <1>8, <1>9, <2>1
  <2> DEFINE d == Joined(c, t)
  <2> HIDE DEF e
  <2>7. d.done = e /\ d.open = <<>>
    BY <2>4
  <2> HIDE DEF d
  <2>8. CutOK(d, T, turns, i + 1)
    BY <2>1, <2>3, <2>5, <2>6, <2>7 DEF CutOK
  <2> QED BY <2>8 DEF t, d
<1>10. CASE ~(t.role = "assistant" /\ c.open # <<>>)
  <2> DEFINE o == Append(c.open, t)
  <2>1. Joined(c, t) = [done |-> c.done, open |-> o]
    BY <1>10 DEF Joined
  <2>2. o # <<>> /\ o \in Seq(T)
    BY <1>5
  <2>3. F \o o = SubSeq(turns, 1, i + 1)
    BY <1>7
  <2>4. Len(c.done) + 1 <= i + 1
    <3>1. Len(c.done) <= i
      <4>1. CASE c.open = <<>>
        BY <1>1, <1>3, <1>8, <4>1
      <4>2. CASE c.open # <<>>
        BY <1>1, <1>3, <1>8, <4>2
      <4> QED BY <4>1, <4>2
    <3> QED BY <1>1, <1>8, <3>1
  <2> HIDE DEF o
  <2> QED BY SMTT(60), <1>3, <2>1, <2>2, <2>3, <2>4 DEF CutOK, t, F
<1> QED BY <1>9, <1>10

LEMMA CutUpTells ==
  ASSUME NEW T, NEW turns \in Seq(T)
  PROVE  CutOK(CutUp(turns), T, turns, Len(turns))
<1> DEFINE n == Len(turns)
           b == [done |-> <<>>, open |-> <<>>]
           cut[i \in 0..n] == IF i = 0 THEN b ELSE Joined(cut[i - 1], turns[i])
           A == {i \in Nat : i \in 0..n => CutOK(cut[i], T, turns, i)}
<1>1. n \in Nat
  BY LenProperties
<1>2. CutUp(turns) = cut[n]
  BY DEF CutUp
<1>3. /\ cut[0] = b
      /\ \A i \in 1..n : cut[i] = Joined(cut[i - 1], turns[i])
  <2> DEFINE G == [done : Seq(Seq(T)), open : Seq(T)]
             step == [x \in Nat \X G |-> IF x[1] \in 1..n THEN Joined(x[2], turns[x[1]]) ELSE x[2]]
  <2>1. b \in G
    BY EmptySeq
  <2>2. \A i \in 1..n : turns[i] \in T
    BY ElementOfSeq
  <2>3. \A a \in G, t \in T : Joined(a, t) \in G
    <3> SUFFICES ASSUME NEW a \in G, NEW t \in T PROVE Joined(a, t) \in G
      OBVIOUS
    <3>1. Append(a.open, t) \in Seq(T)
      BY AppendProperties
    <3>2. Append(a.done, Append(a.open, t)) \in Seq(Seq(T))
      BY <3>1, AppendProperties
    <3>3. <<>> \in Seq(T)
      BY EmptySeq
    <3> QED BY <3>1, <3>2, <3>3 DEF Joined
  <2> HIDE DEF G, b, n
  <2>4. step \in [Nat \X G -> G]
    BY <2>2, <2>3
  <2>5. PICK g \in [0..n -> G] : Steps(g, b, step, n)
    <3> HIDE DEF step
    <3> QED BY <1>1, <2>1, <2>4, StepByStep
  <2>6. g = [i \in 0..n |-> IF i = 0 THEN b ELSE Joined(g[i - 1], turns[i])]
    <3>1. ASSUME NEW i \in 0..n PROVE g[i] = IF i = 0 THEN b ELSE Joined(g[i - 1], turns[i])
      <4>1. CASE i = 0
        BY <2>5, <4>1 DEF Steps
      <4>2. CASE i # 0
        <5>1. i \in 1..n /\ i - 1 \in 0..n /\ i \in Nat
          BY <1>1, <4>2
        <5>2. g[i] = step[<<i, g[i - 1]>>]
          BY <2>5, <5>1 DEF Steps
        <5>3. g[i - 1] \in G
          BY <2>5, <5>1
        <5> QED BY <4>2, <5>1, <5>2, <5>3
      <4> QED BY <4>1, <4>2
    <3> QED BY <3>1
  <2>7. \E h : h = [i \in 0..n |-> IF i = 0 THEN b ELSE Joined(h[i - 1], turns[i])]
    BY <2>6
  <2>8. cut = [i \in 0..n |-> IF i = 0 THEN b ELSE Joined(cut[i - 1], turns[i])]
    BY <2>7
  <2> HIDE DEF cut
  <2>9. 0 \in 0..n /\ \A i \in 1..n : i \in 0..n /\ i # 0
    BY <1>1
  <2> QED BY <2>8, <2>9
<1> HIDE DEF cut, n
<1>4. 0 \in A
  <2>1. /\ FlattenSeq(<<>>) = <<>> /\ <<>> \in Seq(T) /\ <<>> \in Seq(Seq(T)) /\ Len(<<>>) = 0
    BY EmptySeq DEF FlattenSeq
  <2>2. <<>> \o <<>> = <<>>
    BY <2>1, ConcatEmptySeq
  <2>3. SubSeq(turns, 1, 0) = <<>>
    BY SubSeqEmpty
  <2>4. b.done = <<>> /\ b.open = <<>>
    OBVIOUS
  <2> HIDE DEF b
  <2>5. Len(b.done) + (IF b.open = <<>> THEN 0 ELSE 1) <= 0
    BY <2>1, <2>4
  <2>6. b.done \in Seq(Seq(T)) /\ b.open \in Seq(T)
    BY <2>1, <2>4
  <2>7. FlattenSeq(b.done) \o b.open = SubSeq(turns, 1, 0)
    BY <2>1, <2>2, <2>3, <2>4
  <2>8. CutOK(b, T, turns, 0)
    BY <2>5, <2>6, <2>7 DEF CutOK
  <2> QED BY <1>3, <2>8
<1>5. ASSUME NEW i \in A PROVE i + 1 \in A
  <2> SUFFICES ASSUME i + 1 \in 0..n PROVE CutOK(cut[i + 1], T, turns, i + 1)
    OBVIOUS
  <2>1. i \in Nat
    OBVIOUS
  <2>2. i \in 0..n /\ i + 1 \in 1..n /\ (i + 1) - 1 = i /\ i \in 0..n - 1
    BY <1>1, <2>1
  <2>3. CutOK(cut[i], T, turns, i)
    BY <2>2
  <2>4. CutOK(Joined(cut[i], turns[i + 1]), T, turns, i + 1)
    BY <2>2, <2>3, JoinedTells DEF n
  <2> QED BY <1>3, <2>2, <2>4
<1>6. \A i \in Nat : i \in A
  <2>1. A \in SUBSET Nat
    OBVIOUS
  <2> HIDE DEF A
  <2> QED BY <1>4, <1>5, <2>1, AllNumbers
<1>7. n \in 0..n
  BY <1>1
<1> QED BY <1>1, <1>2, <1>6, <1>7 DEF n

(* The exchanges of a transcript tell it turn by turn; there is at least   *)
(* one, and no more of them than episodes can be numbered.                 *)
LEMMA ExchangesTell ==
  ASSUME NEW t \in Transcripts
  PROVE  /\ Exchanges(t) \in Seq(Seq(Turns))
         /\ FlattenSeq(Exchanges(t)) = t
         /\ Len(Exchanges(t)) \in 1..MaxTurns
<1> DEFINE c == CutUp(t)
<1>1. t \in Seq(Turns) /\ Len(t) \in 1..MaxTurns
  BY MemoryFlowAssumption
<1>2. CutOK(c, Turns, t, Len(t))
  BY <1>1, CutUpTells
<1>3. SubSeq(t, 1, Len(t)) = t
  BY <1>1, SubSeqFull
<1>4. /\ c.done \in Seq(Seq(Turns)) /\ c.open \in Seq(Turns)
      /\ FlattenSeq(c.done) \o c.open = t
      /\ Len(c.done) + (IF c.open = <<>> THEN 0 ELSE 1) <= Len(t)
      /\ c.done # <<>> \/ c.open # <<>>
  <2>1. Len(t) # 0
    BY <1>1
  <2> HIDE DEF c
  <2> QED BY <1>2, <1>3, <2>1 DEF CutOK
<1>5. Exchanges(t) = IF c.open = <<>> THEN c.done ELSE Append(c.done, c.open)
  BY DEF Exchanges
<1> HIDE DEF c
<1>6. Len(c.done) \in Nat /\ Len(t) \in Nat /\ (c.done # <<>> => Len(c.done) # 0)
  BY <1>1, <1>4, EmptySeq, LenProperties
<1>7. MaxTurns \in Nat
  BY AgentStoreAssumption
<1>8. CASE c.open = <<>>
  <2>1. FlattenSeq(c.done) \in Seq(Turns)
    BY <1>4, FlattenAppend
  <2>2. FlattenSeq(c.done) = t
    BY <1>4, <1>8, <2>1, ConcatEmptySeq
  <2>3. Len(c.done) \in 1..MaxTurns
    BY <1>1, <1>4, <1>6, <1>7, <1>8
  <2> QED BY <1>4, <1>5, <1>8, <2>2, <2>3
<1>9. CASE c.open # <<>>
  <2> DEFINE e == Append(c.done, c.open)
  <2>1. e \in Seq(Seq(Turns)) /\ Len(e) = Len(c.done) + 1
    BY <1>4, AppendProperties
  <2>2. FlattenSeq(e) = t
    BY <1>4, FlattenAppend
  <2>3. Len(e) \in 1..MaxTurns
    BY <1>1, <1>4, <1>6, <1>7, <1>9, <2>1
  <2> QED BY <1>5, <1>9, <2>1, <2>2, <2>3
<1> QED BY <1>8, <1>9

-----------------------------------------------------------------------------
(* Episodes that tell their transcript.                                    *)

(* What a workflow has saved so far, with these memories: its exchanges in *)
(* their order, as long as it is alone.                                    *)
Retells(memory, f) ==
  f # Free =>
    /\ f.turns \in Transcripts
    /\ f.pc = "saving" => f.next < Len(Exchanges(f.turns))
    /\ f.pc # "saving" => f.next = Len(Exchanges(f.turns))
    /\ f.alone => \A n \in 0..f.next - 1 :
         /\ Episode(f.session, n) \in DOMAIN memory
         /\ memory[Episode(f.session, n)].content = Exchanges(f.turns)[n + 1]

RetellInv ==
  /\ FlowShapes /\ AloneApart
  /\ \A p \in Flows : Retells(mem, flow[p])

LEMMA RetellInit == Init => RetellInv
BY DEF Init, FlowInit, RetellInv, FlowShapes, FlowOK, AloneApart, Retells, Free

LEMMA RetellStutter ==
  ASSUME RetellInv, UNCHANGED flow,
         \A s, n : Episode(s, n) \in DOMAIN mem =>
           Episode(s, n) \in DOMAIN mem' /\ mem'[Episode(s, n)] = mem[Episode(s, n)]
  PROVE  RetellInv'
<1>1. FlowShapes' /\ AloneApart'
  BY DEF RetellInv, FlowShapes, FlowOK, AloneApart
<1>2. ASSUME NEW p \in Flows PROVE Retells(mem', flow[p])
  BY DEF RetellInv, Retells
<1> QED BY <1>1, <1>2 DEF RetellInv

LEMMA RetellNotAlone ==
  ASSUME NEW memory, NEW f, NEW g, NEW other, Retells(memory, f), NotAlone(f, g)
  PROVE  Retells(other, g)
BY DEF Retells, NotAlone

LEMMA RetellBegins ==
  ASSUME RetellInv, NEW p \in Flows, NEW s \in Sessions, NEW turns \in Transcripts,
         NEW promote, NEW named, Begin(p, s, turns, promote, named), ~Busy(p), UNCHANGED mem
  PROVE  RetellInv'
<1>1. FlowShapes' /\ AloneApart'
  BY FlowBegun DEF RetellInv
<1>2. flow'[p].next = 0 /\ flow'[p].pc = "saving" /\ flow'[p].turns = turns
  BY DEF Begin
<1>3. \A q \in Flows : q # p =>
        IF OnSession(q, s) THEN NotAlone(flow[q], flow'[q]) ELSE flow'[q] = flow[q]
  BY AloneNoMore DEF Begin, RetellInv
<1>4. ASSUME NEW q \in Flows PROVE Retells(mem', flow'[q])
  <2>1. CASE q = p
    <3>1. Len(Exchanges(turns)) \in 1..MaxTurns /\ MaxTurns \in Nat
      BY ExchangesTell, AgentStoreAssumption
    <3>2. 0 < Len(Exchanges(turns)) /\ 0..0 - 1 = {}
      BY <3>1
    <3> DEFINE g == flow'[q]
    <3>3. g.next = 0 /\ g.pc = "saving" /\ g.turns = turns
      BY <1>2, <2>1
    <3> HIDE DEF g
    <3>4. Retells(mem', g)
      BY <3>2, <3>3 DEF Retells
    <3> QED BY <3>4 DEF g
  <2>2. CASE q # p
    <3> DEFINE g == flow'[q]
    <3>1. NotAlone(flow[q], g) \/ g = flow[q]
      BY <1>3, <2>2
    <3> HIDE DEF g
    <3>2. Retells(mem', g)
      BY <3>1, RetellNotAlone DEF RetellInv
    <3> QED BY <3>2 DEF g
  <2> QED BY <2>1, <2>2
<1> QED BY <1>1, <1>4 DEF RetellInv

(* A workflow that saves no episode keeps its place among them.            *)
LEMMA RetellGoesOn ==
  ASSUME RetellInv, UNCHANGED mem, NEW p \in Flows, NEW new, flow' = [flow EXCEPT ![p] = new],
         \/ new = Free
         \/ /\ flow[p].pc \in {"extracting", "promoting"}
            /\ DOMAIN new = FlowFields /\ new.session = flow[p].session
            /\ new.alone = flow[p].alone /\ new.next = flow[p].next
            /\ new.turns = flow[p].turns /\ new.pc \in {"promoting", "returned"}
  PROVE  RetellInv'
<1>1. flow[p].pc \in {"extracting", "promoting"} => flow[p] # Free /\ flow[p].next \in Nat
  BY DEF RetellInv, FlowShapes, FlowOK, Free
<1>2. FlowShapes' /\ AloneApart'
  BY <1>1, FlowGoesOn DEF RetellInv
<1>3. flow'[p] = new /\ \A q \in Flows : q # p => flow'[q] = flow[q]
  BY DEF RetellInv, FlowShapes, FlowOK
<1>4. Retells(mem, new)
  BY <1>1 DEF RetellInv, Retells
<1>5. ASSUME NEW q \in Flows PROVE Retells(mem', flow'[q])
  <2> DEFINE g == flow'[q]
  <2>1. g = new \/ g = flow[q]
    BY <1>3
  <2> HIDE DEF g
  <2>2. Retells(mem', g)
    BY <1>4, <2>1 DEF RetellInv
  <2> QED BY <2>2 DEF g
<1> QED BY <1>2, <1>5 DEF RetellInv

LEMMA RetellSaves ==
  ASSUME RetellInv, NEW p \in Flows, SaveEpisode(p)
  PROVE  RetellInv'
<1> DEFINE f == flow[p]  new == Saved(f)
<1>1. /\ f.pc = "saving" /\ f # Free /\ DOMAIN f = FlowFields /\ f.session \in Sessions
      /\ f.next \in Nat
  BY DEF SaveEpisode, RetellInv, FlowShapes, FlowOK, Free
<1>2. CASE SaveFails /\ flow' = [flow EXCEPT ![p] = Free]
  BY <1>2, RetellGoesOn DEF SaveFails, storeVars
<1>3. CASE /\ SaveMemory(Episode(f.session, f.next), Bucket(f.session, "assistant"),
                         Exchanges(f.turns)[f.next + 1])
           /\ flow' = [flow EXCEPT ![p] = Saved(@)]
  <2>1. /\ DOMAIN new = FlowFields /\ new.session = f.session /\ new.alone = f.alone
        /\ new.next = f.next + 1 /\ new.turns = f.turns
        /\ new.pc \in {"saving", "extracting", "returned"}
        /\ new.pc = "saving" <=> f.next + 1 # Len(Exchanges(f.turns))
    BY <1>1 DEF Saved, FlowFields
  <2>2. flow' = [flow EXCEPT ![p] = new]
    BY <1>3
  <2> HIDE DEF new
  <2>3. FlowShapes' /\ AloneApart'
    <3>1. /\ flow[p].pc \notin {"idle", "returned"} /\ new.next \in Nat
          /\ new.pc \in {"saving", "extracting", "promoting", "returned"}
      BY <1>1, <2>1
    <3>2. new.session = flow[p].session /\ new.alone = flow[p].alone /\ DOMAIN new = FlowFields
      BY <2>1
    <3> QED BY <2>2, <3>1, <3>2, FlowGoesOn DEF RetellInv
  <2>4. flow'[p] = new /\ \A q \in Flows : q # p => flow'[q] = flow[q]
    BY <2>2 DEF RetellInv, FlowShapes, FlowOK
  <2> DEFINE e == Episode(f.session, f.next)
  <2>5. /\ DOMAIN mem' = DOMAIN mem \cup {e}
        /\ mem'[e].content = Exchanges(f.turns)[f.next + 1]
        /\ \A x \in DOMAIN mem : x # e => mem'[x] = mem[x]
    BY <1>3 DEF SaveMemory
  <2>6. \A s, n : Episode(s, n) = e => s = f.session /\ n = f.next
    BY IdsApart
  <2> HIDE DEF e
  <2>7. Retells(mem', new)
    <3>1. f.turns \in Transcripts /\ f.next < Len(Exchanges(f.turns))
      BY <1>1 DEF RetellInv, Retells
    <3>2. Len(Exchanges(f.turns)) \in Nat
      <4>1. Len(Exchanges(f.turns)) \in 1..MaxTurns /\ MaxTurns \in Nat
        BY <3>1, ExchangesTell, AgentStoreAssumption
      <4> QED BY <4>1
    <3>3. /\ new.pc = "saving" => new.next < Len(Exchanges(new.turns))
          /\ new.pc # "saving" => new.next = Len(Exchanges(new.turns))
      BY <1>1, <2>1, <3>1, <3>2
    <3>4. ASSUME new.alone, NEW n \in 0..new.next - 1
          PROVE  /\ Episode(new.session, n) \in DOMAIN mem'
                 /\ mem'[Episode(new.session, n)].content = Exchanges(new.turns)[n + 1]
      <4>1. CASE n = f.next
        BY <2>1, <2>5, <4>1 DEF e
      <4>2. CASE n # f.next
        <5>1. n \in 0..f.next - 1
          BY <1>1, <2>1, <4>2
        <5>2. /\ Episode(f.session, n) \in DOMAIN mem
              /\ mem[Episode(f.session, n)].content = Exchanges(f.turns)[n + 1]
          BY <1>1, <2>1, <3>4, <5>1 DEF RetellInv, Retells
        <5>3. Episode(f.session, n) # e
          BY <2>6, <4>2
        <5> QED BY <2>1, <2>5, <5>2, <5>3
      <4> QED BY <4>1, <4>2
    <3> QED BY <2>1, <3>1, <3>3, <3>4 DEF Retells
  <2>8. ASSUME NEW q \in Flows, q # p PROVE Retells(mem', flow[q])
    <3> DEFINE g == flow[q]
    <3>1. Retells(mem, g)
      BY DEF RetellInv
    <3>2. g # Free /\ g.alone => g.session # f.session
      BY <1>1, <2>8 DEF RetellInv, AloneApart, Works
    <3> HIDE DEF g
    <3>3. ASSUME g # Free, g.alone, NEW n \in 0..g.next - 1
          PROVE  /\ Episode(g.session, n) \in DOMAIN mem'
                 /\ mem'[Episode(g.session, n)].content = Exchanges(g.turns)[n + 1]
      <4>1. /\ Episode(g.session, n) \in DOMAIN mem
            /\ mem[Episode(g.session, n)].content = Exchanges(g.turns)[n + 1]
        BY <3>1, <3>3 DEF Retells
      <4>2. Episode(g.session, n) # e
        BY <2>6, <3>2, <3>3
      <4> QED BY <2>5, <4>1, <4>2
    <3>4. Retells(mem', g)
      BY <3>1, <3>3 DEF Retells
    <3> QED BY <3>4 DEF g
  <2>9. ASSUME NEW q \in Flows PROVE Retells(mem', flow'[q])
    <3> DEFINE g == flow'[q]
    <3>1. g = new \/ (q # p /\ g = flow[q])
      BY <2>4
    <3> HIDE DEF g
    <3>2. Retells(mem', g)
      BY <2>7, <2>8, <3>1
    <3> QED BY <3>2 DEF g
  <2> QED BY <2>3, <2>9 DEF RetellInv
<1> QED BY <1>2, <1>3 DEF SaveEpisode

LEMMA RetellExtracts ==
  ASSUME RetellInv, NEW p \in Flows, ExtractKnowledge(p)
  PROVE  RetellInv'
<1> DEFINE f == flow[p]
<1>1. f.pc = "extracting" /\ f # Free /\ DOMAIN f = FlowFields
  <2>1. f.pc = "extracting" /\ f # Free
    BY DEF ExtractKnowledge, Free
  <2> QED BY <2>1 DEF RetellInv, FlowShapes, FlowOK
<1>2. UNCHANGED mem
  BY DEF ExtractKnowledge, storeVars
<1>3. CASE flow' = [flow EXCEPT ![p] = Free]
  BY <1>2, <1>3, RetellGoesOn
<1>4. ASSUME NEW todo,
             flow' = [flow EXCEPT ![p].todo = todo,
                        ![p].pc = IF todo = {} THEN "returned" ELSE "promoting"]
      PROVE  RetellInv'
  <2> DEFINE new == [f EXCEPT !.todo = todo,
                       !.pc = IF todo = {} THEN "returned" ELSE "promoting"]
  <2>1. flow' = [flow EXCEPT ![p] = new]
    BY <1>1, <1>4 DEF RetellInv, FlowShapes, FlowOK
  <2>2. /\ DOMAIN new = FlowFields /\ new.session = f.session /\ new.alone = f.alone
        /\ new.next = f.next /\ new.pc \in {"promoting", "returned"}
        /\ new.turns = f.turns
    BY <1>1 DEF FlowFields
  <2> HIDE DEF new
  <2> QED BY <1>1, <1>2, <2>1, <2>2, RetellGoesOn
<1> QED BY <1>3, <1>4 DEF ExtractKnowledge

LEMMA RetellPromotes ==
  ASSUME RetellInv, NEW p \in Flows, NEW i, Promote(p, i)
  PROVE  RetellInv'
<1> DEFINE f == flow[p]
           dealt == Dealt(f, i)
           told == [dealt EXCEPT !.promoted = @ \cup {i}]
<1>1. f.pc = "promoting" /\ f # Free /\ DOMAIN f = FlowFields
  BY DEF Promote, RetellInv, FlowShapes, FlowOK, Free
<1>2. /\ DOMAIN dealt = FlowFields /\ dealt.session = f.session /\ dealt.alone = f.alone
      /\ dealt.next = f.next /\ dealt.pc \in {"promoting", "returned"} /\ dealt.turns = f.turns
  BY <1>1 DEF Dealt, FlowFields
<1>3. flow' = [flow EXCEPT ![p] = dealt] \/ flow' = [flow EXCEPT ![p] = told]
  BY DEF Promote
<1>4. UNCHANGED mem
  BY DEF Promote, SaveFails, storeVars
<1> HIDE DEF dealt
<1>5. /\ DOMAIN told = FlowFields /\ told.session = f.session /\ told.alone = f.alone
      /\ told.next = f.next /\ told.pc \in {"promoting", "returned"} /\ told.turns = f.turns
  BY <1>2 DEF FlowFields
<1> HIDE DEF told
<1> QED BY <1>1, <1>2, <1>3, <1>4, <1>5, RetellGoesOn

LEMMA RetellForgets ==
  ASSUME RetellInv, NEW m, Forget(m)
  PROVE  RetellInv'
<1>1. \A x : x \in DOMAIN mem /\ x # m => x \in DOMAIN mem' /\ mem'[x] = mem[x]
  BY DEF Forget, DeleteMemory, Restrict
<1>2. CASE m[1] = "episode"
  <2>1. flow' = [p \in Flows |-> IF OnSession(p, m[2])
                                 THEN [flow[p] EXCEPT !.alone = FALSE] ELSE flow[p]]
    BY <1>2 DEF Forget
  <2>2. /\ FlowShapes' /\ AloneApart'
        /\ \A q \in Flows :
             IF OnSession(q, m[2]) THEN NotAlone(flow[q], flow'[q]) ELSE flow'[q] = flow[q]
    BY <2>1, FlowForgets DEF RetellInv
  <2>3. ASSUME NEW q \in Flows PROVE Retells(mem', flow'[q])
    <3> DEFINE g == flow'[q]
    <3>1. CASE OnSession(q, m[2])
      <4>1. NotAlone(flow[q], g)
        BY <2>2, <3>1
      <4> HIDE DEF g
      <4>2. Retells(mem', g)
        BY <4>1, RetellNotAlone DEF RetellInv
      <4> QED BY <4>2 DEF g
    <3>2. CASE ~OnSession(q, m[2])
      <4>1. g = flow[q] /\ (g # Free => g.session # m[2])
        BY <2>2, <3>2 DEF OnSession
      <4> HIDE DEF g
      <4>2. \A n : g # Free => Episode(g.session, n) # m
        BY <4>1, IdsApart
      <4>3. Retells(mem, g)
        BY <4>1 DEF RetellInv
      <4>4. Retells(mem', g)
        BY <1>1, <4>2, <4>3 DEF Retells
      <4> QED BY <4>4 DEF g
    <3> QED BY <3>1, <3>2
  <2> QED BY <2>2, <2>3 DEF RetellInv
<1>3. CASE m[1] # "episode"
  <2>1. \A s, n : Episode(s, n) # m
    BY <1>3, IdsApart
  <2> QED BY <1>1, <1>3, <2>1, RetellStutter DEF Forget
<1> QED BY <1>2, <1>3

LEMMA RetellOtherSaved ==
  ASSUME RetellInv, UNCHANGED flow, NEW m, NEW bucket, NEW content,
         SaveMemory(m, bucket, content), \A s, n : m # Episode(s, n)
  PROVE  RetellInv'
<1>1. \A s, n : Episode(s, n) \in DOMAIN mem =>
        Episode(s, n) \in DOMAIN mem' /\ mem'[Episode(s, n)] = mem[Episode(s, n)]
  BY DEF SaveMemory
<1> QED BY <1>1, RetellStutter

LEMMA RetellStep == RetellInv /\ [Next]_vars => RetellInv'
<1> SUFFICES ASSUME RetellInv, [Next]_vars PROVE RetellInv'
  OBVIOUS
<1>1. CASE TalkNext /\ UNCHANGED flow
  <2>1. ASSUME NEW j \in jobs, NEW f \in j.todo, Retain(j, f) PROVE RetellInv'
    BY <1>1, <2>1, RetellOtherSaved, RetellStutter, IdsApart DEF Retain, SaveFails, storeVars
  <2> QED
    BY <1>1, <2>1, RetellStutter DEF TalkNext, storeVars
<1>2. CASE FlowNext
  <2>1. ASSUME NEW p \in Flows, NEW s \in Sessions, NEW t \in Transcripts,
               IngestTranscript(p, s, t)
        PROVE  RetellInv'
    BY <2>1, RetellBegins DEF IngestTranscript, storeVars
  <2>2. ASSUME NEW p \in Flows, NEW s \in Sessions, NEW t \in Transcripts,
               NEW named \in BOOLEAN, CloseSession(p, s, t, named)
        PROVE  RetellInv'
    BY <2>2, RetellBegins DEF CloseSession, storeVars
  <2> QED
    BY <1>2, <2>1, <2>2, RetellSaves, RetellPromotes, RetellExtracts DEF FlowNext
<1>3. CASE KeeperNext /\ UNCHANGED flow
  <2>1. ASSUME NEW p \in Keepers, Remember(p) PROVE RetellInv'
    BY <1>3, <2>1, RetellOtherSaved, RetellStutter, IdsApart DEF Remember, SaveFails, storeVars
  <2> QED
    BY <1>3, <2>1, RetellStutter DEF KeeperNext, Consolidate, RecallMemories, Reflect,
       PromoteSummary, SaveFails, storeVars
<1>4. ASSUME NEW m \in MemoryIds, Forget(m) PROVE RetellInv'
  BY <1>4, RetellForgets
<1>5. CASE Restart
  <2>1. flow' = [p \in Flows |-> Free]
    BY <1>5 DEF Restart, FlowRestart
  <2> QED BY <2>1 DEF RetellInv, FlowShapes, FlowOK, AloneApart, Retells, Free
<1>6. CASE UNCHANGED vars
  BY <1>6, RetellStutter DEF vars, storeVars
<1> QED BY <1>1, <1>2, <1>3, <1>4, <1>5, <1>6 DEF Next

(* The episodes of an ingestion that came through, unless another workflow *)
(* ran on the session, tell its transcript turn by turn.                   *)
THEOREM EpisodesTellTheTranscript == Spec => []EpisodesRetell
<1>1. RetellInv => EpisodesRetell
  <2> SUFFICES ASSUME RetellInv, NEW p \in Flows,
                      flow[p].pc \in {"extracting", "promoting", "returned"}, flow[p].alone
               PROVE  /\ \A n \in 0..flow[p].next - 1 : Stored(Episode(flow[p].session, n))
                      /\ FlattenSeq([i \in 1..flow[p].next |->
                           mem[Episode(flow[p].session, i - 1)].content]) = flow[p].turns
    BY DEF EpisodesRetell
  <2> DEFINE f == flow[p]  e == Exchanges(f.turns)
  <2>1. f # Free /\ Retells(mem, f) /\ f.pc # "saving" /\ f.alone
    BY DEF RetellInv, Free
  <2>2. /\ f.turns \in Transcripts /\ f.next = Len(e)
        /\ \A n \in 0..f.next - 1 :
             /\ Episode(f.session, n) \in DOMAIN mem
             /\ mem[Episode(f.session, n)].content = e[n + 1]
    BY <2>1 DEF Retells
  <2>3. e \in Seq(Seq(Turns)) /\ FlattenSeq(e) = f.turns
    BY <2>2, ExchangesTell
  <2> HIDE DEF e
  <2>4. Len(e) \in Nat /\ e = [i \in 1..Len(e) |-> e[i]]
    BY <2>3, LenProperties
  <2>5. ASSUME NEW i \in 1..Len(e) PROVE mem[Episode(f.session, i - 1)].content = e[i]
    <3>1. i - 1 \in 0..f.next - 1 /\ (i - 1) + 1 = i
      BY <2>2, <2>4
    <3> QED BY <2>2, <3>1
  <2>6. [i \in 1..f.next |-> mem[Episode(f.session, i - 1)].content] = e
    BY <2>2, <2>4, <2>5
  <2> QED BY <2>2, <2>3, <2>6 DEF Stored
<1>2. QED
  BY <1>1, RetellInit, RetellStep, PTL DEF Spec

-----------------------------------------------------------------------------
(* Extractions and the messages they were fired by.                        *)

(* No two messages have one time: stored ones, ones on their way, and the  *)
(* ones that extractions were fired by, which are stored at most once.     *)
TimesApart ==
  /\ \A m, n \in msgs : m.at = n.at => m = n
  /\ \A m \in msgs : m.at <= clock
  /\ \A p \in Talkers : talk[p] # Silent =>
       /\ talk[p].msg.at <= clock
       /\ \A q \in Talkers : q # p /\ talk[q] # Silent => talk[q].msg.at # talk[p].msg.at
       /\ talk[p].pc = "storing" =>
            /\ \A m \in msgs : m.at # talk[p].msg.at
            /\ \A j \in jobs : j.trigger.at # talk[p].msg.at
  /\ \A j \in jobs : j.trigger.at <= clock

(* A window holds messages of the trigger's session in their order.        *)
Ordered(w) == \A i, k \in DOMAIN w : i < k => w[i].at < w[k].at

(* The trigger is in the window, or a whole window of messages is newer.   *)
Sees(w, size, trigger) ==
  \/ trigger \in ToSet(w)
  \/ Len(w) = size /\ \A i \in DOMAIN w : w[i].at > trigger.at

WindowOK(stored, j) ==
  /\ j \in Jobs
  /\ \A i \in DOMAIN j.window : j.window[i].session = j.trigger.session
  /\ Ordered(j.window)
  /\ j.pc # "reading" /\ j.trigger \in stored => Sees(j.window, j.size, j.trigger)

WindowsOK == \A j \in jobs : WindowOK(msgs, j)

TriggerInv == TalkInv /\ cfg \in Settings \cup {Off} /\ TimesApart /\ WindowsOK

(* Who has a message on its way that may still be counted.                 *)
Pending == {p \in Talkers : talk[p] # Silent /\ talk[p].pc \in {"storing", "counting"}}

CountOK ==
  /\ counter \in [Sessions -> Nat]
  /\ IsFiniteSet(Pending)
  /\ \A s \in Sessions : counter[s] + Cardinality(Pending) <= clock

(* Counting the elements up to each sorts a finite set.                    *)
UpTo(M, m) == {x \in M : x.at <= m.at}
Sorted(M) == [i \in 1..Cardinality(M) |-> CHOOSE m \in M : Cardinality(UpTo(M, m)) = i]

LEMMA SortedByRank ==
  ASSUME NEW M, IsFiniteSet(M), \A m \in M : m.at \in Nat,
         \A m, k \in M : m.at = k.at => m = k
  PROVE  /\ Sorted(M) \in Seq(M)
         /\ Ordered(Sorted(M))
         /\ \A m \in M : \E i \in DOMAIN Sorted(M) : Sorted(M)[i] = m
<1> DEFINE n == Cardinality(M)
           rank == [m \in M |-> Cardinality(UpTo(M, m))]
           all == Sorted(M)
<1>1. n \in Nat
  BY FS_CardinalityType
<1>2. ASSUME NEW m \in M
      PROVE  IsFiniteSet(UpTo(M, m)) /\ Cardinality(UpTo(M, m)) \in 1..n
  <2>1. UpTo(M, m) \in SUBSET M /\ m \in UpTo(M, m)
    BY DEF UpTo
  <2>2. IsFiniteSet(UpTo(M, m)) /\ Cardinality(UpTo(M, m)) <= n
    BY <2>1, FS_Subset
  <2>3. Cardinality(UpTo(M, m)) \in Nat /\ Cardinality(UpTo(M, m)) # 0
    BY <2>1, <2>2, FS_CardinalityType, FS_EmptySet
  <2> HIDE DEF n
  <2> QED BY <1>1, <2>2, <2>3
<1>3. ASSUME NEW m \in M, NEW k \in M, m.at < k.at
      PROVE  Cardinality(UpTo(M, m)) < Cardinality(UpTo(M, k))
  <2>1. UpTo(M, m) \in SUBSET UpTo(M, k) /\ k \in UpTo(M, k) /\ k \notin UpTo(M, m)
    BY <1>3 DEF UpTo
  <2>2. IsFiniteSet(UpTo(M, k))
    BY <1>2
  <2>3. /\ Cardinality(UpTo(M, m)) <= Cardinality(UpTo(M, k))
        /\ Cardinality(UpTo(M, m)) # Cardinality(UpTo(M, k))
    BY <2>1, <2>2, FS_Subset
  <2>4. Cardinality(UpTo(M, m)) \in Nat /\ Cardinality(UpTo(M, k)) \in Nat
    BY <1>2, FS_CardinalityType
  <2> QED BY <2>3, <2>4
<1>4. rank \in Injection(M, 1..n)
  <2>1. rank \in [M -> 1..n]
    BY <1>2
  <2>2. ASSUME NEW m \in M, NEW k \in M, rank[m] = rank[k] PROVE m = k
    <3>1. Cardinality(UpTo(M, m)) = Cardinality(UpTo(M, k))
      BY <2>2
    <3>2. Cardinality(UpTo(M, m)) \in Nat
      BY <1>2, FS_CardinalityType
    <3>3. ~(m.at < k.at) /\ ~(k.at < m.at)
      <4> HIDE DEF rank
      <4> QED BY <1>3, <3>1, <3>2
    <3>4. m.at = k.at
      BY <3>3
    <3> QED BY <3>4
  <2> HIDE DEF rank
  <2> QED BY <2>1, <2>2 DEF Injection, IsInjective
<1>5. IsFiniteSet(1..n) /\ Cardinality(1..n) = n
  <2>1. 1 \in Int /\ n \in Int
    BY <1>1
  <2>2. Cardinality(1..n) = IF 1 > n THEN 0 ELSE n - 1 + 1
    BY <2>1, FS_Interval
  <2>3. IsFiniteSet(1..n)
    BY <2>1, FS_Interval
  <2> HIDE DEF n
  <2> QED BY <1>1, <2>2, <2>3
<1>6. rank \in Surjection(M, 1..n)
  <2> HIDE DEF rank
  <2> QED BY <1>4, <1>5, FS_Injection
<1>7. \A i \in 1..n : \E m \in M : Cardinality(UpTo(M, m)) = i
  BY <1>6 DEF Surjection
<1>8. /\ all = [i \in 1..n |-> all[i]]
      /\ \A i \in 1..n : all[i] \in M /\ Cardinality(UpTo(M, all[i])) = i
  BY <1>7 DEF Sorted
<1> HIDE DEF all, rank, n
<1>9. all \in [1..n -> M] /\ DOMAIN all = 1..n
  BY <1>8
<1>10. all \in Seq(M)
  BY <1>1, <1>9
<1>11. ASSUME NEW i \in 1..n, NEW k \in 1..n, i < k PROVE all[i].at < all[k].at
  <2>1. ~(all[k].at < all[i].at)
    BY <1>1, <1>3, <1>8, <1>11
  <2>2. all[k].at # all[i].at
    BY <1>1, <1>8, <1>11
  <2>3. all[k].at \in Nat /\ all[i].at \in Nat
    BY <1>8
  <2> QED BY <2>1, <2>2, <2>3
<1>12. ASSUME NEW m \in M PROVE \E i \in 1..n : all[i] = m
  <2> DEFINE i == Cardinality(UpTo(M, m))
  <2>1. i \in 1..n
    BY <1>2
  <2>2. all[i] \in M /\ Cardinality(UpTo(M, all[i])) = i
    BY <1>8, <2>1
  <2>3. rank[all[i]] = rank[m]
    BY <2>2 DEF rank
  <2>4. all[i] = m
    BY <1>4, <2>2, <2>3 DEF Injection, IsInjective
  <2> QED BY <2>1, <2>4
<1> QED BY <1>9, <1>10, <1>11, <1>12 DEF all, Ordered

LEMMA OwnSorted ==
  ASSUME TalkInv, TimesApart, NEW s \in Sessions
  PROVE  /\ MessagesOf(s) \in Seq({m \in msgs : m.session = s})
         /\ Ordered(MessagesOf(s))
         /\ \A m \in msgs : m.session = s =>
              \E i \in DOMAIN MessagesOf(s) : MessagesOf(s)[i] = m
<1> DEFINE own == {m \in msgs : m.session = s}
           at == [m \in own |-> m.at]
<1>1. \A m \in own : m \in Messages /\ m.at \in 1..MaxMessages
  BY DEF TalkInv, TalkOK, Messages
<1>2. \A m, k \in own : m.at = k.at => m = k
  BY DEF TimesApart
<1>3. at \in Injection(own, 1..MaxMessages)
  <2>1. at \in [own -> 1..MaxMessages]
    BY <1>1
  <2>2. \A m, k \in own : at[m] = at[k] => m = k
    BY <1>2
  <2> HIDE DEF at, own
  <2> QED BY <2>1, <2>2 DEF Injection, IsInjective
<1>4. IsFiniteSet(1..MaxMessages)
  BY SessionsAssumption, FS_Interval
<1>5. IsFiniteSet(own)
  <2> HIDE DEF at, own
  <2> QED BY <1>3, <1>4, FS_Injection
<1>6. \A m \in own : m.at \in Nat
  BY <1>1, SessionsAssumption
<1>7. MessagesOf(s) = Sorted(own)
  BY DEF MessagesOf, Sorted, UpTo
<1>8. \A m \in msgs : m.session = s => m \in own
  OBVIOUS
<1> HIDE DEF own
<1>9. /\ Sorted(own) \in Seq(own)
      /\ Ordered(Sorted(own))
      /\ \A m \in own : \E i \in DOMAIN Sorted(own) : Sorted(own)[i] = m
  BY <1>2, <1>5, <1>6, SortedByRank
<1> QED BY <1>7, <1>8, <1>9 DEF own

(* The history of a session: its last messages in their order.             *)
LEMMA HistorySees ==
  ASSUME TalkInv, TimesApart, NEW s \in Sessions, NEW n \in Nat
  PROVE  /\ History(s, n) \in Seq(Messages)
         /\ \A i \in DOMAIN History(s, n) : History(s, n)[i].session = s
         /\ Ordered(History(s, n))
         /\ \A m \in msgs : m.session = s => Sees(History(s, n), n, m)
<1> DEFINE all == MessagesOf(s)
           l == Len(all)
           k == Min({n, l})
           w == SubSeq(all, l - k + 1, l)
<1>1. /\ all \in Seq({m \in msgs : m.session = s}) /\ Ordered(all)
      /\ \A m \in msgs : m.session = s => \E i \in DOMAIN all : all[i] = m
  BY OwnSorted
<1>2. History(s, n) = w
  BY DEF History
<1> HIDE DEF all
<1>3. /\ l \in Nat /\ DOMAIN all = 1..l
      /\ \A i \in 1..l : all[i] \in msgs /\ all[i].session = s
  BY <1>1, LenProperties, ElementOfSeq
<1> HIDE DEF l
<1>4. k = IF n <= l THEN n ELSE l
  <2>1. \A x : x \in {n, l} <=> x = n \/ x = l
    OBVIOUS
  <2> DEFINE v == IF n <= l THEN n ELSE l
  <2>2. v \in {n, l} /\ \A y \in {n, l} : v <= y
    BY <1>3
  <2>3. \A x \in {n, l} : (\A y \in {n, l} : x <= y) => x = v
    BY <1>3
  <2> HIDE DEF v
  <2>4. Min({n, l}) = v
    BY <2>2, <2>3 DEF Min
  <2> QED BY <2>4 DEF v
<1> HIDE DEF k
<1>5. k \in Nat /\ k <= l /\ k <= n /\ (k = n \/ k = l)
  BY <1>3, <1>4
<1>6. msgs \subseteq Messages
  BY DEF TalkInv, TalkOK
<1>7. /\ w \in Seq(Messages) /\ Len(w) = k
      /\ \A i \in 1..k : w[i] = all[(l - k) + i]
  <2>1. l - k + 1 \in Int /\ l \in Int
    BY <1>3, <1>5
  <2>2. \A i \in l - k + 1..l : all[i] \in Messages
    BY <1>3, <1>5, <1>6
  <2>3. /\ w \in Seq(Messages)
        /\ Len(w) = IF l - k + 1 <= l THEN l - (l - k + 1) + 1 ELSE 0
        /\ \A i \in 1..l - (l - k + 1) + 1 : w[i] = all[(l - k + 1) + i - 1]
    BY <2>1, <2>2, SubSeqProperties
  <2> HIDE DEF w
  <2>4. Len(w) = k
    BY <1>3, <1>5, <2>3
  <2>5. ASSUME NEW i \in 1..k PROVE w[i] = all[(l - k) + i]
    <3>1. i \in 1..l - (l - k + 1) + 1 /\ (l - k + 1) + i - 1 = (l - k) + i
      BY <1>3, <1>5
    <3> QED BY <2>3, <3>1
  <2> QED BY <2>3, <2>4, <2>5
<1> HIDE DEF w
<1>8. DOMAIN w = 1..k
  BY <1>5, <1>7, LenProperties
<1>9. \A i \in 1..k : (l - k) + i \in 1..l
  BY <1>3, <1>5
<1>10. \A i \in 1..k : w[i].session = s
  BY <1>3, <1>7, <1>9
<1>11. Ordered(w)
  <2>1. ASSUME NEW i \in 1..k, NEW j \in 1..k, i < j PROVE w[i].at < w[j].at
    <3>1. (l - k) + i \in 1..l /\ (l - k) + j \in 1..l /\ (l - k) + i < (l - k) + j
      BY <1>3, <1>5, <2>1
    <3>2. all[(l - k) + i].at < all[(l - k) + j].at
      BY <1>1, <1>3, <3>1 DEF Ordered
    <3> QED BY <1>7, <3>2
  <2> QED BY <1>8, <2>1 DEF Ordered
<1>12. ASSUME NEW m \in msgs, m.session = s PROVE Sees(w, n, m)
  <2>1. PICK i \in 1..l : all[i] = m
    BY <1>1, <1>3, <1>12
  <2>2. CASE i > l - k
    <3>1. i - (l - k) \in 1..k /\ (l - k) + (i - (l - k)) = i
      BY <1>3, <1>5, <2>2
    <3>2. w[i - (l - k)] = m
      BY <1>7, <2>1, <3>1
    <3> QED BY <1>8, <3>1, <3>2 DEF Sees, ToSet
  <2>3. CASE ~(i > l - k)
    <3>1. k = n
      BY <1>3, <1>5, <2>3
    <3>2. ASSUME NEW j \in 1..k PROVE w[j].at > m.at
      <4>1. (l - k) + j \in 1..l /\ i < (l - k) + j
        BY <1>3, <1>5, <2>3
      <4>2. all[i].at < all[(l - k) + j].at
        BY <1>1, <1>3, <4>1 DEF Ordered
      <4>3. all[i].at \in Nat /\ all[(l - k) + j].at \in Nat
        BY <1>3, <1>6, <4>1, SessionsAssumption DEF Messages
      <4> QED BY <1>7, <2>1, <4>2, <4>3
    <3> QED BY <1>7, <1>8, <3>1, <3>2 DEF Sees
  <2> QED BY <2>2, <2>3
<1> QED BY <1>2, <1>7, <1>8, <1>10, <1>11, <1>12

LEMMA TriggerInit == Init => TriggerInv
BY TalkInit DEF Init, SessionsInit, TriggerInv, TimesApart, WindowsOK

(* Messages may go, and calls may move on, or end, with what they are at.  *)
LEMMA TriggerGoesOn ==
  ASSUME TriggerInv, TalkInv', UNCHANGED <<clock, jobs>>, msgs' \subseteq msgs,
         cfg' \in Settings \cup {Off},
         \A p \in Talkers : talk'[p] # Silent =>
           /\ talk[p] # Silent /\ talk'[p].msg = talk[p].msg
           /\ talk'[p].pc = "storing" => talk[p].pc = "storing"
  PROVE  TriggerInv'
<1>1. TimesApart'
  BY DEF TriggerInv, TimesApart
<1>2. WindowsOK'
  BY DEF TriggerInv, WindowsOK, WindowOK
<1> QED BY <1>1, <1>2 DEF TriggerInv

LEMMA TriggerSays ==
  ASSUME TriggerInv, TalkInv', NEW p \in Talkers, NEW s \in Sessions, NEW heard \in BOOLEAN,
         Say(p, s, heard)
  PROVE  TriggerInv'
<1> DEFINE new == [pc |-> "storing", msg |-> [session |-> s, at |-> clock + 1, heard |-> heard]]
<1>1. clock \in Nat /\ clock' = clock + 1 /\ UNCHANGED <<msgs, cfg, jobs>>
  BY SessionsAssumption DEF Say, TriggerInv, TalkInv, TalkOK
<1>2. talk'[p] = new /\ \A q \in Talkers : q # p => talk'[q] = talk[q]
  BY DEF Say, TriggerInv, TalkInv, TalkOK
<1>3. new.msg.at = clock + 1 /\ new.pc = "storing"
  OBVIOUS
<1> HIDE DEF new
<1>4. /\ \A m \in msgs : m.at \in Nat
      /\ \A j \in jobs : j.trigger.at \in Nat
      /\ \A q \in Talkers : talk[q] # Silent => talk[q].msg.at \in Nat
  BY SessionsAssumption DEF TriggerInv, TalkInv, TalkOK, Messages, WindowsOK, WindowOK, Jobs
<1>5. /\ \A m \in msgs : m.at < clock + 1
      /\ \A j \in jobs : j.trigger.at < clock + 1
      /\ \A q \in Talkers : talk[q] # Silent => talk[q].msg.at < clock + 1
  BY <1>1, <1>4 DEF TriggerInv, TimesApart
<1>6. ASSUME NEW q \in Talkers, talk'[q] # Silent
      PROVE  /\ talk'[q].msg.at <= clock'
             /\ \A o \in Talkers : o # q /\ talk'[o] # Silent => talk'[o].msg.at # talk'[q].msg.at
             /\ talk'[q].pc = "storing" =>
                  /\ \A m \in msgs : m.at # talk'[q].msg.at
                  /\ \A j \in jobs : j.trigger.at # talk'[q].msg.at
  <2>1. CASE q = p
    BY <1>1, <1>2, <1>3, <1>4, <1>5, <2>1
  <2>2. CASE q # p
    <3>1. talk'[q] = talk[q] /\ talk[q] # Silent
      BY <1>2, <1>6, <2>2
    <3>2. talk[q].msg.at < clock + 1 /\ talk[q].msg.at \in Nat
      BY <1>4, <1>5, <3>1
    <3>3. talk'[q].msg.at <= clock'
      BY <1>1, <3>1, <3>2
    <3>4. \A o \in Talkers : o # q /\ talk'[o] # Silent => talk'[o].msg.at # talk'[q].msg.at
      BY <1>1, <1>2, <1>3, <3>1, <3>2 DEF TriggerInv, TimesApart
    <3>5. talk'[q].pc = "storing" =>
                  /\ \A m \in msgs : m.at # talk'[q].msg.at
                  /\ \A j \in jobs : j.trigger.at # talk'[q].msg.at
      BY <3>1 DEF TriggerInv, TimesApart
    <3> QED BY <3>3, <3>4, <3>5
  <2> QED BY <2>1, <2>2
<1>7. /\ \A m \in msgs : m.at <= clock'
      /\ \A j \in jobs : j.trigger.at <= clock'
  BY <1>1, <1>4, <1>5
<1>8. TimesApart'
  BY <1>1, <1>6, <1>7 DEF TriggerInv, TimesApart
<1>9. WindowsOK'
  BY <1>1 DEF TriggerInv, WindowsOK
<1> QED BY <1>1, <1>8, <1>9 DEF TriggerInv

LEMMA TriggerStores ==
  ASSUME TriggerInv, TalkInv', NEW p \in Talkers, StoreMessage(p)
  PROVE  TriggerInv'
<1> DEFINE m == talk[p].msg
<1>1. talk[p] # Silent /\ talk[p].pc = "storing"
  BY DEF StoreMessage, Silent
<1>2. UNCHANGED <<clock, jobs, cfg>>
  BY DEF StoreMessage
<1>3. \A q \in Talkers : talk'[q] # Silent =>
        /\ talk[q] # Silent /\ talk'[q].msg = talk[q].msg
        /\ q = p => talk'[q].pc # "storing"
        /\ q # p => talk'[q] = talk[q]
  <2>1. talk[p] \in [pc : {"storing", "counting", "firing"}, msg : Messages]
    BY <1>1 DEF TriggerInv, TalkInv, TalkOK
  <2>2. \/ talk' = [talk EXCEPT ![p].pc = "counting"]
        \/ talk' = [talk EXCEPT ![p] = Silent]
    BY DEF StoreMessage
  <2>3. /\ talk'[p] = Silent \/ (talk'[p].pc = "counting" /\ talk'[p].msg = talk[p].msg)
        /\ \A q \in Talkers : q # p => talk'[q] = talk[q]
    BY <2>1, <2>2 DEF TriggerInv, TalkInv, TalkOK
  <2> QED BY <1>1, <2>3
<1>4. msgs' \subseteq msgs \cup {m}
  BY DEF StoreMessage
<1>5. /\ m.at <= clock
      /\ \A k \in msgs : k.at # m.at
      /\ \A j \in jobs : j.trigger.at # m.at
      /\ \A q \in Talkers : q # p /\ talk[q] # Silent => talk[q].msg.at # m.at
  BY <1>1 DEF TriggerInv, TimesApart
<1> HIDE DEF m
<1>6. TimesApart'
  <2>1. \A a, b \in msgs' : a.at = b.at => a = b
    BY <1>4, <1>5 DEF TriggerInv, TimesApart
  <2>2. \A a \in msgs' : a.at <= clock
    BY <1>4, <1>5 DEF TriggerInv, TimesApart
  <2>3. ASSUME NEW q \in Talkers, talk'[q] # Silent
        PROVE  /\ talk'[q].msg.at <= clock
               /\ \A o \in Talkers : o # q /\ talk'[o] # Silent => talk'[o].msg.at # talk'[q].msg.at
               /\ talk'[q].pc = "storing" =>
                    /\ \A a \in msgs' : a.at # talk'[q].msg.at
                    /\ \A j \in jobs : j.trigger.at # talk'[q].msg.at
    <3>1. talk[q] # Silent /\ talk'[q].msg = talk[q].msg
      BY <1>3, <2>3
    <3>2. talk[q].msg.at <= clock
      BY <3>1 DEF TriggerInv, TimesApart
    <3>3. \A o \in Talkers : o # q /\ talk'[o] # Silent => talk'[o].msg.at # talk'[q].msg.at
      BY <1>3, <3>1 DEF TriggerInv, TimesApart
    <3>4. ASSUME talk'[q].pc = "storing"
          PROVE  /\ \A a \in msgs' : a.at # talk'[q].msg.at
                 /\ \A j \in jobs : j.trigger.at # talk'[q].msg.at
      <4>1. q # p /\ talk'[q] = talk[q] /\ talk[q].pc = "storing"
        BY <1>3, <2>3, <3>4
      <4>2. /\ \A a \in msgs : a.at # talk[q].msg.at
            /\ \A j \in jobs : j.trigger.at # talk[q].msg.at
        BY <3>1, <4>1 DEF TriggerInv, TimesApart
      <4>3. talk[q].msg.at # m.at
        BY <1>5, <3>1, <4>1
      <4> QED BY <1>4, <4>1, <4>2, <4>3
    <3> QED BY <3>1, <3>2, <3>3, <3>4
  <2> QED BY <1>2, <2>1, <2>2, <2>3 DEF TriggerInv, TimesApart
<1>7. WindowsOK'
  <2>1. ASSUME NEW j \in jobs PROVE WindowOK(msgs', j)
    <3>1. WindowOK(msgs, j)
      BY DEF TriggerInv, WindowsOK
    <3>2. j.trigger \in msgs' => j.trigger \in msgs
      BY <1>4, <1>5
    <3> QED BY <3>1, <3>2 DEF WindowOK
  <2> QED BY <1>2, <2>1 DEF WindowsOK
<1> QED BY <1>2, <1>6, <1>7 DEF TriggerInv

(* An extraction that is launched, or goes on with a window that fits.     *)
LEMMA TriggerJobs ==
  ASSUME TriggerInv, TalkInv', UNCHANGED <<msgs, clock, cfg>>, NEW new, WindowOK(msgs, new),
         jobs' \subseteq jobs \cup {new}, new.trigger.at <= clock,
         \A q \in Talkers : talk'[q] # Silent =>
           /\ talk'[q] = talk[q]
           /\ talk[q].pc = "storing" => new.trigger.at # talk[q].msg.at
  PROVE  TriggerInv'
<1>1. TimesApart'
  BY DEF TriggerInv, TimesApart
<1>2. WindowsOK'
  BY DEF TriggerInv, WindowsOK
<1> QED BY <1>1, <1>2 DEF TriggerInv

LEMMA TriggerFires ==
  ASSUME TriggerInv, TalkInv', NEW p \in Talkers, Fire(p)
  PROVE  TriggerInv'
<1> DEFINE new == [pc |-> "reading", trigger |-> talk[p].msg,
                   size |-> cfg.window, window |-> <<>>, todo |-> {}]
<1>1. talk[p] # Silent /\ talk[p].pc = "firing" /\ talk[p].msg \in Messages
  <2>1. talk[p] # Silent /\ talk[p].pc = "firing"
    BY DEF Fire, Silent
  <2> QED BY <2>1 DEF TriggerInv, TalkInv, TalkOK
<1>2. /\ UNCHANGED <<msgs, clock, cfg>> /\ jobs' \subseteq jobs \cup {new}
      /\ talk' = [talk EXCEPT ![p] = Silent]
  BY DEF Fire
<1>3. /\ new.trigger = talk[p].msg /\ new.pc = "reading" /\ new.window = <<>>
      /\ DOMAIN new.window = {}
  OBVIOUS
<1>4. new \in Jobs
  <2>1. cfg.window \in Nat
    BY SessionsAssumption DEF TriggerInv, Off
  <2>2. <<>> \in Seq(Messages) /\ {} \in SUBSET FactIds
    BY EmptySeq
  <2> QED BY <1>1, <2>1, <2>2 DEF Jobs
<1> HIDE DEF new
<1>5. WindowOK(msgs, new)
  BY <1>3, <1>4 DEF WindowOK, Ordered
<1>6. new.trigger.at <= clock
  BY <1>1, <1>3 DEF TriggerInv, TimesApart
<1>7. \A q \in Talkers : talk'[q] # Silent => q # p /\ talk'[q] = talk[q]
  BY <1>2 DEF TriggerInv, TalkInv, TalkOK
<1>8. \A q \in Talkers : q # p /\ talk[q] # Silent => new.trigger.at # talk[q].msg.at
  BY <1>1, <1>3 DEF TriggerInv, TimesApart
<1>9. \A q \in Talkers : talk'[q] # Silent =>
        talk'[q] = talk[q] /\ new.trigger.at # talk[q].msg.at
  BY <1>7, <1>8
<1> QED BY <1>2, <1>5, <1>6, <1>9, TriggerJobs

(* A job that takes the place of one with the same trigger.                *)
LEMMA TriggerWorks ==
  ASSUME TriggerInv, TalkInv', UNCHANGED <<msgs, clock, cfg, talk>>, NEW j \in jobs, NEW new,
         WindowOK(msgs, new), new.trigger = j.trigger,
         jobs' \subseteq jobs \cup {new}
  PROVE  TriggerInv'
<1>1. new.trigger.at <= clock
  BY DEF TriggerInv, TimesApart
<1>2. \A q \in Talkers : talk'[q] # Silent =>
        talk'[q] = talk[q] /\ (talk[q].pc = "storing" => new.trigger.at # talk[q].msg.at)
  BY DEF TriggerInv, TimesApart
<1> QED BY <1>1, <1>2, TriggerJobs

LEMMA TriggerReads ==
  ASSUME TriggerInv, TalkInv', NEW j \in jobs, ReadWindow(j)
  PROVE  TriggerInv'
<1> DEFINE w == History(j.trigger.session, j.size)
           new == [j EXCEPT !.pc = "extracting", !.window = w]
<1>1. j \in Jobs /\ WindowOK(msgs, j)
  BY DEF TriggerInv, WindowsOK, WindowOK
<1>2. j.trigger.session \in Sessions /\ j.size \in Nat
  BY <1>1 DEF Jobs, Messages
<1>3. /\ w \in Seq(Messages)
      /\ \A i \in DOMAIN w : w[i].session = j.trigger.session
      /\ Ordered(w)
      /\ \A m \in msgs : m.session = j.trigger.session => Sees(w, j.size, m)
  BY <1>2, HistorySees DEF TriggerInv
<1>4. jobs' \subseteq jobs \cup {new}
  BY DEF ReadWindow
<1> HIDE DEF w
<1>5. /\ new \in Jobs /\ new.trigger = j.trigger /\ new.window = w /\ new.size = j.size
  BY <1>1, <1>3 DEF Jobs
<1> HIDE DEF new
<1>6. WindowOK(msgs, new)
  BY <1>3, <1>5 DEF WindowOK
<1> QED BY <1>4, <1>5, <1>6, TriggerWorks DEF ReadWindow

LEMMA TriggerExtracts ==
  ASSUME TriggerInv, TalkInv', NEW j \in jobs, ExtractFacts(j)
  PROVE  TriggerInv'
<1>1. WindowOK(msgs, j) /\ j \in Jobs /\ j.pc = "extracting"
  BY DEF TriggerInv, WindowsOK, WindowOK, ExtractFacts
<1>2. PICK found \in SUBSET FactIds :
        jobs' = (jobs \ {j}) \cup
                 (IF found = {} THEN {} ELSE {[j EXCEPT !.pc = "saving", !.todo = found]})
  BY DEF ExtractFacts
<1> DEFINE new == [j EXCEPT !.pc = "saving", !.todo = found]
<1>3. jobs' \subseteq jobs \cup {new}
  BY <1>2
<1>4. /\ new \in Jobs /\ new.trigger = j.trigger /\ new.window = j.window
      /\ new.size = j.size
  BY <1>1 DEF Jobs
<1> HIDE DEF new
<1>5. WindowOK(msgs, new)
  BY <1>1, <1>4 DEF WindowOK
<1> QED BY <1>3, <1>4, <1>5, TriggerWorks DEF ExtractFacts

LEMMA TriggerRetains ==
  ASSUME TriggerInv, TalkInv', NEW j \in jobs, NEW f \in j.todo, Retain(j, f)
  PROVE  TriggerInv'
<1> DEFINE new == [j EXCEPT !.todo = @ \ {f}]
<1>1. WindowOK(msgs, j) /\ j \in Jobs /\ j.pc = "saving"
  BY DEF TriggerInv, WindowsOK, WindowOK, Retain
<1>2. jobs' \subseteq jobs \cup {new}
  BY DEF Retain
<1>3. /\ new \in Jobs /\ new.trigger = j.trigger /\ new.window = j.window
      /\ new.size = j.size
  BY <1>1 DEF Jobs
<1> HIDE DEF new
<1>4. WindowOK(msgs, new)
  BY <1>1, <1>3 DEF WindowOK
<1> QED BY <1>2, <1>3, <1>4, TriggerWorks DEF Retain

LEMMA TriggerCounts ==
  ASSUME TriggerInv, TalkInv', NEW p \in Talkers, CountMessage(p)
  PROVE  TriggerInv'
<1>1. talk[p] # Silent /\ UNCHANGED <<msgs, clock, cfg, jobs>>
  BY DEF CountMessage, Silent
<1>2. talk[p] \in [pc : {"storing", "counting", "firing"}, msg : Messages]
  BY <1>1 DEF TriggerInv, TalkInv, TalkOK
<1>3. \/ talk' = [talk EXCEPT ![p].pc = "firing"]
      \/ talk' = [talk EXCEPT ![p] = Silent]
  BY DEF CountMessage
<1>4. /\ talk'[p] = Silent \/ (talk'[p].pc = "firing" /\ talk'[p].msg = talk[p].msg)
      /\ \A q \in Talkers : q # p => talk'[q] = talk[q]
  BY <1>2, <1>3 DEF TriggerInv, TalkInv, TalkOK
<1>5. \A q \in Talkers : talk'[q] # Silent =>
        /\ talk[q] # Silent /\ talk'[q].msg = talk[q].msg
        /\ talk'[q].pc = "storing" => talk[q].pc = "storing"
  BY <1>1, <1>4
<1>6. cfg' \in Settings \cup {Off}
  BY <1>1 DEF TriggerInv
<1> QED BY <1>1, <1>5, <1>6, TriggerGoesOn

LEMMA TriggerStep == TriggerInv /\ [Next]_vars => TriggerInv'
<1> SUFFICES ASSUME TriggerInv, [Next]_vars PROVE TriggerInv'
  OBVIOUS
<1>1. TalkInv'
  BY TalkStep DEF TriggerInv
<1>2. ASSUME UNCHANGED <<clock, jobs, talk>>, msgs' \subseteq msgs, cfg' \in Settings \cup {Off}
      PROVE  TriggerInv'
  BY <1>1, <1>2, TriggerGoesOn
<1>3. cfg \in Settings \cup {Off}
  BY DEF TriggerInv
<1>4. CASE UNCHANGED sessionVars
  BY <1>2, <1>3, <1>4 DEF sessionVars
<1>5. CASE TalkNext
  <2>1. ASSUME NEW s \in Sessions, CreateSession(s) \/ DeleteSession(s) PROVE TriggerInv'
    BY <1>2, <1>3, <2>1 DEF CreateSession, DeleteSession
  <2>2. ASSUME NEW m \in msgs, DeleteMessage(m) PROVE TriggerInv'
    BY <1>2, <1>3, <2>2 DEF DeleteMessage
  <2>3. ASSUME NEW c \in Settings, SetAutoRetain(c) PROVE TriggerInv'
    BY <1>2, <2>3 DEF SetAutoRetain
  <2> QED
    BY <1>1, <1>5, <2>1, <2>2, <2>3, TriggerSays, TriggerStores, TriggerCounts, TriggerFires,
       TriggerReads, TriggerExtracts, TriggerRetains DEF TalkNext
<1>6. CASE SessionsRestart
  <2>1. /\ UNCHANGED <<msgs, clock>> /\ cfg' = Off /\ jobs' = {}
        /\ \A p \in Talkers : talk'[p] = Silent
    BY <1>6 DEF SessionsRestart
  <2> QED BY <1>1, <2>1 DEF TriggerInv, TimesApart, WindowsOK
<1> QED BY <1>4, <1>5, <1>6 DEF Next, Forget, Restart, vars

(* An extraction works on the message that fired it, unless it has been    *)
(* deleted or a whole window of newer ones has come since.                 *)
THEOREM TriggersAreSeen == Spec => []TriggerSeen
<1>1. TriggerInv => TriggerSeen
  BY DEF TriggerInv, WindowsOK, WindowOK, Sees, TriggerSeen
<1>2. QED
  BY <1>1, TriggerInit, TriggerStep, PTL DEF Spec

-----------------------------------------------------------------------------
(* A counter never gets ahead of the messages there have been.             *)

CountInv == TalkInv /\ CountOK

LEMMA CountInit == Init => CountInv
<1> SUFFICES ASSUME Init PROVE CountInv
  OBVIOUS
<1>1. Pending = {}
  BY DEF Init, SessionsInit, Pending
<1>2. IsFiniteSet(Pending) /\ Cardinality(Pending) = 0
  BY <1>1, FS_EmptySet
<1> QED BY <1>2, TalkInit DEF Init, SessionsInit, CountInv, CountOK

LEMMA CountStays ==
  ASSUME CountInv, TalkInv', UNCHANGED <<counter, clock>>,
         \A p \in Talkers : talk'[p] # Silent /\ talk'[p].pc \in {"storing", "counting"} =>
           talk[p] # Silent /\ talk[p].pc \in {"storing", "counting"}
  PROVE  CountInv'
<1>1. Pending' \in SUBSET Pending
  BY DEF Pending
<1>2. IsFiniteSet(Pending)
  BY DEF CountInv, CountOK
<1>3. IsFiniteSet(Pending') /\ Cardinality(Pending') <= Cardinality(Pending)
  BY <1>1, <1>2, FS_Subset
<1>4. Cardinality(Pending') \in Nat /\ Cardinality(Pending) \in Nat /\ clock \in Nat
  BY <1>2, <1>3, FS_CardinalityType, SessionsAssumption DEF CountInv, TalkInv, TalkOK
<1>5. ASSUME NEW s \in Sessions PROVE counter[s] + Cardinality(Pending') <= clock
  <2>1. counter[s] \in Nat /\ counter[s] + Cardinality(Pending) <= clock
    BY DEF CountInv, CountOK
  <2> QED BY <1>3, <1>4, <2>1
<1> QED BY <1>3, <1>5 DEF CountInv, CountOK

LEMMA CountSays ==
  ASSUME CountInv, TalkInv', NEW p \in Talkers, NEW s \in Sessions, NEW heard \in BOOLEAN,
         Say(p, s, heard)
  PROVE  CountInv'
<1>1. /\ talk[p] = Silent /\ clock' = clock + 1 /\ UNCHANGED counter
      /\ talk'[p] # Silent /\ talk'[p].pc = "storing"
      /\ \A q \in Talkers : q # p => talk'[q] = talk[q]
  BY DEF Say, CountInv, TalkInv, TalkOK, Silent
<1>2. Pending' = Pending \cup {p} /\ p \notin Pending
  BY <1>1 DEF Pending
<1>3. IsFiniteSet(Pending) /\ clock \in Nat
  BY SessionsAssumption DEF CountInv, CountOK, TalkInv, TalkOK
<1>4. /\ IsFiniteSet(Pending') /\ Cardinality(Pending') = Cardinality(Pending) + 1
      /\ Cardinality(Pending) \in Nat
  BY <1>2, <1>3, FS_AddElement, FS_CardinalityType
<1>5. ASSUME NEW t \in Sessions PROVE counter[t] + Cardinality(Pending') <= clock'
  <2>1. counter[t] \in Nat /\ counter[t] + Cardinality(Pending) <= clock
    BY DEF CountInv, CountOK
  <2> QED BY <1>1, <1>3, <1>4, <2>1
<1> QED BY <1>1, <1>4, <1>5 DEF CountInv, CountOK

LEMMA CountCounts ==
  ASSUME CountInv, TalkInv', NEW p \in Talkers, CountMessage(p)
  PROVE  CountInv'
<1>1. talk[p] # Silent /\ talk[p].pc = "counting" /\ UNCHANGED clock
  BY DEF CountMessage, Silent
<1>2. talk[p] \in [pc : {"storing", "counting", "firing"}, msg : Messages]
  BY <1>1 DEF CountInv, TalkInv, TalkOK
<1>3. \/ talk' = [talk EXCEPT ![p].pc = "firing"]
      \/ talk' = [talk EXCEPT ![p] = Silent]
  BY DEF CountMessage
<1>4. /\ talk'[p] = Silent \/ talk'[p].pc = "firing"
      /\ \A q \in Talkers : q # p => talk'[q] = talk[q]
  BY <1>2, <1>3 DEF CountInv, TalkInv, TalkOK
<1>5. Pending' = Pending \ {p} /\ p \in Pending
  BY <1>1, <1>4 DEF Pending
<1>6. IsFiniteSet(Pending) /\ clock \in Nat
  BY SessionsAssumption DEF CountInv, CountOK, TalkInv, TalkOK
<1>7. /\ IsFiniteSet(Pending') /\ Cardinality(Pending') = Cardinality(Pending) - 1
      /\ Cardinality(Pending) \in Nat
  BY <1>5, <1>6, FS_RemoveElement, FS_CardinalityType
<1>8. \/ UNCHANGED counter
      \/ counter' = [counter EXCEPT ![talk[p].msg.session] = @ + 1]
  BY DEF CountMessage
<1>9. counter' \in [Sessions -> Nat] /\ \A t \in Sessions : counter'[t] <= counter[t] + 1
  BY <1>8 DEF CountInv, CountOK
<1>10. ASSUME NEW t \in Sessions PROVE counter'[t] + Cardinality(Pending') <= clock'
  <2>1. /\ counter[t] \in Nat /\ counter[t] + Cardinality(Pending) <= clock
        /\ counter'[t] \in Nat /\ counter'[t] <= counter[t] + 1
    BY <1>9 DEF CountInv, CountOK
  <2> QED BY <1>1, <1>6, <1>7, <2>1
<1> QED BY <1>7, <1>9, <1>10 DEF CountInv, CountOK

LEMMA CountStep == CountInv /\ [Next]_vars => CountInv'
<1> SUFFICES ASSUME CountInv, [Next]_vars PROVE CountInv'
  OBVIOUS
<1>1. TalkInv'
  BY TalkStep DEF CountInv
<1>2. ASSUME UNCHANGED <<clock, counter, talk>> PROVE CountInv'
  BY <1>1, <1>2, CountStays
<1>3. CASE UNCHANGED sessionVars
  BY <1>2, <1>3 DEF sessionVars
<1>4. CASE TalkNext
  <2>1. ASSUME NEW p \in Talkers, StoreMessage(p) \/ Fire(p) PROVE CountInv'
    <3>1. /\ talk[p] # Silent /\ UNCHANGED <<clock, counter>>
          /\ talk[p].pc = "storing" \/ talk' = [talk EXCEPT ![p] = Silent]
      BY <2>1 DEF StoreMessage, Fire, Silent
    <3>2. \A q \in Talkers : q # p => talk'[q] = talk[q]
      BY <2>1 DEF StoreMessage, Fire, CountInv, TalkInv, TalkOK
    <3>3. talk'[p] # Silent => talk[p].pc = "storing"
      BY <3>1 DEF CountInv, TalkInv, TalkOK
    <3> QED BY <1>1, <3>1, <3>2, <3>3, CountStays
  <2>2. ASSUME NEW j \in jobs, NEW f \in j.todo, Retain(j, f) PROVE CountInv'
    BY <1>2, <2>2 DEF Retain
  <2> QED
    BY <1>1, <1>2, <1>4, <2>1, <2>2, CountSays, CountCounts
       DEF TalkNext, CreateSession, DeleteSession, DeleteMessage, SetAutoRetain, ReadWindow,
           ExtractFacts
<1>5. CASE SessionsRestart
  <2>1. /\ UNCHANGED clock /\ counter' = [s \in Sessions |-> 0]
        /\ \A p \in Talkers : talk'[p] = Silent
    BY <1>5 DEF SessionsRestart
  <2>2. Pending' = {}
    BY <2>1 DEF Pending
  <2>3. IsFiniteSet(Pending') /\ Cardinality(Pending') = 0
    BY <2>2, FS_EmptySet
  <2>4. clock \in Nat
    BY SessionsAssumption DEF CountInv, TalkInv, TalkOK
  <2> QED BY <1>1, <2>1, <2>3, <2>4 DEF CountInv, CountOK
<1> QED BY <1>3, <1>4, <1>5 DEF Next, Forget, Restart, vars

LEMMA CountersInRange == CountInv => counter \in [Sessions -> 0..MaxMessages]
<1> SUFFICES ASSUME CountInv PROVE counter \in [Sessions -> 0..MaxMessages]
  OBVIOUS
<1>1. Cardinality(Pending) \in Nat /\ clock \in 0..MaxMessages /\ MaxMessages \in Nat
  BY FS_CardinalityType, SessionsAssumption DEF CountInv, CountOK, TalkInv, TalkOK
<1>2. ASSUME NEW s \in Sessions PROVE counter[s] \in 0..MaxMessages
  <2>1. counter[s] \in Nat /\ counter[s] + Cardinality(Pending) <= clock
    BY DEF CountInv, CountOK
  <2> QED BY <1>1, <2>1
<1> QED BY <1>2 DEF CountInv, CountOK

-----------------------------------------------------------------------------
(* Every workflow has its type.                                            *)

FlowTyped == \A p \in Flows : flow[p] = Free \/ flow[p] \in FlowStates

LEMMA TranscriptPlaces ==
  ASSUME NEW t \in Transcripts
  PROVE  /\ DOMAIN t \subseteq 1..MaxTurns
         /\ Len(Exchanges(t)) \in Nat /\ Len(Exchanges(t)) <= MaxTurns
<1>1. t \in Seq(Turns) /\ Len(t) \in 1..MaxTurns /\ MaxTurns \in Nat
  BY MemoryFlowAssumption, AgentStoreAssumption
<1>2. DOMAIN t = 1..Len(t)
  BY <1>1, LenProperties
<1>3. Len(Exchanges(t)) \in 1..MaxTurns
  BY ExchangesTell
<1> QED BY <1>1, <1>2, <1>3

LEMMA FlowTypedBegins ==
  ASSUME RetellInv, FlowTyped, NEW p \in Flows, NEW s \in Sessions, NEW turns \in Transcripts,
         NEW promote \in BOOLEAN, NEW named \in BOOLEAN, Begin(p, s, turns, promote, named)
  PROVE  FlowTyped'
<1> DEFINE free == \A o \in Flows \ {p} : ~(OnSession(o, s) /\ Busy(o))
<1>1. free \in BOOLEAN
  OBVIOUS
<1> HIDE DEF free
<1> DEFINE new == [pc |-> "saving", session |-> s, turns |-> turns, next |-> 0,
                   promote |-> promote, named |-> named, todo |-> {}, promoted |-> {},
                   alone |-> free]
<1>2. new \in FlowStates
  BY <1>1, AgentStoreAssumption DEF FlowStates
<1>3. /\ flow'[p] = new
      /\ \A q \in Flows : q # p =>
           flow'[q] = IF OnSession(q, s) THEN [flow[q] EXCEPT !.alone = FALSE] ELSE flow[q]
  BY DEF Begin, free
<1> HIDE DEF new
<1>4. ASSUME NEW q \in Flows, q # p PROVE flow'[q] = Free \/ flow'[q] \in FlowStates
  <2>1. CASE OnSession(q, s)
    <3>1. flow[q] \in FlowStates
      BY <2>1 DEF FlowTyped, OnSession
    <3>2. flow'[q] = [flow[q] EXCEPT !.alone = FALSE]
      BY <1>3, <1>4, <2>1
    <3>3. [flow[q] EXCEPT !.alone = FALSE] \in FlowStates
      BY <3>1 DEF FlowStates
    <3> QED BY <3>2, <3>3
  <2>2. CASE ~OnSession(q, s)
    BY <1>3, <1>4, <2>2 DEF FlowTyped
  <2> QED BY <2>1, <2>2
<1> QED BY <1>2, <1>3, <1>4 DEF FlowTyped

LEMMA FlowTypedGoesOn ==
  ASSUME RetellInv, FlowTyped, NEW p \in Flows, NEW new, flow' = [flow EXCEPT ![p] = new],
         new = Free \/ new \in FlowStates
  PROVE  FlowTyped'
BY DEF RetellInv, FlowShapes, FlowOK, FlowTyped

LEMMA FlowTypedSaves ==
  ASSUME RetellInv, FlowTyped, NEW p \in Flows, SaveEpisode(p)
  PROVE  FlowTyped'
<1> DEFINE f == flow[p]
<1>1. f.pc = "saving" /\ f # Free /\ f \in FlowStates
  BY DEF SaveEpisode, FlowTyped, Free
<1>2. f.turns \in Transcripts /\ f.next < Len(Exchanges(f.turns)) /\ f.next \in Nat
  BY <1>1 DEF RetellInv, Retells, FlowShapes, FlowOK
<1>3. f.next + 1 \in 0..MaxTurns
  BY <1>2, TranscriptPlaces, AgentStoreAssumption
<1>4. Saved(f) \in FlowStates
  BY <1>1, <1>3 DEF Saved, FlowStates
<1>5. flow' = [flow EXCEPT ![p] = Saved(f)] \/ flow' = [flow EXCEPT ![p] = Free]
  BY DEF SaveEpisode
<1> QED BY <1>4, <1>5, FlowTypedGoesOn

LEMMA FlowTypedExtracts ==
  ASSUME RetellInv, FlowTyped, NEW p \in Flows, ExtractKnowledge(p)
  PROVE  FlowTyped'
<1> DEFINE f == flow[p]
<1>1. f.pc = "extracting" /\ f # Free
  BY DEF ExtractKnowledge, Free
<1>2. f \in FlowStates /\ f.turns \in Transcripts
  BY <1>1 DEF FlowTyped, RetellInv, Retells
<1>3. CASE flow' = [flow EXCEPT ![p] = Free]
  BY <1>3, FlowTypedGoesOn
<1>4. ASSUME NEW kept \in SUBSET Notes, NEW todo, todo = Candidates(f.turns, kept),
             flow' = [flow EXCEPT ![p].todo = todo,
                        ![p].pc = IF todo = {} THEN "returned" ELSE "promoting"]
      PROVE  FlowTyped'
  <2> DEFINE new == [f EXCEPT !.todo = todo,
                       !.pc = IF todo = {} THEN "returned" ELSE "promoting"]
  <2>1. flow' = [flow EXCEPT ![p] = new]
    BY <1>4 DEF RetellInv, FlowShapes, FlowOK
  <2>2. todo \in SUBSET (1..MaxTurns)
    BY <1>2, <1>4, TranscriptPlaces DEF Candidates
  <2>3. new \in FlowStates
    BY <1>2, <2>2 DEF FlowStates
  <2> HIDE DEF new
  <2> QED BY <2>1, <2>3, FlowTypedGoesOn
<1> QED BY <1>3, <1>4 DEF ExtractKnowledge

LEMMA FlowTypedPromotes ==
  ASSUME RetellInv, FlowTyped, NEW p \in Flows, NEW i, Promote(p, i)
  PROVE  FlowTyped'
<1> DEFINE f == flow[p]
           dealt == Dealt(f, i)
           told == [dealt EXCEPT !.promoted = @ \cup {i}]
<1>1. f.pc = "promoting" /\ f # Free /\ i \in f.todo
  BY DEF Promote, Free, NextCandidate
<1>2. f \in FlowStates
  BY <1>1 DEF FlowTyped
<1>3. dealt \in FlowStates /\ i \in 1..MaxTurns
  BY <1>1, <1>2 DEF Dealt, FlowStates
<1>4. flow' = [flow EXCEPT ![p] = dealt] \/ flow' = [flow EXCEPT ![p] = told]
  BY DEF Promote
<1> HIDE DEF dealt
<1>5. told \in FlowStates
  BY <1>3 DEF FlowStates
<1> HIDE DEF told
<1> QED BY <1>3, <1>4, <1>5, FlowTypedGoesOn

LEMMA FlowTypedForgets ==
  ASSUME RetellInv, FlowTyped, NEW m, Forget(m)
  PROVE  FlowTyped'
<1>1. CASE m[1] = "episode"
  <2>1. flow' = [p \in Flows |-> IF OnSession(p, m[2])
                                 THEN [flow[p] EXCEPT !.alone = FALSE] ELSE flow[p]]
    BY <1>1 DEF Forget
  <2>2. ASSUME NEW q \in Flows PROVE flow'[q] = Free \/ flow'[q] \in FlowStates
    <3>1. CASE OnSession(q, m[2])
      <4>1. flow[q] \in FlowStates
        BY <3>1 DEF FlowTyped, OnSession
      <4>2. [flow[q] EXCEPT !.alone = FALSE] \in FlowStates
        BY <4>1 DEF FlowStates
      <4> QED BY <2>1, <3>1, <4>2
    <3>2. CASE ~OnSession(q, m[2])
      BY <2>1, <3>2 DEF FlowTyped
    <3> QED BY <3>1, <3>2
  <2> QED BY <2>2 DEF FlowTyped
<1>2. CASE m[1] # "episode"
  BY <1>2 DEF Forget, FlowTyped
<1> QED BY <1>1, <1>2

LEMMA FlowTypedStep == RetellInv /\ FlowTyped /\ [Next]_vars => FlowTyped'
<1> SUFFICES ASSUME RetellInv, FlowTyped, [Next]_vars PROVE FlowTyped'
  OBVIOUS
<1>1. CASE UNCHANGED flow
  BY <1>1 DEF FlowTyped
<1>2. CASE FlowNext
  <2>1. ASSUME NEW p \in Flows, NEW s \in Sessions, NEW t \in Transcripts,
               IngestTranscript(p, s, t)
        PROVE  FlowTyped'
    BY <2>1, FlowTypedBegins DEF IngestTranscript
  <2>2. ASSUME NEW p \in Flows, NEW s \in Sessions, NEW t \in Transcripts,
               NEW named \in BOOLEAN, CloseSession(p, s, t, named)
        PROVE  FlowTyped'
    BY <2>2, FlowTypedBegins DEF CloseSession
  <2> QED
    BY <1>2, <2>1, <2>2, FlowTypedSaves, FlowTypedPromotes, FlowTypedExtracts DEF FlowNext
<1>3. ASSUME NEW m \in MemoryIds, Forget(m) PROVE FlowTyped'
  BY <1>3, FlowTypedForgets
<1>4. CASE Restart
  BY <1>4 DEF Restart, FlowRestart, FlowTyped
<1> QED BY <1>1, <1>2, <1>3, <1>4 DEF Next, vars

-----------------------------------------------------------------------------
(* Every consolidation has its type.                                       *)

KeepStates == [pc : {"recall", "reflect", "remember", "promote"}, req : Requests,
               hits : SUBSET MemoryIds, summary : SummaryContents]

KeepTyped ==
  /\ keep = [p \in Keepers |-> keep[p]]
  /\ \A p \in Keepers : keep[p] = Resting \/ keep[p] \in KeepStates

LEMMA KeepTypedInit == Init => KeepTyped
BY DEF Init, KeeperInit, KeepTyped

LEMMA KeepTypedGoesOn ==
  ASSUME KeepTyped, NEW p \in Keepers, NEW new, keep' = [keep EXCEPT ![p] = new],
         new = Resting \/ new \in KeepStates
  PROVE  KeepTyped'
BY DEF KeepTyped

LEMMA KeepTypedReflects ==
  ASSUME KeepTyped, NEW p \in Keepers, Reflect(p)
  PROVE  KeepTyped'
<1> DEFINE k == keep[p]
<1>1. k \in KeepStates
  BY DEF Reflect, KeepTyped, Resting
<1>2. PICK found \in Sample(KnowledgeHits, TopKKnowledge) :
        \E summary \in Summaries(k.hits, found) :
          keep' = [keep EXCEPT ![p] =
                     IF summary.facts = {} THEN Resting
                     ELSE [@ EXCEPT !.pc = "remember", !.summary = summary]]
  BY DEF Reflect
<1>3. PICK summary \in Summaries(k.hits, found) :
          keep' = [keep EXCEPT ![p] =
                     IF summary.facts = {} THEN Resting
                     ELSE [@ EXCEPT !.pc = "remember", !.summary = summary]]
  BY <1>2
<1>4. found \subseteq KnowledgeIds /\ k.hits \subseteq MemoryIds
  BY <1>1 DEF Sample, KnowledgeHits, KeepStates
<1>5. summary \in SummaryContents
  <2>1. PICK f \in Best(k.hits, MaxFacts),
             g \in Best(found, MaxFacts - Min({MaxFacts, Cardinality(k.hits)})) :
               summary = [facts |-> f \cup g, sources |-> PackIDs(k.hits, found)]
    BY DEF Summaries
  <2>2. f \subseteq k.hits /\ g \subseteq found
    BY DEF Best
  <2> QED BY <1>4, <2>1, <2>2 DEF PackIDs, SummaryContents
<1> DEFINE new == [k EXCEPT !.pc = "remember", !.summary = summary]
<1>6. new \in KeepStates
  BY <1>1, <1>5 DEF KeepStates
<1>7. keep' = [keep EXCEPT ![p] = Resting] \/ keep' = [keep EXCEPT ![p] = new]
  BY <1>3
<1> HIDE DEF new
<1> QED BY <1>6, <1>7, KeepTypedGoesOn

LEMMA KeepTypedStep == KeepTyped /\ [Next]_vars => KeepTyped'
<1> SUFFICES ASSUME KeepTyped, [Next]_vars PROVE KeepTyped'
  OBVIOUS
<1>1. CASE UNCHANGED keep
  BY <1>1 DEF KeepTyped
<1>2. ASSUME NEW p \in Keepers, NEW r \in Requests, Consolidate(p, r) PROVE KeepTyped'
  <2> DEFINE new == [pc |-> "recall", req |-> r, hits |-> {}, summary |-> NoSummary]
  <2>1. new \in KeepStates
    BY DEF KeepStates, NoSummary, SummaryContents
  <2>2. keep' = [keep EXCEPT ![p] = new]
    BY <1>2 DEF Consolidate
  <2> HIDE DEF new
  <2> QED BY <2>1, <2>2, KeepTypedGoesOn
<1>3. ASSUME NEW p \in Keepers, RecallMemories(p) PROVE KeepTyped'
  <2> DEFINE k == keep[p]
  <2>1. k \in KeepStates
    BY <1>3 DEF RecallMemories, KeepTyped, Resting
  <2>2. PICK found \in Sample(Hits(Bucket(k.req.reflect, k.req.namespace)), TopKMemories) :
          keep' = [keep EXCEPT ![p].pc = "reflect", ![p].hits = found]
    BY <1>3 DEF RecallMemories
  <2>3. found \subseteq MemoryIds
    BY DEF Sample, Hits
  <2> DEFINE new == [k EXCEPT !.pc = "reflect", !.hits = found]
  <2>4. new \in KeepStates
    BY <2>1, <2>3 DEF KeepStates
  <2>5. keep' = [keep EXCEPT ![p] = new]
    BY <2>2 DEF KeepTyped
  <2> HIDE DEF new
  <2> QED BY <2>4, <2>5, KeepTypedGoesOn
<1>4. ASSUME NEW p \in Keepers, Remember(p) PROVE KeepTyped'
  <2> DEFINE k == keep[p]  new == [k EXCEPT !.pc = "promote"]
  <2>1. k \in KeepStates
    BY <1>4 DEF Remember, KeepTyped, Resting
  <2>2. new \in KeepStates
    BY <2>1 DEF KeepStates
  <2>3. keep' = [keep EXCEPT ![p] = new] \/ keep' = [keep EXCEPT ![p] = Resting]
    BY <1>4 DEF Remember
  <2> HIDE DEF new
  <2> QED BY <2>2, <2>3, KeepTypedGoesOn
<1>5. ASSUME NEW p \in Keepers, PromoteSummary(p) PROVE KeepTyped'
  BY <1>5, KeepTypedGoesOn DEF PromoteSummary
<1>6. CASE Restart
  BY <1>6 DEF Restart, KeeperRestart, KeepTyped
<1> QED
  BY <1>1, <1>2, <1>3, <1>4, <1>5, <1>6, KeepTypedReflects
     DEF Next, KeeperNext, Forget, vars, keeperVars

-----------------------------------------------------------------------------
(* The memories fit their IDs.                                             *)

MemoryFits(m, r) == r.bucket \in Buckets /\ r.content \in ContentsOf(m)

(* What FactsOfOneTalk asks of a fact.                                     *)
OneTalk(r) ==
  /\ r.bucket[2] = "auto-retained"
  /\ \A i \in DOMAIN r.content : r.content[i].session = r.bucket[1]
  /\ \A i, j \in DOMAIN r.content : i < j => r.content[i].at < r.content[j].at

StoreTyped ==
  /\ listed \subseteq Buckets \X MemoryIds
  /\ \A m \in MemoryIds : m \in DOMAIN mem =>
       MemoryFits(m, mem[m]) /\ <<mem[m].bucket, m>> \in listed
  /\ \A f \in FactIds : Fact(f) \in DOMAIN mem => OneTalk(mem[Fact(f)])

LEMMA Contents ==
  /\ \A f : ContentsOf(Fact(f)) = Seq(Messages)
  /\ \A s, n : ContentsOf(Episode(s, n)) = Seq(Turns)
  /\ \A s : ContentsOf(Summary(s)) = SummaryContents
BY DEF ContentsOf, Fact, Episode, Summary

LEMMA StoreStays ==
  StoreTyped /\ UNCHANGED <<mem, listed>> => StoreTyped'
BY DEF StoreTyped

LEMMA StoreSaves ==
  ASSUME StoreTyped, NEW m \in MemoryIds, NEW bucket \in Buckets, NEW content \in ContentsOf(m),
         SaveMemory(m, bucket, content),
         \A f \in FactIds : m = Fact(f) => OneTalk([bucket |-> bucket, content |-> content])
  PROVE  StoreTyped'
<1> DEFINE r == [bucket |-> bucket, content |-> content]
<1>1. /\ \A x : x \in DOMAIN mem' <=> x \in DOMAIN mem \/ x = m
      /\ mem'[m] = r
      /\ \A x \in DOMAIN mem : x # m => mem'[x] = mem[x]
      /\ listed' = listed \cup {<<bucket, m>>}
  BY DEF SaveMemory
<1>2. r.bucket = bucket /\ r.content = content
  OBVIOUS
<1>3. MemoryFits(m, r)
  BY <1>2 DEF MemoryFits
<1>4. \A f \in FactIds : m = Fact(f) => OneTalk(r)
  OBVIOUS
<1> HIDE DEF r
<1>5. listed' \subseteq Buckets \X MemoryIds
  BY <1>1 DEF StoreTyped
<1>6. ASSUME NEW x \in MemoryIds, x \in DOMAIN mem'
      PROVE  MemoryFits(x, mem'[x]) /\ <<mem'[x].bucket, x>> \in listed'
  <2>1. CASE x = m
    BY <1>1, <1>2, <1>3, <2>1
  <2>2. CASE x # m
    BY <1>1, <1>6, <2>2 DEF StoreTyped
  <2> QED BY <2>1, <2>2
<1>7. ASSUME NEW f \in FactIds, Fact(f) \in DOMAIN mem' PROVE OneTalk(mem'[Fact(f)])
  <2>1. CASE Fact(f) = m
    BY <1>1, <1>4, <2>1
  <2>2. CASE Fact(f) # m
    <3>1. Fact(f) \in DOMAIN mem /\ mem'[Fact(f)] = mem[Fact(f)]
      BY <1>1, <1>7, <2>2
    <3> QED BY <3>1 DEF StoreTyped
  <2> QED BY <2>1, <2>2
<1> QED BY <1>5, <1>6, <1>7 DEF StoreTyped

LEMMA StoreDeletes ==
  ASSUME StoreTyped, NEW m, DeleteMemory(m)
  PROVE  StoreTyped'
<1>1. \A x : x \in DOMAIN mem' => x \in DOMAIN mem /\ mem'[x] = mem[x] /\ x # m
  BY DEF DeleteMemory, Restrict
<1>2. listed' \subseteq listed
  BY DEF DeleteMemory
<1>3. \A x, b : <<b, x>> \in listed /\ x # m => <<b, x>> \in listed'
  BY DEF DeleteMemory
<1>4. ASSUME NEW x \in MemoryIds, x \in DOMAIN mem'
      PROVE  MemoryFits(x, mem'[x]) /\ <<mem'[x].bucket, x>> \in listed'
  <2>1. x \in DOMAIN mem /\ mem'[x] = mem[x] /\ x # m
    BY <1>1, <1>4
  <2>2. MemoryFits(x, mem[x]) /\ <<mem[x].bucket, x>> \in listed
    BY <2>1 DEF StoreTyped
  <2> QED BY <1>3, <2>1, <2>2
<1>5. ASSUME NEW f \in FactIds, Fact(f) \in DOMAIN mem' PROVE OneTalk(mem'[Fact(f)])
  <2>1. Fact(f) \in DOMAIN mem /\ mem'[Fact(f)] = mem[Fact(f)]
    BY <1>1, <1>5
  <2> QED BY <2>1 DEF StoreTyped
<1> QED BY <1>2, <1>4, <1>5 DEF StoreTyped

LEMMA BucketsOf ==
  ASSUME NEW s \in Sessions \cup {NoSession}, NEW ns \in Namespaces
  PROVE  Bucket(s, ns) \in Buckets /\ Bucket(s, ns)[1] = s /\ Bucket(s, ns)[2] = ns
BY DEF Bucket, Buckets

LEMMA StoreRetains ==
  ASSUME TriggerInv, StoreTyped, NEW j \in jobs, NEW f \in j.todo, Retain(j, f)
  PROVE  StoreTyped'
<1> DEFINE b == Bucket(j.trigger.session, "auto-retained")
<1>1. WindowOK(msgs, j) /\ j \in Jobs
  BY DEF TriggerInv, WindowsOK, WindowOK
<1>2. j.trigger.session \in Sessions /\ j.window \in Seq(Messages) /\ f \in FactIds
  BY <1>1 DEF Jobs, Messages
<1>3. b \in Buckets /\ b[1] = j.trigger.session /\ b[2] = "auto-retained"
  BY <1>2, BucketsOf DEF Namespaces
<1> HIDE DEF b
<1>4. CASE UNCHANGED <<mem, listed>>
  BY <1>4, StoreStays
<1>5. CASE SaveMemory(Fact(f), b, j.window)
  <2> DEFINE r == [bucket |-> b, content |-> j.window]
  <2>1. r.bucket = b /\ r.content = j.window
    OBVIOUS
  <2> HIDE DEF r
  <2>2. OneTalk(r)
    BY <1>1, <1>3, <2>1 DEF OneTalk, WindowOK, Ordered
  <2>3. Fact(f) \in MemoryIds /\ j.window \in ContentsOf(Fact(f))
    BY <1>2, Contents DEF MemoryIds
  <2> QED BY <1>3, <1>5, <2>2, <2>3, StoreSaves DEF r
<1> QED BY <1>4, <1>5 DEF Retain, SaveFails, storeVars, b

LEMMA StoreEpisodes ==
  ASSUME RetellInv, FlowTyped, StoreTyped, NEW p \in Flows, SaveEpisode(p)
  PROVE  StoreTyped'
<1> DEFINE f == flow[p]
           b == Bucket(f.session, "assistant")
           e == Exchanges(f.turns)
<1>1. f.pc = "saving" /\ f # Free /\ f \in FlowStates
  BY DEF SaveEpisode, FlowTyped, Free
<1>2. /\ f.session \in Sessions /\ f.turns \in Transcripts
      /\ f.next < Len(e) /\ f.next \in Nat
  BY <1>1 DEF RetellInv, Retells, FlowShapes, FlowOK
<1>3. b \in Buckets
  BY <1>2, BucketsOf DEF Namespaces
<1>4. /\ e \in Seq(Seq(Turns)) /\ Len(e) \in Nat /\ Len(e) <= MaxTurns /\ MaxTurns \in Nat
  BY <1>2, ExchangesTell, TranscriptPlaces, AgentStoreAssumption
<1>5. CASE UNCHANGED <<mem, listed>>
  BY <1>5, StoreStays
<1>6. CASE SaveMemory(Episode(f.session, f.next), b, e[f.next + 1])
  <2> HIDE DEF e
  <2>1. f.next + 1 \in 1..Len(e) /\ f.next \in 0..MaxTurns - 1
    BY <1>2, <1>4
  <2>2. e[f.next + 1] \in Seq(Turns)
    BY <1>4, <2>1, ElementOfSeq
  <2>3. e[f.next + 1] \in ContentsOf(Episode(f.session, f.next))
    BY <2>2, Contents
  <2>4. Episode(f.session, f.next) \in MemoryIds
    BY <1>2, <2>1 DEF MemoryIds
  <2>5. \A x : Episode(f.session, f.next) # Fact(x)
    BY IdsApart
  <2> HIDE DEF b
  <2> QED BY <1>3, <1>6, <2>3, <2>4, <2>5, StoreSaves
<1> QED BY <1>5, <1>6 DEF SaveEpisode, SaveFails, storeVars

LEMMA StoreSummaries ==
  ASSUME KeepTyped, StoreTyped, NEW p \in Keepers, Remember(p)
  PROVE  StoreTyped'
<1> DEFINE k == keep[p]
           b == SummaryBucket(k.req)
<1>1. k \in KeepStates
  BY DEF Remember, KeepTyped, Resting
<1>2. k.req \in ConsolidateRequests /\ k.summary \in SummaryContents
  BY <1>1, KnowledgeMemoryAssumption DEF KeepStates
<1>3. b \in Buckets
  BY <1>2, BucketsOf DEF SummaryBucket, ConsolidateRequests
<1>4. CASE UNCHANGED <<mem, listed>>
  BY <1>4, StoreStays
<1>5. CASE SaveMemory(Summary(k.req.session), b, k.summary)
  <2>1. Summary(k.req.session) \in MemoryIds
    BY <1>2 DEF MemoryIds, ConsolidateRequests
  <2>2. k.summary \in ContentsOf(Summary(k.req.session))
    BY <1>2, Contents
  <2>3. \A x : Summary(k.req.session) # Fact(x)
    BY DEF Summary, Fact
  <2> HIDE DEF b
  <2> QED BY <1>3, <1>5, <2>1, <2>2, <2>3, StoreSaves
<1> QED BY <1>4, <1>5 DEF Remember, SaveFails, storeVars

LEMMA StoreStep ==
  ASSUME TriggerInv, RetellInv, FlowTyped, KeepTyped, StoreTyped, [Next]_vars
  PROVE  StoreTyped'
<1>1. CASE TalkNext
  BY <1>1, StoreStays, StoreRetains DEF TalkNext, storeVars
<1>2. CASE FlowNext
  BY <1>2, StoreStays, StoreEpisodes
     DEF FlowNext, IngestTranscript, CloseSession, Promote, ExtractKnowledge, SaveFails, storeVars
<1>3. CASE KeeperNext
  BY <1>3, StoreStays, StoreSummaries
     DEF KeeperNext, Consolidate, RecallMemories, Reflect, PromoteSummary, SaveFails, storeVars
<1>4. ASSUME NEW m \in MemoryIds, Forget(m) PROVE StoreTyped'
  BY <1>4, StoreDeletes DEF Forget
<1>5. CASE Restart \/ UNCHANGED vars
  BY <1>5, StoreStays DEF Restart, vars, storeVars
<1> QED BY <1>1, <1>2, <1>3, <1>4, <1>5 DEF Next

(* The calls left to make, and the sessions somebody deleted episodes of.  *)
CallsOK == left \in [Calls -> Nat] /\ forgotten \subseteq Sessions

LEMMA CallsStep == CallsOK /\ [Next]_vars => CallsOK'
<1> SUFFICES ASSUME CallsOK, [Next]_vars PROVE CallsOK'
  OBVIOUS
<1>1. ASSUME NEW c \in Calls, Spend(c) PROVE left' \in [Calls -> Nat]
  BY <1>1 DEF Spend, CallsOK
<1>2. Calls = {"open", "close", "say", "drop", "set", "flow", "consolidate", "forget", "fail", "crash"}
  BY DEF Calls
<1> HIDE DEF Calls
<1>3. left' \in [Calls -> Nat] \/ UNCHANGED left
  <2>1. ASSUME NEW c \in {"open", "close", "say", "drop", "set", "flow", "consolidate", "forget",
                          "fail", "crash"}, Spend(c)
        PROVE left' \in [Calls -> Nat]
    BY <1>1, <1>2, <2>1
  <2>2. CASE TalkNext
    BY <2>1, <2>2 DEF TalkNext, Retain, SaveFails
  <2>3. CASE FlowNext
    BY <2>1, <2>3 DEF FlowNext, SaveEpisode, Promote, SaveFails
  <2>4. CASE KeeperNext
    BY <2>1, <2>4 DEF KeeperNext, RecallMemories, Reflect, Remember, PromoteSummary, SaveFails
  <2>5. CASE Spend("forget") \/ Spend("crash") \/ UNCHANGED vars
    BY <2>1, <2>5 DEF vars
  <2> QED BY <2>2, <2>3, <2>4, <2>5 DEF Next
<1>4. ASSUME NEW m \in MemoryIds, Forget(m) PROVE forgotten' \subseteq Sessions
  <2>1. m[1] = "episode" => m[2] \in Sessions
    BY DEF MemoryIds, Fact, Episode, Summary
  <2> QED BY <1>4, <2>1 DEF Forget, CallsOK
<1>5. forgotten' \subseteq Sessions
  BY <1>4 DEF Next, Restart, CallsOK, vars
<1> QED BY <1>3, <1>5 DEF CallsOK

FitInv ==
  /\ TriggerInv /\ CountInv /\ RetellInv
  /\ FlowTyped /\ KeepTyped /\ StoreTyped /\ CallsOK

LEMMA FitInit == Init => FitInv
<1> SUFFICES ASSUME Init PROVE FitInv
  OBVIOUS
<1>1. FlowTyped
  BY DEF Init, FlowInit, FlowTyped
<1>2. StoreTyped
  BY DEF Init, StoreInit, StoreTyped
<1>3. CallsOK
  BY AgentStoreAssumption DEF Init, StoreInit, CallsOK
<1> QED BY <1>1, <1>2, <1>3, TriggerInit, CountInit, RetellInit, KeepTypedInit DEF FitInv

LEMMA FitStep == FitInv /\ [Next]_vars => FitInv'
BY TriggerStep, CountStep, RetellStep, FlowTypedStep, KeepTypedStep, StoreStep, CallsStep
   DEF FitInv

(* Each ID leads to a memory of the kind it names, listed in its bucket,   *)
(* and a fact tells of the one session it lies with, whatever overlaps,    *)
(* repeats, fails or is cut off.                                           *)
THEOREM MemoriesStayFit == Spec => []MemoriesFit
<1>1. FitInv => MemoriesFit
  <2> SUFFICES ASSUME FitInv PROVE MemoriesFit
    OBVIOUS
  <2>1. \A m \in MemoryIds : Stored(m) =>
          /\ mem[m].bucket \in Buckets /\ mem[m].content \in ContentsOf(m)
          /\ <<mem[m].bucket, m>> \in listed
    BY DEF FitInv, StoreTyped, MemoryFits, Stored
  <2>2. listed \subseteq Buckets \X MemoryIds /\ left \in [Calls -> Nat] /\ forgotten \subseteq Sessions
    BY DEF FitInv, StoreTyped, CallsOK
  <2>3. /\ sess \in [Sessions -> {"none", "stored", "deleted"}]
        /\ msgs \subseteq Messages /\ clock \in 0..MaxMessages
    BY DEF FitInv, TriggerInv, TalkInv, TalkOK
  <2>4. counter \in [Sessions -> 0..MaxMessages]
    BY CountersInRange DEF FitInv
  <2>5. jobs \subseteq Jobs
    BY DEF FitInv, TriggerInv, WindowsOK, WindowOK
  <2>6. /\ \A p \in Flows : flow[p] = Free \/ flow[p] \in FlowStates
        /\ \A p \in Keepers : keep[p] = Resting \/ keep[p].summary \in SummaryContents
    BY DEF FitInv, FlowTyped, KeepTyped, KeepStates
  <2>7. TypeOK
    BY <2>1, <2>2, <2>3, <2>4, <2>5, <2>6 DEF TypeOK
  <2>8. FactsOfOneTalk
    BY DEF FitInv, StoreTyped, OneTalk, FactsOfOneTalk, Stored
  <2> QED BY <2>7, <2>8 DEF MemoriesFit
<1>2. QED
  BY <1>1, FitInit, FitStep, PTL DEF Spec

=============================================================================
