----------------------------- MODULE MemoryFlow -----------------------------
(***************************************************************************)
(* The memory workflow (src/pkg/memoryflow): a transcript is cut into      *)
(* exchanges, each saved as an episode of its session, one SaveMemory      *)
(* after the other; closing a session also promotes what the transcript    *)
(* has to say to knowledge.  There is no lock: workflows on one session    *)
(* interleave, and each may fail or be cut off between two saves.          *)
(*                                                                         *)
(* A turn is its place in the conversation, its role and its note.         *)
(***************************************************************************)
EXTENDS AgentStore

CONSTANTS
  Flows,        \* goroutines calling the workflow
  Transcripts   \* the transcripts callers give, sequences of turns

Turns == [n : 1..MaxTurns, role : {"user", "assistant"}, note : Notes \cup {None}]

ASSUME MemoryFlowAssumption ==
  \A t \in Transcripts : t \in Seq(Turns) /\ Len(t) \in 1..MaxTurns

VARIABLE flow  \* what each caller is at

Free == [pc |-> "idle"]
FlowInit == flow = [p \in Flows |-> Free]

-----------------------------------------------------------------------------
(* One more turn: an answer ends an exchange of two turns or more.         *)
Joined(a, t) ==
  IF t.role = "assistant" /\ a.open # <<>>
  THEN [done |-> Append(a.done, Append(a.open, t)), open |-> <<>>]
  ELSE [done |-> a.done, open |-> Append(a.open, t)]

(* The exchanges that have ended, and the one begun, after the last turn.  *)
CutUp(turns) ==
  LET cut[i \in 0..Len(turns)] ==
        IF i = 0 THEN [done |-> <<>>, open |-> <<>>] ELSE Joined(cut[i - 1], turns[i])
  IN  cut[Len(turns)]

(* Mutant: only an answer ends an exchange; turns left over are not saved. *)
ExchangesOfPairs(turns) == CutUp(turns).done

(* The last turn ends the last exchange.                                   *)
Exchanges(turns) ==
  LET all == CutUp(turns)
  IN  IF all.open = <<>> THEN all.done ELSE Append(all.done, all.open)

(* The turns whose notes HeuristicExtractor proposes and the policy keeps: *)
(* every note at its first place.                                          *)
Candidates(turns, kept) ==
  {i \in DOMAIN turns : /\ turns[i].note \in kept
                        /\ \A j \in 1..i - 1 : turns[j].note # turns[i].note}

(* HeuristicExtractor gives no IDs; an extractor of the caller's may.      *)
CandidateID(f, i) == IF f.named THEN Promoted(f.session, f.turns[i].note) ELSE Unnamed

-----------------------------------------------------------------------------
Busy(p) == flow[p].pc \notin {"idle", "returned"}
OnSession(p, s) == flow[p] # Free /\ flow[p].session = s

(* alone: no other workflow on the session has run since this one began.   *)
Begin(p, s, turns, promote, named) ==
  flow' = [q \in Flows |->
    IF q = p
    THEN [pc |-> "saving", session |-> s, turns |-> turns, next |-> 0,
          promote |-> promote, named |-> named, todo |-> {}, promoted |-> {},
          alone |-> \A o \in Flows \ {p} : ~(OnSession(o, s) /\ Busy(o))]
    ELSE IF OnSession(q, s) THEN [flow[q] EXCEPT !.alone = FALSE] ELSE flow[q]]

IngestTranscript(p, s, turns) ==
  /\ ~Busy(p)
  /\ Begin(p, s, turns, FALSE, FALSE)
  /\ UNCHANGED storeVars

CloseSession(p, s, turns, named) ==
  /\ ~Busy(p)
  /\ Begin(p, s, turns, TRUE, named)
  /\ UNCHANGED storeVars

(* The state of a workflow once its next episode is saved.                 *)
Saved(f) ==
  LET last == f.next + 1 = Len(Exchanges(f.turns))
  IN  [f EXCEPT !.next = @ + 1,
                !.pc = IF ~last THEN "saving"
                       ELSE IF f.promote THEN "extracting" ELSE "returned"]

(* Mutant: an episode that cannot be saved is skipped.                     *)
SaveEpisodeSkip(p) ==
  /\ flow[p].pc = "saving"
  /\ LET f == flow[p] IN
       \/ /\ SaveMemory(Episode(f.session, f.next), Bucket(f.session, "assistant"),
                        Exchanges(f.turns)[f.next + 1])
          /\ UNCHANGED <<know, left>>
       \/ SaveFails
  /\ flow' = [flow EXCEPT ![p] = Saved(@)]

(* The first error ends the workflow, the episodes saved so far stay.      *)
SaveEpisode(p) ==
  /\ flow[p].pc = "saving"
  /\ LET f == flow[p] IN
       \/ /\ SaveMemory(Episode(f.session, f.next), Bucket(f.session, "assistant"),
                        Exchanges(f.turns)[f.next + 1])
          /\ flow' = [flow EXCEPT ![p] = Saved(@)]
          /\ UNCHANGED <<know, left>>
       \/ /\ SaveFails
          /\ flow' = [flow EXCEPT ![p] = Free]

(* The candidates the policy leaves; the extractor or the policy may fail. *)
ExtractKnowledge(p) ==
  /\ flow[p].pc = "extracting"
  /\ \/ \E kept \in SUBSET Notes :
          LET todo == Candidates(flow[p].turns, kept)
          IN  flow' = [flow EXCEPT ![p].todo = todo,
                         ![p].pc = IF todo = {} THEN "returned" ELSE "promoting"]
     \/ flow' = [flow EXCEPT ![p] = Free]
  /\ UNCHANGED storeVars

(* The candidates come in the order of the turns.                          *)
NextCandidate(f, i) == i \in f.todo /\ \A j \in f.todo : i <= j

Dealt(f, i) ==
  [f EXCEPT !.todo = @ \ {i}, !.pc = IF f.todo = {i} THEN "returned" ELSE "promoting"]

(* Mutant: a candidate is reported before its error is looked at.          *)
PromoteReported(p, i) ==
  /\ flow[p].pc = "promoting"
  /\ LET f == flow[p] IN
       /\ NextCandidate(f, i)
       /\ \/ /\ SaveKnowledge(CandidateID(f, i), <<f.turns[i].note>>)
             /\ UNCHANGED <<mem, listed, left>>
          \/ SaveFails
       /\ flow' = [flow EXCEPT ![p] = [Dealt(f, i) EXCEPT !.promoted = @ \cup {i}]]

(* A candidate that cannot be saved is skipped, the others are reported.   *)
Promote(p, i) ==
  /\ flow[p].pc = "promoting"
  /\ LET f == flow[p] IN
       /\ NextCandidate(f, i)
       /\ \/ /\ SaveKnowledge(CandidateID(f, i), <<f.turns[i].note>>)
             /\ flow' = [flow EXCEPT ![p] = [Dealt(f, i) EXCEPT !.promoted = @ \cup {i}]]
             /\ UNCHANGED <<mem, listed, left>>
          \/ /\ SaveFails
             /\ flow' = [flow EXCEPT ![p] = Dealt(f, i)]

FlowRestart == flow' = [p \in Flows |-> Free]
=============================================================================
