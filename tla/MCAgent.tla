------------------------------- MODULE MCAgent -------------------------------
(* Small instances of Agent.                                                *)
EXTENDS Agent, TLC

TwoSessions == {"s1", "s2"}

(* A question that has a point, its answer, and a question left open.       *)
Conversation == <<[n |-> 1, role |-> "user", note |-> "x"],
                  [n |-> 2, role |-> "assistant", note |-> "y"],
                  [n |-> 3, role |-> "user", note |-> "x"]>>
SomeTranscripts == {SubSeq(Conversation, 1, k) : k \in 2..3}

Every2 == [enabled |-> TRUE, window |-> 2, every |-> 2]
Every1 == [enabled |-> TRUE, window |-> 1, every |-> 1]
SomeSettings == {Every2, Every1}

Asked(s, r) == [session |-> s, reflect |-> r, namespace |-> "assistant", promote |-> TRUE]
SomeRequests == {Asked("s1", "s1"), Asked("", ""), Asked("", "s2"), Asked("s2", "s2"),
                 [Asked("s1", "s1") EXCEPT !.namespace = "auto-retained", !.promote = FALSE]}

(* Messages and extractions; overlapping and broken off workflows; their    *)
(* retries; consolidations after a workflow; a little of everything.        *)
NoCalls == [c \in Calls |-> 0]
Talk == [NoCalls EXCEPT !["open"] = 2, !["close"] = 1, !["say"] = 3, !["drop"] = 1,
                        !["set"] = 1, !["fail"] = 1, !["crash"] = 1]
Workflows == [NoCalls EXCEPT !["flow"] = 2, !["forget"] = 1, !["fail"] = 1, !["crash"] = 1]
Retries == [NoCalls EXCEPT !["flow"] = 3, !["fail"] = 1]
Keeping == [NoCalls EXCEPT !["flow"] = 1, !["consolidate"] = 2, !["fail"] = 1]
Mixed == [NoCalls EXCEPT !["open"] = 1, !["set"] = 1, !["say"] = 1, !["consolidate"] = 1]
SomeBudgets == {Talk, Workflows, Retries, Keeping, Mixed}

(* Goroutines of a kind are alike.                                          *)
Symmetric == Permutations(Talkers) \cup Permutations(Flows) \cup Permutations(Keepers)

ASSUME SessionsInstance == OneSessionEach
=============================================================================
