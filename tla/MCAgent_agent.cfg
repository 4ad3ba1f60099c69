SPECIFICATION Spec
\* The calls of a behaviour are bounded: it ends when they are made.
CHECK_DEADLOCK FALSE
CONSTANTS
  None = None
  Sessions <- TwoSessions
  FactIds = {"f"}
  Notes = {"x", "y"}
  MaxTurns = 3
  Budgets <- SomeBudgets
  Talkers = {p1, p2}
  MaxMessages = 3
  Settings <- SomeSettings
  Flows = {q1, q2}
  Transcripts <- SomeTranscripts
  Keepers = {k1, k2}
  Requests <- SomeRequests
  TopKMemories = 2
  TopKKnowledge = 1
  MaxFacts = 2
SYMMETRY Symmetric
INVARIANTS MessagesOfSessions TriggerSeen MemoriesFit EpisodesGapFree
  EpisodesRetell PromotionsKept PromotedRemembered SummariesApart
