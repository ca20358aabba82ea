\* Three processes on one log, each with limits and a compaction of its own, each
\* killed or ended anywhere, under an endpoint that reuses its call ids.
CONSTANTS
    Responses <- ResumeResponses
    Launches <- Various
    CompactAt = 8
    MaxRuns = 3
    IOFaults = FALSE
    FreshRelaunch = FALSE
    UniqueIds = FALSE
SPECIFICATION Spec
INVARIANTS AtMostOnce TurnsIncreasing FullTurnBudget RunEndLast BudgetAtTurn KeysDistinct
INVARIANTS PinnedHead TranscriptBounded OrphansBehindSummary
CHECK_DEADLOCK FALSE
