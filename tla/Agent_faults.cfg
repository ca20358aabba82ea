\* Appends may fail to write or to sync; outputs may be too long to read back.
CONSTANTS
    Responses <- AllResponses
    Launches <- FreshOrResume
    CompactAt = 40
    MaxRuns = 2
    IOFaults = TRUE
    FreshRelaunch = FALSE
    UniqueIds = TRUE
SPECIFICATION FairSpec
INVARIANTS TypeOK WriteAhead ConversationDurable ReadWhole UnansweredWasCutOff TurnRecordsMatch ClosedTurnAnswered
PROPERTIES ImplementsLogStore Termination
CHECK_DEADLOCK FALSE
