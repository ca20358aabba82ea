\* Documentation against code: the goal of a run resumed twice without one.
CONSTANTS
    Responses <- AllResponses
    Launches <- FreshOrBare
    CompactAt = 40
    MaxRuns = 3
    IOFaults = FALSE
    FreshRelaunch = FALSE
    UniqueIds = TRUE
SPECIFICATION Spec
INVARIANT PinnedHead
CHECK_DEADLOCK FALSE
