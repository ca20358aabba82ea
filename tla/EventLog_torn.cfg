\* A crash or a failed write may leave any part of a line.
CONSTANTS
    MaxRuns = 3
    MaxSeq = 3
    TornTails = TRUE
    FreshReopen = FALSE
SPECIFICATION Spec
INVARIANTS NumberingInv FirstOnlyLost
PROPERTY SyncedKept
CHECK_DEADLOCK FALSE
