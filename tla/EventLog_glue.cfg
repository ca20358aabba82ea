\* Documentation against code: a log that ends in an unterminated line.
CONSTANTS
    MaxRuns = 2
    MaxSeq = 3
    TornTails = TRUE
    FreshReopen = FALSE
SPECIFICATION Spec
INVARIANT AckedReadable
CHECK_DEADLOCK FALSE
