\* Lines reach the file whole or not at all; every reopening resumes.
CONSTANTS
    MaxRuns = 3
    MaxSeq = 4
    TornTails = FALSE
    FreshReopen = FALSE
SPECIFICATION Spec
INVARIANTS TypeOK SeqIncreasing AckedReadable
PROPERTY ImplementsLogStore
CHECK_DEADLOCK FALSE
