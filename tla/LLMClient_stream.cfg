\* Chunks in any interleaving, failures anywhere, degradation.
CONSTANTS
    Replies <- MCReplies
SPECIFICATION FairSpec
INVARIANTS TypeOK SinkMatchesResult AssembledExact
PROPERTY CompletionEnds
CHECK_DEADLOCK FALSE
