\* Documentation against code: a name that arrives in pieces.
CONSTANTS
    Replies <- MCReplies
SPECIFICATION Spec
INVARIANT NamesAssembled
CHECK_DEADLOCK FALSE
