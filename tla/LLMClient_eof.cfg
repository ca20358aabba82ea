\* Documentation against code: a stream closed before [DONE].
CONSTANTS
    Replies <- MCReplies
SPECIFICATION Spec
INVARIANT ArgumentsComplete
CHECK_DEADLOCK FALSE
