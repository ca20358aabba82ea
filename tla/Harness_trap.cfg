\* Documentation against code: what the string given to a trap may start.
CONSTANTS
    Lines <- MCLines
    Implemented <- shellBuiltins
    Envs <- MCEnvs
    Calls <- MCCalls
    Values <- MCValues
    Schemas <- MCSchemas
    MaxDepth = 3
    MaxCalls = 1
SPECIFICATION Spec
INVARIANT OnlyGrantedStarted
CHECK_DEADLOCK FALSE
