\* Documentation against code: how long a command of a line may run.
CONSTANTS
    Lines <- MCLines
    Implemented <- shellBuiltins
    Envs <- MCEnvs
    Calls <- MCCalls
    Values <- MCValues
    Schemas <- MCSchemas
    MaxDepth = 3
    MaxCalls = 2
SPECIFICATION Spec
INVARIANT LeafHasItsTimeout
CHECK_DEADLOCK FALSE
