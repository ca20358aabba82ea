\* Launches, tool calls, command lines whose commands may hang, and values
\* against output schemas.
CONSTANTS
    Lines <- MCLines
    Implemented <- WithoutKill
    Envs <- MCEnvs
    Calls <- MCCalls
    Values <- MCValues
    Schemas <- MCSchemas
    MaxDepth = 3
    MaxCalls = 2
SPECIFICATION FairSpec
INVARIANTS TypeOK GrantedOnly RefusedExactly SuccessMeansDone
INVARIANTS ListShowsGrants PromptTrue FinishExact FinishNeverRefused
PROPERTY LineEnds
CHECK_DEADLOCK FALSE
