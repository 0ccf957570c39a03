\* Two agents, tasks one level deep, failing saves, crashes and a deadline.
SPECIFICATION FairSpec
CONSTANTS
    NAgents = 2
    Handoffs <- MCHandoffs
    MaxTaskDepth = 1
    MaxTurns = 2
    MaxBatch = 1
    MaxSessions = 5
    MaxLater = 3
    MaxCalls = 2
    SaveErrors = TRUE
INVARIANTS
    TypeOK
    NestingBounded
    AnswersAccountedFor
    WaitingRunsStored
PROPERTY DeadlineUnwinds
