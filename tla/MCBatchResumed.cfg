\* Resume answers one call of a batch and asks the model with the rest unanswered.
SPECIFICATION Spec
CONSTANTS
    MaxRuns = 1
    MaxCalls = 2
    MaxBatch = 2
    MaxOps = 2
    MaxTurns = 2
    MaxMessages = 0
    KeepRecent = 0
    AgentTools = {"plain", "risky"}
    CallTools = {}
    Names = {"plain", "risky"}
    Sensitive = {"risky"}
    Policy = {"undecided"}
    Blocking = {}
    Faults = {}
    Ops = {"prompt", "resume"}
    FreshIds = TRUE
INVARIANT OwnCallsAnswered
