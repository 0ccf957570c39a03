\* Every call is made WithTimeout; only Prompt keeps the deadline.
SPECIFICATION TimedSpec
CONSTANTS
    MaxRuns = 1
    MaxCalls = 2
    MaxBatch = 2
    MaxOps = 2
    MaxTurns = 2
    MaxMessages = 0
    KeepRecent = 0
    AgentTools = {"plain", "risky"}
    CallTools = {}
    Names = {"plain", "risky"}
    Sensitive = {"risky"}
    Policy = {"undecided"}
    Blocking = {}
    Faults = {"model"}
    Ops = {"prompt", "resume"}
    FreshIds = TRUE
PROPERTY OperationsReturn
