\* resumeRun executes a call the approval policy rejects.
SPECIFICATION Spec
CONSTANTS
    MaxRuns = 1
    MaxCalls = 2
    MaxBatch = 2
    MaxOps = 2
    MaxTurns = 2
    MaxMessages = 0
    KeepRecent = 0
    AgentTools = {"plain", "risky"}
    CallTools = {}
    Names = {"plain", "risky"}
    Sensitive = {"risky"}
    Policy = {"reject"}
    Blocking = {}
    Faults = {}
    Ops = {"prompt", "resumeRun"}
    FreshIds = TRUE
INVARIANT ApprovedBeforeExecuted
