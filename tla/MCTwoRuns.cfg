\* Two runs of one session: pauses, retries, failed saves and loads, crashes.
SPECIFICATION Spec
CONSTANTS
    MaxRuns = 2
    MaxCalls = 2
    MaxBatch = 2
    MaxOps = 4
    MaxTurns = 2
    MaxMessages = 0
    KeepRecent = 0
    AgentTools = {"plain", "risky"}
    CallTools = {}
    Names = {"plain", "risky"}
    Sensitive = {"risky"}
    Policy = {"undecided", "approve"}
    Blocking = {"tool"}
    Faults = {"save", "load", "delete"}
    Ops = {"prompt", "resume", "resumeRun", "delete"}
    FreshIds = TRUE
INVARIANTS
    PausedMeansPending
    ApprovedBeforeExecuted
    SuccessIsDurable
PROPERTIES
    SettledNeverReruns
    ImplementsLifecycle
