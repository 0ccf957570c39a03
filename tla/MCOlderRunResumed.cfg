\* ResumeRun of an older run, then Resume of a paused one: its prompt is gone.
SPECIFICATION Spec
CONSTANTS
    MaxRuns = 2
    MaxCalls = 2
    MaxBatch = 2
    MaxOps = 4
    MaxTurns = 2
    MaxMessages = 0
    KeepRecent = 0
    AgentTools = {"plain", "risky"}
    CallTools = {}
    Names = {"plain", "risky"}
    Sensitive = {"risky"}
    Policy = {"undecided"}
    Blocking = {}
    Faults = {}
    Ops = {"prompt", "resume", "resumeRun"}
    FreshIds = TRUE
INVARIANT PromptRecoverable
