\* ResumeRun executes a call whose result is already in the saved history.
SPECIFICATION Spec
CONSTANTS
    MaxRuns = 1
    MaxCalls = 2
    MaxBatch = 2
    MaxOps = 2
    MaxTurns = 2
    MaxMessages = 0
    KeepRecent = 0
    AgentTools = {"plain", "risky"}
    CallTools = {}
    Names = {"plain", "risky"}
    Sensitive = {"risky"}
    Policy = {"undecided"}
    Blocking = {"tool"}
    Faults = {}
    Ops = {"prompt", "resumeRun"}
    FreshIds = TRUE
PROPERTY RecordedNeverReruns
