\* No human: the policy decides, guardrails block, tools go missing, history is
\* compacted, call ids repeat; every operation must still return.
SPECIFICATION FairSpec
CONSTANTS
    MaxRuns = 2
    MaxCalls = 2
    MaxBatch = 2
    MaxOps = 2
    MaxTurns = 2
    MaxMessages = 2
    KeepRecent = 1
    AgentTools = {"risky"}
    CallTools = {"extra"}
    Names = {"risky", "extra"}
    Sensitive = {"risky"}
    Policy = {"reject", "error"}
    Blocking = {"input", "output"}
    Faults = {"scope", "model", "compact"}
    Ops = {"prompt", "resumeRun", "shell", "delete"}
    FreshIds = FALSE
INVARIANTS
    TypeOK
    PromptRecoverable
    OwnCallsAnswered
PROPERTIES
    RunsKept
    OperationsReturn
