\* Two processes that share a store serve two requests for one session.
SPECIFICATION Spec
CHECK_DEADLOCK FALSE
CONSTANTS
    Procs = {"p1", "p2"}
    Requests = {"r1", "r2"}
    Agents = {"support"}
    Ids = {"customer"}
    BadPart = "a b"
    AllowNonWebhook = FALSE
    Remote <- MCRemote
    Sanitized <- MCSanitized
    Offers <- MCOffers
    Scopes <- MCScopes
INVARIANTS
    TypeOK
    HandlerWasExposed
    StreamEndsOnce
    CallRunsItsTool
    ToolsUnambiguous
    KeptUnlessShared
    ReplyTellsRun
PROPERTIES
    HandlersEnd
    PartsImplemented
