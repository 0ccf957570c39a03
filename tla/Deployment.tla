----------------------------- MODULE Deployment -----------------------------
(* What the parts of a deployment have in common: HttpServer, McpClient and
   AgentSessions name these, and Gateway composes them. *)
CONSTANTS
    Procs,      \* processes, each with a server, agents and an MCP connection
    Requests,   \* requests; each stands for the run and the tool call it leads to
    Ids         \* ids of sessions, as the path of a request names them
=============================================================================
