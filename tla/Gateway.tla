------------------------------- MODULE Gateway -------------------------------
(***************************************************************************)
(* Agents behind the HTTP server: the handler of a request opens the       *)
(* session its path names, prompts it with the request's context and, for  *)
(* a stream, with its Emit, and the model may call a tool of an MCP        *)
(* server.  Composes HttpServer, AgentSessions and McpClient; a step of    *)
(* the handler is a step of one or two of them.                            *)
(*                                                                         *)
(* The application is external: it connects to the MCP server, makes an    *)
(* agent and serves; a handler passes on what Prompt returns.              *)
(***************************************************************************)
EXTENDS HttpServer, McpClient, AgentSessions

CONSTANT Scopes   \* bounds: what takes part in a behaviour

VARIABLES phase,   \* where each handler is in its prompt
          died,    \* bound: the processes that died
          scope    \* bound: the member of Scopes that holds

bounds == <<died, scope>>
vars   == <<httpVars, mcpVars, sessionVars, phase, bounds>>

(* The bounds of a behaviour: the processes, those that register while they
   serve, the requests, their headers, the clients that leave, the requests whose
   model calls a tool, and the tokens of a stream. *)
Scope == [procs : SUBSET Procs, reregister : SUBSET Procs, requests : SUBSET Requests,
          sends : [Requests -> SUBSET Modes], leave : SUBSET Requests,
          callers : SUBSET Requests, tokens : Nat]
ASSUME GatewayAssumption == Scopes \subseteq Scope

Init == HttpInit /\ McpInit /\ SessionsInit /\ phase = [r \in Requests |-> "off"]
        /\ died = {} /\ scope \in Scopes

Goes(r, to)  == phase' = [phase EXCEPT ![r] = to]
In(r, where) == stage[r] = "running" /\ phase[r] = where
Session(r)   == target[r][2]
Opens(r, ok) == Open(at[r], Session(r), ok)
(* Mutant: a save writes the record of its run only. *)
SavesRecord(r, status, ok) ==
    /\ holder[at[r]][Session(r)] = r
    /\ copies' = [copies EXCEPT ![at[r]][Session(r)][r] = status]
    /\ stored' = [stored EXCEPT ![Session(r)][r] = IF ok THEN status ELSE @]
    /\ completed' = IF ok /\ status = "completed"
                    THEN completed \cup {<<Session(r), r>>} ELSE completed
    /\ UNCHANGED <<holder, missed, shared>>
Saves(r, status, ok) == Save(at[r], Session(r), r, status, ok)
Unlocks(r)   == Unlock(at[r], Session(r), r)
Holds(r)     == holder[at[r]][Session(r)] = r
Emits(r, type) == IF mode[r] = "sse" THEN Emit(r, type) ELSE UNCHANGED httpVars

-----------------------------------------------------------------------------
(* Processes. *)

(* The application connects, and serves if it can.  A process that died is not
   started again: the other one takes over what is stored. *)
Serve(p) ==
    /\ ConnectMCPServer(p) /\ Start(p) /\ p \in scope.procs \ died
    /\ UNCHANGED <<sessionVars, phase, bounds>>

Dies(p) ==
    /\ Crash(p) /\ Forget(p)
    /\ Hangup(p, {r \in Requests : at[r] = p})
    /\ phase' = [r \in Requests |-> IF at[r] = p THEN "off" ELSE phase[r]]
    /\ died' = died \cup {p} /\ UNCHANGED scope

-----------------------------------------------------------------------------
(* The server's own steps. *)

Arrives(r) ==
    /\ \/ r \in scope.requests /\ \E p \in Procs, s \in Shapes : Route(r, p, s)
       \/ r \in scope.leave /\ Disconnect(r)
    /\ UNCHANGED <<mcpVars, sessionVars, phase, bounds>>

Reregisters == /\ \E p \in scope.reregister, n \in Agents, t \in Triggers : Handle(p, n, t)
               /\ UNCHANGED <<mcpVars, sessionVars, phase, bounds>>

Serves(r) ==
    /\ \/ BadPayload(r) /\ UNCHANGED phase
       \/ \E m \in scope.sends[r] : Dispatch(r, m) /\ Goes(r, "open")
       \/ (Accept(r) \/ WriteIdle(r)) /\ UNCHANGED phase
    /\ UNCHANGED <<mcpVars, sessionVars, bounds>>

-----------------------------------------------------------------------------
(* The handler: Agent.Session, then Session.runPrompt. *)

(* The new session stays in the cache when the context is found to be done. *)
OpenSession(r) ==
    /\ In(r, "open")
    /\ \E ok \in BOOLEAN : Opens(r, ok)
    /\ Goes(r, IF ~Held(at[r], Session(r)) /\ CtxDone(r) THEN "failing" ELSE "lock")
    /\ UNCHANGED <<httpVars, mcpVars, bounds>>

(* A request waits for the mutex whether its client is still there or not. *)
LockSession(r) ==
    /\ In(r, "lock")
    /\ Lock(at[r], Session(r), r) /\ Goes(r, "input")
    /\ UNCHANGED <<httpVars, mcpVars, bounds>>

(* A checkpoint: the prompt goes on, or ends with its error. *)
Checkpoint(r, status, next) ==
    /\ \E ok \in BOOLEAN : Saves(r, status, ok) /\ Goes(r, IF ok THEN next ELSE "failing")
    /\ UNCHANGED <<httpVars, mcpVars, bounds>>

Input(r) == In(r, "input") /\ Checkpoint(r, "running", "model")

Token(r) ==
    /\ In(r, "model") /\ Len(events[r]) < scope.tokens
    /\ Emit(r, "token")
    /\ UNCHANGED <<mcpVars, sessionVars, phase, bounds>>

(* The model answers, asks for a tool, once, or fails. *)
Model(r) ==
    /\ In(r, "model")
    /\ \/ Checkpoint(r, "running", "complete")
       \/ r \in scope.callers /\ waiting[r] = "no" /\ Checkpoint(r, "running", "tool")
       \/ Checkpoint(r, "failed", "failing")

(* Mutant: the result is told before the run is saved as completed. *)
CompleteTellsFirst(r) ==
    /\ In(r, "complete") /\ Emits(r, "result") /\ Goes(r, "return")
    /\ \E ok \in BOOLEAN : Saves(r, "completed", ok)
    /\ UNCHANGED <<mcpVars, bounds>>

Complete(r) ==
    In(r, "complete") /\ Checkpoint(r, "completed", "report")

(* With the stream of the request the session's own result and idle are in it
   before those of the server. *)
Report(r) ==
    /\ \/ In(r, "report") /\ Emits(r, "result") /\ Goes(r, "idle")
       \/ In(r, "idle") /\ Emits(r, "idle") /\ Goes(r, "return")
    /\ UNCHANGED <<mcpVars, sessionVars, bounds>>

(* Mutant: an error returns without the deferred Unlock. *)
ReturnKeepsLock(r) ==
    /\ \/ In(r, "return") /\ Returns(r, "result")
       \/ In(r, "failing") /\ Returns(r, "error")
    /\ IF phase[r] = "return" THEN Unlocks(r) ELSE UNCHANGED sessionVars
    /\ Goes(r, "off") /\ UNCHANGED <<mcpVars, bounds>>

(* Prompt returns, and the handler with what it returned. *)
Return(r) ==
    /\ \/ In(r, "return") /\ Returns(r, "result")
       \/ In(r, "failing") /\ Returns(r, "error")
    /\ IF Holds(r) THEN Unlocks(r) ELSE UNCHANGED sessionVars
    /\ Goes(r, "off") /\ UNCHANGED <<mcpVars, bounds>>

-----------------------------------------------------------------------------
(* The tool call, with the context of the request. *)

CallTool(r) ==
    /\ In(r, "tool") /\ waiting[r] = "no"
    /\ \E t \in ToolNames : \/ ~CtxDone(r) /\ Send(at[r], r, t)
                            \/ SendFails(at[r], r, t)
    /\ UNCHANGED <<httpVars, sessionVars, phase, bounds>>

ToolAnswers(r) == /\ Answered(r) \/ CallFails(r)
                  /\ UNCHANGED <<httpVars, sessionVars, phase, bounds>>

ToolEnds(r) ==
    /\ In(r, "tool") /\ waiting[r] \in {"answered", "failed"}
    /\ Emits(r, "trace")
    /\ \E ok \in BOOLEAN : Saves(r, "running", ok) /\ Goes(r, IF ok THEN "model" ELSE "failing")
    /\ UNCHANGED <<mcpVars, bounds>>

(* A tool panics: the deferred Unlock runs and the run is left as it was, or, in
   a webhook's goroutine, the process ends. *)
ToolPanics(r) ==
    /\ In(r, "tool") /\ waiting[r] = "no"
    /\ IF mode[r] = "webhook" THEN Dies(at[r])
       ELSE Panics(r) /\ Unlocks(r) /\ Goes(r, "off") /\ UNCHANGED <<mcpVars, bounds>>

RemoteActs == scope.callers # {} /\ RemoteNext /\ UNCHANGED <<httpVars, sessionVars, phase, bounds>>

-----------------------------------------------------------------------------
HandlerStep(r) ==
    \/ OpenSession(r) \/ LockSession(r) \/ Input(r) \/ Model(r) \/ Complete(r)
    \/ Report(r) \/ Return(r) \/ CallTool(r) \/ ToolAnswers(r) \/ ToolEnds(r)

Next ==
    \/ \E p \in Procs : Serve(p) \/ Dies(p)
    \/ Reregisters \/ RemoteActs
    \/ \E r \in Requests : \/ Arrives(r) \/ Serves(r) \/ HandlerStep(r)
                           \/ Token(r) \/ ToolPanics(r)

(* A handler's goroutine is never held up but by the mutex of the session, and
   the model and the MCP server answer or fail. *)
Spec == /\ Init /\ [][Next]_vars
        /\ \A r \in Requests : WF_vars(HandlerStep(r))

-----------------------------------------------------------------------------
(* Properties. *)

TypeOK == /\ died \subseteq Procs /\ scope \in Scopes /\ HttpTypeOK /\ McpTypeOK /\ SessionsTypeOK
          /\ phase \in [Requests -> {"off", "open", "lock", "input", "model", "tool",
                         "complete", "report", "idle", "return", "failing"}]

(* What a client hears of its run agrees with the store.  A result, also one in a
   stream that is cut short later, is of a run that the store was given as completed
   and, unless the session is shared, still holds as such.  A run of which an error
   was heard, after which a client may try again, is one that the store holds as
   completed only when it was the save as completed that failed: the run is completed
   in memory, and the next prompt's save takes it to the store with its own. *)
Hears(r, what) == reply[r] = what \/ \E i \in DOMAIN events[r] : events[r][i].type = what
ReplyTellsRun ==
    \A r \in Requests :
        LET i == Session(r) IN
        /\ Hears(r, "result") => /\ <<i, r>> \in completed
                                 /\ i \in shared \/ stored[i][r] = "completed"
        /\ Hears(r, "error") /\ stored[i][r] = "completed" => <<i, r>> \in missed

(* The parts keep to their own specifications, to which their theorems apply. *)
PartsImplemented == HttpSpec /\ McpSpec /\ SessionsSpec

(* A handler that began, of a webhook that was answered 202 too, ends, behind
   whatever other request holds its session, unless its process dies. *)
HandlersEnd == \A r \in Requests : stage[r] = "running" ~> stage[r] # "running"
=============================================================================
