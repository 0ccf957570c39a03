------------------------------ MODULE HttpServer ------------------------------
(***************************************************************************)
(* The HTTP server of http.go: processes with a registry of agents, and    *)
(* requests that are routed, parsed and given to a registered handler in   *)
(* one of three ways.  A plain request waits for the handler's result, a   *)
(* stream carries events, and a webhook is answered 202 while its handler  *)
(* runs in a goroutine of its own.                                         *)
(*                                                                         *)
(* net/http is external: each request has a goroutine, r.Context() is done *)
(* when the client leaves, and a panic of a handler is recovered, except   *)
(* in a goroutine it did not start, where it ends the process.             *)
(***************************************************************************)
EXTENDS Deployment, Naturals, Sequences, SequencesExt

CONSTANTS
    Agents,           \* names of agents; they and the ids are such as routeIDRE allows
    BadPart,          \* a part of a path that it does not allow
    AllowNonWebhook   \* HTTPServerOptions.AllowNonWebhook

Triggers  == {"webhook", "internal"}       \* Triggers.Webhook of an agent
Absent    == "absent"                      \* no agent of that name
NoTarget  == <<>>
NoProc    == "none"
Modes     == {"webhook", "sse", "plain"}
Types     == {"token", "trace", "result", "error", "idle"}
Events    == [by : {"handler", "server"}, type : Types]

(* A request as it is sent: its method and the parts of its path below
   /agents/; the empty part stands for a missing one. *)
Odd    == {"", BadPart}
Shapes == [post : BOOLEAN, parts : ((Agents \cup Odd) \X (Ids \cup Odd)) \cup {<<a>> : a \in Agents}]

ASSUME HttpAssumption ==
    /\ BadPart \notin Agents \cup Ids \cup {""} /\ "" \notin Agents \cup Ids
    /\ NoProc \notin Procs
    /\ AllowNonWebhook \in BOOLEAN

VARIABLES
    up,        \* the processes that serve
    registry,  \* Registry.agents of each
    stage,     \* where each request is
    at,        \* the process that serves it
    target,    \* its agent's name and its id
    entry,     \* the registeredAgent it was routed to, a copy
    mode,
    outcome,   \* what the handler of a stream returned
    reply,     \* what its client was answered
    events,    \* what its client has read from the stream
    gone       \* the clients that left

httpVars == <<up, registry, stage, at, target, entry, mode, outcome, reply, events, gone>>

Serving(r)   == stage[r] \in {"payload", "running", "closing"}
CtxDone(r)   == r \in gone /\ mode[r] # "webhook"     \* a webhook has its own context
Exposed(e)   == e # Absent /\ (e = "webhook" \/ AllowNonWebhook)

(* The client hears only what is written while it is there. *)
Answers(r, what)   == reply' = [reply EXCEPT ![r] = IF r \in gone THEN @ ELSE what]
Writes(r, by, type) ==
    events' = [events EXCEPT ![r] = IF r \in gone THEN @
                                    ELSE Append(@, [by |-> by, type |-> type])]

HttpInit ==
    /\ up = {} /\ gone = {}
    /\ registry = [p \in Procs |-> [n \in Agents |-> Absent]]
    /\ stage    = [r \in Requests |-> "new"]
    /\ at       = [r \in Requests |-> NoProc]
    /\ target   = [r \in Requests |-> NoTarget]
    /\ entry    = [r \in Requests |-> Absent]
    /\ mode     = [r \in Requests |-> "none"]
    /\ outcome  = [r \in Requests |-> "none"]
    /\ reply    = [r \in Requests |-> "none"]
    /\ events   = [r \in Requests |-> <<>>]

-----------------------------------------------------------------------------
(* Processes.  The application registers its agents and serves; it may replace
   an agent while it serves.  (A Handle and a lookup at the same instant are a
   data race on the map, which the Go runtime may end with a fatal error: Crash.) *)

Start(p) ==
    /\ p \notin up
    /\ up' = up \cup {p}
    /\ registry' = [registry EXCEPT ![p] = [n \in Agents |-> "webhook"]]
    /\ UNCHANGED <<stage, at, target, entry, mode, outcome, reply, events, gone>>

Handle(p, n, t) ==
    /\ p \in up
    /\ registry' = [registry EXCEPT ![p][n] = t]
    /\ UNCHANGED <<up, stage, at, target, entry, mode, outcome, reply, events, gone>>

(* Nothing waits for the requests being served, nor for webhooks. *)
Crash(p) ==
    /\ p \in up
    /\ up' = up \ {p}
    /\ registry' = [registry EXCEPT ![p] = [n \in Agents |-> Absent]]
    /\ stage' = [r \in Requests |-> IF Serving(r) /\ at[r] = p THEN "lost" ELSE stage[r]]
    /\ UNCHANGED <<at, target, entry, mode, outcome, reply, events, gone>>

-----------------------------------------------------------------------------
(* A request up to its handler. *)

(* Mutant: the id is not checked. *)
RoutedAnyId(s, agents) ==
    /\ Len(s.parts) = 2 /\ "" \notin ToSet(s.parts)
    /\ s.post
    /\ s.parts[1] # BadPart
    /\ Exposed(agents[s.parts[1]])

(* The checks of the route, in their order: the path (404), the method (405), the
   identifiers (400), the agent (404).  Which of them refuses does not matter. *)
Routed(s, agents) ==
    /\ Len(s.parts) = 2 /\ "" \notin ToSet(s.parts)
    /\ s.post
    /\ BadPart \notin ToSet(s.parts)
    /\ Exposed(agents[s.parts[1]])

Route(r, p, s) ==
    /\ stage[r] = "new" /\ p \in up
    /\ IF Routed(s, registry[p])
       THEN /\ stage' = [stage EXCEPT ![r] = "payload"]
            /\ at' = [at EXCEPT ![r] = p]
            /\ target' = [target EXCEPT ![r] = s.parts]
            /\ entry' = [entry EXCEPT ![r] = registry[p][s.parts[1]]]
            /\ UNCHANGED reply
       ELSE /\ stage' = [stage EXCEPT ![r] = "done"]
            /\ Answers(r, "refused")
            /\ UNCHANGED <<at, target, entry>>
    /\ UNCHANGED <<up, registry, mode, outcome, events, gone>>

(* The payload is not JSON, is too long, or does not arrive (400). *)
BadPayload(r) ==
    /\ stage[r] = "payload"
    /\ stage' = [stage EXCEPT ![r] = "done"]
    /\ Answers(r, "refused")
    /\ UNCHANGED <<up, registry, at, target, entry, mode, outcome, events, gone>>

(* Mutant: the agent is looked up again once the payload is there. *)
DispatchLooksAgain(r, m) ==
    /\ stage[r] = "payload"
    /\ stage' = [stage EXCEPT ![r] = "running"]
    /\ mode' = [mode EXCEPT ![r] = m]
    /\ entry' = [entry EXCEPT ![r] = registry[at[r]][target[r][1]]]
    /\ IF m = "sse" THEN Answers(r, "stream") ELSE UNCHANGED reply
    /\ UNCHANGED <<up, registry, at, target, outcome, events, gone>>

(* The handler begins; X-Webhook goes before Accept.  A stream has its headers
   before the handler has done anything. *)
Dispatch(r, m) ==
    /\ stage[r] = "payload"
    /\ stage' = [stage EXCEPT ![r] = "running"]
    /\ mode' = [mode EXCEPT ![r] = m]
    /\ IF m = "sse" THEN Answers(r, "stream") ELSE UNCHANGED reply
    /\ UNCHANGED <<up, registry, at, target, entry, outcome, events, gone>>

(* 202, while the handler runs or even when it has ended. *)
Accept(r) ==
    /\ mode[r] = "webhook" /\ stage[r] \in {"running", "done"}
    /\ at[r] \in up /\ reply[r] = "none" /\ r \notin gone
    /\ Answers(r, "accepted")
    /\ UNCHANGED <<up, registry, stage, at, target, entry, mode, outcome, events, gone>>

(* The client leaves, or its connection breaks. *)
Disconnect(r) ==
    /\ Serving(r) /\ r \notin gone /\ reply[r] \in {"none", "stream"}
    /\ gone' = gone \cup {r}
    /\ UNCHANGED <<up, registry, stage, at, target, entry, mode, outcome, reply, events>>

-----------------------------------------------------------------------------
(* What a handler does. *)

(* RequestContext.Emit, which answers ctx.Err(). *)
Emit(r, type) ==
    /\ stage[r] = "running" /\ mode[r] = "sse"
    /\ Writes(r, "handler", type)
    /\ UNCHANGED <<up, registry, stage, at, target, entry, mode, outcome, reply, gone>>

(* The handler returns.  What a webhook's returns is dropped. *)
Returns(r, result) ==
    /\ stage[r] = "running"
    /\ IF mode[r] = "sse"
       THEN /\ stage' = [stage EXCEPT ![r] = "closing"]
            /\ outcome' = [outcome EXCEPT ![r] = result]
            /\ Writes(r, "server", result)
       ELSE stage' = [stage EXCEPT ![r] = "done"] /\ UNCHANGED <<outcome, events>>
    /\ IF mode[r] = "plain" THEN Answers(r, result) ELSE UNCHANGED reply
    /\ UNCHANGED <<up, registry, at, target, entry, mode, gone>>

(* Mutant: an error ends the stream without "idle". *)
WriteIdleAfterResult(r) ==
    /\ stage[r] = "closing"
    /\ stage' = [stage EXCEPT ![r] = "done"]
    /\ IF outcome[r] = "result" THEN Writes(r, "server", "idle") ELSE UNCHANGED events
    /\ UNCHANGED <<up, registry, at, target, entry, mode, outcome, reply, gone>>

WriteIdle(r) ==
    /\ stage[r] = "closing"
    /\ stage' = [stage EXCEPT ![r] = "done"]
    /\ Writes(r, "server", "idle")
    /\ UNCHANGED <<up, registry, at, target, entry, mode, outcome, reply, gone>>

(* The handler panics in the request's own goroutine: the connection is closed.
   In the goroutine of a webhook the panic is Crash(at[r]). *)
Panics(r) ==
    /\ stage[r] = "running" /\ mode[r] # "webhook"
    /\ stage' = [stage EXCEPT ![r] = "aborted"]
    /\ UNCHANGED <<up, registry, at, target, entry, mode, outcome, reply, events, gone>>

-----------------------------------------------------------------------------
HttpEnv ==
    \/ \E p \in Procs : \/ Start(p) \/ Crash(p)
                        \/ \E n \in Agents, t \in Triggers : Handle(p, n, t)
    \/ \E r \in Requests : Disconnect(r) \/ Panics(r)

HttpServes(r) ==
    \/ BadPayload(r) \/ Accept(r) \/ WriteIdle(r)
    \/ \E m \in Modes : Dispatch(r, m)

HttpNext ==
    \/ HttpEnv
    \/ \E r \in Requests :
         \/ \E p \in Procs, s \in Shapes : Route(r, p, s)
         \/ HttpServes(r)
         \/ \E t \in Types : Emit(r, t)
         \/ \E o \in {"result", "error"} : Returns(r, o)

HttpSpec == HttpInit /\ [][HttpNext]_httpVars

-----------------------------------------------------------------------------
(* Properties. *)

HttpTypeOK ==
    /\ up \subseteq Procs /\ gone \subseteq Requests
    /\ registry \in [Procs -> [Agents -> Triggers \cup {Absent}]]
    /\ stage \in [Requests -> {"new", "payload", "running", "closing", "done",
                               "aborted", "lost"}]
    /\ at \in [Requests -> Procs \cup {NoProc}]
    /\ target \in [Requests -> {NoTarget} \cup (Agents \X Ids)]
    /\ entry \in [Requests -> Triggers \cup {Absent}]
    /\ mode \in [Requests -> Modes \cup {"none"}]
    /\ outcome \in [Requests -> {"none", "result", "error"}]
    /\ reply \in [Requests -> {"none", "refused", "accepted", "stream", "result", "error"}]
    /\ events \in [Requests -> Seq(Events)]

(* A handler runs only for an agent that was exposed when the request was
   routed, however the registry changes while the payload is read. *)
HandlerWasExposed == \A r \in Requests : mode[r] # "none" => Exposed(entry[r])

(* A stream the client stayed for ends with the server's result or error, as the
   handler returned, and its idle; before them it holds the handler's events
   only; a stream cut short by a crash or a panic shows no idle of the server. *)
ByServer(r) == {i \in DOMAIN events[r] : events[r][i].by = "server"}
StreamEndsOnce ==
    \A r \in Requests : mode[r] = "sse" =>
        LET n == Len(events[r]) IN
        /\ stage[r] = "done" /\ r \notin gone =>
              /\ n >= 2 /\ events[r][n].type = "idle" /\ events[r][n - 1].type = outcome[r]
              /\ ByServer(r) = {n - 1, n}
        /\ stage[r] \in {"running", "aborted"} => ByServer(r) = {}
        /\ \A i \in ByServer(r) : events[r][i].type = "idle" => stage[r] = "done"
=============================================================================
