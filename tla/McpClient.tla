------------------------------ MODULE McpClient ------------------------------
(***************************************************************************)
(* The MCP client of mcp.go.  A process connects to a remote server once,  *)
(* makes a tool of each remote tool it lists, and calls them over HTTP,    *)
(* one POST for each call and no retry.                                    *)
(*                                                                         *)
(* The remote server and the network are external: a request that was sent *)
(* arrives or not, whatever becomes of the client, and an answer may be    *)
(* lost after the tool has run.                                            *)
(***************************************************************************)
EXTENDS Deployment, Naturals, Sequences, FiniteSets, Functions

CONSTANTS
    Remote,     \* names of remote tools
    Sanitized,  \* sanitizeMCPName of each, hence the name of the tool made of it
    Offers      \* bound: the sets of tools the remote server offers, in turn

ToolNames == Range(Sanitized)
NoTools   == [t \in {} |-> t]
Nothing   == "nothing"

ASSUME McpAssumption ==
    /\ DOMAIN Sanitized = Remote
    /\ Offers \in Seq(SUBSET Remote) /\ Offers # <<>>
    /\ Nothing \notin Remote

VARIABLES
    version,   \* which of Offers the remote server offers
    connected, \* the processes with a connection
    tools,     \* the remote name each tool of a process was made from
    asked,     \* the tool each call is of, as the model named it
    waiting,   \* mcpHTTPClient.call: where the client is
    inbox,     \* the remote name in the POST, until the server is done with it
    executed   \* the remote tools run for a call, a ghost

mcpVars == <<version, connected, tools, asked, waiting, inbox, executed>>

McpInit ==
    /\ version = 1
    /\ connected = [p \in Procs |-> FALSE]
    /\ tools    = [p \in Procs |-> NoTools]
    /\ asked    = [k \in Requests |-> Nothing]
    /\ waiting  = [k \in Requests |-> "no"]
    /\ inbox    = [k \in Requests |-> Nothing]
    /\ executed = [k \in Requests |-> <<>>]

Offered == Offers[version]

-----------------------------------------------------------------------------
(* ConnectMCPServer. *)

(* The tools made of a list of remote tools. *)
Ambiguous(names) == \E a, b \in names : a # b /\ Sanitized[a] = Sanitized[b]
Adapt(names) == [t \in {Sanitized[a] : a \in names} |-> CHOOSE a \in names : Sanitized[a] = t]

(* Mutant: of two remote tools with one name, one is taken. *)
ConnectLenient(p) ==
    /\ ~connected[p]
    /\ connected' = [connected EXCEPT ![p] = TRUE]
    /\ tools' = [tools EXCEPT ![p] = Adapt(Offered)]
    /\ UNCHANGED <<version, asked, waiting, inbox, executed>>

(* "initialize" and "tools/list": one tool for each remote tool, under its
   sanitized name.  When two have one name, or a call fails, nothing is made. *)
ConnectMCPServer(p) ==
    /\ ~connected[p] /\ ~Ambiguous(Offered)
    /\ connected' = [connected EXCEPT ![p] = TRUE]
    /\ tools' = [tools EXCEPT ![p] = Adapt(Offered)]
    /\ UNCHANGED <<version, asked, waiting, inbox, executed>>

(* The process ends; its calls are not heard of again. *)
Hangup(p, calls) ==
    /\ connected' = [connected EXCEPT ![p] = FALSE]
    /\ tools' = [tools EXCEPT ![p] = NoTools]
    /\ waiting' = [k \in Requests |-> IF k \in calls /\ waiting[k] = "yes" THEN "cut" ELSE waiting[k]]
    /\ UNCHANGED <<version, asked, inbox, executed>>

-----------------------------------------------------------------------------
(* A tool call: Execute of the adapted tool, that is mcpHTTPClient.call. *)

(* Mutant: every tool has the name of the last one listed (a closure over the
   loop's variable). *)
SendLast(p, k, t) ==
    /\ connected[p] /\ t \in DOMAIN tools[p] /\ waiting[k] = "no"
    /\ asked' = [asked EXCEPT ![k] = t]
    /\ waiting' = [waiting EXCEPT ![k] = "yes"]
    /\ inbox' = [inbox EXCEPT ![k] = CHOOSE a \in Range(tools[p]) : TRUE]
    /\ UNCHANGED <<version, connected, tools, executed>>

Send(p, k, t) ==
    /\ connected[p] /\ t \in DOMAIN tools[p] /\ waiting[k] = "no"
    /\ asked' = [asked EXCEPT ![k] = t]
    /\ waiting' = [waiting EXCEPT ![k] = "yes"]
    /\ inbox' = [inbox EXCEPT ![k] = tools[p][t]]
    /\ UNCHANGED <<version, connected, tools, executed>>

(* Do fails at once: the context is done, or there is no connection. *)
SendFails(p, k, t) ==
    /\ connected[p] /\ t \in DOMAIN tools[p] /\ waiting[k] = "no"
    /\ asked' = [asked EXCEPT ![k] = t]
    /\ waiting' = [waiting EXCEPT ![k] = "failed"]
    /\ UNCHANGED <<version, connected, tools, inbox, executed>>

(* The answer: a result, if the tool has run. *)
Answered(k) ==
    /\ waiting[k] = "yes" /\ executed[k] # <<>>
    /\ waiting' = [waiting EXCEPT ![k] = "answered"]
    /\ UNCHANGED <<version, connected, tools, asked, inbox, executed>>

(* No answer, a status that is no success, an error of the server, a result with
   isError, or a context that is done: the tool's result is an error. *)
CallFails(k) ==
    /\ waiting[k] = "yes"
    /\ waiting' = [waiting EXCEPT ![k] = "failed"]
    /\ UNCHANGED <<version, connected, tools, asked, inbox, executed>>

-----------------------------------------------------------------------------
(* The remote server. *)

Execute(k) ==
    /\ inbox[k] \in Offered
    /\ executed' = [executed EXCEPT ![k] = Append(@, inbox[k])]
    /\ inbox' = [inbox EXCEPT ![k] = Nothing]
    /\ UNCHANGED <<version, connected, tools, asked, waiting>>

(* The request is lost, or names a tool that is not offered (any more). *)
Drop(k) ==
    /\ inbox[k] # Nothing
    /\ inbox' = [inbox EXCEPT ![k] = Nothing]
    /\ UNCHANGED <<version, connected, tools, asked, waiting, executed>>

ChangeOffer ==
    /\ version < Len(Offers) /\ version' = version + 1
    /\ UNCHANGED <<connected, tools, asked, waiting, inbox, executed>>

-----------------------------------------------------------------------------
RemoteNext == ChangeOffer \/ \E k \in Requests : Execute(k) \/ Drop(k)

CallNext(k) ==
    \/ Answered(k) \/ CallFails(k)
    \/ \E p \in Procs, t \in ToolNames : Send(p, k, t) \/ SendFails(p, k, t)

McpNext ==
    \/ RemoteNext
    \/ \E p \in Procs : \/ ConnectMCPServer(p)
                        \/ \E calls \in SUBSET Requests : Hangup(p, calls)
    \/ \E k \in Requests : CallNext(k)

McpSpec == McpInit /\ [][McpNext]_mcpVars

-----------------------------------------------------------------------------
(* Properties. *)

McpTypeOK ==
    /\ version \in DOMAIN Offers
    /\ connected \in [Procs -> BOOLEAN]
    /\ \A p \in Procs : DOMAIN tools[p] \subseteq ToolNames /\ Range(tools[p]) \subseteq Remote
    /\ asked \in [Requests -> ToolNames \cup {Nothing}]
    /\ waiting \in [Requests -> {"no", "yes", "answered", "failed", "cut"}]
    /\ inbox \in [Requests -> Remote \cup {Nothing}]
    /\ executed \in [Requests -> Seq(Remote)]

(* A call runs the remote tool that the called tool was made from, at most once,
   and exactly once if the client had an answer: no matter that its client gave
   up, that its process died or that the server changed its tools meanwhile. *)
CallRunsItsTool ==
    \A k \in Requests :
        /\ \A i \in DOMAIN executed[k] : Sanitized[executed[k][i]] = asked[k]
        /\ Len(executed[k]) <= 1
        /\ waiting[k] = "answered" => Len(executed[k]) = 1

(* Each tool of a connection stands for one remote tool, and no two remote tools
   of the list it was made from share a tool, so none of them is out of reach. *)
ToolsUnambiguous ==
    \A p \in Procs : connected[p] =>
        /\ \A t \in DOMAIN tools[p] : Sanitized[tools[p][t]] = t
        /\ \E v \in 1..version : Range(tools[p]) = Offers[v]
=============================================================================
