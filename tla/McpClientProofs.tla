--------------------------- MODULE McpClientProofs ---------------------------
(***************************************************************************)
(* Proofs about McpClient: for any remote server, a call runs the remote   *)
(* tool its tool was made from, at most once.                              *)
(***************************************************************************)
EXTENDS McpClient, TLAPS

(* Where a call is: nothing was sent for it, or what was sent is on its way, or
   was executed, or lost. *)
CallInv(k) ==
    /\ executed[k] = <<>> \/ \E a \in Remote : executed[k] = <<a>> /\ Sanitized[a] = asked[k]
    /\ inbox[k] # Nothing => inbox[k] \in Remote /\ Sanitized[inbox[k]] = asked[k] /\ executed[k] = <<>>
    /\ waiting[k] = "no" => inbox[k] = Nothing /\ executed[k] = <<>>
    /\ waiting[k] = "answered" => executed[k] # <<>>

ToolsOf(p) ==
    /\ Range(tools[p]) \subseteq Remote /\ DOMAIN tools[p] \subseteq ToolNames
    /\ \A t \in DOMAIN tools[p] : Sanitized[tools[p][t]] = t
    /\ connected[p] => \E v \in 1..version : Range(tools[p]) = Offers[v]

Shape == /\ version \in DOMAIN Offers
         /\ connected \in [Procs -> BOOLEAN] /\ DOMAIN tools = Procs
         /\ asked \in [Requests -> ToolNames \cup {Nothing}]
         /\ waiting \in [Requests -> {"no", "yes", "answered", "failed", "cut"}]
         /\ inbox \in [Requests -> Remote \cup {Nothing}]
         /\ executed \in [Requests -> Seq(Remote)]

McpInv == Shape /\ (\A k \in Requests : CallInv(k)) /\ \A p \in Procs : ToolsOf(p)

-----------------------------------------------------------------------------
(* The tools made of a list stand for all of it, if no name is shared. *)
LEMMA AdaptNames ==
    ASSUME NEW names \in SUBSET Remote
    PROVE  /\ DOMAIN Adapt(names) \subseteq ToolNames
           /\ \A t \in DOMAIN Adapt(names) : Adapt(names)[t] \in names
                                              /\ Sanitized[Adapt(names)[t]] = t
           /\ ~Ambiguous(names) => Range(Adapt(names)) = names
  <1> DEFINE T == {Sanitized[a] : a \in names}
             tool(t) == CHOOSE a \in names : Sanitized[a] = t
  <1>1. Adapt(names) = [t \in T |-> tool(t)]  BY DEF Adapt
  <1>2. \A t \in T : tool(t) \in names /\ Sanitized[tool(t)] = t  OBVIOUS
  <1>3. \A a \in names : Sanitized[a] \in T  OBVIOUS
  <1>4. T \subseteq ToolNames  BY McpAssumption DEF ToolNames, Range
  <1>5. ASSUME ~Ambiguous(names), NEW a \in names PROVE tool(Sanitized[a]) = a
        BY <1>2, <1>3, <1>5 DEF Ambiguous
  <1> HIDE DEF T, tool
  <1>6. ~Ambiguous(names) => Range(Adapt(names)) = names
        BY <1>1, <1>2, <1>3, <1>5 DEF Range
  <1> QED  BY <1>1, <1>2, <1>4, <1>6

LEMMA McpInitInv == McpInit => McpInv
  <1> SUFFICES ASSUME McpInit PROVE McpInv  OBVIOUS
  <1>1. 1 \in DOMAIN Offers  BY McpAssumption
  <1>2. Shape  BY <1>1 DEF McpInit, Shape
  <1>3. \A k \in Requests : CallInv(k)  BY DEF McpInit, CallInv
  <1>4. \A p \in Procs : ToolsOf(p)  BY DEF McpInit, ToolsOf, NoTools, Range
  <1> QED  BY <1>2, <1>3, <1>4 DEF McpInv

LEMMA ConnectInv ==
    ASSUME McpInv, NEW p \in Procs, ConnectMCPServer(p) PROVE McpInv'
  <1>1. /\ connected' = [connected EXCEPT ![p] = TRUE] /\ version' = version
        /\ tools' = [tools EXCEPT ![p] = Adapt(Offered)]
        /\ asked' = asked /\ waiting' = waiting /\ inbox' = inbox /\ executed' = executed
        BY DEF ConnectMCPServer
  <1>2. version \in 1..Len(Offers) /\ version \in Nat /\ Offered \in SUBSET Remote
    <2>1. version \in DOMAIN Offers  BY DEF McpInv, Shape
    <2> QED  BY <2>1, McpAssumption DEF Offered
  <1>3. Shape'  BY <1>1 DEF McpInv, Shape
  <1>4. \A k \in Requests : CallInv(k)'  BY <1>1 DEF McpInv, CallInv
  <1>5. ASSUME NEW q \in Procs PROVE ToolsOf(q)'
    <2>1. CASE q # p  BY <2>1, <1>1 DEF McpInv, ToolsOf, Shape
    <2>2. CASE q = p
      <3>1. tools'[q] = Adapt(Offered)  BY <2>2, <1>1 DEF McpInv, Shape
      <3>2. Range(Adapt(Offered)) = Offered
            BY <1>2, AdaptNames DEF ConnectMCPServer
      <3>3. version \in 1..version  BY <1>2
      <3> HIDE DEF Adapt
      <3>4. \E v \in 1..version' : Range(tools'[q]) = Offers[v]
            BY <1>1, <3>1, <3>2, <3>3 DEF Offered
      <3>5. /\ DOMAIN tools'[q] \subseteq ToolNames
            /\ \A t \in DOMAIN tools'[q] : Sanitized[tools'[q][t]] = t
            BY <3>1, <1>2, AdaptNames
      <3>6. Range(tools'[q]) \subseteq Remote  BY <3>1, <3>2, <1>2
      <3> QED  BY <3>4, <3>5, <3>6 DEF ToolsOf
    <2> QED  BY <2>1, <2>2
  <1> QED  BY <1>3, <1>4, <1>5 DEF McpInv

LEMMA HangupInv ==
    ASSUME McpInv, NEW p \in Procs, NEW calls \in SUBSET Requests, Hangup(p, calls) PROVE McpInv'
  <1>1. /\ connected' = [connected EXCEPT ![p] = FALSE] /\ version' = version
        /\ tools' = [tools EXCEPT ![p] = NoTools]
        /\ waiting' = [k \in Requests |-> IF k \in calls /\ waiting[k] = "yes" THEN "cut" ELSE waiting[k]]
        /\ asked' = asked /\ inbox' = inbox /\ executed' = executed
        BY DEF Hangup
  <1>2. Shape'  BY <1>1 DEF McpInv, Shape
  <1>3. \A k \in Requests : CallInv(k)'  BY <1>1 DEF McpInv, CallInv
  <1>4. ASSUME NEW q \in Procs PROVE ToolsOf(q)'
    <2>1. CASE q # p  BY <2>1, <1>1 DEF McpInv, ToolsOf, Shape
    <2>2. CASE q = p
      <3>1. tools'[q] = NoTools /\ ~connected'[q]  BY <2>2, <1>1 DEF McpInv, Shape
      <3> QED  BY <3>1 DEF ToolsOf, NoTools, Range
    <2> QED  BY <2>1, <2>2
  <1> QED  BY <1>2, <1>3, <1>4 DEF McpInv

(* A step that leaves the tools as they are and disturbs one call at most. *)
LEMMA OneCall ==
    ASSUME McpInv, Shape', NEW k \in Requests, CallInv(k)',
           UNCHANGED <<version, connected, tools>>,
           \A q \in Requests \ {k} : /\ asked'[q] = asked[q] /\ waiting'[q] = waiting[q]
                                  /\ inbox'[q] = inbox[q] /\ executed'[q] = executed[q]
    PROVE  McpInv'
  <1>1. \A q \in Requests \ {k} : CallInv(q)'  BY DEF McpInv, CallInv
  <1>2. \A p \in Procs : ToolsOf(p)'  BY DEF McpInv, ToolsOf
  <1> QED  BY <1>1, <1>2 DEF McpInv

LEMMA SendInv ==
    ASSUME McpInv, NEW p \in Procs, NEW k \in Requests, NEW t,
           Send(p, k, t) \/ SendFails(p, k, t)
    PROVE  McpInv'
  <1>1. /\ t \in DOMAIN tools[p] /\ waiting[k] = "no"
        /\ asked' = [asked EXCEPT ![k] = t] /\ executed' = executed
        /\ UNCHANGED <<version, connected, tools>>
        BY DEF Send, SendFails
  <1>2. /\ tools[p][t] \in Remote /\ Sanitized[tools[p][t]] = t /\ t \in ToolNames
        /\ inbox[k] = Nothing /\ executed[k] = <<>>
        BY <1>1 DEF McpInv, ToolsOf, CallInv, Range
  <1>3. PICK w \in {"yes", "failed"}, sent \in {tools[p][t], Nothing} :
          waiting' = [waiting EXCEPT ![k] = w] /\ inbox' = [inbox EXCEPT ![k] = sent]
    <2>1. CASE Send(p, k, t)  BY <2>1 DEF Send
    <2>2. CASE SendFails(p, k, t)
      <3>1. inbox' = [inbox EXCEPT ![k] = Nothing]
            BY <2>2, <1>2 DEF SendFails, McpInv, Shape
      <3> QED  BY <2>2, <3>1 DEF SendFails
    <2> QED  BY <2>1, <2>2
  <1>4. Shape'  BY <1>1, <1>2, <1>3 DEF McpInv, Shape
  <1>5. asked'[k] = t /\ waiting'[k] = w /\ inbox'[k] = sent /\ executed'[k] = <<>>
        BY <1>1, <1>2, <1>3 DEF McpInv, Shape
  <1>6. CallInv(k)'  BY <1>2, <1>3, <1>5 DEF CallInv
  <1>7. \A q \in Requests \ {k} : /\ asked'[q] = asked[q] /\ waiting'[q] = waiting[q]
                               /\ inbox'[q] = inbox[q] /\ executed'[q] = executed[q]
        BY <1>1, <1>3 DEF McpInv, Shape
  <1> QED  BY <1>1, <1>4, <1>6, <1>7, OneCall

LEMMA AnswerInv ==
    ASSUME McpInv, NEW k \in Requests, Answered(k) \/ CallFails(k) PROVE McpInv'
  <1>1. PICK w \in {"answered", "failed"} :
          /\ waiting' = [waiting EXCEPT ![k] = w] /\ waiting[k] = "yes"
          /\ w = "answered" => executed[k] # <<>>
        BY DEF Answered, CallFails
  <1>2. UNCHANGED <<version, connected, tools, asked, inbox, executed>>
        BY DEF Answered, CallFails
  <1>3. Shape'  BY <1>1, <1>2 DEF McpInv, Shape
  <1>4. CallInv(k)'  BY <1>1, <1>2 DEF McpInv, Shape, CallInv
  <1>5. \A q \in Requests \ {k} : waiting'[q] = waiting[q]  BY <1>1 DEF McpInv, Shape
  <1> QED  BY <1>2, <1>3, <1>4, <1>5, OneCall

LEMMA RemoteInv ==
    ASSUME McpInv, RemoteNext PROVE McpInv'
  <1>1. CASE ChangeOffer
    <2>1. /\ version' = version + 1 /\ version < Len(Offers)
          /\ UNCHANGED <<connected, tools, asked, waiting, inbox, executed>>
          BY <1>1 DEF ChangeOffer
    <2>2. version \in 1..Len(Offers) /\ DOMAIN Offers = 1..Len(Offers) /\ Len(Offers) \in Nat
          BY McpAssumption DEF McpInv, Shape
    <2>3. version' \in DOMAIN Offers  BY <2>1, <2>2
    <2>4. 1..version \subseteq 1..version'  BY <2>1, <2>2
    <2>5. Shape'  BY <2>1, <2>3 DEF McpInv, Shape
    <2>6. \A k \in Requests : CallInv(k)'  BY <2>1 DEF McpInv, CallInv
    <2>7. \A p \in Procs : ToolsOf(p)'  BY <2>1, <2>4 DEF McpInv, ToolsOf
    <2> QED  BY <2>5, <2>6, <2>7 DEF McpInv
  <1>2. ASSUME NEW k \in Requests, Execute(k) \/ Drop(k) PROVE McpInv'
    <2>1. /\ inbox[k] # Nothing /\ inbox' = [inbox EXCEPT ![k] = Nothing]
          /\ UNCHANGED <<version, connected, tools, asked, waiting>>
      <3>1. version \in DOMAIN Offers  BY DEF McpInv, Shape
      <3>2. Offered \in SUBSET Remote  BY <3>1, McpAssumption DEF Offered
      <3>3. Nothing \notin Offered  BY <3>2, McpAssumption
      <3> QED  BY <1>2, <3>3 DEF Execute, Drop
    <2>2. /\ inbox[k] \in Remote /\ Sanitized[inbox[k]] = asked[k] /\ executed[k] = <<>>
          /\ waiting[k] # "no"
          BY <2>1 DEF McpInv, CallInv
    <2>3. executed' = executed \/ executed' = [executed EXCEPT ![k] = <<inbox[k]>>]
      <3>1. CASE Execute(k)
            BY <3>1, <2>2 DEF Execute
      <3>2. CASE Drop(k)  BY <3>2 DEF Drop
      <3> QED  BY <1>2, <3>1, <3>2
    <2>4. executed'[k] = <<>> \/ executed'[k] = <<inbox[k]>>
          BY <2>2, <2>3 DEF McpInv, Shape
    <2>5. inbox'[k] = Nothing  BY <2>1 DEF McpInv, Shape
    <2>6. waiting[k] = "answered" => executed'[k] # <<>>
          BY <2>2 DEF McpInv, CallInv
    <2>7. CallInv(k)'  BY <2>1, <2>2, <2>4, <2>5, <2>6 DEF CallInv
    <2>8. Shape'
      <3>1. executed' \in [Requests -> Seq(Remote)]
        <4>1. <<inbox[k]>> \in Seq(Remote)  BY <2>2
        <4> QED  BY <4>1, <2>3 DEF McpInv, Shape
      <3> QED  BY <2>1, <3>1 DEF McpInv, Shape
    <2>9. \A q \in Requests \ {k} : inbox'[q] = inbox[q] /\ executed'[q] = executed[q]
          BY <2>1, <2>3 DEF McpInv, Shape
    <2> QED  BY <2>1, <2>7, <2>8, <2>9, OneCall
  <1> QED  BY <1>1, <1>2 DEF RemoteNext

LEMMA McpNextInv == McpInv /\ [McpNext]_mcpVars => McpInv'
  <1> SUFFICES ASSUME McpInv, [McpNext]_mcpVars PROVE McpInv'  OBVIOUS
  <1>1. CASE UNCHANGED mcpVars
        BY <1>1 DEF mcpVars, McpInv, Shape, CallInv, ToolsOf
  <1>2. ASSUME NEW k \in Requests, CallNext(k) PROVE McpInv'
        BY <1>2, SendInv, AnswerInv DEF CallNext
  <1>3. ASSUME NEW p \in Procs, NEW calls \in SUBSET Requests, Hangup(p, calls) PROVE McpInv'
        BY <1>3, HangupInv
  <1> QED  BY <1>1, <1>2, <1>3, ConnectInv, RemoteInv DEF McpNext

LEMMA CallProperty == McpInv => CallRunsItsTool
  <1> SUFFICES ASSUME McpInv, NEW k \in Requests
               PROVE  /\ \A i \in DOMAIN executed[k] : Sanitized[executed[k][i]] = asked[k]
                      /\ Len(executed[k]) <= 1
                      /\ waiting[k] = "answered" => Len(executed[k]) = 1
      BY DEF CallRunsItsTool
  <1>1. CallInv(k)  BY DEF McpInv
  <1>2. CASE executed[k] = <<>>  BY <1>1, <1>2 DEF CallInv
  <1>3. CASE executed[k] # <<>>
    <2>1. PICK a \in Remote : executed[k] = <<a>> /\ Sanitized[a] = asked[k]
          BY <1>1, <1>3 DEF CallInv
    <2> QED  BY <2>1
  <1> QED  BY <1>2, <1>3

-----------------------------------------------------------------------------
(* Whatever is lost, given up, killed or changed meanwhile, a tool call runs the
   remote tool its tool was made from, at most once, and exactly once if it had an
   answer. *)
THEOREM CallsRunTheirTools == McpSpec => []CallRunsItsTool
  <1>1. McpInit => McpInv  BY McpInitInv
  <1>2. McpInv /\ [McpNext]_mcpVars => McpInv'  BY McpNextInv
  <1> QED  BY <1>1, <1>2, CallProperty, PTL DEF McpSpec

(* Each tool of a connection stands for one remote tool, and each remote tool of
   the list it was made from has one. *)
THEOREM ToolsStandForOne == McpSpec => []ToolsUnambiguous
  <1>1. McpInit => McpInv  BY McpInitInv
  <1>2. McpInv /\ [McpNext]_mcpVars => McpInv'  BY McpNextInv
  <1>3. McpInv => ToolsUnambiguous  BY DEF McpInv, ToolsOf, ToolsUnambiguous
  <1> QED  BY <1>1, <1>2, <1>3, PTL DEF McpSpec

(* The types of the client and its calls, in every reachable state. *)
THEOREM McpTyped == McpSpec => []McpTypeOK
  <1>1. McpInv => McpTypeOK  BY DEF McpInv, Shape, ToolsOf, McpTypeOK
  <1> QED  BY <1>1, McpInitInv, McpNextInv, PTL DEF McpSpec
=============================================================================
