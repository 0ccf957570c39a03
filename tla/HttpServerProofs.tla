--------------------------- MODULE HttpServerProofs ---------------------------
(***************************************************************************)
(* Proofs about HttpServer: for any processes and requests, a handler runs *)
(* only for an agent that was exposed, and a stream ends once.             *)
(***************************************************************************)
EXTENDS HttpServer, TLAPS

(* What is so of each request. *)
RequestOK(r) ==
    /\ stage[r] \in {"running", "closing", "aborted"} => mode[r] # "none"
    /\ mode[r] # "none" => stage[r] \notin {"new", "payload"}
    /\ mode[r] = "none" => events[r] = <<>>
    /\ stage[r] = "closing" => mode[r] = "sse"
    /\ Serving(r) => at[r] \in Procs /\ target[r] \in Agents \X Ids
    /\ stage[r] = "payload" \/ mode[r] # "none" => Exposed(entry[r])

FromServer(r, i) == events[r][i].by = "server"
NoneYet(r)    == \A i \in DOMAIN events[r] : ~FromServer(r, i)
Closing(r) ==
    LET n == Len(events[r]) IN
    /\ outcome[r] \in {"result", "error"}
    /\ \A i \in DOMAIN events[r] : FromServer(r, i) => i = n /\ events[r][i].type = outcome[r]
    /\ r \notin gone => n >= 1 /\ FromServer(r, n)
CutShort(r) == \A i \in DOMAIN events[r] : FromServer(r, i) => events[r][i].type # "idle"
Ended(r)   ==
    LET n == Len(events[r]) IN
    r \notin gone => /\ n >= 2 /\ events[r][n].type = "idle"
                     /\ events[r][n - 1].type = outcome[r]
                     /\ \A i \in DOMAIN events[r] : FromServer(r, i) <=> i \in {n - 1, n}
StreamOK(r) ==
    mode[r] = "sse" => /\ stage[r] \in {"running", "aborted"} => NoneYet(r)
                       /\ stage[r] = "closing" => Closing(r)
                       /\ stage[r] = "lost" => CutShort(r)
                       /\ stage[r] = "done" => Ended(r)

HttpInv == HttpTypeOK /\ \A r \in Requests : RequestOK(r) /\ StreamOK(r)

-----------------------------------------------------------------------------
(* An event at the end of a stream. *)
LEMMA Appended ==
    ASSUME NEW s \in Seq(Events), NEW e \in Events
    PROVE  /\ Append(s, e) \in Seq(Events) /\ Len(Append(s, e)) = Len(s) + 1
           /\ Len(s) \in Nat /\ DOMAIN s = 1..Len(s)
           /\ DOMAIN Append(s, e) = 1..(Len(s) + 1)
           /\ \A i \in 1..Len(s) : Append(s, e)[i] = s[i]
           /\ Append(s, e)[Len(s) + 1] = e
  OBVIOUS

LEMMA WritesOne ==
    ASSUME HttpTypeOK, NEW r \in Requests, NEW b \in {"handler", "server"}, NEW t \in Types,
           Writes(r, b, t)
    PROVE  /\ events' \in [Requests -> Seq(Events)]
           /\ \A q \in Requests \ {r} : events'[q] = events[q]
           /\ r \in gone => events'[r] = events[r]
           /\ r \notin gone => events'[r] = Append(events[r], [by |-> b, type |-> t])
  <1> DEFINE e == [by |-> b, type |-> t]
             new == IF r \in gone THEN events[r] ELSE Append(events[r], e)
  <1>1. e \in Events  BY DEF Events
  <1>2. events[r] \in Seq(Events)  BY DEF HttpTypeOK
  <1>3. new \in Seq(Events)  BY <1>1, <1>2, Appended
  <1>4. events' = [events EXCEPT ![r] = new]  BY DEF Writes
  <1> HIDE DEF e, new
  <1>5. events' \in [Requests -> Seq(Events)] /\ events'[r] = new
        /\ \A q \in Requests \ {r} : events'[q] = events[q]
        BY <1>3, <1>4 DEF HttpTypeOK
  <1> QED  BY <1>5 DEF new, e

(* A step that disturbs one request at most. *)
Untouched(q) == /\ stage'[q] = stage[q] /\ at'[q] = at[q] /\ target'[q] = target[q]
                /\ entry'[q] = entry[q] /\ mode'[q] = mode[q] /\ outcome'[q] = outcome[q]
                /\ events'[q] = events[q] /\ (q \in gone' <=> q \in gone)

LEMMA OneRequest ==
    ASSUME HttpInv, HttpTypeOK', NEW r, RequestOK(r)', StreamOK(r)',
           \A q \in Requests \ {r} : Untouched(q)
    PROVE  HttpInv'
  <1>1. ASSUME NEW q \in Requests \ {r} PROVE RequestOK(q)' /\ StreamOK(q)'
    <2>1. RequestOK(q)'
          BY <1>1 DEF HttpInv, RequestOK, Untouched, Serving
    <2>2. StreamOK(q)'
          BY <1>1 DEF HttpInv, StreamOK, Untouched, NoneYet, Closing, CutShort, Ended, FromServer
    <2> QED  BY <2>1, <2>2
  <1> QED  BY <1>1 DEF HttpInv

LEMMA HttpInitInv == HttpInit => HttpInv
  <1> SUFFICES ASSUME HttpInit PROVE HttpInv  OBVIOUS
  <1>1. HttpTypeOK
    <2>1. events \in [Requests -> Seq(Events)]  BY DEF HttpInit
    <2> QED  BY <2>1 DEF HttpInit, HttpTypeOK, Modes, Triggers
  <1>2. ASSUME NEW r \in Requests PROVE RequestOK(r) /\ StreamOK(r)
        BY DEF HttpInit, RequestOK, Serving, StreamOK
  <1> QED  BY <1>1, <1>2 DEF HttpInv

-----------------------------------------------------------------------------
(* Processes. *)

LEMMA RegistryInv ==
    ASSUME HttpInv, NEW p \in Procs, Start(p) \/ \E n \in Agents, t \in Triggers : Handle(p, n, t)
    PROVE  HttpInv'
  <1>1. UNCHANGED <<stage, at, target, entry, mode, outcome, reply, events, gone>>
        BY DEF Start, Handle
  <1>2. up' \subseteq Procs  BY DEF Start, Handle, HttpInv, HttpTypeOK
  <1>3. registry' \in [Procs -> [Agents -> Triggers \cup {Absent}]]
    <2>1. CASE Start(p)  BY <2>1 DEF Start, HttpInv, HttpTypeOK, Triggers
    <2>2. ASSUME NEW n \in Agents, NEW t \in Triggers, Handle(p, n, t)
          PROVE  registry' \in [Procs -> [Agents -> Triggers \cup {Absent}]]
      <3>1. registry' = [registry EXCEPT ![p] = [registry[p] EXCEPT ![n] = t]]
            BY <2>2 DEF Handle
      <3> QED  BY <3>1 DEF HttpInv, HttpTypeOK
    <2> QED  BY <2>1, <2>2
  <1>4. HttpTypeOK'  BY <1>1, <1>2, <1>3 DEF HttpInv, HttpTypeOK
  <1>5. ASSUME NEW r \in Requests PROVE RequestOK(r)' /\ StreamOK(r)'
        BY <1>1 DEF HttpInv, RequestOK, Serving, StreamOK, NoneYet, Closing, CutShort, Ended, FromServer
  <1> QED  BY <1>4, <1>5 DEF HttpInv

LEMMA CrashInv == ASSUME HttpInv, NEW p \in Procs, Crash(p) PROVE HttpInv'
  <1>1. /\ UNCHANGED <<at, target, entry, mode, outcome, reply, events, gone>>
        /\ stage' = [r \in Requests |-> IF Serving(r) /\ at[r] = p THEN "lost" ELSE stage[r]]
        /\ up' = up \ {p}
        /\ registry' = [registry EXCEPT ![p] = [n \in Agents |-> Absent]]
        BY DEF Crash
  <1>2. HttpTypeOK'
    <2>1. stage' \in [Requests -> {"new", "payload", "running", "closing", "done",
                               "aborted", "lost"}]
          BY <1>1 DEF HttpInv, HttpTypeOK
    <2>2. registry' \in [Procs -> [Agents -> Triggers \cup {Absent}]]
          BY <1>1 DEF HttpInv, HttpTypeOK
    <2> QED  BY <1>1, <2>1, <2>2 DEF HttpInv, HttpTypeOK
  <1>3. ASSUME NEW r \in Requests PROVE RequestOK(r)' /\ StreamOK(r)'
    <2>1. RequestOK(r) /\ StreamOK(r)  BY DEF HttpInv
    <2>2. CASE stage'[r] = stage[r]
          BY <2>1, <2>2, <1>1 DEF RequestOK, Serving, StreamOK, NoneYet, Closing, CutShort, Ended, FromServer
    <2>3. CASE Serving(r) /\ stage'[r] = "lost"
      <3>1. RequestOK(r)'  BY <2>1, <2>3, <1>1 DEF RequestOK, Serving
      <3>2. mode[r] = "sse" => stage[r] \in {"running", "closing"}
            BY <2>1, <2>3 DEF RequestOK, Serving
      <3>3. mode[r] = "sse" => CutShort(r)
            BY <2>1, <3>2 DEF StreamOK, NoneYet, Closing, CutShort
      <3>4. StreamOK(r)'  BY <3>3, <2>3, <1>1 DEF StreamOK, CutShort, FromServer
      <3> QED  BY <3>1, <3>4
    <2> QED  BY <2>2, <2>3, <1>1
  <1> QED  BY <1>2, <1>3 DEF HttpInv

-----------------------------------------------------------------------------
(* Requests. *)

LEMMA RoutedTarget ==
    ASSUME NEW s \in Shapes, NEW agents, Routed(s, agents)
    PROVE  s.parts \in Agents \X Ids /\ Exposed(agents[s.parts[1]])
  <1>1. /\ s.parts \in ((Agents \cup Odd) \X (Ids \cup Odd)) \cup {<<a>> : a \in Agents}
        /\ Len(s.parts) = 2 /\ "" \notin ToSet(s.parts) /\ BadPart \notin ToSet(s.parts)
        /\ Exposed(agents[s.parts[1]])
        BY DEF Shapes, Routed
  <1>2. s.parts \notin {<<a>> : a \in Agents}
    <2> SUFFICES ASSUME NEW a \in Agents, s.parts = <<a>> PROVE FALSE  OBVIOUS
    <2>1. Len(<<a>>) = 1  OBVIOUS
    <2>2. Len(s.parts) = 2  BY <1>1
    <2>3. Len(s.parts) = 1  BY <2>1, Zenon
    <2> QED  BY <2>2, <2>3
  <1>3. s.parts \in (Agents \cup Odd) \X (Ids \cup Odd)  BY <1>1, <1>2
  <1>4. PICK a \in Agents \cup Odd, i \in Ids \cup Odd : s.parts = <<a, i>>  BY <1>3
  <1>5. ToSet(s.parts) = {a, i}  BY <1>4 DEF ToSet
  <1>6. a \in Agents /\ i \in Ids  BY <1>1, <1>5 DEF Odd
  <1>7. s.parts \in Agents \X Ids  BY <1>4, <1>6
  <1> QED  BY <1>1, <1>7

LEMMA AnswersTyped ==
    ASSUME HttpTypeOK, NEW r \in Requests, NEW what, Answers(r, what),
           what \in {"refused", "accepted", "stream", "result", "error"}
    PROVE  reply' \in [Requests -> {"none", "refused", "accepted", "stream", "result", "error"}]
  BY DEF HttpTypeOK, Answers

LEMMA RouteInv ==
    ASSUME HttpInv, NEW r \in Requests, NEW p \in Procs, NEW s \in Shapes, Route(r, p, s)
    PROVE  HttpInv'
  <1>1. stage[r] = "new" /\ UNCHANGED <<up, registry, mode, outcome, events, gone>>
        /\ HttpTypeOK /\ RequestOK(r)
        BY DEF Route, HttpInv
  <1>2. mode[r] = "none"  BY <1>1 DEF RequestOK
  <1>3. CASE Routed(s, registry[p])
    <2>1. /\ stage' = [stage EXCEPT ![r] = "payload"] /\ at' = [at EXCEPT ![r] = p]
          /\ target' = [target EXCEPT ![r] = s.parts]
          /\ entry' = [entry EXCEPT ![r] = registry[p][s.parts[1]]]
          /\ reply' = reply
          BY <1>3 DEF Route
    <2>2. s.parts \in Agents \X Ids /\ Exposed(registry[p][s.parts[1]])
          BY <1>3, RoutedTarget
    <2>3. registry[p][s.parts[1]] \in Triggers \cup {Absent}
          BY <1>1, <2>2 DEF HttpTypeOK
    <2>4. HttpTypeOK'
      <3>1. target' \in [Requests -> {NoTarget} \cup (Agents \X Ids)]
            BY <1>1, <2>1, <2>2 DEF HttpTypeOK
      <3>2. entry' \in [Requests -> Triggers \cup {Absent}]
            BY <1>1, <2>1, <2>3 DEF HttpTypeOK
      <3> QED  BY <1>1, <2>1, <3>1, <3>2 DEF HttpTypeOK
    <2>5. /\ stage'[r] = "payload" /\ at'[r] = p /\ target'[r] = s.parts
          /\ entry'[r] = registry[p][s.parts[1]]
          BY <1>1, <2>1 DEF HttpTypeOK
    <2>6. RequestOK(r)'  BY <1>1, <1>2, <2>2, <2>5 DEF RequestOK, Serving
    <2>7. StreamOK(r)'  BY <1>1, <1>2 DEF StreamOK
    <2>8. \A q \in Requests \ {r} : Untouched(q)  BY <1>1, <2>1 DEF Untouched, HttpTypeOK
    <2> QED  BY <2>4, <2>6, <2>7, <2>8, OneRequest
  <1>4. CASE ~Routed(s, registry[p])
    <2>1. /\ stage' = [stage EXCEPT ![r] = "done"] /\ Answers(r, "refused")
          /\ UNCHANGED <<at, target, entry>>
          BY <1>4 DEF Route
    <2>2. HttpTypeOK'  BY <1>1, <2>1, AnswersTyped DEF HttpTypeOK
    <2>3. stage'[r] = "done"  BY <1>1, <2>1 DEF HttpTypeOK
    <2>4. RequestOK(r)' /\ StreamOK(r)'  BY <1>1, <1>2, <2>1, <2>3 DEF RequestOK, Serving, StreamOK
    <2>5. \A q \in Requests \ {r} : Untouched(q)  BY <1>1, <2>1 DEF Untouched, HttpTypeOK
    <2> QED  BY <2>2, <2>4, <2>5, OneRequest
  <1> QED  BY <1>3, <1>4

LEMMA BadPayloadInv ==
    ASSUME HttpInv, NEW r \in Requests, BadPayload(r) PROVE HttpInv'
  <1>1. /\ stage[r] = "payload" /\ stage' = [stage EXCEPT ![r] = "done"] /\ Answers(r, "refused")
        /\ UNCHANGED <<up, registry, at, target, entry, mode, outcome, events, gone>>
        /\ HttpTypeOK /\ RequestOK(r)
        BY DEF BadPayload, HttpInv
  <1>2. HttpTypeOK'  BY <1>1, AnswersTyped DEF HttpTypeOK
  <1>3. stage'[r] = "done" /\ mode[r] = "none"  BY <1>1 DEF HttpTypeOK, RequestOK
  <1>4. RequestOK(r)' /\ StreamOK(r)'  BY <1>1, <1>3 DEF RequestOK, Serving, StreamOK
  <1>5. \A q \in Requests \ {r} : Untouched(q)  BY <1>1 DEF Untouched, HttpTypeOK
  <1> QED  BY <1>2, <1>4, <1>5, OneRequest

LEMMA DispatchInv ==
    ASSUME HttpInv, NEW r \in Requests, NEW m \in Modes, Dispatch(r, m) PROVE HttpInv'
  <1>1. /\ stage[r] = "payload" /\ stage' = [stage EXCEPT ![r] = "running"]
        /\ mode' = [mode EXCEPT ![r] = m]
        /\ UNCHANGED <<up, registry, at, target, entry, outcome, events, gone>>
        /\ HttpTypeOK /\ RequestOK(r)
        BY DEF Dispatch, HttpInv
  <1>2. reply' \in [Requests -> {"none", "refused", "accepted", "stream", "result", "error"}]
        BY <1>1, AnswersTyped DEF Dispatch, HttpTypeOK
  <1>3. HttpTypeOK'  BY <1>1, <1>2 DEF HttpTypeOK
  <1>4. stage'[r] = "running" /\ mode'[r] = m /\ m # "none" /\ events[r] = <<>>
        BY <1>1 DEF HttpTypeOK, Modes, RequestOK
  <1>5. RequestOK(r)'  BY <1>1, <1>4 DEF RequestOK, Serving
  <1>6. StreamOK(r)'  BY <1>1, <1>4 DEF StreamOK, NoneYet
  <1>7. \A q \in Requests \ {r} : Untouched(q)  BY <1>1 DEF Untouched, HttpTypeOK
  <1> QED  BY <1>3, <1>5, <1>6, <1>7, OneRequest

LEMMA AcceptInv ==
    ASSUME HttpInv, NEW r \in Requests, Accept(r) PROVE HttpInv'
  <1>1. UNCHANGED <<up, registry, stage, at, target, entry, mode, outcome, events, gone>>
        /\ HttpTypeOK /\ Answers(r, "accepted")
        BY DEF Accept, HttpInv
  <1>2. HttpTypeOK'  BY <1>1, AnswersTyped DEF HttpTypeOK
  <1>3. ASSUME NEW q \in Requests PROVE RequestOK(q)' /\ StreamOK(q)'
        BY <1>1 DEF HttpInv, RequestOK, Serving, StreamOK, NoneYet, Closing, CutShort, Ended, FromServer
  <1> QED  BY <1>2, <1>3 DEF HttpInv

(* Nothing is said of a stream that ends without its client. *)
LEMMA DisconnectInv ==
    ASSUME HttpInv, NEW r \in Requests, Disconnect(r) PROVE HttpInv'
  <1>1. /\ gone' = gone \cup {r} /\ Serving(r)
        /\ UNCHANGED <<up, registry, stage, at, target, entry, mode, outcome, reply, events>>
        /\ HttpTypeOK /\ RequestOK(r) /\ StreamOK(r)
        BY DEF Disconnect, HttpInv
  <1>2. HttpTypeOK'  BY <1>1 DEF HttpTypeOK
  <1>3. RequestOK(r)'  BY <1>1 DEF RequestOK, Serving
  <1>4. StreamOK(r)'
        BY <1>1 DEF StreamOK, NoneYet, Closing, CutShort, Ended, FromServer
  <1>5. \A q \in Requests \ {r} : Untouched(q)  BY <1>1 DEF Untouched, HttpTypeOK
  <1> QED  BY <1>2, <1>3, <1>4, <1>5, OneRequest

LEMMA EmitInv ==
    ASSUME HttpInv, NEW r \in Requests, NEW t \in Types, Emit(r, t) PROVE HttpInv'
  <1>1. /\ stage[r] = "running" /\ mode[r] = "sse" /\ Writes(r, "handler", t)
        /\ UNCHANGED <<up, registry, stage, at, target, entry, mode, outcome, reply, gone>>
        /\ HttpTypeOK /\ RequestOK(r) /\ StreamOK(r)
        BY DEF Emit, HttpInv
  <1>2. HttpTypeOK'  BY <1>1, WritesOne DEF HttpTypeOK
  <1>3. RequestOK(r)'  BY <1>1 DEF RequestOK, Serving
  <1>4. NoneYet(r)  BY <1>1 DEF StreamOK
  <1>5. NoneYet(r)'
    <2>1. CASE r \in gone  BY <2>1, <1>1, <1>4, WritesOne DEF NoneYet, FromServer
    <2>2. CASE r \notin gone
      <3> DEFINE e == [by |-> "handler", type |-> t]
      <3>1. e \in Events /\ e.by = "handler"  BY DEF Events
      <3>2. events'[r] = Append(events[r], e)  BY <2>2, <1>1, WritesOne
      <3>3. events[r] \in Seq(Events)  BY <1>1 DEF HttpTypeOK
      <3> HIDE DEF e
      <3> QED  BY <1>4, <3>1, <3>2, <3>3, Appended DEF NoneYet, FromServer
    <2> QED  BY <2>1, <2>2
  <1>6. StreamOK(r)'  BY <1>1, <1>5 DEF StreamOK
  <1>7. \A q \in Requests \ {r} : Untouched(q)  BY <1>1, WritesOne DEF Untouched, HttpTypeOK
  <1> QED  BY <1>2, <1>3, <1>6, <1>7, OneRequest

LEMMA ReturnsInv ==
    ASSUME HttpInv, NEW r \in Requests, NEW o \in {"result", "error"}, Returns(r, o)
    PROVE  HttpInv'
  <1>1. /\ stage[r] = "running"
        /\ UNCHANGED <<up, registry, at, target, entry, mode, gone>>
        /\ HttpTypeOK /\ RequestOK(r) /\ StreamOK(r)
        BY DEF Returns, HttpInv
  <1>2. reply' \in [Requests -> {"none", "refused", "accepted", "stream", "result", "error"}]
        BY <1>1, AnswersTyped DEF Returns, HttpTypeOK
  <1>3. CASE mode[r] = "sse"
    <2>1. /\ stage' = [stage EXCEPT ![r] = "closing"] /\ outcome' = [outcome EXCEPT ![r] = o]
          /\ Writes(r, "server", o)
          BY <1>3 DEF Returns
    <2>2. o \in Types  BY DEF Types
    <2>3. HttpTypeOK'  BY <1>1, <1>2, <2>1, <2>2, WritesOne DEF HttpTypeOK
    <2>4. stage'[r] = "closing" /\ outcome'[r] = o  BY <1>1, <2>1 DEF HttpTypeOK
    <2>5. RequestOK(r)'  BY <1>1, <1>3, <2>4 DEF RequestOK, Serving
    <2>6. NoneYet(r)  BY <1>1, <1>3 DEF StreamOK
    <2>7. Closing(r)'
      <3>1. CASE r \in gone
            BY <3>1, <1>1, <2>1, <2>2, <2>4, <2>6, WritesOne DEF NoneYet, Closing, FromServer
      <3>2. CASE r \notin gone
        <4> DEFINE e == [by |-> "server", type |-> o]
        <4>1. e \in Events /\ e.by = "server" /\ e.type = o  BY <2>2 DEF Events
        <4>2. events'[r] = Append(events[r], e)  BY <3>2, <1>1, <2>1, <2>2, WritesOne
        <4>3. events[r] \in Seq(Events)  BY <1>1 DEF HttpTypeOK
        <4> HIDE DEF e
        <4>4. /\ Len(events'[r]) = Len(events[r]) + 1 /\ Len(events[r]) \in Nat
              /\ DOMAIN events[r] = 1..Len(events[r])
              /\ DOMAIN events'[r] = 1..(Len(events[r]) + 1)
              /\ \A i \in 1..Len(events[r]) : events'[r][i] = events[r][i]
              /\ events'[r][Len(events[r]) + 1] = e
              BY <4>1, <4>2, <4>3, Appended
        <4>5. \A i \in DOMAIN events'[r] : FromServer(r, i)' =>
                 i = Len(events'[r]) /\ events'[r][i].type = o
              BY <4>1, <4>4, <2>6 DEF NoneYet, FromServer
        <4>6. Len(events'[r]) >= 1 /\ events'[r][Len(events'[r])].by = "server"
              BY <4>1, <4>4
        <4> QED  BY <2>4, <4>5, <4>6 DEF Closing, FromServer
      <3> QED  BY <3>1, <3>2
    <2>8. StreamOK(r)'  BY <2>4, <2>7 DEF StreamOK
    <2>9. \A q \in Requests \ {r} : Untouched(q)
          BY <1>1, <2>1, <2>2, WritesOne DEF Untouched, HttpTypeOK
    <2> QED  BY <2>3, <2>5, <2>8, <2>9, OneRequest
  <1>4. CASE mode[r] # "sse"
    <2>1. stage' = [stage EXCEPT ![r] = "done"] /\ UNCHANGED <<outcome, events>>
          BY <1>4 DEF Returns
    <2>2. HttpTypeOK'  BY <1>1, <1>2, <2>1 DEF HttpTypeOK
    <2>3. stage'[r] = "done"  BY <1>1, <2>1 DEF HttpTypeOK
    <2>4. RequestOK(r)' /\ StreamOK(r)'
          BY <1>1, <1>4, <2>1, <2>3 DEF RequestOK, Serving, StreamOK
    <2>5. \A q \in Requests \ {r} : Untouched(q)  BY <1>1, <2>1 DEF Untouched, HttpTypeOK
    <2> QED  BY <2>2, <2>4, <2>5, OneRequest
  <1> QED  BY <1>3, <1>4

LEMMA WriteIdleInv ==
    ASSUME HttpInv, NEW r \in Requests, WriteIdle(r) PROVE HttpInv'
  <1>1. /\ stage[r] = "closing" /\ stage' = [stage EXCEPT ![r] = "done"]
        /\ Writes(r, "server", "idle") /\ "idle" \in Types
        /\ UNCHANGED <<up, registry, at, target, entry, mode, outcome, reply, gone>>
        /\ HttpTypeOK /\ RequestOK(r) /\ StreamOK(r)
        BY DEF WriteIdle, HttpInv, Types
  <1>2. HttpTypeOK'  BY <1>1, WritesOne DEF HttpTypeOK
  <1>3. stage'[r] = "done" /\ mode[r] = "sse"  BY <1>1 DEF HttpTypeOK, RequestOK
  <1>4. RequestOK(r)'  BY <1>1, <1>3 DEF RequestOK, Serving
  <1>5. Closing(r)  BY <1>1, <1>3 DEF StreamOK
  <1>6. Ended(r)'
    <2>1. CASE r \in gone  BY <2>1, <1>1 DEF Ended
    <2>2. CASE r \notin gone
      <3> DEFINE e == [by |-> "server", type |-> "idle"]
                 n == Len(events[r])
      <3>1. e \in Events /\ e.by = "server" /\ e.type = "idle"  BY <1>1 DEF Events
      <3>2. events'[r] = Append(events[r], e)  BY <2>2, <1>1, WritesOne
      <3>3. events[r] \in Seq(Events)  BY <1>1 DEF HttpTypeOK
      <3> HIDE DEF e
      <3>4. /\ Len(events'[r]) = n + 1 /\ n \in Nat
            /\ DOMAIN events[r] = 1..n /\ DOMAIN events'[r] = 1..(n + 1)
            /\ \A i \in 1..n : events'[r][i] = events[r][i]
            /\ events'[r][n + 1] = e
            BY <3>1, <3>2, <3>3, Appended
      <3>5. /\ n >= 1 /\ events[r][n].by = "server" /\ events[r][n].type = outcome[r]
            /\ \A i \in 1..n : events[r][i].by = "server" => i = n
            BY <1>5, <2>2, <3>4 DEF Closing, FromServer
      <3> HIDE DEF n
      <3>6. \A i \in 1..(n + 1) : events'[r][i].by = "server" <=> i \in {n, n + 1}
        <4>1. ASSUME NEW i \in 1..(n + 1)
              PROVE  events'[r][i].by = "server" <=> i \in {n, n + 1}
          <5>1. CASE i = n + 1  BY <5>1, <3>1, <3>4
          <5>2. CASE i \in 1..n  BY <5>2, <3>4, <3>5
          <5> QED  BY <5>1, <5>2, <3>4
        <4> QED  BY <4>1
      <3>7. events'[r][n] = events[r][n]
        <4>1. n \in 1..n  BY <3>4, <3>5
        <4> QED  BY <4>1, <3>4
      <3>8. Len(events'[r]) >= 2 /\ Len(events'[r]) - 1 = n  BY <3>4, <3>5
      <3> QED  BY <1>1, <3>1, <3>4, <3>5, <3>6, <3>7, <3>8 DEF Ended, FromServer
    <2> QED  BY <2>1, <2>2
  <1>7. StreamOK(r)'  BY <1>3, <1>6 DEF StreamOK
  <1>8. \A q \in Requests \ {r} : Untouched(q)  BY <1>1, WritesOne DEF Untouched, HttpTypeOK
  <1> QED  BY <1>2, <1>4, <1>7, <1>8, OneRequest

LEMMA PanicsInv ==
    ASSUME HttpInv, NEW r \in Requests, Panics(r) PROVE HttpInv'
  <1>1. /\ stage[r] = "running" /\ stage' = [stage EXCEPT ![r] = "aborted"]
        /\ UNCHANGED <<up, registry, at, target, entry, mode, outcome, reply, events, gone>>
        /\ HttpTypeOK /\ RequestOK(r) /\ StreamOK(r)
        BY DEF Panics, HttpInv
  <1>2. HttpTypeOK'  BY <1>1 DEF HttpTypeOK
  <1>3. stage'[r] = "aborted"  BY <1>1 DEF HttpTypeOK
  <1>4. RequestOK(r)'  BY <1>1, <1>3 DEF RequestOK, Serving
  <1>5. StreamOK(r)'  BY <1>1, <1>3 DEF StreamOK, NoneYet, FromServer
  <1>6. \A q \in Requests \ {r} : Untouched(q)  BY <1>1 DEF Untouched, HttpTypeOK
  <1> QED  BY <1>2, <1>4, <1>5, <1>6, OneRequest

LEMMA HttpNextInv == HttpInv /\ [HttpNext]_httpVars => HttpInv'
  <1> SUFFICES ASSUME HttpInv, [HttpNext]_httpVars PROVE HttpInv'  OBVIOUS
  <1>1. CASE UNCHANGED httpVars
        BY <1>1 DEF httpVars, HttpInv, HttpTypeOK, RequestOK, Serving, StreamOK, NoneYet, Closing,
                    CutShort, Ended, FromServer
  <1>2. CASE HttpEnv
        BY <1>2, RegistryInv, CrashInv, DisconnectInv, PanicsInv DEF HttpEnv
  <1>3. ASSUME NEW r \in Requests, HttpServes(r) PROVE HttpInv'
        BY <1>3, BadPayloadInv, AcceptInv, WriteIdleInv, DispatchInv DEF HttpServes
  <1> QED  BY <1>1, <1>2, <1>3, RouteInv, EmitInv, ReturnsInv DEF HttpNext

LEMMA StreamProperty == HttpInv => StreamEndsOnce
  <1> SUFFICES ASSUME HttpInv, NEW r \in Requests, mode[r] = "sse"
               PROVE  LET n == Len(events[r]) IN
                      /\ stage[r] = "done" /\ r \notin gone =>
                            /\ n >= 2 /\ events[r][n].type = "idle"
                            /\ events[r][n - 1].type = outcome[r]
                            /\ ByServer(r) = {n - 1, n}
                      /\ stage[r] \in {"running", "aborted"} => ByServer(r) = {}
                      /\ \A i \in ByServer(r) : events[r][i].type = "idle" => stage[r] = "done"
      BY DEF StreamEndsOnce
  <1> DEFINE n == Len(events[r])
  <1>1. HttpTypeOK /\ RequestOK(r) /\ StreamOK(r)  BY DEF HttpInv
  <1>2. events[r] \in Seq(Events) /\ n \in Nat /\ DOMAIN events[r] = 1..n
        BY <1>1 DEF HttpTypeOK
  <1>3. ASSUME stage[r] = "done", r \notin gone
        PROVE  /\ n >= 2 /\ events[r][n].type = "idle" /\ events[r][n - 1].type = outcome[r]
               /\ ByServer(r) = {n - 1, n}
        BY <1>1, <1>2, <1>3 DEF StreamOK, Ended, ByServer, FromServer
  <1>4. stage[r] \in {"running", "aborted"} => ByServer(r) = {}
        BY <1>1 DEF StreamOK, NoneYet, ByServer, FromServer
  <1>5. ASSUME NEW i \in ByServer(r), events[r][i].type = "idle" PROVE stage[r] = "done"
    <2>1. i \in DOMAIN events[r] /\ FromServer(r, i)  BY <1>5 DEF ByServer, FromServer
    <2>2. stage[r] \notin {"new", "payload", "running", "aborted"}
          BY <1>1, <2>1 DEF RequestOK, StreamOK, NoneYet
    <2>3. stage[r] # "closing"  BY <1>1, <1>5, <2>1 DEF StreamOK, Closing
    <2>4. stage[r] # "lost"  BY <1>1, <1>5, <2>1 DEF StreamOK, CutShort
    <2> QED  BY <1>1, <2>2, <2>3, <2>4 DEF HttpTypeOK
  <1> QED  BY <1>3, <1>4, <1>5

-----------------------------------------------------------------------------
(* The types of the server's state, in every reachable state. *)
THEOREM HttpTyped == HttpSpec => []HttpTypeOK
  <1>1. HttpInv => HttpTypeOK  BY DEF HttpInv
  <1> QED  BY <1>1, HttpInitInv, HttpNextInv, PTL DEF HttpSpec

(* A handler runs only for an agent that was exposed when its request was routed,
   whatever is registered while the payload is read. *)
THEOREM OnlyExposedHandlersRun == HttpSpec => []HandlerWasExposed
  <1>1. HttpInv => HandlerWasExposed  BY DEF HttpInv, RequestOK, HandlerWasExposed
  <1> QED  BY <1>1, HttpInitInv, HttpNextInv, PTL DEF HttpSpec

(* A stream whose client stays ends with the outcome and one idle of the server's,
   and one that is cut short with neither idle. *)
THEOREM StreamsEndOnce == HttpSpec => []StreamEndsOnce
  <1> QED  BY StreamProperty, HttpInitInv, HttpNextInv, PTL DEF HttpSpec
=============================================================================
