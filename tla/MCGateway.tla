----------------------------- MODULE MCGateway -----------------------------
(* Gateway with two processes and two requests for TLC, a few of their
   circumstances at a time. *)
EXTENDS Gateway

MCRemote    == {"docs.read", "docs_read", "search"}
MCSanitized == [a \in MCRemote |-> IF a = "search" THEN "search" ELSE "docs_read"]
MCOffers    == <<{"docs.read", "search"}, {"docs.read", "docs_read"}>>

Both(a, b) == [r \in {"r1", "r2"} |-> IF r = "r1" THEN a ELSE b]

(* Two requests for one session meet in one process, and their clients leave. *)
OneProcess ==
    [procs |-> {"p1"}, reregister |-> {}, requests |-> {"r1", "r2"},
     sends |-> Both({"webhook", "sse"}, {"plain", "sse"}), leave |-> {"r1", "r2"},
     callers |-> {}, tokens |-> 0]
(* A webhook whose tool may panic, next to a plain request. *)
NextDoor ==
    [procs |-> {"p1"}, reregister |-> {}, requests |-> {"r1", "r2"},
     sends |-> Both({"webhook"}, {"plain"}), leave |-> {},
     callers |-> {"r1"}, tokens |-> 0]
(* Two processes share the session. *)
TwoProcesses ==
    [procs |-> {"p1", "p2"}, reregister |-> {}, requests |-> {"r1", "r2"},
     sends |-> Both({"webhook", "plain"}, {"plain"}), leave |-> {"r1"},
     callers |-> {}, tokens |-> 0]
(* One request calls a tool, while the agent is registered anew. *)
WithTools ==
    [procs |-> {"p1", "p2"}, reregister |-> {"p1"}, requests |-> {"r1"},
     sends |-> Both({"webhook", "plain", "sse"}, {}), leave |-> {"r1"},
     callers |-> {"r1"}, tokens |-> 1]

MCScopes == {OneProcess, NextDoor, TwoProcesses, WithTools}
=============================================================================
