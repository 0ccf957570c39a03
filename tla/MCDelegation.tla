---------------------------- MODULE MCDelegation ----------------------------
(* Delegation with two agents for TLC; the second can hand off to the first. *)
EXTENDS Delegation

MCHandoffs == [a \in 1..2 |-> {b \in 1..2 : b < a}]
=============================================================================
