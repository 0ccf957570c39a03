--------------------------- MODULE MCSessionRuns ---------------------------
(* SessionRuns with values for TLC. *)
EXTENDS SessionRuns
=============================================================================
