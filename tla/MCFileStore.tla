---------------------------- MODULE MCFileStore ----------------------------
(* FileStore with keys and values for TLC: agent/session keys, as Agent's
   storageKey builds them. *)
EXTENDS FileStore

MCTrimmed == [p \in {"agent", "a", "b c", "b_c", " ", ".."} |-> IF p = " " THEN "" ELSE p]
MCSafe    == [p \in {"agent", "a", "b c", "b_c"} |-> IF p = "b c" THEN "b_c" ELSE p]

(* A session "b_c", one "..", which is kept under "agent", and a reader. *)
ApartSavers == {"s1", "s2"}
ApartKeyOf  == [c \in {"s1", "s2", "reader"} |->
                  IF c = "s2" THEN <<"agent", "..">> ELSE <<"agent", "b_c">>]

(* Sessions "b c" and "b_c" of one agent. *)
SharedKeyOf == [c \in {"s1", "s2", "reader"} |->
                  IF c = "s2" THEN <<"agent", "b c">> ELSE <<"agent", "b_c">>]
=============================================================================
