---------------------------- MODULE AtomicStore ----------------------------
(***************************************************************************)
(* What a SessionStore promises its callers (store.go): Save, Load and     *)
(* Delete of one key take effect at one moment between call and return, or *)
(* fail and leave the key as it was.  MemoryStore does it under a mutex;   *)
(* FileStore is shown to implement it with files.                          *)
(***************************************************************************)
EXTENDS Naturals

CONSTANTS Clients,    \* sessions, and readers, of one process
          Keys,       \* storage keys
          Values,     \* session data, as far as it can be told apart
          KeyOf,      \* the key each client uses
          Savers,     \* the clients that save and delete; the others only load
          Absent,     \* "no such session"
          Unreliable  \* TRUE: an operation may fail

VARIABLES stored,     \* what is kept under each key
          call        \* the operation each client has in progress, or its result

storeVars == <<stored, call>>

Call   == [op : {"idle", "save", "load", "delete"}, val : Values \cup {Absent},
           result : {"pending", "ok", "error"}]
NoCall == [op |-> "idle", val |-> Absent, result |-> "ok"]

Pending(c, op)      == call[c].op = op /\ call[c].result = "pending"
Answers(c, result)  == call' = [call EXCEPT ![c].result = result]
Request(c, op, val) ==
    call' = [call EXCEPT ![c] = [op |-> op, val |-> val, result |-> "pending"]]

SInit == /\ stored = [k \in Keys |-> Absent]
         /\ call = [c \in Clients |-> NoCall]

Invoke(c) ==
    /\ call[c].op = "idle"
    /\ \/ \E v \in Values : c \in Savers /\ Request(c, "save", v)
       \/ c \in Savers /\ Request(c, "delete", Absent)
       \/ Request(c, "load", Absent)
    /\ UNCHANGED stored

Save(c) ==
    /\ Pending(c, "save")
    /\ stored' = [stored EXCEPT ![KeyOf[c]] = call[c].val]
    /\ Answers(c, "ok")

Load(c) ==
    /\ Pending(c, "load")
    /\ call' = [call EXCEPT ![c] = [op |-> "load", val |-> stored[KeyOf[c]], result |-> "ok"]]
    /\ UNCHANGED stored

Delete(c) ==
    /\ Pending(c, "delete")
    /\ stored' = [stored EXCEPT ![KeyOf[c]] = Absent]
    /\ Answers(c, "ok")

(* A load that fails answers "no such session". *)
Fail(c) ==
    /\ Unreliable /\ call[c].result = "pending"
    /\ Answers(c, IF call[c].op = "load" THEN "ok" ELSE "error")
    /\ UNCHANGED stored

Return(c) ==
    /\ call[c].op # "idle" /\ call[c].result # "pending"
    /\ call' = [call EXCEPT ![c] = NoCall]
    /\ UNCHANGED stored

(* The process dies; what was stored stays. *)
Restart == call' = [c \in Clients |-> NoCall] /\ UNCHANGED stored

SNext == \/ \E c \in Clients : \/ Invoke(c) \/ Save(c) \/ Load(c) \/ Delete(c)
                               \/ Fail(c) \/ Return(c)
         \/ Restart
SSpec == SInit /\ [][SNext]_storeVars
=============================================================================
