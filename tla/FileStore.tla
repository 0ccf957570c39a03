----------------------------- MODULE FileStore -----------------------------
(***************************************************************************)
(* FileStore (store.go): one JSON file per session key.  Save writes       *)
(* path+".tmp" and renames it over path; nothing locks a path.             *)
(*                                                                         *)
(* A key is the sequence of its '/'- and '\'-separated parts.  A file that *)
(* is open for writing stays open whatever happens to its name, so a save  *)
(* that has its temporary file open is at the name the file has now.       *)
(***************************************************************************)
EXTENDS Naturals, Sequences, SequencesExt

CONSTANTS
    Clients,    \* sessions, and readers, that share the store
    Savers,     \* the clients that save and delete; the others only load
    KeyOf,      \* the key each client uses
    Trimmed,    \* strings.TrimSpace of each key part
    Safe,       \* each trimmed part with other characters replaced by '_'
    Values,     \* session data, as far as it can be told apart
    Absent,     \* no file, or no such session
    Torn,       \* bytes that json.Unmarshal refuses
    IOErrors    \* TRUE: file operations may fail

VARIABLES
    file,       \* what is at path
    tmp,        \* what is at path+".tmp"
    at,         \* how far a save has come: "begun", "written", or has open the
                \* file now at "tmp", at "file", or without a name ("nowhere")
    call        \* the operation each client has in progress, or its result

files == <<file, tmp>>
vars  == <<files, at, call>>

-----------------------------------------------------------------------------
(* pathForKey: parts that are empty, "." or ".." are dropped. *)

Keys     == {KeyOf[c] : c \in Clients}
Cleaned(key) ==
    LET parts == SelectSeq([i \in DOMAIN key |-> Trimmed[key[i]]],
                           LAMBDA p : p \notin {"", ".", ".."})
    IN  [i \in DOMAIN parts |-> Safe[parts[i]]]
PathForKey(key) == IF Cleaned(key) = <<>> THEN <<"default">> ELSE Cleaned(key)
Path(c)  == PathForKey(KeyOf[c])
Paths    == {Path(c) : c \in Clients}

ASSUME StoreAssumption ==
    /\ Savers \subseteq Clients
    /\ Absent \notin Values /\ Torn \notin Values /\ Absent # Torn
    /\ IOErrors \in BOOLEAN

(* Each path stands for one key, and one session saves it. *)
NoCollision ==
    \A c, d \in Clients : Path(c) = Path(d) =>
        KeyOf[c] = KeyOf[d] /\ (c \in Savers /\ d \in Savers => c = d)

-----------------------------------------------------------------------------
Call    == [op : {"idle", "save", "load", "delete"}, val : Values \cup {Absent},
            result : {"pending", "ok", "error"}]
NoCall  == [op |-> "idle", val |-> Absent, result |-> "ok"]
Pending(c, op)      == call[c].op = op /\ call[c].result = "pending"
Answers(c, result)  == call' = [call EXCEPT ![c].result = result]
Request(c, op, val) ==
    call' = [call EXCEPT ![c] = [op |-> op, val |-> val, result |-> "pending"]]
Goes(c, step)       == at' = [at EXCEPT ![c] = step]
Saving(c, steps)    == Pending(c, "save") /\ at[c] \in steps

(* The same files under other names, for every save that has one open. *)
Renamed(p, from, to) ==
    [c \in Clients |-> IF Path(c) = p /\ at[c] = from THEN to ELSE at[c]]

Init ==
    /\ file = [p \in Paths |-> Absent] /\ tmp = [p \in Paths |-> Absent]
    /\ at = [c \in Clients |-> "begun"]
    /\ call = [c \in Clients |-> NoCall]

Invoke(c) ==
    /\ call[c].op = "idle"
    /\ \/ \E v \in Values : c \in Savers /\ Request(c, "save", v)
       \/ c \in Savers /\ Request(c, "delete", Absent)
       \/ Request(c, "load", Absent)
    /\ UNCHANGED <<files, at>>

Return(c) ==
    /\ call[c].op # "idle" /\ call[c].result # "pending"
    /\ call' = [call EXCEPT ![c] = NoCall]
    /\ UNCHANGED <<files, at>>

-----------------------------------------------------------------------------
(* Save: os.WriteFile truncates the temporary file, or creates it, and writes
   it; os.Rename puts it in place. *)

OpenTmp(c) ==
    /\ Saving(c, {"begun"})
    /\ tmp' = [tmp EXCEPT ![Path(c)] = Torn]
    /\ Goes(c, "tmp")
    /\ UNCHANGED <<file, call>>

(* Bytes another saver wrote meanwhile may stick out behind the new ones. *)
Overwritten(old, new) == IF old = Torn THEN {new} ELSE {new, Torn}

WriteTmp(c) ==
    /\ Saving(c, {"tmp", "file", "nowhere"})
    /\ IF at[c] = "tmp"
       THEN \E b \in Overwritten(tmp[Path(c)], call[c].val) : tmp' = [tmp EXCEPT ![Path(c)] = b]
       ELSE UNCHANGED tmp
    /\ IF at[c] = "file"
       THEN \E b \in Overwritten(file[Path(c)], call[c].val) : file' = [file EXCEPT ![Path(c)] = b]
       ELSE UNCHANGED file
    /\ Goes(c, "written")
    /\ UNCHANGED call

(* Mutant: the data is copied over the file instead, first truncating it. *)
CopyOver(c) ==
    /\ Saving(c, {"written"})
    /\ file' = [file EXCEPT ![Path(c)] = IF @ \in {Torn, Absent} THEN call[c].val ELSE Torn]
    /\ IF file'[Path(c)] = Torn THEN UNCHANGED <<at, call>>
                                ELSE Goes(c, "begun") /\ Answers(c, "ok")
    /\ UNCHANGED tmp

Rename(c) ==
    LET p == Path(c) IN
    /\ Saving(c, {"written"})
    /\ \/ /\ tmp[p] = Absent                      \* another saver renamed it
          /\ Answers(c, "error") /\ Goes(c, "begun") /\ UNCHANGED files
       \/ /\ tmp[p] # Absent
          /\ file' = [file EXCEPT ![p] = tmp[p]]
          /\ tmp' = [tmp EXCEPT ![p] = Absent]
          /\ Answers(c, "ok")
          /\ at' = [d \in Clients |-> IF Path(d) = p /\ at[d] = "file" THEN "nowhere"
                                      ELSE IF d = c THEN "begun"
                                      ELSE Renamed(p, "tmp", "file")[d]]

(* Marshalling, MkdirAll, WriteFile or Rename fails; the temporary file stays. *)
SaveFails(c) ==
    /\ IOErrors /\ Pending(c, "save")
    /\ Answers(c, "error")
    /\ Goes(c, "begun")
    /\ UNCHANGED files

-----------------------------------------------------------------------------
(* Mutant: a load prefers the temporary file a save left behind. *)
LoadLeftOver(c) ==
    /\ Pending(c, "load")
    /\ LET found == IF tmp[Path(c)] = Absent THEN file[Path(c)] ELSE tmp[Path(c)]
       IN  call' = [call EXCEPT ![c] = [op |-> "load", val |-> found, result |-> "ok"]]
    /\ UNCHANGED <<files, at>>

(* Every reason not to read the file gives "no such session". *)
Load(c) ==
    /\ Pending(c, "load")
    /\ \E found \in Values \cup {Absent} :
          /\ \/ found = file[Path(c)]
             \/ found = Absent /\ (file[Path(c)] = Torn \/ IOErrors)
          /\ call' = [call EXCEPT ![c] = [op |-> "load", val |-> found, result |-> "ok"]]
    /\ UNCHANGED <<files, at>>

(* Mutant: the error of os.Remove is dropped. *)
DeleteUnchecked(c) ==
    /\ Pending(c, "delete")
    /\ \/ file' = [file EXCEPT ![Path(c)] = Absent]
       \/ IOErrors /\ UNCHANGED file
    /\ Answers(c, "ok")
    /\ UNCHANGED <<tmp, at>>

Delete(c) ==
    /\ Pending(c, "delete")
    /\ \/ /\ file' = [file EXCEPT ![Path(c)] = Absent] /\ Answers(c, "ok")
          /\ at' = Renamed(Path(c), "file", "nowhere")
       \/ IOErrors /\ Answers(c, "error") /\ UNCHANGED <<file, at>>
    /\ UNCHANGED tmp

(* The process dies between two system calls; the files stay. *)
Crash ==
    /\ at' = [c \in Clients |-> "begun"]
    /\ call' = [c \in Clients |-> NoCall]
    /\ UNCHANGED files

Step(c) == \/ Invoke(c) \/ Return(c)
           \/ OpenTmp(c) \/ WriteTmp(c) \/ Rename(c) \/ SaveFails(c)
           \/ Load(c) \/ Delete(c)
Next == Crash \/ \E c \in Clients : Step(c)
Spec == Init /\ [][Next]_vars

-----------------------------------------------------------------------------
(* Properties. *)

TypeOK ==
    /\ file \in [Paths -> Values \cup {Absent, Torn}]
    /\ tmp \in [Paths -> Values \cup {Absent, Torn}]
    /\ at \in [Clients -> {"begun", "tmp", "file", "nowhere", "written"}]
    /\ call \in [Clients -> Call]

(* "Save implements SessionStore with atomic replace": the file under a key is
   never half-written, whatever saves, crashes and failures come in between. *)
AtomicReplace == \A p \in Paths : file[p] # Torn

(* What makes AtomicReplace inductive: what a saver has written is still in its
   temporary file when it renames it. *)
Owned(c) == /\ at[c] \in {"begun", "tmp", "written"}
            /\ at[c] # "begun" => c \in Savers /\ Pending(c, "save")
            /\ at[c] = "tmp" => tmp[Path(c)] = Torn
            /\ at[c] = "written" => tmp[Path(c)] = call[c].val
            /\ call[c].op = "save" => call[c].val \in Values
            /\ call[c].op \in {"save", "delete"} => c \in Savers
            /\ Pending(c, "load") => call[c].val = Absent
StoreInv == AtomicReplace /\ \A c \in Clients : Owned(c)

(* Savers, readers and crashes together see one atomic store: a save is visible
   at once or not at all, a failed one never, and a key has its own value. *)
Atomic == INSTANCE AtomicStore WITH
    stored     <- [k \in Keys |-> file[PathForKey(k)]],
    Unreliable <- IOErrors
ImplementsAtomicStore == Atomic!SSpec
=============================================================================
