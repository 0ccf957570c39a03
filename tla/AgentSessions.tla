---------------------------- MODULE AgentSessions ----------------------------
(***************************************************************************)
(* The sessions of an agent (session.go) in several processes that share   *)
(* one store.  A process loads a session once, keeps it in Agent.sessions, *)
(* and works on it one operation at a time, under Session.mu; each save of *)
(* it replaces the whole of what the store holds, with what others saved   *)
(* since.  Of a session only the status of each run is kept here, and a    *)
(* paused run counts as running.                                           *)
(***************************************************************************)
EXTENDS Deployment, Naturals, FiniteSets

Statuses == {"absent", "running", "completed", "failed"}
NewData  == [r \in Requests |-> "absent"]      \* newSessionData
NotHeld  == [r \in Requests |-> "not held"]    \* no Session of that id in this process
Free     == "free"

ASSUME SessionsAssumption == Free \notin Requests

VARIABLES
    stored,    \* the store: the data of each session
    copies,    \* Agent.sessions of each process: the data of each Session
    holder,    \* the run that holds each Session.mu
    completed, \* the runs the store was given as completed, with their sessions, and
               \* that were neither taken up again nor deleted since, a ghost
    missed,    \* the runs whose own save as completed failed, a ghost
    shared     \* the ids that two processes held at once, or one failed to load, a ghost

sessionVars == <<stored, copies, holder, completed, missed, shared>>

SessionsInit ==
    /\ stored = [i \in Ids |-> NewData]
    /\ copies = [p \in Procs |-> [i \in Ids |-> NotHeld]]
    /\ holder = [p \in Procs |-> [i \in Ids |-> Free]]
    /\ completed = {} /\ missed = {} /\ shared = {}

Held(p, i) == copies[p][i] # NotHeld
Elsewhere(p, i) == \E q \in Procs \ {p} : Held(q, i)

(* Mutant: the session is loaded again by each call of Agent.Session. *)
OpenAgain(p, i, ok) ==
    /\ copies' = [copies EXCEPT ![p][i] = IF ok THEN stored[i] ELSE NewData]
    /\ shared' = IF (Held(p, i) \/ ok) /\ ~Elsewhere(p, i) THEN shared ELSE shared \cup {i}
    /\ UNCHANGED <<stored, holder, completed, missed>>

(* Agent.Session: the one in the cache, or a new one of what Load gives; an error
   of Load is dropped, and what the store holds is then as if it were not there. *)
Open(p, i, ok) ==
    /\ copies' = [copies EXCEPT ![p][i] = IF Held(p, i) THEN @
                                          ELSE IF ok THEN stored[i] ELSE NewData]
    /\ shared' = IF Held(p, i) \/ (ok /\ ~Elsewhere(p, i)) THEN shared ELSE shared \cup {i}
    /\ UNCHANGED <<stored, holder, completed, missed>>

(* The saves of an operation are of the run it began or took up, and the last of
   them gives it its outcome. *)
Follows(old, new) ==
    \/ old = "absent" /\ new = "running"
    \/ old = "running" /\ new \in {"running", "completed", "failed"}

(* A save by the operation that holds the session, which records the status of its
   run: the copy changes whether the save succeeds or not, and one that succeeds
   stores the other runs as they are in the copy, too.  With ok = FALSE it is also
   an exit that marks the run and does not save. *)
Save(p, i, r, status, ok) ==
    LET new == [copies[p][i] EXCEPT ![r] = status] IN
    /\ holder[p][i] = r /\ Follows(copies[p][i][r], status)
    /\ copies' = [copies EXCEPT ![p][i] = new]
    /\ stored' = [stored EXCEPT ![i] = IF ok THEN new ELSE @]
    /\ completed' = completed \cup {k \in {i} \X Requests : ok /\ new[k[2]] = "completed"}
    /\ missed' = IF ~ok /\ status = "completed" THEN missed \cup {<<i, r>>} ELSE missed
    /\ UNCHANGED <<holder, shared>>

(* ResumeRun, or Resume, finds a run and takes it up again, whatever had become of
   it: it is running, in memory. *)
Reopen(p, i, r) ==
    /\ holder[p][i] = r /\ copies[p][i][r] \in Statuses \ {"absent"}
    /\ copies' = [copies EXCEPT ![p][i][r] = "running"]
    /\ completed' = completed \ {<<i, r>>}
    /\ UNCHANGED <<stored, holder, missed, shared>>

(* Session.Delete, under the mutex: the session is empty in memory even when the
   store keeps it. *)
Delete(p, i, ok) ==
    /\ Held(p, i) /\ holder[p][i] = Free
    /\ copies' = [copies EXCEPT ![p][i] = NewData]
    /\ stored' = [stored EXCEPT ![i] = IF ok THEN NewData ELSE @]
    /\ completed' = completed \ ({i} \X Requests)
    /\ UNCHANGED <<holder, missed, shared>>

(* s.mu.Lock and the deferred Unlock. *)
Lock(p, i, r) ==
    /\ Held(p, i) /\ holder[p][i] = Free
    /\ holder' = [holder EXCEPT ![p][i] = r]
    /\ UNCHANGED <<stored, copies, completed, missed, shared>>

Unlock(p, i, r) ==
    /\ holder[p][i] = r
    /\ holder' = [holder EXCEPT ![p][i] = Free]
    /\ UNCHANGED <<stored, copies, completed, missed, shared>>

(* The process ends and its sessions with it. *)
Forget(p) ==
    /\ copies' = [copies EXCEPT ![p] = [i \in Ids |-> NotHeld]]
    /\ holder' = [holder EXCEPT ![p] = [i \in Ids |-> Free]]
    /\ UNCHANGED <<stored, completed, missed, shared>>

SessionsNext ==
    \E p \in Procs :
        \/ Forget(p)
        \/ \E i \in Ids : \/ \E ok \in BOOLEAN : Open(p, i, ok) \/ Delete(p, i, ok)
                          \/ \E r \in Requests :
                                \/ Lock(p, i, r) \/ Reopen(p, i, r) \/ Unlock(p, i, r)
                                \/ \E s \in Statuses, ok \in BOOLEAN : Save(p, i, r, s, ok)

SessionsSpec == SessionsInit /\ [][SessionsNext]_sessionVars

-----------------------------------------------------------------------------
(* Properties. *)

SessionsTypeOK ==
    /\ stored \in [Ids -> [Requests -> Statuses]]
    /\ copies \in [Procs -> [Ids -> [Requests -> Statuses] \cup {NotHeld}]]
    /\ holder \in [Procs -> [Ids -> Requests \cup {Free}]]
    /\ completed \subseteq Ids \X Requests /\ missed \subseteq Ids \X Requests
    /\ shared \subseteq Ids

(* What the store was once given as completed stays so, through later prompts, other
   runs that are taken up again, saves that fail, crashes and other processes, until
   the run itself is taken up again or the session is deleted; as long as no two
   processes held the session at the same time and every load of it succeeded. *)
KeptUnlessShared ==
    \A i \in Ids \ shared, r \in Requests : <<i, r>> \in completed => stored[i][r] = "completed"
=============================================================================
