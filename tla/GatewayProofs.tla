---------------------------- MODULE GatewayProofs ----------------------------
(***************************************************************************)
(* Proofs about AgentSessions and about Gateway: each of its steps is a    *)
(* step of its parts, and what a client hears of its run agrees with what  *)
(* the store holds.                                                        *)
(***************************************************************************)
EXTENDS Gateway, HttpServerProofs, McpClientProofs

(***************************************************************************)
(* AgentSessions by itself: for any number of processes, sessions and      *)
(* runs, what was saved as completed stays so until it is taken up again   *)
(* or deleted, unless two processes shared the session or it could not be  *)
(* loaded.                                                                 *)
(***************************************************************************)

(* Of a session that is not shared one process at most has a copy, and what was
   saved as completed is so in that copy as well as in the store. *)
HeldOnce == \A i \in Ids \ shared : \A p, q \in Procs : Held(p, i) /\ Held(q, i) => p = q
CopyKnows ==
    \A i \in Ids \ shared, r \in Requests : <<i, r>> \in completed =>
        \A p \in Procs : Held(p, i) => copies[p][i][r] = "completed"

SessionsInv == SessionsTypeOK /\ HeldOnce /\ CopyKnows /\ KeptUnlessShared

LEMMA SessionsInitInv == SessionsInit => SessionsInv
  <1> SUFFICES ASSUME SessionsInit PROVE SessionsInv  OBVIOUS
  <1>1. SessionsTypeOK
        BY DEF SessionsInit, SessionsTypeOK, NewData, NotHeld, Statuses
  <1>2. \A p \in Procs, i \in Ids : ~Held(p, i)  BY DEF SessionsInit, Held
  <1>3. HeldOnce  BY <1>2 DEF HeldOnce
  <1>4. completed = {}  BY DEF SessionsInit
  <1> QED  BY <1>1, <1>3, <1>4 DEF SessionsInv, CopyKnows, KeptUnlessShared

LEMMA ForgetInv == ASSUME SessionsInv, NEW p \in Procs, Forget(p) PROVE SessionsInv'
  <1>1. SessionsTypeOK'  BY DEF SessionsInv, SessionsTypeOK, Forget, NotHeld
  <1>2. ASSUME NEW q \in Procs, NEW i \in Ids, Held(q, i)'
        PROVE  Held(q, i) /\ copies'[q][i] = copies[q][i]
        BY <1>2 DEF Forget, Held, SessionsInv, SessionsTypeOK
  <1>3. HeldOnce' /\ CopyKnows'
        BY <1>2 DEF SessionsInv, HeldOnce, CopyKnows, Forget
  <1>4. KeptUnlessShared'  BY DEF SessionsInv, KeptUnlessShared, Forget
  <1> QED  BY <1>1, <1>3, <1>4 DEF SessionsInv

(* A session that is loaded into the only copy is what the store holds. *)
LEMMA OpenInv ==
    ASSUME SessionsInv, NEW p \in Procs, NEW i \in Ids, NEW ok \in BOOLEAN, Open(p, i, ok)
    PROVE  SessionsInv'
  <1> DEFINE new == IF Held(p, i) THEN copies[p][i] ELSE IF ok THEN stored[i] ELSE NewData
  <1>1. copies' = [copies EXCEPT ![p][i] = new] /\ completed' = completed
        /\ stored' = stored /\ holder' = holder /\ missed' = missed
        /\ shared' = IF Held(p, i) \/ (ok /\ ~Elsewhere(p, i)) THEN shared ELSE shared \cup {i}
        BY DEF Open
  <1>2. new \in [Requests -> Statuses] \cup {NotHeld}
        BY DEF SessionsInv, SessionsTypeOK, NewData, Statuses
  <1>3. CASE Held(p, i)
    <2>1. copies' = copies /\ shared' = shared
          BY <1>1, <1>3 DEF SessionsInv, SessionsTypeOK
    <2> QED  BY <1>1, <2>1 DEF SessionsInv, SessionsTypeOK, HeldOnce, CopyKnows,
                KeptUnlessShared, Held
  <1> HIDE DEF new
  <1>4. SessionsTypeOK'  BY <1>1, <1>2 DEF SessionsInv, SessionsTypeOK
  <1>5. \A q \in Procs, k \in Ids : q # p \/ k # i => copies'[q][k] = copies[q][k]
        BY <1>1 DEF SessionsInv, SessionsTypeOK
  <1>6. copies'[p][i] = new  BY <1>1 DEF SessionsInv, SessionsTypeOK
  <1>7. CASE ~Held(p, i) /\ ok /\ ~Elsewhere(p, i)
    <2>1. new = stored[i] /\ shared' = shared  BY <1>1, <1>7 DEF new
    <2>2. \A q \in Procs \ {p} : ~Held(q, i)'  BY <1>5, <1>7 DEF Elsewhere, Held
    <2>3. \A q \in Procs, k \in Ids : k # i => (Held(q, k)' <=> Held(q, k))
          BY <1>5 DEF Held
    <2>4. HeldOnce'  BY <2>1, <2>2, <2>3 DEF SessionsInv, HeldOnce
    <2>5. CopyKnows'
      <3> SUFFICES ASSUME NEW k \in Ids \ shared, NEW r \in Requests, <<k, r>> \in completed,
                          NEW q \in Procs, Held(q, k)'
                   PROVE  copies'[q][k][r] = "completed"
          BY <1>1, <2>1 DEF CopyKnows
      <3>1. CASE k = i
            BY <3>1, <1>6, <2>1, <2>2 DEF SessionsInv, KeptUnlessShared
      <3>2. CASE k # i  BY <3>2, <1>5, <2>3 DEF SessionsInv, CopyKnows
      <3> QED  BY <3>1, <3>2
    <2>6. KeptUnlessShared'  BY <1>1, <2>1 DEF SessionsInv, KeptUnlessShared
    <2> QED  BY <1>4, <2>4, <2>5, <2>6 DEF SessionsInv
  <1>8. CASE ~Held(p, i) /\ ~(ok /\ ~Elsewhere(p, i))
    <2>1. shared' = shared \cup {i}  BY <1>1, <1>8
    <2>2. \A q \in Procs, k \in Ids : k # i =>
             (Held(q, k)' <=> Held(q, k)) /\ copies'[q][k] = copies[q][k]
          BY <1>5 DEF Held
    <2>3. HeldOnce'  BY <2>1, <2>2 DEF SessionsInv, HeldOnce
    <2>4. CopyKnows'  BY <1>1, <2>1, <2>2 DEF SessionsInv, CopyKnows
    <2>5. KeptUnlessShared'  BY <1>1, <2>1 DEF SessionsInv, KeptUnlessShared
    <2> QED  BY <1>4, <2>3, <2>4, <2>5 DEF SessionsInv
  <1> QED  BY <1>3, <1>7, <1>8

(* A save takes the whole of the copy to the store; the copy of a run that is saved
   again does not say that it is complete. *)
LEMMA SaveInv ==
    ASSUME SessionsInv, NEW p \in Procs, NEW i \in Ids, NEW r \in Requests,
           NEW status \in Statuses, NEW ok \in BOOLEAN, Save(p, i, r, status, ok)
    PROVE  SessionsInv'
  <1> DEFINE new == [copies[p][i] EXCEPT ![r] = status]
  <1>1. /\ copies' = [copies EXCEPT ![p] = [copies[p] EXCEPT ![i] = new]]
        /\ stored' = [stored EXCEPT ![i] = IF ok THEN new ELSE stored[i]]
        /\ completed' = completed \cup {k \in {i} \X Requests : ok /\ new[k[2]] = "completed"}
        /\ missed' \in {missed, missed \cup {<<i, r>>}}
        /\ holder' = holder /\ shared' = shared
        BY DEF Save, SessionsInv, SessionsTypeOK
  <1>2. copies[p][i] \in [Requests -> Statuses] /\ Held(p, i)
    <2>1. copies[p][i][r] \in {"absent", "running"}  BY DEF Save, Follows
    <2>2. copies[p][i] # NotHeld  BY <2>1 DEF NotHeld
    <2> QED  BY <2>2 DEF Held, SessionsInv, SessionsTypeOK
  <1>3. copies[p][i][r] # "completed" /\ status # "absent"  BY DEF Save, Follows
  <1>4. new \in [Requests -> Statuses] /\ new[r] = status
        /\ \A k \in Requests \ {r} : new[k] = copies[p][i][k]
        BY <1>2
  <1>5. new # NotHeld  BY <1>4 DEF NotHeld, Statuses
  <1> HIDE DEF new
  <1>6. SessionsTypeOK'
    <2>1. copies' \in [Procs -> [Ids -> [Requests -> Statuses] \cup {NotHeld}]]
          BY <1>1, <1>4 DEF SessionsInv, SessionsTypeOK
    <2>2. stored' \in [Ids -> [Requests -> Statuses]]
          BY <1>1, <1>4 DEF SessionsInv, SessionsTypeOK
    <2>3. completed' \subseteq Ids \X Requests  BY <1>1 DEF SessionsInv, SessionsTypeOK
    <2>4. missed' \subseteq Ids \X Requests  BY <1>1 DEF SessionsInv, SessionsTypeOK
    <2> QED  BY <1>1, <2>1, <2>2, <2>3, <2>4 DEF SessionsInv, SessionsTypeOK
  <1>7. copies'[p][i] = new
        /\ \A q \in Procs, k \in Ids : q # p \/ k # i => copies'[q][k] = copies[q][k]
        BY <1>1 DEF SessionsInv, SessionsTypeOK
  <1>8. \A q \in Procs, k \in Ids : Held(q, k)' <=> Held(q, k)
        BY <1>2, <1>5, <1>7 DEF Held
  <1>9. HeldOnce'  BY <1>1, <1>8 DEF SessionsInv, HeldOnce
  <1>10. i \notin shared => <<i, r>> \notin completed
         BY <1>2, <1>3 DEF SessionsInv, CopyKnows
  <1>11. ASSUME NEW k \in Ids \ shared, NEW t \in Requests, <<k, t>> \in completed', k = i
         PROVE  new[t] = "completed"
    <2>1. CASE <<i, t>> \in completed
      <3>1. t # r  BY <2>1, <1>10, <1>11
      <3>2. copies[p][i][t] = "completed"
            BY <2>1, <1>2, <1>11 DEF SessionsInv, CopyKnows
      <3> QED  BY <3>1, <3>2, <1>4
    <2>2. CASE <<i, t>> \notin completed  BY <2>2, <1>1, <1>11
    <2> QED  BY <2>1, <2>2
  <1>12. ASSUME NEW k \in Ids \ shared, NEW t \in Requests, <<k, t>> \in completed', k # i
         PROVE  <<k, t>> \in completed
         BY <1>1, <1>12
  <1>13. CopyKnows'
    <2> SUFFICES ASSUME NEW k \in Ids \ shared, NEW t \in Requests, <<k, t>> \in completed',
                        NEW q \in Procs, Held(q, k)
                 PROVE  copies'[q][k][t] = "completed"
        BY <1>1, <1>8 DEF CopyKnows
    <2>1. CASE k = i
      <3>1. q = p  BY <2>1, <1>2 DEF SessionsInv, HeldOnce
      <3> QED  BY <2>1, <3>1, <1>7, <1>11
    <2>2. CASE k # i  BY <2>2, <1>7, <1>12 DEF SessionsInv, CopyKnows
    <2> QED  BY <2>1, <2>2
  <1>14. KeptUnlessShared'
    <2> SUFFICES ASSUME NEW k \in Ids \ shared, NEW t \in Requests, <<k, t>> \in completed'
                 PROVE  stored'[k][t] = "completed"
        BY <1>1 DEF KeptUnlessShared
    <2>1. CASE k # i
          BY <2>1, <1>1, <1>12 DEF SessionsInv, SessionsTypeOK, KeptUnlessShared
    <2>2. CASE k = i /\ ok
          BY <2>2, <1>1, <1>11 DEF SessionsInv, SessionsTypeOK
    <2>3. CASE k = i /\ ~ok
          BY <2>3, <1>1 DEF SessionsInv, SessionsTypeOK, KeptUnlessShared
    <2> QED  BY <2>1, <2>2, <2>3
  <1> QED  BY <1>6, <1>9, <1>13, <1>14 DEF SessionsInv

(* A run that is taken up again is not counted as completed any more. *)
LEMMA ReopenInv ==
    ASSUME SessionsInv, NEW p \in Procs, NEW i \in Ids, NEW r \in Requests, Reopen(p, i, r)
    PROVE  SessionsInv'
  <1> DEFINE new == [copies[p][i] EXCEPT ![r] = "running"]
  <1>1. /\ copies' = [copies EXCEPT ![p] = [copies[p] EXCEPT ![i] = new]]
        /\ completed' = completed \ {<<i, r>>}
        /\ UNCHANGED <<stored, holder, missed, shared>>
        BY DEF Reopen, SessionsInv, SessionsTypeOK
  <1>2. copies[p][i] \in [Requests -> Statuses] /\ Held(p, i)
    <2>1. copies[p][i][r] \in Statuses  BY DEF Reopen
    <2>2. copies[p][i] # NotHeld  BY <2>1 DEF NotHeld, Statuses
    <2> QED  BY <2>2 DEF Held, SessionsInv, SessionsTypeOK
  <1>3. new \in [Requests -> Statuses] /\ \A k \in Requests \ {r} : new[k] = copies[p][i][k]
        BY <1>2 DEF Statuses
  <1>4. new # NotHeld  BY <1>3 DEF NotHeld, Statuses
  <1> HIDE DEF new
  <1>5. SessionsTypeOK'  BY <1>1, <1>3 DEF SessionsInv, SessionsTypeOK
  <1>6. copies'[p][i] = new
        /\ \A q \in Procs, k \in Ids : q # p \/ k # i => copies'[q][k] = copies[q][k]
        BY <1>1 DEF SessionsInv, SessionsTypeOK
  <1>7. \A q \in Procs, k \in Ids : Held(q, k)' <=> Held(q, k)
        BY <1>2, <1>4, <1>6 DEF Held
  <1>8. HeldOnce'  BY <1>1, <1>7 DEF SessionsInv, HeldOnce
  <1>9. CopyKnows'
    <2> SUFFICES ASSUME NEW k \in Ids \ shared, NEW t \in Requests, <<k, t>> \in completed',
                        NEW q \in Procs, Held(q, k)
                 PROVE  copies'[q][k][t] = "completed"
        BY <1>1, <1>7 DEF CopyKnows
    <2>1. <<k, t>> \in completed /\ (k # i \/ t # r)  BY <1>1
    <2>2. copies[q][k][t] = "completed"  BY <2>1 DEF SessionsInv, CopyKnows
    <2> QED  BY <2>1, <2>2, <1>3, <1>6
  <1>10. KeptUnlessShared'  BY <1>1 DEF SessionsInv, KeptUnlessShared
  <1> QED  BY <1>5, <1>8, <1>9, <1>10 DEF SessionsInv

LEMMA DeleteInv ==
    ASSUME SessionsInv, NEW p \in Procs, NEW i \in Ids, NEW ok \in BOOLEAN, Delete(p, i, ok)
    PROVE  SessionsInv'
  <1>1. /\ copies' = [copies EXCEPT ![p] = [copies[p] EXCEPT ![i] = NewData]]
        /\ stored' = [stored EXCEPT ![i] = IF ok THEN NewData ELSE stored[i]]
        /\ completed' = completed \ ({i} \X Requests)
        /\ UNCHANGED <<holder, missed, shared>> /\ Held(p, i)
        BY DEF Delete, SessionsInv, SessionsTypeOK
  <1>2. NewData \in [Requests -> Statuses]  BY DEF NewData, Statuses
  <1>3. SessionsTypeOK'  BY <1>1, <1>2 DEF SessionsInv, SessionsTypeOK
  <1>4. \A q \in Procs, k \in Ids : q # p \/ k # i => copies'[q][k] = copies[q][k]
        BY <1>1 DEF SessionsInv, SessionsTypeOK
  <1>5. \A q \in Procs, k \in Ids : Held(q, k)' => Held(q, k)  BY <1>1, <1>4 DEF Held
  <1>6. HeldOnce'  BY <1>1, <1>5 DEF SessionsInv, HeldOnce
  <1>7. \A k \in Ids, t \in Requests : <<k, t>> \in completed' =>
            k # i /\ <<k, t>> \in completed
        BY <1>1
  <1>8. CopyKnows'  BY <1>1, <1>4, <1>5, <1>7 DEF SessionsInv, CopyKnows
  <1>9. KeptUnlessShared'
        BY <1>1, <1>7 DEF SessionsInv, SessionsTypeOK, KeptUnlessShared
  <1> QED  BY <1>3, <1>6, <1>8, <1>9 DEF SessionsInv

LEMMA SessionsNextInv == SessionsInv /\ [SessionsNext]_sessionVars => SessionsInv'
  <1> SUFFICES ASSUME SessionsInv, [SessionsNext]_sessionVars PROVE SessionsInv'  OBVIOUS
  <1>1. ASSUME NEW p \in Procs, Forget(p) PROVE SessionsInv'  BY <1>1, ForgetInv
  <1>2. ASSUME NEW p \in Procs, NEW i \in Ids, NEW ok \in BOOLEAN, Open(p, i, ok)
        PROVE  SessionsInv'
        BY <1>2, OpenInv
  <1>3. ASSUME NEW p \in Procs, NEW i \in Ids, NEW r \in Requests, Lock(p, i, r) \/ Unlock(p, i, r)
        PROVE  SessionsInv'
    <2>1. UNCHANGED <<stored, copies, completed, missed, shared>>  BY <1>3 DEF Lock, Unlock
    <2>2. holder' \in [Procs -> [Ids -> Requests \cup {Free}]]
      <3>1. PICK h \in Requests \cup {Free} :
               holder' = [holder EXCEPT ![p] = [holder[p] EXCEPT ![i] = h]]
            BY <1>3 DEF Lock, Unlock
      <3> QED  BY <3>1 DEF SessionsInv, SessionsTypeOK
    <2> QED  BY <2>1, <2>2 DEF SessionsInv, SessionsTypeOK, HeldOnce, CopyKnows,
                KeptUnlessShared, Held
  <1>4. ASSUME NEW p \in Procs, NEW i \in Ids, NEW r \in Requests, NEW s \in Statuses,
               NEW ok \in BOOLEAN, Save(p, i, r, s, ok)
        PROVE  SessionsInv'
        BY <1>4, SaveInv
  <1>5. ASSUME NEW p \in Procs, NEW i \in Ids, NEW r \in Requests, Reopen(p, i, r)
        PROVE  SessionsInv'
        BY <1>5, ReopenInv
  <1>6. ASSUME NEW p \in Procs, NEW i \in Ids, NEW ok \in BOOLEAN, Delete(p, i, ok)
        PROVE  SessionsInv'
        BY <1>6, DeleteInv
  <1>7. ASSUME UNCHANGED sessionVars PROVE SessionsInv'
        BY <1>7 DEF sessionVars, SessionsInv, SessionsTypeOK, HeldOnce, CopyKnows,
                    KeptUnlessShared, Held
  <1> QED  BY <1>1, <1>2, <1>3, <1>4, <1>5, <1>6, <1>7 DEF SessionsNext

(* What the store was given as completed stays so in it, through later prompts, other
   runs that are taken up again, saves that fail, crashes and other processes, until
   the run is itself taken up again or its session deleted, unless two processes held
   the session at once or a load of it failed. *)
THEOREM CompletedIsKept == SessionsSpec => []KeptUnlessShared
  <1>1. SessionsInv => KeptUnlessShared  BY DEF SessionsInv
  <1> QED  BY <1>1, SessionsInitInv, SessionsNextInv, PTL DEF SessionsSpec

(* The types of the sessions, in every reachable state. *)
THEOREM SessionsTyped == SessionsSpec => []SessionsTypeOK
  <1>1. SessionsInv => SessionsTypeOK  BY DEF SessionsInv
  <1> QED  BY <1>1, SessionsInitInv, SessionsNextInv, PTL DEF SessionsSpec

(***************************************************************************)
(* The composition: each of its steps is a step of its parts.              *)
(***************************************************************************)

(* A step of the parts, or none. *)
HttpStep     == [HttpNext]_httpVars
McpStep      == [McpNext]_mcpVars
SessionsStep == [SessionsNext]_sessionVars
PartsStep    == HttpStep /\ McpStep /\ SessionsStep

GatewayInv == HttpInv /\ scope \in Scopes

LEMMA Still ==
    /\ UNCHANGED httpVars => HttpStep
    /\ UNCHANGED mcpVars => McpStep
    /\ UNCHANGED sessionVars => SessionsStep
  BY DEF HttpStep, McpStep, SessionsStep

(* A handler runs in a process, for a session. *)
LEMMA Runs ==
    ASSUME GatewayInv, NEW r \in Requests, stage[r] = "running"
    PROVE  at[r] \in Procs /\ Session(r) \in Ids
  <1>1. at[r] \in Procs /\ target[r] \in Agents \X Ids
        BY DEF GatewayInv, HttpInv, RequestOK, Serving
  <1> QED  BY <1>1 DEF Session

LEMMA HttpSteps ==
    ASSUME NEW r \in Requests
    PROVE  /\ HttpServes(r) => HttpStep
           /\ \A t \in Types : Emits(r, t) => HttpStep
           /\ \A o \in {"result", "error"} : Returns(r, o) => HttpStep
           /\ Panics(r) => HttpStep
  <1>1. ASSUME NEW t \in Types, Emits(r, t) PROVE HttpStep
        BY <1>1, Still DEF Emits, HttpStep, HttpNext
  <1> QED  BY <1>1 DEF HttpStep, HttpNext, HttpEnv

LEMMA SessionSteps ==
    ASSUME GatewayInv, NEW r \in Requests, stage[r] = "running"
    PROVE  /\ \A ok \in BOOLEAN : Opens(r, ok) => SessionsStep
           /\ \A s \in Statuses, ok \in BOOLEAN : Saves(r, s, ok) => SessionsStep
           /\ Lock(at[r], Session(r), r) => SessionsStep
           /\ Unlocks(r) => SessionsStep
  <1>1. at[r] \in Procs /\ Session(r) \in Ids  BY Runs
  <1> QED  BY <1>1 DEF SessionsStep, SessionsNext, Opens, Saves, Unlocks

LEMMA CallSteps ==
    ASSUME NEW r \in Requests PROVE CallNext(r) => McpStep
  BY DEF McpStep, McpNext

LEMMA CheckpointSteps ==
    ASSUME GatewayInv, NEW r \in Requests, stage[r] = "running",
           NEW status \in Statuses, NEW next, Checkpoint(r, status, next)
    PROVE  PartsStep
  BY SessionSteps, Still DEF Checkpoint, PartsStep

LEMMA DiesSteps ==
    ASSUME NEW p \in Procs, Dies(p) PROVE PartsStep
  <1>1. Crash(p) /\ Forget(p) /\ Hangup(p, {r \in Requests : at[r] = p})  BY DEF Dies
  <1>2. HttpStep  BY <1>1 DEF HttpStep, HttpNext, HttpEnv
  <1>3. SessionsStep  BY <1>1 DEF SessionsStep, SessionsNext
  <1>4. {r \in Requests : at[r] = p} \in SUBSET Requests  OBVIOUS
  <1>5. McpStep  BY <1>1, <1>4 DEF McpStep, McpNext
  <1> QED  BY <1>2, <1>3, <1>5 DEF PartsStep

LEMMA HandlerSteps ==
    ASSUME GatewayInv, NEW r \in Requests, HandlerStep(r) PROVE PartsStep
  <1>st. {"running", "completed", "failed"} \subseteq Statuses  BY DEF Statuses
  <1>1. CASE OpenSession(r)
        BY <1>1, SessionSteps, Still DEF OpenSession, In, PartsStep
  <1>2. CASE LockSession(r)
        BY <1>2, SessionSteps, Still DEF LockSession, In, PartsStep
  <1>3. CASE Input(r)  BY <1>3, <1>st, CheckpointSteps DEF Input, In
  <1>4. CASE Model(r)  BY <1>4, <1>st, CheckpointSteps DEF Model, In
  <1>5. CASE Complete(r)  BY <1>5, <1>st, CheckpointSteps DEF Complete, In
  <1>6. CASE Report(r)
    <2>1. UNCHANGED <<mcpVars, sessionVars>>  BY <1>6 DEF Report
    <2>2. HttpStep  BY <1>6, HttpSteps DEF Report, Types
    <2> QED  BY <2>1, <2>2, Still DEF PartsStep
  <1>7. CASE Return(r)
    <2>1. stage[r] = "running"  BY <1>7 DEF Return, In
    <2>2. HttpStep  BY <1>7, HttpSteps DEF Return
    <2>3. SessionsStep  BY <1>7, <2>1, SessionSteps, Still DEF Return
    <2>4. McpStep  BY <1>7, Still DEF Return
    <2> QED  BY <2>2, <2>3, <2>4 DEF PartsStep
  <1>8. CASE CallTool(r)
    <2>1. stage[r] = "running" /\ UNCHANGED <<httpVars, sessionVars>>  BY <1>8 DEF CallTool, In
    <2>2. PICK t \in ToolNames : Send(at[r], r, t) \/ SendFails(at[r], r, t)
          BY <1>8 DEF CallTool
    <2>3. CallNext(r)  BY <2>1, <2>2, Runs DEF CallNext
    <2> QED  BY <2>1, <2>3, CallSteps, Still DEF PartsStep
  <1>9. CASE ToolAnswers(r)
    <2>1. CallNext(r) /\ UNCHANGED <<httpVars, sessionVars>>
          BY <1>9 DEF ToolAnswers, CallNext
    <2> QED  BY <2>1, CallSteps, Still DEF PartsStep
  <1>10. CASE ToolEnds(r)
    <2>1. stage[r] = "running"  BY <1>10 DEF ToolEnds, In
    <2>2. HttpStep  BY <1>10, HttpSteps DEF ToolEnds, Types
    <2>3. SessionsStep  BY <1>10, <1>st, <2>1, SessionSteps DEF ToolEnds
    <2>4. McpStep  BY <1>10, Still DEF ToolEnds
    <2> QED  BY <2>2, <2>3, <2>4 DEF PartsStep
  <1> QED  BY <1>1, <1>2, <1>3, <1>4, <1>5, <1>6, <1>7, <1>8, <1>9, <1>10 DEF HandlerStep

(* Every step of the gateway is one of each of its parts, or leaves it alone. *)
LEMMA StepImplements == ASSUME GatewayInv, [Next]_vars PROVE PartsStep
  <1>1. CASE UNCHANGED vars  BY <1>1, Still DEF vars, PartsStep
  <1>2. ASSUME NEW p \in Procs, Serve(p) PROVE PartsStep
    <2>1. ConnectMCPServer(p) /\ Start(p) /\ UNCHANGED sessionVars  BY <1>2 DEF Serve
    <2>2. HttpStep  BY <2>1 DEF HttpStep, HttpNext, HttpEnv
    <2>3. McpStep  BY <2>1 DEF McpStep, McpNext
    <2> QED  BY <2>1, <2>2, <2>3, Still DEF PartsStep
  <1>3. ASSUME NEW p \in Procs, Dies(p) PROVE PartsStep  BY <1>3, DiesSteps
  <1>4. CASE Reregisters
    <2>1. PICK p \in scope.reregister, n \in Agents, t \in Triggers : Handle(p, n, t)
          BY <1>4 DEF Reregisters
    <2>2. p \in Procs  BY GatewayAssumption DEF GatewayInv, Scope
    <2>3. HttpStep  BY <2>1, <2>2 DEF HttpStep, HttpNext, HttpEnv
    <2> QED  BY <1>4, <2>3, Still DEF Reregisters, PartsStep
  <1>5. CASE RemoteActs
        BY <1>5, Still DEF RemoteActs, McpStep, McpNext, PartsStep
  <1>6. ASSUME NEW r \in Requests, Arrives(r) PROVE PartsStep
    <2>1. HttpStep  BY <1>6 DEF Arrives, HttpStep, HttpNext, HttpEnv
    <2> QED  BY <1>6, <2>1, Still DEF Arrives, PartsStep
  <1>7. ASSUME NEW r \in Requests, Serves(r) PROVE PartsStep
    <2>1. scope.sends[r] \subseteq Modes  BY GatewayAssumption DEF GatewayInv, Scope
    <2>2. HttpServes(r)  BY <1>7, <2>1 DEF Serves, HttpServes
    <2> QED  BY <1>7, <2>2, HttpSteps, Still DEF Serves, PartsStep
  <1>8. ASSUME NEW r \in Requests, Token(r) PROVE PartsStep
    <2>1. Emit(r, "token") /\ UNCHANGED <<mcpVars, sessionVars>>  BY <1>8 DEF Token
    <2>2. HttpStep  BY <2>1 DEF HttpStep, HttpNext, Types
    <2> QED  BY <2>1, <2>2, Still DEF PartsStep
  <1>9. ASSUME NEW r \in Requests, ToolPanics(r) PROVE PartsStep
    <2>1. stage[r] = "running"  BY <1>9 DEF ToolPanics, In
    <2>2. CASE Dies(at[r])  BY <2>1, <2>2, Runs, DiesSteps
    <2>3. CASE Panics(r) /\ Unlocks(r) /\ UNCHANGED mcpVars
          BY <2>1, <2>3, HttpSteps, SessionSteps, Still DEF PartsStep
    <2> QED  BY <1>9, <2>2, <2>3 DEF ToolPanics
  <1> QED  BY <1>1, <1>2, <1>3, <1>4, <1>5, <1>6, <1>7, <1>8, <1>9, HandlerSteps DEF Next

LEMMA ScopeStays == [Next]_vars => scope' = scope
  <1> SUFFICES ASSUME [Next]_vars PROVE scope' = scope  OBVIOUS
  <1>1. ASSUME NEW p, Dies(p) PROVE scope' = scope  BY <1>1 DEF Dies
  <1>2. ASSUME NEW r \in Requests, HandlerStep(r) PROVE scope' = scope
        BY <1>2 DEF HandlerStep, OpenSession, LockSession, Input, Model, Complete, Checkpoint,
           Report, Return, CallTool, ToolAnswers, ToolEnds, bounds
  <1> QED  BY <1>1, <1>2 DEF Next, vars, bounds, Serve, Reregisters, RemoteActs, Arrives, Serves,
              Token, ToolPanics

LEMMA GatewayInitInv == Init => GatewayInv
  BY HttpInitInv DEF Init, GatewayInv

LEMMA GatewayNextInv == GatewayInv /\ [Next]_vars => GatewayInv'
  <1> SUFFICES ASSUME GatewayInv, [Next]_vars PROVE GatewayInv'  OBVIOUS
  <1>1. HttpStep  BY StepImplements DEF PartsStep
  <1>2. HttpInv'  BY <1>1, HttpNextInv DEF GatewayInv, HttpStep
  <1> QED  BY <1>2, ScopeStays DEF GatewayInv

(* The server, the MCP client and the sessions keep to their specifications when
   they work together, so that what is proved of them holds of the gateway. *)
THEOREM GatewayImplementsParts == Spec => PartsImplemented
  <1>1. Init => HttpInit /\ McpInit /\ SessionsInit  BY DEF Init
  <1>2. GatewayInv /\ [Next]_vars => /\ [HttpNext]_httpVars
                                     /\ [McpNext]_mcpVars
                                     /\ [SessionsNext]_sessionVars
        BY StepImplements DEF PartsStep, HttpStep, McpStep, SessionsStep
  <1> QED  BY <1>1, <1>2, GatewayInitInv, GatewayNextInv, PTL
           DEF Spec, PartsImplemented, HttpSpec, McpSpec, SessionsSpec

(* In the composition too, every handler that runs was exposed, streams end once,
   a call runs its own tool at most once, tools are unambiguous, and a completed run
   is kept unless its session was shared; a request takes up no run again. *)
THEOREM PartsPropertiesHold ==
    Spec => [](HandlerWasExposed /\ StreamEndsOnce /\ CallRunsItsTool
               /\ ToolsUnambiguous /\ KeptUnlessShared)
  <1> QED  BY GatewayImplementsParts, OnlyExposedHandlersRun, StreamsEndOnce,
              CallsRunTheirTools, ToolsStandForOne, CompletedIsKept, PTL
           DEF PartsImplemented

-----------------------------------------------------------------------------
(* A run is known as completed where the store, a copy or the ghost has it so: that
   is only when its handler is past Complete, and then it is saved, or its own save
   failed.  An error is told after the handler only. *)
Late  == {"report", "idle", "return"}
After == Late \cup {"failing"}
Saved(r) == <<Session(r), r>> \in completed
Knows(i, r) == \/ stored[i][r] = "completed" \/ <<i, r>> \in completed
               \/ \E p \in Procs : copies[p][i][r] = "completed"
Erring(r) == Hears(r, "error") \/ (stage[r] = "running" /\ phase[r] = "failing")
TellsInv(r) ==
    /\ stage[r] = "running" /\ phase[r] \in Late => Saved(r)
    /\ \A i \in Ids : Knows(i, r) =>
          /\ i = Session(r) /\ stage[r] \notin {"new", "payload"}
          /\ stage[r] = "running" => phase[r] \in After
          /\ Erring(r) => <<i, r>> \in missed
    /\ Hears(r, "result") => Saved(r)
    /\ Hears(r, "error") => /\ Session(r) \in Ids
                            /\ stage[r] \notin {"new", "payload", "running"}

ReplyInv == /\ GatewayInv /\ SessionsInv /\ DOMAIN phase = Requests
            /\ \A r \in Requests : TellsInv(r)

(* A step that makes nobody know more of request q as completed, and none less. *)
Keeps(q) == /\ \A i \in Ids : Knows(i, q)' => Knows(i, q)
            /\ \A i : <<i, q>> \in completed => <<i, q>> \in completed'
            /\ \A i : <<i, q>> \in missed => <<i, q>> \in missed'

(* A step that is not about request q. *)
Apart(q) == /\ stage'[q] = stage[q] /\ phase'[q] = phase[q] /\ target'[q] = target[q]
            /\ reply'[q] = reply[q] /\ events'[q] = events[q] /\ Keeps(q)

LEMMA ApartTells == ASSUME NEW q, TellsInv(q), Apart(q) PROVE TellsInv(q)'
  <1>1. \A what : Hears(q, what)' <=> Hears(q, what)  BY DEF Apart, Hears
  <1>2. Session(q)' = Session(q) /\ (Saved(q) => Saved(q)')
        BY DEF Apart, Keeps, Session, Saved
  <1>3. Erring(q)' <=> Erring(q)  BY <1>1 DEF Apart, Erring
  <1>4. /\ \A i \in Ids : Knows(i, q)' => Knows(i, q)
        /\ \A i \in Ids : <<i, q>> \in missed => <<i, q>> \in missed'
        BY DEF Apart, Keeps
  <1>5. stage'[q] = stage[q] /\ phase'[q] = phase[q]  BY DEF Apart
  <1> HIDE DEF Knows, Erring, Saved, Session, Apart
  <1> QED  BY <1>1, <1>2, <1>3, <1>4, <1>5 DEF TellsInv

(* What the steps of the sessions keep: a save takes to the store what its copy has
   of other runs, and that was known. *)
LEMMA SessionsKeep ==
    ASSUME SessionsInv
    PROVE  /\ UNCHANGED sessionVars => \A q \in Requests : Keeps(q)
           /\ \A p \in Procs : Forget(p) => \A q \in Requests : Keeps(q)
           /\ \A p \in Procs, i \in Ids :
                 /\ \A ok \in BOOLEAN : Open(p, i, ok) => \A q \in Requests : Keeps(q)
                 /\ \A r \in Requests : Lock(p, i, r) \/ Unlock(p, i, r) =>
                                           \A q \in Requests : Keeps(q)
  <1>1. UNCHANGED <<stored, copies, completed, missed>> => \A q \in Requests : Keeps(q)
        BY DEF Keeps, Knows
  <1>2. ASSUME NEW p \in Procs, Forget(p), NEW q \in Requests PROVE Keeps(q)
    <2>1. \A k \in Procs, i \in Ids :
             copies'[k][i][q] = copies[k][i][q] \/ copies'[k][i][q] = "not held"
          BY <1>2 DEF Forget, SessionsInv, SessionsTypeOK, NotHeld
    <2> QED  BY <1>2, <2>1 DEF Forget, Keeps, Knows
  <1>3. ASSUME NEW p \in Procs, NEW i \in Ids, NEW ok \in BOOLEAN, Open(p, i, ok),
               NEW q \in Requests
        PROVE  Keeps(q)
    <2>1. \A k \in Procs, j \in Ids :
             \/ copies'[k][j][q] = copies[k][j][q]
             \/ copies'[k][j][q] = stored[j][q] \/ copies'[k][j][q] = "absent"
      <3>1. \A k \in Procs, j \in Ids : k # p \/ j # i => copies'[k][j] = copies[k][j]
            BY <1>3 DEF Open, SessionsInv, SessionsTypeOK
      <3>2. copies'[p][i] \in {copies[p][i], stored[i], NewData}
            BY <1>3 DEF Open, SessionsInv, SessionsTypeOK
      <3> QED  BY <3>1, <3>2 DEF NewData
    <2> QED  BY <1>3, <2>1 DEF Open, Keeps, Knows
  <1>4. ASSUME NEW p \in Procs, NEW i \in Ids, NEW r \in Requests, Lock(p, i, r) \/ Unlock(p, i, r)
        PROVE  \A q \in Requests : Keeps(q)
        BY <1>1, <1>4 DEF Lock, Unlock
  <1> QED  BY <1>1, <1>2, <1>3, <1>4 DEF sessionVars

LEMMA SavesKeep ==
    ASSUME SessionsInv, NEW p \in Procs, NEW i \in Ids, NEW r \in Requests,
           NEW status \in Statuses, NEW ok \in BOOLEAN, Save(p, i, r, status, ok),
           NEW q \in Requests
    PROVE  /\ q # r \/ status # "completed" => Keeps(q)
           /\ \A j \in Ids : Knows(j, q)' => Knows(j, q) \/ j = i
           /\ \A j : <<j, q>> \in completed => <<j, q>> \in completed'
           /\ \A j : <<j, q>> \in missed => <<j, q>> \in missed'
  <1> DEFINE new == [copies[p][i] EXCEPT ![r] = status]
  <1>1. /\ copies' = [copies EXCEPT ![p] = [copies[p] EXCEPT ![i] = new]]
        /\ stored' = [stored EXCEPT ![i] = IF ok THEN new ELSE stored[i]]
        /\ completed' = completed \cup {k \in {i} \X Requests : ok /\ new[k[2]] = "completed"}
        /\ missed' \in {missed, missed \cup {<<i, r>>}}
        BY DEF Save, SessionsInv, SessionsTypeOK
  <1>2. new[q] = IF q = r THEN status ELSE copies[p][i][q]
    <2>1. copies[p][i] \in [Requests -> Statuses] \cup {NotHeld}
          BY DEF SessionsInv, SessionsTypeOK
    <2>2. DOMAIN copies[p][i] = Requests  BY <2>1 DEF NotHeld
    <2> QED  BY <2>2
  <1> HIDE DEF new
  <1>3. \A k \in Procs, j \in Ids : copies'[k][j] = IF k = p /\ j = i THEN new ELSE copies[k][j]
        BY <1>1 DEF SessionsInv, SessionsTypeOK
  <1>4. \A j \in Ids : stored'[j] = IF ok /\ j = i THEN new ELSE stored[j]
        BY <1>1 DEF SessionsInv, SessionsTypeOK
  <1>5. /\ \A j : <<j, q>> \in completed => <<j, q>> \in completed'
        /\ \A j : <<j, q>> \in missed => <<j, q>> \in missed'
        BY <1>1
  <1>6. \A j : <<j, q>> \in completed' =>
                   <<j, q>> \in completed \/ (j = i /\ new[q] = "completed")
        BY <1>1
  <1>7. \A j \in Ids : Knows(j, q)' => Knows(j, q) \/ (j = i /\ new[q] = "completed")
        BY <1>3, <1>4, <1>6 DEF Knows
  <1>8. q # r \/ status # "completed" => (new[q] = "completed" => Knows(i, q))
        BY <1>2 DEF Knows
  <1> QED  BY <1>5, <1>7, <1>8 DEF Keeps

LEMMA OneTells ==
    ASSUME ReplyInv, NEW r, \A q \in Requests \ {r} : Apart(q), TellsInv(r)'
    PROVE  \A q \in Requests : TellsInv(q)'
  BY ApartTells DEF ReplyInv

(* An event that is written. *)
LEMMA WrittenIsHeard ==
    ASSUME HttpTypeOK, NEW r \in Requests, NEW b \in {"handler", "server"}, NEW t \in Types,
           Writes(r, b, t), reply' = reply, NEW what, Hears(r, what)'
    PROVE  Hears(r, what) \/ what = t
  <1>1. CASE reply'[r] = what  BY <1>1 DEF Hears
  <1>2. CASE \E i \in DOMAIN events'[r] : events'[r][i].type = what
    <2>1. CASE r \in gone  BY <2>1, <1>2, WritesOne DEF Hears
    <2>2. CASE r \notin gone
      <3> DEFINE e == [by |-> b, type |-> t]
      <3>1. e \in Events /\ e.type = t  BY DEF Events
      <3>2. events'[r] = Append(events[r], e)  BY <2>2, WritesOne
      <3>3. events[r] \in Seq(Events)  BY DEF HttpTypeOK
      <3> HIDE DEF e
      <3>4. PICK i \in 1..(Len(events[r]) + 1) : events'[r][i].type = what
            BY <1>2, <3>1, <3>2, <3>3, Appended
      <3>5. CASE i = Len(events[r]) + 1  BY <3>1, <3>2, <3>3, <3>4, <3>5, Appended
      <3>6. CASE i \in 1..Len(events[r])
            BY <3>1, <3>2, <3>3, <3>4, <3>6, Appended DEF Hears
      <3>7. Len(events[r]) \in Nat  BY <3>3
      <3> QED  BY <3>4, <3>5, <3>6, <3>7
    <2> QED  BY <2>1, <2>2
  <1> QED  BY <1>1, <1>2 DEF Hears

LEMMA EmitsTells ==
    ASSUME HttpTypeOK, NEW r \in Requests, NEW t \in Types, Emits(r, t)
    PROVE  /\ UNCHANGED <<stage, target, reply>>
           /\ \A q \in Requests \ {r} : events'[q] = events[q]
           /\ \A what : Hears(r, what)' => Hears(r, what) \/ what = t
  <1>1. CASE mode[r] = "sse"
    <2>1. UNCHANGED <<stage, target, reply>> /\ Writes(r, "handler", t)
          BY <1>1 DEF Emits, Emit
    <2> QED  BY <2>1, WritesOne, WrittenIsHeard
  <1>2. CASE mode[r] # "sse"
    <2>1. UNCHANGED httpVars  BY <1>2 DEF Emits
    <2> QED  BY <2>1 DEF httpVars, Hears
  <1> QED  BY <1>1, <1>2

-----------------------------------------------------------------------------
(* The steps of a handler. *)

(* The run of r is where it was, and no more is heard of its outcome. *)
LEMMA StaysTells ==
    ASSUME NEW r, TellsInv(r), Keeps(r), UNCHANGED <<stage, phase, target>>,
           \A what \in {"result", "error"} : Hears(r, what)' => Hears(r, what)
    PROVE  TellsInv(r)'
  <1>1. Session(r)' = Session(r) /\ (Saved(r) => Saved(r)')  BY DEF Session, Saved, Keeps
  <1>2. Erring(r)' => Erring(r)  BY DEF Erring
  <1>3. /\ \A i \in Ids : Knows(i, r)' => Knows(i, r)
        /\ \A i \in Ids : <<i, r>> \in missed => <<i, r>> \in missed'
        BY DEF Keeps
  <1> QED  BY <1>1, <1>2, <1>3 DEF TellsInv

LEMMA QuietTells ==
    ASSUME ReplyInv, UNCHANGED <<stage, phase, target, reply, events>>,
           \A q \in Requests : Keeps(q)
    PROVE  \A q \in Requests : TellsInv(q)'
  BY ApartTells DEF ReplyInv, Apart

(* The handler goes on, and nothing is known of its run. *)
LEMMA GoesTells ==
    ASSUME ReplyInv, NEW r \in Requests, stage[r] = "running", phase[r] \notin After,
           NEW to, to \notin Late, Goes(r, to), \A q \in Requests : Keeps(q),
           UNCHANGED <<stage, target, reply>>,
           \A q \in Requests \ {r} : events'[q] = events[q],
           \A what \in {"result", "error"} : Hears(r, what)' => Hears(r, what)
    PROVE  \A q \in Requests : TellsInv(q)'
  <1>1. phase' = [phase EXCEPT ![r] = to] /\ DOMAIN phase = Requests  BY DEF Goes, ReplyInv
  <1>2. phase'[r] = to /\ \A q \in Requests \ {r} : phase'[q] = phase[q]  BY <1>1
  <1>3. \A q \in Requests \ {r} : Apart(q)  BY <1>2 DEF Apart
  <1>4. TellsInv(r) /\ Keeps(r)  BY DEF ReplyInv
  <1>5. \A i \in Ids : ~Knows(i, r)'  BY <1>4 DEF TellsInv, Keeps
  <1>6. Session(r)' = Session(r) /\ (Saved(r) => Saved(r)')
        BY <1>4 DEF Session, Saved, Keeps
  <1>7. ~Hears(r, "error")'  BY <1>4 DEF TellsInv
  <1>8. Hears(r, "result")' => Saved(r)'  BY <1>4, <1>6 DEF TellsInv
  <1>9. TellsInv(r)'  BY <1>2, <1>5, <1>7, <1>8 DEF TellsInv
  <1> QED  BY <1>3, <1>9, OneTells

LEMMA CheckpointTells ==
    ASSUME ReplyInv, NEW r \in Requests, stage[r] = "running", phase[r] \notin After,
           NEW status \in {"running", "failed"}, NEW next, next \notin Late,
           Checkpoint(r, status, next)
    PROVE  \A q \in Requests : TellsInv(q)'
  <1>1. PICK ok \in BOOLEAN : Saves(r, status, ok) /\ Goes(r, IF ok THEN next ELSE "failing")
        BY DEF Checkpoint
  <1>2. UNCHANGED <<stage, target, reply, events>>  BY DEF Checkpoint, httpVars
  <1>3. status \in Statuses /\ status # "completed"  BY DEF Statuses
  <1>4. at[r] \in Procs /\ Session(r) \in Ids  BY Runs DEF ReplyInv
  <1>5. \A q \in Requests : Keeps(q)  BY <1>1, <1>3, <1>4, SavesKeep DEF Saves, ReplyInv
  <1>6. \A what : Hears(r, what)' <=> Hears(r, what)  BY <1>2 DEF Hears
  <1> QED  BY <1>1, <1>2, <1>5, <1>6, GoesTells DEF Late

(* The run is saved as completed before anything is told of it; when the save fails,
   that is remembered. *)
LEMMA CompleteTells ==
    ASSUME ReplyInv, NEW r \in Requests, Complete(r)
    PROVE  \A q \in Requests : TellsInv(q)'
  <1>1. stage[r] = "running" /\ phase[r] = "complete"  BY DEF Complete, In
  <1>2. UNCHANGED <<stage, target, reply, events>>  BY DEF Complete, Checkpoint, httpVars
  <1>3. \A what : Hears(r, what)' <=> Hears(r, what)  BY <1>2 DEF Hears
  <1>4. PICK ok \in BOOLEAN : Saves(r, "completed", ok) /\ Goes(r, IF ok THEN "report" ELSE "failing")
        BY DEF Complete, Checkpoint
  <1> DEFINE i == Session(r)
             to == IF ok THEN "report" ELSE "failing"
  <1>5. at[r] \in Procs /\ i \in Ids  BY <1>1, Runs DEF ReplyInv
  <1>6. Save(at[r], i, r, "completed", ok) /\ "completed" \in Statuses
        BY <1>4 DEF Saves, Statuses
  <1>7. /\ \A q \in Requests \ {r} : Keeps(q)
        /\ \A j \in Ids : Knows(j, r)' => Knows(j, r) \/ j = i
        BY <1>5, <1>6, SavesKeep DEF ReplyInv
  <1>8. phase' = [phase EXCEPT ![r] = to] /\ DOMAIN phase = Requests
        BY <1>4 DEF Goes, ReplyInv
  <1>9. phase'[r] = to /\ \A q \in Requests \ {r} : phase'[q] = phase[q]  BY <1>8
  <1>10. \A q \in Requests \ {r} : Apart(q)  BY <1>2, <1>7, <1>9 DEF Apart
  <1>11. IF ok THEN <<i, r>> \in completed' ELSE <<i, r>> \in missed'
    <2>1. CASE ok
      <3>1. [copies[at[r]][i] EXCEPT ![r] = "completed"][r] = "completed"
        <4>1. copies[at[r]][i] \in [Requests -> Statuses] \cup {NotHeld}
              BY <1>5 DEF ReplyInv, SessionsInv, SessionsTypeOK
        <4>2. DOMAIN copies[at[r]][i] = Requests  BY <4>1 DEF NotHeld
        <4> QED  BY <4>2
      <3> QED  BY <2>1, <3>1, <1>6 DEF Save
    <2>2. CASE ~ok  BY <2>2, <1>6 DEF Save
    <2> QED  BY <2>1, <2>2
  <1>12. TellsInv(r)  BY DEF ReplyInv
  <1>13. \A j \in Ids : ~Knows(j, r)  BY <1>1, <1>12 DEF TellsInv, After, Late
  <1>14. Session(r)' = i /\ ~Hears(r, "result")' /\ ~Hears(r, "error")'
    <2>1. ~Saved(r)  BY <1>5, <1>13 DEF Saved, Knows
    <2> QED  BY <1>1, <1>2, <1>3, <1>12, <2>1 DEF Session, TellsInv
  <1> HIDE DEF i
  <1>15. CASE ok
    <2>1. Saved(r)' /\ phase'[r] = "report" /\ stage'[r] = "running"
          BY <1>1, <1>2, <1>9, <1>11, <1>14, <1>15 DEF Saved
    <2>2. ~Erring(r)'  BY <1>14, <2>1 DEF Erring
    <2>3. TellsInv(r)'
          BY <1>7, <1>13, <1>14, <2>1, <2>2 DEF TellsInv, After, Late
    <2> QED  BY <1>10, <2>3, OneTells
  <1>16. CASE ~ok
    <2>1. phase'[r] = "failing" /\ stage'[r] = "running" /\ <<i, r>> \in missed'
          BY <1>1, <1>2, <1>9, <1>11, <1>16
    <2>2. TellsInv(r)'  BY <1>7, <1>13, <1>14, <2>1 DEF TellsInv, After, Late
    <2> QED  BY <1>10, <2>2, OneTells
  <1> QED  BY <1>15, <1>16

(* The handler stays running where it was or beyond Complete, and tells no error. *)
LEMMA ReportTells ==
    ASSUME ReplyInv, NEW r \in Requests, Report(r)
    PROVE  \A q \in Requests : TellsInv(q)'
  <1>1. PICK t \in {"result", "idle"}, to \in {"idle", "return"} : Emits(r, t) /\ Goes(r, to)
        BY DEF Report
  <1>2. stage[r] = "running" /\ phase[r] \in Late /\ \A q \in Requests : Keeps(q)
        BY SessionsKeep DEF Report, In, Late, ReplyInv
  <1>3. HttpTypeOK /\ t \in Types  BY DEF ReplyInv, GatewayInv, HttpInv, Types
  <1>4. /\ UNCHANGED <<stage, target, reply>>
        /\ \A q \in Requests \ {r} : events'[q] = events[q]
        /\ \A what : Hears(r, what)' => Hears(r, what) \/ what = t
        BY <1>1, <1>3, EmitsTells
  <1>5. phase' = [phase EXCEPT ![r] = to] /\ DOMAIN phase = Requests  BY <1>1 DEF Goes, ReplyInv
  <1>6. phase'[r] = to /\ \A q \in Requests \ {r} : phase'[q] = phase[q]  BY <1>5
  <1>7. \A q \in Requests \ {r} : Apart(q)  BY <1>2, <1>4, <1>6 DEF Apart
  <1>8. TellsInv(r) /\ Keeps(r)  BY <1>2 DEF ReplyInv
  <1>9. Session(r)' = Session(r) /\ Saved(r)'
        BY <1>2, <1>4, <1>8 DEF Session, Saved, TellsInv, Keeps
  <1>10. ~Hears(r, "error")'  BY <1>2, <1>4, <1>8, t # "error" DEF TellsInv
  <1>11. \A i \in Ids : Knows(i, r)' => i = Session(r)  BY <1>8 DEF TellsInv, Keeps
  <1>12. ~Erring(r)'  BY <1>6, <1>10 DEF Erring
  <1>13. phase'[r] \in Late  BY <1>6 DEF Late
  <1>14. TellsInv(r)'
         BY <1>2, <1>4, <1>9, <1>10, <1>11, <1>12, <1>13 DEF TellsInv, After
  <1> QED  BY <1>7, <1>14, OneTells

LEMMA TokenTells ==
    ASSUME ReplyInv, NEW r \in Requests, Token(r)
    PROVE  \A q \in Requests : TellsInv(q)'
  <1>1. /\ stage[r] = "running" /\ Emit(r, "token") /\ mode[r] = "sse"
        /\ phase' = phase /\ \A q \in Requests : Keeps(q)
        BY SessionsKeep DEF Token, In, Emit, ReplyInv
  <1>2. HttpTypeOK /\ "token" \in Types  BY DEF ReplyInv, GatewayInv, HttpInv, Types
  <1>3. Emits(r, "token")  BY <1>1 DEF Emits
  <1>4. /\ UNCHANGED <<stage, target, reply>>
        /\ \A q \in Requests \ {r} : events'[q] = events[q]
        /\ \A what : Hears(r, what)' => Hears(r, what) \/ what = "token"
        BY <1>2, <1>3, EmitsTells
  <1>5. \A q \in Requests \ {r} : Apart(q)  BY <1>1, <1>4 DEF Apart
  <1>6. TellsInv(r)  BY DEF ReplyInv
  <1>7. \A what \in {"result", "error"} : Hears(r, what)' => Hears(r, what)  BY <1>4
  <1>8. TellsInv(r)'  BY <1>1, <1>4, <1>6, <1>7, StaysTells
  <1> QED  BY <1>5, <1>8, OneTells

LEMMA ToolEndsTells ==
    ASSUME ReplyInv, NEW r \in Requests, ToolEnds(r)
    PROVE  \A q \in Requests : TellsInv(q)'
  <1>1. stage[r] = "running" /\ phase[r] \notin After /\ Emits(r, "trace")
        BY DEF ToolEnds, In, Late, After
  <1>2. PICK ok \in BOOLEAN : Saves(r, "running", ok) /\ Goes(r, IF ok THEN "model" ELSE "failing")
        BY DEF ToolEnds
  <1>3. \A q \in Requests : Keeps(q)
    <2>1. at[r] \in Procs /\ Session(r) \in Ids  BY <1>1, Runs DEF ReplyInv
    <2>2. "running" \in Statuses  BY DEF Statuses
    <2> QED  BY <1>2, <2>1, <2>2, SavesKeep DEF Saves, ReplyInv
  <1>4. HttpTypeOK /\ "trace" \in Types  BY DEF ReplyInv, GatewayInv, HttpInv, Types
  <1>5. /\ UNCHANGED <<stage, target, reply>>
        /\ \A q \in Requests \ {r} : events'[q] = events[q]
        /\ \A what : Hears(r, what)' => Hears(r, what) \/ what = "trace"
        BY <1>1, <1>4, EmitsTells
  <1>6. (IF ok THEN "model" ELSE "failing") \notin Late  BY DEF Late
  <1> QED  BY <1>1, <1>2, <1>3, <1>5, <1>6, GoesTells

(* What Prompt returned is told: a result of a run that is saved, or an error of one
   that is not, or whose save failed. *)
LEMMA ReturnTells ==
    ASSUME ReplyInv, NEW r \in Requests, Return(r)
    PROVE  \A q \in Requests : TellsInv(q)'
  <1>1. PICK o \in {"result", "error"} :
          /\ stage[r] = "running" /\ Returns(r, o)
          /\ phase[r] = IF o = "result" THEN "return" ELSE "failing"
        BY DEF Return, In
  <1>2. \A q \in Requests : Keeps(q)
    <2>1. UNCHANGED sessionVars \/ Unlocks(r)  BY DEF Return
    <2>2. at[r] \in Procs /\ Session(r) \in Ids  BY <1>1, Runs DEF ReplyInv
    <2> QED  BY <2>1, <2>2, SessionsKeep DEF ReplyInv, Unlocks
  <1>3. HttpTypeOK /\ o \in Types /\ TellsInv(r)
        BY DEF ReplyInv, GatewayInv, HttpInv, Types
  <1>4. target' = target  BY <1>1 DEF Returns
  <1>5. phase' = [phase EXCEPT ![r] = "off"] /\ DOMAIN phase = Requests
        BY DEF Return, Goes, ReplyInv
  <1>6. /\ stage'[r] \in {"closing", "done"}
        /\ \A q \in Requests \ {r} : stage'[q] = stage[q]
        BY <1>1, <1>3 DEF Returns, HttpTypeOK
  <1>7. /\ \A q \in Requests \ {r} : events'[q] = events[q] /\ reply'[q] = reply[q]
        /\ \A what : Hears(r, what)' => Hears(r, what) \/ what = o
    <2>1. CASE mode[r] = "sse"
      <3>1. Writes(r, "server", o) /\ reply' = reply  BY <1>1, <2>1 DEF Returns
      <3> QED  BY <3>1, <1>3, WritesOne, WrittenIsHeard
    <2>2. CASE mode[r] # "sse"
      <3>1. events' = events /\ (reply' = reply \/ Answers(r, o))  BY <1>1, <2>2 DEF Returns
      <3> QED  BY <3>1, <1>3 DEF Answers, Hears, HttpTypeOK
    <2> QED  BY <2>1, <2>2
  <1>8. \A q \in Requests \ {r} : Apart(q)  BY <1>2, <1>4, <1>5, <1>6, <1>7 DEF Apart
  <1>9. Session(r)' = Session(r) /\ (Saved(r) => Saved(r)')
        BY <1>2, <1>4 DEF Session, Saved, Keeps
  <1>10. Session(r) \in Ids  BY <1>1, Runs DEF ReplyInv
  <1>11. o = "result" => Saved(r)  BY <1>1, <1>3 DEF TellsInv, Late
  <1>12. ~Hears(r, "error")  BY <1>1, <1>3 DEF TellsInv
  <1>13. Erring(r)' => Erring(r)  BY <1>1, <1>6, <1>7, <1>12 DEF Erring
  <1>14. /\ \A i \in Ids : Knows(i, r)' => Knows(i, r)
         /\ \A i \in Ids : <<i, r>> \in missed => <<i, r>> \in missed'
         BY <1>2 DEF Keeps
  <1>15. Hears(r, "result")' => Saved(r)'  BY <1>3, <1>7, <1>9, <1>11 DEF TellsInv
  <1>16. TellsInv(r)'
         BY <1>3, <1>6, <1>9, <1>10, <1>13, <1>14, <1>15 DEF TellsInv
  <1> QED  BY <1>8, <1>16, OneTells

LEMMA HandlerTells ==
    ASSUME ReplyInv, NEW r \in Requests, HandlerStep(r)
    PROVE  \A q \in Requests : TellsInv(q)'
  <1>1. CASE OpenSession(r)
    <2>1. PICK to \in {"failing", "lock"} : Goes(r, to)  BY <1>1 DEF OpenSession
    <2>2. /\ stage[r] = "running" /\ phase[r] \notin After
          /\ UNCHANGED <<stage, target, reply, events>>
          BY <1>1 DEF OpenSession, In, Late, After, httpVars
    <2>3. PICK ok \in BOOLEAN : Open(at[r], Session(r), ok)  BY <1>1 DEF OpenSession, Opens
    <2>4. \A q \in Requests : Keeps(q)  BY <2>2, <2>3, Runs, SessionsKeep DEF ReplyInv
    <2> QED  BY <2>1, <2>2, <2>4, GoesTells DEF Late, Hears
  <1>2. CASE LockSession(r)
    <2>1. /\ stage[r] = "running" /\ phase[r] \notin After /\ Goes(r, "input")
          /\ UNCHANGED <<stage, target, reply, events>> /\ Lock(at[r], Session(r), r)
          BY <1>2 DEF LockSession, In, Late, After, httpVars
    <2>2. \A q \in Requests : Keeps(q)  BY <2>1, Runs, SessionsKeep DEF ReplyInv
    <2> QED  BY <2>1, <2>2, GoesTells DEF Late, Hears
  <1>3. CASE Input(r)  BY <1>3, CheckpointTells DEF Input, In, Late, After
  <1>4. CASE Model(r)  BY <1>4, CheckpointTells DEF Model, In, Late, After
  <1>5. CASE CallTool(r) \/ ToolAnswers(r)
    <2>1. UNCHANGED <<httpVars, sessionVars, phase>>  BY <1>5 DEF CallTool, ToolAnswers
    <2> QED  BY <2>1, SessionsKeep, QuietTells DEF httpVars, ReplyInv
  <1> QED  BY <1>1, <1>2, <1>3, <1>4, <1>5, CompleteTells, ReportTells, ReturnTells,
              ToolEndsTells DEF HandlerStep

-----------------------------------------------------------------------------
(* The other steps. *)

LEMMA DiesTells ==
    ASSUME ReplyInv, NEW p \in Procs, Dies(p) PROVE \A q \in Requests : TellsInv(q)'
  <1>1. /\ UNCHANGED <<target, reply, events>>
        /\ stage' = [r \in Requests |-> IF Serving(r) /\ at[r] = p THEN "lost" ELSE stage[r]]
        /\ phase' = [r \in Requests |-> IF at[r] = p THEN "off" ELSE phase[r]]
        BY DEF Dies, Crash
  <1>2. \A q \in Requests : Keeps(q)  BY SessionsKeep DEF Dies, ReplyInv
  <1> SUFFICES ASSUME NEW q \in Requests PROVE TellsInv(q)'  OBVIOUS
  <1>3. TellsInv(q) /\ Keeps(q)  BY <1>2 DEF ReplyInv
  <1>4. \A what : Hears(q, what)' <=> Hears(q, what)  BY <1>1 DEF Hears
  <1>5. Session(q)' = Session(q) /\ (Saved(q) => Saved(q)')
        BY <1>1, <1>3 DEF Session, Saved, Keeps
  <1>6. /\ \A i \in Ids : Knows(i, q)' => Knows(i, q)
        /\ \A i \in Ids : <<i, q>> \in missed => <<i, q>> \in missed'
        BY <1>3 DEF Keeps
  <1>7. CASE stage'[q] = "lost"
    <2>1. Erring(q)' => Erring(q)  BY <1>4, <1>7 DEF Erring
    <2> QED  BY <1>3, <1>4, <1>5, <1>6, <1>7, <2>1 DEF TellsInv
  <1>8. CASE stage'[q] = stage[q] /\ at[q] # p
    <2>1. phase'[q] = phase[q]  BY <1>1, <1>8
    <2>2. Erring(q)' <=> Erring(q)  BY <1>4, <1>8, <2>1 DEF Erring
    <2> QED  BY <1>3, <1>4, <1>5, <1>6, <1>8, <2>1, <2>2 DEF TellsInv
  <1>9. CASE stage'[q] = stage[q] /\ ~Serving(q)
    <2>1. stage[q] # "running"  BY <1>9 DEF Serving
    <2>2. Erring(q)' => Erring(q)  BY <1>4, <1>9, <2>1 DEF Erring
    <2> QED  BY <1>3, <1>4, <1>5, <1>6, <1>9, <2>1, <2>2 DEF TellsInv
  <1> QED  BY <1>1, <1>7, <1>8, <1>9

LEMMA ArrivesTells ==
    ASSUME ReplyInv, NEW r \in Requests, Arrives(r)
    PROVE  \A q \in Requests : TellsInv(q)'
  <1>1. phase' = phase /\ \A q \in Requests : Keeps(q)
        BY SessionsKeep DEF Arrives, ReplyInv
  <1>2. CASE Disconnect(r)  BY <1>1, <1>2, QuietTells DEF Disconnect
  <1>3. ASSUME NEW p \in Procs, NEW s \in Shapes, Route(r, p, s)
        PROVE  \A q \in Requests : TellsInv(q)'
    <2>1. HttpTypeOK /\ TellsInv(r) /\ SessionsTypeOK
          BY DEF ReplyInv, GatewayInv, HttpInv, SessionsInv
    <2>2. stage[r] = "new" /\ stage'[r] \in {"payload", "done"} /\ events' = events
          /\ (reply' = reply \/ Answers(r, "refused"))
          BY <1>3, <2>1 DEF Route, HttpTypeOK
    <2>3. \A q \in Requests \ {r} : Apart(q)
          BY <1>1, <1>3, <2>1 DEF Route, Answers, HttpTypeOK, Apart
    <2>4. \A i \in Ids : ~Knows(i, r) /\ ~Knows(i, r)'
          BY <1>1, <2>1, <2>2 DEF TellsInv, Keeps
    <2>5. ~Hears(r, "result") /\ ~Hears(r, "error")
      <3>1. ~Saved(r)  BY <2>1, <2>4 DEF Saved, Knows, SessionsTypeOK
      <3> QED  BY <2>1, <2>2, <3>1 DEF TellsInv
    <2>6. reply'[r] = reply[r] \/ reply'[r] = "refused"
          BY <2>1, <2>2 DEF Answers, HttpTypeOK
    <2>7. ~Hears(r, "result")' /\ ~Hears(r, "error")'
          BY <2>2, <2>5, <2>6 DEF Hears
    <2>8. stage'[r] # "running"  BY <2>2
    <2>9. TellsInv(r)'  BY <2>4, <2>7, <2>8 DEF TellsInv
    <2> QED  BY <2>3, <2>9, OneTells
  <1> QED  BY <1>2, <1>3 DEF Arrives

LEMMA ServesTells ==
    ASSUME ReplyInv, NEW r \in Requests, Serves(r)
    PROVE  \A q \in Requests : TellsInv(q)'
  <1>1. /\ \A q \in Requests : Keeps(q)
        /\ HttpTypeOK /\ TellsInv(r) /\ DOMAIN phase = Requests
        BY SessionsKeep DEF Serves, ReplyInv, GatewayInv, HttpInv
  <1>2. ASSUME NEW to, stage'[r] = to, target' = target,
               \A q \in Requests \ {r} : /\ stage'[q] = stage[q] /\ reply'[q] = reply[q]
                                         /\ phase'[q] = phase[q] /\ events'[q] = events[q],
               \A what \in {"result", "error"} : Hears(r, what)' => Hears(r, what),
               \/ stage[r] = to /\ phase'[r] = phase[r]
               \/ stage[r] = "payload" /\ to = "running" /\ phase'[r] \notin After
               \/ stage[r] \in {"payload", "closing"} /\ to = "done"
        PROVE  \A q \in Requests : TellsInv(q)'
    <2>1. \A q \in Requests \ {r} : Apart(q)  BY <1>1, <1>2 DEF Apart
    <2>2. Session(r)' = Session(r) /\ (Saved(r) => Saved(r)')
          BY <1>1, <1>2 DEF Session, Saved, Keeps
    <2>3. /\ \A i \in Ids : Knows(i, r)' => Knows(i, r)
          /\ \A i \in Ids : <<i, r>> \in missed => <<i, r>> \in missed'
          BY <1>1 DEF Keeps
    <2>4. CASE stage[r] = to /\ phase'[r] = phase[r]
      <3>1. Erring(r)' => Erring(r)  BY <1>2, <2>4 DEF Erring
      <3> QED  BY <1>1, <1>2, <2>1, <2>2, <2>3, <2>4, <3>1, OneTells DEF TellsInv
    <2>5. CASE stage[r] = "payload" /\ to = "running" /\ phase'[r] \notin After
      <3>1. /\ \A i \in Ids : ~Knows(i, r)
            /\ ~Hears(r, "error") /\ (Hears(r, "result") => Saved(r))
            BY <1>1, <2>5 DEF TellsInv
      <3>2. TellsInv(r)'  BY <1>2, <2>2, <2>3, <2>5, <3>1 DEF TellsInv, After
      <3> QED  BY <2>1, <3>2, OneTells
    <2>6. CASE stage[r] \in {"payload", "closing"} /\ to = "done"
      <3>1. Erring(r)' => Erring(r)  BY <1>2, <2>6 DEF Erring
      <3>2. TellsInv(r)'  BY <1>1, <1>2, <2>2, <2>3, <2>6, <3>1 DEF TellsInv
      <3> QED  BY <2>1, <3>2, OneTells
    <2> QED  BY <1>2, <2>4, <2>5, <2>6
  <1>3. ASSUME NEW a \in {"refused", "accepted", "stream"}, reply' = reply \/ Answers(r, a),
               events' = events
        PROVE  /\ \A what \in {"result", "error"} : Hears(r, what)' => Hears(r, what)
               /\ \A q \in Requests \ {r} : reply'[q] = reply[q] /\ events'[q] = events[q]
    <2>1. reply'[r] \in {reply[r], a} /\ \A q \in Requests \ {r} : reply'[q] = reply[q]
          BY <1>1, <1>3 DEF Answers, HttpTypeOK
    <2> QED  BY <2>1, <1>3 DEF Hears
  <1>4. CASE BadPayload(r) /\ UNCHANGED phase
    <2>1. /\ stage[r] = "payload" /\ stage'[r] = "done" /\ target' = target
          /\ \A q \in Requests \ {r} : stage'[q] = stage[q]
          /\ Answers(r, "refused") /\ events' = events
          BY <1>4, <1>1 DEF BadPayload, HttpTypeOK
    <2> QED  BY <1>1, <1>2, <1>3, <1>4, <2>1
  <1>5. ASSUME NEW m, Dispatch(r, m), Goes(r, "open") PROVE \A q \in Requests : TellsInv(q)'
    <2>1. /\ stage[r] = "payload" /\ stage'[r] = "running" /\ target' = target
          /\ \A q \in Requests \ {r} : stage'[q] = stage[q]
          /\ (reply' = reply \/ Answers(r, "stream")) /\ events' = events
          BY <1>5, <1>1 DEF Dispatch, HttpTypeOK
    <2>2. phase'[r] = "open" /\ \A q \in Requests \ {r} : phase'[q] = phase[q]
          BY <1>5, <1>1 DEF Goes
    <2> QED  BY <1>1, <1>2, <1>3, <2>1, <2>2 DEF Late, After
  <1>6. CASE Accept(r) /\ UNCHANGED phase
    <2>1. UNCHANGED <<stage, target, events>> /\ Answers(r, "accepted")  BY <1>6 DEF Accept
    <2> QED  BY <1>1, <1>2, <1>3, <1>6, <2>1
  <1>7. CASE WriteIdle(r) /\ UNCHANGED phase
    <2>1. /\ stage[r] = "closing" /\ stage'[r] = "done" /\ target' = target /\ reply' = reply
          /\ \A q \in Requests \ {r} : stage'[q] = stage[q]
          /\ Writes(r, "server", "idle")
          BY <1>7, <1>1 DEF WriteIdle, HttpTypeOK
    <2>2. "idle" \in Types  BY DEF Types
    <2>3. \A what : Hears(r, what)' => Hears(r, what) \/ what = "idle"
          BY <1>1, <2>1, <2>2, WrittenIsHeard
    <2>4. \A q \in Requests \ {r} : events'[q] = events[q]  BY <1>1, <2>1, <2>2, WritesOne
    <2> QED  BY <1>1, <1>2, <1>7, <2>1, <2>3, <2>4
  <1> QED  BY <1>4, <1>5, <1>6, <1>7 DEF Serves

LEMMA ToolPanicsTells ==
    ASSUME ReplyInv, NEW r \in Requests, ToolPanics(r)
    PROVE  \A q \in Requests : TellsInv(q)'
  <1>r. at[r] \in Procs /\ Session(r) \in Ids  BY Runs DEF ToolPanics, In, ReplyInv
  <1>1. CASE Dies(at[r])  BY <1>1, <1>r, DiesTells
  <1>2. CASE Panics(r) /\ Unlocks(r) /\ Goes(r, "off")
    <2>1. /\ UNCHANGED <<target, reply, events>> /\ TellsInv(r)
          /\ HttpTypeOK /\ DOMAIN phase = Requests
          BY <1>2 DEF Panics, ReplyInv, GatewayInv, HttpInv
    <2>k. \A q \in Requests : Keeps(q)  BY <1>2, <1>r, SessionsKeep DEF Unlocks, ReplyInv
    <2>2. /\ stage[r] = "running" /\ stage'[r] = "aborted" /\ phase'[r] = "off"
          /\ \A q \in Requests \ {r} : stage'[q] = stage[q] /\ phase'[q] = phase[q]
          BY <1>2, <2>1 DEF Panics, Goes, HttpTypeOK
    <2>3. \A q \in Requests \ {r} : Apart(q)  BY <2>k, <2>1, <2>2 DEF Apart
    <2>4. \A what : Hears(r, what)' <=> Hears(r, what)  BY <2>1 DEF Hears
    <2>5. Session(r)' = Session(r) /\ (Saved(r) => Saved(r)')
          BY <2>k, <2>1 DEF Session, Saved, Keeps
    <2>6. /\ \A i \in Ids : Knows(i, r)' => Knows(i, r)
          /\ \A i \in Ids : <<i, r>> \in missed => <<i, r>> \in missed'
          BY <2>k DEF Keeps
    <2>7. ~Erring(r)'  BY <2>1, <2>2, <2>4 DEF Erring, TellsInv
    <2>8. TellsInv(r)'  BY <2>1, <2>2, <2>4, <2>5, <2>6, <2>7 DEF TellsInv
    <2> QED  BY <2>3, <2>8, OneTells
  <1> QED  BY <1>1, <1>2 DEF ToolPanics

LEMMA ReplyInitInv == Init => ReplyInv
  <1> SUFFICES ASSUME Init PROVE ReplyInv  OBVIOUS
  <1>1. ASSUME NEW r \in Requests PROVE TellsInv(r)
    <2>1. stage[r] = "new" /\ reply[r] = "none" /\ events[r] = <<>>
          BY DEF Init, HttpInit
    <2>2. ~Hears(r, "result") /\ ~Hears(r, "error")  BY <2>1 DEF Hears
    <2>3. \A i \in Ids : ~Knows(i, r)
          BY DEF Init, SessionsInit, NewData, NotHeld, Knows
    <2> QED  BY <2>1, <2>2, <2>3 DEF TellsInv
  <1> QED  BY <1>1, GatewayInitInv, SessionsInitInv DEF Init, ReplyInv

LEMMA PhaseStays == ASSUME ReplyInv, [Next]_vars PROVE DOMAIN phase' = Requests
  <1>1. ASSUME NEW p, Dies(p) PROVE DOMAIN phase' = Requests  BY <1>1 DEF Dies
  <1>2. ASSUME NEW r, HandlerStep(r) PROVE DOMAIN phase' = Requests
        BY <1>2 DEF HandlerStep, OpenSession, LockSession, Input, Model, Complete, Checkpoint,
           Report, Return, CallTool, ToolAnswers, ToolEnds, Goes, ReplyInv
  <1>3. DOMAIN phase = Requests  BY DEF ReplyInv
  <1> QED  BY <1>1, <1>2, <1>3 DEF Next, vars, Serve, Reregisters, RemoteActs, Arrives, Serves,
              Token, ToolPanics, Goes

LEMMA ReplyNextInv == ReplyInv /\ [Next]_vars => ReplyInv'
  <1> SUFFICES ASSUME ReplyInv, [Next]_vars PROVE ReplyInv'  OBVIOUS
  <1>q. UNCHANGED sessionVars => \A q \in Requests : Keeps(q)  BY SessionsKeep DEF ReplyInv
  <1>1. ASSUME UNCHANGED vars PROVE \A q \in Requests : TellsInv(q)'
        BY <1>1, <1>q, QuietTells DEF vars, httpVars
  <1>2. ASSUME NEW p, Serve(p) PROVE \A q \in Requests : TellsInv(q)'
        BY <1>2, <1>q, QuietTells DEF Serve, Start
  <1>3. ASSUME Reregisters PROVE \A q \in Requests : TellsInv(q)'
        BY <1>3, <1>q, QuietTells DEF Reregisters, Handle
  <1>4. ASSUME RemoteActs PROVE \A q \in Requests : TellsInv(q)'
        BY <1>4, <1>q, QuietTells DEF RemoteActs, httpVars
  <1>5. \A q \in Requests : TellsInv(q)'
        BY <1>1, <1>2, <1>3, <1>4, DiesTells, ArrivesTells, ServesTells, HandlerTells,
           TokenTells, ToolPanicsTells DEF Next
  <1>6. GatewayInv'  BY GatewayNextInv DEF ReplyInv
  <1>7. SessionsInv'  BY StepImplements, SessionsNextInv DEF ReplyInv, PartsStep, SessionsStep
  <1> QED  BY <1>5, <1>6, <1>7, PhaseStays DEF ReplyInv

LEMMA TellsProperty == ReplyInv => ReplyTellsRun
  <1> SUFFICES ASSUME ReplyInv, NEW r \in Requests
               PROVE  LET i == Session(r) IN
                      /\ Hears(r, "result") => /\ <<i, r>> \in completed
                                               /\ i \in shared \/ stored[i][r] = "completed"
                      /\ Hears(r, "error") /\ stored[i][r] = "completed" => <<i, r>> \in missed
      BY DEF ReplyTellsRun
  <1>1. TellsInv(r) /\ KeptUnlessShared /\ completed \subseteq Ids \X Requests
        BY DEF ReplyInv, SessionsInv, SessionsTypeOK
  <1>2. ASSUME Hears(r, "result")
        PROVE  /\ <<Session(r), r>> \in completed
               /\ Session(r) \in shared \/ stored[Session(r)][r] = "completed"
        BY <1>1, <1>2 DEF TellsInv, Saved, KeptUnlessShared
  <1>3. ASSUME Hears(r, "error"), stored[Session(r)][r] = "completed"
        PROVE  <<Session(r), r>> \in missed
        BY <1>1, <1>3 DEF TellsInv, Knows, Erring
  <1> QED  BY <1>2, <1>3

(* The variables that Gateway adds to those of its parts. *)
Phases == {"off", "open", "lock", "input", "model", "tool", "complete", "report", "idle",
           "return", "failing"}
OwnTypeOK == died \subseteq Procs /\ phase \in [Requests -> Phases]

LEMMA OwnTyped == GatewayInv /\ OwnTypeOK /\ [Next]_vars => OwnTypeOK'
  <1> SUFFICES ASSUME GatewayInv, OwnTypeOK, [Next]_vars PROVE OwnTypeOK'  OBVIOUS
  <1>1. ASSUME NEW p \in Procs, Dies(p) PROVE OwnTypeOK'
        BY <1>1 DEF Dies, OwnTypeOK, Phases
  <1>2. ASSUME NEW r \in Requests, HandlerStep(r) PROVE OwnTypeOK'
    <2>1. died' = died
          BY <1>2 DEF HandlerStep, OpenSession, LockSession, Input, Model, Complete, Checkpoint,
             Report, Return, CallTool, ToolAnswers, ToolEnds, bounds
    <2>2. phase' = phase \/ \E to \in Phases : Goes(r, to)
          BY <1>2 DEF HandlerStep, OpenSession, LockSession, Input, Model, Complete, Checkpoint,
             Report, Return, CallTool, ToolAnswers, ToolEnds, Phases
    <2> QED  BY <2>1, <2>2 DEF OwnTypeOK, Goes
  <1>3. ASSUME NEW r \in Requests, ToolPanics(r) PROVE OwnTypeOK'
    <2>1. CASE Dies(at[r])  BY <1>1, <1>3, <2>1, Runs DEF ToolPanics, In
    <2>2. CASE Goes(r, "off") /\ UNCHANGED bounds
          BY <2>2 DEF Goes, bounds, OwnTypeOK, Phases
    <2> QED  BY <1>3, <2>1, <2>2 DEF ToolPanics
  <1>4. ASSUME NEW r \in Requests, Serves(r) PROVE OwnTypeOK'
        BY <1>4 DEF Serves, Goes, bounds, OwnTypeOK, Phases
  <1> QED  BY <1>1, <1>2, <1>3, <1>4 DEF Next, vars, bounds, Serve, Reregisters, RemoteActs,
              Arrives, Token, OwnTypeOK

(* The variables of the composition keep their types, for any bounds. *)
THEOREM TypeCorrect == Spec => []TypeOK
  <1>1. Init => OwnTypeOK  BY DEF Init, OwnTypeOK, Phases
  <1>2. OwnTypeOK /\ scope \in Scopes /\ HttpTypeOK /\ McpTypeOK /\ SessionsTypeOK => TypeOK
        BY DEF OwnTypeOK, Phases, TypeOK
  <1>3. GatewayInv => scope \in Scopes  BY DEF GatewayInv
  <1> QED  BY <1>1, <1>2, <1>3, GatewayInitInv, GatewayNextInv, OwnTyped, HttpTyped, McpTyped,
              SessionsTyped, GatewayImplementsParts, PTL DEF Spec, PartsImplemented

(* A client hears of a result only when the run was saved as completed, which it then
   stays in a store that is not shared; and the store has a run of which the client
   heard an error as completed only when its own save as completed failed and a later
   one, of another prompt, stored it.  This holds whatever dies, fails, leaves or
   waits meanwhile. *)
THEOREM RepliesTellRuns == Spec => []ReplyTellsRun
  <1> QED  BY ReplyInitInv, ReplyNextInv, TellsProperty, PTL DEF Spec
=============================================================================
