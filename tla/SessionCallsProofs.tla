------------------------- MODULE SessionCallsProofs -------------------------
(***************************************************************************)
(* Proofs about the tool calls and the history of SessionRuns: which calls *)
(* are executed, how often, and what a resumed run finds in its history.   *)
(*                                                                         *)
(* An action is first reduced to a move: what it does to the messages, the *)
(* checkpoints and the approval requests.  Each invariant is then proved   *)
(* move by move.                                                           *)
(***************************************************************************)
EXTENDS SessionRunsProofs

-----------------------------------------------------------------------------
(* Moves. *)

Silent     == data'.msgs = data.msgs
Says(m)    == data'.msgs = Append(data.msgs, m)
Recorded   == data'.ckpts = [data.ckpts EXCEPT ![cur] = data'.msgs]
Unrecorded == data'.ckpts = data.ckpts
Steady     == data'.pending = data.pending
Ends       == pc' = "idle" /\ queue' = <<>>

(* Only the run r changes its status, only the call c is executed. *)
OnlyRun(r)  == \A q \in RunIds \ {r} : data'.runs[q] = data.runs[q]
OnlyExec(c) == \A e \in Calls \ {c} : execs'[e] = execs[e]

Stores ==
    \/ disk' = disk /\ settled' = settled
    \/ disk' = data' /\ settled' = settled \cup AnsweredIn(data')

(* The moves of the operation in progress. *)
Stops ==
    /\ Silent /\ Unrecorded /\ Steady /\ Ends /\ UNCHANGED <<issued, execs>>
    /\ pc = "input" => data'.runs[cur].status = "failed"
Records ==
    /\ pc \in {"model", "resumed"} \/ (pc = "tools" /\ queue = <<>>)
    /\ Silent /\ Recorded /\ Steady /\ UNCHANGED <<issued, execs>>
    /\ Ends \/ pc' = "model"
TakesInput ==
    /\ pc = "input"
    /\ Says(Msg("user", cur, <<>>)) /\ Recorded /\ Steady /\ UNCHANGED <<issued, execs>>
    /\ Ends \/ pc' = "model"
Fresh(cs) ==
    /\ issued <= issued'
    /\ \A i \in DOMAIN cs : issued < cs[i].id /\ cs[i].id <= issued'
    /\ \A i, j \in DOMAIN cs : cs[i] = cs[j] => i = j
Decides(cs) ==
    /\ pc = "model" /\ Says(Msg("assistant", cur, cs)) /\ Steady /\ UNCHANGED execs
    /\ FreshIds => Fresh(cs)
    /\ \/ Recorded /\ Ends
       \/ /\ Recorded \/ Unrecorded
          /\ pc' = (IF cs = <<>> THEN "output" ELSE "tools") /\ queue' = cs
Finishes ==
    /\ pc = "output" /\ data'.msgs \in {data.msgs, Compacted(data).msgs}
    /\ Recorded /\ Steady /\ Ends /\ UNCHANGED <<issued, execs>>
Pauses(c) ==
    /\ pc = "tools" /\ queue # <<>> /\ c = Head(queue) /\ "undecided" \in Policy
    /\ Silent /\ Recorded /\ Ends /\ UNCHANGED <<issued, execs>>
    /\ data'.pending \subseteq data.pending \cup {[run |-> cur, call |-> c]}
Answers(c) ==
    /\ pc = "tools" /\ queue # <<>> /\ c = Head(queue)
    /\ Says(Msg("tool", cur, <<c>>)) /\ Unrecorded /\ Steady
    /\ UNCHANGED issued /\ OnlyExec(c)
    /\ pc' = "tools" /\ queue' = Tail(queue)
OpMove ==
    /\ Busy /\ cur \in RunIds /\ OnlyRun(cur) /\ UNCHANGED <<cur, nruns>> /\ Stores
    /\ \/ Stops \/ Records \/ TakesInput \/ Finishes
       \/ \E cs \in Seq(Calls) : Decides(cs)
       \/ \E c \in Calls : Pauses(c) \/ Answers(c)

(* The moves that begin or are an operation. *)
Asks(m) == m # <<>> /\ Last(m).role = "assistant" /\ Last(m).calls # <<>>
Begins ==
    /\ Silent /\ Unrecorded /\ Steady /\ UNCHANGED <<execs, disk, settled>>
    /\ nruns' = nruns + 1 /\ cur' = nruns + 1 /\ cur' \in RunIds /\ OnlyRun(cur')
    /\ pc' = "input"
Resumes(a) ==
    /\ Says(Msg("tool", a.run, <<a.call>>)) /\ Unrecorded /\ OnlyRun(a.run)
    /\ data'.pending = data.pending \ {a}
    /\ OnlyExec(a.call) /\ cur' = a.run /\ pc' = "resumed"
    /\ UNCHANGED <<nruns, disk, settled>>
Refuses == /\ Ends /\ UNCHANGED <<data, disk, settled, nruns, execs>>
Restores(r) ==
    /\ "resumeRun" \in Ops /\ data.ckpts[r] # <<>>
    /\ data'.msgs = data.ckpts[r] /\ Unrecorded /\ Steady /\ OnlyRun(r)
    /\ \/ Ends
       \/ Asks(data.ckpts[r]) /\ cur' = r /\ pc' = "tools" /\ queue' = Last(data.ckpts[r]).calls
       \/ ~Asks(data.ckpts[r]) /\ cur' = r /\ pc' = "model"
    /\ UNCHANGED <<nruns, disk, settled, execs>>
Notes ==
    /\ Silent \/ Says(Msg("tool", NoRun, <<>>))
    /\ Unrecorded /\ Steady /\ Ends /\ data'.runs = data.runs
    /\ UNCHANGED <<nruns, execs>> /\ Stores
Drops ==
    /\ data' = EmptyData /\ disk' \in {disk, EmptyData} /\ Ends
    /\ UNCHANGED <<nruns, execs, settled>>
CallMove ==
    /\ pc = "idle" /\ UNCHANGED issued
    /\ \/ Begins \/ Refuses \/ Notes \/ Drops
       \/ \E a \in data.pending : Resumes(a)
       \/ \E r \in RunIds : Restores(r)

(* A process starts or dies. *)
ProcessMove ==
    /\ data' = EmptyData \/ data' = disk
    /\ pc' \in {"down", "idle"}
    /\ UNCHANGED <<disk, settled, execs, issued, nruns>>

(* What the operators on session data leave alone, and what they change. *)
LEMMA MarkedFields ==
    ASSUME NEW d \in SessionData, NEW r \in RunIds, NEW st
    PROVE  /\ Marked(d, r, st).msgs = d.msgs /\ Marked(d, r, st).ckpts = d.ckpts
           /\ Marked(d, r, st).pending = d.pending
           /\ Marked(d, r, st).runs[r].status = st
           /\ \A q \in RunIds \ {r} : Marked(d, r, st).runs[q] = d.runs[q]
<1>1. d.runs \in [RunIds -> RunState] /\ d.runs[r] \in RunState
  BY DEF SessionData
<1>2. Marked(d, r, st).runs = [d.runs EXCEPT ![r] = [@ EXCEPT !.status = st]]
  BY DEF Marked, SessionData
<1>3. [d.runs[r] EXCEPT !.status = st].status = st
  BY <1>1 DEF RunState
<1>4. Marked(d, r, st).runs[r] = [d.runs[r] EXCEPT !.status = st]
  BY <1>1, <1>2
<1> QED BY <1>1, <1>2, <1>3, <1>4 DEF Marked, SessionData

LEMMA MessageFields ==
    ASSUME NEW d \in SessionData, NEW m
    PROVE  /\ Append1(d, m).msgs = Append(d.msgs, m) /\ Append1(d, m).ckpts = d.ckpts
           /\ Append1(d, m).pending = d.pending /\ Append1(d, m).runs = d.runs
BY DEF Append1, SessionData

LEMMA CheckpointFields ==
    ASSUME NEW d \in SessionData, NEW r \in RunIds
    PROVE  /\ Checkpointed(d, r).msgs = d.msgs
           /\ Checkpointed(d, r).ckpts = [d.ckpts EXCEPT ![r] = d.msgs]
           /\ Checkpointed(d, r).pending = d.pending /\ Checkpointed(d, r).runs = d.runs
BY DEF Checkpointed, SessionData

LEMMA PausedFields ==
    ASSUME NEW d \in SessionData, NEW r \in RunIds, NEW c \in Calls
    PROVE  /\ PausedFor(d, r, c).msgs = d.msgs /\ PausedFor(d, r, c).ckpts = d.ckpts
           /\ PausedFor(d, r, c).pending \subseteq d.pending \cup {[run |-> r, call |-> c]}
           /\ \A q \in RunIds \ {r} : PausedFor(d, r, c).runs[q] = d.runs[q]
BY DEF PausedFor, SessionData

LEMMA CompactedFields ==
    ASSUME NEW d \in SessionData
    PROVE  /\ Compacted(d).ckpts = d.ckpts /\ Compacted(d).pending = d.pending
           /\ Compacted(d).runs = d.runs
BY DEF Compacted, SessionData

LEMMA SavesStore ==
    ASSUME TrySave(data') \/ Persist(data') \/ SaveFails \/ Unsaved
    PROVE  Stores
BY DEF TrySave, Persist, SaveFails, Unsaved, Stores

(* The calls of a model that asks for tools are new. *)
LEMMA FreshCalls ==
    ASSUME TypeOK, ModelCallsTools
    PROVE  \E cs \in Seq(Calls) : ModelDecides(cs) /\ (FreshIds => Fresh(cs))
<1> DEFINE first == IF FreshIds THEN issued ELSE 0
           Asked(n, names) == [i \in 1..n |-> [id |-> first + i, name |-> names[i]]]
<1>1. PICK n \in 1..MaxBatch : \E names \in [1..n -> Names] :
        /\ first + n <= MaxCalls
        /\ issued' = IF FreshIds THEN issued + n ELSE issued
        /\ ModelDecides(Asked(n, names))
  BY DEF ModelCallsTools
<1>2. PICK names \in [1..n -> Names] :
        /\ first + n <= MaxCalls
        /\ issued' = IF FreshIds THEN issued + n ELSE issued
        /\ ModelDecides(Asked(n, names))
  BY <1>1
<1>3. n \in Nat /\ issued \in Nat
  BY BoundsAssumption DEF TypeOK
<1>4. Asked(n, names) \in Seq(Calls)
  <2>1. \A i \in 1..n : [id |-> first + i, name |-> names[i]] \in Calls
    BY <1>2, <1>3, BoundsAssumption DEF Calls, CallIds
  <2> QED BY <1>3, <2>1
<1>5. ASSUME FreshIds PROVE Fresh(Asked(n, names))
  <2>1. DOMAIN Asked(n, names) = 1..n /\ \A i \in 1..n : Asked(n, names)[i].id = issued + i
    BY <1>5
  <2>2. issued' = issued + n
    BY <1>2, <1>5
  <2> HIDE DEF Asked
  <2> QED BY <1>3, <2>1, <2>2 DEF Fresh
<1> QED BY <1>2, <1>4, <1>5

LEMMA DecisionMoves ==
    ASSUME TypeOK, PauseInv, NEW cs \in Seq(Calls), ModelDecides(cs), FreshIds => Fresh(cs)
    PROVE  OpMove
<1>1. Busy /\ pc = "model"
  BY DEF ModelDecides, InOp, Busy
<1>2. cur \in RunIds /\ data \in SessionData
  BY <1>1, BusyRun DEF TypeOK
<1> DEFINE said == Append1(data, Msg("assistant", cur, cs))
<1>3. said \in SessionData
  BY <1>2, MsgType, Append1Type
<1>4. /\ said.msgs = Append(data.msgs, Msg("assistant", cur, cs))
      /\ said.ckpts = data.ckpts /\ said.pending = data.pending /\ said.runs = data.runs
  BY <1>2, MessageFields
<1>5. /\ data' = Checkpointed(said, cur) \/ data' = said
      /\ \/ /\ Persist(data') \/ Unsaved
            /\ Goto(IF cs = <<>> THEN "output" ELSE "tools")
            /\ queue' = cs /\ UNCHANGED <<cur, mode, turn, tools>>
         \/ data' = Checkpointed(said, cur) /\ SaveFails /\ Return("error")
      /\ UNCHANGED <<nruns, execs>>
  BY DEF ModelDecides
<1> HIDE DEF said
<1>6. /\ data'.msgs = said.msgs /\ data'.pending = said.pending /\ data'.runs = said.runs
      /\ Recorded \/ Unrecorded
      /\ data' = Checkpointed(said, cur) => Recorded
  <2>1. /\ Checkpointed(said, cur).msgs = said.msgs
        /\ Checkpointed(said, cur).ckpts = [said.ckpts EXCEPT ![cur] = said.msgs]
        /\ Checkpointed(said, cur).pending = said.pending
        /\ Checkpointed(said, cur).runs = said.runs
    BY <1>2, <1>3, CheckpointFields
  <2>2. data'.msgs = said.msgs /\ data'.pending = said.pending /\ data'.runs = said.runs
    BY <1>5, <2>1
  <2>3. data' = Checkpointed(said, cur) => Recorded
    BY <1>4, <2>1, <2>2 DEF Recorded
  <2> QED BY <1>4, <1>5, <2>2, <2>3 DEF Unrecorded
<1>7. Stores /\ UNCHANGED <<cur, nruns>> /\ OnlyRun(cur)
  BY <1>4, <1>5, <1>6, SavesStore DEF Return, OnlyRun
<1>8. Decides(cs)
  BY <1>1, <1>4, <1>5, <1>6 DEF Decides, Says, Steady, Ends, Return, Goto
<1> QED BY <1>1, <1>2, <1>7, <1>8 DEF OpMove

(* The fields of what the operators make of the data of the session in progress. *)
LEMMA BusyFields ==
    ASSUME TypeOK, PauseInv, Busy, NEW st \in RunStatus
    PROVE  /\ data \in SessionData /\ cur \in RunIds
           /\ LET d == Marked(data, cur, st) IN
              /\ d \in SessionData
              /\ d.msgs = data.msgs /\ d.ckpts = data.ckpts /\ d.pending = data.pending
              /\ d.runs[cur].status = st
              /\ \A q \in RunIds \ {cur} : d.runs[q] = data.runs[q]
           /\ LET d == Checkpointed(Marked(data, cur, st), cur) IN
              /\ d.msgs = data.msgs /\ d.ckpts = [data.ckpts EXCEPT ![cur] = data.msgs]
              /\ d.pending = data.pending
              /\ \A q \in RunIds \ {cur} : d.runs[q] = data.runs[q]
<1>1. data \in SessionData /\ cur \in RunIds
  BY BusyRun DEF TypeOK
<1>2. Marked(data, cur, st) \in SessionData
  BY <1>1, MarkedType
<1> QED BY <1>1, <1>2, MarkedFields, CheckpointFields

LEMMA EndMoves ==
    ASSUME TypeOK, PauseInv,
           \/ InputBlocked \/ ModelFails \/ TurnsExceeded \/ OutputBlocked \/ CompactionFails
           \/ \E c \in Calls : UnknownTool(c) \/ ToolBlocked(c) \/ PolicyFails(c)
    PROVE  OpMove
<1>1. Busy
  BY DEF InputBlocked, ModelFails, TurnsExceeded, OutputBlocked, CompactionFails,
         UnknownTool, ToolBlocked, PolicyFails, NeedsDecision, AtCall, InOp, Busy
<1>2. "failed" \in RunStatus
  BY DEF RunStatus
<1>3. /\ data \in SessionData /\ cur \in RunIds
      /\ LET d == Marked(data, cur, "failed") IN
         /\ d.msgs = data.msgs /\ d.ckpts = data.ckpts /\ d.pending = data.pending
         /\ d.runs[cur].status = "failed"
         /\ \A q \in RunIds \ {cur} : d.runs[q] = data.runs[q]
      /\ LET d == Checkpointed(Marked(data, cur, "failed"), cur) IN
         /\ d.msgs = data.msgs /\ d.ckpts = [data.ckpts EXCEPT ![cur] = data.msgs]
         /\ d.pending = data.pending
         /\ \A q \in RunIds \ {cur} : d.runs[q] = data.runs[q]
  BY <1>1, <1>2, BusyFields
<1>4. /\ UNCHANGED <<issued, nruns, execs>> /\ Return("error")
      /\ TrySave(data') \/ Unsaved
  BY DEF InputBlocked, ModelFails, TurnsExceeded, OutputBlocked, CompactionFails,
         UnknownTool, ToolBlocked, PolicyFails, ids
<1>5. UNCHANGED <<cur, issued, nruns, execs>> /\ Ends /\ Stores
  BY <1>4, SavesStore DEF Return, Ends
<1>6. CASE ModelFails
  <2>1. pc = "model" /\ Silent /\ Recorded /\ Steady /\ OnlyRun(cur)
    BY <1>3, <1>6 DEF ModelFails, InOp, Silent, Recorded, Steady, OnlyRun
  <2> QED BY <1>1, <1>3, <1>5, <2>1 DEF OpMove, Records
<1>7. CASE ~ModelFails
  <2>1. /\ data' = Marked(data, cur, "failed") \/ data' = data
        /\ pc = "input" => data' = Marked(data, cur, "failed")
    BY <1>7 DEF InputBlocked, TurnsExceeded, OutputBlocked, CompactionFails,
         UnknownTool, ToolBlocked, PolicyFails, NeedsDecision, AtCall, InOp
  <2>2. /\ Silent /\ Unrecorded /\ Steady /\ OnlyRun(cur)
        /\ pc = "input" => data'.runs[cur].status = "failed"
    BY <1>3, <2>1 DEF Silent, Unrecorded, Steady, OnlyRun
  <2> QED BY <1>1, <1>3, <1>5, <2>2 DEF OpMove, Stops
<1> QED BY <1>6, <1>7

LEMMA RecordMoves ==
    ASSUME TypeOK, PauseInv, InputAllowed \/ ToolsDone \/ ResumeSaved
    PROVE  OpMove
<1>1. Busy
  BY DEF InputAllowed, ToolsDone, ResumeSaved, InOp, Busy
<1>2. data \in SessionData /\ cur \in RunIds
  BY <1>1, BusyRun DEF TypeOK
<1>3. /\ UNCHANGED <<cur, issued, nruns, execs>>
      /\ Persist(data') \/ SaveFails
      /\ Ends \/ pc' = "model"
  BY DEF InputAllowed, ToolsDone, ResumeSaved, ids, local, Goto, Return, Ends
<1>4. Stores
  BY <1>3, SavesStore
<1>5. CASE InputAllowed
  <2> DEFINE heard == Append1(data, Msg("user", cur, <<>>))
  <2>1. heard \in SessionData
    BY <1>2, NoCallsType, MsgType, Append1Type
  <2>2. /\ heard.msgs = Append(data.msgs, Msg("user", cur, <<>>))
        /\ heard.ckpts = data.ckpts /\ heard.pending = data.pending /\ heard.runs = data.runs
    BY <1>2, MessageFields
  <2>3. data' = Checkpointed(heard, cur) /\ pc = "input"
    BY <1>5 DEF InputAllowed, InOp
  <2> HIDE DEF heard
  <2>4. Says(Msg("user", cur, <<>>)) /\ Recorded /\ Steady /\ OnlyRun(cur)
    <3>1. /\ Checkpointed(heard, cur).msgs = heard.msgs
          /\ Checkpointed(heard, cur).ckpts = [heard.ckpts EXCEPT ![cur] = heard.msgs]
          /\ Checkpointed(heard, cur).pending = heard.pending
          /\ Checkpointed(heard, cur).runs = heard.runs
      BY <1>2, <2>1, CheckpointFields
    <3> QED BY <2>2, <2>3, <3>1 DEF Says, Recorded, Steady, OnlyRun
  <2> QED BY <1>1, <1>2, <1>3, <1>4, <2>3, <2>4 DEF OpMove, TakesInput
<1>6. CASE ToolsDone \/ ResumeSaved
  <2>1. Silent /\ Recorded /\ Steady /\ OnlyRun(cur)
    <3>1. data' = Checkpointed(data, cur)
      BY <1>6 DEF ToolsDone, ResumeSaved
    <3>2. /\ data'.msgs = data.msgs /\ data'.ckpts = [data.ckpts EXCEPT ![cur] = data.msgs]
          /\ data'.pending = data.pending /\ data'.runs = data.runs
      BY <1>2, <3>1, CheckpointFields
    <3> QED BY <3>2 DEF Silent, Recorded, Steady, OnlyRun
  <2>2. pc = "resumed" \/ (pc = "tools" /\ queue = <<>>)
    BY <1>6 DEF ToolsDone, ResumeSaved, InOp
  <2> QED BY <1>1, <1>2, <1>3, <1>4, <2>1, <2>2 DEF OpMove, Records
<1> QED BY <1>5, <1>6

LEMMA OutputMoves ==
    ASSUME TypeOK, PauseInv, OutputAllowed
    PROVE  OpMove
<1>1. Busy /\ pc = "output"
  BY DEF OutputAllowed, InOp, Busy
<1>2. data \in SessionData /\ cur \in RunIds /\ "completed" \in RunStatus
  BY <1>1, BusyRun DEF TypeOK, RunStatus
<1> DEFINE kept == IF mode = "prompt" THEN Compacted(data) ELSE data
           done == Marked(kept, cur, "completed")
<1>3. /\ kept \in SessionData
      /\ kept.msgs \in {data.msgs, Compacted(data).msgs}
      /\ kept.ckpts = data.ckpts /\ kept.pending = data.pending /\ kept.runs = data.runs
  BY <1>2, CompactedType, CompactedFields
<1>4. /\ data' = Checkpointed(done, cur)
      /\ Persist(data') \/ SaveFails
      /\ UNCHANGED <<cur, issued, nruns, execs>> /\ Ends
  BY DEF OutputAllowed, Return, Ends, ids
<1> HIDE DEF kept
<1>5. /\ done \in SessionData
      /\ done.msgs = kept.msgs /\ done.ckpts = kept.ckpts /\ done.pending = kept.pending
      /\ \A q \in RunIds \ {cur} : done.runs[q] = kept.runs[q]
  BY <1>2, <1>3, MarkedType, MarkedFields
<1> HIDE DEF done
<1>6. /\ data'.msgs = done.msgs /\ data'.ckpts = [done.ckpts EXCEPT ![cur] = done.msgs]
      /\ data'.pending = done.pending /\ data'.runs = done.runs
  BY <1>2, <1>4, <1>5, CheckpointFields
<1>7. data'.msgs \in {data.msgs, Compacted(data).msgs} /\ Recorded /\ Steady /\ OnlyRun(cur)
  BY <1>3, <1>5, <1>6 DEF Recorded, Steady, OnlyRun
<1>8. Stores
  BY <1>4, SavesStore
<1> QED BY <1>1, <1>2, <1>4, <1>7, <1>8 DEF OpMove, Finishes

LEMMA ToolMoves ==
    ASSUME TypeOK, PauseInv, NEW c \in Calls,
           PauseForApproval(c) \/ PolicyRejects(c) \/ Execute(c)
    PROVE  OpMove
<1>1. pc = "tools" /\ queue # <<>> /\ c = Head(queue)
  BY DEF PauseForApproval, PolicyRejects, Execute, NeedsDecision, AtCall, InOp
<1>2. Busy /\ data \in SessionData /\ cur \in RunIds
  BY <1>1, BusyRun DEF TypeOK, Busy
<1>3. UNCHANGED <<cur, issued, nruns>>
  BY DEF PauseForApproval, PolicyRejects, Execute, NextCall, Return, ids
<1>4. Stores
  BY SavesStore DEF PauseForApproval, PolicyRejects, Execute, NextCall
<1>5. CASE PauseForApproval(c)
  <2> DEFINE paused == PausedFor(data, cur, c)
  <2>1. /\ paused \in SessionData
        /\ paused.msgs = data.msgs /\ paused.ckpts = data.ckpts
        /\ paused.pending \subseteq data.pending \cup {[run |-> cur, call |-> c]}
        /\ \A q \in RunIds \ {cur} : paused.runs[q] = data.runs[q]
    BY <1>2, PausedForType, PausedFields
  <2>2. /\ data' = Checkpointed(paused, cur) /\ "undecided" \in Policy
        /\ Ends /\ UNCHANGED execs
    BY <1>5 DEF PauseForApproval, NeedsDecision, Return, Ends
  <2> HIDE DEF paused
  <2>3. /\ data'.msgs = paused.msgs /\ data'.ckpts = [paused.ckpts EXCEPT ![cur] = paused.msgs]
        /\ data'.pending = paused.pending /\ data'.runs = paused.runs
    BY <1>2, <2>1, <2>2, CheckpointFields
  <2>4. Silent /\ Recorded /\ OnlyRun(cur)
    BY <2>1, <2>3 DEF Silent, Recorded, OnlyRun
  <2>5. Pauses(c)
    BY <1>1, <1>3, <2>1, <2>2, <2>3, <2>4 DEF Pauses
  <2> QED BY <1>2, <1>3, <1>4, <2>4, <2>5 DEF OpMove
<1>6. CASE PolicyRejects(c) \/ Execute(c)
  <2>1. data' = Append1(data, Msg("tool", cur, <<c>>))
    BY <1>6 DEF PolicyRejects, Execute, Answer
  <2>2. /\ data'.msgs = Append(data.msgs, Msg("tool", cur, <<c>>))
        /\ data'.ckpts = data.ckpts /\ data'.pending = data.pending /\ data'.runs = data.runs
    BY <1>2, <2>1, MessageFields
  <2>3. OnlyExec(c) /\ pc' = "tools" /\ queue' = Tail(queue)
    BY <1>6 DEF PolicyRejects, Execute, NextCall, Goto, OnlyExec, TypeOK
  <2>4. Answers(c)
    BY <1>1, <1>3, <2>2, <2>3 DEF Answers, Says, Unrecorded, Steady
  <2>5. OnlyRun(cur)
    BY <2>2 DEF OnlyRun
  <2> QED BY <1>2, <1>3, <1>4, <2>4, <2>5 DEF OpMove
<1> QED BY <1>5, <1>6

LEMMA OpMoves ==
    ASSUME TypeOK, PauseInv, OpStep
    PROVE  OpMove
<1>1. CASE ModelAnswers
  <2>1. FreshIds => Fresh(<<>>)
    BY <1>1 DEF ModelAnswers, Fresh, TypeOK
  <2> QED BY <1>1, <2>1, NoCallsType, DecisionMoves DEF ModelAnswers
<1>2. CASE ModelCallsTools
  BY <1>2, FreshCalls, DecisionMoves
<1> QED BY <1>1, <1>2, EndMoves, RecordMoves, OutputMoves, ToolMoves DEF OpStep, ToolStep

LEMMA ProcessMoves == LoadSession \/ Crash => ProcessMove
BY DEF LoadSession, Crash, ProcessMove, Goto, ids, ghosts

LEMMA CallMoves ==
    ASSUME TypeOK, PauseInv, CallStep
    PROVE  CallMove
<1>1. pc = "idle" /\ UNCHANGED issued
  BY DEF CallStep, Prompt, Resume, ResumeWith, ResumeRefused, Shell, Delete,
         ResumeRun, ResumeRunRefused, Called, ids
<1>2. data \in SessionData /\ Coherent(data) /\ "running" \in RunStatus
  BY DEF TypeOK, PauseInv, PausedMeansPending, RunStatus
<1>3. CASE Prompt
  <2>1. nruns + 1 \in RunIds
    BY <1>3, BoundsAssumption DEF Prompt, TypeOK, RunIds
  <2>2. /\ data' = Marked(data, nruns + 1, "running") /\ cur' = nruns + 1
        /\ nruns' = nruns + 1 /\ pc' = "input" /\ UNCHANGED <<execs, disk, settled>>
    BY <1>3 DEF Prompt, Goto, ghosts
  <2>3. Silent /\ Unrecorded /\ Steady /\ OnlyRun(cur')
    BY <1>2, <2>1, <2>2, MarkedFields DEF Silent, Unrecorded, Steady, OnlyRun
  <2>4. Begins
    BY <2>1, <2>2, <2>3 DEF Begins
  <2> QED BY <1>1, <2>4 DEF CallMove
<1>4. ASSUME NEW a \in data.pending, NEW t \in {{}, CallTools},
             NEW decision \in {"approve", "reject"}, ResumeWith(a, t, decision)
      PROVE  CallMove
  <2>1. a.run \in RunIds /\ a.call \in Calls
    BY <1>2, PendingIsPaused
  <2> DEFINE m == Marked(data, a.run, "running")
             taken == [m EXCEPT !.pending = @ \ {a}]
  <2>2. /\ m \in SessionData
        /\ m.msgs = data.msgs /\ m.ckpts = data.ckpts /\ m.pending = data.pending
        /\ \A q \in RunIds \ {a.run} : m.runs[q] = data.runs[q]
    BY <1>2, <2>1, MarkedType, MarkedFields
  <2>3. data' = Append1(taken, Msg("tool", a.run, <<a.call>>))
    BY <1>4 DEF ResumeWith, Answer
  <2> HIDE DEF m
  <2>4. /\ taken \in SessionData
        /\ taken.msgs = m.msgs /\ taken.ckpts = m.ckpts /\ taken.runs = m.runs
        /\ taken.pending = m.pending \ {a}
    BY <2>2 DEF SessionData
  <2> HIDE DEF taken
  <2>5. /\ data'.msgs = Append(taken.msgs, Msg("tool", a.run, <<a.call>>))
        /\ data'.ckpts = taken.ckpts /\ data'.pending = taken.pending
        /\ data'.runs = taken.runs
    BY <2>3, <2>4, MessageFields
  <2>6. OnlyExec(a.call) /\ cur' = a.run /\ pc' = "resumed" /\ UNCHANGED <<nruns, disk, settled>>
    BY <1>4, <2>1 DEF ResumeWith, Goto, Unsaved, OnlyExec, ids, TypeOK
  <2>7. Resumes(a)
    BY <2>2, <2>4, <2>5, <2>6 DEF Resumes, Says, Unrecorded, OnlyRun
  <2> QED BY <1>1, <2>7 DEF CallMove
<1>5. CASE ResumeRefused \/ \E r \in RunIds : ResumeRunRefused(r)
  <2>1. Refuses
    BY <1>5 DEF ResumeRefused, ResumeRunRefused, Refuses, Ends, Return, ids, ghosts
  <2> QED BY <1>1, <2>1 DEF CallMove
<1>6. ASSUME NEW r \in RunIds, ResumeRun(r) PROVE CallMove
  <2> DEFINE m == Marked(data, r, "running")
  <2>1. /\ m \in SessionData
        /\ m.ckpts = data.ckpts /\ m.pending = data.pending
        /\ \A q \in RunIds \ {r} : m.runs[q] = data.runs[q]
    BY <1>2, MarkedType, MarkedFields
  <2>2. data' = [m EXCEPT !.msgs = data.ckpts[r]]
    BY <1>6 DEF ResumeRun
  <2> HIDE DEF m
  <2>3. /\ data'.msgs = data.ckpts[r] /\ data'.ckpts = m.ckpts
        /\ data'.pending = m.pending /\ data'.runs = m.runs
    BY <2>1, <2>2 DEF SessionData
  <2>4. Unrecorded /\ Steady /\ OnlyRun(r)
    BY <2>1, <2>3 DEF Unrecorded, Steady, OnlyRun
  <2>5. /\ "resumeRun" \in Ops /\ data.ckpts[r] # <<>>
        /\ UNCHANGED <<nruns, disk, settled, execs>>
        /\ \/ Ends
           \/ Asks(data.ckpts[r]) /\ cur' = r /\ pc' = "tools"
                /\ queue' = Last(data.ckpts[r]).calls
           \/ ~Asks(data.ckpts[r]) /\ cur' = r /\ pc' = "model"
    BY <1>6 DEF ResumeRun, Called, Asks, Goto, Return, Ends, ids, ghosts
  <2>6. Restores(r)
    BY <2>3, <2>4, <2>5 DEF Restores
  <2> QED BY <1>1, <2>6 DEF CallMove
<1>7. CASE Shell
  <2>1. /\ data' = data \/ data' = Append1(data, Msg("tool", NoRun, <<>>))
        /\ Persist(data') \/ SaveFails \/ Unsaved
        /\ Ends /\ UNCHANGED <<nruns, execs>>
    BY <1>7 DEF Shell, Return, Ends, ids
  <2>2. Stores
    BY <2>1, SavesStore
  <2>3. /\ Silent \/ Says(Msg("tool", NoRun, <<>>))
        /\ Unrecorded /\ Steady /\ data'.runs = data.runs
    BY <1>2, <2>1, MessageFields DEF Silent, Says, Unrecorded, Steady
  <2>4. Notes
    BY <2>1, <2>2, <2>3 DEF Notes
  <2> QED BY <1>1, <2>4 DEF CallMove
<1>8. CASE Delete
  <2>1. Drops
    BY <1>8 DEF Delete, Drops, Ends, Return, ids, ghosts
  <2> QED BY <1>1, <2>1 DEF CallMove
<1> QED BY <1>3, <1>4, <1>5, <1>6, <1>7, <1>8 DEF CallStep, Resume

(* Every step is a move. *)
LEMMA Moves ==
    ASSUME TypeOK, PauseInv, [Next]_vars
    PROVE  OpMove \/ CallMove \/ ProcessMove \/ UNCHANGED vars
BY OpMoves, CallMoves, ProcessMoves DEF Next

-----------------------------------------------------------------------------
(* What is executed was approved. *)

(* Without a policy that rejects, an approval precedes every execution of a tool
   that requires one, by a human (Resume) or the policy (session.go,
   executeToolCallLocked and its callers).  The replay of ResumeRun executes what a
   policy rejects: the run ReplayRejects shows why the assumption is needed. *)
THEOREM ExecutedWasApproved ==
    ASSUME "reject" \notin Policy
    PROVE  Spec => []ApprovedBeforeExecuted
<1>1. Init => ApprovedBeforeExecuted
  BY BoundsAssumption DEF Init, ApprovedBeforeExecuted
<1>2. ASSUME TypeOK, PauseInv, ApprovedBeforeExecuted, [Next]_vars
      PROVE  ApprovedBeforeExecuted'
  <2>0. execs \in [Calls -> Nat] /\ approved \in [Calls -> Nat]
    BY <1>2 DEF TypeOK
  <2>1. CASE UNCHANGED <<execs, approved>>
    BY <1>2, <2>1 DEF ApprovedBeforeExecuted
  <2>2. ASSUME NEW c \in Calls, Execute(c) PROVE ApprovedBeforeExecuted'
    <3>1. execs' = [execs EXCEPT ![c] = @ + 1]
      BY <2>2 DEF Execute
    <3>2. CASE c.name \notin Sensitive /\ UNCHANGED approved
      BY <1>2, <2>0, <3>1, <3>2 DEF ApprovedBeforeExecuted
    <3>3. CASE approved' = [approved EXCEPT ![c] = @ + 1]
      BY <1>2, <2>0, <3>1, <3>3 DEF ApprovedBeforeExecuted
    <3> QED BY <2>2, <3>2, <3>3 DEF Execute, NeedsDecision
  <2>3. ASSUME NEW a \in data.pending, NEW t \in {{}, CallTools},
               NEW decision \in {"approve", "reject"}, ResumeWith(a, t, decision)
        PROVE  ApprovedBeforeExecuted'
    <3>1. a.call \in Calls
      BY <1>2, PendingIsPaused DEF TypeOK, PauseInv, PausedMeansPending
    <3>2. CASE decision = "approve"
      <4>1. approved' = [approved EXCEPT ![a.call] = @ + 1]
            /\ execs' = [execs EXCEPT ![a.call] = @ + 1]
        BY <2>3, <3>2 DEF ResumeWith
      <4> QED BY <1>2, <2>0, <3>1, <4>1 DEF ApprovedBeforeExecuted
    <3>3. CASE decision = "reject"
      BY <2>1, <2>3, <3>3 DEF ResumeWith
    <3> QED BY <3>2, <3>3
  <2>4. CASE LoadSession \/ Crash
    BY <2>1, <2>4 DEF LoadSession, Crash, ghosts
  <2>5. CASE CallStep
    <3>1. CASE Resume
      BY <2>3, <3>1 DEF Resume
    <3>2. CASE ~Resume
      BY <2>1, <2>5, <3>2 DEF CallStep, Prompt, ResumeRefused, Shell, Delete, ResumeRun,
                              ResumeRunRefused, ghosts
    <3> QED BY <3>1, <3>2
  <2>6. CASE OpStep
    <3>1. CASE ToolStep
      BY <2>1, <2>2, <3>1 DEF ToolStep, UnknownTool, ToolBlocked, PolicyFails,
                              PauseForApproval, PolicyRejects, ToolsDone
    <3>2. CASE ~ToolStep
      BY <2>1, <2>6, <3>2 DEF OpStep, InputBlocked, InputAllowed, ModelFails, ModelAnswers,
         ModelCallsTools, ModelDecides, TurnsExceeded, OutputBlocked, OutputAllowed,
         CompactionFails, ResumeSaved
    <3> QED BY <3>1, <3>2
  <2>7. CASE UNCHANGED vars
    BY <2>1, <2>7 DEF vars, ghosts
  <2> QED BY <1>2, <2>4, <2>5, <2>6, <2>7 DEF Next
<1> QED BY <1>1, <1>2, Invariance, PTL DEF Spec

-----------------------------------------------------------------------------
(* Without pauses: a policy that always decides leaves no request behind. *)

Decisive == "undecided" \notin Policy

NoPauses == data.pending = {} /\ disk.pending = {} /\ pc # "resumed"

LEMMA NoPausesStep ==
    ASSUME Decisive, TypeOK, PauseInv, NoPauses, [Next]_vars
    PROVE  NoPauses'
<1>0. EmptyData.pending = {}
  BY DEF EmptyData
<1>1. CASE OpMove
  <2>1. data'.pending = {} /\ pc' # "resumed"
    BY <1>1 DEF OpMove, NoPauses, Decisive, Steady, Ends, Stops, Records, TakesInput,
                Decides, Finishes, Pauses, Answers
  <2> QED BY <1>1, <2>1 DEF OpMove, NoPauses, Stores
<1>2. CASE CallMove
  BY <1>0, <1>2 DEF CallMove, NoPauses, Steady, Ends, Begins, Refuses, Notes, Drops, Resumes,
                    Restores, Stores
<1>3. CASE ProcessMove
  BY <1>0, <1>3 DEF ProcessMove, NoPauses
<1>4. CASE UNCHANGED vars
  BY <1>4 DEF vars, NoPauses
<1> QED BY <1>1, <1>2, <1>3, <1>4, Moves

LEMMA NothingPaused == ASSUME Decisive PROVE Spec => []NoPauses
<1>1. Init => NoPauses
  BY DEF Init, NoPauses, EmptyData
<1>2. TypeOK /\ PauseInv /\ NoPauses /\ [Next]_vars => NoPauses'
  BY NoPausesStep
<1> QED BY <1>1, <1>2, Invariance, PTL DEF Spec

-----------------------------------------------------------------------------
(* A run that can be taken up has its prompt. *)

HasPrompt(m, r) ==
    \E i \in DOMAIN m : m[i] \in {Msg("user", r, <<>>), Msg("system", NoRun, <<>>)}

(* Every checkpoint has the prompt of its run.  A history has the prompt of every run
   with a checkpoint as long as ResumeRun does not put it back to an earlier one. *)
PromptsIn(d) ==
    \A r \in RunIds : d.ckpts[r] # <<>> =>
        /\ HasPrompt(d.ckpts[r], r)
        /\ "resumeRun" \notin Ops => HasPrompt(d.msgs, r)
Alive(d, r) == d.runs[r].status \in {"running", "paused"}

PromptInv ==
    /\ PromptsIn(data) /\ PromptsIn(disk)
    /\ \A r \in RunIds : Alive(disk, r) => disk.ckpts[r] # <<>>
    /\ \A r \in RunIds : Alive(data, r) => data.ckpts[r] # <<>> \/ (pc = "input" /\ cur = r)
    /\ Busy /\ pc # "input" => HasPrompt(data.msgs, cur)

LEMMA PromptKept ==
    ASSUME NEW m \in Seq(Message), NEW r, NEW x, HasPrompt(m, r)
    PROVE  HasPrompt(Append(m, x), r)
<1>1. PICK i \in DOMAIN m : m[i] \in {Msg("user", r, <<>>), Msg("system", NoRun, <<>>)}
  BY DEF HasPrompt
<1>2. i \in DOMAIN Append(m, x) /\ Append(m, x)[i] = m[i]
  OBVIOUS
<1> QED BY <1>1, <1>2 DEF HasPrompt

LEMMA PromptAdded ==
    ASSUME NEW m \in Seq(Message), NEW r
    PROVE  HasPrompt(Append(m, Msg("user", r, <<>>)), r)
<1> DEFINE n == Append(m, Msg("user", r, <<>>))
<1>1. Len(m) + 1 \in DOMAIN n /\ n[Len(m) + 1] = Msg("user", r, <<>>)
  OBVIOUS
<1> HIDE DEF n
<1>2. HasPrompt(n, r)
  BY <1>1 DEF HasPrompt
<1> QED BY <1>2 DEF n

LEMMA PromptCompacted ==
    ASSUME NEW d \in SessionData, NEW r, HasPrompt(d.msgs, r)
    PROVE  HasPrompt(Compacted(d).msgs, r)
<1>1. CASE ~NeedsCompaction(d)
  BY <1>1 DEF Compacted
<1>2. CASE NeedsCompaction(d)
  <2> DEFINE summary == Msg("system", NoRun, <<>>)
             rest    == SubSeq(d.msgs, Len(d.msgs) - Keep + 1, Len(d.msgs))
  <2>1. Compacted(d).msgs = <<summary>> \o rest
    BY <1>2 DEF Compacted, SessionData
  <2>2. rest \in Seq(Message) /\ summary \in Message
    BY <1>2, CompactedTail, NoCallsType, MsgType DEF NoRun
  <2> HIDE DEF rest
  <2>3. 1 \in DOMAIN (<<summary>> \o rest) /\ (<<summary>> \o rest)[1] = summary
    <3>1. <<summary>> \in Seq(Message) /\ Len(<<summary>>) = 1 /\ <<summary>>[1] = summary
      BY <2>2
    <3> QED BY <2>2, <3>1, ConcatProperties
  <2> QED BY <2>1, <2>3 DEF HasPrompt
<1> QED BY <1>1, <1>2

(* A step that adds to the history of a running operation, whether or not it checks
   it, saves it, or ends. *)
LEMMA PromptOp ==
    ASSUME TypeOK, PauseInv, PromptInv, OpMove
    PROVE  PromptInv'
<1>0. Busy /\ cur \in RunIds /\ cur' = cur /\ data.msgs \in Seq(Message) /\ data \in SessionData
  BY DEF OpMove, TypeOK, SessionData
<1>1. \A r \in RunIds : HasPrompt(data.msgs, r) => HasPrompt(data'.msgs, r)
  BY <1>0, PromptKept, PromptCompacted
     DEF OpMove, Silent, Says, Stops, Records, TakesInput, Finishes, Decides, Pauses, Answers
<1>2. CASE Stops
  <2>1. \A r \in RunIds : Alive(data', r) => data'.ckpts[r] # <<>>
    <3>1. \A r \in RunIds \ {cur} : Alive(data', r) => data'.ckpts[r] # <<>>
      BY <1>2 DEF OpMove, OnlyRun, Stops, Unrecorded, Alive, PromptInv
    <3>2. CASE pc = "input"
      BY <1>2, <3>1, <3>2 DEF Stops, Alive
    <3>3. CASE pc # "input"
      <4>1. Alive(data, cur)
        BY <1>0, BusyRun DEF Alive
      <4> QED BY <1>0, <1>2, <3>1, <3>3, <4>1 DEF Stops, Unrecorded, PromptInv
    <3> QED BY <3>2, <3>3
  <2>2. PromptsIn(data')
    BY <1>1, <1>2 DEF Stops, Unrecorded, PromptInv, PromptsIn
  <2>3. pc' = "idle"
    BY <1>2 DEF Stops, Ends
  <2> QED BY <2>1, <2>2, <2>3 DEF OpMove, Stores, PromptInv, Busy
<1>3. CASE ~Stops
  <2>1. /\ HasPrompt(data'.msgs, cur) /\ pc' \notin {"input", "down"}
        /\ pc # "input" \/ Recorded
    <3>1. CASE pc = "input"
      <4>1. TakesInput
        BY <1>3, <3>1 DEF OpMove, Records, Finishes, Decides, Pauses, Answers
      <4> QED BY <1>0, <4>1, PromptAdded DEF TakesInput, Says, Ends
    <3>2. CASE pc # "input"
      <4>1. HasPrompt(data'.msgs, cur)
        BY <1>0, <1>1, <3>2 DEF PromptInv
      <4>2. pc' \notin {"input", "down"}
        BY <1>3, <3>2 DEF OpMove, Records, TakesInput, Finishes, Decides, Pauses, Answers, Ends
      <4> QED BY <3>2, <4>1, <4>2
    <3> QED BY <3>1, <3>2
  <2>2. Recorded \/ Unrecorded
    BY <1>3 DEF OpMove, Records, TakesInput, Finishes, Decides, Pauses, Answers
  <2>3. /\ \A r \in RunIds \ {cur} : data'.ckpts[r] = data.ckpts[r]
        /\ data'.ckpts[cur] = (IF Recorded THEN data'.msgs ELSE data.ckpts[cur])
    BY <1>0, <2>2 DEF Recorded, Unrecorded, SessionData
  <2>4. data'.msgs # <<>>
    BY <2>1 DEF HasPrompt
  <2>5. PromptsIn(data')
    BY <1>1, <2>1, <2>3 DEF PromptInv, PromptsIn
  <2>6. \A r \in RunIds : Alive(data', r) => data'.ckpts[r] # <<>>
    <3>1. \A r \in RunIds \ {cur} : Alive(data', r) => data'.ckpts[r] # <<>>
      BY <2>3 DEF OpMove, OnlyRun, Alive, PromptInv
    <3>2. data'.ckpts[cur] # <<>>
      <4>1. Alive(data, cur)
        BY <1>0, BusyRun DEF Alive
      <4> QED BY <1>0, <2>1, <2>3, <2>4, <4>1 DEF PromptInv
    <3> QED BY <3>1, <3>2
  <2>7. \A r \in RunIds : Alive(disk', r) => disk'.ckpts[r] # <<>>
    BY <2>6 DEF OpMove, Stores, PromptInv
  <2>8. PromptsIn(disk')
    BY <2>5 DEF OpMove, Stores, PromptInv
  <2> QED BY <1>0, <2>1, <2>5, <2>6, <2>7, <2>8 DEF PromptInv
<1> QED BY <1>2, <1>3

LEMMA PromptCall ==
    ASSUME Decisive \/ "resumeRun" \notin Ops, Decisive => NoPauses,
           TypeOK, PauseInv, PromptInv, CallMove
    PROVE  PromptInv'
<1>0. pc = "idle" /\ data.msgs \in Seq(Message) /\ data \in SessionData
  BY DEF CallMove, TypeOK, SessionData
<1>1. \A r \in RunIds : Alive(data, r) => data.ckpts[r] # <<>>
  BY <1>0 DEF PromptInv
<1>2. CASE Begins
  <2>1. \A r \in RunIds : Alive(data', r) => data'.ckpts[r] # <<>> \/ cur' = r
    BY <1>1, <1>2 DEF Begins, OnlyRun, Alive, Unrecorded
  <2>2. PromptsIn(data')
    BY <1>2 DEF Begins, Silent, Unrecorded, PromptsIn, PromptInv
  <2> QED BY <1>2, <2>1, <2>2 DEF Begins, PromptInv, Busy
<1>3. ASSUME NEW a \in data.pending, Resumes(a)
      PROVE  PromptInv'
  <2>1. a.run \in RunIds /\ Alive(data, a.run)
    BY PendingIsPaused DEF PauseInv, PausedMeansPending, TypeOK, Alive
  <2>2. "resumeRun" \notin Ops
    BY <1>3 DEF NoPauses
  <2>3. \A r \in RunIds : HasPrompt(data.msgs, r) => HasPrompt(data'.msgs, r)
    BY <1>0, <1>3, PromptKept DEF Resumes, Says
  <2>4. HasPrompt(data'.msgs, a.run)
    BY <1>1, <2>1, <2>2, <2>3 DEF PromptInv, PromptsIn
  <2>5. PromptsIn(data')
    BY <1>3, <2>3 DEF Resumes, Unrecorded, PromptInv, PromptsIn
  <2>6. \A r \in RunIds : Alive(data', r) => data'.ckpts[r] # <<>>
    <3>1. \A r \in RunIds \ {a.run} : Alive(data', r) => data'.ckpts[r] # <<>>
      BY <1>1, <1>3 DEF Resumes, OnlyRun, Unrecorded, Alive
    <3>2. data'.ckpts[a.run] # <<>>
      BY <1>1, <1>3, <2>1 DEF Resumes, Unrecorded
    <3> QED BY <3>1, <3>2
  <2> QED BY <1>3, <2>4, <2>5, <2>6 DEF Resumes, PromptInv
<1>4. ASSUME NEW r \in RunIds, Restores(r)
      PROVE  PromptInv'
  <2>1. data.ckpts[r] # <<>> /\ HasPrompt(data.ckpts[r], r)
    BY <1>4 DEF Restores, PromptInv, PromptsIn
  <2>2. \A q \in RunIds : Alive(data', q) => data'.ckpts[q] # <<>>
    BY <1>1, <1>4, <2>1 DEF Restores, OnlyRun, Unrecorded, Alive
  <2>3. PromptsIn(data')
    BY <1>4 DEF Restores, Unrecorded, PromptInv, PromptsIn
  <2>4. Busy' => HasPrompt(data'.msgs, cur')
    BY <1>4, <2>1 DEF Restores, Ends, Busy
  <2> QED BY <1>4, <2>2, <2>3, <2>4 DEF Restores, PromptInv
<1>5. CASE Refuses
  BY <1>1, <1>5 DEF Refuses, Ends, PromptInv, Busy
<1>6. CASE Notes
  <2>1. \A r \in RunIds : HasPrompt(data.msgs, r) => HasPrompt(data'.msgs, r)
    BY <1>0, <1>6, PromptKept DEF Notes, Silent, Says
  <2>2. PromptsIn(data')
    BY <1>6, <2>1 DEF Notes, Unrecorded, PromptsIn, PromptInv
  <2>3. \A r \in RunIds : Alive(data', r) => data'.ckpts[r] # <<>>
    BY <1>1, <1>6 DEF Notes, Unrecorded, Alive
  <2> QED BY <1>6, <2>2, <2>3 DEF Notes, Stores, Ends, PromptInv, Busy
<1>7. CASE Drops
  BY <1>7 DEF Drops, Ends, PromptInv, PromptsIn, Alive, EmptyData, Busy
<1> QED BY <1>2, <1>3, <1>4, <1>5, <1>6, <1>7 DEF CallMove

LEMMA PromptStep ==
    ASSUME Decisive \/ "resumeRun" \notin Ops, Decisive => NoPauses,
           TypeOK, PauseInv, PromptInv, [Next]_vars
    PROVE  PromptInv'
<1>1. CASE ProcessMove
  BY <1>1 DEF ProcessMove, PromptInv, PromptsIn, Alive, EmptyData, Busy
<1>2. CASE UNCHANGED vars
  BY <1>2 DEF vars, local, PromptInv, Busy
<1> QED BY <1>1, <1>2, PromptOp, PromptCall, Moves

(* A run that is on disk as running or paused can be taken up there with its prompt, or
   a summary of it, in its history (session.go, the checkpoints of runPrompt and
   resumeRun) if no call ever pauses or no run is put back to a checkpoint.  With both,
   a pause of one run can be answered in the history of another: the run
   OlderRunResumed. *)
THEOREM RunsKeepTheirPrompt ==
    ASSUME Decisive \/ "resumeRun" \notin Ops
    PROVE  Spec => []PromptRecoverable
<1>1. Init => PromptInv
  BY DEF Init, PromptInv, PromptsIn, Alive, EmptyData, Busy
<1>2. TypeOK /\ PauseInv /\ (Decisive => NoPauses) /\ PromptInv /\ [Next]_vars => PromptInv'
  BY PromptStep
<1>3. PromptInv => PromptRecoverable
  BY DEF PromptInv, PromptsIn, Alive, HasPrompt, PromptRecoverable
<1>4. Spec => [](Decisive => NoPauses)
  <2>1. CASE Decisive
    <3>1. Spec => []NoPauses
      BY <2>1, NothingPaused
    <3> QED BY <3>1, PTL
  <2>2. CASE ~Decisive
    <3>1. Decisive => NoPauses
      BY <2>2
    <3> QED BY <3>1, PTL
  <2> QED BY <2>1, <2>2
<1> QED BY <1>1, <1>2, <1>3, <1>4, Invariance, PTL DEF Spec

-----------------------------------------------------------------------------
(* The model sees an answer to every call of its run. *)

(* The calls a resumed run replays, of a history it is put back to. *)
Requested(m) == IF Asks(m) THEN ToSet(Last(m).calls) ELSE {}

(* Every call that run r requested in m is answered later in m, but for those in Q. *)
Covered(m, r, Q) ==
    \A i \in DOMAIN m : m[i].role = "assistant" /\ m[i].run = r =>
        \A c \in ToSet(m[i].calls) : c \in Q \/ Answered(m, i, c)

(* No message of m is of a run later than n. *)
UpTo(m, n) == \A i \in DOMAIN m : m[i].run <= n

CoveredIn(d) == \A r \in RunIds : Covered(d.ckpts[r], r, Requested(d.ckpts[r]))
UpToIn(d, n) == UpTo(d.msgs, n) /\ \A r \in RunIds : UpTo(d.ckpts[r], n)

(* A checkpoint lacks only the answers ResumeRun replays, and the history of the
   operation in progress only those of its queue. *)
CoverInv ==
    /\ CoveredIn(data) /\ CoveredIn(disk)
    /\ UpToIn(data, nruns) /\ UpToIn(disk, nruns)
    /\ pc = "input" => \A i \in DOMAIN data.msgs : data.msgs[i].run # cur
    /\ pc \in {"model", "output"} => Covered(data.msgs, cur, {})
    /\ pc = "tools" => Covered(data.msgs, cur, ToSet(queue))

LEMMA AnswerKept ==
    ASSUME NEW m \in Seq(Message), NEW x, NEW i \in DOMAIN m, NEW c, Answered(m, i, c)
    PROVE  Answered(Append(m, x), i, c)
<1>1. PICK j \in DOMAIN m : j > i /\ m[j] = Msg("tool", m[i].run, <<c>>)
  BY DEF Answered
<1>2. /\ j \in DOMAIN Append(m, x) /\ Append(m, x)[j] = m[j]
      /\ Append(m, x)[i] = m[i]
  OBVIOUS
<1> QED BY <1>1, <1>2 DEF Answered

LEMMA CoverKept ==
    ASSUME NEW m \in Seq(Message), NEW x, NEW r, NEW Q, Covered(m, r, Q),
           x.role = "assistant" /\ x.run = r => ToSet(x.calls) \subseteq Q
    PROVE  Covered(Append(m, x), r, Q)
<1> DEFINE n == Append(m, x)
<1>1. DOMAIN n = DOMAIN m \cup {Len(m) + 1} /\ n[Len(m) + 1] = x
      /\ \A i \in DOMAIN m : n[i] = m[i]
  OBVIOUS
<1>2. \A i \in DOMAIN m : \A c : Answered(m, i, c) => Answered(n, i, c)
  BY AnswerKept
<1> HIDE DEF n
<1>3. Covered(n, r, Q)
  BY <1>1, <1>2 DEF Covered
<1> QED BY <1>3 DEF n

LEMMA CoverAnswered ==
    ASSUME NEW m \in Seq(Message), NEW r, NEW c, NEW Q, NEW P,
           Covered(m, r, Q), Q \subseteq P \cup {c}
    PROVE  Covered(Append(m, Msg("tool", r, <<c>>)), r, P)
<1> DEFINE x == Msg("tool", r, <<c>>)
           n == Append(m, x)
<1>1. DOMAIN n = DOMAIN m \cup {Len(m) + 1} /\ n[Len(m) + 1] = x
      /\ \A i \in DOMAIN m : n[i] = m[i] /\ Len(m) + 1 > i
  OBVIOUS
<1>2. \A i \in DOMAIN m : \A e : Answered(m, i, e) => Answered(n, i, e)
  BY AnswerKept
<1>3. x.role # "assistant"
  BY DEF Msg
<1> HIDE DEF n
<1>4. \A i \in DOMAIN m : m[i].run = r => Answered(n, i, c)
  BY <1>1 DEF Answered
<1>5. Covered(n, r, P)
  <2> SUFFICES ASSUME NEW i \in DOMAIN n, n[i].role = "assistant", n[i].run = r,
                      NEW e \in ToSet(n[i].calls)
               PROVE  e \in P \/ Answered(n, i, e)
    BY DEF Covered
  <2>1. i \in DOMAIN m /\ n[i] = m[i]
    BY <1>1, <1>3
  <2>2. e \in Q \/ Answered(m, i, e)
    BY <2>1 DEF Covered
  <2> QED BY <1>2, <1>4, <2>1, <2>2
<1> QED BY <1>5 DEF n

LEMMA CoverMore ==
    ASSUME NEW m, NEW r, NEW Q, NEW P, Covered(m, r, Q), Q \subseteq P
    PROVE  Covered(m, r, P)
BY DEF Covered

(* What a compaction keeps is the end of the history, with every answer to a call
   it keeps. *)
LEMMA CompactedMessages ==
    ASSUME NEW d \in SessionData, NeedsCompaction(d)
    PROVE  \E k \in Int :
             LET m == Compacted(d).msgs IN
             /\ m[1] = Msg("system", NoRun, <<>>) /\ 1 \in DOMAIN m
             /\ \A i \in DOMAIN m \ {1} : i + k \in DOMAIN d.msgs /\ m[i] = d.msgs[i + k]
             /\ \A i \in DOMAIN d.msgs : i > k + 1 => i - k \in DOMAIN m
             /\ DOMAIN m \subseteq Nat \ {0}
<1> DEFINE summary == Msg("system", NoRun, <<>>)
           first   == Len(d.msgs) - Keep + 1
           rest    == SubSeq(d.msgs, first, Len(d.msgs))
           m       == <<summary>> \o rest
<1>1. Keep \in 1..Len(d.msgs) /\ rest \in Seq(Message) /\ d.msgs \in Seq(Message)
  BY CompactedTail DEF SessionData
<1>2. summary \in Message
  BY NoCallsType, MsgType DEF NoRun
<1>3. Compacted(d).msgs = m
  BY DEF Compacted, SessionData
<1>4. first \in 1..Len(d.msgs) /\ Len(d.msgs) \in Nat
  BY <1>1
<1>5. Len(rest) = Keep /\ \A i \in 1..Keep : rest[i] = d.msgs[first + i - 1]
  <2>1. /\ first \in Int /\ Len(d.msgs) \in Int /\ first <= Len(d.msgs)
        /\ Len(d.msgs) - first + 1 = Keep
    BY <1>1, <1>4
  <2>2. \A i \in first..Len(d.msgs) : d.msgs[i] \in Message
    BY <1>1, <1>4
  <2> HIDE DEF first
  <2>3. /\ Len(rest) = Len(d.msgs) - first + 1
        /\ \A i \in 1..(Len(d.msgs) - first + 1) : rest[i] = d.msgs[first + i - 1]
    BY <2>1, <2>2, SubSeqProperties
  <2> QED  BY <2>1, <2>3
<1> HIDE DEF rest
<1>6. <<summary>> \in Seq(Message) /\ Len(<<summary>>) = 1 /\ <<summary>>[1] = summary
  BY <1>2
<1>7. /\ Len(m) = Keep + 1 /\ m \in Seq(Message)
      /\ m[1] = summary
      /\ \A i \in 2..(Keep + 1) : m[i] = rest[i - 1]
  BY <1>1, <1>5, <1>6, ConcatProperties
<1> HIDE DEF m, summary
<1> DEFINE k == first - 2
<1>8. DOMAIN m = 1..(Keep + 1)
  BY <1>7
<1>9. \A i \in DOMAIN m \ {1} : i + k \in DOMAIN d.msgs /\ m[i] = d.msgs[i + k]
  <2> SUFFICES ASSUME NEW i \in DOMAIN m \ {1}
               PROVE  i + k \in DOMAIN d.msgs /\ m[i] = d.msgs[i + k]
    OBVIOUS
  <2>1. i \in 2..(Keep + 1) /\ i - 1 \in 1..Keep
    BY <1>1, <1>8
  <2>2. m[i] = d.msgs[first + (i - 1) - 1]
    BY <1>5, <1>7, <2>1
  <2>3. first + (i - 1) - 1 = i + k /\ i + k \in 1..Len(d.msgs)
    <3>1. Keep \in Int /\ Len(d.msgs) \in Int /\ i \in Int
      BY <1>1, <1>4, <2>1
    <3>2. first + (i - 1) - 1 = i + (Len(d.msgs) - Keep - 1)
      BY <3>1
    <3>3. i + (Len(d.msgs) - Keep - 1) \in 1..Len(d.msgs)
      BY <1>1, <1>4, <2>1, <3>1
    <3>4. k = Len(d.msgs) - Keep - 1
      BY <3>1
    <3> QED BY <3>2, <3>3, <3>4
  <2> QED BY <1>1, <2>2, <2>3
<1>10. k \in Int
  BY <1>1, <1>4
<1>11. \A i \in DOMAIN d.msgs : i > k + 1 => i - k \in DOMAIN m
  <2>1. /\ DOMAIN d.msgs = 1..Len(d.msgs) /\ Keep \in Int /\ Len(d.msgs) \in Int
        /\ k = Len(d.msgs) - Keep - 1
    BY <1>1, <1>4
  <2> QED BY <1>8, <2>1
<1>12. 1 \in DOMAIN m /\ DOMAIN m \subseteq Nat \ {0}
  BY <1>1, <1>8
<1> HIDE DEF k
<1> WITNESS k \in Int
<1> QED BY <1>3, <1>7, <1>9, <1>11, <1>12 DEF summary

LEMMA CoverCompacted ==
    ASSUME NEW d \in SessionData, NEW r \in RunIds, NEW Q, Covered(d.msgs, r, Q)
    PROVE  Covered(Compacted(d).msgs, r, Q)
<1>1. CASE ~NeedsCompaction(d)
  BY <1>1 DEF Compacted
<1>2. CASE NeedsCompaction(d)
  <2> DEFINE m == Compacted(d).msgs
  <2>1. PICK k \in Int :
          /\ m[1] = Msg("system", NoRun, <<>>) /\ 1 \in DOMAIN m
          /\ \A i \in DOMAIN m \ {1} : i + k \in DOMAIN d.msgs /\ m[i] = d.msgs[i + k]
          /\ \A i \in DOMAIN d.msgs : i > k + 1 => i - k \in DOMAIN m
          /\ DOMAIN m \subseteq Nat \ {0}
    BY <1>2, CompactedMessages
  <2>2. DOMAIN d.msgs \subseteq Int
    BY DEF SessionData
  <2> HIDE DEF m
  <2>3. Covered(m, r, Q)
    <3> SUFFICES ASSUME NEW i \in DOMAIN m, m[i].role = "assistant", m[i].run = r,
                        NEW c \in ToSet(m[i].calls), c \notin Q
                 PROVE  Answered(m, i, c)
      BY DEF Covered
    <3>1. i # 1
      BY <2>1 DEF Msg
    <3>2. i + k \in DOMAIN d.msgs /\ m[i] = d.msgs[i + k]
      BY <2>1, <3>1
    <3>3. PICK j \in DOMAIN d.msgs : j > i + k /\ d.msgs[j] = Msg("tool", m[i].run, <<c>>)
      BY <3>2 DEF Covered, Answered
    <3>4. i \in Int /\ j \in Int /\ i >= 2
      BY <2>1, <2>2, <3>1
    <3>5. j - k \in DOMAIN m /\ j - k > i /\ j - k # 1 /\ (j - k) + k = j
      BY <2>1, <3>3, <3>4
    <3>6. m[j - k] = d.msgs[j]
      BY <2>1, <3>5
    <3> QED BY <3>3, <3>5, <3>6 DEF Answered
  <2> QED BY <2>3 DEF m
<1> QED BY <1>1, <1>2

LEMMA UpToKept ==
    ASSUME NEW m \in Seq(Message), NEW n \in Nat, UpTo(m, n), NEW x, x.run <= n
    PROVE  UpTo(Append(m, x), n)
<1>1. DOMAIN Append(m, x) = DOMAIN m \cup {Len(m) + 1} /\ Append(m, x)[Len(m) + 1] = x
      /\ \A i \in DOMAIN m : Append(m, x)[i] = m[i]
  OBVIOUS
<1> QED BY <1>1 DEF UpTo

LEMMA UpToCompacted ==
    ASSUME NEW d \in SessionData, NEW n \in Nat, UpTo(d.msgs, n)
    PROVE  UpTo(Compacted(d).msgs, n)
<1>1. CASE ~NeedsCompaction(d)
  BY <1>1 DEF Compacted
<1>2. CASE NeedsCompaction(d)
  <2> DEFINE m == Compacted(d).msgs
  <2>1. PICK k \in Int :
          /\ m[1] = Msg("system", NoRun, <<>>)
          /\ \A i \in DOMAIN m \ {1} : i + k \in DOMAIN d.msgs /\ m[i] = d.msgs[i + k]
    BY <1>2, CompactedMessages
  <2> HIDE DEF m
  <2>2. UpTo(m, n)
    BY <2>1 DEF UpTo, Msg, NoRun
  <2> QED BY <2>2 DEF m
<1> QED BY <1>1, <1>2

LEMMA LastAppended ==
    ASSUME NEW m \in Seq(Message), NEW x
    PROVE  Last(Append(m, x)) = x /\ Append(m, x) # <<>>
BY DEF Last

LEMMA HeadOrTail ==
    ASSUME NEW S, NEW q \in Seq(S), q # <<>>
    PROVE  ToSet(q) = {Head(q)} \cup ToSet(Tail(q))
<1>1. /\ Tail(q) \in Seq(S) /\ Len(Tail(q)) = Len(q) - 1 /\ Len(q) \in Nat \ {0}
      /\ \A i \in 1..Len(Tail(q)) : Tail(q)[i] = q[i + 1]
      /\ Head(q) = q[1]
  OBVIOUS
<1>2. \A i \in 2..Len(q) : i - 1 \in 1..Len(Tail(q)) /\ q[i] = Tail(q)[i - 1]
  <2> SUFFICES ASSUME NEW i \in 2..Len(q)
               PROVE  i - 1 \in 1..Len(Tail(q)) /\ q[i] = Tail(q)[i - 1]
    OBVIOUS
  <2>1. i - 1 \in 1..Len(Tail(q)) /\ (i - 1) + 1 = i
    BY <1>1
  <2> QED BY <1>1, <2>1
<1>3. \A i \in 1..Len(Tail(q)) : i + 1 \in 1..Len(q)
  BY <1>1
<1>4. DOMAIN q = {1} \cup 2..Len(q) /\ DOMAIN Tail(q) = 1..Len(Tail(q))
  BY <1>1
<1>5. \A i \in DOMAIN q : q[i] \in {Head(q)} \cup ToSet(Tail(q))
  BY <1>1, <1>2, <1>4 DEF ToSet
<1>6. Head(q) \in ToSet(q) /\ \A i \in DOMAIN Tail(q) : Tail(q)[i] \in ToSet(q)
  BY <1>1, <1>3, <1>4 DEF ToSet
<1> QED BY <1>5, <1>6 DEF ToSet

LEMMA CoverOp ==
    ASSUME Decisive, NoPauses, TypeOK, PauseInv, CoverInv, OpMove
    PROVE  CoverInv'
<1> DEFINE open == IF pc = "tools" THEN ToSet(queue) ELSE {}
<1>0. /\ Busy /\ cur \in RunIds /\ cur' = cur /\ nruns' = nruns /\ nruns \in Nat /\ cur <= nruns
      /\ data.msgs \in Seq(Message) /\ data \in SessionData
      /\ queue \in Seq(Calls)
  <2>1. Busy /\ cur' = cur /\ nruns' = nruns
    BY DEF OpMove
  <2>2. cur \in RunIds /\ cur <= nruns
    BY <2>1, BusyRun
  <2>3. nruns \in Nat /\ data \in SessionData /\ queue \in Seq(Calls)
    BY BoundsAssumption DEF TypeOK
  <2>4. data.msgs \in Seq(Message)
    BY <2>3 DEF SessionData
  <2> QED BY <2>1, <2>2, <2>3, <2>4
<1>1. Covered(data.msgs, cur, open)
  <2>1. pc \in {"input", "model", "output", "tools"}
    BY <1>0 DEF TypeOK, Busy, NoPauses
  <2>2. pc = "input" => Covered(data.msgs, cur, open)
    BY DEF CoverInv, Covered
  <2> QED BY <2>1, <2>2 DEF CoverInv
<1>2. UpTo(data'.msgs, nruns)
  <2>1. ASSUME NEW role, NEW cs, Says(Msg(role, cur, cs)) PROVE UpTo(data'.msgs, nruns)
    <3>1. Msg(role, cur, cs).run = cur
      BY DEF Msg
    <3> QED BY <1>0, <2>1, <3>1, UpToKept DEF Says, CoverInv, UpToIn
  <2>2. Silent => UpTo(data'.msgs, nruns)
    BY DEF Silent, CoverInv, UpToIn
  <2>3. Finishes => UpTo(data'.msgs, nruns)
    BY <1>0, UpToCompacted DEF Finishes, CoverInv, UpToIn
  <2> QED BY <2>1, <2>2, <2>3 DEF OpMove, Stops, Records, TakesInput, Decides, Pauses, Answers
<1> HIDE DEF open
(* It is enough to know how the history is covered, and that a checkpoint lacks only
   what ResumeRun replays. *)
<1>3. SUFFICES /\ \/ Unrecorded
                  \/ Recorded /\ Covered(data'.msgs, cur, Requested(data'.msgs))
               /\ pc' # "input"
               /\ pc' \in {"model", "output"} => Covered(data'.msgs, cur, {})
               /\ pc' = "tools" => Covered(data'.msgs, cur, ToSet(queue'))
  <2>1. ASSUME \/ Unrecorded
               \/ Recorded /\ Covered(data'.msgs, cur, Requested(data'.msgs))
        PROVE  CoveredIn(data') /\ UpToIn(data', nruns')
    <3>1. \A r \in RunIds : \/ data'.ckpts[r] = data.ckpts[r]
                            \/ r = cur /\ data'.ckpts[r] = data'.msgs /\ ~Unrecorded
      BY <1>0, <2>1 DEF Recorded, Unrecorded, SessionData
    <3>2. \A r \in RunIds : Covered(data'.ckpts[r], r, Requested(data'.ckpts[r]))
      BY <2>1, <3>1 DEF CoverInv, CoveredIn
    <3>3. \A r \in RunIds : UpTo(data'.ckpts[r], nruns)
      BY <1>2, <3>1 DEF CoverInv, UpToIn
    <3> QED BY <1>0, <1>2, <3>2, <3>3 DEF CoveredIn, UpToIn
  <2>2. ASSUME CoveredIn(data') /\ UpToIn(data', nruns')
        PROVE  CoveredIn(disk') /\ UpToIn(disk', nruns')
    BY <1>0, <2>2 DEF OpMove, Stores, CoverInv
  <2> QED BY <1>0, <2>1, <2>2 DEF CoverInv
<1>4. CASE Stops
  BY <1>4 DEF Stops, Ends
<1>5. CASE Records
  <2>1. Covered(data'.msgs, cur, {})
    <3>1. open = {}
      BY <1>5 DEF Records, open, ToSet
    <3> QED BY <1>1, <1>5, <3>1 DEF Records, Silent
  <2> QED BY <1>5, <2>1, CoverMore DEF Records, Ends
<1>6. CASE TakesInput
  <2>1. open = {} /\ Msg("user", cur, <<>>).role # "assistant"
    BY <1>6 DEF TakesInput, open, Msg
  <2>2. Covered(data'.msgs, cur, {})
    BY <1>0, <1>1, <1>6, <2>1, CoverKept DEF TakesInput, Says
  <2> QED BY <1>6, <2>2, CoverMore DEF TakesInput, Ends
<1>7. CASE Finishes
  <2>1. Covered(data'.msgs, cur, {})
    BY <1>0, <1>1, <1>7, CoverCompacted DEF Finishes, open
  <2> QED BY <1>7, <2>1, CoverMore DEF Finishes, Ends
<1>8. ASSUME NEW cs \in Seq(Calls), Decides(cs)
      PROVE  /\ Recorded \/ Unrecorded
             /\ Covered(data'.msgs, cur, Requested(data'.msgs))
             /\ pc' # "input"
             /\ pc' \in {"model", "output"} => Covered(data'.msgs, cur, {})
             /\ pc' = "tools" => Covered(data'.msgs, cur, ToSet(queue'))
  <2> DEFINE x == Msg("assistant", cur, cs)
  <2>1. x.calls = cs /\ x.role = "assistant" /\ open = {}
    BY <1>8 DEF Msg, Decides, open
  <2>2. data'.msgs = Append(data.msgs, x)
    BY <1>8 DEF Decides, Says
  <2> HIDE DEF x
  <2>3. Covered(data'.msgs, cur, ToSet(cs))
    <3>1. Covered(data.msgs, cur, ToSet(cs))
      BY <1>1, <2>1, CoverMore
    <3> QED BY <1>0, <2>1, <2>2, <3>1, CoverKept
  <2>4. cs = <<>> => ToSet(cs) = {}
    BY DEF ToSet
  <2>5. Requested(data'.msgs) = ToSet(cs)
    BY <1>0, <2>1, <2>2, <2>4, LastAppended DEF Requested, Asks
  <2> QED BY <1>8, <2>3, <2>4, <2>5 DEF Decides, Ends
<1>9. ASSUME NEW c \in Calls, Pauses(c) PROVE FALSE
  BY <1>9 DEF Pauses, Decisive
<1>a. ASSUME NEW c \in Calls, Answers(c)
      PROVE  /\ Unrecorded /\ pc' = "tools"
             /\ Covered(data'.msgs, cur, ToSet(queue'))
  <2>1. ToSet(queue) \subseteq ToSet(queue') \cup {c}
    BY <1>0, <1>a, HeadOrTail DEF Answers
  <2> QED BY <1>0, <1>1, <1>a, <2>1, CoverAnswered DEF Answers, Says, open
<1> QED BY <1>4, <1>5, <1>6, <1>7, <1>8, <1>9, <1>a DEF OpMove

LEMMA CoverCall ==
    ASSUME Decisive, NoPauses, TypeOK, PauseInv, CoverInv, CallMove
    PROVE  CoverInv'
<1>0. pc = "idle" /\ data.msgs \in Seq(Message) /\ nruns \in Nat
  BY BoundsAssumption DEF CallMove, TypeOK, SessionData
<1>1. CASE Begins
  <2>1. UpToIn(data', nruns') /\ UpToIn(disk', nruns')
    <3>1. \A x \in Message : x.run \in Int
      BY BoundsAssumption DEF Message, RunIds, NoRun
    <3>2. \A m \in Seq(Message) : UpTo(m, nruns) => UpTo(m, nruns + 1)
      BY <1>0, <3>1 DEF UpTo
    <3>3. \A d \in SessionData : UpToIn(d, nruns) => UpToIn(d, nruns + 1)
      BY <3>2 DEF UpToIn, SessionData
    <3>4. /\ data \in SessionData /\ disk \in SessionData
          /\ UpToIn(data, nruns) /\ UpToIn(disk, nruns)
      BY DEF TypeOK, CoverInv
    <3> QED BY <1>1, <3>3, <3>4 DEF Begins, Silent, Unrecorded, UpToIn
  <2>2. \A i \in DOMAIN data'.msgs : data'.msgs[i].run # cur'
    BY <1>0, <1>1 DEF Begins, Silent, CoverInv, UpToIn, UpTo
  <2> QED BY <1>1, <2>1, <2>2 DEF Begins, Unrecorded, CoverInv, CoveredIn
<1>2. ASSUME NEW a \in data.pending PROVE FALSE
  BY <1>2 DEF NoPauses
<1>3. ASSUME NEW r \in RunIds, Restores(r)
      PROVE  CoverInv'
  <2>1. Covered(data'.msgs, r, Requested(data'.msgs)) /\ UpTo(data'.msgs, nruns)
    BY <1>3 DEF Restores, CoverInv, CoveredIn, UpToIn
  <2>2. CoveredIn(data') /\ UpToIn(data', nruns)
    BY <1>3, <2>1 DEF Restores, Unrecorded, CoverInv, CoveredIn, UpToIn
  <2>3. CASE Ends
    BY <1>3, <2>2, <2>3 DEF Ends, Restores, CoverInv
  <2>4. CASE Asks(data.ckpts[r]) /\ cur' = r /\ pc' = "tools"
             /\ queue' = Last(data.ckpts[r]).calls
    BY <1>3, <2>1, <2>2, <2>4 DEF Restores, Requested, CoverInv
  <2>5. CASE ~Asks(data.ckpts[r]) /\ cur' = r /\ pc' = "model"
    BY <1>3, <2>1, <2>2, <2>5 DEF Restores, Requested, CoverInv
  <2> QED BY <1>3, <2>3, <2>4, <2>5 DEF Restores
<1>4. CASE Refuses
  BY <1>4 DEF Refuses, Ends, CoverInv
<1>5. CASE Notes
  <2>1. UpTo(data'.msgs, nruns)
    <3>1. Msg("tool", NoRun, <<>>).run <= nruns
      BY <1>0 DEF Msg, NoRun
    <3> QED BY <1>0, <1>5, <3>1, UpToKept DEF Notes, Silent, Says, CoverInv, UpToIn
  <2>2. CoveredIn(data') /\ UpToIn(data', nruns')
    BY <1>5, <2>1 DEF Notes, Unrecorded, CoverInv, CoveredIn, UpToIn
  <2> QED BY <1>5, <2>2 DEF Notes, Stores, Ends, CoverInv
<1>6. CASE Drops
  <2>1. CoveredIn(EmptyData) /\ UpToIn(EmptyData, nruns)
    BY DEF CoveredIn, Covered, UpToIn, UpTo, EmptyData
  <2> QED BY <1>6, <2>1 DEF Drops, Ends, CoverInv
<1> QED BY <1>1, <1>2, <1>3, <1>4, <1>5, <1>6 DEF CallMove

LEMMA CoverStep ==
    ASSUME Decisive, NoPauses, TypeOK, PauseInv, CoverInv, [Next]_vars
    PROVE  CoverInv'
<1>1. CASE ProcessMove
  <2>1. CoveredIn(EmptyData) /\ UpToIn(EmptyData, nruns)
    BY DEF CoveredIn, Covered, UpToIn, UpTo, EmptyData
  <2> QED BY <1>1, <2>1 DEF ProcessMove, CoverInv
<1>2. CASE UNCHANGED vars
  BY <1>2 DEF vars, local, ids, CoverInv
<1> QED BY <1>1, <1>2, CoverOp, CoverCall, Moves

(* If no call waits for a human, the model is only asked when every tool call the run
   has made so far is answered after it: through replays, compaction, rejections,
   blocked tools, crashes and lost saves (session.go, runPrompt, resumeRun and
   continueLocked).  Resume answers one call of a batch and asks with the rest open:
   the run BatchResumed. *)
THEOREM CallsAreAnswered ==
    ASSUME Decisive
    PROVE  Spec => []OwnCallsAnswered
<1>1. Init => CoverInv
  BY DEF Init, CoverInv, CoveredIn, Covered, UpToIn, UpTo, EmptyData
<1>2. TypeOK /\ PauseInv /\ NoPauses /\ CoverInv /\ [Next]_vars => CoverInv'
  BY CoverStep
<1>3. CoverInv => OwnCallsAnswered
  BY DEF CoverInv, Covered, OwnCallsAnswered
<1> QED BY <1>1, <1>2, <1>3, NothingPaused, Invariance, PTL DEF Spec

-----------------------------------------------------------------------------
(* How a history ends: with calls only while they are handled or to be replayed. *)

ReplaysOwn(d) == \A r \in RunIds : Asks(d.ckpts[r]) => Last(d.ckpts[r]).run = r

TailInv ==
    /\ ReplaysOwn(data) /\ ReplaysOwn(disk)
    /\ pc \in {"model", "output", "resumed"} => ~Asks(data.msgs)
    /\ pc = "tools" /\ Asks(data.msgs) =>
         Last(data.msgs).calls = queue /\ Last(data.msgs).run = cur

LEMMA AsksAppended ==
    ASSUME NEW m \in Seq(Message), NEW role, NEW r, NEW cs
    PROVE  LET n == Append(m, Msg(role, r, cs)) IN
           /\ Asks(n) => role = "assistant" /\ cs # <<>>
           /\ Last(n).calls = cs /\ Last(n).run = r
BY LastAppended DEF Asks, Msg

LEMMA AsksCompacted ==
    ASSUME NEW d \in SessionData
    PROVE  Asks(Compacted(d).msgs) => Asks(d.msgs)
<1>1. CASE ~NeedsCompaction(d)
  BY <1>1 DEF Compacted
<1>2. CASE NeedsCompaction(d)
  <2> DEFINE summary == Msg("system", NoRun, <<>>)
             rest    == SubSeq(d.msgs, Len(d.msgs) - Keep + 1, Len(d.msgs))
             m       == <<summary>> \o rest
  <2>1. /\ Keep \in 1..Len(d.msgs) /\ rest \in Seq(Message) /\ d.msgs \in Seq(Message)
        /\ summary \in Message
    BY <1>2, CompactedTail, NoCallsType, MsgType DEF SessionData, NoRun
  <2>2. Compacted(d).msgs = m
    BY <1>2 DEF Compacted, SessionData
  <2>3. /\ Len(d.msgs) - Keep + 1 \in 1..Len(d.msgs) /\ Len(d.msgs) \in Nat
        /\ Len(d.msgs) - Keep + 1 + Keep - 1 = Len(d.msgs)
    BY <2>1
  <2>4. Len(rest) = Keep /\ rest[Keep] = d.msgs[Len(d.msgs)]
    BY <2>1, <2>3, SubSeqProperties
  <2> HIDE DEF rest
  <2>5. <<summary>> \in Seq(Message) /\ Len(<<summary>>) = 1
    BY <2>1
  <2>6. Len(m) = Keep + 1 /\ m[Keep + 1] = rest[Keep]
    BY <2>1, <2>4, <2>5, ConcatProperties
  <2> HIDE DEF m
  <2>7. Last(m) = Last(d.msgs) /\ d.msgs # <<>>
    BY <2>1, <2>3, <2>4, <2>6 DEF Last
  <2> QED BY <2>2, <2>7 DEF Asks
<1> QED BY <1>1, <1>2

LEMMA TailOp ==
    ASSUME TypeOK, TailInv, OpMove
    PROVE  TailInv'
<1>0. /\ cur \in RunIds /\ cur' = cur /\ data.msgs \in Seq(Message) /\ data \in SessionData
  BY DEF OpMove, TypeOK, SessionData
<1>1. SUFFICES /\ Recorded \/ Unrecorded
               /\ Recorded /\ Asks(data'.msgs) => Last(data'.msgs).run = cur
               /\ pc' \in {"model", "output", "resumed"} => ~Asks(data'.msgs)
               /\ pc' = "tools" /\ Asks(data'.msgs) =>
                    Last(data'.msgs).calls = queue' /\ Last(data'.msgs).run = cur
  <2>1. ASSUME Recorded \/ Unrecorded, Recorded /\ Asks(data'.msgs) => Last(data'.msgs).run = cur
        PROVE  ReplaysOwn(data')
    <3>1. \A r \in RunIds : \/ data'.ckpts[r] = data.ckpts[r]
                            \/ r = cur /\ data'.ckpts[r] = data'.msgs /\ ~Unrecorded
      BY <1>0, <2>1 DEF Recorded, Unrecorded, SessionData
    <3> QED BY <2>1, <3>1 DEF TailInv, ReplaysOwn
  <2>2. ASSUME ReplaysOwn(data') PROVE ReplaysOwn(disk')
    BY <2>2 DEF OpMove, Stores, TailInv
  <2> QED BY <1>0, <2>1, <2>2 DEF TailInv
<1>2. CASE Stops
  <2>1. Recorded /\ Asks(data'.msgs) => Last(data'.msgs).run = cur
    BY <1>0, <1>2 DEF Stops, Recorded, Unrecorded, TailInv, ReplaysOwn, SessionData
  <2> QED BY <1>2, <2>1 DEF Stops, Ends
<1>3. CASE Records
  <2>1. ~Asks(data'.msgs)
    BY <1>3 DEF Records, Silent, TailInv, Asks
  <2> QED BY <1>3, <2>1 DEF Records
<1>4. CASE TakesInput
  <2>1. ~Asks(data'.msgs)
    BY <1>0, <1>4, AsksAppended DEF TakesInput, Says
  <2> QED BY <1>4, <2>1 DEF TakesInput
<1>5. CASE Finishes
  <2>1. ~Asks(data'.msgs)
    BY <1>0, <1>5, AsksCompacted DEF Finishes, TailInv
  <2> QED BY <1>5, <2>1 DEF Finishes
<1>6. ASSUME NEW cs \in Seq(Calls), Decides(cs)
      PROVE  /\ Recorded \/ Unrecorded
             /\ Last(data'.msgs).run = cur
             /\ pc' \in {"model", "output", "resumed"} => ~Asks(data'.msgs)
             /\ pc' = "tools" => Last(data'.msgs).calls = queue'
  <2>1. /\ Last(data'.msgs).run = cur /\ Last(data'.msgs).calls = cs
        /\ Asks(data'.msgs) => cs # <<>>
    BY <1>0, <1>6, AsksAppended DEF Decides, Says
  <2> QED BY <1>6, <2>1 DEF Decides, Ends
<1>7. ASSUME NEW c \in Calls, Pauses(c)
      PROVE  Recorded /\ pc' = "idle" /\ (Asks(data'.msgs) => Last(data'.msgs).run = cur)
  BY <1>7 DEF Pauses, Ends, Silent, TailInv
<1>8. ASSUME NEW c \in Calls, Answers(c)
      PROVE  Unrecorded /\ ~Asks(data'.msgs) /\ pc' = "tools"
  BY <1>0, <1>8, AsksAppended DEF Answers, Says
<1> QED BY <1>2, <1>3, <1>4, <1>5, <1>6, <1>7, <1>8 DEF OpMove

LEMMA TailStep ==
    ASSUME TypeOK, PauseInv, TailInv, [Next]_vars
    PROVE  TailInv'
<1>0. ReplaysOwn(EmptyData) /\ data.msgs \in Seq(Message)
  BY DEF ReplaysOwn, Asks, EmptyData, TypeOK, SessionData
<1>1. ASSUME NEW a \in data.pending, Resumes(a) PROVE TailInv'
  <2>1. ~Asks(data'.msgs)
    BY <1>0, <1>1, AsksAppended DEF Resumes, Says
  <2> QED BY <1>1, <2>1 DEF Resumes, Unrecorded, TailInv, ReplaysOwn
<1>2. ASSUME NEW r \in RunIds, Restores(r) PROVE TailInv'
  BY <1>2 DEF Restores, Unrecorded, Ends, TailInv, ReplaysOwn
<1>3. CASE CallMove
  BY <1>0, <1>1, <1>2, <1>3 DEF CallMove, Begins, Refuses, Notes, Drops, Stores, Ends, Unrecorded,
                                TailInv, ReplaysOwn
<1>4. CASE ProcessMove
  BY <1>0, <1>4 DEF ProcessMove, TailInv
<1>5. CASE UNCHANGED vars
  BY <1>5 DEF vars, local, TailInv
<1> QED BY <1>3, <1>4, <1>5, TailOp, Moves

-----------------------------------------------------------------------------
(* Every call belongs to one run, if the provider issues no id twice. *)

(* Of the first n ids, the id of call c is one of run r. *)
Of(owner, n, c, r)      == c.id <= n /\ owner[c.id] = r
MsgsOwned(owner, n, m)  ==
    \A i \in DOMAIN m : \A c \in ToSet(m[i].calls) : Of(owner, n, c, m[i].run)
CkptsOwned(owner, n, d) == \A r \in RunIds : MsgsOwned(owner, n, d.ckpts[r])
OwnedIn(owner, n, d)    ==
    /\ MsgsOwned(owner, n, d.msgs) /\ CkptsOwned(owner, n, d)
    /\ \A a \in d.pending : Of(owner, n, a.call, a.run)
OwnedBy(owner) ==
    /\ OwnedIn(owner, issued, data) /\ OwnedIn(owner, issued, disk)
    /\ pc = "tools" => \A c \in ToSet(queue) : Of(owner, issued, c, cur)

Owners   == [CallIds -> RunIds]
OwnerInv == \E owner \in Owners : OwnedBy(owner)

LEMMA OwnedAppended ==
    ASSUME NEW owner, NEW n, NEW m \in Seq(Message), MsgsOwned(owner, n, m),
           NEW role, NEW r, NEW cs, \A c \in ToSet(cs) : Of(owner, n, c, r)
    PROVE  MsgsOwned(owner, n, Append(m, Msg(role, r, cs)))
<1> DEFINE x == Msg(role, r, cs)
<1>1. x.calls = cs /\ x.run = r
  BY DEF Msg
<1> HIDE DEF x
<1>2. /\ DOMAIN Append(m, x) = DOMAIN m \cup {Len(m) + 1} /\ Append(m, x)[Len(m) + 1] = x
      /\ \A i \in DOMAIN m : Append(m, x)[i] = m[i]
  OBVIOUS
<1>3. MsgsOwned(owner, n, Append(m, x))
  BY <1>1, <1>2 DEF MsgsOwned
<1> QED BY <1>3 DEF x

LEMMA OwnedCompacted ==
    ASSUME NEW owner, NEW n, NEW d \in SessionData, MsgsOwned(owner, n, d.msgs)
    PROVE  MsgsOwned(owner, n, Compacted(d).msgs)
<1>1. CASE ~NeedsCompaction(d)
  BY <1>1 DEF Compacted
<1>2. CASE NeedsCompaction(d)
  <2> DEFINE m == Compacted(d).msgs
  <2>1. PICK k \in Int :
          /\ m[1] = Msg("system", NoRun, <<>>)
          /\ \A i \in DOMAIN m \ {1} : i + k \in DOMAIN d.msgs /\ m[i] = d.msgs[i + k]
    BY <1>2, CompactedMessages
  <2> HIDE DEF m
  <2>2. ToSet(m[1].calls) = {}
    BY <2>1 DEF Msg, ToSet
  <2>3. MsgsOwned(owner, n, m)
    BY <2>1, <2>2 DEF MsgsOwned
  <2> QED BY <2>3 DEF m
<1> QED BY <1>1, <1>2

(* New calls make their run the owner of ids nobody had. *)
LEMMA NewOwner ==
    ASSUME TypeOK, NEW owner \in Owners, NEW r \in RunIds, issued <= issued', issued' \in Int
    PROVE  \E new \in Owners :
             /\ \A c \in Calls : issued < c.id /\ c.id <= issued' => Of(new, issued', c, r)
             /\ \A c \in Calls, q \in RunIds \cup {NoRun} :
                  Of(owner, issued, c, q) => Of(new, issued', c, q)
<1> DEFINE new == [i \in CallIds |-> IF issued < i THEN r ELSE owner[i]]
<1>1. new \in Owners
  BY DEF Owners
<1>2. \A c \in Calls : c.id \in CallIds /\ c.id \in Int /\ issued \in Int
  BY BoundsAssumption DEF Calls, CallIds, TypeOK
<1>3. \A c \in Calls : issued < c.id /\ c.id <= issued' => Of(new, issued', c, r)
  BY <1>2 DEF Of
<1>4. \A c \in Calls, q \in RunIds \cup {NoRun} : Of(owner, issued, c, q) => Of(new, issued', c, q)
  BY <1>2 DEF Of
<1> QED BY <1>1, <1>3, <1>4

(* Ownership of all that a session holds carries over to an owner that agrees. *)
LEMMA OwnedMore ==
    ASSUME NEW owner, NEW n, NEW new, NEW k, NEW d \in SessionData, OwnedIn(owner, n, d),
           \A c \in Calls, q \in RunIds \cup {NoRun} : Of(owner, n, c, q) => Of(new, k, c, q)
    PROVE  OwnedIn(new, k, d)
<1>1. ASSUME NEW m \in Seq(Message), MsgsOwned(owner, n, m) PROVE MsgsOwned(new, k, m)
  <2>1. \A x \in Message : x.run \in RunIds \cup {NoRun} /\ ToSet(x.calls) \subseteq Calls
    BY DEF Message, ToSet
  <2> SUFFICES ASSUME NEW i \in DOMAIN m, NEW c \in ToSet(m[i].calls)
               PROVE  Of(new, k, c, m[i].run)
    BY DEF MsgsOwned
  <2>2. Of(owner, n, c, m[i].run)
    BY <1>1 DEF MsgsOwned
  <2>3. c \in Calls /\ m[i].run \in RunIds \cup {NoRun}
    BY <2>1
  <2> QED BY <2>2, <2>3
<1>2. \A a \in d.pending : a.call \in Calls /\ a.run \in RunIds
  BY DEF SessionData, Approval
<1>3. d.msgs \in Seq(Message) /\ \A r \in RunIds : d.ckpts[r] \in Seq(Message)
  BY DEF SessionData
<1>4. MsgsOwned(new, k, d.msgs) /\ CkptsOwned(new, k, d)
  BY <1>1, <1>3 DEF OwnedIn, CkptsOwned
<1>5. \A a \in d.pending : Of(new, k, a.call, a.run)
  BY <1>2 DEF OwnedIn
<1> QED BY <1>4, <1>5 DEF OwnedIn

(* A move of the operation hands the calls of the history on, new ones its own. *)
LEMMA OwnedOp ==
    ASSUME FreshIds, TypeOK, TypeOK', OpMove, NEW owner \in Owners, OwnedBy(owner)
    PROVE  OwnerInv'
<1>0. /\ cur \in RunIds /\ cur' = cur /\ data.msgs \in Seq(Message)
      /\ data \in SessionData /\ disk \in SessionData /\ data' \in SessionData
      /\ queue \in Seq(Calls) /\ issued \in Int /\ issued' \in Int
  <2>1. issued \in Int /\ issued' \in Int /\ data' \in SessionData
    BY BoundsAssumption DEF TypeOK
  <2>2. cur \in RunIds /\ cur' = cur
    BY DEF OpMove
  <2> QED BY <2>1, <2>2 DEF TypeOK, SessionData
<1>1. issued <= issued'
  <2>1. issued' = issued \/ \E cs \in Seq(Calls) : Fresh(cs)
    BY DEF OpMove, Stops, Records, TakesInput, Finishes, Decides, Pauses, Answers
  <2> QED BY <1>0, <2>1 DEF Fresh
<1>2. PICK new \in Owners :
        /\ \A c \in Calls : issued < c.id /\ c.id <= issued' => Of(new, issued', c, cur)
        /\ \A c \in Calls, q \in RunIds \cup {NoRun} :
             Of(owner, issued, c, q) => Of(new, issued', c, q)
  BY <1>0, <1>1, NewOwner
<1>3. OwnedIn(new, issued', data) /\ OwnedIn(new, issued', disk)
  <2>1. OwnedIn(owner, issued, data) /\ OwnedIn(owner, issued, disk)
    BY DEF OwnedBy
  <2> QED BY <1>0, <1>2, <2>1, OwnedMore
<1>4. pc = "tools" => \A c \in ToSet(queue) : Of(new, issued', c, cur)
  <2>1. ToSet(queue) \subseteq Calls
    BY <1>0 DEF ToSet
  <2> QED BY <1>0, <1>2, <2>1 DEF OwnedBy
<1>5. SUFFICES /\ Recorded \/ Unrecorded
               /\ MsgsOwned(new, issued', data'.msgs)
               /\ \A a \in data'.pending : Of(new, issued', a.call, a.run)
               /\ pc' = "tools" => \A c \in ToSet(queue') : Of(new, issued', c, cur)
  <2>1. ASSUME Recorded \/ Unrecorded, MsgsOwned(new, issued', data'.msgs)
        PROVE  CkptsOwned(new, issued', data')
    <3>1. \A r \in RunIds : data'.ckpts[r] = data.ckpts[r] \/ data'.ckpts[r] = data'.msgs
      BY <1>0, <2>1 DEF Recorded, Unrecorded, SessionData
    <3> QED BY <1>3, <2>1, <3>1 DEF OwnedIn, CkptsOwned
  <2>2. ASSUME OwnedIn(new, issued', data') PROVE OwnedIn(new, issued', disk')
    BY <1>3, <2>2 DEF OpMove, Stores
  <2> QED BY <1>0, <1>2, <2>1, <2>2 DEF OwnerInv, OwnedBy, OwnedIn
<1>6. Steady => \A a \in data'.pending : Of(new, issued', a.call, a.run)
  BY <1>3 DEF Steady, OwnedIn
<1>7. ASSUME NEW role, NEW cs, \A c \in ToSet(cs) : Of(new, issued', c, cur),
             Says(Msg(role, cur, cs))
      PROVE  MsgsOwned(new, issued', data'.msgs)
  BY <1>0, <1>3, <1>7, OwnedAppended DEF Says, OwnedIn
<1>8. Silent => MsgsOwned(new, issued', data'.msgs)
  BY <1>3 DEF Silent, OwnedIn
<1>9. CASE Stops \/ Records
  BY <1>6, <1>8, <1>9 DEF Stops, Records, Ends
<1>10. CASE TakesInput
  <2>1. \A c \in ToSet(<<>>) : Of(new, issued', c, cur)
    BY DEF ToSet
  <2> QED BY <1>6, <1>7, <1>10, <2>1 DEF TakesInput, Ends
<1>11. CASE Finishes
  <2>1. MsgsOwned(new, issued', data'.msgs)
    BY <1>0, <1>3, <1>11, OwnedCompacted DEF Finishes, OwnedIn
  <2> QED BY <1>6, <1>11, <2>1 DEF Finishes, Ends
<1>12. ASSUME NEW cs \in Seq(Calls), Decides(cs)
       PROVE  /\ Recorded \/ Unrecorded
              /\ MsgsOwned(new, issued', data'.msgs)
              /\ \A a \in data'.pending : Of(new, issued', a.call, a.run)
              /\ pc' = "tools" => \A c \in ToSet(queue') : Of(new, issued', c, cur)
  <2>1. \A c \in ToSet(cs) : Of(new, issued', c, cur)
    BY <1>2, <1>12 DEF Decides, Fresh, ToSet
  <2>2. MsgsOwned(new, issued', data'.msgs)
    BY <1>7, <1>12, <2>1 DEF Decides
  <2> QED BY <1>6, <1>12, <2>1, <2>2 DEF Decides, Ends
<1>13. ASSUME NEW c \in Calls, Pauses(c) \/ Answers(c)
       PROVE  Of(new, issued', c, cur)
  BY <1>0, <1>4, <1>13, HeadOrTail DEF Pauses, Answers
<1>14. ASSUME NEW c \in Calls, Pauses(c)
       PROVE  /\ Recorded /\ pc' = "idle" /\ MsgsOwned(new, issued', data'.msgs)
              /\ \A a \in data'.pending : Of(new, issued', a.call, a.run)
  BY <1>3, <1>8, <1>13, <1>14 DEF Pauses, Ends, OwnedIn
<1>15. ASSUME NEW c \in Calls, Answers(c)
       PROVE  /\ Unrecorded /\ MsgsOwned(new, issued', data'.msgs)
              /\ \A a \in data'.pending : Of(new, issued', a.call, a.run)
              /\ \A e \in ToSet(queue') : Of(new, issued', e, cur)
  <2>1. \A e \in ToSet(<<c>>) : Of(new, issued', e, cur)
    BY <1>13, <1>15 DEF ToSet
  <2>2. \A e \in ToSet(queue') : Of(new, issued', e, cur)
    BY <1>0, <1>4, <1>15, HeadOrTail DEF Answers
  <2> QED BY <1>6, <1>7, <1>15, <2>1, <2>2 DEF Answers
<1> QED BY <1>9, <1>10, <1>11, <1>12, <1>14, <1>15 DEF OpMove

LEMMA OwnerStep ==
    ASSUME FreshIds, TypeOK, TypeOK', PauseInv, TailInv, OwnerInv, [Next]_vars
    PROVE  OwnerInv'
<1>0. PICK owner \in Owners : OwnedBy(owner)
  BY DEF OwnerInv
<1>1. /\ OwnedIn(owner, issued, data) /\ OwnedIn(owner, issued, disk)
      /\ data.msgs \in Seq(Message) /\ data \in SessionData
  BY <1>0 DEF OwnedBy, TypeOK, SessionData
<1>2. OwnedIn(owner, issued, EmptyData)
  BY DEF OwnedIn, CkptsOwned, MsgsOwned, EmptyData
<1>3. ASSUME NEW a \in data.pending, Resumes(a), issued' = issued PROVE OwnedBy(owner)'
  <2>1. \A c \in ToSet(<<a.call>>) : Of(owner, issued, c, a.run)
    BY <1>1 DEF OwnedIn, ToSet
  <2>2. MsgsOwned(owner, issued, data'.msgs)
    BY <1>1, <1>3, <2>1, OwnedAppended DEF Resumes, Says, OwnedIn
  <2>3. OwnedIn(owner, issued, data')
    BY <1>1, <1>3, <2>2 DEF Resumes, Unrecorded, OwnedIn, CkptsOwned
  <2> QED BY <1>1, <1>3, <2>3 DEF Resumes, OwnedBy
<1>4. ASSUME NEW r \in RunIds, Restores(r), issued' = issued PROVE OwnedBy(owner)'
  <2>1. OwnedIn(owner, issued, data')
    BY <1>1, <1>4 DEF Restores, Unrecorded, Steady, OwnedIn, CkptsOwned
  <2>2. pc' = "tools" => \A c \in ToSet(queue') : Of(owner, issued, c, cur')
    <3> SUFFICES ASSUME Asks(data.ckpts[r]), cur' = r, queue' = Last(data.ckpts[r]).calls
                 PROVE  \A c \in ToSet(queue') : Of(owner, issued, c, cur')
      BY <1>4 DEF Restores, Ends
    <3>1. data.ckpts[r] \in Seq(Message) /\ data.ckpts[r] # <<>>
      BY <1>1, <1>4 DEF SessionData, Restores
    <3>2. /\ Len(data.ckpts[r]) \in DOMAIN data.ckpts[r]
          /\ Last(data.ckpts[r]) = data.ckpts[r][Len(data.ckpts[r])]
      BY <3>1 DEF Last
    <3>3. Last(data.ckpts[r]).run = r
      BY DEF TailInv, ReplaysOwn
    <3> QED BY <1>1, <3>2, <3>3 DEF OwnedIn, CkptsOwned, MsgsOwned
  <2> QED BY <1>1, <1>4, <2>1, <2>2 DEF Restores, OwnedBy
<1>5. CASE Notes /\ issued' = issued
  <2>1. \A c \in ToSet(<<>>) : Of(owner, issued, c, NoRun)
    BY DEF ToSet
  <2>2. MsgsOwned(owner, issued, data'.msgs)
    BY <1>1, <1>5, <2>1, OwnedAppended DEF Notes, Says, Silent, OwnedIn
  <2>3. OwnedIn(owner, issued, data')
    BY <1>1, <1>5, <2>2 DEF Notes, Unrecorded, Steady, OwnedIn, CkptsOwned
  <2> QED BY <1>0, <1>1, <1>5, <2>3 DEF Notes, Stores, Ends, OwnedBy, OwnerInv
<1>6. CASE (Begins \/ Refuses \/ Drops) /\ issued' = issued
  <2>1. OwnedIn(owner, issued, data') /\ OwnedIn(owner, issued, disk') /\ pc' # "tools"
    BY <1>1, <1>2, <1>6 DEF Begins, Refuses, Drops, Silent, Unrecorded, Steady, Ends,
                             OwnedIn, CkptsOwned
  <2> QED BY <1>0, <1>6, <2>1 DEF OwnedBy, OwnerInv
<1>7. CASE CallMove
  BY <1>0, <1>3, <1>4, <1>5, <1>6, <1>7 DEF CallMove, OwnerInv
<1>8. CASE ProcessMove
  BY <1>0, <1>1, <1>2, <1>8 DEF ProcessMove, OwnedBy, OwnerInv
<1>9. CASE UNCHANGED vars
  BY <1>0, <1>9 DEF vars, local, ids, OwnedBy, OwnerInv
<1> QED BY <1>0, <1>7, <1>8, <1>9, OwnedOp, Moves

-----------------------------------------------------------------------------
(* What was settled stays so. *)

(* The calls run r answered in m. *)
AnswersOf(m, r) == {c \in Calls : \E i \in DOMAIN m : m[i] = Msg("tool", r, <<c>>)}
Distinct(cs)    == \A i, j \in DOMAIN cs : cs[i] = cs[j] => i = j

(* No call that waits for its approval or for a replay is among those in `known`. *)
OpenIn(d, known) ==
    /\ \A a \in d.pending : a.call \notin known
    /\ \A r \in RunIds : Requested(d.ckpts[r]) \cap known = {}
    /\ \A r \in RunIds : Asks(d.ckpts[r]) => Distinct(Last(d.ckpts[r]).calls)

SettledInv ==
    /\ OpenIn(data, settled \cup AnsweredIn(data))
    /\ OpenIn(disk, settled \cup AnsweredIn(disk))
    /\ \A c \in settled : c.id <= issued
    /\ pc = "tools" =>
        /\ ToSet(queue) \cap (settled \cup AnsweredIn(data) \cup AnswersOf(data.msgs, cur)) = {}
        /\ Distinct(queue)

LEMMA AnsweredByRuns ==
    ASSUME NEW d
    PROVE  \A c : c \in AnsweredIn(d) <=> \E r \in RunIds : c \in AnswersOf(d.ckpts[r], r)
BY DEF AnsweredIn, AnswersOf

LEMMA AnswersAppended ==
    ASSUME NEW m \in Seq(Message), NEW r, NEW role, NEW cs
    PROVE  LET n == Append(m, Msg(role, r, cs)) IN
           /\ role # "tool" => AnswersOf(n, r) \subseteq AnswersOf(m, r)
           /\ \A c : cs = <<c>> => AnswersOf(n, r) \subseteq AnswersOf(m, r) \cup {c}
<1> DEFINE x == Msg(role, r, cs)
           n == Append(m, x)
<1>1. /\ DOMAIN n = DOMAIN m \cup {Len(m) + 1} /\ n[Len(m) + 1] = x
      /\ \A i \in DOMAIN m : n[i] = m[i]
  OBVIOUS
<1>2. \A c : x = Msg("tool", r, <<c>>) => role = "tool" /\ cs = <<c>>
  BY DEF Msg
<1> HIDE DEF n, x
<1>3. \A c \in AnswersOf(n, r) : c \in AnswersOf(m, r) \/ (role = "tool" /\ cs = <<c>>)
  BY <1>1, <1>2 DEF AnswersOf
<1>4. role # "tool" => AnswersOf(n, r) \subseteq AnswersOf(m, r)
  BY <1>3
<1>5. \A c : cs = <<c>> => AnswersOf(n, r) \subseteq AnswersOf(m, r) \cup {c}
  <2>1. \A c, e : <<c>> = <<e>> => c = e
    OBVIOUS
  <2> QED BY <1>3, <2>1
<1> QED BY <1>4, <1>5 DEF n, x

LEMMA AnswersCompacted ==
    ASSUME NEW d \in SessionData, NEW r \in RunIds
    PROVE  AnswersOf(Compacted(d).msgs, r) \subseteq AnswersOf(d.msgs, r)
<1>1. CASE ~NeedsCompaction(d)
  BY <1>1 DEF Compacted
<1>2. CASE NeedsCompaction(d)
  <2> DEFINE m == Compacted(d).msgs
  <2>1. PICK k \in Int :
          /\ m[1] = Msg("system", NoRun, <<>>)
          /\ \A i \in DOMAIN m \ {1} : i + k \in DOMAIN d.msgs /\ m[i] = d.msgs[i + k]
    BY <1>2, CompactedMessages
  <2> HIDE DEF m
  <2>2. \A c : m[1] # Msg("tool", r, <<c>>)
    BY <2>1 DEF Msg
  <2>3. AnswersOf(m, r) \subseteq AnswersOf(d.msgs, r)
    BY <2>1, <2>2 DEF AnswersOf
  <2> QED BY <2>3 DEF m
<1> QED BY <1>1, <1>2

LEMMA AnswersOwned ==
    ASSUME NEW owner, NEW n, NEW m, MsgsOwned(owner, n, m), NEW r, NEW c \in AnswersOf(m, r)
    PROVE  Of(owner, n, c, r)
<1>1. PICK i \in DOMAIN m : m[i] = Msg("tool", r, <<c>>)
  BY DEF AnswersOf
<1>2. m[i].run = r /\ c \in ToSet(m[i].calls)
  BY <1>1 DEF Msg, ToSet
<1> QED BY <1>2 DEF MsgsOwned

LEMMA RequestedOwned ==
    ASSUME NEW owner, NEW n, NEW d \in SessionData, CkptsOwned(owner, n, d), ReplaysOwn(d),
           NEW r \in RunIds, NEW c \in Requested(d.ckpts[r])
    PROVE  Of(owner, n, c, r)
<1> DEFINE m == d.ckpts[r]
<1>1. m \in Seq(Message) /\ MsgsOwned(owner, n, m)
  BY DEF SessionData, CkptsOwned
<1>2. Asks(m) /\ c \in ToSet(Last(m).calls) /\ Last(m).run = r
  BY DEF Requested, ReplaysOwn
<1> HIDE DEF m
<1>3. Len(m) \in DOMAIN m /\ Last(m) = m[Len(m)]
  BY <1>1, <1>2 DEF Asks, Last
<1> QED BY <1>1, <1>2, <1>3 DEF MsgsOwned

LEMMA DistinctTail ==
    ASSUME NEW S, NEW q \in Seq(S), q # <<>>, Distinct(q)
    PROVE  Distinct(Tail(q)) /\ Head(q) \notin ToSet(Tail(q))
<1>1. /\ Len(Tail(q)) = Len(q) - 1 /\ Len(q) \in Nat \ {0} /\ Head(q) = q[1]
      /\ DOMAIN q = 1..Len(q) /\ DOMAIN Tail(q) = 1..Len(Tail(q))
      /\ \A i \in DOMAIN Tail(q) : Tail(q)[i] = q[i + 1]
  OBVIOUS
<1>2. 1 \in DOMAIN q /\ \A i \in DOMAIN Tail(q) : i + 1 \in DOMAIN q /\ i \in Int /\ i + 1 # 1
  BY <1>1
<1>3. \A i \in DOMAIN Tail(q) : Tail(q)[i] # Head(q)
  BY <1>1, <1>2 DEF Distinct
<1>4. \A i, j \in DOMAIN Tail(q) : Tail(q)[i] = Tail(q)[j] => i + 1 = j + 1
  BY <1>1, <1>2 DEF Distinct
<1>5. \A i, j \in DOMAIN Tail(q) : i + 1 = j + 1 => i = j
  BY <1>2
<1> QED BY <1>3, <1>4, <1>5 DEF Distinct, ToSet

LEMMA SettledOp ==
    ASSUME FreshIds, TypeOK, TypeOK', PauseInv, TailInv, TailInv', SettledInv, OpMove,
           NEW owner \in Owners, OwnedBy(owner)
    PROVE  SettledInv' /\ \A c \in settled : execs'[c] = execs[c]
<1> DEFINE before == settled \cup AnsweredIn(data)
           known  == before \cup AnswersOf(data.msgs, cur)
           now    == settled' \cup AnsweredIn(data')
<1>0. /\ cur \in RunIds /\ cur' = cur /\ data.msgs \in Seq(Message) /\ Busy
      /\ data \in SessionData /\ queue \in Seq(Calls) /\ settled \subseteq Calls
      /\ issued \in Int /\ issued' \in Int
  <2>1. issued \in Int /\ issued' \in Int
    BY BoundsAssumption DEF TypeOK
  <2> QED BY <2>1 DEF OpMove, TypeOK, SessionData
<1>1. OwnedIn(owner, issued, data) /\ OwnedIn(owner, issued, disk)
  BY DEF OwnedBy
<1>2. \A c \in known : c.id <= issued
  <2>1. \A c \in AnsweredIn(data) : c.id <= issued
    BY <1>1, AnsweredByRuns, AnswersOwned DEF OwnedIn, CkptsOwned, Of
  <2>2. \A c \in AnswersOf(data.msgs, cur) : c.id <= issued
    BY <1>1, AnswersOwned DEF OwnedIn, Of
  <2> QED BY <2>1, <2>2 DEF SettledInv
<1>3. issued <= issued'
  <2>1. issued' = issued \/ \E cs \in Seq(Calls) : Fresh(cs)
    BY DEF OpMove, Stops, Records, TakesInput, Finishes, Decides, Pauses, Answers
  <2> QED BY <1>0, <2>1 DEF Fresh
(* A new checkpoint settles no call its run had not answered in the history. *)
<1>4. Unrecorded \/ (Recorded /\ AnswersOf(data'.msgs, cur) \subseteq AnswersOf(data.msgs, cur))
  <2>1. ASSUME NEW role \in {"user", "assistant"}, NEW cs, Says(Msg(role, cur, cs))
        PROVE  AnswersOf(data'.msgs, cur) \subseteq AnswersOf(data.msgs, cur)
    BY <1>0, <2>1, AnswersAppended DEF Says
  <2>2. Finishes => AnswersOf(data'.msgs, cur) \subseteq AnswersOf(data.msgs, cur)
    BY <1>0, AnswersCompacted DEF Finishes
  <2>3. Silent => AnswersOf(data'.msgs, cur) \subseteq AnswersOf(data.msgs, cur)
    BY DEF Silent
  <2> QED BY <2>1, <2>2, <2>3
         DEF OpMove, Stops, Records, TakesInput, Finishes, Decides, Pauses, Answers
<1>5. /\ \A r \in RunIds : \/ data'.ckpts[r] = data.ckpts[r]
                           \/ r = cur /\ data'.ckpts[r] = data'.msgs /\ ~Unrecorded
      /\ Unrecorded => data'.ckpts = data.ckpts
  BY <1>0, <1>4 DEF Recorded, Unrecorded, SessionData
<1>6. now \subseteq known /\ (Unrecorded => now \subseteq before)
  <2>1. AnsweredIn(data') \subseteq known /\ (Unrecorded => AnsweredIn(data') = AnsweredIn(data))
    <3>1. \A c \in AnsweredIn(data') : c \in known
      BY <1>4, <1>5, AnsweredByRuns
    <3> QED BY <1>5, <3>1 DEF AnsweredIn
  <2>2. settled' \subseteq settled \cup AnsweredIn(data')
    BY DEF OpMove, Stores
  <2> QED BY <2>1, <2>2
(* What waits, or is to be replayed, in another run was answered by no run. *)
<1>7. \A a \in data.pending : a.call \notin known
  <2> SUFFICES ASSUME NEW a \in data.pending, a.call \in AnswersOf(data.msgs, cur)
               PROVE  FALSE
    BY DEF SettledInv, OpenIn
  <2>1. data.runs[a.run].status = "paused"
    BY <1>0, PendingIsPaused DEF PauseInv, PausedMeansPending
  <2>2. a.run # cur
    BY <1>0, <2>1, BusyRun
  <2>3. Of(owner, issued, a.call, a.run) /\ Of(owner, issued, a.call, cur)
    BY <1>0, <1>1, AnswersOwned DEF OwnedIn
  <2> QED BY <2>2, <2>3 DEF Of
<1>8. \A r \in RunIds \ {cur} : Requested(data.ckpts[r]) \cap known = {}
  <2> SUFFICES ASSUME NEW r \in RunIds \ {cur}, NEW c \in Requested(data.ckpts[r]),
                      c \in AnswersOf(data.msgs, cur)
               PROVE  FALSE
    BY DEF SettledInv, OpenIn
  <2>1. Of(owner, issued, c, r)
    BY <1>0, <1>1, RequestedOwned DEF OwnedIn, TailInv
  <2>2. Of(owner, issued, c, cur)
    BY <1>0, <1>1, AnswersOwned DEF OwnedIn
  <2> QED BY <2>1, <2>2 DEF Of
<1> HIDE DEF now, known, before
<1>9. SUFFICES /\ \A a \in data'.pending : a.call \notin known
               /\ \/ Unrecorded
                  \/ /\ Requested(data'.msgs) \cap known = {}
                     /\ Asks(data'.msgs) => Distinct(Last(data'.msgs).calls)
               /\ pc' = "tools" =>
                    /\ ToSet(queue') \cap (now \cup AnswersOf(data'.msgs, cur)) = {}
                    /\ Distinct(queue')
               /\ \A c \in settled : execs'[c] = execs[c]
  <2>1. ASSUME \A a \in data'.pending : a.call \notin known,
               \/ Unrecorded
               \/ /\ Requested(data'.msgs) \cap known = {}
                  /\ Asks(data'.msgs) => Distinct(Last(data'.msgs).calls)
        PROVE  OpenIn(data', now)
    <3>1. ASSUME NEW r \in RunIds
          PROVE  /\ Requested(data'.ckpts[r]) \cap now = {}
                 /\ Asks(data'.ckpts[r]) => Distinct(Last(data'.ckpts[r]).calls)
      <4>1. CASE data'.ckpts[r] = data.ckpts[r]
        <5>1. Requested(data.ckpts[r]) \cap before = {}
          BY DEF SettledInv, OpenIn, before
        <5>2. Requested(data.ckpts[r]) \cap now = {}
          <6>1. CASE Unrecorded
            BY <1>6, <5>1, <6>1
          <6>2. CASE r # cur
            BY <1>6, <1>8, <6>2
          <6>3. CASE ~Unrecorded /\ r = cur
            <7>1. data'.ckpts[r] = data'.msgs
              BY <1>0, <1>4, <6>3 DEF Recorded, SessionData
            <7> QED BY <1>6, <2>1, <4>1, <6>3, <7>1
          <6> QED BY <6>1, <6>2, <6>3
        <5> QED BY <4>1, <5>2 DEF SettledInv, OpenIn
      <4>2. CASE r = cur /\ data'.ckpts[r] = data'.msgs /\ ~Unrecorded
        BY <1>6, <2>1, <4>2
      <4> QED BY <1>5, <4>1, <4>2
    <3> QED BY <1>6, <2>1, <3>1 DEF OpenIn
  <2>2. ASSUME OpenIn(data', now) PROVE OpenIn(disk', settled' \cup AnsweredIn(disk'))
    BY <2>2 DEF OpMove, Stores, SettledInv, now
  <2>3. \A c \in settled' : c.id <= issued'
    <3>1. \A c \in settled' : c \in Calls /\ c.id \in Int /\ c.id <= issued
      BY <1>2, <1>6, BoundsAssumption DEF now, TypeOK, Calls, CallIds
    <3> QED BY <1>0, <1>3, <3>1
  <2> QED BY <1>0, <2>1, <2>2, <2>3 DEF SettledInv, now
<1>10. \A a \in data.pending : a.call \notin known
  BY <1>7
<1>11. CASE Stops
  BY <1>10, <1>11 DEF Stops, Steady, Ends
<1>12. ASSUME ~Asks(data'.msgs) PROVE Requested(data'.msgs) \cap known = {}
  BY <1>12 DEF Requested
<1>13. CASE Records \/ TakesInput \/ Finishes
  <2>1. ~Asks(data'.msgs)
    <3>1. CASE Records
      BY <3>1 DEF Records, Silent, TailInv, Asks
    <3>2. CASE TakesInput
      BY <1>0, <3>2, AsksAppended DEF TakesInput, Says
    <3>3. CASE Finishes
      BY <1>0, <3>3, AsksCompacted DEF Finishes, TailInv
    <3> QED BY <1>13, <3>1, <3>2, <3>3
  <2>2. Steady /\ pc' # "tools" /\ UNCHANGED execs
    BY <1>13 DEF Records, TakesInput, Finishes, Ends
  <2> QED BY <1>10, <1>12, <2>1, <2>2 DEF Steady
<1>14. ASSUME NEW cs \in Seq(Calls), Decides(cs)
       PROVE  /\ Steady /\ UNCHANGED execs
              /\ Requested(data'.msgs) \cap known = {}
              /\ Asks(data'.msgs) => Distinct(Last(data'.msgs).calls)
              /\ pc' = "tools" =>
                   /\ ToSet(queue') \cap (now \cup AnswersOf(data'.msgs, cur)) = {}
                   /\ Distinct(queue')
  <2>1. Distinct(cs) /\ \A c \in ToSet(cs) : c \in Calls /\ issued < c.id
    BY <1>14 DEF Decides, Fresh, Distinct, ToSet
  <2>2. ToSet(cs) \cap known = {}
    <3>1. \A c \in Calls : c.id \in Int
      BY BoundsAssumption DEF Calls, CallIds
    <3> QED BY <1>0, <1>2, <2>1, <3>1
  <2>3. Last(data'.msgs).calls = cs
    BY <1>0, <1>14, AsksAppended DEF Decides, Says
  <2>4. AnswersOf(data'.msgs, cur) \subseteq known
    BY <1>0, <1>14, AnswersAppended DEF Decides, Says, known
  <2>5. pc' = "tools" => queue' = cs
    BY <1>14 DEF Decides, Ends
  <2> QED BY <1>6, <1>14, <2>1, <2>2, <2>3, <2>4, <2>5 DEF Decides, Requested
<1>15. pc = "tools" => ToSet(queue) \cap known = {} /\ Distinct(queue)
  BY DEF SettledInv, known, before
<1>16. ASSUME NEW c \in Calls, Pauses(c)
       PROVE  /\ \A a \in data'.pending : a.call \notin known
              /\ Requested(data'.msgs) \cap known = {}
              /\ Asks(data'.msgs) => Distinct(Last(data'.msgs).calls)
              /\ pc' = "idle" /\ UNCHANGED execs
  <2>1. c \in ToSet(queue) /\ pc = "tools"
    BY <1>0, <1>16, HeadOrTail DEF Pauses
  <2>2. \A a \in data'.pending : a.call \notin known
    BY <1>10, <1>15, <1>16, <2>1 DEF Pauses
  <2>3. Asks(data'.msgs) => Last(data'.msgs).calls = queue
    BY <1>16, <2>1 DEF Pauses, Silent, TailInv
  <2> QED BY <1>15, <1>16, <2>1, <2>2, <2>3 DEF Pauses, Ends, Requested
<1>17. ASSUME NEW c \in Calls, Answers(c)
       PROVE  /\ Unrecorded /\ Steady /\ \A e \in settled : execs'[e] = execs[e]
              /\ ToSet(queue') \cap (now \cup AnswersOf(data'.msgs, cur)) = {}
              /\ Distinct(queue')
  <2>1. /\ ToSet(queue) = {c} \cup ToSet(queue') /\ pc = "tools"
        /\ Distinct(queue') /\ c \notin ToSet(queue')
    BY <1>0, <1>15, <1>17, HeadOrTail, DistinctTail DEF Answers
  <2>2. AnswersOf(data'.msgs, cur) \subseteq known \cup {c}
    BY <1>0, <1>17, AnswersAppended DEF Answers, Says, known
  <2>3. \A e \in settled : e \in Calls \ {c}
    BY <1>0, <1>15, <2>1 DEF known, before
  <2> QED BY <1>6, <1>15, <1>17, <2>1, <2>2, <2>3 DEF Answers, OnlyExec
<1> QED BY <1>10, <1>11, <1>13, <1>14, <1>16, <1>17 DEF OpMove, Steady

LEMMA SettledCall ==
    ASSUME TypeOK, PauseInv, SettledInv, CallMove, NEW owner, OwnedBy(owner)
    PROVE  SettledInv' /\ \A c \in settled : execs'[c] = execs[c]
<1> DEFINE before == settled \cup AnsweredIn(data)
<1>0. issued' = issued /\ settled \subseteq Calls
  BY DEF CallMove, TypeOK
<1>1. Unrecorded => AnsweredIn(data') = AnsweredIn(data)
  BY DEF Unrecorded, AnsweredIn
<1>2. ASSUME Unrecorded, data'.pending \subseteq data.pending, disk' = disk, settled' = settled
      PROVE  /\ OpenIn(data', settled' \cup AnsweredIn(data'))
             /\ OpenIn(disk', settled' \cup AnsweredIn(disk'))
             /\ \A c \in settled' : c.id <= issued'
  BY <1>0, <1>1, <1>2 DEF SettledInv, OpenIn, Unrecorded
<1>3. CASE Begins
  BY <1>2, <1>3 DEF Begins, Steady, SettledInv
<1>4. ASSUME NEW a \in data.pending, Resumes(a)
      PROVE  SettledInv' /\ \A c \in settled : execs'[c] = execs[c]
  <2>1. a.call \notin settled
    BY DEF SettledInv, OpenIn
  <2>2. \A c \in settled : execs'[c] = execs[c]
    BY <1>0, <1>4, <2>1 DEF Resumes, OnlyExec
  <2> QED BY <1>2, <1>4, <2>2 DEF Resumes, SettledInv
<1>5. ASSUME NEW r \in RunIds, Restores(r)
      PROVE  SettledInv' /\ \A c \in settled : execs'[c] = execs[c]
  <2>1. pc' = "tools" =>
          /\ ToSet(queue') \cap (settled' \cup AnsweredIn(data') \cup AnswersOf(data'.msgs, cur')) = {}
          /\ Distinct(queue')
    <3> SUFFICES ASSUME pc' = "tools"
                 PROVE  /\ ToSet(queue') \cap (before \cup AnswersOf(data'.msgs, cur')) = {}
                        /\ Distinct(queue')
      BY <1>1, <1>5 DEF Restores
    <3>1. /\ Asks(data.ckpts[r]) /\ cur' = r /\ queue' = Last(data.ckpts[r]).calls
          /\ data'.msgs = data.ckpts[r]
      BY <1>5 DEF Restores, Ends
    <3>2. Requested(data.ckpts[r]) \cap before = {} /\ Distinct(queue')
      BY <3>1 DEF SettledInv, OpenIn
    <3>3. AnswersOf(data'.msgs, cur') \subseteq before
      BY <3>1, AnsweredByRuns
    <3> QED BY <3>1, <3>2, <3>3 DEF Requested
  <2> QED BY <1>2, <1>5, <2>1 DEF Restores, Steady, SettledInv
<1>6. CASE Refuses
  <2>1. pc' = "idle" /\ UNCHANGED <<data, disk, settled, execs>>
    BY <1>6 DEF Refuses, Ends
  <2> QED BY <1>0, <2>1 DEF SettledInv
<1>7. CASE Notes
  <2>1. OpenIn(data', before)
    BY <1>7 DEF Notes, Unrecorded, Steady, SettledInv, OpenIn
  <2>2. \A c \in AnsweredIn(data) : c.id <= issued
    BY AnsweredByRuns, AnswersOwned DEF OwnedBy, OwnedIn, CkptsOwned, Of
  <2>3. CASE disk' = disk /\ settled' = settled
    BY <1>2, <1>7, <2>3 DEF Notes, Steady, Ends, SettledInv
  <2>4. CASE disk' = data' /\ settled' = settled \cup AnsweredIn(data')
    <3>1. settled' = before /\ AnsweredIn(data') = AnsweredIn(data)
      BY <1>1, <1>7, <2>4 DEF Notes
    <3>2. pc' = "idle" /\ UNCHANGED execs
      BY <1>7 DEF Notes, Ends
    <3> QED BY <1>0, <2>1, <2>2, <2>4, <3>1, <3>2 DEF SettledInv
  <2> QED BY <1>7, <2>3, <2>4 DEF Notes, Stores
<1>8. CASE Drops
  <2>1. OpenIn(EmptyData, settled \cup AnsweredIn(EmptyData))
    BY DEF OpenIn, Requested, Asks, EmptyData
  <2> QED BY <1>0, <1>8, <2>1 DEF Drops, Ends, SettledInv
<1> QED BY <1>3, <1>4, <1>5, <1>6, <1>7, <1>8 DEF CallMove

LEMMA SettledStep ==
    ASSUME FreshIds, TypeOK, TypeOK', PauseInv, TailInv, TailInv', OwnerInv, SettledInv,
           [Next]_vars
    PROVE  SettledInv' /\ \A c \in settled : execs'[c] = execs[c]
<1>0. PICK owner \in Owners : OwnedBy(owner)
  BY DEF OwnerInv
<1>1. OpenIn(EmptyData, settled \cup AnsweredIn(EmptyData))
  BY DEF OpenIn, Requested, Asks, EmptyData
<1>2. CASE OpMove
  BY <1>0, <1>2, SettledOp
<1>3. CASE CallMove
  BY <1>0, <1>3, SettledCall
<1>4. CASE ProcessMove
  BY <1>1, <1>4 DEF ProcessMove, SettledInv
<1>5. CASE UNCHANGED vars
  BY <1>5 DEF vars, local, ids, ghosts, SettledInv
<1> QED BY <1>2, <1>3, <1>4, <1>5, Moves

(* If the provider issues no tool-call id twice, a call whose result or rejection is in a
   checkpoint of its run that reached the disk is never executed again: by no replay of
   ResumeRun, no second Resume, no crash, lost load or failed save in between
   (session.go, the checkpoints of runPrompt, resumeApproval and resumeRun). *)
THEOREM SettledStaysSettled ==
    ASSUME FreshIds
    PROVE  Spec => SettledNeverReruns
<1> DEFINE Inv == TailInv /\ OwnerInv /\ SettledInv
           Kept == \A c \in settled : execs'[c] = execs[c]
<1>1. Init => Inv
  <2> SUFFICES ASSUME Init PROVE Inv
    OBVIOUS
  <2>1. TailInv
    BY DEF Init, TailInv, ReplaysOwn, Asks, EmptyData
  <2>2. SettledInv
    BY DEF Init, SettledInv, OpenIn, Requested, Asks, EmptyData, AnsweredIn
  <2>3. OwnerInv
    <3>1. 1 \in RunIds
      BY BoundsAssumption DEF RunIds
    <3>2. [i \in CallIds |-> 1] \in Owners
      BY <3>1 DEF Owners
    <3>3. \A owner : OwnedBy(owner)
      BY DEF Init, OwnedBy, OwnedIn, CkptsOwned, MsgsOwned, EmptyData
    <3> QED BY <3>2, <3>3 DEF OwnerInv
  <2> QED BY <2>1, <2>2, <2>3
<1>2. TypeOK /\ PauseInv /\ TypeOK' /\ Inv /\ [Next]_vars => Inv' /\ [Kept]_vars
  BY TailStep, OwnerStep, SettledStep
<1> QED BY <1>1, <1>2, Invariance, PTL DEF Spec, SettledNeverReruns
=============================================================================
