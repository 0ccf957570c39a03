-------------------------- MODULE SessionRunsProofs --------------------------
(***************************************************************************)
(* Proofs about SessionRuns, for every value of its constants: the typing  *)
(* of the session data; that approvals and paused runs stand or fall       *)
(* together, in memory and on disk; that what was reported is stored; that *)
(* a session implements RunLifecycle; and when no run is forgotten.        *)
(* SessionCallsProofs goes on with the tool calls.                         *)
(***************************************************************************)
EXTENDS SessionRuns, SequenceTheorems, TLAPS

-----------------------------------------------------------------------------
(* The operators on session data keep its type. *)

LEMMA EmptyDataType == EmptyData \in SessionData
BY DEF EmptyData, SessionData, RunState, RunStatus

LEMMA MarkedType ==
    ASSUME NEW d \in SessionData, NEW r \in RunIds, NEW st \in RunStatus
    PROVE  Marked(d, r, st) \in SessionData
<1>1. d.runs \in [RunIds -> RunState]
  BY DEF SessionData
<1>2. [d.runs[r] EXCEPT !.status = st] \in RunState
  BY <1>1 DEF RunState
<1>3. [d.runs EXCEPT ![r] = [@ EXCEPT !.status = st]] \in [RunIds -> RunState]
  BY <1>1, <1>2
<1> QED BY <1>3 DEF Marked, SessionData

LEMMA CheckpointedType ==
    ASSUME NEW d \in SessionData, NEW r \in RunIds
    PROVE  Checkpointed(d, r) \in SessionData
BY DEF Checkpointed, SessionData

LEMMA Append1Type ==
    ASSUME NEW d \in SessionData, NEW m \in Message
    PROVE  Append1(d, m) \in SessionData
<1>1. Append(d.msgs, m) \in Seq(Message)
  BY DEF SessionData
<1> QED BY <1>1 DEF Append1, SessionData

LEMMA MsgType ==
    ASSUME NEW role \in {"user", "assistant", "tool", "system"},
           NEW r \in RunIds \cup {NoRun}, NEW cs \in Seq(Calls)
    PROVE  Msg(role, r, cs) \in Message
BY DEF Msg, Message

LEMMA AnswerType ==
    ASSUME NEW d \in SessionData, NEW r \in RunIds, NEW c \in Calls
    PROVE  Answer(d, r, c) \in SessionData
<1>1. Msg("tool", r, <<c>>) \in Message
  BY DEF Msg, Message
<1> QED BY <1>1, Append1Type DEF Answer

LEMMA PausedForType ==
    ASSUME NEW d \in SessionData, NEW r \in RunIds, NEW c \in Calls
    PROVE  PausedFor(d, r, c) \in SessionData
<1>1. [status |-> "paused", approval |-> c.id] \in RunState
  BY DEF RunState, RunStatus, Calls
<1>2. [run |-> r, call |-> c] \in Approval
  BY DEF Approval
<1> QED BY <1>1, <1>2 DEF PausedFor, SessionData

LEMMA CompactedTail ==
    ASSUME NEW d \in SessionData, NeedsCompaction(d)
    PROVE  /\ Keep \in 1..Len(d.msgs)
           /\ SubSeq(d.msgs, Len(d.msgs) - Keep + 1, Len(d.msgs)) \in Seq(Message)
<1>1. d.msgs \in Seq(Message)
  BY DEF SessionData
<1>2. Keep \in 1..Len(d.msgs)
  BY <1>1, BoundsAssumption DEF NeedsCompaction, Keep
<1>3. \A i \in (Len(d.msgs) - Keep + 1)..Len(d.msgs) : d.msgs[i] \in Message
  BY <1>1, <1>2
<1> QED BY <1>1, <1>2, <1>3, SubSeqProperties

LEMMA CompactedType ==
    ASSUME NEW d \in SessionData
    PROVE  Compacted(d) \in SessionData
<1>1. CASE ~NeedsCompaction(d)
  BY <1>1 DEF Compacted
<1>2. CASE NeedsCompaction(d)
  <2>1. SubSeq(d.msgs, Len(d.msgs) - Keep + 1, Len(d.msgs)) \in Seq(Message)
    BY <1>2, CompactedTail
  <2>2. <<Msg("system", NoRun, <<>>)>> \in Seq(Message)
    BY DEF Msg, Message
  <2>3. <<Msg("system", NoRun, <<>>)>>
           \o SubSeq(d.msgs, Len(d.msgs) - Keep + 1, Len(d.msgs)) \in Seq(Message)
    BY <2>1, <2>2
  <2> QED BY <1>2, <2>3 DEF Compacted, SessionData
<1> QED BY <1>1, <1>2

LEMMA NoCallsType == <<>> \in Seq(Calls)
OBVIOUS

LEMMA TallyType ==
    ASSUME NEW f \in [Calls -> Nat], NEW c \in Calls
    PROVE  [f EXCEPT ![c] = @ + 1] \in [Calls -> Nat]
OBVIOUS

LEMMA SavedType ==
    ASSUME TypeOK, data' \in SessionData,
           TrySave(data') \/ Persist(data') \/ SaveFails \/ Unsaved
    PROVE  disk' \in SessionData /\ settled' \subseteq Calls
BY DEF TypeOK, TrySave, Persist, SaveFails, Unsaved, AnsweredIn

-----------------------------------------------------------------------------
(* Type correctness is preserved by every action. *)

LEMMA InitType == Init => TypeOK
<1> SUFFICES ASSUME Init PROVE TypeOK
  OBVIOUS
<1> QED BY EmptyDataType, BoundsAssumption DEF Init, TypeOK, NoRun

(* Returning resets the control state, whatever else the step does. *)
LEMMA ReturnType ==
    ASSUME NEW r \in {"ok", "error", "approval"}, TypeOK, Return(r)
    PROVE  /\ pc' = "idle" /\ reply' \in {"none", "ok", "error", "approval"}
           /\ cur' = cur /\ mode' = "prompt" /\ turn' = 0 /\ turn' \in 0..MaxTurns
           /\ queue' \in Seq(Calls) /\ tools' \subseteq AgentTools \cup CallTools
BY BoundsAssumption DEF Return

LEMMA ProcessType ==
    ASSUME TypeOK, LoadSession \/ Crash
    PROVE  TypeOK'
<1>1. CASE LoadSession
  BY <1>1, EmptyDataType DEF LoadSession, TypeOK, Goto, local, ids, ghosts
<1>2. CASE Crash
  BY <1>2, EmptyDataType, BoundsAssumption DEF Crash, TypeOK, NoRun, ids, ghosts
<1> QED BY <1>1, <1>2

LEMMA CallType ==
    ASSUME TypeOK, Control, CallStep
    PROVE  TypeOK'
<1> USE BoundsAssumption
<1>0. pc = "idle" => turn = 0
  BY DEF Control, Busy
<1>1. CASE Prompt
  <2>1. nruns + 1 \in RunIds
    BY <1>1 DEF Prompt, TypeOK, RunIds
  <2>2. data' \in SessionData
    BY <1>1, <2>1, MarkedType DEF Prompt, TypeOK, RunStatus
  <2> QED BY <1>1, <2>1, <2>2
        DEF Prompt, Called, TypeOK, Goto, RunIds, ghosts
<1>2. ASSUME NEW a \in data.pending, NEW t \in {{}, CallTools},
             NEW decision \in {"approve", "reject"}, ResumeWith(a, t, decision)
      PROVE  TypeOK'
  <2> DEFINE taken == [Marked(data, a.run, "running") EXCEPT !.pending = @ \ {a}]
  <2>1. a.run \in RunIds /\ a.call \in Calls
    BY DEF TypeOK, SessionData, Approval
  <2>2. taken \in SessionData
    BY <2>1, MarkedType DEF TypeOK, SessionData, RunStatus
  <2>3. data' \in SessionData
    BY <1>2, <2>1, <2>2, AnswerType DEF ResumeWith
  <2>4. execs' \in [Calls -> Nat] /\ approved' \in [Calls -> Nat]
    <3>1. execs \in [Calls -> Nat] /\ approved \in [Calls -> Nat]
      BY DEF TypeOK
    <3>2. /\ [execs EXCEPT ![a.call] = @ + 1] \in [Calls -> Nat]
          /\ [approved EXCEPT ![a.call] = @ + 1] \in [Calls -> Nat]
      BY <2>1, <3>1, TallyType
    <3> QED BY <1>2, <3>1, <3>2 DEF ResumeWith
  <2>5. /\ ops \in Nat /\ ops < MaxOps /\ ops' = ops + 1
        /\ tools' \subseteq AgentTools \cup CallTools
        /\ cur' = a.run /\ mode' = "continue" /\ pc' = "resumed"
        /\ UNCHANGED <<disk, settled, reply, turn, queue, nruns, issued>>
    BY <1>2 DEF ResumeWith, Called, TypeOK, Goto, Unsaved, ids
  <2> QED BY <2>1, <2>3, <2>4, <2>5 DEF TypeOK
<1>3. CASE ResumeRefused
  BY <1>3, ReturnType DEF ResumeRefused, Called, TypeOK, ids, ghosts
<1>4. CASE Shell
  <2>1. data' \in SessionData
    <3>1. Msg("tool", NoRun, <<>>) \in Message
      BY DEF Msg, Message
    <3> QED BY <1>4, <3>1, Append1Type DEF Shell, TypeOK
  <2>2. disk' \in SessionData /\ settled' \subseteq Calls
    BY <1>4, <2>1, SavedType DEF Shell
  <2> QED BY <1>4, <2>1, <2>2, ReturnType DEF Shell, Called, TypeOK, ids
<1>5. CASE Delete
  BY <1>5, EmptyDataType, ReturnType DEF Delete, Called, TypeOK, ids, ghosts
<1>6. ASSUME NEW r \in RunIds, ResumeRun(r)
      PROVE  TypeOK'
  <2> DEFINE restored == data.ckpts[r]
  <2>1. restored \in Seq(Message) /\ restored # <<>>
    BY <1>6 DEF ResumeRun, TypeOK, SessionData
  <2>2. Last(restored) \in Message
    BY <2>1 DEF Last
  <2>3. Last(restored).calls \in Seq(Calls)
    BY <2>2 DEF Message
  <2>4. data' \in SessionData
    BY <1>6, <2>1, MarkedType DEF ResumeRun, TypeOK, SessionData, RunStatus
  <2>5. /\ ops \in Nat /\ ops < MaxOps /\ ops' = ops + 1
        /\ UNCHANGED <<disk, nruns, issued, execs, approved, settled>>
    BY <1>6 DEF ResumeRun, Called, TypeOK, ids, ghosts
  <2>6. CASE Return("error")
    BY <2>4, <2>5, <2>6, ReturnType DEF TypeOK
  <2>7. CASE ~Return("error")
    <3>1. /\ cur' = r /\ tools' \subseteq AgentTools \cup CallTools
          /\ mode' \in {"replay", "continue"} /\ pc' \in {"tools", "model"}
          /\ queue' = Last(restored).calls \/ queue' = <<>>
          /\ UNCHANGED <<turn, reply>>
      BY <1>6, <2>7 DEF ResumeRun, Goto
    <3> HIDE DEF restored
    <3>2. queue' \in Seq(Calls)
      BY <2>3, <3>1, NoCallsType
    <3> QED BY <1>6, <2>4, <2>5, <3>1, <3>2 DEF TypeOK
  <2> QED BY <2>6, <2>7
<1>7. ASSUME NEW r \in RunIds, ResumeRunRefused(r)
      PROVE  TypeOK'
  BY <1>7, ReturnType DEF ResumeRunRefused, Called, TypeOK, ids, ghosts
<1> QED BY <1>1, <1>2, <1>3, <1>4, <1>5, <1>6, <1>7 DEF CallStep, Resume

(* A step that ends the operation, or moves on within it, is well typed if what
   it does to the session data is. *)
LEMMA EndType ==
    ASSUME TypeOK, data' \in SessionData,
           TrySave(data') \/ Persist(data') \/ SaveFails \/ Unsaved,
           NEW r \in {"ok", "error", "approval"}, Return(r),
           UNCHANGED <<ops, nruns, execs, approved>>, issued' \in 0..MaxCalls
    PROVE  TypeOK'
<1>1. disk' \in SessionData /\ settled' \subseteq Calls
  BY SavedType
<1> QED BY <1>1, ReturnType DEF TypeOK

LEMMA OnType ==
    ASSUME TypeOK, data' \in SessionData,
           TrySave(data') \/ Persist(data') \/ SaveFails \/ Unsaved,
           NEW p \in {"model", "output", "tools"}, Goto(p),
           mode' \in {"prompt", "replay", "continue"}, turn' \in 0..MaxTurns,
           queue' \in Seq(Calls),
           UNCHANGED <<cur, tools, ops, nruns>>, issued' \in 0..MaxCalls,
           execs' \in [Calls -> Nat], approved' \in [Calls -> Nat]
    PROVE  TypeOK'
<1>1. disk' \in SessionData /\ settled' \subseteq Calls
  BY SavedType
<1> QED BY <1>1 DEF TypeOK, Goto

LEMMA FailType ==
    ASSUME TypeOK, cur \in RunIds
    PROVE  /\ Marked(data, cur, "failed") \in SessionData
           /\ Checkpointed(Marked(data, cur, "failed"), cur) \in SessionData
           /\ Checkpointed(data, cur) \in SessionData
<1>1. Marked(data, cur, "failed") \in SessionData
  BY MarkedType DEF TypeOK, RunStatus
<1> QED BY <1>1, CheckpointedType DEF TypeOK

LEMMA InputType ==
    ASSUME TypeOK, Control, InputBlocked \/ InputAllowed
    PROVE  TypeOK'
<1>0. pc = "input" => cur \in RunIds
  BY DEF Control, Busy
<1>1. CASE InputBlocked
  BY <1>0, <1>1, FailType, EndType DEF InputBlocked, InOp, TypeOK, ids
<1>2. CASE InputAllowed
  <2>1. cur \in RunIds
    BY <1>0, <1>2 DEF InputAllowed, InOp
  <2>2. Msg("user", cur, <<>>) \in Message
    BY <2>1 DEF Msg, Message
  <2>3. data' \in SessionData
    BY <1>2, <2>1, <2>2, Append1Type, CheckpointedType DEF InputAllowed, TypeOK
  <2>4. /\ UNCHANGED <<ops, nruns, issued, execs, approved>>
        /\ issued \in 0..MaxCalls
        /\ execs \in [Calls -> Nat] /\ approved \in [Calls -> Nat]
        /\ mode \in {"prompt", "replay", "continue"} /\ turn \in 0..MaxTurns
        /\ queue \in Seq(Calls)
    BY <1>2 DEF InputAllowed, InOp, ids, TypeOK
  <2>5. CASE Persist(data') /\ Goto("model") /\ UNCHANGED local
    BY <2>3, <2>4, <2>5, OnType DEF local
  <2>6. CASE (Persist(data') \/ SaveFails) /\ Return("error")
    BY <2>3, <2>4, <2>6, EndType
  <2> QED BY <1>2, <2>5, <2>6 DEF InputAllowed
<1> QED BY <1>1, <1>2

LEMMA DecisionType ==
    ASSUME TypeOK, Control, NEW cs \in Seq(Calls), ModelDecides(cs),
           issued' \in 0..MaxCalls
    PROVE  TypeOK'
<1>1. cur \in RunIds /\ turn \in 0..MaxTurns
  BY DEF Control, Busy, ModelDecides, InOp, TypeOK
<1> DEFINE said == Append1(data, Msg("assistant", cur, cs))
           next == IF cs = <<>> THEN "output" ELSE "tools"
<1>2. Msg("assistant", cur, cs) \in Message
  BY <1>1, MsgType
<1>3. said \in SessionData /\ Checkpointed(said, cur) \in SessionData
  BY <1>1, <1>2, Append1Type, CheckpointedType DEF TypeOK
<1>4. /\ UNCHANGED <<ops, nruns, execs, approved>>
      /\ execs \in [Calls -> Nat] /\ approved \in [Calls -> Nat]
      /\ mode \in {"prompt", "replay", "continue"}
  BY DEF ModelDecides, InOp, TypeOK
<1>5. /\ data' = Checkpointed(said, cur) \/ data' = said
      /\ \/ /\ Persist(data') \/ Unsaved
            /\ Goto(next) /\ queue' = cs /\ UNCHANGED <<cur, mode, turn, tools>>
         \/ SaveFails /\ Return("error")
  BY DEF ModelDecides
<1> HIDE DEF said
<1>6. data' \in SessionData
  BY <1>3, <1>5
<1>7. CASE SaveFails /\ Return("error")
  BY <1>4, <1>6, <1>7, EndType
<1>8. CASE /\ Persist(data') \/ Unsaved
           /\ Goto(next) /\ queue' = cs /\ UNCHANGED <<cur, mode, turn, tools>>
  <2>1. next \in {"model", "output", "tools"}
    OBVIOUS
  <2> HIDE DEF next
  <2> QED BY <1>1, <1>4, <1>6, <1>8, <2>1, OnType
<1> QED BY <1>5, <1>7, <1>8

LEMMA ModelType ==
    ASSUME TypeOK, Control, ModelFails \/ ModelAnswers \/ ModelCallsTools \/ TurnsExceeded
    PROVE  TypeOK'
<1>0. pc = "model" => cur \in RunIds
  BY DEF Control, Busy
<1>1. CASE ModelFails
  BY <1>0, <1>1, FailType, EndType DEF ModelFails, InOp, TypeOK, ids
<1>2. CASE ModelAnswers
  BY <1>2, DecisionType, NoCallsType DEF ModelAnswers, TypeOK
<1>3. CASE ModelCallsTools
  <2> DEFINE first == IF FreshIds THEN issued ELSE 0
  <2>0. PICK n \in 1..MaxBatch : \E names \in [1..n -> Names] :
          /\ first + n <= MaxCalls
          /\ issued' = IF FreshIds THEN issued + n ELSE issued
          /\ ModelDecides([i \in 1..n |-> [id |-> first + i, name |-> names[i]]])
    BY <1>3 DEF ModelCallsTools
  <2>1. PICK names \in [1..n -> Names] :
          /\ first + n <= MaxCalls
          /\ issued' = IF FreshIds THEN issued + n ELSE issued
          /\ ModelDecides([i \in 1..n |-> [id |-> first + i, name |-> names[i]]])
    BY <2>0
  <2>2. issued' \in 0..MaxCalls /\ first \in Nat
    BY <2>1, BoundsAssumption DEF TypeOK
  <2>3. [i \in 1..n |-> [id |-> first + i, name |-> names[i]]] \in Seq(Calls)
    <3>1. \A i \in 1..n : [id |-> first + i, name |-> names[i]] \in Calls
      BY <2>1, <2>2, BoundsAssumption DEF Calls, CallIds
    <3> QED BY <3>1, BoundsAssumption
  <2> QED BY <2>1, <2>2, <2>3, DecisionType
<1>4. CASE TurnsExceeded
  BY <1>0, <1>4, FailType, EndType DEF TurnsExceeded, InOp, TypeOK, ids
<1> QED BY <1>1, <1>2, <1>3, <1>4

LEMMA OutputType ==
    ASSUME TypeOK, Control, OutputBlocked \/ OutputAllowed \/ CompactionFails
    PROVE  TypeOK'
<1>0. pc = "output" => cur \in RunIds
  BY DEF Control, Busy
<1>1. CASE OutputBlocked
  BY <1>0, <1>1, FailType, EndType DEF OutputBlocked, InOp, TypeOK, ids
<1>2. CASE OutputAllowed
  <2> DEFINE kept == IF mode = "prompt" THEN Compacted(data) ELSE data
  <2>1. kept \in SessionData
    BY CompactedType DEF TypeOK
  <2>2. cur \in RunIds
    BY <1>0, <1>2 DEF OutputAllowed, InOp
  <2>3. data' = Checkpointed(Marked(kept, cur, "completed"), cur)
    BY <1>2 DEF OutputAllowed
  <2> HIDE DEF kept
  <2>4. data' \in SessionData
    BY <2>1, <2>2, <2>3, MarkedType, CheckpointedType DEF RunStatus
  <2> QED BY <1>2, <2>4, EndType DEF OutputAllowed, InOp, TypeOK, ids
<1>3. CASE CompactionFails
  BY <1>3, EndType DEF CompactionFails, InOp, TypeOK, ids
<1> QED BY <1>1, <1>2, <1>3

LEMMA ToolType ==
    ASSUME TypeOK, Control, ToolStep
    PROVE  TypeOK'
<1>0. pc = "tools" => cur \in RunIds /\ turn < MaxTurns
  BY DEF Control, Busy
<1>1. ASSUME NEW c \in Calls, UnknownTool(c)
      PROVE  TypeOK'
  <2>1. data' \in SessionData
    BY <1>0, <1>1, FailType DEF UnknownTool, AtCall, InOp, TypeOK
  <2> QED BY <1>1, <2>1, EndType DEF UnknownTool, AtCall, InOp, TypeOK, ids
<1>2. ASSUME NEW c \in Calls, ToolBlocked(c)
      PROVE  TypeOK'
  BY <1>0, <1>2, FailType, EndType DEF ToolBlocked, AtCall, InOp, TypeOK, ids
<1>3. ASSUME NEW c \in Calls, PolicyFails(c)
      PROVE  TypeOK'
  BY <1>0, <1>3, FailType, EndType DEF PolicyFails, NeedsDecision, AtCall, InOp, TypeOK, ids
<1>4. ASSUME NEW c \in Calls, PauseForApproval(c)
      PROVE  TypeOK'
  <2>1. data' \in SessionData
    BY <1>0, <1>4, PausedForType, CheckpointedType
       DEF PauseForApproval, NeedsDecision, AtCall, InOp, TypeOK
  <2> QED BY <1>4, <2>1, EndType
       DEF PauseForApproval, NeedsDecision, AtCall, InOp, TypeOK, ids
<1>5. ASSUME NEW c \in Calls, PolicyRejects(c) \/ Execute(c)
      PROVE  TypeOK'
  <2>1. cur \in RunIds /\ queue # <<>>
    BY <1>0, <1>5 DEF PolicyRejects, Execute, NeedsDecision, AtCall, InOp
  <2>2. data' = Answer(data, cur, c) /\ NextCall
    BY <1>5 DEF PolicyRejects, Execute
  <2>3. data' \in SessionData
    BY <1>5, <2>1, <2>2, AnswerType DEF TypeOK
  <2>4. Tail(queue) \in Seq(Calls)
    BY <2>1 DEF TypeOK
  <2>5. execs' \in [Calls -> Nat] /\ approved' \in [Calls -> Nat]
    <3>1. execs \in [Calls -> Nat] /\ approved \in [Calls -> Nat]
      BY DEF TypeOK
    <3>2. /\ [execs EXCEPT ![c] = @ + 1] \in [Calls -> Nat]
          /\ [approved EXCEPT ![c] = @ + 1] \in [Calls -> Nat]
      BY <1>5, <3>1, TallyType
    <3> QED BY <1>5, <3>1, <3>2 DEF PolicyRejects, Execute
  <2>6. UNCHANGED ops
    BY <1>5 DEF PolicyRejects, Execute, NeedsDecision, AtCall, InOp
  <2> QED BY <2>2, <2>3, <2>4, <2>5, <2>6, OnType DEF NextCall, TypeOK, ids
<1>6. CASE ToolsDone
  <2>1. data' \in SessionData
    BY <1>0, <1>6, FailType DEF ToolsDone, InOp
  <2>2. CASE SaveFails /\ Return("error")
    BY <1>6, <2>1, <2>2, EndType DEF ToolsDone, InOp, TypeOK, ids
  <2>3. CASE ~(SaveFails /\ Return("error"))
    <3>1. /\ Persist(data') /\ Goto("model")
          /\ mode' \in {"prompt", "replay", "continue"}
          /\ turn' = IF mode = "replay" THEN 0 ELSE turn + 1
          /\ UNCHANGED <<cur, queue, tools, ops, nruns, issued, execs, approved>>
      BY <1>6, <2>3 DEF ToolsDone, InOp, TypeOK, ids
    <3>2. turn' \in 0..MaxTurns
      BY <1>0, <1>6, <3>1, BoundsAssumption DEF ToolsDone, InOp, TypeOK
    <3> QED BY <2>1, <3>1, <3>2, OnType DEF TypeOK
  <2> QED BY <2>2, <2>3
<1> QED BY <1>1, <1>2, <1>3, <1>4, <1>5, <1>6 DEF ToolStep

LEMMA ResumeSavedType ==
    ASSUME TypeOK, Control, ResumeSaved
    PROVE  TypeOK'
<1>1. data' \in SessionData
  BY FailType DEF ResumeSaved, InOp, Control, Busy
<1>2. CASE SaveFails /\ Return("error")
  BY <1>1, <1>2, EndType DEF ResumeSaved, InOp, TypeOK, ids
<1>3. CASE Persist(data') /\ Goto("model") /\ UNCHANGED local
  BY <1>1, <1>3, OnType DEF ResumeSaved, InOp, TypeOK, ids, local
<1> QED BY <1>2, <1>3 DEF ResumeSaved

LEMMA NextType ==
    ASSUME TypeOK, Control, [Next]_vars
    PROVE  TypeOK'
<1>1. CASE UNCHANGED vars
  BY <1>1 DEF vars, local, ids, ghosts, TypeOK
<1>2. CASE OpStep
  BY <1>2, InputType, ModelType, OutputType, ToolType, ResumeSavedType DEF OpStep
<1> QED BY <1>1, <1>2, ProcessType, CallType DEF Next

-----------------------------------------------------------------------------
(* What the operators on session data do to the runs and their approvals. *)

SameRuns(d, e) == e.runs = d.runs /\ e.pending = d.pending

LEMMA SameRunsCoherent ==
    ASSUME NEW d, NEW e, SameRuns(d, e), Coherent(d)
    PROVE  Coherent(e)
BY DEF SameRuns, Coherent, IsPendingOf

LEMMA MessagesKeepRuns ==
    ASSUME NEW d \in SessionData, NEW r \in RunIds, NEW c, NEW m
    PROVE  /\ SameRuns(d, Append1(d, m)) /\ SameRuns(d, Answer(d, r, c))
           /\ SameRuns(d, Checkpointed(d, r)) /\ SameRuns(d, Compacted(d))
BY DEF SameRuns, Append1, Answer, Checkpointed, Compacted, SessionData

LEMMA MarkedRuns ==
    ASSUME NEW d \in SessionData, NEW r \in RunIds, NEW st \in RunStatus
    PROVE  /\ Marked(d, r, st).pending = d.pending
           /\ Marked(d, r, st).runs[r] = [status |-> st, approval |-> d.runs[r].approval]
           /\ \A s \in RunIds \ {r} : Marked(d, r, st).runs[s] = d.runs[s]
<1>1. d.runs \in [RunIds -> RunState] /\ d.runs[r] \in RunState
  BY DEF SessionData
<1>2. Marked(d, r, st).runs = [d.runs EXCEPT ![r] = [@ EXCEPT !.status = st]]
  BY DEF Marked, SessionData
<1>3. [d.runs[r] EXCEPT !.status = st] = [status |-> st, approval |-> d.runs[r].approval]
  BY <1>1 DEF RunState
<1>4. Marked(d, r, st).pending = d.pending
  BY DEF Marked, SessionData
<1> QED BY <1>1, <1>2, <1>3, <1>4

LEMMA PausedForRuns ==
    ASSUME NEW d \in SessionData, NEW r \in RunIds, NEW c \in Calls
    PROVE  /\ \A a : a \in PausedFor(d, r, c).pending <=>
                  \/ a \in d.pending /\ (a.run # r \/ a.call.id # c.id)
                  \/ a = [run |-> r, call |-> c]
           /\ PausedFor(d, r, c).runs[r] = [status |-> "paused", approval |-> c.id]
           /\ \A s \in RunIds \ {r} : PausedFor(d, r, c).runs[s] = d.runs[s]
BY DEF PausedFor, SessionData

LEMMA PendingIsPaused ==
    ASSUME NEW d \in SessionData, Coherent(d), NEW a \in d.pending
    PROVE  a.run \in RunIds /\ a.call \in Calls /\ d.runs[a.run].status = "paused"
<1>1. a \in Approval
  BY DEF SessionData
<1>2. d.runs[a.run] = [status |-> "paused", approval |-> a.call.id]
  BY DEF Coherent
<1> QED BY <1>1, <1>2 DEF Approval

(* A run that is not paused has no pending approval: no such run's status
   change can separate a pause from its request. *)
LEMMA MarkedCoherent ==
    ASSUME NEW d \in SessionData, NEW r \in RunIds, NEW st \in RunStatus \ {"paused"},
           Coherent(d), d.runs[r].status # "paused"
    PROVE  Coherent(Marked(d, r, st))
<1> DEFINE e == Marked(d, r, st)
<1>1. \A a \in d.pending : a.run \in RunIds /\ a.run # r
  BY PendingIsPaused
<1>2. /\ e.pending = d.pending
      /\ e.runs[r] = [status |-> st, approval |-> d.runs[r].approval]
      /\ \A s \in RunIds \ {r} : e.runs[s] = d.runs[s]
  <2>1. st \in RunStatus
    OBVIOUS
  <2> QED BY <2>1, MarkedRuns
<1>3. e.pending = d.pending /\ e.runs[r].status = st
  BY <1>2
<1> HIDE DEF e
<1>4. \A s \in RunIds : e.runs[s].status = "paused" => s # r /\ IsPendingOf(d, s)
  BY <1>2, <1>3 DEF Coherent
<1>5. \A s \in RunIds : e.runs[s].status = "paused" => IsPendingOf(e, s)
  BY <1>2, <1>3, <1>4 DEF IsPendingOf
<1>6. \A a \in e.pending : e.runs[a.run] = [status |-> "paused", approval |-> a.call.id]
  BY <1>1, <1>2, <1>3 DEF Coherent
<1>7. \A a, b \in e.pending : a.run = b.run => a = b
  BY <1>3 DEF Coherent
<1>8. Coherent(e)
  BY <1>5, <1>6, <1>7 DEF Coherent
<1> QED BY <1>8 DEF e

LEMMA PausedForCoherent ==
    ASSUME NEW d \in SessionData, NEW r \in RunIds, NEW c \in Calls,
           Coherent(d), d.runs[r].status # "paused"
    PROVE  Coherent(PausedFor(d, r, c))
<1> DEFINE e == PausedFor(d, r, c)
           new == [run |-> r, call |-> c]
<1>1. \A a \in d.pending : a.run \in RunIds /\ a.run # r
  BY PendingIsPaused
<1>p. /\ \A a : a \in e.pending <=> \/ a \in d.pending /\ (a.run # r \/ a.call.id # c.id)
                                   \/ a = new
      /\ e.runs[r] = [status |-> "paused", approval |-> c.id]
      /\ \A s \in RunIds \ {r} : e.runs[s] = d.runs[s]
  BY PausedForRuns
<1>2. e.pending = d.pending \cup {new}
  <2> HIDE DEF e, new
  <2> QED BY <1>1, <1>p
<1>3. e.runs[r] = [status |-> "paused", approval |-> c.id]
  BY <1>p
<1>4. \A s \in RunIds \ {r} : e.runs[s] = d.runs[s]
  BY <1>p
<1>5. new.run = r /\ new.call = c
  OBVIOUS
<1> HIDE DEF e, new
<1>6. \A a \in e.pending : e.runs[a.run] = [status |-> "paused", approval |-> a.call.id]
  BY <1>1, <1>2, <1>3, <1>4, <1>5 DEF Coherent
<1>7. \A s \in RunIds : e.runs[s].status = "paused" => IsPendingOf(e, s)
  BY <1>2, <1>3, <1>4, <1>5 DEF Coherent, IsPendingOf
<1>8. \A a, b \in e.pending : a.run = b.run => a = b
  BY <1>1, <1>2, <1>5 DEF Coherent
<1>9. Coherent(e)
  BY <1>6, <1>7, <1>8 DEF Coherent
<1> QED BY <1>9 DEF e

(* Resume takes the request and un-pauses its run in one step. *)
LEMMA TakenCoherent ==
    ASSUME NEW d \in SessionData, Coherent(d), NEW a \in d.pending
    PROVE  Coherent([Marked(d, a.run, "running") EXCEPT !.pending = @ \ {a}])
<1> DEFINE m == Marked(d, a.run, "running")
           e == [m EXCEPT !.pending = @ \ {a}]
<1>1. a.run \in RunIds /\ "running" \in RunStatus
  BY PendingIsPaused DEF RunStatus
<1>2. m \in SessionData
  BY <1>1, MarkedType
<1>3. /\ m.pending = d.pending
      /\ m.runs[a.run] = [status |-> "running", approval |-> d.runs[a.run].approval]
      /\ \A s \in RunIds \ {a.run} : m.runs[s] = d.runs[s]
  BY <1>1, MarkedRuns
<1> HIDE DEF m
<1>4. e.pending = d.pending \ {a} /\ e.runs = m.runs
  BY <1>2, <1>3 DEF SessionData
<1> HIDE DEF e
<1>5. \A b \in e.pending : b.run \in RunIds /\ b.run # a.run
  BY <1>4, PendingIsPaused DEF Coherent
<1>6. \A b \in e.pending : e.runs[b.run] = [status |-> "paused", approval |-> b.call.id]
  BY <1>3, <1>4, <1>5 DEF Coherent
<1>7. ASSUME NEW s \in RunIds, e.runs[s].status = "paused"
      PROVE  IsPendingOf(e, s)
  <2>1. s # a.run /\ e.runs[s] = d.runs[s]
    BY <1>3, <1>4, <1>7
  <2>2. IsPendingOf(d, s)
    BY <1>7, <2>1 DEF Coherent
  <2> QED BY <1>4, <2>1, <2>2 DEF IsPendingOf
<1>8. \A b, c \in e.pending : b.run = c.run => b = c
  BY <1>4 DEF Coherent
<1>9. Coherent(e)
  BY <1>6, <1>7, <1>8 DEF Coherent
<1> QED BY <1>9 DEF e, m

LEMMA EmptyCoherent == Coherent(EmptyData)
BY DEF Coherent, EmptyData

-----------------------------------------------------------------------------
(* PauseInv is inductive. *)

LEMMA BusyRun ==
    ASSUME TypeOK, PauseInv, Busy
    PROVE  /\ cur \in RunIds /\ cur <= nruns
           /\ data.runs[cur].status = "running" /\ data.runs[cur].status # "paused"
<1>1. cur \in RunIds /\ data.runs[cur].status = "running"
  BY DEF PauseInv, Control
<1>2. ~(cur > nruns)
  BY <1>1 DEF PauseInv, Unused
<1> QED BY <1>1, <1>2, BoundsAssumption DEF TypeOK, RunIds

LEMMA MarkedUnused ==
    ASSUME NEW d \in SessionData, NEW n \in Nat, Unused(d, n),
           NEW r \in RunIds, r <= n, NEW st \in RunStatus
    PROVE  Unused(Marked(d, r, st), n)
<1>1. \A s \in RunIds : s > n => s \in RunIds \ {r}
  BY BoundsAssumption DEF RunIds
<1>2. \A s \in RunIds \ {r} : Marked(d, r, st).runs[s] = d.runs[s]
  BY MarkedRuns
<1> QED BY <1>1, <1>2 DEF Unused

LEMMA PausedForUnused ==
    ASSUME NEW d \in SessionData, NEW n \in Nat, Unused(d, n),
           NEW r \in RunIds, r <= n, NEW c \in Calls
    PROVE  Unused(PausedFor(d, r, c), n)
<1>1. \A s \in RunIds : s > n => s \in RunIds \ {r}
  BY BoundsAssumption DEF RunIds
<1>2. \A s \in RunIds \ {r} : PausedFor(d, r, c).runs[s] = d.runs[s]
  BY DEF PausedFor, SessionData
<1> QED BY <1>1, <1>2 DEF Unused

LEMMA SameRunsUnused ==
    ASSUME NEW d, NEW e, NEW n, SameRuns(d, e), Unused(d, n)
    PROVE  Unused(e, n)
BY DEF SameRuns, Unused

(* Each kind of step, by what it does to the runs. *)
LEMMA FailInv ==
    ASSUME TypeOK, PauseInv, Busy, NEW st \in {"failed", "completed", "running"}
    PROVE  /\ Coherent(Marked(data, cur, st)) /\ Unused(Marked(data, cur, st), nruns)
           /\ Marked(data, cur, st) \in SessionData
<1>1. st \in RunStatus \ {"paused"} /\ st \in RunStatus
  BY DEF RunStatus
<1>2. Coherent(data) /\ Unused(data, nruns) /\ data \in SessionData /\ nruns \in Nat
  BY BoundsAssumption DEF PauseInv, PausedMeansPending, TypeOK
<1> QED BY <1>1, <1>2, BusyRun, MarkedCoherent, MarkedUnused, MarkedType

LEMMA KeepInv ==
    ASSUME TypeOK, PauseInv, NEW e, SameRuns(data, e)
    PROVE  Coherent(e) /\ Unused(e, nruns) /\ e.runs = data.runs
<1>1. Coherent(data) /\ Unused(data, nruns)
  BY DEF PauseInv, PausedMeansPending
<1> QED BY <1>1, SameRunsCoherent, SameRunsUnused DEF SameRuns

LEMMA DiskInv ==
    ASSUME PauseInv, Coherent(data'), Unused(data', nruns), nruns' = nruns,
           TrySave(data') \/ Persist(data') \/ SaveFails \/ Unsaved
    PROVE  PausedMeansPending' /\ Unused(data', nruns') /\ Unused(disk', nruns')
BY DEF PauseInv, PausedMeansPending, TrySave, Persist, SaveFails, Unsaved

LEMMA EndInv ==
    ASSUME PauseInv, Coherent(data'), Unused(data', nruns), nruns' = nruns,
           TrySave(data') \/ Persist(data') \/ SaveFails \/ Unsaved,
           NEW r, Return(r)
    PROVE  PauseInv'
BY DiskInv DEF PauseInv, Control, Busy, Return

LEMMA OnInv ==
    ASSUME TypeOK, PauseInv, Busy, Coherent(data'), Unused(data', nruns), nruns' = nruns,
           TrySave(data') \/ Persist(data') \/ SaveFails \/ Unsaved,
           data'.runs = data.runs, cur' = cur,
           NEW p \in {"model", "output", "tools"}, Goto(p),
           p \in {"output", "tools"} => turn' < MaxTurns
    PROVE  PauseInv'
BY DiskInv, BusyRun DEF PauseInv, Control, Busy, Goto

LEMMA InitInv == Init => PauseInv
BY EmptyCoherent, BoundsAssumption
   DEF Init, PauseInv, PausedMeansPending, Unused, EmptyData, Control, Busy

LEMMA ProcessInv ==
    ASSUME PauseInv, LoadSession \/ Crash
    PROVE  PauseInv'
<1>1. Unused(EmptyData, nruns)
  BY DEF Unused, EmptyData
<1>2. CASE LoadSession
  BY <1>1, <1>2, EmptyCoherent
     DEF LoadSession, PauseInv, PausedMeansPending, Control, Busy, Goto, local, ids
<1>3. CASE Crash
  BY <1>1, <1>3, EmptyCoherent
     DEF Crash, PauseInv, PausedMeansPending, Control, Busy, ids
<1> QED BY <1>2, <1>3

(* The calls of a model that asks for tools. *)
LEMMA DecidedCalls ==
    ASSUME TypeOK, ModelCallsTools
    PROVE  \E cs \in Seq(Calls) : ModelDecides(cs)
<1> DEFINE first == IF FreshIds THEN issued ELSE 0
<1>1. PICK n \in 1..MaxBatch : \E names \in [1..n -> Names] :
        /\ first + n <= MaxCalls
        /\ ModelDecides([i \in 1..n |-> [id |-> first + i, name |-> names[i]]])
  BY DEF ModelCallsTools
<1>2. PICK names \in [1..n -> Names] :
        /\ first + n <= MaxCalls
        /\ ModelDecides([i \in 1..n |-> [id |-> first + i, name |-> names[i]]])
  BY <1>1
<1>3. [i \in 1..n |-> [id |-> first + i, name |-> names[i]]] \in Seq(Calls)
  <2>1. \A i \in 1..n : [id |-> first + i, name |-> names[i]] \in Calls
    BY <1>2, BoundsAssumption DEF Calls, CallIds, TypeOK
  <2> QED BY <2>1, BoundsAssumption
<1> QED BY <1>2, <1>3

LEMMA OpInv ==
    ASSUME TypeOK, PauseInv, OpStep
    PROVE  PauseInv'
<1>0. ASSUME NEW at \in {"input", "model", "output", "tools", "resumed"}, InOp(at)
      PROVE  Busy /\ cur \in RunIds
  BY <1>0 DEF InOp, Busy, PauseInv, Control
<1> DEFINE Failed == Marked(data, cur, "failed")
<1>f. ASSUME Busy
      PROVE  /\ Coherent(Failed) /\ Unused(Failed, nruns)
             /\ Coherent(Checkpointed(Failed, cur))
             /\ Unused(Checkpointed(Failed, cur), nruns)
  <2>1. Coherent(Failed) /\ Unused(Failed, nruns) /\ Failed \in SessionData /\ cur \in RunIds
    BY <1>f, FailInv, BusyRun
  <2> HIDE DEF Failed
  <2> QED BY <2>1, MessagesKeepRuns, SameRunsCoherent, SameRunsUnused
<1> HIDE DEF Failed
<1>1. CASE InputBlocked
  BY <1>0, <1>1, <1>f, EndInv DEF InputBlocked, ids, Failed
<1>2. CASE ModelFails
  BY <1>0, <1>2, <1>f, EndInv DEF ModelFails, ids, Failed
<1>3. CASE TurnsExceeded
  BY <1>0, <1>3, <1>f, EndInv DEF TurnsExceeded, ids, Failed
<1>4. CASE OutputBlocked
  BY <1>0, <1>4, <1>f, EndInv DEF OutputBlocked, ids, Failed
<1>5. CASE InputAllowed
  <2>1. cur \in RunIds /\ Busy
    BY <1>0, <1>5 DEF InputAllowed
  <2>2. SameRuns(data, data')
    <3> DEFINE asked == Append1(data, Msg("user", cur, <<>>))
    <3>1. asked \in SessionData
      BY <2>1, MsgType, NoCallsType, Append1Type DEF TypeOK
    <3>2. SameRuns(data, asked)
      BY <2>1, MessagesKeepRuns DEF TypeOK
    <3>3. data' = Checkpointed(asked, cur)
      BY <1>5 DEF InputAllowed
    <3> HIDE DEF asked
    <3> QED BY <2>1, <3>1, <3>2, <3>3, MessagesKeepRuns DEF SameRuns
  <2>3. Coherent(data') /\ Unused(data', nruns) /\ data'.runs = data.runs
    BY <2>2, KeepInv
  <2> QED BY <1>5, <2>1, <2>3, EndInv, OnInv DEF InputAllowed, ids, local
<1>6. ASSUME NEW cs \in Seq(Calls), ModelDecides(cs)
      PROVE  PauseInv'
  <2>1. cur \in RunIds /\ Busy /\ turn < MaxTurns
    BY <1>0, <1>6 DEF ModelDecides
  <2> DEFINE said == Append1(data, Msg("assistant", cur, cs))
  <2>2. said \in SessionData /\ SameRuns(data, said)
    BY <1>6, <2>1, MsgType, Append1Type, MessagesKeepRuns DEF TypeOK
  <2>3. data' = said \/ data' = Checkpointed(said, cur)
    BY <1>6 DEF ModelDecides
  <2> HIDE DEF said
  <2>4. SameRuns(data, data')
    BY <2>1, <2>2, <2>3, MessagesKeepRuns DEF SameRuns
  <2>5. Coherent(data') /\ Unused(data', nruns) /\ data'.runs = data.runs
    BY <2>4, KeepInv
  <2>6. nruns' = nruns
    BY <1>6 DEF ModelDecides
  <2> DEFINE next == IF cs = <<>> THEN "output" ELSE "tools"
  <2>7. \/ /\ Persist(data') \/ Unsaved
           /\ Goto(next) /\ cur' = cur /\ turn' = turn
        \/ SaveFails /\ Return("error")
    BY <1>6 DEF ModelDecides
  <2>8. next \in {"model", "output", "tools"}
    OBVIOUS
  <2> HIDE DEF next
  <2> QED BY <2>1, <2>5, <2>6, <2>7, <2>8, EndInv, OnInv
<1>7. CASE ModelAnswers
  BY <1>6, <1>7, NoCallsType DEF ModelAnswers
<1>8. CASE ModelCallsTools
  BY <1>6, <1>8, DecidedCalls
<1>9. CASE OutputAllowed
  <2> DEFINE kept == IF mode = "prompt" THEN Compacted(data) ELSE data
             done == Marked(kept, cur, "completed")
  <2>1. cur \in RunIds /\ Busy
    BY <1>0, <1>9 DEF OutputAllowed
  <2>2. kept \in SessionData /\ SameRuns(data, kept)
    BY <2>1, CompactedType, MessagesKeepRuns DEF TypeOK, SameRuns
  <2>3. data' = Checkpointed(done, cur)
    BY <1>9 DEF OutputAllowed
  <2> HIDE DEF kept
  <2>4. Coherent(kept) /\ Unused(kept, nruns) /\ kept.runs = data.runs
    BY <2>2, KeepInv
  <2>5. /\ "completed" \in RunStatus /\ "completed" \in RunStatus \ {"paused"}
        /\ kept.runs[cur].status # "paused" /\ cur <= nruns /\ nruns \in Nat
    BY <2>1, <2>4, BusyRun, BoundsAssumption DEF RunStatus, TypeOK
  <2>6. Coherent(done) /\ Unused(done, nruns) /\ done \in SessionData
    BY <2>1, <2>2, <2>4, <2>5, MarkedCoherent, MarkedUnused, MarkedType
  <2> HIDE DEF done
  <2>7. Coherent(data') /\ Unused(data', nruns)
    BY <2>1, <2>3, <2>6, MessagesKeepRuns, SameRunsCoherent, SameRunsUnused
  <2> QED BY <1>9, <2>7, EndInv DEF OutputAllowed, ids
<1>10. CASE CompactionFails
  BY <1>10, KeepInv, EndInv DEF CompactionFails, SameRuns, ids
<1>11. CASE ToolsDone
  <2>1. cur \in RunIds /\ Busy
    BY <1>0, <1>11 DEF ToolsDone
  <2>2. Coherent(data') /\ Unused(data', nruns) /\ data'.runs = data.runs
    BY <1>11, <2>1, MessagesKeepRuns, KeepInv DEF ToolsDone, TypeOK
  <2> QED BY <1>11, <2>1, <2>2, EndInv, OnInv DEF ToolsDone, ids
<1>12. CASE ResumeSaved
  <2>1. cur \in RunIds /\ Busy
    BY <1>0, <1>12 DEF ResumeSaved
  <2>2. Coherent(data') /\ Unused(data', nruns) /\ data'.runs = data.runs
    BY <1>12, <2>1, MessagesKeepRuns, KeepInv DEF ResumeSaved, TypeOK
  <2> QED BY <1>12, <2>1, <2>2, EndInv, OnInv DEF ResumeSaved, ids, local
<1>13. ASSUME NEW c \in Calls, AtCall(c)
       PROVE  Busy /\ cur \in RunIds /\ turn < MaxTurns
  BY <1>0, <1>13 DEF AtCall, InOp, PauseInv, Control
<1>14. ASSUME NEW c \in Calls, UnknownTool(c)
       PROVE  PauseInv'
  <2>1. Busy
    BY <1>13, <1>14 DEF UnknownTool
  <2>2. Coherent(data') /\ Unused(data', nruns)
    BY <1>14, <1>f, <2>1, KeepInv DEF UnknownTool, Failed, SameRuns
  <2> QED BY <1>14, <2>2, EndInv DEF UnknownTool, ids
<1>15. ASSUME NEW c \in Calls, ToolBlocked(c) \/ PolicyFails(c)
       PROVE  PauseInv'
  <2>1. Busy
    BY <1>13, <1>15 DEF ToolBlocked, PolicyFails, NeedsDecision
  <2> QED BY <1>15, <1>f, <2>1, EndInv DEF ToolBlocked, PolicyFails, ids, Failed
<1>16. ASSUME NEW c \in Calls, PauseForApproval(c)
       PROVE  PauseInv'
  <2>1. Busy /\ cur \in RunIds
    BY <1>13, <1>16 DEF PauseForApproval, NeedsDecision
  <2> DEFINE paused == PausedFor(data, cur, c)
  <2>2. /\ data.runs[cur].status # "paused" /\ cur <= nruns /\ nruns \in Nat
        /\ Coherent(data) /\ Unused(data, nruns) /\ data \in SessionData
    BY <2>1, BusyRun, BoundsAssumption DEF TypeOK, PauseInv, PausedMeansPending
  <2>3. Coherent(paused) /\ Unused(paused, nruns) /\ paused \in SessionData
    BY <1>16, <2>1, <2>2, PausedForCoherent, PausedForUnused, PausedForType
  <2>4. data' = Checkpointed(paused, cur)
    BY <1>16 DEF PauseForApproval
  <2> HIDE DEF paused
  <2>5. Coherent(data') /\ Unused(data', nruns)
    BY <2>1, <2>3, <2>4, MessagesKeepRuns, SameRunsCoherent, SameRunsUnused
  <2> QED BY <1>16, <2>5, EndInv DEF PauseForApproval, ids
<1>17. ASSUME NEW c \in Calls, PolicyRejects(c) \/ Execute(c)
       PROVE  PauseInv'
  <2>1. Busy /\ cur \in RunIds /\ turn < MaxTurns
    BY <1>13, <1>17 DEF PolicyRejects, Execute, NeedsDecision
  <2>2. data' = Answer(data, cur, c) /\ NextCall
    BY <1>17 DEF PolicyRejects, Execute
  <2>3. Coherent(data') /\ Unused(data', nruns) /\ data'.runs = data.runs
    BY <2>1, <2>2, MessagesKeepRuns, KeepInv DEF TypeOK
  <2> QED BY <2>1, <2>2, <2>3, OnInv DEF NextCall, ids
<1> QED BY <1>1, <1>2, <1>3, <1>4, <1>5, <1>7, <1>8, <1>9, <1>10, <1>11, <1>12,
           <1>14, <1>15, <1>16, <1>17 DEF OpStep, ToolStep

LEMMA CallInv ==
    ASSUME TypeOK, PauseInv, CallStep
    PROVE  PauseInv'
<1> USE BoundsAssumption
<1>0. /\ Coherent(data) /\ Unused(data, nruns) /\ data \in SessionData
      /\ Coherent(disk) /\ Unused(disk, nruns)
      /\ nruns \in Nat /\ (pc = "idle" => turn = 0)
  BY DEF PauseInv, PausedMeansPending, TypeOK, Control, Busy
<1>s. "running" \in RunStatus /\ "running" \in RunStatus \ {"paused"}
  BY DEF RunStatus
<1>1. CASE Prompt
  <2> DEFINE new == nruns + 1
             started == Marked(data, new, "running")
  <2>1. new \in RunIds /\ new <= nruns' /\ nruns' \in Nat /\ nruns' = nruns + 1
    BY <1>1, <1>0 DEF Prompt, RunIds
  <2>2. data.runs[new].status = "none" /\ data.runs[new].status # "paused"
    BY <1>0, <2>1 DEF Unused
  <2>3. Unused(data, nruns') /\ Unused(disk, nruns')
    BY <1>0, <2>1 DEF Unused, RunIds
  <2> HIDE DEF new
  <2>4. Coherent(started) /\ Unused(started, nruns')
    BY <1>0, <1>s, <2>1, <2>2, <2>3, MarkedCoherent, MarkedUnused
  <2>5. started.runs[new].status = "running"
    <3>1. started.runs[new] = [status |-> "running", approval |-> data.runs[new].approval]
      BY <1>0, <1>s, <2>1, MarkedRuns
    <3> QED BY <3>1
  <2> HIDE DEF started
  <2>6. /\ data' = started /\ disk' = disk /\ cur' = new /\ pc' = "input"
    BY <1>1 DEF Prompt, Goto, new, started
  <2> QED BY <1>0, <2>1, <2>3, <2>4, <2>5, <2>6
        DEF PauseInv, PausedMeansPending, Control, Busy
<1>2. ASSUME NEW a \in data.pending, NEW t \in {{}, CallTools},
             NEW decision \in {"approve", "reject"}, ResumeWith(a, t, decision)
      PROVE  PauseInv'
  <2> DEFINE m == Marked(data, a.run, "running")
             taken == [m EXCEPT !.pending = @ \ {a}]
  <2>1. a.run \in RunIds /\ a.call \in Calls /\ data.runs[a.run].status = "paused"
    BY <1>0, PendingIsPaused
  <2>2. Coherent(taken)
    BY <1>0, TakenCoherent
  <2>3. a.run <= nruns
    <3>1. ~(a.run > nruns)
      BY <1>0, <2>1 DEF Unused
    <3> QED BY <1>0, <2>1, <3>1 DEF RunIds
  <2>4. /\ m \in SessionData /\ Unused(m, nruns)
        /\ m.runs[a.run] = [status |-> "running", approval |-> data.runs[a.run].approval]
    BY <1>0, <1>s, <2>1, <2>3, MarkedType, MarkedUnused, MarkedRuns
  <2> HIDE DEF m
  <2>5. taken.runs = m.runs /\ taken \in SessionData
    BY <2>4 DEF SessionData
  <2>6. data' = Answer(taken, a.run, a.call) /\ cur' = a.run /\ pc' = "resumed"
        /\ disk' = disk /\ nruns' = nruns /\ turn' = turn
    BY <1>2 DEF ResumeWith, Goto, Unsaved, ids, m
  <2> HIDE DEF taken
  <2>7. SameRuns(taken, data')
    BY <2>1, <2>5, <2>6, MessagesKeepRuns
  <2>8. Coherent(data') /\ Unused(data', nruns)
    BY <2>2, <2>4, <2>5, <2>7, SameRunsCoherent DEF SameRuns, Unused
  <2>9. data'.runs[cur'].status = "running"
    BY <2>4, <2>5, <2>6, <2>7 DEF SameRuns
  <2> QED BY <1>0, <2>1, <2>6, <2>8, <2>9
        DEF PauseInv, PausedMeansPending, Control, Busy
<1>3. CASE ResumeRefused
  BY <1>0, <1>3 DEF ResumeRefused, Return, ids, PauseInv, PausedMeansPending, Control, Busy
<1>4. CASE Shell
  <2>1. Coherent(Append1(data, Msg("tool", NoRun, <<>>)))
        /\ Unused(Append1(data, Msg("tool", NoRun, <<>>)), nruns)
    <3>1. 1 \in RunIds
      BY DEF RunIds
    <3> QED BY <1>0, <3>1, MessagesKeepRuns, KeepInv
  <2>2. Coherent(data') /\ Unused(data', nruns)
    BY <1>0, <1>4, <2>1 DEF Shell
  <2> QED BY <1>4, <2>2, EndInv DEF Shell, ids
<1>5. CASE Delete
  <2>1. Unused(EmptyData, nruns)
    BY DEF Unused, EmptyData
  <2> QED BY <1>0, <1>5, <2>1, EmptyCoherent
        DEF Delete, Return, ids, PauseInv, PausedMeansPending, Control, Busy
<1>6. ASSUME NEW r \in RunIds, ResumeRun(r)
      PROVE  PauseInv'
  <2> DEFINE m == Marked(data, r, "running")
             restored == data.ckpts[r]
  <2>1. data.runs[r].status \notin {"none", "paused"}
    BY <1>0, <1>6 DEF ResumeRun, Coherent
  <2>2. r <= nruns
    <3>1. ~(r > nruns)
      BY <1>0, <1>6, <2>1 DEF Unused
    <3> QED BY <1>0, <1>6, <3>1 DEF RunIds
  <2>3. /\ m \in SessionData /\ Unused(m, nruns) /\ Coherent(m)
        /\ m.runs[r] = [status |-> "running", approval |-> data.runs[r].approval]
    BY <1>0, <1>s, <1>6, <2>1, <2>2, MarkedType, MarkedUnused, MarkedRuns, MarkedCoherent
  <2>4. data' = [m EXCEPT !.msgs = restored]
    BY <1>6 DEF ResumeRun
  <2> HIDE DEF m, restored
  <2>5. SameRuns(m, data')
    BY <2>3, <2>4 DEF SameRuns, SessionData
  <2>6. Coherent(data') /\ Unused(data', nruns) /\ data'.runs[r].status = "running"
    BY <2>3, <2>5, SameRunsCoherent, SameRunsUnused DEF SameRuns
  <2>7. UNCHANGED <<disk, nruns, settled>>
    BY <1>6 DEF ResumeRun, ids, ghosts
  <2>8. CASE Return("error")
    BY <2>6, <2>7, <2>8, EndInv DEF Unsaved
  <2>9. CASE ~Return("error")
    <3>1. cur' = r /\ pc' \in {"tools", "model"} /\ turn' = 0
      BY <1>0, <1>6, <2>9 DEF ResumeRun, Called, Goto
    <3> QED BY <1>0, <1>6, <2>6, <2>7, <3>1
          DEF PauseInv, PausedMeansPending, Control, Busy
  <2> QED BY <2>8, <2>9
<1>7. ASSUME NEW r \in RunIds, ResumeRunRefused(r)
      PROVE  PauseInv'
  BY <1>0, <1>7
     DEF ResumeRunRefused, Return, ids, PauseInv, PausedMeansPending, Control, Busy
<1> QED BY <1>1, <1>2, <1>3, <1>4, <1>5, <1>6, <1>7 DEF CallStep, Resume

LEMMA NextInv ==
    ASSUME TypeOK, PauseInv, [Next]_vars
    PROVE  PauseInv'
<1>1. CASE UNCHANGED vars
  BY <1>1 DEF vars, local, ids, ghosts, PauseInv, PausedMeansPending, Control, Busy
<1> QED BY <1>1, ProcessInv, CallInv, OpInv DEF Next

(* In every reachable state the session data, in memory and on disk, and the
   control state have their types, and PauseInv holds. *)
THEOREM Invariance == Spec => [](TypeOK /\ PauseInv)
<1>1. Init => TypeOK /\ PauseInv
  BY InitType, InitInv
<1>2. TypeOK /\ PauseInv /\ [Next]_vars => (TypeOK /\ PauseInv)'
  BY NextType, NextInv DEF PauseInv
<1> QED BY <1>1, <1>2, PTL DEF Spec

(* Type correctness of the session, for every number of runs, calls and turns. *)
THEOREM TypeCorrect == Spec => []TypeOK
BY Invariance, PTL

(* An approval request is pending exactly while its run is paused, in memory and
   on disk, whatever fails and whenever the process dies: no pause is lost and
   no paused run is driven on without its decision (session.go, markRunPausedLocked,
   resumeApproval, resumeRun). *)
THEOREM PauseAndRequestTogether == Spec => []PausedMeansPending
<1>1. TypeOK /\ PauseInv => PausedMeansPending
  BY DEF PauseInv
<1> QED BY <1>1, Invariance, PTL

-----------------------------------------------------------------------------
(* Success is durable. *)

(* Nothing is reported while the process is down, so that a load, which makes a
   session idle without a save, never looks like a success. *)
DurableInv == SuccessIsDurable /\ (pc = "down" => reply = "none")

LEMMA DurableKept == DurableInv /\ [Next]_vars => DurableInv'
<1> SUFFICES ASSUME DurableInv, [Next]_vars PROVE DurableInv'
  OBVIOUS
<1> USE DEF DurableInv, SuccessIsDurable
<1>1. CASE UNCHANGED vars
  BY <1>1 DEF vars
<1>2. CASE LoadSession \/ Crash
  BY <1>2 DEF LoadSession, Crash, Goto
<1>3. CASE CallStep
  BY <1>3 DEF CallStep, Prompt, Resume, ResumeWith, ResumeRefused, Shell, Delete,
              ResumeRun, ResumeRunRefused, Called, Goto, Return, Persist, SaveFails
<1>4. CASE OpStep
  <2>1. ASSUME NEW p \in {"model", "output", "tools"}, Goto(p) PROVE DurableInv'
    BY <2>1 DEF Goto
  <2>2. ASSUME NEW r \in {"error", "approval"}, Return(r) PROVE DurableInv'
    BY <2>2 DEF Return
  <2>3. CASE ToolStep
    BY <2>1, <2>2, <2>3 DEF ToolStep, UnknownTool, ToolBlocked, PolicyFails,
       PauseForApproval, PolicyRejects, Execute, ToolsDone, NextCall
  <2>4. CASE OutputAllowed
    BY <2>4 DEF OutputAllowed, Return, Persist
  <2>5. CASE ModelAnswers \/ ModelCallsTools
    BY <2>1, <2>2, <2>5 DEF ModelAnswers, ModelCallsTools, ModelDecides
  <2> QED BY <1>4, <2>1, <2>2, <2>3, <2>4, <2>5
          DEF OpStep, InputBlocked, InputAllowed, ModelFails, TurnsExceeded,
              OutputBlocked, CompactionFails, ResumeSaved
<1> QED BY <1>1, <1>2, <1>3, <1>4 DEF Next

(* After a Prompt, Resume, ResumeRun, Shell or Delete that reported success, the
   store holds what the process holds, whichever saves failed before: a restart
   loses none of it (session.go, the last saveLocked of each). *)
THEOREM SuccessStored == Spec => []SuccessIsDurable
<1>1. Init => DurableInv
  BY DEF Init, DurableInv, SuccessIsDurable
<1>2. DurableInv => SuccessIsDurable
  BY DEF DurableInv
<1> QED BY <1>1, <1>2, DurableKept, PTL DEF Spec

-----------------------------------------------------------------------------
(* The session implements the run lifecycle.  A step maps to the move it makes of
   one run's status, and to a save of the statuses if it saves. *)

Status(d) == [r \in RunIds |-> d.runs[r].status]

(* No run is forgotten by a step. *)
Grows == \A r \in RunIds : data.runs[r].status # "none" => data'.runs[r].status # "none"

(* The fields of the lifecycle, one by one. *)
LEMMA LifeVars ==
    ASSUME TypeOK
    PROVE  /\ Lifecycle!Idle <=> pc # "down" /\ ~(Busy /\ cur # 0)
           /\ Lifecycle!NothingRun = Status(EmptyData)
  BY DEF Lifecycle!Idle, Lifecycle!NothingRun, Status, EmptyData, NoRun

LEMMA MarkedStatus ==
    ASSUME NEW d \in SessionData, NEW r \in RunIds, NEW st \in RunStatus
    PROVE  Status(Marked(d, r, st)) = [Status(d) EXCEPT ![r] = st]
<1>1. /\ Marked(d, r, st).runs[r].status = st
      /\ \A s \in RunIds \ {r} : Marked(d, r, st).runs[s] = d.runs[s]
  <2>1. Marked(d, r, st).runs[r] = [status |-> st, approval |-> d.runs[r].approval]
    BY MarkedRuns
  <2> QED BY <2>1, MarkedRuns
<1> HIDE DEF Marked
<1> QED BY <1>1 DEF Status

LEMMA PausedStatus ==
    ASSUME NEW d \in SessionData, NEW r \in RunIds, NEW c \in Calls
    PROVE  Status(PausedFor(d, r, c)) = [Status(d) EXCEPT ![r] = "paused"]
<1>1. /\ PausedFor(d, r, c).runs[r].status = "paused"
      /\ \A s \in RunIds \ {r} : PausedFor(d, r, c).runs[s] = d.runs[s]
  <2>1. PausedFor(d, r, c).runs[r] = [status |-> "paused", approval |-> c.id]
    BY PausedForRuns
  <2> QED BY <2>1, PausedForRuns
<1> QED BY <1>1 DEF Status

LEMMA SameStatus ==
    ASSUME NEW d, NEW e, e.runs = d.runs
    PROVE  Status(e) = Status(d)
  BY DEF Status

(* A step of the operation in progress that ends it. *)
LEMMA EndsLife ==
    ASSUME TypeOK, PauseInv, Busy, NEW r, Return(r), NEW st \in RunStatus,
           \/ /\ Status(data') = Status(data) /\ r = "error"
              /\ Persist(data') \/ Unsaved \/ SaveFails \/ TrySave(data')
           \/ /\ Status(data') = [Status(data) EXCEPT ![cur] = "failed"] /\ r = "error"
              /\ Persist(data') \/ Unsaved \/ SaveFails \/ TrySave(data')
           \/ /\ Status(data') = [Status(data) EXCEPT ![cur] = st]
              /\ \/ Persist(data') /\ <<st, r>> \in {<<"paused", "approval">>, <<"completed", "ok">>}
                 \/ SaveFails /\ r = "error" /\ st \in {"paused", "completed"}
    PROVE  Lifecycle!LNext /\ Grows
<1>1. /\ cur \in RunIds /\ cur # NoRun /\ pc # "down" /\ pc' # "down" /\ ~Busy' /\ reply' = r
  BY BoundsAssumption DEF PauseInv, Control, Busy, Return, RunIds, NoRun
<1>2. Persist(data') => Status(disk') = Status(data')
  BY DEF Persist, Status
<1>3. Unsaved \/ SaveFails => Status(disk') = Status(disk)
  BY DEF Unsaved, SaveFails, Status
<1>4. (Persist(data') \/ Unsaved \/ SaveFails \/ TrySave(data'))
        <=> (Persist(data') \/ Unsaved \/ SaveFails)
  BY DEF TrySave
<1>5. Lifecycle!Abandon \/ Lifecycle!Fail \/ Lifecycle!Pause \/ Lifecycle!Complete
  BY <1>1, <1>2, <1>3, <1>4
     DEF Lifecycle!Abandon, Lifecycle!Fail, Lifecycle!Pause, Lifecycle!Complete,
         Lifecycle!Busy, Lifecycle!Moves, Lifecycle!Saves, Lifecycle!MaySave,
         Lifecycle!Outcome, Status, NoRun
<1>6. Grows
  <2>1. \A q \in RunIds : Status(data)[q] = data.runs[q].status /\ Status(data')[q] = data'.runs[q].status
    BY DEF Status
  <2>2. st # "none" \/ Status(data') = Status(data) \/ Status(data') = [Status(data) EXCEPT ![cur] = "failed"]
    OBVIOUS
  <2>3. Status(data) = [q \in RunIds |-> Status(data)[q]]
    BY DEF Status
  <2> QED BY <2>1, <2>2, <2>3 DEF Grows
<1> QED BY <1>1, <1>5, <1>6 DEF Lifecycle!LNext, Lifecycle!Serve

(* A step of the operation in progress that goes on. *)
LEMMA WorksLife ==
    ASSUME TypeOK, PauseInv, Busy, NEW p \in {"model", "output", "tools"}, Goto(p),
           cur' = cur, data'.runs = data.runs, Persist(data') \/ Unsaved
    PROVE  Lifecycle!LNext /\ Grows
<1>1. cur \in RunIds /\ cur # NoRun /\ Busy' /\ pc # "down" /\ pc' # "down"
  BY BoundsAssumption DEF PauseInv, Control, Busy, Goto, RunIds, NoRun
<1>2. Status(data') = Status(data)
  BY DEF Status
<1>3. Persist(data') => Status(disk') = Status(data')
  BY DEF Persist, Status
<1>4. Unsaved => Status(disk') = Status(disk)
  BY DEF Unsaved, Status
<1>5. Lifecycle!Work
  BY <1>1, <1>2, <1>3, <1>4
     DEF Lifecycle!Work, Lifecycle!Busy, Lifecycle!MaySave, Lifecycle!Saves, Status, Goto, NoRun
<1> QED BY <1>1, <1>5 DEF Grows, Lifecycle!LNext, Lifecycle!Serve

LEMMA ProcessLife ==
    ASSUME TypeOK, LoadSession \/ Crash
    PROVE  Lifecycle!LNext
<1>1. Status(EmptyData) = Lifecycle!NothingRun
  BY LifeVars
<1>2. CASE LoadSession
  <2>1. \/ Status(data') = Status(disk)
        \/ "load" \in Faults /\ Status(data') = Lifecycle!NothingRun
    BY <1>1, <1>2 DEF LoadSession, Status
  <2>2. pc = "down" /\ pc' = "idle" /\ ~Busy /\ ~Busy' /\ UNCHANGED <<disk, reply>>
    BY <1>2 DEF LoadSession, Goto, Busy
  <2>3. Lifecycle!Reload
    BY <2>1, <2>2 DEF Lifecycle!Reload, Lifecycle!NothingRun, Status
  <2> QED BY <2>3 DEF Lifecycle!LNext
<1>3. CASE Crash
  <2>1. Status(data') = Lifecycle!NothingRun
    BY <1>1, <1>3 DEF Crash, Status
  <2>2. pc # "down" /\ pc' = "down" /\ ~Busy' /\ reply' = "none" /\ UNCHANGED disk
    BY <1>3 DEF Crash, Busy
  <2>3. Lifecycle!Die
    BY <2>1, <2>2 DEF Lifecycle!Die, Lifecycle!NothingRun, Status, NoRun
  <2> QED BY <2>3 DEF Lifecycle!LNext
<1> QED BY <1>2, <1>3

LEMMA CallLife ==
    ASSUME TypeOK, PauseInv, CallStep
    PROVE  Lifecycle!LNext /\ (Grows \/ Delete)
<1>0. pc = "idle" /\ ~Busy
  BY DEF CallStep, Prompt, Resume, ResumeWith, ResumeRefused, Shell, Delete,
         ResumeRun, ResumeRunRefused, Called, Busy
<1>s. "running" \in RunStatus /\ data \in SessionData /\ Coherent(data)
  BY DEF RunStatus, TypeOK, PauseInv, PausedMeansPending
<1>r. \A r \in RunIds : r # NoRun
  BY BoundsAssumption DEF RunIds, NoRun
(* An operation that starts to drive a run. *)
<1>d. ASSUME NEW r \in RunIds, Status(data') = [Status(data) EXCEPT ![r] = "running"],
             cur' = r, pc' \in {"input", "model", "tools", "resumed"}, UNCHANGED <<disk, reply>>
      PROVE  /\ Lifecycle!Idle /\ Lifecycle!Moves(r, "running") /\ pc' # "down" /\ Busy'
             /\ Grows
  <2>1. Grows
    <3>1. \A q \in RunIds : Status(data)[q] = data.runs[q].status /\ Status(data')[q] = data'.runs[q].status
      BY DEF Status
    <3>2. Status(data) = [q \in RunIds |-> Status(data)[q]]
      BY DEF Status
    <3> QED BY <1>d, <3>1, <3>2 DEF Grows
  <2> QED BY <1>0, <1>d, <2>1 DEF Lifecycle!Idle, Lifecycle!Moves, Status, Busy, NoRun
<1>l. ASSUME NEW r \in RunIds, pc' # "down",
             Lifecycle!Begin(r) \/ Lifecycle!Decide(r) \/ Lifecycle!Retry(r)
      PROVE  Lifecycle!LNext
  BY <1>0, <1>l DEF Lifecycle!LNext, Lifecycle!Serve
<1>1. CASE Prompt
  <2>1. PICK new \in RunIds : new = nruns + 1
    BY <1>1, BoundsAssumption DEF Prompt, TypeOK, RunIds
  <2>2. data.runs[new].status = "none"
    BY <2>1, BoundsAssumption DEF PauseInv, Unused, TypeOK
  <2>3. /\ data' = Marked(data, new, "running")
        /\ cur' = new /\ pc' = "input" /\ UNCHANGED <<disk, reply>>
    BY <1>1, <2>1 DEF Prompt, Goto
  <2>4. Status(data') = [Status(data) EXCEPT ![new] = "running"]
    BY <1>s, <2>3, MarkedStatus
  <2>5. Lifecycle!Begin(new)
    BY <1>d, <2>2, <2>3, <2>4 DEF Lifecycle!Begin
  <2> QED BY <1>d, <1>l, <2>3, <2>4, <2>5
<1>2. ASSUME NEW a \in data.pending, NEW t \in {{}, CallTools},
             NEW decision \in {"approve", "reject"}, ResumeWith(a, t, decision)
      PROVE  Lifecycle!LNext /\ Grows
  <2> DEFINE m == Marked(data, a.run, "running")
             taken == [m EXCEPT !.pending = @ \ {a}]
  <2>1. a.run \in RunIds /\ a.call \in Calls
    BY <1>s, PendingIsPaused
  <2>2. Status(m) = [Status(data) EXCEPT ![a.run] = "running"] /\ m \in SessionData
    BY <1>s, <2>1, MarkedStatus, MarkedType
  <2>3. data' = Answer(taken, a.run, a.call)
    BY <1>2 DEF ResumeWith
  <2> HIDE DEF m
  <2>4. taken.runs = m.runs /\ taken \in SessionData
    BY <2>2 DEF SessionData
  <2> HIDE DEF taken
  <2>5. data'.runs = m.runs
    BY <2>1, <2>3, <2>4, MessagesKeepRuns DEF SameRuns
  <2>6. cur' = a.run /\ pc' = "resumed" /\ UNCHANGED <<disk, reply>>
    BY <1>2 DEF ResumeWith, Goto, Unsaved
  <2>7. Status(data') = [Status(data) EXCEPT ![a.run] = "running"]
    BY <2>2, <2>5, SameStatus
  <2>8. data.runs[a.run].status = "paused"
    BY <1>s, PendingIsPaused
  <2>9. Lifecycle!Decide(a.run)
    BY <1>d, <2>1, <2>6, <2>7, <2>8 DEF Lifecycle!Decide
  <2> QED BY <1>d, <1>l, <2>1, <2>6, <2>7, <2>9
(* An operation that returns at once. *)
<1>3. ASSUME Return("error"), UNCHANGED <<data, disk>>
      PROVE  Lifecycle!LNext /\ Grows
  <2>1. Lifecycle!Refuse /\ pc' # "down"
    BY <1>0, <1>3 DEF Lifecycle!Refuse, Lifecycle!Idle, Return, Busy, NoRun
  <2> QED BY <1>0, <1>3, <2>1 DEF Lifecycle!LNext, Lifecycle!Serve, Grows
<1>4. CASE ResumeRefused
  BY <1>3, <1>4 DEF ResumeRefused
<1>5. ASSUME NEW r \in RunIds, ResumeRunRefused(r)
      PROVE  Lifecycle!LNext /\ Grows
  <2>1. CASE Return("error")
    BY <1>3, <1>5, <2>1 DEF ResumeRunRefused
  <2>2. CASE IsPendingOf(data, r) /\ Return("approval")
    <3>1. PICK a \in data.pending : a.run = r
      BY <2>2 DEF IsPendingOf
    <3>2. data.runs[r].status = "paused"
      BY <1>s, <3>1, PendingIsPaused
    <3>3. UNCHANGED <<data, disk>>
      BY <1>5 DEF ResumeRunRefused
    <3>4. Lifecycle!Remind(r) /\ pc' # "down"
      BY <1>0, <1>5, <2>2, <3>2, <3>3
         DEF Lifecycle!Remind, Lifecycle!Idle, Return, Busy, NoRun
    <3> QED BY <1>0, <1>5, <3>3, <3>4 DEF Lifecycle!LNext, Lifecycle!Serve, Grows
  <2> QED BY <1>5, <2>1, <2>2 DEF ResumeRunRefused
<1>6. CASE Shell
  <2>1. Status(data') = Status(data)
    <3>1. Append1(data, Msg("tool", NoRun, <<>>)).runs = data.runs
      BY <1>s, MessagesKeepRuns DEF Append1, SessionData
    <3>2. data'.runs = data.runs
      BY <1>6, <3>1 DEF Shell
    <3> QED BY <3>2 DEF Status
  <2>2. \/ Status(disk') = Status(data') /\ Return("ok")
        \/ Status(disk') = Status(disk) /\ Return("error")
    BY <1>6 DEF Shell, Persist, SaveFails, Unsaved, Status
  <2>0. Grows
    <3>1. \A q \in RunIds : Status(data)[q] = data.runs[q].status /\ Status(data')[q] = data'.runs[q].status
      BY DEF Status
    <3> QED BY <2>1, <3>1 DEF Grows
  <2>3. Lifecycle!Note /\ pc' # "down"
    BY <1>0, <2>1, <2>2
       DEF Lifecycle!Note, Lifecycle!Idle, Lifecycle!Outcome, Lifecycle!Saves, Return, Busy,
           Status, NoRun
  <2> QED BY <1>0, <2>0, <2>3 DEF Lifecycle!LNext, Lifecycle!Serve
<1>7. CASE Delete
  <2>1. Status(data') = Lifecycle!NothingRun
    BY <1>7, LifeVars DEF Delete, Status
  <2>2. \/ Status(disk') = Status(data') /\ Return("ok")
        \/ Status(disk') = Status(disk) /\ Return("error")
    BY <1>7 DEF Delete, Status
  <2>3. Lifecycle!Wipe /\ pc' # "down"
    BY <1>0, <2>1, <2>2
       DEF Lifecycle!Wipe, Lifecycle!Idle, Lifecycle!Outcome, Lifecycle!Saves,
           Lifecycle!NothingRun, Return, Busy, Status, NoRun
  <2> QED BY <1>0, <1>7, <2>3 DEF Lifecycle!LNext, Lifecycle!Serve
<1>8. ASSUME NEW r \in RunIds, ResumeRun(r)
      PROVE  Lifecycle!LNext /\ Grows
  <2> DEFINE m == Marked(data, r, "running")
             restored == data.ckpts[r]
  <2>1. data.runs[r].status \notin {"none", "paused"}
    BY <1>s, <1>8 DEF ResumeRun, Coherent
  <2>2. Status(m) = [Status(data) EXCEPT ![r] = "running"] /\ m \in SessionData
    BY <1>s, MarkedStatus, MarkedType
  <2>3. data' = [m EXCEPT !.msgs = restored]
    BY <1>8 DEF ResumeRun
  <2> HIDE DEF m, restored
  <2>4. data'.runs = m.runs
    BY <2>2, <2>3 DEF SessionData
  <2>5. Status(data') = [Status(data) EXCEPT ![r] = "running"]
    BY <2>2, <2>4, SameStatus
  <2>g. Grows
    <3>1. \A q \in RunIds : Status(data)[q] = data.runs[q].status /\ Status(data')[q] = data'.runs[q].status
      BY DEF Status
    <3>2. Status(data) = [q \in RunIds |-> Status(data)[q]]
      BY DEF Status
    <3> QED BY <2>5, <3>1, <3>2 DEF Grows
  <2>6. CASE Return("error")
    <3>1. Lifecycle!Idle /\ Lifecycle!Moves(r, "running") /\ pc' # "down" /\ ~Busy'
      BY <1>0, <2>5, <2>6
         DEF Lifecycle!Idle, Lifecycle!Moves, Status, Busy, NoRun, Return
    <3>2. Lifecycle!Retry(r)
      BY <1>0, <1>8, <2>1, <2>6, <3>1 DEF Lifecycle!Retry, ResumeRun, Return
    <3> QED BY <1>0, <2>g, <3>1, <3>2 DEF Lifecycle!LNext, Lifecycle!Serve
  <2>7. CASE ~Return("error")
    <3>1. cur' = r /\ pc' \in {"model", "tools"} /\ UNCHANGED <<disk, reply>>
      BY <1>8, <2>7 DEF ResumeRun, Goto
    <3>2. Lifecycle!Retry(r) /\ pc' # "down"
      BY <1>0, <1>r, <2>1, <2>5, <3>1
         DEF Lifecycle!Retry, Lifecycle!Idle, Lifecycle!Moves, Status, Busy, NoRun
    <3> QED BY <1>0, <2>g, <3>2 DEF Lifecycle!LNext, Lifecycle!Serve
  <2> QED BY <2>6, <2>7
<1> QED BY <1>1, <1>2, <1>4, <1>5, <1>6, <1>7, <1>8 DEF CallStep, Resume

LEMMA OpLife ==
    ASSUME TypeOK, PauseInv, OpStep
    PROVE  Lifecycle!LNext /\ Grows
<1>0. ASSUME NEW at \in {"input", "model", "output", "tools", "resumed"}, InOp(at)
      PROVE  Busy /\ cur \in RunIds
  BY <1>0 DEF InOp, Busy, PauseInv, Control
<1> DEFINE Failed == Marked(data, cur, "failed")
<1>s. /\ data \in SessionData
      /\ "failed" \in RunStatus /\ "completed" \in RunStatus /\ "paused" \in RunStatus
  BY DEF TypeOK, RunStatus
<1>f. ASSUME cur \in RunIds
      PROVE  /\ Status(Failed) = [Status(data) EXCEPT ![cur] = "failed"]
             /\ Status(Checkpointed(Failed, cur)) = [Status(data) EXCEPT ![cur] = "failed"]
  <2>1. Status(Failed) = [Status(data) EXCEPT ![cur] = "failed"] /\ Failed \in SessionData
    BY <1>f, <1>s, MarkedStatus, MarkedType
  <2> HIDE DEF Failed
  <2>2. Checkpointed(Failed, cur).runs = Failed.runs
    BY <1>f, <2>1, MessagesKeepRuns DEF SameRuns
  <2> QED BY <2>1, <2>2, SameStatus
<1>k. ASSUME cur \in RunIds, NEW c, NEW m
      PROVE  /\ Append1(data, m).runs = data.runs /\ Answer(data, cur, c).runs = data.runs
             /\ Checkpointed(data, cur).runs = data.runs
  BY <1>k, <1>s, MessagesKeepRuns DEF SameRuns
<1> HIDE DEF Failed
<1>e. ASSUME Busy, data'.runs = data.runs, Return("error"),
             Persist(data') \/ Unsaved \/ SaveFails \/ TrySave(data')
      PROVE  Lifecycle!LNext /\ Grows
  BY <1>e, <1>s, SameStatus, EndsLife
<1>x. ASSUME Busy, Return("error"), data' = Failed \/ data' = Checkpointed(Failed, cur),
             Persist(data') \/ Unsaved \/ SaveFails \/ TrySave(data')
      PROVE  Lifecycle!LNext /\ Grows
  <2>1. cur \in RunIds
    BY <1>x DEF PauseInv, Control
  <2>2. Status(data') = [Status(data) EXCEPT ![cur] = "failed"]
    BY <1>f, <1>x, <2>1
  <2> QED BY <1>s, <1>x, <2>2, EndsLife
<1>1. CASE InputBlocked
  BY <1>0, <1>1, <1>x DEF InputBlocked, Failed
<1>2. CASE ModelFails
  BY <1>0, <1>2, <1>x DEF ModelFails, Failed
<1>3. CASE TurnsExceeded
  BY <1>0, <1>3, <1>x DEF TurnsExceeded, Failed
<1>4. CASE OutputBlocked
  BY <1>0, <1>4, <1>x DEF OutputBlocked, Failed
<1>5. CASE InputAllowed
  <2>1. cur \in RunIds /\ Busy
    BY <1>0, <1>5 DEF InputAllowed
  <2> DEFINE asked == Append1(data, Msg("user", cur, <<>>))
  <2>2. asked \in SessionData /\ asked.runs = data.runs
    BY <1>k, <2>1, MsgType, NoCallsType, Append1Type DEF TypeOK
  <2>3. data' = Checkpointed(asked, cur)
    BY <1>5 DEF InputAllowed
  <2> HIDE DEF asked
  <2>4. data'.runs = data.runs
    BY <2>1, <2>2, <2>3, MessagesKeepRuns DEF SameRuns
  <2> QED BY <1>5, <1>e, <2>1, <2>4, WorksLife DEF InputAllowed, local
<1>6. ASSUME NEW cs \in Seq(Calls), ModelDecides(cs)
      PROVE  Lifecycle!LNext /\ Grows
  <2>1. cur \in RunIds /\ Busy
    BY <1>0, <1>6 DEF ModelDecides
  <2> DEFINE said == Append1(data, Msg("assistant", cur, cs))
             next == IF cs = <<>> THEN "output" ELSE "tools"
  <2>2. said \in SessionData /\ said.runs = data.runs
    BY <1>6, <1>k, <2>1, MsgType, Append1Type DEF TypeOK
  <2>3. data' = said \/ data' = Checkpointed(said, cur)
    BY <1>6 DEF ModelDecides
  <2> HIDE DEF said
  <2>4. data'.runs = data.runs
    BY <2>1, <2>2, <2>3, MessagesKeepRuns DEF SameRuns
  <2>5. \/ (Persist(data') \/ Unsaved) /\ Goto(next) /\ cur' = cur
        \/ SaveFails /\ Return("error")
    BY <1>6 DEF ModelDecides
  <2>6. next \in {"model", "output", "tools"}
    OBVIOUS
  <2> HIDE DEF next
  <2> QED BY <1>e, <2>1, <2>4, <2>5, <2>6, WorksLife
<1>7. CASE ModelAnswers
  BY <1>6, <1>7, NoCallsType DEF ModelAnswers
<1>8. CASE ModelCallsTools
  BY <1>6, <1>8, DecidedCalls
<1>9. CASE OutputAllowed
  <2> DEFINE kept == IF mode = "prompt" THEN Compacted(data) ELSE data
             done == Marked(kept, cur, "completed")
  <2>1. cur \in RunIds /\ Busy
    BY <1>0, <1>9 DEF OutputAllowed
  <2>2. kept \in SessionData /\ kept.runs = data.runs
    BY <2>1, <1>s, CompactedType, MessagesKeepRuns DEF SameRuns
  <2>3. data' = Checkpointed(done, cur)
    BY <1>9 DEF OutputAllowed
  <2> HIDE DEF kept
  <2>4. /\ Status(done) = [Status(data) EXCEPT ![cur] = "completed"] /\ done \in SessionData
    BY <1>s, <2>1, <2>2, MarkedStatus, MarkedType, SameStatus
  <2> HIDE DEF done
  <2>5. Status(data') = [Status(data) EXCEPT ![cur] = "completed"]
    BY <2>1, <2>3, <2>4, MessagesKeepRuns, SameStatus DEF SameRuns
  <2>6. ASSUME Persist(data'), Return("ok") PROVE Lifecycle!LNext /\ Grows
    BY <1>s, <2>1, <2>5, <2>6, EndsLife
  <2>7. ASSUME SaveFails, Return("error") PROVE Lifecycle!LNext /\ Grows
    BY <1>s, <2>1, <2>5, <2>7, EndsLife
  <2> QED BY <1>9, <2>6, <2>7 DEF OutputAllowed
<1>10. CASE CompactionFails
  BY <1>0, <1>10, <1>e DEF CompactionFails
<1>11. CASE ToolsDone
  <2>1. cur \in RunIds /\ Busy /\ data'.runs = data.runs
    BY <1>0, <1>11, <1>k DEF ToolsDone
  <2> QED BY <1>11, <1>e, <2>1, WorksLife DEF ToolsDone
<1>12. CASE ResumeSaved
  <2>1. cur \in RunIds /\ Busy /\ data'.runs = data.runs
    BY <1>0, <1>12, <1>k DEF ResumeSaved
  <2> QED BY <1>12, <1>e, <2>1, WorksLife DEF ResumeSaved, local
<1>13. ASSUME NEW c \in Calls, AtCall(c)
       PROVE  Busy /\ cur \in RunIds
  BY <1>0, <1>13 DEF AtCall
<1>14. ASSUME NEW c \in Calls, UnknownTool(c) \/ ToolBlocked(c) \/ PolicyFails(c)
       PROVE  Lifecycle!LNext /\ Grows
  BY <1>13, <1>14, <1>e, <1>x DEF UnknownTool, ToolBlocked, PolicyFails, NeedsDecision, Failed
<1>15. ASSUME NEW c \in Calls, PauseForApproval(c)
       PROVE  Lifecycle!LNext /\ Grows
  <2> DEFINE paused == PausedFor(data, cur, c)
  <2>1. Busy /\ cur \in RunIds
    BY <1>13, <1>15 DEF PauseForApproval, NeedsDecision
  <2>2. Status(paused) = [Status(data) EXCEPT ![cur] = "paused"] /\ paused \in SessionData
    BY <1>s, <2>1, PausedStatus, PausedForType
  <2>3. data' = Checkpointed(paused, cur)
    BY <1>15 DEF PauseForApproval
  <2> HIDE DEF paused
  <2>4. Status(data') = [Status(data) EXCEPT ![cur] = "paused"]
    BY <2>1, <2>2, <2>3, MessagesKeepRuns, SameStatus DEF SameRuns
  <2>5. ASSUME Persist(data'), Return("approval") PROVE Lifecycle!LNext /\ Grows
    BY <1>s, <2>1, <2>4, <2>5, EndsLife
  <2>6. ASSUME SaveFails, Return("error") PROVE Lifecycle!LNext /\ Grows
    BY <1>s, <2>1, <2>4, <2>6, EndsLife
  <2> QED BY <1>15, <2>5, <2>6 DEF PauseForApproval
<1>16. ASSUME NEW c \in Calls, PolicyRejects(c) \/ Execute(c)
       PROVE  Lifecycle!LNext /\ Grows
  <2>1. Busy /\ cur \in RunIds
    BY <1>13, <1>16 DEF PolicyRejects, Execute, NeedsDecision
  <2>2. data' = Answer(data, cur, c) /\ NextCall
    BY <1>16 DEF PolicyRejects, Execute
  <2>3. data'.runs = data.runs
    BY <1>k, <2>1, <2>2
  <2> QED BY <2>1, <2>2, <2>3, WorksLife DEF NextCall
<1> QED BY <1>1, <1>2, <1>3, <1>4, <1>5, <1>7, <1>8, <1>9, <1>10, <1>11, <1>12,
           <1>14, <1>15, <1>16 DEF OpStep, ToolStep

(* The session implements RunLifecycle: whatever the messages, calls, failures
   and crashes, a step moves at most one run along its lifecycle, a paused run
   only by a decision, and success is reported only when the store knows it. *)
THEOREM ImplementsRunLifecycle == Spec => ImplementsLifecycle
<1>1. Init => Lifecycle!LInit
  BY DEF Init, Lifecycle!LInit, Lifecycle!NothingRun, EmptyData, NoRun, Busy
<1>2. TypeOK /\ PauseInv /\ [Next]_vars => [Lifecycle!LNext]_Lifecycle!lifecycleVars
  <2>1. ASSUME UNCHANGED vars PROVE UNCHANGED Lifecycle!lifecycleVars
    BY <2>1 DEF vars, local, Lifecycle!lifecycleVars, Busy
  <2> QED BY <2>1, ProcessLife, CallLife, OpLife DEF Next
<1> QED BY <1>1, <1>2, Invariance, PTL DEF Spec, ImplementsLifecycle, Lifecycle!LSpec

-----------------------------------------------------------------------------
(* Runs are kept, unless a load or a delete fails: either leaves an empty session in
   memory over a history on disk, which the next save replaces. *)

MemoryFaithful == {"load", "delete"} \cap Faults = {}

(* What the disk knows of a run, memory knows. *)
KeptInv == pc # "down" =>
    \A r \in RunIds : disk.runs[r].status # "none" => data.runs[r].status # "none"

(* The store is written with what is in memory. *)
LEMMA SavesMemory ==
    ASSUME CallStep \/ OpStep
    PROVE  disk' = disk \/ disk' = data' \/ Delete
<1> USE DEF Persist, Unsaved, SaveFails, TrySave
<1>1. CASE CallStep
  BY <1>1 DEF CallStep, Prompt, Resume, ResumeWith, ResumeRefused, Shell,
              ResumeRun, ResumeRunRefused
<1>2. CASE ToolStep
  BY <1>2 DEF ToolStep, UnknownTool, ToolBlocked, PolicyFails, PauseForApproval,
              PolicyRejects, Execute, ToolsDone, NextCall
<1>3. CASE OpStep /\ ~ToolStep
  BY <1>3 DEF OpStep, InputBlocked, InputAllowed, ModelFails, ModelAnswers, ModelCallsTools,
              ModelDecides, TurnsExceeded, OutputBlocked, OutputAllowed, CompactionFails,
              ResumeSaved
<1> QED BY <1>1, <1>2, <1>3

KeepsRuns == disk' # EmptyData =>
    \A r \in RunIds : disk.runs[r].status # "none" => disk'.runs[r].status # "none"

LEMMA KeptStep ==
    ASSUME MemoryFaithful, TypeOK, PauseInv, KeptInv, [Next]_vars
    PROVE  KeptInv' /\ KeepsRuns
<1>0. \A r \in RunIds : EmptyData.runs[r].status = "none"
  BY DEF EmptyData
<1>1. CASE UNCHANGED vars
  BY <1>1 DEF vars, KeptInv, KeepsRuns
<1>2. CASE LoadSession
  BY <1>2 DEF LoadSession, MemoryFaithful, KeptInv, KeepsRuns
<1>3. CASE Crash
  BY <1>3 DEF Crash, KeptInv, KeepsRuns
<1>4. CASE Delete
  <2>1. disk' = EmptyData
    BY <1>4 DEF Delete, MemoryFaithful
  <2> QED BY <1>0, <2>1 DEF KeptInv, KeepsRuns
<1>5. CASE (CallStep \/ OpStep) /\ ~Delete
  <2>1. Grows /\ pc # "down"
    <3>1. Grows
      BY <1>5, CallLife, OpLife
    <3>2. pc # "down"
      <4>1. CallStep => pc = "idle"
        BY <1>5 DEF CallStep, Prompt, Resume, ResumeWith, ResumeRefused, Shell,
                    ResumeRun, ResumeRunRefused, Called
      <4>2. OpStep => pc # "down"
        BY DEF OpStep, InputBlocked, InputAllowed, ModelFails, ModelAnswers, ModelCallsTools,
               ModelDecides, TurnsExceeded, OutputBlocked, OutputAllowed, CompactionFails,
               ResumeSaved, ToolStep, UnknownTool, ToolBlocked, PolicyFails,
               PauseForApproval, PolicyRejects, Execute, ToolsDone, NeedsDecision, AtCall, InOp
      <4> QED BY <1>5, <4>1, <4>2
    <3> QED BY <3>1, <3>2
  <2>2. disk' = disk \/ disk' = data'
    BY <1>5, SavesMemory
  <2> QED BY <2>1, <2>2 DEF KeptInv, KeepsRuns, Grows
<1> QED BY <1>1, <1>2, <1>3, <1>4, <1>5 DEF Next

(* Where loads and deletes of the store do not fail, the disk forgets a run only when
   the session is deleted, whatever saves fail and whenever the process dies. *)
THEOREM RunsAreKept == ASSUME MemoryFaithful PROVE Spec => RunsKept
<1>1. Init => KeptInv
  BY DEF Init, KeptInv
<1>2. TypeOK /\ PauseInv /\ KeptInv /\ [Next]_vars => KeptInv' /\ [KeepsRuns]_vars
  BY KeptStep
<1> QED BY <1>1, <1>2, Invariance, PTL DEF Spec, RunsKept, KeepsRuns
=============================================================================
