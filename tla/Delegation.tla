---------------------------- MODULE Delegation ----------------------------
(***************************************************************************)
(* Runs that delegate: the built-in tools task and handoff (tools.go) let  *)
(* a run start another run in a child session and wait for its answer      *)
(* (runTask, runHandoff).  A call of the application is a stack of runs in *)
(* one goroutine: each is in the middle of a tool call that waits for the  *)
(* run above it.                                                           *)
(*                                                                         *)
(* Agents are numbered in the order NewAgent made them, so cloneHandoffs   *)
(* can only have copied agents with smaller numbers.  A run is modelled by *)
(* its turns and tool calls here; SessionRuns has the rest of it.          *)
(*                                                                         *)
(* The call at the bottom of the stack is a prompt (runPrompt), or takes   *)
(* the latest run of its session up again (resumeApproval, resumeRun, both *)
(* going on in continueLocked, which saves less); every child is a prompt. *)
(***************************************************************************)
EXTENDS Integers, Sequences, SequencesExt

CONSTANTS
    NAgents,       \* agents of the process
    Handoffs,      \* AgentConfig.Handoffs of each agent
    MaxTaskDepth,  \* maxTaskDepth
    MaxTurns,      \* AgentConfig.MaxTurns
    MaxBatch,      \* bound: tool calls in one model response
    MaxSessions,   \* bound: sessions made
    MaxLater,      \* bound: sessions made once the application has called twice
    MaxCalls,      \* bound: calls of the application
    SaveErrors     \* TRUE: a save may fail

Agents   == 1..NAgents
Sessions == 1..MaxSessions

ASSUME DelegationAssumption ==
    /\ NAgents \in Nat \ {0} /\ MaxTaskDepth \in Nat
    /\ MaxTurns \in Nat \ {0} /\ MaxBatch \in Nat \ {0} /\ MaxSessions \in Nat /\ MaxLater \in 0..MaxSessions
    /\ MaxCalls \in Nat
    /\ SaveErrors \in BOOLEAN
    /\ Handoffs \in [Agents -> SUBSET Agents]
    /\ \A a \in Agents : \A b \in Handoffs[a] : b < a

VARIABLES
    stack,    \* the runs in progress, the one the application called first
    made,     \* the agent of each session made so far
    mem,      \* Session.data of each session
    disk,     \* what the store holds of each session
    expired,  \* the context of the application's call is done
    calls     \* calls of the application

vars == <<stack, made, mem, disk, expired, calls>>

-----------------------------------------------------------------------------
(* Of a session's record: the status of its latest run, "ended" for completed and
   failed; ckpt: whether that run has a checkpoint, and whether the latest one ends
   with a request for tools ("calls"; a pause leaves it, as nothing reads it then);
   done: the record has a "completed" checkpoint; heard: child sessions whose
   answer the record has had as a tool result (resumeRun may cut the history back)
   and, for a handoff, as a HandoffRecord. *)
Data    == [status : {"none", "running", "paused", "ended"}, ckpt : {"none", "plain", "calls"},
            done : BOOLEAN, heard : SUBSET Sessions]
NewData == [status |-> "none", ckpt |-> "none", done |-> FALSE, heard |-> {}]
Marked(data, status)     == [data EXCEPT !.status = status]
Checkpointed(data, ckpt) == [data EXCEPT !.ckpt = ckpt]
Begun(data)  == [data EXCEPT !.status = "running", !.ckpt = "none"]
Ended(data)  == Marked(data, "ended")
Paused(data) == Marked(data, "paused")

(* turn is -1 while a run that is taken up again handles the calls it had left. *)
Resumes == {"resume", "resumeRun"}
Run     == [sess : Sessions, depth : 0..MaxTaskDepth,
            kind : {"call", "task", "handoff"} \cup Resumes,
            at : {"input", "model", "tools", "output"}, turn : -1..MaxTurns, left : 0..MaxBatch]
Entry(s, d, kind, at, t, l) == [sess |-> s, depth |-> d, kind |-> kind,
                                at |-> at, turn |-> t, left |-> l]
NewRun(s, d, kind) == Entry(s, d, kind, "input", 0, 0)

Active    == stack # <<>>
Top       == Last(stack)
Mine      == mem[Top.sess]                      \* Session.data of the run on top
Agent     == made[Top.sess]
Resumed   == Top.kind \in Resumes
At(where) == Active /\ Top.at = where
Step(where, t, l) == Entry(Top.sess, Top.depth, Top.kind, where, t, l)
Goes(run) == stack' = [stack EXCEPT ![Len(stack)] = run]

Keeps(data)   == mem' = [mem EXCEPT ![Top.sess] = data]
Saves(data)   == disk' = [disk EXCEPT ![Top.sess] = data]
SaveFails     == SaveErrors /\ UNCHANGED disk
TrySave(data) == Saves(data) \/ SaveFails

Init == /\ stack = <<>> /\ made = <<>> /\ expired = FALSE /\ calls = 0
        /\ mem = [s \in Sessions |-> NewData] /\ disk = [s \in Sessions |-> NewData]

-----------------------------------------------------------------------------
(* Starting runs.  The application calls a session of its own, a handoff's,
   which the target agent keeps, or a task's, which it loads from the store:
   Agent.Session gives each of them depth 0. *)

Starts(s, run, data) == stack' = Append(stack, run) /\ mem' = [mem EXCEPT ![s] = data]
Room == IF calls <= 1 THEN MaxSessions ELSE MaxLater
Makes(a, d, kind) ==
    LET s == Len(made) + 1 IN
    /\ Len(made) < Room
    /\ made' = Append(made, a)
    /\ Starts(s, NewRun(s, d, kind), Begun(mem[s]))

Calls == /\ ~Active /\ calls < MaxCalls /\ calls' = calls + 1
         /\ calls > 0 => Len(made) < MaxLater
         /\ UNCHANGED <<disk, expired>>

Call ==
    /\ Calls
    /\ \/ \E a \in Agents : Makes(a, 0, "call")
       \/ \E s \in 1..Len(made) :
             Starts(s, NewRun(s, 0, "call"), Begun(mem[s])) /\ UNCHANGED made

(* The decision on the call a run waits with.  It takes the request out of memory
   and executes the call, or rejects it; the first save is the one after that. *)
Resume ==
    /\ Calls /\ UNCHANGED made
    /\ \E s \in 1..Len(made), n \in 0..1 :
          /\ mem[s].status = "paused"
          /\ Starts(s, Entry(s, 0, "resume", "tools", -1, n), Marked(mem[s], "running"))

(* The latest checkpoint of a run that does not wait for approval, whatever has
   become of the run: the calls it ends with are executed, again perhaps, before
   the model is asked.  Nothing is saved before that; toolsForCall may fail. *)
ResumeRun ==
    /\ Calls /\ UNCHANGED made
    /\ \E s \in 1..Len(made) :
          LET data == Marked(mem[s], "running") IN
          /\ mem[s].status # "paused" /\ mem[s].ckpt # "none"
          /\ \/ /\ mem[s].ckpt = "calls"
                /\ \E n \in 1..MaxBatch :
                      Starts(s, Entry(s, 0, "resumeRun", "tools", -1, n), data)
             \/ /\ mem[s].ckpt = "plain"
                /\ Starts(s, Entry(s, 0, "resumeRun", "model", 0, 0), data)
             \/ mem' = [mem EXCEPT ![s] = data] /\ UNCHANGED stack

(* Mutant: the child does not count as one deeper. *)
TaskSameDepth ==
    /\ At("tools") /\ Top.left > 0
    /\ Makes(Agent, Top.depth, "task")
    /\ UNCHANGED <<disk, expired, calls>>

Task ==
    /\ At("tools") /\ Top.left > 0 /\ Top.depth < MaxTaskDepth
    /\ Makes(Agent, Top.depth + 1, "task")
    /\ UNCHANGED <<disk, expired, calls>>

Handoff ==
    /\ At("tools") /\ Top.left > 0 /\ ~expired
    /\ \E a \in Handoffs[Agent] : Makes(a, 0, "handoff")
    /\ UNCHANGED <<disk, expired, calls>>

-----------------------------------------------------------------------------
(* A run ends: its answer, or "ERROR: ..." for every error and also for a pause,
   is the result of the tool call that waits for it.  The Session of a task is
   dropped: to open it again is to load it. *)

Parent == stack[Len(stack) - 1].sess
Result(answers) == [mem[Parent] EXCEPT !.heard = IF answers THEN @ \cup {Top.sess} ELSE @]

Ends(answers, data) ==
    IF Len(stack) = 1
    THEN /\ Keeps(data)
         /\ stack' = <<>> /\ expired' = FALSE
    ELSE /\ mem' = [mem EXCEPT ![Parent]   = Result(answers),
                               ![Top.sess] = IF Top.kind = "task" THEN disk'[Top.sess] ELSE data]
         /\ stack' = [Front(stack) EXCEPT ![Len(stack) - 1].left = @ - 1]
         /\ UNCHANGED expired

Continues(run, data) == Keeps(data) /\ Goes(run) /\ UNCHANGED expired

-----------------------------------------------------------------------------
(* The steps of the run on top (runPrompt; continueLocked where it is Resumed). *)

(* Every checkpoint but the one of a failure must be saved for the run to go on. *)
Checkpoint(data, run) ==
    \/ Saves(data) /\ Continues(run, data)
    \/ SaveFails /\ Ends(FALSE, data)

StopsUnsaved(data) == UNCHANGED disk /\ Ends(FALSE, data)
Fails == TrySave(Ended(Mine)) /\ Ends(FALSE, Ended(Mine))
Same  == UNCHANGED <<made, calls>>

Input == /\ At("input") /\ Same
         /\ LET data == Checkpointed(Mine, "plain") IN
            \/ Checkpoint(data, Step("model", 0, 0))
            \/ Saves(data) /\ Ends(FALSE, data)           \* toolsForCall

InputBlocked == At("input") /\ Same /\ Fails

AsksModel == At("model") /\ Top.turn < MaxTurns /\ Same

(* Mutant: tools run although the request for them is not saved. *)
AsksUnsaved ==
    /\ AsksModel /\ ~Resumed
    /\ \E n \in 1..MaxBatch :
          LET data == Checkpointed(Mine, "calls") IN
          TrySave(data) /\ Continues(Step("tools", Top.turn, n), data)

(* Mutant: the loop condition is off by one. *)
AsksOnceMore ==
    /\ At("model") /\ Top.turn <= MaxTurns /\ Same /\ ~Resumed
    /\ Checkpoint(Checkpointed(Mine, "calls"), Step("tools", Top.turn, 1))

AsksForTools ==
    /\ AsksModel /\ ~Resumed
    /\ \E n \in 1..MaxBatch : Checkpoint(Checkpointed(Mine, "calls"), Step("tools", Top.turn, n))

FinalText ==
    /\ AsksModel /\ ~Resumed
    /\ Checkpoint(Checkpointed(Mine, "plain"), Step("output", Top.turn, 0))

(* continueLocked acts on what the model says without a checkpoint of it. *)
AsksOrTellsResumed ==
    /\ AsksModel /\ Resumed /\ UNCHANGED disk
    /\ \/ \E n \in 1..MaxBatch : Continues(Step("tools", Top.turn, n), Mine)
       \/ Continues(Step("output", Top.turn, 0), Mine)

(* Mutant: a child's model call does not get the caller's context. *)
ModelFailsAtRoot == AsksModel /\ Fails /\ (expired => Len(stack) = 1)

ModelFails    == AsksModel /\ Fails
TurnsExceeded == At("model") /\ Top.turn = MaxTurns /\ Same /\ Fails

(* The output guardrail blocks: continueLocked does not save that. *)
OutputBlocked ==
    /\ At("output") /\ Same
    /\ \/ ~Resumed /\ Fails
       \/ Resumed /\ StopsUnsaved(Ended(Mine))

(* Only runPrompt compacts; the run stays "running". *)
CompactionFails == At("output") /\ Same /\ ~Resumed /\ StopsUnsaved(Mine)

Completed == [Ended(Mine) EXCEPT !.done = TRUE]

(* Mutant: a child answers although its completion is not saved. *)
AnswersUnsaved == At("output") /\ Same /\ TrySave(Completed) /\ Ends(TRUE, Completed)

FinalAnswer ==
    /\ At("output") /\ Same
    /\ \/ Saves(Completed) /\ Ends(TRUE, Completed)
       \/ SaveFails /\ Ends(FALSE, Completed)

(* Any other tool, a rejected call; a task too deep, an unknown target, a handoff
   with the context done: its result or error goes into the history. *)
OtherTool ==
    /\ At("tools") /\ Top.left > 0 /\ Same /\ UNCHANGED disk
    /\ Continues(Step("tools", Top.turn, Top.left - 1), Mine)

(* A blocking guardrail; a pause for approval; a policy that fails, or a tool that
   nobody offers: neither is saved, and a resumed run is not even marked for the
   latter.  Resume asks none of this of the call that was decided. *)
StopsAtTool ==
    /\ At("tools") /\ Top.left > 0 /\ Same
    /\ Top.kind = "resume" => Top.turn >= 0
    /\ \/ Fails
       \/ TrySave(Paused(Mine)) /\ Ends(FALSE, Paused(Mine))
       \/ StopsUnsaved(Ended(Mine))
       \/ Resumed /\ StopsUnsaved(Mine)

ToolsDone ==
    /\ At("tools") /\ Top.left = 0 /\ Same
    /\ Checkpoint(Checkpointed(Mine, "plain"), Step("model", Top.turn + 1, 0))

-----------------------------------------------------------------------------
(* The deadline or the cancellation of the caller's context, which task and
   handoff pass on; and the death of the process. *)

Deadline == /\ Active /\ ~expired /\ expired' = TRUE
            /\ UNCHANGED <<stack, made, mem, disk, calls>>

Crash == /\ stack' = <<>> /\ mem' = disk /\ expired' = FALSE
         /\ UNCHANGED <<made, disk, calls>>

RunStep == \/ Input \/ InputBlocked
           \/ AsksForTools \/ FinalText \/ AsksOrTellsResumed \/ ModelFails \/ TurnsExceeded
           \/ OutputBlocked \/ CompactionFails \/ FinalAnswer
           \/ OtherTool \/ StopsAtTool \/ ToolsDone \/ Task \/ Handoff
Next == Call \/ Resume \/ ResumeRun \/ RunStep \/ Deadline \/ Crash

Spec == Init /\ [][Next]_vars

(* Tools return; a model answers in its own time, or at the deadline. *)
WaitsForModel == At("model") /\ Top.turn < MaxTurns
FairSpec == /\ Spec
            /\ WF_vars(RunStep /\ ~WaitsForModel)
            /\ WF_vars(expired /\ ModelFails)

-----------------------------------------------------------------------------
(* Properties. *)

TypeOK ==
    /\ stack \in Seq(Run)
    /\ made \in Seq(Agents)
    /\ mem \in [Sessions -> Data] /\ disk \in [Sessions -> Data]
    /\ expired \in BOOLEAN
    /\ calls \in 0..MaxCalls

(* Delegation cannot nest for ever, although a handoff starts again at depth 0:
   it goes to an older agent, so the limit on tasks bounds the whole stack. *)
NestingBounded == Len(stack) <= (MaxTaskDepth + 1) * NAgents

(* A stored history never has the answer of a child whose completion is not
   stored ("HandoffResult is persisted after a target Agent completes the
   transferred work", runtime.go): whatever saves fail and whenever the process
   dies, what a parent was told can be looked up. *)
AnswersAccountedFor ==
    \A s, c \in Sessions : c \in disk[s].heard => disk[c].done

(* Every run that a prompt started and that executes tools, those that wait for a
   child included, is on disk as running, with the request it is executing as its
   latest checkpoint: what a process that died in the middle of a delegation was
   doing can be taken up again.  Of a run that Resume or ResumeRun took up, the root of
   its stack, this is not so: continueLocked makes no checkpoint of a decision. *)
WaitingRunsStored ==
    \A i \in DOMAIN stack : stack[i].at = "tools" /\ stack[i].kind \notin Resumes =>
        LET stored == disk[stack[i].sess] IN
        stored.status = "running" /\ stored.ckpt = "calls"

(* A call whose context is done returns, however deep it has nested, although
   the model may never answer again. *)
DeadlineUnwinds == expired ~> ~Active
=============================================================================
