----------------------------- MODULE SessionRuns -----------------------------
(***************************************************************************)
(* One Session of one Agent (session.go) over a durable SessionStore: the  *)
(* operations Prompt, Resume, ResumeRun, Shell and Delete, the model/tool  *)
(* loop they drive, the approval pauses, and what a crash of the process   *)
(* loses.                                                                  *)
(*                                                                         *)
(* Session.mu makes the operations of a session take turns, so at most one *)
(* is in progress.  A step ends where the code calls out or could lose the *)
(* process: a guardrail, a model call, a tool execution, a save.  `data`   *)
(* is Session.data, gone after a crash; `disk` is what the store holds.    *)
(*                                                                         *)
(* A message keeps its role, the run that appended it and the tool calls   *)
(* it requests or answers.  Of the checkpoint list only the latest         *)
(* checkpoint of each run is ever read, so only that one is kept.          *)
(***************************************************************************)
EXTENDS Integers, Sequences, SequencesExt

CONSTANTS
    MaxRuns,      \* bound: runs ever started
    MaxCalls,     \* bound: tool-call ids ever issued
    MaxBatch,     \* bound: tool calls in one model response
    MaxOps,       \* bound: session operations ever called
    MaxTurns,     \* AgentConfig.MaxTurns
    MaxMessages,  \* CompactionConfig.MaxMessages; 0 = no compactor
    KeepRecent,   \* CompactionConfig.KeepRecent
    AgentTools,   \* names of the built-in and agent-level tools
    CallTools,    \* names of the tools a caller may add with WithTools
    Names,        \* names the model may ask for
    Sensitive,    \* names of the tools with RequiresApproval
    Policy,       \* outcomes of AgentConfig.Approval; {"undecided"} = none set
    Blocking,     \* guardrail stages at which a check may fail
    Faults,       \* external calls that may fail
    Ops,          \* operations the caller uses
    FreshIds      \* TRUE: the provider never issues a tool-call id twice

ASSUME BoundsAssumption ==
    /\ MaxRuns \in Nat \ {0}
    /\ MaxCalls \in Nat \ {0}
    /\ MaxBatch \in Nat \ {0}
    /\ MaxOps \in Nat
    /\ MaxTurns \in Nat \ {0}     \* NewAgent replaces MaxTurns <= 0 by a default
    /\ MaxMessages \in Nat
    /\ KeepRecent \in Nat
ASSUME ChoicesAssumption ==
    /\ Policy \subseteq {"undecided", "approve", "reject", "error"}
    /\ Blocking \subseteq {"input", "tool", "output"}
    /\ Faults \subseteq {"save", "load", "delete", "scope", "model", "compact"}
    /\ Ops \subseteq {"prompt", "resume", "resumeRun", "shell", "delete"}
    /\ FreshIds \in BOOLEAN

VARIABLES
    data,      \* Session.data in memory
    disk,      \* what the store holds under the session's key
    pc,        \* where the operation in progress is
    cur,       \* runID of the operation in progress (or of the last one)
    mode,      \* which loop is running: runPrompt, resumeRun's replay, continueLocked
    turn,      \* the loop variable turn
    queue,     \* tool calls of the current response still to be handled
    tools,     \* names in toolByName
    reply,     \* what the last operation returned
    nruns,     \* run ids issued
    issued,    \* call ids issued
    ops,       \* operations called
    execs,     \* ghost: how often each call was executed
    approved,  \* ghost: approving decisions, of a human or the policy, for each call
    settled    \* ghost: calls answered in a checkpoint of their run that reached the disk

local  == <<cur, mode, turn, queue, tools>>
ids    == <<nruns, issued>>
ghosts == <<execs, approved, settled>>
vars   == <<data, disk, pc, local, reply, ids, ops, ghosts>>

-----------------------------------------------------------------------------
(* Session data. *)

RunIds  == 1..MaxRuns
CallIds == 1..MaxCalls
Calls   == [id : CallIds, name : Names]

NoRun      == 0
NoApproval == 0

Message   == [role : {"user", "assistant", "tool", "system"},
              run : RunIds \cup {NoRun}, calls : Seq(Calls)]
RunStatus == {"none", "running", "paused", "completed", "failed"}
RunState  == [status : RunStatus, approval : CallIds \cup {NoApproval}]
Approval  == [run : RunIds, call : Calls]

(* A checkpoint always holds a message, so <<>> stands for "no checkpoint". *)
SessionData == [msgs : Seq(Message), runs : [RunIds -> RunState],
                ckpts : [RunIds -> Seq(Message)], pending : SUBSET Approval]

EmptyData == [msgs    |-> <<>>,
              runs    |-> [r \in RunIds |-> [status |-> "none", approval |-> NoApproval]],
              ckpts   |-> [r \in RunIds |-> <<>>],
              pending |-> {}]
(* Load finding nothing and Load finding no messages and no runs give the same
   new session, so EmptyData on disk also stands for a missing entry. *)

Msg(role, r, cs) == [role |-> role, run |-> r, calls |-> cs]
Append1(d, m)    == [d EXCEPT !.msgs = Append(@, m)]
Answer(d, r, c)  == Append1(d, Msg("tool", r, <<c>>))

Marked(d, r, status)   == [d EXCEPT !.runs[r].status = status]
Checkpointed(d, r)     == [d EXCEPT !.ckpts[r] = d.msgs]
PausedFor(d, r, c)     ==
    [d EXCEPT !.runs[r] = [status |-> "paused", approval |-> c.id],
              !.pending = {a \in @ : a.run # r \/ a.call.id # c.id}
                            \cup {[run |-> r, call |-> c]}]

(* The calls answered, by a result or a rejection, in their run's checkpoint. *)
AnsweredIn(d) ==
    {c \in Calls : \E r \in RunIds : \E i \in DOMAIN d.ckpts[r] :
        d.ckpts[r][i] = Msg("tool", r, <<c>>)}

(* maybeCompactLocked: how many messages survive, and the compacted data. *)
Keep ==
    LET wanted  == IF KeepRecent > 0 THEN KeepRecent ELSE MaxMessages \div 2
        atLeast == IF wanted < 1 THEN 1 ELSE wanted
    IN  IF atLeast >= MaxMessages THEN MaxMessages - 1 ELSE atLeast
NeedsCompaction(d) == MaxMessages > 0 /\ Len(d.msgs) > MaxMessages /\ Keep >= 1
Compacted(d) ==
    IF NeedsCompaction(d)
    THEN [d EXCEPT !.msgs = <<Msg("system", NoRun, <<>>)>>
                               \o SubSeq(@, Len(@) - Keep + 1, Len(@))]
    ELSE d

-----------------------------------------------------------------------------
(* How an operation goes on, saves, and returns. *)

Goto(p) == pc' = p /\ UNCHANGED reply

Return(r) == /\ pc' = "idle" /\ reply' = r
             /\ turn' = 0 /\ queue' = <<>> /\ tools' = {} /\ mode' = "prompt"
             /\ UNCHANGED cur

Persist(d)   == disk' = d /\ settled' = settled \cup AnsweredIn(d)
Unsaved      == UNCHANGED <<disk, settled>>
SaveFails    == "save" \in Faults /\ Unsaved
(* `_ = s.saveLocked()`: the operation does not notice a failed save. *)
TrySave(d)   == Persist(d) \/ SaveFails

(* One operation more, if the caller uses it and the bound allows it. *)
Called(op) == /\ pc = "idle" /\ op \in Ops /\ ops < MaxOps
              /\ ops' = ops + 1
InOp(at)   == pc = at /\ UNCHANGED ops

-----------------------------------------------------------------------------
(* Process life: Agent.Session loads once per process; a crash loses memory. *)

Init ==
    /\ data = EmptyData /\ disk = EmptyData
    /\ pc = "down" /\ reply = "none"
    /\ cur = NoRun /\ mode = "prompt" /\ turn = 0 /\ queue = <<>> /\ tools = {}
    /\ nruns = 0 /\ issued = 0 /\ ops = 0
    /\ execs = [c \in Calls |-> 0]
    /\ approved = [c \in Calls |-> 0]
    /\ settled = {}

(* Mutant: the stored session is never looked at. *)
LoadForgets ==
    /\ pc = "down" /\ data' = EmptyData /\ Goto("idle")
    /\ UNCHANGED <<disk, local, ids, ops, ghosts>>

(* Agent.Session discards Load's ok flag: a load that fails looks like a
   session that does not exist. *)
LoadSession ==
    /\ pc = "down"
    /\ \/ data' = disk
       \/ "load" \in Faults /\ data' = EmptyData
    /\ Goto("idle")
    /\ UNCHANGED <<disk, local, ids, ops, ghosts>>

Crash ==
    /\ pc # "down"
    /\ data' = EmptyData
    /\ pc' = "down" /\ reply' = "none"
    /\ cur' = NoRun /\ mode' = "prompt" /\ turn' = 0 /\ queue' = <<>> /\ tools' = {}
    /\ UNCHANGED <<disk, ids, ops, ghosts>>

-----------------------------------------------------------------------------
(* Prompt (runPrompt): the run record, the input guardrail, the first
   checkpoint, the tool list. *)

Prompt ==
    /\ Called("prompt") /\ nruns < MaxRuns
    /\ nruns' = nruns + 1
    /\ cur' = nruns + 1 /\ mode' = "prompt"
    /\ data' = Marked(data, nruns + 1, "running")
    /\ \E t \in {{}, CallTools} : tools' = AgentTools \cup t
    /\ Goto("input")
    /\ UNCHANGED <<disk, turn, queue, issued, ghosts>>

InputBlocked ==
    /\ InOp("input") /\ "input" \in Blocking
    /\ data' = Marked(data, cur, "failed")
    /\ TrySave(data')
    /\ Return("error")
    /\ UNCHANGED <<ids, execs, approved>>

(* Mutant: the input is saved without a checkpoint. *)
InputNotCheckpointed ==
    /\ InOp("input")
    /\ data' = Append1(data, Msg("user", cur, <<>>))
    /\ \/ Persist(data') /\ Goto("model") /\ UNCHANGED local
       \/ SaveFails /\ Return("error")
    /\ UNCHANGED <<ids, execs, approved>>

InputAllowed ==
    /\ InOp("input")
    /\ data' = Checkpointed(Append1(data, Msg("user", cur, <<>>)), cur)
    /\ \/ Persist(data') /\ Goto("model") /\ UNCHANGED local
       \/ Persist(data') /\ "scope" \in Faults /\ Return("error")  \* toolsForCall
       \/ SaveFails /\ Return("error")
    /\ UNCHANGED <<ids, execs, approved>>

-----------------------------------------------------------------------------
(* The model call.  runPrompt checkpoints the model's decision before acting
   on it, continueLocked does not. *)

ModelFails ==
    /\ InOp("model") /\ turn < MaxTurns /\ "model" \in Faults
    /\ data' = Checkpointed(Marked(data, cur, "failed"), cur)
    /\ TrySave(data')
    /\ Return("error")
    /\ UNCHANGED <<ids, execs, approved>>

(* Mutant: the loop runs one turn too many. *)
ModelDecidesOnceMore(cs) ==
    /\ InOp("model") /\ turn <= MaxTurns
    /\ data' = Checkpointed(Append1(data, Msg("assistant", cur, cs)), cur)
    /\ Persist(data') /\ Goto(IF cs = <<>> THEN "output" ELSE "tools")
    /\ queue' = cs /\ UNCHANGED <<cur, mode, turn, tools, nruns, execs, approved>>

ModelDecides(cs) ==
    LET said == Append1(data, Msg("assistant", cur, cs))
        next == IF cs = <<>> THEN "output" ELSE "tools"
    IN  /\ InOp("model") /\ turn < MaxTurns
        /\ \/ /\ mode = "prompt"
              /\ data' = Checkpointed(said, cur)
              /\ \/ /\ Persist(data') /\ Goto(next)
                    /\ queue' = cs /\ UNCHANGED <<cur, mode, turn, tools>>
                 \/ SaveFails /\ Return("error")
           \/ /\ mode = "continue"
              /\ data' = said
              /\ Unsaved /\ Goto(next)
              /\ queue' = cs /\ UNCHANGED <<cur, mode, turn, tools>>
        /\ UNCHANGED <<nruns, execs, approved>>

ModelAnswers == ModelDecides(<<>>) /\ UNCHANGED issued

ModelCallsTools ==
    \E n \in 1..MaxBatch : \E names \in [1..n -> Names] :
        LET first == IF FreshIds THEN issued ELSE 0 IN
        /\ first + n <= MaxCalls
        /\ issued' = IF FreshIds THEN issued + n ELSE issued
        /\ ModelDecides([i \in 1..n |-> [id |-> first + i, name |-> names[i]]])

(* Mutant: the exit condition is off by one. *)
TurnsExceededLate ==
    /\ InOp("model") /\ turn > MaxTurns
    /\ data' = Marked(data, cur, "failed")
    /\ TrySave(data') /\ Return("error")
    /\ UNCHANGED <<ids, execs, approved>>

TurnsExceeded ==
    /\ InOp("model") /\ turn = MaxTurns
    /\ data' = Marked(data, cur, "failed")
    /\ TrySave(data')
    /\ Return("error")
    /\ UNCHANGED <<ids, execs, approved>>

-----------------------------------------------------------------------------
(* The final answer. *)

(* Only runPrompt saves the failure of an output guardrail. *)
OutputBlocked ==
    /\ InOp("output") /\ "output" \in Blocking
    /\ data' = Marked(data, cur, "failed")
    /\ IF mode = "prompt" THEN TrySave(data') ELSE Unsaved
    /\ Return("error")
    /\ UNCHANGED <<ids, execs, approved>>

(* Mutant: the error of the last save is dropped. *)
OutputUnsavedOk ==
    /\ InOp("output")
    /\ data' = Checkpointed(Marked(data, cur, "completed"), cur)
    /\ TrySave(data') /\ Return("ok")
    /\ UNCHANGED <<ids, execs, approved>>

OutputAllowed ==
    LET kept == IF mode = "prompt" THEN Compacted(data) ELSE data IN
    /\ InOp("output")
    /\ data' = Checkpointed(Marked(kept, cur, "completed"), cur)
    /\ \/ Persist(data') /\ Return("ok")
       \/ SaveFails /\ Return("error")
    /\ UNCHANGED <<ids, execs, approved>>

CompactionFails ==
    /\ InOp("output") /\ mode = "prompt"
    /\ NeedsCompaction(data) /\ "compact" \in Faults
    /\ Unsaved /\ Return("error")
    /\ UNCHANGED <<data, ids, execs, approved>>

-----------------------------------------------------------------------------
(* The tool calls of one response, in order. *)

AtCall(c) == InOp("tools") /\ queue # <<>> /\ c = Head(queue)

NextCall == /\ queue' = Tail(queue) /\ Goto("tools") /\ Unsaved
            /\ UNCHANGED <<cur, mode, turn, tools, ids>>

UnknownTool(c) ==
    /\ AtCall(c) /\ c.name \notin tools
    /\ data' = IF mode = "prompt" THEN Marked(data, cur, "failed") ELSE data
    /\ Unsaved /\ Return("error")
    /\ UNCHANGED <<ids, execs, approved>>

ToolBlocked(c) ==
    /\ AtCall(c) /\ c.name \in tools /\ "tool" \in Blocking
    /\ data' = Marked(data, cur, "failed")
    /\ TrySave(data')
    /\ Return("error")
    /\ UNCHANGED <<ids, execs, approved>>

NeedsDecision(c, outcome) ==
    /\ AtCall(c) /\ c.name \in tools /\ c.name \in Sensitive
    /\ outcome \in Policy

PolicyFails(c) ==
    /\ NeedsDecision(c, "error")
    /\ data' = Marked(data, cur, "failed")
    /\ Unsaved /\ Return("error")
    /\ UNCHANGED <<ids, execs, approved>>

(* Mutant: the pause is reported although it was not saved. *)
PauseUnsaved(c) ==
    /\ NeedsDecision(c, "undecided")
    /\ data' = Checkpointed(PausedFor(data, cur, c), cur)
    /\ TrySave(data') /\ Return("approval")
    /\ UNCHANGED <<ids, execs, approved>>

PauseForApproval(c) ==
    /\ NeedsDecision(c, "undecided")
    /\ data' = Checkpointed(PausedFor(data, cur, c), cur)
    /\ \/ Persist(data') /\ Return("approval")
       \/ SaveFails /\ Return("error")
    /\ UNCHANGED <<ids, execs, approved>>

(* Mutant: the loop goes on without recording the rejection. *)
PolicyRejectsSilently(c) ==
    /\ NeedsDecision(c, "reject") /\ mode # "replay"
    /\ NextCall
    /\ UNCHANGED <<data, execs, approved>>

(* resumeRun's replay loop has no such branch: it falls through to Execute. *)
PolicyRejects(c) ==
    /\ NeedsDecision(c, "reject") /\ mode # "replay"
    /\ data' = Answer(data, cur, c)
    /\ NextCall
    /\ UNCHANGED <<execs, approved>>

(* Mutant: the replay loop does not ask for approval. *)
ExecuteReplayed(c) ==
    /\ AtCall(c) /\ c.name \in tools
    /\ c.name \notin Sensitive \/ mode = "replay"
    /\ UNCHANGED approved
    /\ execs' = [execs EXCEPT ![c] = @ + 1]
    /\ data' = Answer(data, cur, c)
    /\ NextCall

Execute(c) ==
    /\ AtCall(c) /\ c.name \in tools
    /\ \/ c.name \notin Sensitive /\ UNCHANGED approved
       \/ NeedsDecision(c, "approve") /\ approved' = [approved EXCEPT ![c] = @ + 1]
       \/ NeedsDecision(c, "reject") /\ mode = "replay" /\ UNCHANGED approved
    /\ execs' = [execs EXCEPT ![c] = @ + 1]
    /\ data' = Answer(data, cur, c)
    /\ NextCall

ToolsDone ==
    /\ InOp("tools") /\ queue = <<>>
    /\ data' = Checkpointed(data, cur)
    /\ \/ /\ Persist(data') /\ Goto("model")
          /\ mode' = IF mode = "replay" THEN "continue" ELSE mode
          /\ turn' = IF mode = "replay" THEN 0 ELSE turn + 1
          /\ UNCHANGED <<cur, queue, tools>>
       \/ SaveFails /\ Return("error")
    /\ UNCHANGED <<ids, execs, approved>>

ToolStep == \/ \E c \in Calls : \/ UnknownTool(c) \/ ToolBlocked(c)
                                \/ PolicyFails(c) \/ PauseForApproval(c)
                                \/ PolicyRejects(c) \/ Execute(c)
            \/ ToolsDone

-----------------------------------------------------------------------------
(* Resume (resumeApproval): the decision is applied in memory, then saved. *)

(* Unknown approval, no tool list, or a tool this call does not offer. *)
ResumeRefused ==
    /\ Called("resume")
    /\ Return("error")
    /\ UNCHANGED <<data, disk, ids, ghosts>>

(* Mutant: the approval stays pending after its decision. *)
ResumeKeepsPending(a, t, decision) ==
    /\ Called("resume")
    /\ cur' = a.run /\ tools' = AgentTools \cup t
    /\ data' = Answer(Marked(data, a.run, "running"), a.run, a.call)
    /\ approved' = [approved EXCEPT ![a.call] = @ + 1]
    /\ execs' = [execs EXCEPT ![a.call] = @ + 1]
    /\ mode' = "continue"
    /\ Goto("resumed") /\ Unsaved
    /\ UNCHANGED <<turn, queue, ids>>

(* Any decision but "reject" executes the call. *)
ResumeWith(a, t, decision) ==
    LET taken == [Marked(data, a.run, "running") EXCEPT !.pending = @ \ {a}] IN
    /\ Called("resume")
    /\ a.call.name \in AgentTools \cup t
    /\ tools' = AgentTools \cup t
    /\ cur' = a.run
    /\ data' = Answer(taken, a.run, a.call)
    /\ approved' = IF decision = "approve"
                   THEN [approved EXCEPT ![a.call] = @ + 1] ELSE approved
    /\ execs' = IF decision = "reject"
                THEN execs ELSE [execs EXCEPT ![a.call] = @ + 1]
    /\ mode' = "continue"
    /\ Goto("resumed") /\ Unsaved
    /\ UNCHANGED <<turn, queue, ids>>
Resume == \E a \in data.pending, t \in {{}, CallTools}, decision \in {"approve", "reject"} :
             ResumeWith(a, t, decision)

ResumeSaved ==
    /\ InOp("resumed")
    /\ data' = Checkpointed(data, cur)
    /\ \/ Persist(data') /\ Goto("model") /\ UNCHANGED local
       \/ SaveFails /\ Return("error")
    /\ UNCHANGED <<ids, execs, approved>>

-----------------------------------------------------------------------------
(* ResumeRun: back to the latest checkpoint of the run. *)

IsPendingOf(d, r) == \E a \in d.pending : a.run = r /\ a.call.id = d.runs[r].approval

ResumeRunRefused(r) ==
    /\ Called("resumeRun")
    /\ \/ IsPendingOf(data, r) /\ Return("approval")
       \/ ~IsPendingOf(data, r) /\ data.ckpts[r] = <<>> /\ Return("error")
    /\ UNCHANGED <<data, disk, ids, ghosts>>

(* Mutant: a paused run is resumed without looking for its approval. *)
ResumeRunUnchecked(r) ==
    /\ Called("resumeRun")
    /\ data.ckpts[r] # <<>>
    /\ data' = [Marked(data, r, "running") EXCEPT !.msgs = data.ckpts[r]]
    /\ cur' = r /\ tools' = AgentTools /\ mode' = "continue" /\ queue' = <<>>
    /\ Goto("model")
    /\ UNCHANGED <<disk, turn, ids, ghosts>>

ResumeRun(r) ==
    LET restored == data.ckpts[r]
        replay   == Last(restored).role = "assistant" /\ Last(restored).calls # <<>>
    IN  /\ Called("resumeRun")
        /\ data.runs[r].status # "none"
        /\ ~IsPendingOf(data, r)
        /\ restored # <<>>
        /\ data' = [Marked(data, r, "running") EXCEPT !.msgs = restored]
        /\ \/ /\ cur' = r
              /\ \E t \in {{}, CallTools} : tools' = AgentTools \cup t
              /\ mode' = IF replay THEN "replay" ELSE "continue"
              /\ queue' = IF replay THEN Last(restored).calls ELSE <<>>
              /\ Goto(IF replay THEN "tools" ELSE "model")
              /\ UNCHANGED turn
           \/ "scope" \in Faults /\ Return("error")        \* toolsForCall
        /\ UNCHANGED <<disk, ids, ghosts>>

-----------------------------------------------------------------------------
(* Shell records its result as conversation context; Delete drops the lot. *)

Shell ==
    /\ Called("shell")
    /\ \/ /\ data' = Append1(data, Msg("tool", NoRun, <<>>))
          /\ \/ Persist(data') /\ Return("ok")
             \/ SaveFails /\ Return("error")
       \/ /\ "scope" \in Faults                  \* Env.Scope or Exec
          /\ UNCHANGED data /\ Unsaved /\ Return("error")
    /\ UNCHANGED <<ids, execs, approved>>

Delete ==
    /\ Called("delete")
    /\ data' = EmptyData
    /\ \/ disk' = EmptyData /\ Return("ok")
       \/ "delete" \in Faults /\ UNCHANGED disk /\ Return("error")
    /\ UNCHANGED <<ids, ghosts>>

-----------------------------------------------------------------------------
CallStep == \/ Prompt \/ Resume \/ ResumeRefused \/ Shell \/ Delete
            \/ \E r \in RunIds : ResumeRun(r) \/ ResumeRunRefused(r)

(* The steps of the operation in progress: the goroutine of the caller takes
   them without waiting for anyone. *)
OpStep == \/ InputBlocked \/ InputAllowed
          \/ ModelFails \/ ModelAnswers \/ ModelCallsTools \/ TurnsExceeded
          \/ OutputBlocked \/ OutputAllowed \/ CompactionFails
          \/ ToolStep \/ ResumeSaved

Next == LoadSession \/ Crash \/ CallStep \/ OpStep

Spec     == Init /\ [][Next]_vars
FairSpec == Spec /\ WF_vars(OpStep)

(* A model that may never answer: every call is made WithTimeout, and a model
   that is still busy at the deadline fails with the context's error.  Only
   runPrompt turns PromptOptions.Timeout into a deadline. *)
WaitsForModel   == pc = "model" /\ turn < MaxTurns
DeadlineExpires == mode = "prompt" /\ ModelFails
TimedSpec == /\ Spec
             /\ WF_vars(OpStep /\ ~WaitsForModel)
             /\ WF_vars(DeadlineExpires)

-----------------------------------------------------------------------------
(* Properties. *)

TypeOK ==
    /\ data \in SessionData
    /\ disk \in SessionData
    /\ pc \in {"down", "idle", "input", "model", "output", "tools", "resumed"}
    /\ cur \in RunIds \cup {NoRun}
    /\ mode \in {"prompt", "replay", "continue"}
    /\ turn \in 0..MaxTurns
    /\ queue \in Seq(Calls)
    /\ tools \subseteq AgentTools \cup CallTools
    /\ reply \in {"none", "ok", "error", "approval"}
    /\ nruns \in 0..MaxRuns
    /\ issued \in 0..MaxCalls
    /\ ops \in 0..MaxOps
    /\ execs \in [Calls -> Nat]
    /\ approved \in [Calls -> Nat]
    /\ settled \subseteq Calls

(* A paused run and its approval request stand or fall together, in memory and
   on disk alike: every pending request belongs to a paused run that names it,
   every paused run has its request, and no run has two.  Resume, ResumeRun,
   the pause and every error exit touch one side or both. *)
Coherent(d) ==
    /\ \A a \in d.pending : d.runs[a.run] = [status |-> "paused", approval |-> a.call.id]
    /\ \A r \in RunIds : d.runs[r].status = "paused" => IsPendingOf(d, r)
    /\ \A a, b \in d.pending : a.run = b.run => a = b
PausedMeansPending == Coherent(data) /\ Coherent(disk)

(* What makes PausedMeansPending inductive: the operation in progress drives a
   run that is "running", in memory, so never one that waits for an approval;
   run ids not issued yet are unused; the loop variable is in range. *)
Busy         == pc \notin {"down", "idle"}
Unused(d, n) == \A r \in RunIds : r > n => d.runs[r].status = "none"
Control      == /\ Busy => cur \in RunIds /\ data.runs[cur].status = "running"
                /\ ~Busy => turn = 0
                /\ pc \in {"tools", "output"} => turn < MaxTurns
PauseInv     == /\ PausedMeansPending
                /\ Unused(data, nruns) /\ Unused(disk, nruns)
                /\ Control

(* Once a call's result or rejection is in a checkpoint of its run that reached
   the disk, no replay, resume, crash or lost load executes that call again. *)
SettledNeverReruns == [][\A c \in settled : execs'[c] = execs[c]]_vars

(* The same of every result in the saved history, checkpointed or not: "ResumeRun
   can restore this checkpoint and execute pending tool calls once". *)
RecordedNeverReruns ==
    [][\A c \in Calls : (\E i \in DOMAIN disk.msgs : disk.msgs[i].calls = <<c>>
                                                    /\ disk.msgs[i].role = "tool")
                         => execs'[c] = execs[c]]_vars

(* A tool with RequiresApproval is executed at most as often as a human or the
   policy approved that very call (types.go, Tool.RequiresApproval). *)
ApprovedBeforeExecuted ==
    \A c \in Calls : c.name \in Sensitive => execs[c] <= approved[c]

(* What a successful Prompt, Resume, ResumeRun, Shell or Delete leaves in memory
   is what a restarted process would load. *)
SuccessIsDurable ==
    pc = "idle" /\ reply = "ok" => disk = data

(* A crashed run can be taken up from the disk with its own prompt, or a
   summary of it, in the history. *)
PromptRecoverable ==
    \A r \in RunIds : disk.runs[r].status \in {"running", "paused"} =>
        \E i \in DOMAIN disk.ckpts[r] :
            disk.ckpts[r][i] \in {Msg("user", r, <<>>), Msg("system", NoRun, <<>>)}

(* The model never sees a history in which a tool call of the current run has
   no answer after it. *)
Answered(m, i, c) == \E j \in DOMAIN m : j > i /\ m[j] = Msg("tool", m[i].run, <<c>>)
OwnCallsAnswered ==
    pc = "model" =>
        \A i \in DOMAIN data.msgs :
            data.msgs[i].role = "assistant" /\ data.msgs[i].run = cur =>
                \A c \in ToSet(data.msgs[i].calls) : Answered(data.msgs, i, c)

(* The disk forgets a run only when the session is deleted. *)
RunsKept ==
    [][disk' # EmptyData =>
        \A r \in RunIds : disk.runs[r].status # "none" => disk'.runs[r].status # "none"]_vars

(* The session implements the run lifecycle; the request that ResumeRun hands out
   once more is Remind. *)
Lifecycle == INSTANCE RunLifecycle WITH
    Runs      <- RunIds,
    LossyLoad <- "load" \in Faults,
    up        <- pc # "down",
    status    <- [r \in RunIds |-> data.runs[r].status],
    stored    <- [r \in RunIds |-> disk.runs[r].status],
    active    <- IF Busy THEN cur ELSE NoRun,
    told      <- reply
ImplementsLifecycle == Lifecycle!LSpec

(* Every operation returns, or the process dies: maxTurns stops a model that
   asks for tools for ever. *)
OperationsReturn ==
    Busy ~> ~Busy

=============================================================================
