# Formal models of flue4go

flue4go is a Go library that runs AI agents: a *session* drives a loop between
a model and tools, keeps its history, run records, checkpoints and pending
approvals in a *session store*, and gives its tools a sandboxed *environment*.
This directory holds TLA+ models of it, TLC configurations that check them on
small instances, and theorems about them checked by TLAPS.

Paths below are relative to the repository's root; line numbers are those of
`PROJECT.json`, whose `map` names the lines each definition stands for.

## 1. Inventory

| Component | State | Operations | What must hold |
|---|---|---|---|
| Session (`session.go`, `runtime.go`) | `Session.data`: messages, `Runs`, `Checkpoints`, `PendingApprovals`, `Handoffs`; the mutex `mu`; local variables of `runPrompt` | `Prompt` (also `Skill`, `PromptInto`, `PromptStream`), `Resume`, `ResumeRun`, `Shell`, `Task`, `Delete` | approvals and paused runs belong together; no sensitive tool without approval; recorded calls not repeated; success is durable; a crashed run can be taken up; operations return |
| Agent (`session.go`) | `sessions` cache, tools, handoff targets, settings | `NewAgent`, `Session`, `Shell`, `Destroy` | one `Session` per id and process; a storage key for each; what was saved as completed is not lost |
| Delegation (`session.go`, `tools.go`) | the chain of nested `runPrompt` calls, `depth`, `HandoffRecord`s | `runTask`, `runHandoff`, the tools `task` and `handoff` | the nesting ends; what a parent was told is stored by the child; deadlines reach every level |
| SessionStore, MemoryStore, FileStore (`store.go`) | one `SessionData` per key; for FileStore a file and a `.tmp` file per path | `Save`, `Load`, `Delete` | a save replaces the old data as a whole; keys do not disturb each other |
| Guardrails, approval policy, tracer (`runtime.go`) | none | `Check`, `Decide`, `Trace` | a blocked or rejected call is not executed |
| MemoryEnv, LocalEnv (`env.go`), RemoteEnv (`remote_env.go`) | files and directories; the host; a remote API | `ReadFile`, `WriteFile`, `Stat`, `ReadDir`, `Exists`, `Mkdir`, `Remove`, `Exec`, `Scope`, `Cleanup` | the tree stays a tree; paths stay inside the root |
| Built-in tools (`tools.go`) | none between calls | `read`, `write`, `edit`, `bash`, `grep`, `glob`, `task`, `handoff` | results are complete or bounded; an edit changes what it says |
| Context, skills, roles (`context.go`) | none | discovery of Markdown files in several steps, prompt composition | what is there is found, what is not there is no error |
| Structured results (`result.go`) | none | extraction of a result from an answer | text processing |
| HTTP server (`http.go`) | `Registry.agents`; a goroutine for each request and each webhook | `Handle`, `Manifest`, routing, plain calls, SSE, webhooks | only exposed agents run; a stream ends once and truthfully; what a client hears agrees with what is stored; handlers end |
| MCP client (`mcp.go`) | a connection's tools | `ConnectMCPServer`, tool calls | a tool name stands for one remote tool; a call runs it at most once |
| Command line (`cmd/fluego`) | none | `init`, `run`, `build`, ... | I/O |

How they interact: an application calls a session; the session holds `mu`
for the whole operation, calls guardrails, the model, the approval policy and
tools, and saves to the store at fixed points.  A tool works on the environment,
which other sessions of the agent use at the same time, or starts a nested
session of the same agent (`task`) or of another one (`handoff`), which the
caller waits for.  Behind the HTTP server each request runs a handler, which opens the
session that the path names and prompts it; requests for one session queue for `mu`, and a
tool may be one of a remote MCP server.  A process that dies loses `Session.data`; the next one loads
what the store holds.

What is hard here: an operation may end at some fifteen places, each of which
saves, tries to save, or does not save; `Resume` and `ResumeRun` enter the loop
in the middle, through code of their own; history, runs, checkpoints and
approvals live in one record that several runs of the session share; file
operations of one process interleave and may be cut short; tools hold nothing
between two operations on a shared environment; a webhook's goroutine outlives its
request, and a client may leave or hear half of what its run did.  `hazards` in `PROJECT.json`
lists each place with the property that guards it.

## 2. The modules

| Module | What it is |
|---|---|
| `SessionRuns` | one session over a durable store: the loop, the pauses, resumption, failures, crashes |
| `RunLifecycle` | what a session promises about its runs; `SessionRuns` refines it |
| `SessionRunsProofs` | type correctness, the coherence of runs and approvals, durability, the refinement |
| `SessionCallsProofs` | which calls are executed, how often, and what the history holds |
| `Delegation` | the stack of runs that tasks and handoffs build |
| `DelegationProofs` | type correctness, the bound on the nesting, what is stored of parents and answers |
| `FileStore` | `FileStore` in system calls |
| `AtomicStore` | what a `SessionStore` promises, and what `MemoryStore` does; `FileStore` refines it |
| `FileStoreProofs` | type correctness, atomic replacement, the refinement |
| `Workspace` | a shared `MemoryEnv` with the tools `write`, `edit` and `glob` |
| `Lookups` | extends `Workspace` with what only reads: `read`, `grep` and the discovery of context |
| `WorkspaceProofs` | the tree, edits, glob, grep, read and discovery, all of `Lookups` |
| `Deployment` | the constants the next four share |
| `HttpServer` | processes with a registry, requests, streams and webhooks |
| `McpClient` | connections to an MCP server, tools and calls |
| `AgentSessions` | the sessions of agents in several processes over one store |
| `Gateway` | the three together: the handler of a request prompts a session |
| `HttpServerProofs`, `McpClientProofs` | each part by itself |
| `GatewayProofs` | `AgentSessions` by itself; the composition implements its parts, its types, and what a client hears |
| `MC*` | constants for TLC |

### SessionRuns

`data` is `Session.data`, `disk` the store's entry, `pc`, `cur`, `mode`, `turn`,
`queue` and `tools` are the local variables of the operation in progress: at
most one, because of `Session.mu`.  `mode` tells which of the three copies of the
loop runs: `runPrompt`, the replay in `resumeRun`, or `continueLocked`; their
differences (who checkpoints the model's decision, who saves a failure, who looks
at a rejection) are kept.  A step ends at each call to the outside and at
each save, the places where losing the process makes a difference.  A message keeps
its role, the run that appended it and its tool calls; only the last checkpoint
of a run is kept, as `latestCheckpointLocked` reads no other.  `execs`, `approved`
and `settled` are ghosts that count executions and decisions and remember which
calls are recorded.

A guardrail may block, the policy may answer any member of `Policy`, and each
external call named in `Faults` may fail.  A model is assumed to be configured,
and contents, tracing, streaming and the extraction of results are left out.

### RunLifecycle

Runs are begun, paused, decided, retried, completed, failed or abandoned; the operation that
pauses a run or succeeds says so only if the store agrees; a restart brings back
what was stored.  `ResumeRun` of a run that waits repeats its request (`Remind`) as the memory has it,
and does not look at the store: after a pause that could not be saved that is a request
nobody else can find.  The refinement maps its variables to the statuses in `data` and
`disk`, to `cur` while an operation is in progress, and to `reply`.

### Delegation

`stack` holds the nested runs of one call of the application, one goroutine, so
only the run on top moves.  A session made by `runTask` counts one deeper, one
made by `target.Session` starts at depth 0.  `Delegation` keeps of each run its turns, its tool calls left and its saves;
`SessionRuns` has the rest of a run.  The run at the bottom is a prompt, or the latest run
of its session taken up by `Resume` or `ResumeRun`, which goes through `continueLocked`: no
checkpoint of the model's decision and of its final text, no compaction, and error exits that save
nothing.  Every child is a prompt.  Older runs of a session and `Delete` are in `SessionRuns` only.  Agents are
numbered in the order of `NewAgent`, which copies the map of handoff targets
(`cloneHandoffs`), so an agent can only hand off to one made before it: this is
`DelegationAssumption`, and it is what makes the nesting end.

### FileStore and AtomicStore

A save truncates `path+".tmp"`, writes it and renames it.  `at` says how far each
save is and, as an open file keeps its identity over a rename, what the name of
its file is now.  A load that fails, for whatever reason, answers "no such
session".  `PathForKey` follows `pathForKey`: parts of the key are trimmed, dropped or
have characters replaced.  A crash is that of the process: what was written
survives, as the page cache does.  The loss of power, which the missing fsync
would expose, is not modelled, nor is the JSON encoding.

### Workspace

Each operation of `MemoryEnv` is one step (it holds the mutex); a tool is
several.  A path is a sequence of names and a text a sequence of words, so that
occurrences can be counted.  `job` holds the local variables of the tool a client
is in: the text an edit has read and the one it is about to write, or the stack of `walk` frames of a
glob, with the entries each has left.  `InOrder` is `sort.Strings`: the sequence that is in order,
stated rather than computed, so that it can be reasoned about.  A path can be a file and a directory at
once, as in the code.  `steady` is a ghost: the files a glob could have seen all
along.  `maxGlobResults` is a parameter of each glob, one of `Limits`, so that
one run has results that are full and results that are not.

### Lookups

A grep is a glob of every file followed by one `ReadFile` per step, in the order of the
paths; it counts a line that is the word it searches for.  `Shown` is
`truncateLinesAndBytes` with `int`s up to `MaxInt`: a sum that overflows
turns negative, as in Go, and a slice that ends past its text is the panic it would be.
A discovery keeps a list of what is still to be looked at: `AGENTS.md` and
`CLAUDE.md`, the skills' directory, the roles' directory.  Each entry is first looked for
with `Exists`, then read or listed, and the entries of a directory are put in front.
`failed` tells why a discovery ended: its context, a directory where a file should be (or
the other way round), or something that is gone.  `MCWorkspace` puts AGENTS.md, skills and roles
into a tree of four paths by choosing the constants.  Front matter is text and left out.

### HttpServer

`stage` says where a request is: `new`, `payload` (routed, its body being read), `running`
(in the handler), `closing` (the server writes the last events), `done`, `aborted` (the
handler panicked), `lost` (the process died).  `entry` is the copy of the
`registeredAgent` that the routing made.  A webhook is answered by a step of its own, before or
after its handler ends; its context is not that of the request.  `reply` and `events` are what
the client has read; nothing reaches one that left.  The route's four checks are one
condition, as all that differs is the status.

### McpClient

`inbox` is the POST on its way to the remote server, `executed` (a ghost) what the server
ran for it.  The client may give up while the request is still on its way, and the
server may run it later; it may change the tools it offers.  `Sanitized` is `sanitizeMCPName`
as a function, which need not be one-to-one.

### AgentSessions

Of a session only the status of each run is kept, and a run that waits for approval counts as
running.  A save replaces the stored session by the copy of its process: what another process
saved meanwhile is lost, and a run whose own save failed is stored with the next one.
`Save` serves the operation that holds the mutex; `Reopen` is `Resume` and `ResumeRun`, which make a run
running again whatever it was; `Delete` empties the session.  Three ghosts: `completed`, the runs
that some save stored as completed and that were neither taken up again nor deleted since; `missed`, those
whose own save as completed failed; `shared`, the
ids that two processes held at the same time, or whose load failed.  Prompts, `Resume` and `ResumeRun` are
told apart by what they do to a run, so `Follows` is about saves of the run in hand: what
was completed becomes running by `Reopen` alone.

### Gateway

A request's run goes through `phase`: open the session, wait for its mutex, save the input,
ask the model, perhaps call a tool, save the completion, report, return.  Each of its steps
is a step of one or two of the parts, so that `PartsImplemented` says of the composition
that it satisfies `HttpSpec`, `McpSpec` and `SessionsSpec`.  The checks, approvals and turn
limits of the loop are in `SessionRuns`; here a prompt fails or goes on at each save, and no handler
resumes or deletes.  A
tool that panics runs the deferred `Unlock`; in a webhook's goroutine it ends the process.
The handler is the application's code; it is taken to open the session of the request's id,
to prompt it with the request's context and, for a stream, its `Emit`, and to return what the
prompt returns.

## 3. The runs

Bounds are constants named in each module; a guard stops at each.

| Run | Bounds | What it shows |
|---|---|---|
| `MCTwoRuns` | 2 runs, 2 tool calls, 4 operations, 2 turns | Approvals and runs coherent in memory and store (`PausedMeansPending`); a sensitive call is executed no more often than approved; success is durable; a recorded call is never executed again; `RunLifecycle` is implemented. Saves, loads and deletes fail, the process crashes anywhere. |
| `MCPolicies` | 2 runs, 2 calls, 2 operations, compaction at 2 messages | With a policy that rejects or fails, guardrails at input and output, tools offered for one call only and call ids that repeat: every call of a run is answered before the model sees the history, a crashed run keeps its prompt or a summary, no run is forgotten, every operation returns. |
| `MCFileStore` | 2 savers, 1 reader, 2 values | A path never holds a torn file; `FileStore` implements `AtomicStore`. |
| `MCDelegation` | 2 agents, 5 sessions, task depth 1, 2 turns, 2 calls | The nesting is bounded by `(MaxTaskDepth + 1) * NAgents`; an answer a parent has stored is backed by the child's stored run; each waiting ancestor that a prompt started is stored as running with the request it executes; a deadline unwinds the stack. 2 calls of the application, of which the second may resume. |
| `MCWorkspace` | 4 paths, texts of 2 or 3 words, 3 clients, limits of 1 and 3 results, 2 matches, 2 lines, `int`s of 4 bits | The tree stays closed, even when the root is removed; a glob misses no file that was in plain sight all along; the overshoot of its limit is bounded by the depth; an edit writes an exact replacement in the text it has read, whatever others do, and in a file of its own client this is what the file still has; `read` shows the lines asked for, or panics exactly where the sum overflows near the end of a file; a grep misses no line of a file that did not change; a discovery reads all that was there all along and fails for a missing file only if something was removed meanwhile. |
| `MCGateway` | 2 processes, 2 requests, 1 session, 3 remote tools, one death each | A handler runs only for an agent exposed when it was routed; a stream ends once, with the handler's outcome; a call runs its own remote tool at most once; remote tools never share a name; a completed run is lost only if its session was shared or failed to load; a client hears a result only of a run that the store has as completed, unless the session is shared, and an error of such a run only if the save of its completion failed; every handler ends; the parts' specifications are implemented. |

Two runs are the least in which one run can disturb another, two calls the least
batch with a rest, two turns the least in which a loop comes round, and four
operations allow prompt, pause, resume and a retry.  Two saves of a store can
overlap and a third client sees the result.  Two agents and depth 1 give a stack
of four: a task of a handoff of a task.  Four paths contain a directory with
a file next to one and a directory that is also a file.  With 4 bits the arguments -8 to 7 contain
offsets and limits whose sum overflows, and texts of three words are longer than the two
lines a read may show.

`MCGateway` splits its circumstances into four `Scopes`, chosen in the initial state, because
all at once are too many states: two requests that meet in one process while their
clients leave (`OneProcess`), a webhook whose tool may panic next to a plain request
(`NextDoor`), two processes that share the session (`TwoProcesses`), and one request with a
remote tool while the agent is registered anew (`WithTools`).  Two of the three remote tools have
the same sanitized name and the server offers them together later.  A
process that died is not started again.  The run does not check deadlock: when every
request is answered or every process has died nothing more can happen.

The clients of `MCWorkspace` have paths of their own (`Own`), and two of them share `/1`: the reader
edits it and removes it while the session writes and edits it.
`edit` reads and writes with nothing held in between, so of two clients of one file one may lose its
update, and the run has such steps; what `EditReplacesExactly` says of the file as it is when the edit
writes, it says of files that are private to a client.

`MCGateway` has prompts only.  `Reopen` and `Delete` of `AgentSessions` are no steps of it: that
they, too, keep the completed runs of others is the theorem `CompletedIsKept`, about `SessionsSpec`.

Six further runs show a disagreement between the code and what its comments say.
Each checks one property and TLC finds it violated:

| Run | Property | What happens |
|---|---|---|
| `MCReplayRejects` | `ApprovedBeforeExecuted` | The replay in `resumeRun` (`session.go:614`) does not look at a rejection and executes the call. |
| `MCBatchResumed` | `OwnCallsAnswered` | `Resume` in the middle of a batch (`session.go:557`) drops the calls after the approved one. |
| `MCReplayRepeats` | `RecordedNeverReruns` | A blocking tool guardrail (`session.go:393`) saves results without a checkpoint; `ResumeRun` executes those calls again. |
| `MCOlderRunResumed` | `PromptRecoverable` | `ResumeRun` of an older run (`session.go:586`) cuts off the history of the newer one. |
| `MCDeadlines` | `OperationsReturn` | `ResumeRun` and `Resume` ignore `WithTimeout` (`session.go:563`). |
| `MCSharedFile` | `AtomicReplace` | Two keys with one path share a temporary file (`store.go:141`) and publish a torn file. |

The passing runs check `ApprovedBeforeExecuted`, `OwnCallsAnswered`, `PromptRecoverable`,
`AtomicReplace` and `OperationsReturn` where the circumstance that breaks them is left out: `MCTwoRuns`
has no policy that rejects; `MCPolicies` has no pause, hence no `Resume`, and models that
answer; `MCFileStore` has no two keys with one path.  `SettledNeverReruns` holds of the calls
recorded in a checkpoint, `RecordedNeverReruns` would have to hold of all of the saved
history.

Seen while modelling and not checked by a run of its own: when the checkpoint of a pause fails, `ResumeRun`
of that run hands out a request that is in no store (`session.go:575`), although the comment at
`session.go:402` says it is persisted so that another process can resume it; a resumed run
executes the tools its model wants with no checkpoint of that decision (`session.go:666`), which
`session.go:354` promises of a prompt's; an edit of a file that two sessions share overwrites what
the other wrote in between (`tools.go:117`); a glob whose context is done skips
the rest of a directory and may return the shortened list without an error
(`tools.go:288`); a glob or grep does not look below a path that is a file and a directory;
grep searches at most the `maxGlobResults` files that glob lists and says nothing of the rest
(`tools.go:278`); `read` panics for an offset and limit whose sum overflows near the
end of a file (`tools.go:324`, in `ReadShowsSlice`); a load that fails is taken for a new
session, which then overwrites the old one (`session.go:125`); `Agent.Session` keeps a new
session in the cache even if it returns an error because the context is done
(`session.go:138`); two processes that share a session lose each other's runs, which is
why `KeptUnlessShared` has its condition; a run whose save as completed fails is reported as an
error, is completed in memory, and is stored as completed by the next prompt's save, so that a
client that tries again repeats it (`session.go:374`, the one case `ReplyTellsRun` excepts); a stream that a session writes to carries two
results and two idles, the session's before the server's (`session.go:379`,
`http.go:211`); a webhook whose tool panics takes the process down (`http.go:120`); skills whose
front matter gives them one name silently replace one another (`context.go:62`); a
command killed at its deadline is not reported as timed out (`env.go:98`).

### Fairness

`MCPolicies` assumes weak fairness of the steps of the operation in progress
(`OpStep`): they are taken by the caller's own goroutine, which waits for nobody
but the model, the policy and tools, and these are taken to answer.  It assumes
nothing of the caller, of crashes or of loads.  `MCDeadlines` (`TimedSpec`) assumes less
of the model: it may never answer, but at a deadline its call fails with the
context's error.  `MCDelegation` assumes the same of the run on top and of a model whose
context is done (tools and a compactor return), since `task` and `handoff` pass the context on.  `MCGateway` assumes
weak fairness of the steps of each handler (`HandlerStep`): a goroutine waits for nothing but the mutex of the
session, which `LockSession` has as its guard, and the model and the MCP server answer or fail; a
client of a stream reads or leaves.  Weak fairness is enough for the mutex because a request gets
it once at most: of two that wait, one goes first.  Nothing is assumed of clients, payloads,
crashes or the remote server.  The two other
specifications have no liveness property and no fairness.

## 4. The theorems

All hold for every value of the constants that satisfies the named assumptions.

* `SessionRunsProofs`: `TypeCorrect`, and `PauseAndRequestTogether` (a run is paused
  iff exactly one pending request names it, in memory and in the store).
  `PausedMeansPending` is not inductive: `Resume` and `ResumeRun` change one run while
  others wait, and every error exit marks `cur`.  `PauseInv` adds that the operation
  in progress drives a run that is running, hence none that waits (`Control`), and
  that run ids not issued are unused on both sides (`Unused`), so that a new
  run does not meet an old request.  Lemmas about each change of the
  session's record carry the step lemmas, which follow the parts of the code:
  process life, calls, operation steps.
* Of the same module: `SuccessStored` (`SuccessIsDurable`) and `ImplementsRunLifecycle`
  (`ImplementsLifecycle`): each step maps to one of `RunLifecycle` or to a stutter, without any
  assumption.  `RunsAreKept` (`RunsKept`) holds under `MemoryFaithful`, no load and no
  delete fails: after either failure the session in memory is empty over a history on
  disk, and the next save replaces that history (section 3, what was seen while modelling).
* `SessionCallsProofs` reduces each action to a *move*, what it does to the messages, the
  checkpoints and the requests, and proves each invariant move by move.
  - `ExecutedWasApproved` (`ApprovedBeforeExecuted`), if the policy never rejects.
    `MCReplayRejects` shows that this is needed.
  - `SettledStaysSettled` (`SettledNeverReruns`), under `FreshIds`: the provider issues no
    call id twice.  A call is known by its id only, in the code as well; with ids that repeat the
    checkpoint of one call would speak for another.  `TailInv` says that a history ends with
    calls only while these are handled or to be replayed, `OwnerInv` that a call id belongs to one
    run, and `SettledInv` that no call that is queued, waits for its approval or would be replayed
    from a checkpoint is settled or answered already, in memory or on disk.
  - `CallsAreAnswered` (`OwnCallsAnswered`), under `Decisive`: the policy always decides, so that no
    run pauses.  `MCBatchResumed` shows that this is needed.  `CoverInv` says that a
    checkpoint lacks only the answers that `ResumeRun` replays, and the history of the operation in
    progress only those of its queue.
  - `RunsKeepTheirPrompt` (`PromptRecoverable`), if the policy always decides or `ResumeRun`
    is not used.  `MCOlderRunResumed` shows that this is needed.
* `FileStoreProofs`: `TypeCorrect`; `ReplacesAtomically` and `ImplementsStore` under
  `NoCollision`: no two keys share a path, and one session saves each.  `MCSharedFile` shows that
  the assumption is needed.  `StoreInv` says that what a saver has written is still in
  its temporary file when it renames it.  The refinement maps a key to the file at
  its path; a rename is the atomic save, the steps before it stutter.
* `DelegationProofs`: `TypeCorrect`; `DelegationEnds` (`NestingBounded`).  A task takes
  one from the depth left, a handoff resets the depth but goes to an
  older agent.  The *potential* of a run is `MaxTaskDepth + 1` for each agent younger
  than its own, which are the ones the stack may have come through, and one for
  each level of its depth.  `IInv` says that a run's position in the stack is at most
  its potential: a task adds one to both, a handoff one to the position and at
  least one to the potential.  No potential exceeds the bound.
  `WaitingParentsAreStored` (`WaitingRunsStored`) and `AnswersAreStored`
  (`AnswersAccountedFor`): `DInv` says of every run on the stack that executes tools and was not
  taken up by `Resume` or `ResumeRun` that
  the store has it as running with the request it is at, and of every answer in a history, in
  memory or stored, that the store has the completion it came from.
* `WorkspaceProofs` is about every finite set of paths that has the prefixes of its members
  (`WorkspaceAssumption`, `LookupsAssumption`) and whatever the clients do to one another's
  files.  One invariant carries it, `LInv`.  `Env` says that *everything* above a file or a directory is a
  directory; `TreeClosed` says it of one level, from which it does not follow without an
  induction.  `JobFine` says what holds in the middle of each tool:
  - of a glob (`GlobFine`), that each steady match it has not listed lies below an entry it has left,
    on the stack of frames, and that a full result together with the directories the walk is still
    in stays below the limit plus the depth of some file listed;
  - of a grep (`GrepFine`), that the lines of each steady file are in the result or the file is
    left;
  - of a discovery (`DiscoverFine`), that each steady file it wants is found or sought by an item of
    the list, and that what the list says to be there is there, or something was removed.

  The theorems are `TreeStaysClosed` (`TreeClosed`), `ToolsTyped` (`LookupsTypeOK`),
  `GlobIsComplete` (`GlobFindsSteadyFiles`), `GlobIsBounded` (`GlobBounded`), `GrepIsComplete`
  (`GrepFindsSteadyLines`), `DiscoveryIsComplete` (`DiscoveryFindsSteady`) and
  `DiscoveryFailsForCause` (`DiscoveryFailsIfDisturbed`).  That a finite set can be put
  in order at all is proved without an induction: the place of an element is the number of
  elements before it (`Places1`, `OrderExists`).  `ReadShowsItsSlice` (`ReadShowsSlice`) is the
  arithmetic of `truncateLinesAndBytes`, in which each sum of two `int`s wraps around once at most
  (`WrapOf`, `LastShown`); it asks that `int` can hold the length of a text and the most lines a
  read may show, as any width of Go's does.
* `EditsAreExact` (`EditReplacesExactly`), of the same module, assumes nothing of who changes what.
  `EditInv` says that what an edit is about to write is the replacement in the text it has *read*, and
  that a file private to its client still has that text or is gone: a step of another client
  changes other files, or removes a directory above and leaves no file.
* `HttpServerProofs`: `HttpTyped`, `OnlyExposedHandlersRun` (`HandlerWasExposed`),
  `StreamsEndOnce` (`StreamEndsOnce`).  `HttpInv` says of each request by itself what its stage
  implies: a routed one has a process, a target and an exposed entry; of the events of a
  stream the last one is the server's while it is closing, the last two are when it is done,
  and none is before, unless the client left.  Each step changes one request (`OneRequest`), or, in a
  crash, only stages.
* `McpClientProofs`: `McpTyped`, `CallsRunTheirTools` (`CallRunsItsTool`),
  `ToolsStandForOne` (`ToolsUnambiguous`).  `CallInv` says that a request is on its way
  only while nothing was executed for it, and that what is on its way or executed is a
  remote tool with the name that was asked for.
* `GatewayProofs`, of `AgentSessions` by itself: `SessionsTyped`, `CompletedIsKept`
  (`KeptUnlessShared`).  The property is not inductive, as a save writes what the copy says;
  `SessionsInv` adds that one process at most holds a session that is not shared and that its
  copy knows the completed runs: then a save cannot take one back, as it changes the status
  of the run in hand only, and a completed run is in hand only once it has been reopened.
* `GatewayProofs`, of the composition: `GatewayImplementsParts` (`PartsImplemented`): each step is a step or a
  stutter of each part, given `HttpInv`, which gives a handler its process and session.  From
  it and the parts' theorems, `PartsPropertiesHold` and, with the types of its own variables,
  `TypeCorrect`.  `RepliesTellRuns` (`ReplyTellsRun`) needs to know how far a run is and who
  knows of it as completed, the store, a copy of it or the ghost: `TellsInv` says that anybody does only
  when its handler is past `Complete`, and, if that handler fails or has told an error, only because the
  run is in `missed`; and that an error is heard only when the handler is over.

Only model-checked: the three liveness properties (`OperationsReturn`, `DeadlineUnwinds`,
`HandlersEnd`), because a proof would need ENABLED, which the prover does not reason about.
Every invariant and action property that a passing run checks is a theorem, some under an assumption
that the run satisfies and that is named above.  What the violated runs check is not, of course:
`RecordedNeverReruns` has no theorem.

## 5. Not modelled

Text: prompts, front matter, JSON, the shortening of single lines, the extraction of
results (`result.go`).  Trace events, which have no effect on the state.  `LocalEnv`: its
operations are those of the host's file system and of `sh -c`, and what they do is decided
there; `LocalEnv.WriteFile` is not atomic, unlike `FileStore.Save`, and a model would be one
of the host.  `RemoteEnv`, which forwards each call and keeps nothing.  `bash`.  `ResolvePath`,
which cleans a string.  The command line.  Loss of power.  A data race of `Registry.Handle` with a
request is left to the Go runtime, which may end the process: that is `Crash`.  Of HTTP:
`/health`, `Manifest`, request ids, and a client that stops reading without leaving.

## 6. Plan

1. Done: sessions and their lifecycle, the store, delegation, the workspace and what reads it,
   the HTTP server, the MCP client, sessions in several processes, and their composition.
2. More of the system: `LocalEnv.Exec` with its deadline, its children and their pipes, if a
   run can be given to it; path resolution as a pure operator.
3. Done: theorems for the invariants and action properties of all runs.
4. More proofs: weaker assumptions for the calls of a session, that is `OwnCallsAnswered` where a
   batch that pauses has one call, and `PromptRecoverable` where only the newest run is put
   back; `AtomicReplace` for several savers of one key that take turns.
