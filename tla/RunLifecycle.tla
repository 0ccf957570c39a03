---------------------------- MODULE RunLifecycle ----------------------------
(***************************************************************************)
(* What a session promises about its runs, without messages, calls or      *)
(* checkpoints: at most one run is active, a paused run moves on only by a *)
(* decision, success is reported only once it is stored, as is a pause by  *)
(* the operation that pauses, and a restart brings back what was stored    *)
(* last.  SessionRuns implements it.                                       *)
(***************************************************************************)
EXTENDS Naturals

CONSTANTS Runs,      \* run ids, positive numbers
          LossyLoad  \* TRUE: a load may fail and yield an empty session

VARIABLES up,      \* the process has the session loaded
          status,  \* RunState.Status of each run, as the process sees it
          stored,  \* the same as the store holds it
          active,  \* the run an operation is driving; 0 = none
          told     \* what the last operation returned

lifecycleVars == <<up, status, stored, active, told>>

Statuses   == {"none", "running", "paused", "completed", "failed"}
NothingRun == [r \in Runs |-> "none"]

Moves(r, to) == status' = [status EXCEPT ![r] = to]
Idle         == up /\ active = 0
Busy         == active # 0
Saves        == stored' = status'
MaySave      == Saves \/ UNCHANGED stored

(* The caller of an operation that drives a run hears how it went, `answer`, only if
   the store holds what it is told. *)
Outcome(answer) == \/ Saves /\ told' = answer
                   \/ UNCHANGED stored /\ told' = "error"

LInit == /\ status = NothingRun /\ stored = NothingRun
         /\ active = 0 /\ told = "none" /\ up = FALSE

Begin(r) ==
    /\ Idle /\ status[r] = "none"
    /\ Moves(r, "running") /\ active' = r
    /\ UNCHANGED <<stored, told>>

Work     == Busy /\ MaySave /\ UNCHANGED <<status, active, told>>
Pause    == Busy /\ Moves(active, "paused") /\ active' = 0 /\ Outcome("approval")
Complete == Busy /\ Moves(active, "completed") /\ active' = 0 /\ Outcome("ok")
Fail     == Busy /\ Moves(active, "failed") /\ active' = 0 /\ MaySave /\ told' = "error"
(* An error exit that leaves the run "running", to be retried. *)
Abandon  == Busy /\ UNCHANGED status /\ active' = 0 /\ MaySave /\ told' = "error"

Decide(r) ==
    /\ Idle /\ status[r] = "paused"
    /\ Moves(r, "running") /\ active' = r
    /\ UNCHANGED <<stored, told>>

(* A paused run is never retried behind the back of its approval. *)
Retry(r) ==
    /\ Idle /\ status[r] \notin {"none", "paused"}
    /\ Moves(r, "running") /\ UNCHANGED stored
    /\ \/ active' = r /\ UNCHANGED told
       \/ UNCHANGED active /\ told' = "error"

Refuse == Idle /\ told' = "error" /\ UNCHANGED <<status, stored, active>>

(* A paused run is not resumed but its request handed out once more, as memory has
   it.  The operation that paused the run told of it only if it was stored; this
   one does not look. *)
Remind(r) == /\ Idle /\ status[r] = "paused" /\ told' = "approval"
             /\ UNCHANGED <<status, stored, active>>
Note   == Idle /\ Outcome("ok") /\ UNCHANGED <<status, active>>
Wipe   == Idle /\ status' = NothingRun /\ Outcome("ok") /\ UNCHANGED active

Serve == \/ \E r \in Runs : Begin(r) \/ Decide(r) \/ Retry(r) \/ Remind(r)
         \/ Work \/ Pause \/ Complete \/ Fail \/ Abandon
         \/ Refuse \/ Note \/ Wipe

Die    == /\ up /\ up' = FALSE
          /\ status' = NothingRun /\ active' = 0 /\ told' = "none"
          /\ UNCHANGED stored
Reload == /\ ~up /\ up' = TRUE
          /\ \/ status' = stored
             \/ LossyLoad /\ status' = NothingRun
          /\ UNCHANGED <<stored, active, told>>

LNext == (Serve /\ UNCHANGED up) \/ Die \/ Reload

LSpec == LInit /\ [][LNext]_lifecycleVars
=============================================================================
