-------------------------- MODULE DelegationProofs --------------------------
(***************************************************************************)
(* Proofs about Delegation: its variables keep their types, and the stack  *)
(* of runs is bounded for every number of agents, every handoff relation   *)
(* that respects the order of creation and every limit on tasks.           *)
(*                                                                         *)
(* The bound alone is not inductive.  A run at position i of the stack has *)
(* used up i steps of a potential: each task spends one unit of the D + 1  *)
(* an agent has, each handoff gives the agent's number up for a smaller    *)
(* one, worth at least D + 1 units.                                        *)
(*                                                                         *)
(* The second half is about what is stored: every run that a prompt        *)
(* started and that executes tools is on disk with its request, and no     *)
(* stored answer is without its child's completion (DInv).                 *)
(***************************************************************************)
EXTENDS Delegation, TLAPS

Potential(r, md) == (NAgents - md[r.sess]) * (MaxTaskDepth + 1) + r.depth + 1

(* What holds of the run at position i, given the sessions made. *)
RunOK(r, i, md) == /\ r.sess <= Len(md)
                   /\ r.at = "tools" => r.turn < MaxTurns
                   /\ i <= Potential(r, md)

Waits(r) == r.at = "tools" /\ r.left > 0

StackOK(stk, md) ==
    /\ stk \in Seq(Run) /\ md \in Seq(Agents) /\ Len(md) <= MaxSessions
    /\ \A i \in 1..Len(stk) : RunOK(stk[i], i, md)
    /\ \A i \in 1..(Len(stk) - 1) : Waits(stk[i])

IInv == /\ StackOK(stack, made)
        /\ mem \in [Sessions -> Data] /\ disk \in [Sessions -> Data]
        /\ expired \in BOOLEAN /\ calls \in 0..MaxCalls

-----------------------------------------------------------------------------
(* Arithmetic. *)

(* The units an agent and a depth are worth are a natural number. *)
LEMMA PotentialType ==
    ASSUME NEW r \in Run, NEW md \in Seq(Agents), r.sess <= Len(md)
    PROVE  Potential(r, md) \in Int
  <1>1. md[r.sess] \in Int /\ NAgents \in Int
        BY DelegationAssumption DEF Run, Sessions, Agents
  <1>2. r.depth \in Int /\ MaxTaskDepth + 1 \in Int  BY DelegationAssumption DEF Run
  <1>3. (NAgents - md[r.sess]) * (MaxTaskDepth + 1) \in Int  BY <1>1, <1>2
  <1> QED  BY <1>2, <1>3 DEF Potential

(* A smaller agent number is worth at least D + 1 units. *)
LEMMA SmallerIsWorthMore ==
    ASSUME NEW a \in Agents, NEW b \in Agents, b < a
    PROVE  (NAgents - b) * (MaxTaskDepth + 1)
             >= (NAgents - a) * (MaxTaskDepth + 1) + (MaxTaskDepth + 1)
  <1> DEFINE D == MaxTaskDepth + 1
             x == NAgents - a
             k == a - b - 1
  <1>1. D \in Nat /\ x \in Nat /\ k \in Nat  BY DelegationAssumption DEF Agents
  <1>2. NAgents - b = x + 1 + k  BY DelegationAssumption DEF Agents
  <1> HIDE DEF D, x, k
  <1>3. (x + 1 + k) * D = x * D + D + k * D  BY <1>1
  <1>4. k * D >= 0 /\ x * D \in Int /\ k * D \in Int  BY <1>1
  <1>5. (x + 1 + k) * D >= x * D + D  BY <1>1, <1>3, <1>4
  <1> QED  BY <1>2, <1>5 DEF D, x

(* No run is worth more than the whole bound. *)
LEMMA PotentialBound ==
    ASSUME NEW r \in Run, NEW md \in Seq(Agents), r.sess <= Len(md)
    PROVE  Potential(r, md) <= (MaxTaskDepth + 1) * NAgents
  <1> DEFINE D == MaxTaskDepth + 1
             a == md[r.sess]
  <1>1. D \in Nat /\ a \in Int /\ NAgents \in Nat /\ a >= 1 /\ a <= NAgents
        BY DelegationAssumption DEF Run, Sessions, Agents
  <1>2. r.depth \in Int /\ r.depth + 1 <= D  BY DelegationAssumption DEF Run
  <1>3. Potential(r, md) = (NAgents - a) * D + r.depth + 1  BY DEF Potential
  <1> HIDE DEF D, a
  <1>4. (NAgents - a) * D = NAgents * D - a * D  BY <1>1
  <1>5. a * D = (a - 1) * D + D /\ (a - 1) * D >= 0  BY <1>1
  <1>6. D * NAgents = NAgents * D /\ NAgents * D \in Int /\ a * D \in Int
        /\ (a - 1) * D \in Int  BY <1>1
  <1>7. Potential(r, md) <= D * NAgents  BY <1>1, <1>2, <1>3, <1>4, <1>5, <1>6
  <1> QED  BY <1>7 DEF D

-----------------------------------------------------------------------------
(* The three ways a stack of runs changes. *)

(* A new run on top of a stack whose top waits for it. *)
LEMMA Push ==
    ASSUME NEW stk, NEW md, StackOK(stk, md), Len(md) < MaxSessions,
           NEW a \in Agents, NEW r \in Run,
           r.sess = Len(md) + 1, r.at = "input",
           stk # <<>> => Waits(stk[Len(stk)]),
           Len(stk) + 1 <= Potential(r, Append(md, a))
    PROVE  StackOK(Append(stk, r), Append(md, a))
  <1> DEFINE new == Append(stk, r)
             mds == Append(md, a)
  <1>1. stk \in Seq(Run) /\ md \in Seq(Agents)  BY DEF StackOK
  <1>2. new \in Seq(Run) /\ mds \in Seq(Agents) /\ Len(mds) <= MaxSessions
        BY <1>1, DelegationAssumption
  <1>3. Len(new) = Len(stk) + 1 /\ Len(stk) \in Nat /\ Len(mds) = Len(md) + 1
        BY <1>1
  <1>4. \A i \in 1..Len(stk) : new[i] = stk[i]  BY <1>1
  <1>5. new[Len(stk) + 1] = r  BY <1>1
  <1>6. \A i \in 1..Len(md) : mds[i] = md[i]  BY <1>1
  <1>7. \A i \in 1..Len(stk) : RunOK(stk[i], i, mds)
    <2> TAKE i \in 1..Len(stk)
    <2>1. RunOK(stk[i], i, md) /\ stk[i] \in Run  BY <1>1 DEF StackOK
    <2>4. stk[i].sess \in Int /\ stk[i].sess >= 1
          BY <2>1, DelegationAssumption DEF Run, Sessions
    <2>5. stk[i].sess <= Len(md)  BY <2>1 DEF RunOK
    <2>2. stk[i].sess \in 1..Len(md)  BY <1>1, <2>4, <2>5
    <2>3. Potential(stk[i], mds) = Potential(stk[i], md)  BY <1>6, <2>2 DEF Potential
    <2> QED  BY <1>1, <1>3, <2>1, <2>2, <2>3 DEF RunOK
  <1>8. RunOK(r, Len(stk) + 1, mds)  BY <1>3 DEF RunOK
  <1> HIDE DEF new, mds
  <1>9. \A i \in 1..Len(new) : RunOK(new[i], i, mds)
        BY <1>3, <1>4, <1>5, <1>7, <1>8
  <1>10. \A i \in 1..(Len(new) - 1) : Waits(new[i])
    <2> TAKE i \in 1..(Len(new) - 1)
    <2>1. i \in 1..Len(stk) /\ new[i] = stk[i]  BY <1>3, <1>4
    <2>2. CASE i = Len(stk)  BY <1>3, <2>1, <2>2
    <2>3. CASE i # Len(stk)  BY <1>3, <2>1, <2>3 DEF StackOK
    <2> QED  BY <2>2, <2>3
  <1>11. StackOK(new, mds)  BY <1>2, <1>9, <1>10 DEF StackOK
  <1> QED  BY <1>11 DEF new, mds

(* The run on top takes a step of its own. *)
LEMMA Replace ==
    ASSUME NEW stk, NEW md, StackOK(stk, md), stk # <<>>, NEW r \in Run,
           r.sess = Last(stk).sess, r.depth = Last(stk).depth,
           r.at = "tools" => r.turn < MaxTurns
    PROVE  StackOK([stk EXCEPT ![Len(stk)] = r], md)
  <1> DEFINE n == Len(stk)
             new == [stk EXCEPT ![n] = r]
  <1>1. stk \in Seq(Run) /\ md \in Seq(Agents) /\ n \in Nat \ {0}  BY DEF StackOK
  <1>2. new \in Seq(Run) /\ Len(new) = n  BY <1>1
  <1>3. new[n] = r /\ \A i \in 1..n : i # n => new[i] = stk[i]  BY <1>1
  <1>4. Potential(r, md) = Potential(stk[n], md)  BY <1>1 DEF Potential, Last
  <1>5. RunOK(stk[n], n, md)  BY <1>1 DEF StackOK
  <1>6. RunOK(r, n, md)  BY <1>4, <1>5 DEF RunOK, Last
  <1>7. \A i \in 1..n : RunOK(stk[i], i, md)  BY DEF StackOK
  <1>8. \A i \in 1..(n - 1) : Waits(stk[i])  BY DEF StackOK
  <1>9. Len(md) <= MaxSessions  BY DEF StackOK
  <1> HIDE DEF new, n
  <1>10. StackOK(new, md)
    <2>1. \A i \in 1..n : RunOK(new[i], i, md)  BY <1>3, <1>6, <1>7
    <2>2. \A i \in 1..(n - 1) : Waits(new[i])  BY <1>1, <1>3, <1>8
    <2> QED  BY <1>1, <1>2, <1>9, <2>1, <2>2 DEF StackOK
  <1> QED  BY <1>10 DEF new, n

(* The run on top ends: the one below has one tool call less to handle. *)
LEMMA Pop ==
    ASSUME NEW stk, NEW md, StackOK(stk, md), Len(stk) > 1
    PROVE  StackOK([Front(stk) EXCEPT ![Len(stk) - 1].left = @ - 1], md)
  <1> DEFINE n == Len(stk) - 1
             front == Front(stk)
             r == [stk[n] EXCEPT !.left = @ - 1]
  <1>1. stk \in Seq(Run) /\ md \in Seq(Agents) /\ n \in Nat \ {0}  BY DEF StackOK
  <1>2. front \in Seq(Run) /\ Len(front) = n /\ \A i \in 1..n : front[i] = stk[i]
        BY <1>1 DEF Front
  <1>3. \A i \in 1..n : RunOK(stk[i], i, md) /\ Waits(stk[i])  BY <1>1 DEF StackOK
  <1>4. Len(md) <= MaxSessions  BY DEF StackOK
  <1>5. StackOK(front, md)
    <2> HIDE DEF front, n
    <2> QED  BY <1>1, <1>2, <1>3, <1>4 DEF StackOK
  <1>6. stk[n] \in Run /\ Waits(stk[n]) /\ RunOK(stk[n], n, md)  BY <1>1, <1>3
  <1>7. r \in Run
    <2>1. stk[n].left - 1 \in 0..MaxBatch
          BY <1>6, DelegationAssumption DEF Run, Waits
    <2> QED  BY <1>6, <2>1 DEF Run
  <1>8. r.sess = stk[n].sess /\ r.depth = stk[n].depth /\ r.at = stk[n].at
        /\ r.turn = stk[n].turn  BY <1>6 DEF Run
  <1>9. front # <<>> /\ Last(front) = stk[n]  BY <1>1, <1>2 DEF Last
  <1>10. [front EXCEPT ![n].left = @ - 1] = [front EXCEPT ![n] = r]
    <2> HIDE DEF front, n
    <2>1. front[n] = stk[n]  BY <1>1, <1>2
    <2>2. [front EXCEPT ![n].left = @ - 1]
            = [front EXCEPT ![n] = [front[n] EXCEPT !.left = @ - 1]]  OBVIOUS
    <2> QED  BY <2>1, <2>2
  <1>11. r.at = "tools" => r.turn < MaxTurns  BY <1>6, <1>8 DEF RunOK
  <1> HIDE DEF r, front, n
  <1>12. StackOK([front EXCEPT ![Len(front)] = r], md)
         BY <1>5, <1>7, <1>8, <1>9, <1>11, Replace
  <1>13. StackOK([front EXCEPT ![n].left = @ - 1], md)  BY <1>2, <1>10, <1>12
  <1> QED  BY <1>13 DEF front, n

-----------------------------------------------------------------------------
(* The session data a run writes. *)

LEMMA DataKept ==
    ASSUME NEW data \in Data
    PROVE  /\ \A st \in {"none", "running", "paused", "ended"} : Marked(data, st) \in Data
           /\ \A ck \in {"none", "plain", "calls"} : Checkpointed(data, ck) \in Data
           /\ Begun(data) \in Data /\ Ended(data) \in Data /\ Paused(data) \in Data
           /\ [Ended(data) EXCEPT !.done = TRUE] \in Data
  <1>1. \A st \in {"none", "running", "paused", "ended"} : Marked(data, st) \in Data
        BY DEF Marked, Data
  <1>2. \A ck \in {"none", "plain", "calls"} : Checkpointed(data, ck) \in Data
        BY DEF Checkpointed, Data
  <1>3. Begun(data) \in Data  BY DEF Begun, Data
  <1>4. Ended(data) \in Data /\ Paused(data) \in Data  BY <1>1 DEF Ended, Paused
  <1>5. [Ended(data) EXCEPT !.done = TRUE] \in Data
    <2>1. TRUE \in BOOLEAN  OBVIOUS
    <2> QED  BY <1>4, <2>1 DEF Data
  <1> QED  BY <1>1, <1>2, <1>3, <1>4, <1>5

LEMMA DataTypes ==
    ASSUME IInv, Active
    PROVE  /\ Top \in Run /\ RunOK(Top, Len(stack), made)
           /\ Top.sess \in Sessions /\ Agent \in Agents
           /\ Mine \in Data /\ Ended(Mine) \in Data /\ Paused(Mine) \in Data
           /\ Completed \in Data
           /\ Checkpointed(Mine, "plain") \in Data /\ Checkpointed(Mine, "calls") \in Data
  <1>1. stack \in Seq(Run) /\ stack # <<>> /\ made \in Seq(Agents)
        BY DEF IInv, StackOK, Active
  <1>2. Top = stack[Len(stack)] /\ Len(stack) \in 1..Len(stack)  BY <1>1 DEF Top, Last
  <1>3. Top \in Run /\ RunOK(Top, Len(stack), made)  BY <1>1, <1>2 DEF IInv, StackOK
  <1>4. Top.sess \in Sessions  BY <1>3 DEF Run
  <1>5. Top.sess \in 1..Len(made)
    <2>1. Top.sess \in Int /\ Top.sess >= 1  BY <1>4, DelegationAssumption DEF Sessions
    <2>2. Top.sess <= Len(made)  BY <1>3 DEF RunOK
    <2> QED  BY <1>1, <2>1, <2>2
  <1>6. Agent \in Agents  BY <1>1, <1>5 DEF Agent
  <1>7. Mine \in Data  BY <1>4 DEF Mine, IInv
  <1>8. Ended(Mine) \in Data /\ Paused(Mine) \in Data /\ Completed \in Data
        BY <1>7, DataKept DEF Completed
  <1>9. Checkpointed(Mine, "plain") \in Data /\ Checkpointed(Mine, "calls") \in Data
        BY <1>7, DataKept
  <1> QED  BY <1>3, <1>4, <1>6, <1>7, <1>8, <1>9

(* A step of the run on top that stays the same run of the same session. *)
LEMMA StepTypes ==
    ASSUME IInv, Active, NEW where \in {"input", "model", "tools", "output"},
           NEW t \in -1..MaxTurns, NEW l \in 0..MaxBatch
    PROVE  /\ Step(where, t, l) \in Run
           /\ Step(where, t, l).sess = Top.sess /\ Step(where, t, l).depth = Top.depth
           /\ Step(where, t, l).kind = Top.kind /\ Step(where, t, l).at = where
           /\ Step(where, t, l).turn = t
  <1>1. Top \in Run  BY DataTypes
  <1> QED  BY <1>1 DEF Step, Entry, Run

(* What a save does to the disk keeps its type, whether it succeeds or not. *)
LEMMA SaveTypes ==
    ASSUME IInv, Active, NEW data \in Data
    PROVE  /\ Saves(data) => disk' \in [Sessions -> Data]
           /\ SaveFails => disk' \in [Sessions -> Data]
           /\ TrySave(data) => disk' \in [Sessions -> Data]
  <1>1. disk \in [Sessions -> Data]  BY DEF IInv
  <1>2. Saves(data) => disk' \in [Sessions -> Data]  BY <1>1 DEF Saves
  <1>3. SaveFails => disk' \in [Sessions -> Data]  BY <1>1 DEF SaveFails
  <1> QED  BY <1>2, <1>3 DEF TrySave

(* A run that ends leaves a well-formed stack, and the memory well typed. *)
LEMMA EndsKeeps ==
    ASSUME IInv, Active, disk' \in [Sessions -> Data],
           NEW data \in Data, NEW answers \in BOOLEAN, Ends(answers, data)
    PROVE  StackOK(stack', made) /\ mem' \in [Sessions -> Data] /\ expired' \in BOOLEAN
  <1>1. stack \in Seq(Run) /\ made \in Seq(Agents) /\ Len(made) <= MaxSessions
        /\ mem \in [Sessions -> Data] /\ expired \in BOOLEAN  BY DEF IInv, StackOK
  <1>2. Top.sess \in Sessions  BY DataTypes
  <1>3. CASE Len(stack) = 1
    <2>1. mem' = [mem EXCEPT ![Top.sess] = data] /\ stack' = <<>> /\ expired' = FALSE
          BY <1>3 DEF Ends, Keeps
    <2>2. StackOK(<<>>, made)  BY <1>1 DEF StackOK
    <2> QED  BY <1>1, <1>2, <2>1, <2>2
  <1>4. CASE Len(stack) # 1
    <2>1. Len(stack) > 1
      <3>1. Len(stack) \in Nat /\ Len(stack) # 0  BY <1>1 DEF Active
      <3>2. \A n \in Nat : n # 0 /\ n # 1 => n > 1  OBVIOUS
      <3> QED  BY <1>4, <3>1, <3>2
    <2>2. stack' = [Front(stack) EXCEPT ![Len(stack) - 1].left = @ - 1]
          /\ UNCHANGED expired  BY <1>4 DEF Ends
    <2>3. StackOK(stack', made)  BY <2>1, <2>2, Pop DEF IInv
    <2>4. Parent \in Sessions
      <3>1. stack[Len(stack) - 1] \in Run  BY <1>1, <2>1
      <3> QED  BY <3>1 DEF Parent, Run
    <2>5. Result(answers) \in Data
      <3>1. mem[Parent] \in Data  BY <1>1, <2>4
      <3> QED  BY <1>2, <3>1 DEF Result, Data
    <2>6. mem' \in [Sessions -> Data]
      <3> DEFINE kept == IF Top.kind = "task" THEN disk'[Top.sess] ELSE data
      <3>1. kept \in Data  BY <1>2
      <3>2. mem' = [mem EXCEPT ![Parent] = Result(answers), ![Top.sess] = kept]
            BY <1>4 DEF Ends
      <3> HIDE DEF kept
      <3> QED  BY <1>1, <1>2, <2>4, <2>5, <3>1, <3>2
    <2> QED  BY <1>1, <2>2, <2>3, <2>6
  <1> QED  BY <1>3, <1>4

(* A run that goes on stays the same run of the same session. *)
LEMMA ContinuesKeeps ==
    ASSUME IInv, Active, NEW data \in Data, NEW r \in Run,
           r.sess = Top.sess, r.depth = Top.depth,
           r.at = "tools" => r.turn < MaxTurns,
           Continues(r, data)
    PROVE  StackOK(stack', made) /\ mem' \in [Sessions -> Data] /\ expired' \in BOOLEAN
  <1>1. stack' = [stack EXCEPT ![Len(stack)] = r]
        /\ mem' = [mem EXCEPT ![Top.sess] = data] /\ UNCHANGED expired
        BY DEF Continues, Goes, Keeps
  <1>2. StackOK(stack', made)  BY <1>1, Replace DEF IInv, Active, Top
  <1> QED  BY <1>1, <1>2 DEF IInv

(* A checkpoint that must be saved for the run to go on. *)
LEMMA CheckpointKeeps ==
    ASSUME IInv, Active, NEW data \in Data, NEW r \in Run,
           r.sess = Top.sess, r.depth = Top.depth,
           r.at = "tools" => r.turn < MaxTurns,
           Checkpoint(data, r), UNCHANGED <<made, calls>>
    PROVE  IInv'
  <1>1. CASE Saves(data) /\ Continues(r, data)
    <2>1. disk' \in [Sessions -> Data]  BY <1>1, SaveTypes
    <2>2. StackOK(stack', made) /\ mem' \in [Sessions -> Data] /\ expired' \in BOOLEAN
          BY <1>1, ContinuesKeeps
    <2> QED  BY <2>1, <2>2 DEF IInv
  <1>2. CASE SaveFails /\ Ends(FALSE, data)
    <2>1. disk' \in [Sessions -> Data]  BY <1>2, SaveTypes
    <2>2. StackOK(stack', made) /\ mem' \in [Sessions -> Data] /\ expired' \in BOOLEAN
          BY <1>2, <2>1, EndsKeeps
    <2> QED  BY <2>1, <2>2 DEF IInv
  <1> QED  BY <1>1, <1>2 DEF Checkpoint

(* A run that stops, with what it leaves saved or not. *)
LEMMA StopsKeep ==
    ASSUME IInv, Active, NEW data \in Data, NEW answers \in BOOLEAN,
           TrySave(data) \/ UNCHANGED disk, Ends(answers, data), Same
    PROVE  IInv'
  <1>1. disk' \in [Sessions -> Data]
    <2>1. CASE TrySave(data)  BY <2>1, SaveTypes
    <2>2. CASE UNCHANGED disk  BY <2>2 DEF IInv
    <2> QED  BY <2>1, <2>2
  <1>2. StackOK(stack', made) /\ mem' \in [Sessions -> Data] /\ expired' \in BOOLEAN
        BY <1>1, EndsKeeps
  <1> QED  BY <1>1, <1>2 DEF IInv, Same

LEMMA FailsKeeps ==
    ASSUME IInv, Active, Same, Fails
    PROVE  IInv'
  <1>1. Ended(Mine) \in Data  BY DataTypes
  <1> QED  BY <1>1, StopsKeep DEF Fails

(* A run that starts, on top of nothing or of a run that waits for it. *)
LEMMA MakesKeeps ==
    ASSUME IInv, NEW a \in Agents, NEW d \in 0..MaxTaskDepth,
           NEW kind \in {"call", "task", "handoff"}, Makes(a, d, kind),
           stack # <<>> => Waits(Last(stack)),
           Len(stack) + 1 <= (NAgents - a) * (MaxTaskDepth + 1) + d + 1
    PROVE  StackOK(stack', made') /\ mem' \in [Sessions -> Data]
  <1> DEFINE s == Len(made) + 1
             r == NewRun(s, d, kind)
  <1>1. made \in Seq(Agents) /\ stack \in Seq(Run)  BY DEF IInv, StackOK
  <1>2. Len(made) < MaxSessions  BY <1>1, DelegationAssumption DEF Makes, Room
  <1>3. s \in Sessions  BY <1>1, <1>2, DelegationAssumption DEF Sessions
  <1>4. made' = Append(made, a) /\ stack' = Append(stack, r)
        /\ mem' = [mem EXCEPT ![s] = Begun(mem[s])]
        BY DEF Makes, Starts
  <1>5. r \in Run  BY <1>3, DelegationAssumption DEF NewRun, Entry, Run
  <1>6. r.sess = s /\ r.at = "input" /\ r.depth = d  BY DEF NewRun, Entry
  <1>7. Append(made, a)[s] = a  BY <1>1
  <1>8. mem' \in [Sessions -> Data]
    <2>1. mem[s] \in Data /\ mem \in [Sessions -> Data]  BY <1>3 DEF IInv
    <2>2. Begun(mem[s]) \in Data  BY <2>1, DataKept
    <2> QED  BY <1>4, <2>1, <2>2
  <1> HIDE DEF s, r
  <1>9. Len(stack) + 1 <= Potential(r, Append(made, a))
        BY <1>6, <1>7 DEF Potential
  <1>10. stack # <<>> => Waits(stack[Len(stack)])  BY DEF Last
  <1>11. StackOK(Append(stack, r), Append(made, a))
         BY <1>2, <1>5, <1>6, <1>9, <1>10, Push DEF IInv, s
  <1> QED  BY <1>4, <1>8, <1>11

-----------------------------------------------------------------------------
(* The invariant. *)

LEMMA InitInv == Init => IInv
  <1> SUFFICES ASSUME Init PROVE IInv  OBVIOUS
  <1>1. StackOK(stack, made)  BY DelegationAssumption DEF Init, StackOK
  <1>2. NewData \in Data  BY DelegationAssumption DEF NewData, Data
  <1>3. mem \in [Sessions -> Data] /\ disk \in [Sessions -> Data]  BY <1>2 DEF Init
  <1>4. expired \in BOOLEAN
    <2>1. expired = FALSE  BY DEF Init
    <2> QED  BY <2>1
  <1>5. calls \in 0..MaxCalls
    <2>1. calls = 0  BY DEF Init
    <2> QED  BY <2>1, DelegationAssumption
  <1> QED  BY <1>1, <1>3, <1>4, <1>5 DEF IInv

(* The application starts a run of a session that was made before. *)
LEMMA RootKeeps ==
    ASSUME IInv, stack = <<>>, NEW s \in 1..Len(made), NEW r \in Run,
           r.sess = s, r.depth = 0, r.at = "tools" => r.turn < MaxTurns,
           NEW data \in Data, Starts(s, r, data)
    PROVE  StackOK(stack', made) /\ mem' \in [Sessions -> Data]
  <1>1. made \in Seq(Agents) /\ Len(made) <= MaxSessions  BY DEF IInv, StackOK
  <1>2. s \in Sessions  BY <1>1, DelegationAssumption DEF Sessions
  <1>3. stack' = <<r>>  BY DEF Starts
  <1>4. RunOK(r, 1, made)
    <2>1. made[s] \in Agents  BY <1>1
    <2>2. NAgents - made[s] \in Nat /\ MaxTaskDepth + 1 \in Nat
          BY <2>1, DelegationAssumption DEF Agents
    <2>3. (NAgents - made[s]) * (MaxTaskDepth + 1) >= 0
          /\ (NAgents - made[s]) * (MaxTaskDepth + 1) \in Int  BY <2>2
    <2>4. s <= Len(made)  BY <1>1
    <2> QED  BY <2>3, <2>4 DEF RunOK, Potential
  <1>5. StackOK(stack', made)  BY <1>1, <1>3, <1>4 DEF StackOK
  <1>6. mem' = [mem EXCEPT ![s] = data] /\ mem \in [Sessions -> Data]  BY DEF Starts, IInv
  <1> QED  BY <1>2, <1>5, <1>6

(* What the application may call again: the runs it starts. *)
LEMMA RootTypes ==
    ASSUME IInv, NEW s \in 1..Len(made)
    PROVE  /\ s \in Sessions /\ mem[s] \in Data
           /\ NewRun(s, 0, "call") \in Run
           /\ NewRun(s, 0, "call").sess = s /\ NewRun(s, 0, "call").depth = 0
           /\ NewRun(s, 0, "call").at = "input"
           /\ \A kind \in Resumes, at \in {"tools", "model"}, t \in {-1, 0}, n \in 0..MaxBatch :
                LET r == Entry(s, 0, kind, at, t, n) IN
                r \in Run /\ r.sess = s /\ r.depth = 0 /\ r.at = at /\ r.turn = t /\ r.kind = kind
  <1>1. made \in Seq(Agents) /\ Len(made) <= MaxSessions  BY DEF IInv, StackOK
  <1>2. s \in Sessions  BY <1>1, DelegationAssumption DEF Sessions
  <1>3. mem[s] \in Data  BY <1>2 DEF IInv
  <1>4. 0 \in 0..MaxTaskDepth /\ 0 \in -1..MaxTurns /\ -1 \in -1..MaxTurns /\ 0 \in 0..MaxBatch
        BY DelegationAssumption
  <1> QED  BY <1>2, <1>3, <1>4 DEF NewRun, Entry, Run

LEMMA NextInv == IInv /\ [Next]_vars => IInv'
  <1> SUFFICES ASSUME IInv, [Next]_vars PROVE IInv'  OBVIOUS
  <1>0. ASSUME Calls
        PROVE  /\ stack = <<>> /\ Len(stack) = 0
               /\ disk' \in [Sessions -> Data] /\ expired' \in BOOLEAN /\ calls' \in 0..MaxCalls
        BY <1>0, DelegationAssumption DEF Calls, Active, IInv
  <1>1. CASE Call
    <2>1. Calls  BY <1>1 DEF Call
    <2>3. CASE \E a \in Agents : Makes(a, 0, "call")
      <3>1. PICK a \in Agents : Makes(a, 0, "call")  BY <2>3
      <3>2. Len(stack) + 1 <= (NAgents - a) * (MaxTaskDepth + 1) + 0 + 1
        <4>1. NAgents - a \in Nat /\ MaxTaskDepth + 1 \in Nat
              BY DelegationAssumption DEF Agents
        <4>2. (NAgents - a) * (MaxTaskDepth + 1) >= 0  BY <4>1
        <4>3. (NAgents - a) * (MaxTaskDepth + 1) \in Int  BY <4>1
        <4> QED  BY <1>0, <2>1, <4>2, <4>3
      <3>3. 0 \in 0..MaxTaskDepth  BY DelegationAssumption
      <3>4. StackOK(stack', made') /\ mem' \in [Sessions -> Data]
            BY <1>0, <2>1, <3>1, <3>2, <3>3, MakesKeeps
      <3> QED  BY <1>0, <2>1, <3>4 DEF IInv
    <2>4. CASE \E s \in 1..Len(made) :
                  Starts(s, NewRun(s, 0, "call"), Begun(mem[s])) /\ UNCHANGED made
      <3>1. PICK s \in 1..Len(made) :
                  Starts(s, NewRun(s, 0, "call"), Begun(mem[s])) /\ UNCHANGED made  BY <2>4
      <3>2. Begun(mem[s]) \in Data  BY RootTypes, DataKept
      <3>3. StackOK(stack', made) /\ mem' \in [Sessions -> Data]
            BY <1>0, <2>1, <3>1, <3>2, RootTypes, RootKeeps
      <3> QED  BY <1>0, <2>1, <3>1, <3>3 DEF IInv
    <2> QED  BY <1>1, <2>3, <2>4 DEF Call
  <1>16. CASE Resume
    <2>1. Calls /\ UNCHANGED made  BY <1>16 DEF Resume
    <2>2. PICK s \in 1..Len(made), n \in 0..1 :
             Starts(s, Entry(s, 0, "resume", "tools", -1, n), Marked(mem[s], "running"))
          BY <1>16 DEF Resume
    <2> DEFINE r == Entry(s, 0, "resume", "tools", -1, n)
    <2>3. n \in 0..MaxBatch /\ -1 < MaxTurns  BY DelegationAssumption
    <2>4. r \in Run /\ r.sess = s /\ r.depth = 0 /\ r.turn = -1
          BY <2>3, RootTypes DEF Resumes
    <2>5. Marked(mem[s], "running") \in Data  BY RootTypes, DataKept
    <2>6. Starts(s, r, Marked(mem[s], "running"))  BY <2>2
    <2> HIDE DEF r
    <2>7. StackOK(stack', made) /\ mem' \in [Sessions -> Data]
          BY <1>0, <2>1, <2>3, <2>4, <2>5, <2>6, RootKeeps
    <2> QED  BY <1>0, <2>1, <2>7 DEF IInv
  <1>17. CASE ResumeRun
    <2>1. Calls /\ UNCHANGED made  BY <1>17 DEF ResumeRun
    <2>2. PICK s \in 1..Len(made) :
             LET data == Marked(mem[s], "running") IN
             \/ \E n \in 1..MaxBatch : Starts(s, Entry(s, 0, "resumeRun", "tools", -1, n), data)
             \/ Starts(s, Entry(s, 0, "resumeRun", "model", 0, 0), data)
             \/ mem' = [mem EXCEPT ![s] = data] /\ UNCHANGED stack
          BY <1>17 DEF ResumeRun
    <2> DEFINE data == Marked(mem[s], "running")
    <2>3. data \in Data /\ s \in Sessions  BY RootTypes, DataKept
    <2>4. CASE \E n \in 1..MaxBatch : Starts(s, Entry(s, 0, "resumeRun", "tools", -1, n), data)
      <3>1. PICK n \in 1..MaxBatch : Starts(s, Entry(s, 0, "resumeRun", "tools", -1, n), data)
            BY <2>4
      <3> DEFINE r == Entry(s, 0, "resumeRun", "tools", -1, n)
      <3>2. n \in 0..MaxBatch /\ -1 < MaxTurns  BY DelegationAssumption
      <3>3. r \in Run /\ r.sess = s /\ r.depth = 0 /\ r.turn = -1
            BY <3>2, RootTypes DEF Resumes
      <3>4. Starts(s, r, data)  BY <3>1
      <3> HIDE DEF r, data
      <3>5. StackOK(stack', made) /\ mem' \in [Sessions -> Data]
            BY <1>0, <2>1, <2>3, <3>2, <3>3, <3>4, RootKeeps
      <3> QED  BY <1>0, <2>1, <3>5 DEF IInv
    <2>5. CASE Starts(s, Entry(s, 0, "resumeRun", "model", 0, 0), data)
      <3> DEFINE r == Entry(s, 0, "resumeRun", "model", 0, 0)
      <3>1. 0 \in 0..MaxBatch  BY DelegationAssumption
      <3>2. r \in Run /\ r.sess = s /\ r.depth = 0 /\ r.at = "model"
            BY <3>1, RootTypes DEF Resumes
      <3>3. Starts(s, r, data)  BY <2>5
      <3> HIDE DEF r, data
      <3>4. StackOK(stack', made) /\ mem' \in [Sessions -> Data]
            BY <1>0, <2>1, <2>3, <3>2, <3>3, RootKeeps
      <3> QED  BY <1>0, <2>1, <3>4 DEF IInv
    <2>6. CASE mem' = [mem EXCEPT ![s] = data] /\ UNCHANGED stack
      <3> HIDE DEF data
      <3>1. mem' \in [Sessions -> Data]  BY <2>3, <2>6 DEF IInv
      <3> QED  BY <1>0, <2>1, <2>6, <3>1 DEF IInv
    <2> QED  BY <2>2, <2>4, <2>5, <2>6
  <1>2. CASE Task
    <2>1. Active /\ Top.at = "tools" /\ Top.left > 0 /\ Top.depth < MaxTaskDepth
          BY <1>2 DEF Task, At
    <2>2. Top \in Run /\ RunOK(Top, Len(stack), made) /\ Agent \in Agents
          BY <2>1, DataTypes
    <2>3. Makes(Agent, Top.depth + 1, "task")  BY <1>2 DEF Task
    <2>4. Top.depth + 1 \in 0..MaxTaskDepth
          BY <2>1, <2>2, DelegationAssumption DEF Run
    <2>5. Len(stack) + 1 <= (NAgents - Agent) * (MaxTaskDepth + 1) + (Top.depth + 1) + 1
      <3> DEFINE units == (NAgents - Agent) * (MaxTaskDepth + 1)
      <3>1. units \in Int
        <4>1. NAgents - Agent \in Int /\ MaxTaskDepth + 1 \in Int
              BY <2>2, DelegationAssumption DEF Agents
        <4> QED  BY <4>1
      <3>2. Len(stack) <= units + Top.depth + 1
            BY <2>2 DEF RunOK, Potential, Agent
      <3>3. Top.depth \in Int /\ Len(stack) \in Int
            BY <2>2, DelegationAssumption DEF Run, IInv, StackOK
      <3> HIDE DEF units
      <3>4. Len(stack) + 1 <= units + (Top.depth + 1) + 1  BY <3>1, <3>2, <3>3
      <3> QED  BY <3>4 DEF units
    <2>6. stack # <<>> => Waits(Last(stack))  BY <2>1 DEF Waits, Top
    <2>7. StackOK(stack', made') /\ mem' \in [Sessions -> Data]
          BY <2>2, <2>3, <2>4, <2>5, <2>6, MakesKeeps
    <2> QED  BY <1>2, <2>7 DEF IInv, Task
  <1>3. CASE Handoff
    <2>1. Active /\ Top.at = "tools" /\ Top.left > 0  BY <1>3 DEF Handoff, At
    <2>2. Top \in Run /\ RunOK(Top, Len(stack), made) /\ Agent \in Agents
          BY <2>1, DataTypes
    <2>3. PICK a \in Handoffs[Agent] : Makes(a, 0, "handoff")  BY <1>3 DEF Handoff
    <2>4. a \in Agents /\ a < Agent  BY <2>2, DelegationAssumption
    <2>5. Len(stack) + 1 <= (NAgents - a) * (MaxTaskDepth + 1) + 0 + 1
      <3> DEFINE units == (NAgents - Agent) * (MaxTaskDepth + 1)
                 more == (NAgents - a) * (MaxTaskDepth + 1)
      <3>1. units \in Int /\ more \in Int
        <4>1. NAgents - Agent \in Int /\ NAgents - a \in Int /\ MaxTaskDepth + 1 \in Int
              BY <2>2, <2>4, DelegationAssumption DEF Agents
        <4> QED  BY <4>1
      <3>2. Len(stack) <= units + Top.depth + 1
            BY <2>2 DEF RunOK, Potential, Agent
      <3>3. Top.depth \in Int /\ Top.depth <= MaxTaskDepth /\ Len(stack) \in Int
            BY <2>2, DelegationAssumption DEF Run, IInv, StackOK
      <3>4. more >= units + (MaxTaskDepth + 1)  BY <2>2, <2>4, SmallerIsWorthMore
      <3> HIDE DEF units, more
      <3>5. Len(stack) + 1 <= more + 0 + 1
            BY <3>1, <3>2, <3>3, <3>4, DelegationAssumption
      <3> QED  BY <3>5 DEF more
    <2>6. stack # <<>> => Waits(Last(stack))  BY <2>1 DEF Waits, Top
    <2>7. 0 \in 0..MaxTaskDepth  BY DelegationAssumption
    <2>8. StackOK(stack', made') /\ mem' \in [Sessions -> Data]
          BY <2>3, <2>4, <2>5, <2>6, <2>7, MakesKeeps
    <2> QED  BY <1>3, <2>8 DEF IInv, Handoff
  <1>4. CASE Input
    <2>1. Active /\ Same  BY <1>4 DEF Input, At
    <2> DEFINE data == Checkpointed(Mine, "plain")
               r == Step("model", 0, 0)
    <2>2. data \in Data  BY <2>1, DataTypes
    <2>3. r \in Run /\ r.sess = Top.sess /\ r.depth = Top.depth /\ r.at # "tools"
      <3>1. 0 \in -1..MaxTurns /\ 0 \in 0..MaxBatch  BY DelegationAssumption
      <3> QED  BY <2>1, <3>1, StepTypes
    <2>4. Checkpoint(data, r) \/ (Saves(data) /\ Ends(FALSE, data))  BY <1>4 DEF Input
    <2> HIDE DEF data, r
    <2>5. CASE Checkpoint(data, r)  BY <2>1, <2>2, <2>3, <2>5, CheckpointKeeps DEF Same
    <2>6. CASE Saves(data) /\ Ends(FALSE, data)  BY <2>1, <2>2, <2>6, StopsKeep DEF TrySave
    <2> QED  BY <2>4, <2>5, <2>6
  <1>5. CASE InputBlocked
    BY <1>5, FailsKeeps DEF InputBlocked, At
  <1>6. CASE AsksForTools
    <2>1. Active /\ Top.turn < MaxTurns /\ Same  BY <1>6 DEF AsksForTools, AsksModel, At
    <2>2. PICK n \in 1..MaxBatch : Checkpoint(Checkpointed(Mine, "calls"), Step("tools", Top.turn, n))
          BY <1>6 DEF AsksForTools
    <2> DEFINE r == Step("tools", Top.turn, n)
               data == Checkpointed(Mine, "calls")
    <2>3. r \in Run /\ r.sess = Top.sess /\ r.depth = Top.depth /\ r.turn = Top.turn
      <3>1. Top.turn \in -1..MaxTurns /\ n \in 0..MaxBatch
            BY <2>1, DataTypes, DelegationAssumption DEF Run
      <3> QED  BY <2>1, <3>1, StepTypes
    <2>4. Checkpoint(data, r) /\ data \in Data  BY <2>1, <2>2, DataTypes
    <2> HIDE DEF r, data
    <2> QED  BY <2>1, <2>3, <2>4, CheckpointKeeps DEF Same
  <1>7. CASE FinalText
    <2>1. Active /\ Same  BY <1>7 DEF FinalText, AsksModel, At
    <2> DEFINE r == Step("output", Top.turn, 0)
               data == Checkpointed(Mine, "plain")
    <2>3. r \in Run /\ r.sess = Top.sess /\ r.depth = Top.depth /\ r.at # "tools"
      <3>1. Top.turn \in -1..MaxTurns /\ 0 \in 0..MaxBatch
            BY <2>1, DataTypes, DelegationAssumption DEF Run
      <3> QED  BY <2>1, <3>1, StepTypes
    <2>4. Checkpoint(data, r) /\ data \in Data  BY <1>7, <2>1, DataTypes DEF FinalText
    <2> HIDE DEF r, data
    <2> QED  BY <2>1, <2>3, <2>4, CheckpointKeeps DEF Same
  <1>18. CASE AsksOrTellsResumed
    <2>1. Active /\ Top.turn < MaxTurns /\ Same /\ UNCHANGED disk
          BY <1>18 DEF AsksOrTellsResumed, AsksModel, At
    <2>2. Mine \in Data /\ Top.turn \in -1..MaxTurns  BY <2>1, DataTypes DEF Run
    <2>3. \A where \in {"tools", "output"}, n \in 0..MaxBatch :
             Continues(Step(where, Top.turn, n), Mine) => IInv'
      <3> TAKE where \in {"tools", "output"}, n \in 0..MaxBatch
      <3> HAVE Continues(Step(where, Top.turn, n), Mine)
      <3> DEFINE r == Step(where, Top.turn, n)
      <3>1. r \in Run /\ r.sess = Top.sess /\ r.depth = Top.depth /\ r.turn = Top.turn
            BY <2>1, <2>2, StepTypes
      <3>2. Continues(r, Mine)  OBVIOUS
      <3> HIDE DEF r
      <3>3. StackOK(stack', made) /\ mem' \in [Sessions -> Data] /\ expired' \in BOOLEAN
            BY <2>1, <2>2, <3>1, <3>2, ContinuesKeeps
      <3> QED  BY <2>1, <3>3 DEF IInv, Same
    <2>4. CASE \E n \in 1..MaxBatch : Continues(Step("tools", Top.turn, n), Mine)
      <3>1. PICK n \in 1..MaxBatch : Continues(Step("tools", Top.turn, n), Mine)  BY <2>4
      <3>2. n \in 0..MaxBatch  BY DelegationAssumption
      <3> QED  BY <2>3, <3>1, <3>2
    <2>5. CASE Continues(Step("output", Top.turn, 0), Mine)
      <3>1. 0 \in 0..MaxBatch  BY DelegationAssumption
      <3> QED  BY <2>3, <2>5, <3>1
    <2> QED  BY <1>18, <2>4, <2>5 DEF AsksOrTellsResumed
  <1>8. CASE ModelFails
    BY <1>8, FailsKeeps DEF ModelFails, AsksModel, At
  <1>9. CASE TurnsExceeded
    BY <1>9, FailsKeeps DEF TurnsExceeded, At
  <1>19. CASE OutputBlocked
    <2>1. Active /\ Same  BY <1>19 DEF OutputBlocked, At
    <2>2. Ended(Mine) \in Data  BY <2>1, DataTypes
    <2> QED  BY <1>19, <2>1, <2>2, FailsKeeps, StopsKeep DEF OutputBlocked, StopsUnsaved
  <1>20. CASE CompactionFails
    <2>1. Active /\ Same  BY <1>20 DEF CompactionFails, At
    <2>2. Mine \in Data  BY <2>1, DataTypes
    <2> QED  BY <1>20, <2>1, <2>2, StopsKeep DEF CompactionFails, StopsUnsaved
  <1>21. CASE FinalAnswer
    <2>1. Active /\ Same  BY <1>21 DEF FinalAnswer, At
    <2>2. Completed \in Data  BY <2>1, DataTypes
    <2>3. \/ Saves(Completed) /\ Ends(TRUE, Completed)
          \/ SaveFails /\ Ends(FALSE, Completed)  BY <1>21 DEF FinalAnswer
    <2> QED  BY <2>1, <2>2, <2>3, StopsKeep DEF TrySave
  <1>10. CASE OtherTool
    <2>1. Active /\ Top.at = "tools" /\ Top.left > 0 /\ Same /\ UNCHANGED disk
          BY <1>10 DEF OtherTool, At
    <2>2. Mine \in Data /\ RunOK(Top, Len(stack), made)  BY <2>1, DataTypes
    <2> DEFINE r == Step("tools", Top.turn, Top.left - 1)
    <2>3. r \in Run /\ r.sess = Top.sess /\ r.depth = Top.depth /\ r.turn = Top.turn
      <3>1. Top.turn \in -1..MaxTurns /\ Top.left - 1 \in 0..MaxBatch
            BY <2>1, DataTypes, DelegationAssumption DEF Run
      <3> QED  BY <2>1, <3>1, StepTypes
    <2>4. Top.turn < MaxTurns  BY <2>1, <2>2 DEF RunOK
    <2>5. Continues(r, Mine)  BY <1>10 DEF OtherTool
    <2> HIDE DEF r
    <2>6. StackOK(stack', made) /\ mem' \in [Sessions -> Data] /\ expired' \in BOOLEAN
          BY <2>1, <2>2, <2>3, <2>4, <2>5, ContinuesKeeps
    <2> QED  BY <2>1, <2>6 DEF IInv, Same
  <1>11. CASE StopsAtTool
    <2>1. Active /\ Same  BY <1>11 DEF StopsAtTool, At
    <2>2. Mine \in Data /\ Ended(Mine) \in Data /\ Paused(Mine) \in Data  BY <2>1, DataTypes
    <2>3. \/ Fails
          \/ TrySave(Paused(Mine)) /\ Ends(FALSE, Paused(Mine))
          \/ UNCHANGED disk /\ Ends(FALSE, Ended(Mine))
          \/ UNCHANGED disk /\ Ends(FALSE, Mine)
          BY <1>11 DEF StopsAtTool, StopsUnsaved
    <2> QED  BY <2>1, <2>2, <2>3, FailsKeeps, StopsKeep
  <1>12. CASE ToolsDone
    <2>1. Active /\ Top.at = "tools" /\ Same  BY <1>12 DEF ToolsDone, At
    <2>2. Checkpointed(Mine, "plain") \in Data /\ RunOK(Top, Len(stack), made) /\ Top \in Run
          BY <2>1, DataTypes
    <2> DEFINE r == Step("model", Top.turn + 1, 0)
               data == Checkpointed(Mine, "plain")
    <2>3. Top.turn < MaxTurns  BY <2>1, <2>2 DEF RunOK
    <2>4. r \in Run /\ r.sess = Top.sess /\ r.depth = Top.depth /\ r.at # "tools"
      <3>1. Top.turn + 1 \in -1..MaxTurns /\ 0 \in 0..MaxBatch
            BY <2>2, <2>3, DelegationAssumption DEF Run
      <3> QED  BY <2>1, <3>1, StepTypes
    <2>5. Checkpoint(data, r) /\ data \in Data  BY <1>12, <2>2 DEF ToolsDone
    <2> HIDE DEF r, data
    <2> QED  BY <2>1, <2>4, <2>5, CheckpointKeeps DEF Same
  <1>13. CASE Deadline
    BY <1>13 DEF Deadline, IInv
  <1>14. CASE Crash
    <2>1. StackOK(<<>>, made)  BY DEF IInv, StackOK
    <2> QED  BY <1>14, <2>1 DEF Crash, IInv
  <1>15. CASE UNCHANGED vars
    BY <1>15 DEF vars, IInv
  <1> QED
    BY <1>1, <1>2, <1>3, <1>4, <1>5, <1>6, <1>7, <1>8, <1>9, <1>10, <1>11, <1>12,
       <1>13, <1>14, <1>15, <1>16, <1>17, <1>18, <1>19, <1>20, <1>21 DEF Next, RunStep

LEMMA Invariance == Spec => []IInv
  BY InitInv, NextInv, PTL DEF Spec

-----------------------------------------------------------------------------
(* The results. *)

(* The state of every run in progress and of every session stays within its type:
   the turn and the number of calls left to a waiting parent (runPrompt's loop)
   never leave their range, however runs nest, fail, time out and crash. *)
THEOREM TypeCorrect == Spec => []TypeOK
  <1>1. IInv => TypeOK  BY DEF IInv, StackOK, TypeOK
  <1> QED  BY <1>1, Invariance, PTL

(* The stack of runs is bounded by the number of agents times the number of task
   levels (runTask's maxTaskDepth), although a handoff starts again at depth 0. *)
THEOREM DelegationEnds == Spec => []NestingBounded
  <1>1. ASSUME IInv PROVE NestingBounded
    <2>1. stack \in Seq(Run) /\ made \in Seq(Agents)  BY <1>1 DEF IInv, StackOK
    <2>2. CASE Len(stack) = 0
      <3>1. (MaxTaskDepth + 1) * NAgents >= 0
        <4>1. MaxTaskDepth + 1 \in Nat /\ NAgents \in Nat  BY DelegationAssumption
        <4> QED  BY <4>1
      <3> QED  BY <2>2, <3>1 DEF NestingBounded
    <2>3. CASE Len(stack) # 0
      <3> DEFINE n == Len(stack)
                 r == stack[n]
      <3>1. n \in 1..n /\ r \in Run  BY <2>1, <2>3
      <3>2. RunOK(r, n, made)  BY <1>1, <3>1 DEF IInv, StackOK
      <3>3. n <= Potential(r, made) /\ r.sess <= Len(made)  BY <3>2 DEF RunOK
      <3>4. Potential(r, made) \in Int  BY <2>1, <3>1, <3>3, PotentialType
      <3>5. Potential(r, made) <= (MaxTaskDepth + 1) * NAgents
            BY <2>1, <3>1, <3>3, PotentialBound
      <3>6. (MaxTaskDepth + 1) * NAgents \in Int
        <4>1. MaxTaskDepth + 1 \in Int /\ NAgents \in Int  BY DelegationAssumption
        <4> QED  BY <4>1
      <3>7. n \in Int  BY <2>1
      <3> HIDE DEF n, r
      <3>8. n <= (MaxTaskDepth + 1) * NAgents  BY <3>3, <3>4, <3>5, <3>6, <3>7
      <3> QED  BY <3>8 DEF NestingBounded, n
    <2> QED  BY <2>2, <2>3
  <1> QED  BY <1>1, Invariance, PTL

-----------------------------------------------------------------------------
(* What is on disk about the runs in progress and about their answers.     *)
(* Only the run on top writes, and only its own session; so what the disk  *)
(* says of a waiting run stays as it was when it asked for its tools,      *)
(* provided no two runs of the stack share a session.                      *)

OneRunEach(stk) == \A i, j \in 1..Len(stk) : i # j => stk[i].sess # stk[j].sess

Resident(stk, m) == \A i \in 1..Len(stk) : m[stk[i].sess].status = "running"

Stored(r, d) == r.at = "tools" /\ r.kind \notin Resumes =>
                   d[r.sess].status = "running" /\ d[r.sess].ckpt = "calls"

AllStored(stk, d) == \A i \in 1..Len(stk) : Stored(stk[i], d)

Accounted(data, d) == \A c \in Sessions : c \in data.heard => d[c].done

(* The answers that memory holds are stored too, or the next save of a parent
   would write one that is not; and no completion is forgotten in memory, or the
   next save of a child would take one back. *)
AllAccounted(m, d) == /\ \A s \in Sessions : Accounted(d[s], d)
                      /\ \A s \in Sessions : Accounted(m[s], d)
                      /\ \A s \in Sessions : d[s].done => m[s].done

Durable(stk, m, d) == /\ OneRunEach(stk) /\ Resident(stk, m) /\ AllStored(stk, d)
                      /\ AllAccounted(m, d)

DInv == IInv /\ Durable(stack, mem, disk)

(* What a step of the run on top may write: the same answers, and no completion
   taken back. *)
Grows(data)      == data.heard = Mine.heard /\ (Mine.done => data.done)
MayStore(data)   == disk' = disk \/ Saves(data)

(* Every run of the stack has a session that was made, and no other run has it. *)
LEMMA StackSessions ==
    ASSUME DInv, Active
    PROVE  /\ Len(stack) \in Nat \ {0} /\ Top = stack[Len(stack)]
           /\ \A i \in 1..Len(stack) : /\ stack[i] \in Run
                                       /\ stack[i].sess \in Sessions
                                       /\ stack[i].sess <= Len(made)
           /\ \A i \in 1..(Len(stack) - 1) : stack[i].sess # Top.sess
  <1>1. stack \in Seq(Run) /\ stack # <<>>  BY DEF DInv, IInv, StackOK, Active
  <1>2. Len(stack) \in Nat \ {0} /\ Top = stack[Len(stack)]  BY <1>1 DEF Top, Last
  <1>3. \A i \in 1..Len(stack) : stack[i] \in Run /\ stack[i].sess \in Sessions
    <2>1. \A i \in 1..Len(stack) : stack[i] \in Run  BY <1>1
    <2> QED  BY <2>1 DEF Run
  <1>4. \A i \in 1..Len(stack) : stack[i].sess <= Len(made)
        BY DEF DInv, IInv, StackOK, RunOK
  <1>5. \A i \in 1..(Len(stack) - 1) : stack[i].sess # Top.sess
        BY <1>2 DEF DInv, Durable, OneRunEach
  <1> QED  BY <1>2, <1>3, <1>4, <1>5

(* A save of the run on top, whether it succeeds or not, takes nothing back that
   another session was told or that a waiting run relies on. *)
LEMMA SaveKeeps ==
    ASSUME DInv, Active, NEW data \in Data, Grows(data), MayStore(data)
    PROVE  /\ disk' \in [Sessions -> Data]
           /\ \A s \in Sessions : Accounted(disk'[s], disk') /\ Accounted(mem[s], disk')
           /\ \A s \in Sessions : s # Top.sess /\ disk'[s].done => mem[s].done
           /\ disk'[Top.sess].done => data.done
           /\ \A i \in 1..(Len(stack) - 1) : Stored(stack[i], disk')
  <1>1. disk \in [Sessions -> Data] /\ mem \in [Sessions -> Data]  BY DEF DInv, IInv
  <1>2. Top.sess \in Sessions  BY DataTypes DEF DInv
  <1>3. AllAccounted(mem, disk) /\ AllStored(stack, disk)  BY DEF DInv, Durable
  <1>4. \A s \in Sessions : s # Top.sess => disk'[s] = disk[s]
        BY <1>1 DEF MayStore, Saves
  <1>5. disk'[Top.sess] = disk[Top.sess] \/ disk'[Top.sess] = data
        BY <1>1, <1>2 DEF MayStore, Saves
  <1>6. Mine = mem[Top.sess]  BY DEF Mine
  <1>7. disk[Top.sess].done => data.done
        BY <1>2, <1>3, <1>6 DEF AllAccounted, Grows
  <1>8. \A c \in Sessions : disk[c].done => disk'[c].done  BY <1>4, <1>5, <1>7
  <1>9. disk' \in [Sessions -> Data]  BY <1>1, <1>2 DEF MayStore, Saves
  <1>10. \A s \in Sessions : Accounted(mem[s], disk')
         BY <1>3, <1>8 DEF AllAccounted, Accounted
  <1>11. \A s \in Sessions : Accounted(disk'[s], disk')
    <2> TAKE s \in Sessions
    <2>1. disk'[s] = disk[s] \/ disk'[s].heard = mem[Top.sess].heard
          BY <1>4, <1>5, <1>6 DEF Grows
    <2>2. Accounted(disk[s], disk')  BY <1>3, <1>8 DEF AllAccounted, Accounted
    <2>3. Accounted(mem[Top.sess], disk')  BY <1>2, <1>10
    <2> QED  BY <2>1, <2>2, <2>3 DEF Accounted
  <1>12. \A s \in Sessions : s # Top.sess /\ disk'[s].done => mem[s].done
         BY <1>3, <1>4 DEF AllAccounted
  <1>13. disk'[Top.sess].done => data.done  BY <1>5, <1>7
  <1>14. \A i \in 1..(Len(stack) - 1) : Stored(stack[i], disk')
    <2> TAKE i \in 1..(Len(stack) - 1)
    <2>1. i \in 1..Len(stack) /\ stack[i].sess \in Sessions /\ stack[i].sess # Top.sess
          BY StackSessions
    <2>2. Stored(stack[i], disk)  BY <1>3, <2>1 DEF AllStored
    <2> QED  BY <1>4, <2>1, <2>2 DEF Stored
  <1> QED  BY <1>9, <1>10, <1>11, <1>12, <1>13, <1>14

(* A run that ends, and answers only with its completion on disk. *)
LEMMA EndsDurably ==
    ASSUME DInv, Active, NEW data \in Data, Grows(data), MayStore(data),
           NEW answers \in BOOLEAN, answers => disk'[Top.sess].done,
           Ends(answers, data)
    PROVE  Durable(stack', mem', disk')
  <1> DEFINE n == Len(stack) - 1
             t == Top.sess
  <1>1. /\ disk' \in [Sessions -> Data]
        /\ \A s \in Sessions : Accounted(disk'[s], disk') /\ Accounted(mem[s], disk')
        /\ \A s \in Sessions : s # t /\ disk'[s].done => mem[s].done
        /\ disk'[t].done => data.done
        /\ \A i \in 1..n : Stored(stack[i], disk')
        BY SaveKeeps
  <1>2. mem \in [Sessions -> Data] /\ t \in Sessions /\ stack \in Seq(Run)
        BY DataTypes DEF DInv, IInv, StackOK
  <1>3. Accounted(data, disk')
    <2>1. data.heard = mem[t].heard  BY DEF Grows, Mine
    <2>2. Accounted(mem[t], disk')  BY <1>1, <1>2
    <2> QED  BY <2>1, <2>2 DEF Accounted
  <1>4. Len(stack) \in Nat \ {0}  BY StackSessions
  <1>5. CASE Len(stack) = 1
    <2>1. stack' = <<>> /\ mem' = [mem EXCEPT ![t] = data]  BY <1>5 DEF Ends, Keeps
    <2>2. OneRunEach(stack') /\ Resident(stack', mem') /\ AllStored(stack', disk')
          BY <2>1 DEF OneRunEach, Resident, AllStored
    <2>3. \A s \in Sessions : mem'[s] = mem[s] \/ (s = t /\ mem'[s] = data)
          BY <1>2, <2>1
    <2>4. \A s \in Sessions : Accounted(mem'[s], disk')  BY <1>1, <1>3, <2>3
    <2>5. mem'[t] = data /\ \A s \in Sessions : s # t => mem'[s] = mem[s]
          BY <1>2, <2>1
    <2>6. \A s \in Sessions : disk'[s].done => mem'[s].done  BY <1>1, <2>5
    <2> QED  BY <1>1, <2>2, <2>4, <2>6 DEF Durable, AllAccounted
  <1>6. CASE Len(stack) # 1
    <2> DEFINE p    == Parent
               kept == IF Top.kind = "task" THEN disk'[t] ELSE data
               told == Result(answers)
    <2>1. n \in Nat \ {0} /\ n \in 1..n
      <3> DEFINE m == Len(stack)
      <3>1. m \in Nat /\ m # 0 /\ m # 1  BY <1>4, <1>6
      <3> HIDE DEF m
      <3>2. m - 1 \in Nat \ {0} /\ m - 1 \in 1..(m - 1)  BY <3>1
      <3> QED  BY <3>2 DEF m
    <2>2. p = stack[n].sess /\ p \in Sessions /\ p # t
          BY <2>1, StackSessions DEF Parent
    <2>3. /\ stack' = [Front(stack) EXCEPT ![n].left = @ - 1]
          /\ mem' = [mem EXCEPT ![p] = told, ![t] = kept]
          BY <1>6 DEF Ends
    <2>4. /\ told.status = mem[p].status /\ told.done = mem[p].done
          /\ told.heard = mem[p].heard \/ (answers /\ told.heard = mem[p].heard \cup {t})
      <3>1. mem[p] \in Data  BY <1>2, <2>2
      <3> QED  BY <3>1 DEF Result, Data
    <2>5. Accounted(told, disk')
      <3>1. Accounted(mem[p], disk')  BY <1>1, <2>2
      <3>2. answers => disk'[t].done  OBVIOUS
      <3> QED  BY <2>4, <3>1, <3>2 DEF Accounted
    <2>6. Accounted(kept, disk') /\ (disk'[t].done => kept.done)
          BY <1>1, <1>2, <1>3
    <2>7. Front(stack) \in Seq(Run) /\ Len(Front(stack)) = n
          /\ \A i \in 1..n : Front(stack)[i] = stack[i] /\ stack[i] \in Run
          BY <1>2, <2>1, StackSessions DEF Front
    <2>8. /\ Len(stack') = n
          /\ \A i \in 1..n : /\ stack'[i].sess = stack[i].sess
                             /\ stack'[i].at = stack[i].at
                             /\ stack'[i].kind = stack[i].kind
      <3> DEFINE front == Front(stack)
      <3>1. front \in Seq(Run) /\ Len(front) = n /\ n \in Nat \ {0}  BY <2>1, <2>7
      <3>2. stack' = [front EXCEPT ![n].left = @ - 1]  BY <2>3
      <3> HIDE DEF front, n
      <3>3. Len(stack') = n  BY <3>1, <3>2
      <3>4. \A i \in 1..n : i # n => stack'[i] = front[i]  BY <3>1, <3>2
      <3>5. stack'[n] = [front[n] EXCEPT !.left = @ - 1] /\ front[n] \in Run
            BY <3>1, <3>2
      <3>6. /\ stack'[n].sess = front[n].sess /\ stack'[n].at = front[n].at
            /\ stack'[n].kind = front[n].kind  BY <3>5 DEF Run
      <3>7. \A i \in 1..n : front[i] = stack[i]  BY <2>7 DEF front, n
      <3> QED  BY <3>3, <3>4, <3>6, <3>7
    <2> HIDE DEF told, kept, p, t
    <2>9. /\ mem'[p] = told /\ mem'[t] = kept
          /\ \A s \in Sessions : s # p /\ s # t => mem'[s] = mem[s]
          BY <1>2, <2>2, <2>3
    <2>10. \A s \in Sessions : s = p \/ s = t \/ (s # p /\ s # t)  OBVIOUS
    <2>11. \A s \in Sessions : Accounted(mem'[s], disk')
           BY <1>1, <2>5, <2>6, <2>9, <2>10
    <2>12. disk'[p].done => told.done  BY <1>1, <2>2, <2>4
    <2>13. \A s \in Sessions : disk'[s].done => mem'[s].done
           BY <1>1, <2>6, <2>9, <2>10, <2>12
    <2>14. AllAccounted(mem', disk')  BY <1>1, <2>11, <2>13 DEF AllAccounted
    <2>15. OneRunEach(stack')
      <3>1. \A i, j \in 1..Len(stack) : i # j => stack[i].sess # stack[j].sess
            BY DEF DInv, Durable, OneRunEach
      <3>2. \A i \in 1..n : i \in 1..Len(stack)  BY <1>4
      <3> QED  BY <2>8, <3>1, <3>2 DEF OneRunEach
    <2>16. Resident(stack', mem')
      <3>1. \A i \in 1..n : /\ mem[stack[i].sess].status = "running"
                            /\ stack[i].sess \in Sessions /\ stack[i].sess # t
            BY <1>4, StackSessions DEF DInv, Durable, Resident, t
      <3>2. \A s \in Sessions : s # t => mem'[s].status = mem[s].status
            BY <2>4, <2>9, <2>10
      <3> QED  BY <2>8, <3>1, <3>2 DEF Resident
    <2>17. AllStored(stack', disk')
           BY <1>1, <2>8 DEF AllStored, Stored
    <2> QED  BY <2>14, <2>15, <2>16, <2>17 DEF Durable
  <1> QED  BY <1>5, <1>6

(* A run that goes on, and executes tools only with the request on disk. *)
LEMMA ContinuesDurably ==
    ASSUME DInv, Active, NEW data \in Data, Grows(data), MayStore(data),
           NEW r \in Run, r.sess = Top.sess, data.status = "running",
           Stored(r, disk'),
           Continues(r, data)
    PROVE  Durable(stack', mem', disk')
  <1> DEFINE n == Len(stack)
             t == Top.sess
  <1>1. /\ \A s \in Sessions : Accounted(disk'[s], disk') /\ Accounted(mem[s], disk')
        /\ \A s \in Sessions : s # t /\ disk'[s].done => mem[s].done
        /\ disk'[t].done => data.done
        /\ \A i \in 1..(n - 1) : Stored(stack[i], disk')
        BY SaveKeeps
  <1>2. mem \in [Sessions -> Data] /\ t \in Sessions /\ stack \in Seq(Run)
        BY DataTypes DEF DInv, IInv, StackOK
  <1>3. /\ n \in Nat \ {0} /\ stack[n].sess = t
        /\ \A i \in 1..n : stack[i].sess \in Sessions
        BY StackSessions
  <1>4. stack' = [stack EXCEPT ![n] = r] /\ mem' = [mem EXCEPT ![t] = data]
        BY DEF Continues, Goes, Keeps
  <1>5. Accounted(data, disk')
    <2>1. data.heard = mem[t].heard  BY DEF Grows, Mine
    <2>2. Accounted(mem[t], disk')  BY <1>1, <1>2
    <2> QED  BY <2>1, <2>2 DEF Accounted
  <1>6. r.sess = t  OBVIOUS
  <1>7. \A i, j \in 1..n : i # j => stack[i].sess # stack[j].sess
        BY DEF DInv, Durable, OneRunEach
  <1>8. \A i \in 1..n : mem[stack[i].sess].status = "running"
        BY DEF DInv, Durable, Resident
  <1> HIDE DEF n, t
  <1>9. /\ Len(stack') = n /\ stack'[n] = r
        /\ \A i \in 1..n : i # n => stack'[i] = stack[i]
        BY <1>2, <1>3, <1>4 DEF n
  <1>10. \A i \in 1..n : stack'[i].sess = stack[i].sess  BY <1>3, <1>6, <1>9
  <1>11. mem'[t] = data /\ \A s \in Sessions : s # t => mem'[s] = mem[s]
         BY <1>2, <1>4
  <1>12. AllAccounted(mem', disk')
    <2>1. \A s \in Sessions : Accounted(mem'[s], disk')  BY <1>1, <1>5, <1>11
    <2>2. \A s \in Sessions : disk'[s].done => mem'[s].done  BY <1>1, <1>11
    <2> QED  BY <1>1, <2>1, <2>2 DEF AllAccounted
  <1>13. OneRunEach(stack')  BY <1>7, <1>9, <1>10 DEF OneRunEach
  <1>14. Resident(stack', mem')
    <2>1. \A s \in Sessions : mem[s].status = "running" => mem'[s].status = "running"
          BY <1>11
    <2> QED  BY <1>3, <1>8, <1>9, <1>10, <2>1 DEF Resident
  <1>15. AllStored(stack', disk')
    <2>1. \A i \in 1..n : i # n => i \in 1..(n - 1)  BY <1>3
    <2> QED  BY <1>1, <1>9, <2>1 DEF AllStored
  <1> QED  BY <1>12, <1>13, <1>14, <1>15 DEF Durable

LEMMA CheckpointDurably ==
    ASSUME DInv, Active, NEW data \in Data, Grows(data), data.status = "running",
           NEW r \in Run, r.sess = Top.sess, r.at = "tools" => data.ckpt = "calls",
           Checkpoint(data, r)
    PROVE  Durable(stack', mem', disk')
  <1>1. MayStore(data)  BY DEF Checkpoint, MayStore, SaveFails
  <1>2. CASE Saves(data) /\ Continues(r, data)
    <2>1. disk'[r.sess] = data  BY <1>2, DataTypes DEF Saves, DInv, IInv
    <2>2. Stored(r, disk')  BY <2>1 DEF Stored
    <2> QED  BY <1>1, <1>2, <2>2, ContinuesDurably
  <1>3. CASE SaveFails /\ Ends(FALSE, data)
        BY <1>1, <1>3, EndsDurably
  <1> QED  BY <1>2, <1>3 DEF Checkpoint

(* What a run that stops writes has the same answers, and no completion less. *)
LEMMA AllGrow ==
    ASSUME DInv, Active
    PROVE  /\ Grows(Mine) /\ Grows(Ended(Mine)) /\ Grows(Paused(Mine))
           /\ Grows(Checkpointed(Mine, "plain")) /\ Grows(Checkpointed(Mine, "calls"))
           /\ Grows(Completed) /\ Completed.done
  <1>1. Mine \in Data  BY DataTypes DEF DInv
  <1>2. Grows(Mine)  BY DEF Grows
  <1>3. Grows(Ended(Mine)) /\ Grows(Paused(Mine))
        BY <1>1 DEF Grows, Ended, Paused, Marked, Data
  <1>4. Grows(Checkpointed(Mine, "plain")) /\ Grows(Checkpointed(Mine, "calls"))
        BY <1>1 DEF Grows, Checkpointed, Data
  <1>5. Grows(Completed) /\ Completed.done
        BY <1>1 DEF Grows, Completed, Ended, Marked, Data
  <1> QED  BY <1>2, <1>3, <1>4, <1>5

LEMMA StopsDurably ==
    ASSUME DInv, Active, NEW data \in Data, Grows(data),
           TrySave(data) \/ UNCHANGED disk, Ends(FALSE, data)
    PROVE  Durable(stack', mem', disk')
  <1>1. MayStore(data)  BY DEF TrySave, SaveFails, MayStore
  <1> QED  BY <1>1, EndsDurably

(* A session whose run starts on top of the others, and is none of theirs. *)
LEMMA StartsDurably ==
    ASSUME DInv, NEW s \in Sessions, NEW r \in Run, r.sess = s, Stored(r, disk),
           \A i \in 1..Len(stack) : stack[i].sess # s,
           NEW data \in Data, data.status = "running",
           data.done = mem[s].done, data.heard = mem[s].heard,
           Starts(s, r, data), UNCHANGED disk
    PROVE  Durable(stack', mem', disk')
  <1>1. stack \in Seq(Run) /\ mem \in [Sessions -> Data]  BY DEF DInv, IInv, StackOK
  <1>2. stack' = Append(stack, r) /\ mem' = [mem EXCEPT ![s] = data]  BY DEF Starts
  <1> DEFINE n == Len(stack)
  <1>3. /\ n \in Nat /\ Len(stack') = n + 1 /\ stack'[n + 1] = r
        /\ \A i \in 1..n : stack'[i] = stack[i] /\ stack[i].sess \in Sessions
    <2>1. \A i \in 1..n : stack[i] \in Run  BY <1>1
    <2>2. \A i \in 1..n : stack[i].sess \in Sessions  BY <2>1 DEF Run
    <2> QED  BY <1>1, <1>2, <2>2
  <1>4. mem'[s] = data  BY <1>1, <1>2
  <1>5. \A c \in Sessions : c # s => mem'[c] = mem[c]  BY <1>1, <1>2
  <1>6. Durable(stack, mem, disk) /\ disk' = disk  BY DEF DInv
  <1> HIDE DEF n
  <1>7. \A i \in 1..(n + 1) : i \in 1..n \/ i = n + 1  BY <1>3
  <1>8. OneRunEach(stack')
    <2>1. \A i \in 1..n : stack[i].sess # r.sess  BY DEF n
    <2>2. \A i, j \in 1..n : i # j => stack[i].sess # stack[j].sess
          BY <1>6 DEF Durable, OneRunEach, n
    <2> QED  BY <1>3, <1>7, <2>1, <2>2 DEF OneRunEach
  <1>9. Resident(stack', mem')
    <2>1. \A i \in 1..n : mem[stack[i].sess].status = "running" /\ stack[i].sess # s
          BY <1>6 DEF Durable, Resident, n
    <2> QED  BY <1>3, <1>4, <1>5, <1>7, <2>1 DEF Resident
  <1>10. AllStored(stack', disk')
    <2>1. \A i \in 1..n : Stored(stack[i], disk')
          BY <1>6 DEF Durable, AllStored, n
    <2> QED  BY <1>3, <1>6, <1>7, <2>1 DEF AllStored
  <1>11. AllAccounted(mem', disk')
    <2>1. AllAccounted(mem, disk')  BY <1>6 DEF Durable
    <2>2. \A c \in Sessions : mem'[c].done = mem[c].done /\ mem'[c].heard = mem[c].heard
          BY <1>4, <1>5
    <2> QED  BY <2>1, <2>2 DEF AllAccounted, Accounted
  <1> QED  BY <1>8, <1>9, <1>10, <1>11 DEF Durable

(* What a new run, and one that is taken up again, begin with. *)
LEMMA BeginsAs ==
    ASSUME DInv, NEW s \in Sessions
    PROVE  /\ Begun(mem[s]) \in Data /\ Begun(mem[s]).status = "running"
           /\ Begun(mem[s]).done = mem[s].done /\ Begun(mem[s]).heard = mem[s].heard
           /\ Marked(mem[s], "running") \in Data
           /\ Marked(mem[s], "running").status = "running"
           /\ Marked(mem[s], "running").done = mem[s].done
           /\ Marked(mem[s], "running").heard = mem[s].heard
  <1>1. mem[s] \in Data  BY DEF DInv, IInv
  <1>2. Begun(mem[s]) \in Data /\ Marked(mem[s], "running") \in Data  BY <1>1, DataKept
  <1>3. /\ Begun(mem[s]).status = "running"
        /\ Begun(mem[s]).done = mem[s].done /\ Begun(mem[s]).heard = mem[s].heard
        BY <1>1 DEF Begun, Data
  <1>4. /\ Marked(mem[s], "running").status = "running"
        /\ Marked(mem[s], "running").done = mem[s].done
        /\ Marked(mem[s], "running").heard = mem[s].heard
        BY <1>1 DEF Marked, Data
  <1> QED  BY <1>2, <1>3, <1>4

LEMMA MakesDurably ==
    ASSUME DInv, NEW a \in Agents, NEW d \in 0..MaxTaskDepth,
           NEW kind \in {"call", "task", "handoff"}, Makes(a, d, kind),
           UNCHANGED disk
    PROVE  Durable(stack', mem', disk')
  <1> DEFINE s == Len(made) + 1
             r == NewRun(s, d, kind)
             data == Begun(mem[s])
  <1>1. made \in Seq(Agents) /\ Len(made) < MaxSessions
    <2>1. made \in Seq(Agents) /\ Len(made) \in Nat  BY DEF DInv, IInv, StackOK
    <2>2. Len(made) < Room /\ Room <= MaxSessions /\ Room \in Int
          BY DelegationAssumption DEF Makes, Room
    <2> QED  BY <2>1, <2>2, DelegationAssumption
  <1>2. s \in Sessions /\ s > Len(made)  BY <1>1, DelegationAssumption DEF Sessions
  <1>3. r \in Run  BY <1>2, DelegationAssumption DEF NewRun, Entry, Run
  <1>4. r.sess = s /\ r.at = "input"  BY DEF NewRun, Entry
  <1>5. Starts(s, r, data)  BY DEF Makes
  <1>6. \A i \in 1..Len(stack) : stack[i].sess # s
    <2> TAKE i \in 1..Len(stack)
    <2>1. stack[i].sess <= Len(made)  BY DEF DInv, IInv, StackOK, RunOK
    <2>2. stack[i].sess \in Int
      <3>1. stack \in Seq(Run)  BY DEF DInv, IInv, StackOK
      <3>2. stack[i] \in Run  BY <3>1
      <3> QED  BY <3>2, DelegationAssumption DEF Run, Sessions
    <2> QED  BY <1>1, <2>1, <2>2
  <1> HIDE DEF s, r
  <1>7. Stored(r, disk)  BY <1>4 DEF Stored
  <1>8. /\ data \in Data /\ data.status = "running"
        /\ data.done = mem[s].done /\ data.heard = mem[s].heard  BY <1>2, BeginsAs
  <1> HIDE DEF data
  <1> QED  BY <1>2, <1>3, <1>4, <1>5, <1>6, <1>7, <1>8, StartsDurably

LEMMA InitDurable == Init => DInv
  <1> SUFFICES ASSUME Init PROVE DInv  OBVIOUS
  <1>1. IInv  BY InitInv
  <1>2. stack = <<>>  BY DEF Init
  <1>3. OneRunEach(stack) /\ Resident(stack, mem) /\ AllStored(stack, disk)
        BY <1>2 DEF OneRunEach, Resident, AllStored
  <1>4. \A s \in Sessions : mem[s].heard = {} /\ disk[s].heard = {} /\ ~disk[s].done
        BY DEF Init, NewData
  <1>5. AllAccounted(mem, disk)  BY <1>4 DEF AllAccounted, Accounted
  <1> QED  BY <1>1, <1>3, <1>5 DEF DInv, Durable

LEMMA NextDurable == DInv /\ [Next]_vars => DInv'
  <1> SUFFICES ASSUME DInv, [Next]_vars PROVE DInv'  OBVIOUS
  <1>1. IInv'  BY NextInv DEF DInv
  <1>2. ASSUME Active
        PROVE  /\ Top \in Run /\ Mine \in Data /\ Mine.status = "running" /\ Agent \in Agents
               /\ Top.sess \in Sessions /\ RunOK(Top, Len(stack), made) /\ Stored(Top, disk)
    <2>1. Top \in Run /\ Mine \in Data /\ Agent \in Agents /\ Top.sess \in Sessions
          /\ RunOK(Top, Len(stack), made)
          BY <1>2, DataTypes DEF DInv
    <2>2. Len(stack) \in 1..Len(stack) /\ Top = stack[Len(stack)]
          BY <1>2, StackSessions
    <2>3. Mine.status = "running"  BY <2>2 DEF DInv, Durable, Resident, Mine
    <2>4. Stored(Top, disk)  BY <2>2 DEF DInv, Durable, AllStored
    <2> QED  BY <2>1, <2>3, <2>4
  (* The application starts a run of a session that was made before. *)
  <1>3. ASSUME stack = <<>>, UNCHANGED disk, NEW s \in 1..Len(made), NEW r \in Run,
               r.sess = s, Stored(r, disk), NEW data \in Data,
               data = Begun(mem[s]) \/ data = Marked(mem[s], "running"), Starts(s, r, data)
        PROVE  DInv'
    <2>1. s \in Sessions  BY RootTypes DEF DInv
    <2>2. data.status = "running" /\ data.done = mem[s].done /\ data.heard = mem[s].heard
          BY <1>3, <2>1, BeginsAs
    <2>3. \A i \in 1..Len(stack) : stack[i].sess # s  BY <1>3
    <2>4. Durable(stack', mem', disk')  BY <1>3, <2>1, <2>2, <2>3, StartsDurably
    <2> QED  BY <1>1, <2>4 DEF DInv
  <1>4. ASSUME Calls PROVE stack = <<>> /\ UNCHANGED disk  BY <1>4 DEF Calls, Active
  <1>5. CASE Call
    <2>1. stack = <<>> /\ UNCHANGED disk  BY <1>4, <1>5 DEF Call
    <2>2. CASE \E a \in Agents : Makes(a, 0, "call")
      <3>1. PICK a \in Agents : Makes(a, 0, "call")  BY <2>2
      <3>2. 0 \in 0..MaxTaskDepth  BY DelegationAssumption
      <3>3. Durable(stack', mem', disk')  BY <2>1, <3>1, <3>2, MakesDurably
      <3> QED  BY <1>1, <3>3 DEF DInv
    <2>3. CASE \E s \in 1..Len(made) :
                  Starts(s, NewRun(s, 0, "call"), Begun(mem[s])) /\ UNCHANGED made
      <3>1. PICK s \in 1..Len(made) : Starts(s, NewRun(s, 0, "call"), Begun(mem[s]))  BY <2>3
      <3> DEFINE r == NewRun(s, 0, "call")
                 data == Begun(mem[s])
      <3>2. r \in Run /\ r.sess = s /\ r.at = "input" /\ s \in Sessions
            BY RootTypes DEF DInv
      <3>3. data \in Data /\ Starts(s, r, data)  BY <3>1, <3>2, BeginsAs
      <3> HIDE DEF r
      <3>4. Stored(r, disk)  BY <3>2 DEF Stored
      <3> QED  BY <1>3, <2>1, <3>2, <3>3, <3>4
    <2> QED  BY <1>5, <2>2, <2>3 DEF Call
  <1>6. CASE Resume
    <2>1. stack = <<>> /\ UNCHANGED disk  BY <1>4, <1>6 DEF Resume
    <2>2. PICK s \in 1..Len(made), n \in 0..1 :
             Starts(s, Entry(s, 0, "resume", "tools", -1, n), Marked(mem[s], "running"))
          BY <1>6 DEF Resume
    <2> DEFINE r == Entry(s, 0, "resume", "tools", -1, n)
               data == Marked(mem[s], "running")
    <2>3. n \in 0..MaxBatch  BY DelegationAssumption
    <2>4. r \in Run /\ r.sess = s /\ r.kind \in Resumes /\ s \in Sessions
          BY <2>3, RootTypes DEF Resumes, DInv
    <2>5. data \in Data /\ Starts(s, r, data)  BY <2>2, <2>4, BeginsAs
    <2> HIDE DEF r
    <2>6. Stored(r, disk)  BY <2>4 DEF Stored
    <2> QED  BY <1>3, <2>1, <2>4, <2>5, <2>6
  <1>7. CASE ResumeRun
    <2>1. stack = <<>> /\ UNCHANGED disk  BY <1>4, <1>7 DEF ResumeRun
    <2>2. PICK s \in 1..Len(made) :
             LET data == Marked(mem[s], "running") IN
             \/ \E n \in 1..MaxBatch : Starts(s, Entry(s, 0, "resumeRun", "tools", -1, n), data)
             \/ Starts(s, Entry(s, 0, "resumeRun", "model", 0, 0), data)
             \/ mem' = [mem EXCEPT ![s] = data] /\ UNCHANGED stack
          BY <1>7 DEF ResumeRun
    <2> DEFINE data == Marked(mem[s], "running")
    <2>3. s \in Sessions /\ data \in Data
      <3>1. s \in Sessions  BY RootTypes DEF DInv
      <3> QED  BY <3>1, BeginsAs
    <2>4. \A at \in {"tools", "model"}, t \in {-1, 0}, n \in 0..MaxBatch :
             Starts(s, Entry(s, 0, "resumeRun", at, t, n), data) => DInv'
      <3> TAKE at \in {"tools", "model"}, t \in {-1, 0}, n \in 0..MaxBatch
      <3> DEFINE r == Entry(s, 0, "resumeRun", at, t, n)
      <3>1. r \in Run /\ r.sess = s /\ r.kind \in Resumes  BY RootTypes DEF Resumes, DInv
      <3> HIDE DEF r
      <3>2. Stored(r, disk)  BY <3>1 DEF Stored
      <3>3. Starts(s, r, data) => DInv'  BY <1>3, <2>1, <2>3, <3>1, <3>2
      <3> QED  BY <3>3 DEF r
    <2>5. CASE \E n \in 1..MaxBatch : Starts(s, Entry(s, 0, "resumeRun", "tools", -1, n), data)
      <3>1. \A n \in 1..MaxBatch : n \in 0..MaxBatch  BY DelegationAssumption
      <3> HIDE DEF data
      <3> QED  BY <2>4, <2>5, <3>1
    <2>6. CASE Starts(s, Entry(s, 0, "resumeRun", "model", 0, 0), data)
      <3>1. 0 \in 0..MaxBatch  BY DelegationAssumption
      <3> HIDE DEF data
      <3> QED  BY <2>4, <2>6, <3>1
    <2>7. CASE mem' = [mem EXCEPT ![s] = data] /\ UNCHANGED stack
      <3>1. /\ mem'[s] = data /\ data.done = mem[s].done /\ data.heard = mem[s].heard
            /\ \A c \in Sessions : c # s => mem'[c] = mem[c]
            BY <2>3, <2>7, BeginsAs DEF DInv, IInv
      <3> HIDE DEF data
      <3>2. AllAccounted(mem, disk)  BY DEF DInv, Durable
      <3>3. AllAccounted(mem', disk')
        <4>1. \A c \in Sessions : mem'[c].done = mem[c].done /\ mem'[c].heard = mem[c].heard
              BY <3>1
        <4> QED  BY <2>1, <3>2, <4>1 DEF AllAccounted, Accounted
      <3>4. OneRunEach(stack') /\ Resident(stack', mem') /\ AllStored(stack', disk')
            BY <2>1, <2>7 DEF OneRunEach, Resident, AllStored
      <3> QED  BY <1>1, <3>3, <3>4 DEF DInv, Durable
    <2> QED  BY <2>2, <2>5, <2>6, <2>7
  <1>8. CASE Task
    <2>1. Active /\ Top.depth < MaxTaskDepth /\ Makes(Agent, Top.depth + 1, "task")
          /\ UNCHANGED disk  BY <1>8 DEF Task, At
    <2>2. Agent \in Agents /\ Top.depth + 1 \in 0..MaxTaskDepth
          BY <1>2, <2>1, DelegationAssumption DEF Run
    <2>3. Durable(stack', mem', disk')  BY <2>1, <2>2, MakesDurably
    <2> QED  BY <1>1, <2>3 DEF DInv
  <1>9. CASE Handoff
    <2>1. Active /\ UNCHANGED disk  BY <1>9 DEF Handoff, At
    <2>2. PICK a \in Handoffs[Agent] : Makes(a, 0, "handoff")  BY <1>9 DEF Handoff
    <2>3. a \in Agents /\ 0 \in 0..MaxTaskDepth
          BY <1>2, <2>1, DelegationAssumption
    <2>4. Durable(stack', mem', disk')  BY <2>1, <2>2, <2>3, MakesDurably
    <2> QED  BY <1>1, <2>4 DEF DInv
  <1>10. ASSUME Active, NEW data \in Data, Grows(data), data.status = "running",
                NEW r \in Run, r.sess = Top.sess, r.at = "tools" => data.ckpt = "calls",
                Checkpoint(data, r)
         PROVE  DInv'
    BY <1>1, <1>10, CheckpointDurably DEF DInv
  <1>11. ASSUME Active, NEW data \in Data, Grows(data),
                TrySave(data) \/ UNCHANGED disk, Ends(FALSE, data)
         PROVE  DInv'
    BY <1>1, <1>11, StopsDurably DEF DInv
  <1>12. ASSUME Active, Fails PROVE DInv'
    <2>1. Ended(Mine) \in Data /\ Grows(Ended(Mine))  BY <1>12, DataTypes, AllGrow DEF DInv
    <2> QED  BY <1>11, <1>12, <2>1 DEF Fails
  <1>13. ASSUME Active, NEW ckpt \in {"plain", "calls"}
         PROVE  /\ Checkpointed(Mine, ckpt) \in Data /\ Grows(Checkpointed(Mine, ckpt))
                /\ Checkpointed(Mine, ckpt).status = "running"
                /\ Checkpointed(Mine, ckpt).ckpt = ckpt
    <2>1. Checkpointed(Mine, ckpt) \in Data /\ Grows(Checkpointed(Mine, ckpt))
          BY <1>13, DataTypes, AllGrow DEF DInv
    <2> QED  BY <1>2, <1>13, <2>1 DEF Checkpointed, Data
  <1>14. CASE Input
    <2>1. Active  BY <1>14 DEF Input, At
    <2> DEFINE data == Checkpointed(Mine, "plain")
               r == Step("model", 0, 0)
    <2>2. data \in Data /\ Grows(data) /\ data.status = "running"  BY <1>13, <2>1
    <2>3. r \in Run /\ r.sess = Top.sess /\ r.at # "tools"
      <3>1. 0 \in -1..MaxTurns /\ 0 \in 0..MaxBatch  BY DelegationAssumption
      <3> QED  BY <2>1, <3>1, StepTypes DEF DInv
    <2>4. Checkpoint(data, r) \/ (Saves(data) /\ Ends(FALSE, data))  BY <1>14 DEF Input
    <2> HIDE DEF data, r
    <2>5. CASE Checkpoint(data, r)  BY <1>10, <2>1, <2>2, <2>3, <2>5
    <2>6. CASE Saves(data) /\ Ends(FALSE, data)  BY <1>11, <2>1, <2>2, <2>6 DEF TrySave
    <2> QED  BY <2>4, <2>5, <2>6
  <1>15. CASE InputBlocked   BY <1>12, <1>15 DEF InputBlocked, At
  <1>16. CASE AsksForTools
    <2>1. Active  BY <1>16 DEF AsksForTools, AsksModel, At
    <2>2. PICK n \in 1..MaxBatch : Checkpoint(Checkpointed(Mine, "calls"), Step("tools", Top.turn, n))
          BY <1>16 DEF AsksForTools
    <2> DEFINE data == Checkpointed(Mine, "calls")
               r == Step("tools", Top.turn, n)
    <2>3. data \in Data /\ Grows(data) /\ data.status = "running" /\ data.ckpt = "calls"
          BY <1>13, <2>1
    <2>4. r \in Run /\ r.sess = Top.sess
      <3>1. Top.turn \in -1..MaxTurns /\ n \in 0..MaxBatch
            BY <1>2, <2>1, DelegationAssumption DEF Run
      <3> QED  BY <2>1, <3>1, StepTypes DEF DInv
    <2>5. Checkpoint(data, r)  BY <2>2
    <2> HIDE DEF data, r
    <2> QED  BY <1>10, <2>1, <2>3, <2>4, <2>5
  <1>17. CASE FinalText
    <2>1. Active  BY <1>17 DEF FinalText, AsksModel, At
    <2> DEFINE data == Checkpointed(Mine, "plain")
               r == Step("output", Top.turn, 0)
    <2>2. data \in Data /\ Grows(data) /\ data.status = "running"  BY <1>13, <2>1
    <2>3. r \in Run /\ r.sess = Top.sess /\ r.at # "tools"
      <3>1. Top.turn \in -1..MaxTurns /\ 0 \in 0..MaxBatch
            BY <1>2, <2>1, DelegationAssumption DEF Run
      <3> QED  BY <2>1, <3>1, StepTypes DEF DInv
    <2>4. Checkpoint(data, r)  BY <1>17 DEF FinalText
    <2> HIDE DEF data, r
    <2> QED  BY <1>10, <2>1, <2>2, <2>3, <2>4
  (* A step that writes nothing, of a run whose request, if one must be, is stored. *)
  <1>18. ASSUME Active, UNCHANGED disk, NEW r \in Run, r.sess = Top.sess,
                Stored(r, disk), Continues(r, Mine)
         PROVE  DInv'
    <2>1. Grows(Mine) /\ MayStore(Mine)  BY <1>18 DEF Grows, MayStore
    <2>2. Stored(r, disk')  BY <1>18 DEF Stored
    <2>3. Durable(stack', mem', disk')  BY <1>2, <1>18, <2>1, <2>2, ContinuesDurably
    <2> QED  BY <1>1, <2>3 DEF DInv
  <1>19. CASE AsksOrTellsResumed
    <2>1. Active /\ Top.kind \in Resumes /\ UNCHANGED disk
          BY <1>19 DEF AsksOrTellsResumed, AsksModel, At, Resumed
    <2>2. \A where \in {"tools", "output"}, n \in 0..MaxBatch :
             Continues(Step(where, Top.turn, n), Mine) => DInv'
      <3> TAKE where \in {"tools", "output"}, n \in 0..MaxBatch
      <3> DEFINE r == Step(where, Top.turn, n)
      <3>1. Top.turn \in -1..MaxTurns  BY <1>2, <2>1 DEF Run
      <3>2. r \in Run /\ r.sess = Top.sess /\ r.kind = Top.kind
            BY <2>1, <3>1, StepTypes DEF DInv
      <3> HIDE DEF r
      <3>3. Stored(r, disk)  BY <2>1, <3>2 DEF Stored
      <3>4. Continues(r, Mine) => DInv'  BY <1>18, <2>1, <3>2, <3>3
      <3> QED  BY <3>4 DEF r
    <2>3. CASE \E n \in 1..MaxBatch : Continues(Step("tools", Top.turn, n), Mine)
      <3>1. \A n \in 1..MaxBatch : n \in 0..MaxBatch  BY DelegationAssumption
      <3> QED  BY <2>2, <2>3, <3>1
    <2>4. CASE Continues(Step("output", Top.turn, 0), Mine)
      <3>1. 0 \in 0..MaxBatch  BY DelegationAssumption
      <3> QED  BY <2>2, <2>4, <3>1
    <2> QED  BY <1>19, <2>3, <2>4 DEF AsksOrTellsResumed
  <1>20. CASE ModelFails     BY <1>12, <1>20 DEF ModelFails, AsksModel, At
  <1>21. CASE TurnsExceeded  BY <1>12, <1>21 DEF TurnsExceeded, At
  <1>22. CASE OutputBlocked
    <2>1. Active  BY <1>22 DEF OutputBlocked, At
    <2>2. Ended(Mine) \in Data /\ Grows(Ended(Mine))  BY <2>1, DataTypes, AllGrow DEF DInv
    <2> QED  BY <1>11, <1>12, <1>22, <2>1, <2>2 DEF OutputBlocked, StopsUnsaved
  <1>23. CASE CompactionFails
    <2>1. Active  BY <1>23 DEF CompactionFails, At
    <2>2. Mine \in Data /\ Grows(Mine)  BY <2>1, DataTypes, AllGrow DEF DInv
    <2> QED  BY <1>11, <1>23, <2>1, <2>2 DEF CompactionFails, StopsUnsaved
  <1>24. CASE FinalAnswer
    <2>1. Active  BY <1>24 DEF FinalAnswer, At
    <2>2. Completed \in Data /\ Grows(Completed) /\ Completed.done
          BY <2>1, DataTypes, AllGrow DEF DInv
    <2>3. \/ Saves(Completed) /\ Ends(TRUE, Completed)
          \/ SaveFails /\ Ends(FALSE, Completed)  BY <1>24 DEF FinalAnswer
    <2>4. CASE Saves(Completed) /\ Ends(TRUE, Completed)
      <3>1. disk'[Top.sess] = Completed  BY <1>2, <2>1, <2>4 DEF Saves, DInv, IInv
      <3>2. MayStore(Completed)  BY <2>4 DEF MayStore
      <3>3. Durable(stack', mem', disk')
            BY <2>1, <2>2, <2>4, <3>1, <3>2, EndsDurably
      <3> QED  BY <1>1, <3>3 DEF DInv
    <2>5. CASE SaveFails /\ Ends(FALSE, Completed)
          BY <1>11, <2>1, <2>2, <2>5 DEF TrySave
    <2> QED  BY <2>3, <2>4, <2>5
  <1>25. CASE OtherTool
    <2>1. Active /\ Top.at = "tools" /\ Top.left > 0 /\ UNCHANGED disk
          BY <1>25 DEF OtherTool, At
    <2> DEFINE r == Step("tools", Top.turn, Top.left - 1)
    <2>2. r \in Run /\ r.sess = Top.sess /\ r.kind = Top.kind
      <3>1. Top.turn \in -1..MaxTurns /\ Top.left - 1 \in 0..MaxBatch
            BY <1>2, <2>1, DelegationAssumption DEF Run
      <3> QED  BY <2>1, <3>1, StepTypes DEF DInv
    <2>3. Continues(r, Mine)  BY <1>25 DEF OtherTool
    <2> HIDE DEF r
    <2>4. Stored(r, disk)  BY <1>2, <2>1, <2>2 DEF Stored
    <2> QED  BY <1>18, <2>1, <2>2, <2>3, <2>4
  <1>26. CASE StopsAtTool
    <2>1. Active  BY <1>26 DEF StopsAtTool, At
    <2>2. /\ Mine \in Data /\ Ended(Mine) \in Data /\ Paused(Mine) \in Data
          /\ Grows(Mine) /\ Grows(Ended(Mine)) /\ Grows(Paused(Mine))
          BY <2>1, DataTypes, AllGrow DEF DInv
    <2>3. \/ Fails
          \/ TrySave(Paused(Mine)) /\ Ends(FALSE, Paused(Mine))
          \/ UNCHANGED disk /\ Ends(FALSE, Ended(Mine))
          \/ UNCHANGED disk /\ Ends(FALSE, Mine)
          BY <1>26 DEF StopsAtTool, StopsUnsaved
    <2> QED  BY <1>11, <1>12, <2>1, <2>2, <2>3
  <1>27. CASE ToolsDone
    <2>1. Active /\ Top.at = "tools"  BY <1>27 DEF ToolsDone, At
    <2> DEFINE data == Checkpointed(Mine, "plain")
               r == Step("model", Top.turn + 1, 0)
    <2>2. data \in Data /\ Grows(data) /\ data.status = "running"  BY <1>13, <2>1
    <2>3. r \in Run /\ r.sess = Top.sess /\ r.at # "tools"
      <3>1. Top.turn < MaxTurns  BY <1>2, <2>1 DEF RunOK
      <3>2. Top.turn + 1 \in -1..MaxTurns /\ 0 \in 0..MaxBatch
            BY <1>2, <2>1, <3>1, DelegationAssumption DEF Run
      <3> QED  BY <2>1, <3>2, StepTypes DEF DInv
    <2>4. Checkpoint(data, r)  BY <1>27 DEF ToolsDone
    <2> HIDE DEF data, r
    <2> QED  BY <1>10, <2>1, <2>2, <2>3, <2>4
  <1>28. CASE Deadline
    <2>1. UNCHANGED <<stack, mem, disk>>  BY <1>28 DEF Deadline
    <2> QED  BY <1>1, <2>1 DEF DInv
  <1>29. CASE Crash
    <2>1. stack' = <<>> /\ mem' = disk /\ disk' = disk  BY <1>29 DEF Crash
    <2>2. AllAccounted(mem', disk')  BY <2>1 DEF DInv, Durable, AllAccounted
    <2>3. OneRunEach(stack') /\ Resident(stack', mem') /\ AllStored(stack', disk')
          BY <2>1 DEF OneRunEach, Resident, AllStored
    <2> QED  BY <1>1, <2>2, <2>3 DEF DInv, Durable
  <1>30. CASE UNCHANGED vars
    <2>1. UNCHANGED <<stack, mem, disk>>  BY <1>30 DEF vars
    <2> QED  BY <1>1, <2>1 DEF DInv
  <1> QED
    BY <1>5, <1>6, <1>7, <1>8, <1>9, <1>14, <1>15, <1>16, <1>17, <1>19, <1>20, <1>21,
       <1>22, <1>23, <1>24, <1>25, <1>26, <1>27, <1>28, <1>29, <1>30 DEF Next, RunStep

LEMMA DurableInvariance == Spec => []DInv
  BY InitDurable, NextDurable, PTL DEF Spec

(* Whatever saves fail and whenever the process dies, every run that a prompt
   started and that executes tools, the parents that wait for a child included, is
   on disk as running with the request it is executing (runPrompt saves the model's
   decision first).  Every run of a stack but its root is one; a root that Resume or
   ResumeRun took up is not (continueLocked saves no decision). *)
THEOREM WaitingParentsAreStored == Spec => []WaitingRunsStored
  <1>1. ASSUME DInv PROVE WaitingRunsStored
    <2>1. DOMAIN stack = 1..Len(stack)
      <3>1. stack \in Seq(Run)  BY <1>1 DEF DInv, IInv, StackOK
      <3> QED  BY <3>1
    <2>2. AllStored(stack, disk)  BY <1>1 DEF DInv, Durable
    <2> QED  BY <2>1, <2>2 DEF WaitingRunsStored, AllStored, Stored
  <1> QED  BY <1>1, DurableInvariance, PTL

(* No stored history has the answer of a child whose completion is not stored
   (runTask and runHandoff return the answer of Prompt, which saves first). *)
THEOREM AnswersAreStored == Spec => []AnswersAccountedFor
  <1>1. ASSUME DInv PROVE AnswersAccountedFor
    BY <1>1 DEF DInv, Durable, AllAccounted, Accounted, AnswersAccountedFor
  <1> QED  BY <1>1, DurableInvariance, PTL
=============================================================================
