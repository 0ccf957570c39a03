-------------------------- MODULE FileStoreProofs --------------------------
(***************************************************************************)
(* As long as no two sessions share a path, FileStore replaces files       *)
(* atomically and implements the atomic store, for every set of sessions,  *)
(* readers, keys and values.                                               *)
(***************************************************************************)
EXTENDS FileStore, TLAPS

LEMMA PathTypes ==
    /\ \A c \in Clients : Path(c) \in Paths /\ KeyOf[c] \in Keys
    /\ \A k \in Keys : PathForKey(k) \in Paths
BY DEF Paths, Keys, Path

-----------------------------------------------------------------------------
(* Type correctness. *)

LEMMA InitType == Init => TypeOK
BY DEF Init, TypeOK, Call, NoCall

LEMMA NextType == TypeOK /\ [Next]_vars => TypeOK'
<1> SUFFICES ASSUME TypeOK, [Next]_vars PROVE TypeOK'
  OBVIOUS
<1> USE StoreAssumption, PathTypes
<1>1. CASE Crash
  BY <1>1 DEF Crash, TypeOK, Call, NoCall, files
<1>2. ASSUME NEW c \in Clients, Step(c) PROVE TypeOK'
  <2>1. CASE Invoke(c) \/ Return(c)
    BY <2>1 DEF Invoke, Return, Request, TypeOK, Call, NoCall, files
  <2>2. CASE OpenTmp(c)
    BY <2>2 DEF OpenTmp, Goes, TypeOK
  <2>3. CASE WriteTmp(c)
    <3>1. call[c].val \in Values \cup {Absent}
      BY DEF TypeOK, Call
    <3>2. tmp' \in [Paths -> Values \cup {Absent, Torn}]
      BY <2>3, <3>1 DEF WriteTmp, Overwritten, TypeOK
    <3>3. file' \in [Paths -> Values \cup {Absent, Torn}]
      BY <2>3, <3>1 DEF WriteTmp, Overwritten, TypeOK
    <3> QED BY <2>3, <3>2, <3>3 DEF WriteTmp, Goes, TypeOK
  <2>4. CASE Rename(c)
    <3>1. call' \in [Clients -> Call]
      BY <2>4 DEF Rename, Answers, TypeOK, Call
    <3>2. at' \in [Clients -> {"begun", "tmp", "file", "nowhere", "written"}]
      BY <2>4 DEF Rename, Renamed, Goes, TypeOK
    <3>3. /\ file' \in [Paths -> Values \cup {Absent, Torn}]
          /\ tmp' \in [Paths -> Values \cup {Absent, Torn}]
      BY <2>4 DEF Rename, TypeOK, files
    <3> QED BY <3>1, <3>2, <3>3 DEF TypeOK
  <2>5. CASE SaveFails(c)
    BY <2>5 DEF SaveFails, Goes, Answers, TypeOK, Call, files
  <2>6. CASE Load(c)
    BY <2>6 DEF Load, TypeOK, Call, files
  <2>7. CASE Delete(c)
    <3>1. call' \in [Clients -> Call]
      BY <2>7 DEF Delete, Answers, TypeOK, Call
    <3>2. at' \in [Clients -> {"begun", "tmp", "file", "nowhere", "written"}]
      BY <2>7 DEF Delete, Renamed, TypeOK
    <3>3. /\ file' \in [Paths -> Values \cup {Absent, Torn}]
          /\ tmp' \in [Paths -> Values \cup {Absent, Torn}]
      BY <2>7 DEF Delete, TypeOK
    <3> QED BY <3>1, <3>2, <3>3 DEF TypeOK
  <2> QED BY <1>2, <2>1, <2>2, <2>3, <2>4, <2>5, <2>6, <2>7 DEF Step
<1>3. CASE UNCHANGED vars
  BY <1>3 DEF vars, files, TypeOK
<1> QED BY <1>1, <1>2, <1>3 DEF Next

(* Type correctness: file contents, the phase of each save and the requests
   keep their types (store.go, FileStore). *)
THEOREM TypeCorrect == Spec => []TypeOK
BY InitType, NextType, PTL DEF Spec

-----------------------------------------------------------------------------
(* The invariant: what a saver has written is still there when it renames. *)

LEMMA InitInv == Init => StoreInv
BY StoreAssumption, PathTypes DEF Init, StoreInv, AtomicReplace, Owned, NoCall

LEMMA NextInv ==
    ASSUME NoCollision
    PROVE  TypeOK /\ StoreInv /\ [Next]_vars => StoreInv'
<1> SUFFICES ASSUME TypeOK, StoreInv, [Next]_vars PROVE StoreInv'
  OBVIOUS
<1> USE StoreAssumption, PathTypes
<1>1. CASE Crash
  BY <1>1 DEF Crash, StoreInv, AtomicReplace, Owned, NoCall, files
<1>2. ASSUME NEW c \in Clients, Step(c) PROVE StoreInv'
  <2>0. \A d \in Clients : Owned(d)
    BY DEF StoreInv
  <2>1. CASE Invoke(c)
    BY <2>0, <2>1 DEF Invoke, Request, StoreInv, AtomicReplace, Owned, Pending, TypeOK, Call, files
  <2>2. CASE Return(c)
    BY <2>0, <2>2 DEF Return, StoreInv, AtomicReplace, Owned, Pending, TypeOK, Call, NoCall, files
  <2>3. CASE OpenTmp(c)
    <3>1. c \in Savers
      BY <2>0, <2>3 DEF OpenTmp, Saving, Pending, Owned
    <3>2. \A d \in Clients : at[d] # "begun" /\ Path(d) = Path(c) => d = c
      BY <2>0, <3>1 DEF Owned, NoCollision
    <3>3. ASSUME NEW d \in Clients PROVE Owned(d)'
      BY <2>0, <2>3, <3>1, <3>2, <3>3 DEF OpenTmp, Saving, Goes, Owned, Pending, TypeOK
    <3> QED BY <2>3, <3>3 DEF OpenTmp, StoreInv, AtomicReplace
  <2>4. CASE WriteTmp(c)
    <3>1. at[c] = "tmp" /\ tmp[Path(c)] = Torn /\ c \in Savers /\ call[c].val \in Values
      BY <2>0, <2>4 DEF WriteTmp, Saving, Owned, Pending
    <3>2. file' = file /\ call' = call /\ at' = [at EXCEPT ![c] = "written"]
      BY <2>4, <3>1 DEF WriteTmp, Goes
    <3>3. tmp' = [tmp EXCEPT ![Path(c)] = call[c].val]
      BY <2>4, <3>1 DEF WriteTmp, Overwritten
    <3>4. \A d \in Clients : at[d] # "begun" /\ Path(d) = Path(c) => d = c
      BY <2>0, <3>1 DEF Owned, NoCollision
    <3>5. ASSUME NEW d \in Clients PROVE Owned(d)'
      <4>1. CASE d = c
        BY <2>0, <2>4, <3>1, <3>2, <3>3, <4>1 DEF WriteTmp, Saving, Owned, Pending, TypeOK
      <4>2. CASE d # c
        <5>1. at'[d] = at[d] /\ (at[d] # "begun" => tmp'[Path(d)] = tmp[Path(d)])
          BY <3>2, <3>3, <3>4, <4>2 DEF TypeOK
        <5> QED BY <2>0, <3>2, <5>1 DEF Owned, Pending
      <4> QED BY <4>1, <4>2
    <3> QED BY <3>2, <3>5 DEF StoreInv, AtomicReplace
  <2>5. CASE Rename(c)
    <3>1. c \in Savers /\ tmp[Path(c)] = call[c].val /\ call[c].val \in Values
      BY <2>0, <2>5 DEF Rename, Saving, Owned, Pending
    <3>2. \A d \in Clients : at[d] # "begun" /\ Path(d) = Path(c) => d = c
      BY <2>0, <3>1 DEF Owned, NoCollision
    <3>3. /\ file' = [file EXCEPT ![Path(c)] = tmp[Path(c)]]
          /\ tmp' = [tmp EXCEPT ![Path(c)] = Absent]
          /\ call' = [call EXCEPT ![c].result = "ok"]
      BY <2>5, <3>1 DEF Rename, Answers
    <3>4. \A d \in Clients : at'[d] = IF d = c THEN "begun" ELSE at[d]
      BY <2>0, <2>5, <3>1, <3>2 DEF Rename, Renamed, Owned, TypeOK
    <3>5. AtomicReplace'
      BY <3>1, <3>3 DEF StoreInv, AtomicReplace, TypeOK
    <3>6. ASSUME NEW d \in Clients PROVE Owned(d)'
      BY <2>0, <3>1, <3>2, <3>3, <3>4, <3>6 DEF Owned, Pending, TypeOK, Call
    <3> QED BY <3>5, <3>6 DEF StoreInv
  <2>6. CASE SaveFails(c)
    BY <2>0, <2>6 DEF SaveFails, Goes, Answers, StoreInv, AtomicReplace, Owned, Pending, TypeOK, Call, files
  <2>7. CASE Load(c)
    BY <2>0, <2>7 DEF Load, StoreInv, AtomicReplace, Owned, Pending, TypeOK, Call, files
  <2>8. CASE Delete(c)
    <3>1. at' = at
      BY <2>0, <2>8 DEF Delete, Renamed, Owned, TypeOK
    <3>2. at[c] = "begun"
      BY <2>0, <2>8 DEF Delete, Pending, Owned
    <3>3. AtomicReplace'
      BY <2>8 DEF Delete, StoreInv, AtomicReplace, TypeOK
    <3>4. ASSUME NEW d \in Clients PROVE Owned(d)'
      BY <2>0, <2>8, <3>1, <3>2 DEF Delete, Answers, Owned, Pending, TypeOK, Call
    <3> QED BY <3>3, <3>4 DEF StoreInv
  <2> QED BY <1>2, <2>1, <2>2, <2>3, <2>4, <2>5, <2>6, <2>7, <2>8 DEF Step
<1>3. CASE UNCHANGED vars
  BY <1>3 DEF vars, files, StoreInv, AtomicReplace, Owned, Pending
<1> QED BY <1>1, <1>2, <1>3 DEF Next

LEMMA Invariance ==
    ASSUME NoCollision
    PROVE  Spec => [](TypeOK /\ StoreInv)
<1>1. Init => TypeOK /\ StoreInv
  BY InitType, InitInv
<1>2. TypeOK /\ StoreInv /\ [Next]_vars => (TypeOK /\ StoreInv)'
  BY NextType, NextInv
<1> QED BY <1>1, <1>2, PTL DEF Spec

(* FileStore.Save's comment, "atomic replace": while every session has a path of
   its own, the file under a key is never half-written. *)
THEOREM ReplacesAtomically ==
    ASSUME NoCollision
    PROVE  Spec => []AtomicReplace
<1>1. TypeOK /\ StoreInv => AtomicReplace
  BY DEF StoreInv
<1> QED BY <1>1, Invariance, PTL

-----------------------------------------------------------------------------
(* Refinement. *)

LEMMA InitAtomic == Init => Atomic!SInit
BY PathTypes DEF Init, Atomic!SInit, NoCall, Atomic!NoCall

(* Writing the file of a session changes what its key stands for, only. *)
LEMMA OneKey ==
    ASSUME NoCollision, TypeOK, NEW c \in Clients, NEW v,
           file' = [file EXCEPT ![Path(c)] = v]
    PROVE  [k \in Keys |-> file'[PathForKey(k)]]
             = [[k \in Keys |-> file[PathForKey(k)]] EXCEPT ![KeyOf[c]] = v]
<1>1. ASSUME NEW k \in Keys
      PROVE  file'[PathForKey(k)] = IF k = KeyOf[c] THEN v ELSE file[PathForKey(k)]
  <2>1. PICK d \in Clients : k = KeyOf[d]
    BY DEF Keys
  <2>2. PathForKey(k) = Path(d) /\ Path(d) \in Paths /\ Path(c) \in Paths
    BY <2>1, PathTypes DEF Path
  <2>3. Path(d) = Path(c) <=> k = KeyOf[c]
    BY <2>1 DEF NoCollision, Path
  <2> QED BY <2>2, <2>3 DEF TypeOK
<1> QED BY <1>1, PathTypes

LEMMA StepAtomic ==
    ASSUME NoCollision
    PROVE  TypeOK /\ StoreInv /\ [Next]_vars => [Atomic!SNext]_(Atomic!storeVars)
<1> SUFFICES ASSUME TypeOK, StoreInv, [Next]_vars
             PROVE  [Atomic!SNext]_(Atomic!storeVars)
  OBVIOUS
<1> DEFINE stored == [k \in Keys |-> file[PathForKey(k)]]
<1> USE StoreAssumption, PathTypes
<1>1. CASE Crash
  BY <1>1 DEF Crash, NoCall, files, Atomic!SNext, Atomic!Restart, Atomic!NoCall
<1>2. ASSUME NEW c \in Clients, Step(c)
      PROVE  Atomic!SNext \/ UNCHANGED Atomic!storeVars
  <2>0. Owned(c)
    BY DEF StoreInv
  <2>1. CASE Invoke(c)
    <3>1. Atomic!Invoke(c)
      BY <2>1 DEF Invoke, Request, files, Atomic!Invoke, Atomic!Request
    <3> QED BY <3>1 DEF Atomic!SNext
  <2>2. CASE Return(c)
    <3>1. Atomic!Return(c)
      BY <2>2 DEF Return, NoCall, files, Atomic!Return, Atomic!NoCall
    <3> QED BY <3>1 DEF Atomic!SNext
  <2>3. CASE OpenTmp(c)
    BY <2>3 DEF OpenTmp, Atomic!storeVars
  <2>4. CASE WriteTmp(c)
    BY <2>0, <2>4 DEF WriteTmp, Saving, Owned, Atomic!storeVars
  <2>5. CASE Rename(c)
    <3>1. c \in Savers /\ tmp[Path(c)] = call[c].val /\ call[c].val \in Values
      BY <2>0, <2>5 DEF Rename, Saving, Owned, Pending
    <3>2. file' = [file EXCEPT ![Path(c)] = call[c].val] /\ Answers(c, "ok")
      BY <2>5, <3>1 DEF Rename
    <3>3. Atomic!Save(c)
      BY <2>5, <3>2, OneKey DEF Rename, Saving, Pending, Answers,
         Atomic!Save, Atomic!Pending, Atomic!Answers
    <3> QED BY <3>3 DEF Atomic!SNext
  <2>6. CASE SaveFails(c)
    <3>1. Atomic!Fail(c)
      BY <2>6 DEF SaveFails, Pending, Answers, files, Atomic!Fail, Atomic!Answers
    <3> QED BY <3>1 DEF Atomic!SNext
  <2>7. CASE Load(c)
    <3>1. file[Path(c)] # Torn /\ stored[KeyOf[c]] = file[Path(c)]
      BY DEF StoreInv, AtomicReplace, Path
    <3>2. PICK found \in Values \cup {Absent} :
             /\ found = file[Path(c)] \/ (found = Absent /\ IOErrors)
             /\ call' = [call EXCEPT ![c] = [op |-> "load", val |-> found, result |-> "ok"]]
      BY <2>7, <3>1 DEF Load
    <3>3. CASE found = file[Path(c)]
      <4>1. Atomic!Load(c)
        BY <2>7, <3>1, <3>2, <3>3 DEF Load, Pending, files, Atomic!Load, Atomic!Pending
      <4> QED BY <4>1 DEF Atomic!SNext
    <3>4. CASE found = Absent /\ IOErrors
      <4>1. call[c] = [op |-> "load", val |-> Absent, result |-> "pending"]
        BY <2>0, <2>7 DEF Load, Pending, Owned, TypeOK, Call
      <4>2. call' = [call EXCEPT ![c].result = "ok"]
        <5>1. [call[c] EXCEPT !.result = "ok"] = [op |-> "load", val |-> Absent, result |-> "ok"]
          BY <4>1
        <5> QED BY <3>2, <3>4, <5>1 DEF TypeOK
      <4>3. Atomic!Fail(c)
        BY <2>7, <3>4, <4>2 DEF Load, Pending, files, Atomic!Fail, Atomic!Answers
      <4> QED BY <4>3 DEF Atomic!SNext
    <3> QED BY <3>2, <3>3, <3>4
  <2>8. CASE Delete(c)
    <3>1. CASE file' = [file EXCEPT ![Path(c)] = Absent] /\ Answers(c, "ok")
      <4>1. Atomic!Delete(c)
        BY <2>8, <3>1, OneKey DEF Delete, Pending, Answers, Atomic!Delete, Atomic!Pending, Atomic!Answers
      <4> QED BY <4>1 DEF Atomic!SNext
    <3>2. CASE IOErrors /\ Answers(c, "error") /\ UNCHANGED <<file, at>>
      <4>1. Atomic!Fail(c)
        BY <2>8, <3>2 DEF Delete, Pending, Answers, Atomic!Fail, Atomic!Answers
      <4> QED BY <4>1 DEF Atomic!SNext
    <3> QED BY <2>8, <3>1, <3>2 DEF Delete
  <2> QED BY <1>2, <2>1, <2>2, <2>3, <2>4, <2>5, <2>6, <2>7, <2>8 DEF Step
<1>3. CASE UNCHANGED vars
  BY <1>3 DEF vars, files, Atomic!storeVars
<1> QED BY <1>1, <1>2, <1>3 DEF Next

(* FileStore implements the atomic store while every session has a path of its
   own: with saves, loads, deletes, failures and crashes in any order, each
   operation takes effect at one moment or not at all. *)
THEOREM ImplementsStore ==
    ASSUME NoCollision
    PROVE  Spec => ImplementsAtomicStore
BY InitAtomic, StepAtomic, Invariance, PTL DEF Spec, ImplementsAtomicStore, Atomic!SSpec
=============================================================================
