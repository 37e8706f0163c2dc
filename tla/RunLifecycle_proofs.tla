------------------------ MODULE RunLifecycle_proofs ------------------------
(***************************************************************************)
(* Proofs about RunLifecycle, for any number of invocations and keys.      *)
(*                                                                         *)
(* None of the invariants is inductive by itself.  What ties them together *)
(* is RowFollowsProcess (the row is where its process has put it) and      *)
(* LockExcludes (while an INSERT of a key is open, no other process has    *)
(* the key, committed or not): IInv is their conjunction with the rest.    *)
(***************************************************************************)
EXTENDS RunLifecycle, TLAPS

\* The row of each process agrees with the place the process has reached.
RowFollowsProcess ==
  \A p \in Procs :
     /\ stage[p] = node[p]
     /\ pc[p] \in {"start", "inserted"} => status[p] = NoRow /\ node[p] = 0
     /\ pc[p] = "graph" /\ node[p] = 0 => status[p] = "PENDING"
     /\ pc[p] = "graph" /\ node[p] # 0 => status[p] = "RUNNING"
     /\ pc[p] = "node" => status[p] = "RUNNING" /\ node[p] # 0
     /\ pc[p] = "raised" => status[p] \in Live
     /\ pc[p] = "reportOk" => status[p] = "SUCCEEDED" /\ node[p] = 5
     /\ pc[p] = "reportFailed" => status[p] = "FAILED"

\* An open INSERT of a key shuts every other invocation out of that key.
LockExcludes ==
  \A p, q \in Procs : /\ pc[p] = "inserted"
                      /\ key[p] = key[q]
                      /\ p # q
                      => pc[q] # "inserted" /\ status[q] = NoRow

IInv == /\ TypeOK
        /\ RowFollowsProcess
        /\ LockExcludes
        /\ OneRunPerKey
        /\ ConflictNamesWinner
        /\ ExitTellsTruth

LEMMA InitIInv == Init => IInv
BY LifecycleAssumption
DEF Init, IInv, TypeOK, RowFollowsProcess, LockExcludes, OneRunPerKey,
    ConflictNamesWinner, ExitTellsTruth, NoRow, NoExit, Live, Terminal, Ended

\* Every action keeps every variable in its type.
LEMMA TypeStep == TypeOK /\ [Next]_vars => TypeOK'
<1> SUFFICES ASSUME TypeOK, [Next]_vars PROVE TypeOK'
  OBVIOUS
<1> USE DEF TypeOK, Goto, rowVars, procVars, NoRow, Live, Terminal, Ended
<1>1. ASSUME NEW p \in Procs, Insert(p) PROVE TypeOK'
  BY <1>1 DEF Insert
<1>2. ASSUME NEW p \in Procs, Conflict(p) PROVE TypeOK'
  BY <1>2 DEF Conflict, Holders, EXIT_USAGE
<1>3. ASSUME NEW p \in Procs, CommitCreate(p) PROVE TypeOK'
  BY <1>3 DEF CommitCreate
<1>4. ASSUME NEW p \in Procs, EnterNode(p) PROVE TypeOK'
  BY <1>4 DEF EnterNode, UpdateStage, Nodes
<1>5. ASSUME NEW p \in Procs, LeaveNode(p) PROVE TypeOK'
  BY <1>5 DEF LeaveNode
<1>6. ASSUME NEW p \in Procs, Raise(p) PROVE TypeOK'
  BY <1>6 DEF Raise
<1>7. ASSUME NEW p \in Procs, Succeed(p) PROVE TypeOK'
  BY <1>7 DEF Succeed
<1>8. ASSUME NEW p \in Procs, Fail(p) PROVE TypeOK'
  BY <1>8 DEF Fail
<1>9. ASSUME NEW p \in Procs, Report(p) PROVE TypeOK'
  BY <1>9 DEF Report, EXIT_OK, EXIT_FAILED
<1>10. ASSUME NEW p \in Procs, Crash(p) PROVE TypeOK'
  BY <1>10 DEF Crash
<1>11. ASSUME NEW p \in Procs, RequestCancel(p) PROVE TypeOK'
  BY <1>11 DEF RequestCancel
<1>12. ASSUME UNCHANGED vars PROVE TypeOK'
  BY <1>12 DEF vars
<1> QED
  BY <1>1, <1>2, <1>3, <1>4, <1>5, <1>6, <1>7, <1>8, <1>9, <1>10, <1>11, <1>12
  DEF Next, Step, Done

\* Every action keeps the inductive invariant.
LEMMA StepIInv == IInv /\ [Next]_vars => IInv'
<1> SUFFICES ASSUME IInv, [Next]_vars PROVE IInv'
  OBVIOUS
<1>0. TypeOK /\ TypeOK'
  BY TypeStep DEF IInv
<1> DEFINE Rest == /\ RowFollowsProcess
                   /\ LockExcludes
                   /\ OneRunPerKey
                   /\ ConflictNamesWinner
                   /\ ExitTellsTruth
<1> USE <1>0, LifecycleAssumption
    DEF IInv, TypeOK, RowFollowsProcess, LockExcludes, OneRunPerKey,
        ConflictNamesWinner, ExitTellsTruth, Goto, rowVars, procVars,
        NoRow, Live, Terminal, Ended
<1>1. ASSUME NEW p \in Procs, Insert(p) PROVE Rest'
  BY <1>1 DEF Insert, Locked, Holders
<1>2. ASSUME NEW p \in Procs, Conflict(p) PROVE Rest'
  <2>1. PICK r \in Procs : /\ status[r] # NoRow
                           /\ key[r] = key[p]
                           /\ surfaced' = [surfaced EXCEPT ![p] = r]
    BY <1>2 DEF Conflict, Holders
  <2> QED
    BY <1>2, <2>1 DEF Conflict, EXIT_USAGE
<1>3. ASSUME NEW p \in Procs, CommitCreate(p) PROVE Rest'
  BY <1>3 DEF CommitCreate
<1>4. ASSUME NEW p \in Procs, EnterNode(p) PROVE Rest'
  BY <1>4 DEF EnterNode, UpdateStage, Nodes
<1>5. ASSUME NEW p \in Procs, LeaveNode(p) PROVE Rest'
  <2>1. /\ pc[p] = "node"
        /\ pc' = [pc EXCEPT ![p] = "graph"]
        /\ UNCHANGED <<key, node, surfaced, exit, status, stage>>
    BY <1>5 DEF LeaveNode
  <2> QED
    BY <2>1
<1>6. ASSUME NEW p \in Procs, Raise(p) PROVE Rest'
  BY <1>6 DEF Raise
<1>7. ASSUME NEW p \in Procs, Succeed(p) PROVE Rest'
  BY <1>7 DEF Succeed
<1>8. ASSUME NEW p \in Procs, Fail(p) PROVE Rest'
  BY <1>8 DEF Fail
<1>9. ASSUME NEW p \in Procs, Report(p) PROVE Rest'
  BY <1>9 DEF Report, EXIT_OK, EXIT_FAILED
<1>10. ASSUME NEW p \in Procs, Crash(p) PROVE Rest'
  BY <1>10 DEF Crash
<1>11. ASSUME NEW p \in Procs, RequestCancel(p) PROVE Rest'
  BY <1>11 DEF RequestCancel
<1>12. ASSUME UNCHANGED vars PROVE Rest'
  BY <1>12 DEF vars
<1>13. Rest'
  BY <1>1, <1>2, <1>3, <1>4, <1>5, <1>6, <1>7, <1>8, <1>9, <1>10, <1>11, <1>12
  DEF Next, Step, Done
<1> QED
  BY <1>0, <1>13

LEMMA Inductive == Spec => []IInv
BY InitIInv, StepIInv, PTL DEF Spec

\* The variables keep their types.
THEOREM TypeCorrect == Spec => []TypeOK
<1>1. IInv => TypeOK
  BY DEF IInv
<1> QED
  BY <1>1, Inductive, PTL

\* However many invocations race for a key and wherever they die, the key ends
\* up on one row at most.
THEOREM KeyIsUnique == Spec => []OneRunPerKey
<1>1. IInv => OneRunPerKey
  BY DEF IInv
<1> QED
  BY <1>1, Inductive, PTL

\* A refused invocation is told of a run that exists and carries its key.
THEOREM ConflictIsTruthful == Spec => []ConflictNamesWinner
<1>1. IInv => ConflictNamesWinner
  BY DEF IInv
<1> QED
  BY <1>1, Inductive, PTL

\* The exit code of an invocation agrees with the row it leaves.
THEOREM ExitIsTruthful == Spec => []ExitTellsTruth
<1>1. IInv => ExitTellsTruth
  BY DEF IInv
<1> QED
  BY <1>1, Inductive, PTL

-----------------------------------------------------------------------------
(* The invocations implement RunContract.                                    *)

\* The owners of the keys depend on which rows exist and on nothing else.
LEMMA OwnerStable ==
  ASSUME key' = key,
         \A r \in Procs : status'[r] = NoRow <=> status[r] = NoRow
  PROVE  Owner' = Owner
<1>1. ASSUME NEW k \in Keys PROVE Holders(k)' = Holders(k)
  BY DEF Holders
<1> QED
  BY <1>1 DEF Owner

\* Committing a row gives its key to that row and to no other.
LEMMA OwnerClaimed ==
  ASSUME IInv, NEW p \in Procs, CommitCreate(p)
  PROVE  /\ Owner[key[p]] = NoRun
         /\ Owner' = [Owner EXCEPT ![key[p]] = p]
<1> USE DEF IInv, TypeOK, RowFollowsProcess, LockExcludes, NoRow
<1>1. /\ pc[p] = "inserted"
      /\ status' = [status EXCEPT ![p] = "PENDING"]
      /\ key' = key
  BY DEF CommitCreate
<1>2. Holders(key[p]) = {}
  BY <1>1 DEF Holders
<1>3. ASSUME NEW k \in Keys, k = key[p] PROVE Holders(k)' = {p}
  BY <1>1, <1>2, <1>3 DEF Holders
<1>4. ASSUME NEW k \in Keys, k # key[p] PROVE Holders(k)' = Holders(k)
  BY <1>1, <1>4 DEF Holders
<1>5. key[p] \in Keys
  OBVIOUS
<1>6. Owner[key[p]] = NoRun
  BY <1>2, <1>5 DEF Owner
<1>7. OneOf({p}) = p
  BY DEF OneOf
<1>8. ASSUME NEW k \in Keys
      PROVE  (IF Holders(k)' = {} THEN NoRun ELSE OneOf(Holders(k)'))
                = IF k = key[p] THEN p ELSE Owner[k]
  <2>1. CASE k = key[p]
    BY <1>3, <1>7, <2>1, p \in {p}
  <2>2. CASE k # key[p]
    BY <1>4, <2>2 DEF Owner
  <2> QED
    BY <2>1, <2>2
<1>9. Owner' = [k \in Keys |-> IF k = key[p] THEN p ELSE Owner[k]]
  BY <1>8 DEF Owner
<1> QED
  BY <1>6, <1>9 DEF Owner

LEMMA InitContract == Init => Contract!Init
<1> SUFFICES ASSUME Init PROVE Contract!Init
  OBVIOUS
<1>1. ASSUME NEW k \in Keys PROVE Holders(k) = {}
  BY DEF Init, Holders
<1> QED
  BY <1>1 DEF Init, Contract!Init, Contract!Unborn, Owner, NoRow

\* Every step of an invocation is a step of the contract or none.
LEMMA StepContract == IInv /\ [Next]_vars => [Contract!Next]_Contract!vars
<1> SUFFICES ASSUME IInv, [Next]_vars PROVE [Contract!Next]_Contract!vars
  OBVIOUS
<1> USE DEF IInv, TypeOK, RowFollowsProcess, NoRow, Goto, rowVars, procVars
<1>1. ASSUME status' = status, key' = key PROVE UNCHANGED Contract!vars
  BY <1>1, OwnerStable DEF Contract!vars
<1>2. ASSUME NEW p \in Procs, CommitCreate(p) PROVE Contract!Next
  <2>1. Contract!Claim(p, key[p])
    BY <1>2, OwnerClaimed DEF CommitCreate, Contract!Claim, Contract!Unborn
  <2> QED
    BY <2>1 DEF Contract!Next
<1>3. ASSUME NEW p \in Procs, EnterNode(p) PROVE Contract!Next \/ UNCHANGED Contract!vars
  <2>1. /\ pc[p] = "graph"
        /\ status' = [status EXCEPT ![p] = "RUNNING"]
        /\ key' = key
    BY <1>3 DEF EnterNode, UpdateStage
  <2>2. Owner' = Owner
    BY <2>1, OwnerStable
  <2>3. CASE status[p] = "PENDING"
    BY <2>1, <2>2, <2>3 DEF Contract!Next, Contract!Progress
  <2>4. CASE status[p] = "RUNNING"
    <3>1. status' = status
      BY <2>1, <2>4
    <3> QED
      BY <3>1, <2>2 DEF Contract!vars
  <2> QED
    BY <2>1, <2>3, <2>4
<1>4. ASSUME NEW p \in Procs, Succeed(p) PROVE Contract!Next
  <2>1. status[p] = "RUNNING"
    BY <1>4 DEF Succeed
  <2>2. Owner' = Owner
    BY <1>4, <2>1, OwnerStable DEF Succeed
  <2> QED
    BY <1>4, <2>1, <2>2 DEF Succeed, Contract!Next, Contract!Finish
<1>5. ASSUME NEW p \in Procs, Fail(p) PROVE Contract!Next
  <2>1. status[p] \in {"PENDING", "RUNNING"}
    BY <1>5 DEF Fail, Live
  <2>2. Owner' = Owner
    BY <1>5, <2>1, OwnerStable DEF Fail
  <2> QED
    BY <1>5, <2>1, <2>2 DEF Fail, Contract!Next, Contract!Abort
<1>6. CASE \/ \E p \in Procs : \/ Insert(p) \/ Conflict(p) \/ LeaveNode(p) \/ Raise(p)
                              \/ Report(p) \/ Crash(p) \/ RequestCancel(p)
           \/ UNCHANGED vars
  <2>1. status' = status /\ key' = key
    BY <1>6 DEF Insert, Conflict, LeaveNode, Raise, Report, Crash, RequestCancel, vars
  <2> QED
    BY <2>1, <1>1
<1> QED
  BY <1>2, <1>3, <1>4, <1>5, <1>6 DEF Next, Step, Done

\* Closed runs stay closed, keys keep their runs, and only a run that went
\* through a stage succeeds: RunLifecycle implements RunContract.
THEOREM Implements == Spec => ImplementsContract
<1>1. Init => Contract!Init
  BY InitContract
<1>2. IInv /\ [Next]_vars => [Contract!Next]_Contract!vars
  BY StepContract
<1> QED
  BY <1>1, <1>2, Inductive, PTL DEF Spec, ImplementsContract, Contract!Spec

\* A reader of the table sees the stages in order, on open runs only.
THEOREM StagesInOrder == Spec => StageOrder
<1> DEFINE A == \A r \in Procs : stage'[r] # stage[r] =>
                   /\ stage'[r] = stage[r] + 1
                   /\ status[r] \in Live
                   /\ status'[r] = "RUNNING"
<1>1. IInv /\ [Next]_vars => [A]_vars
  <2> SUFFICES ASSUME IInv, [Next]_vars PROVE A
    OBVIOUS
  <2> USE DEF IInv, TypeOK, RowFollowsProcess
  <2>1. ASSUME NEW p \in Procs, EnterNode(p) PROVE A
    BY <2>1 DEF EnterNode, UpdateStage, Live
  <2>2. ASSUME stage' = stage PROVE A
    BY <2>2
  <2> QED
    BY <2>1, <2>2
    DEF Next, Step, Done, Insert, Conflict, CommitCreate, LeaveNode, Raise, Succeed,
        Fail, Report, Crash, RequestCancel, rowVars, vars
<1> QED
  BY <1>1, Inductive, PTL DEF Spec, StageOrder
=============================================================================
