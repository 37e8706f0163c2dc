---------------------------- MODULE RunLifecycle ----------------------------
(***************************************************************************)
(* `litweave run` invocations (cli.py) over the `runs` table (runs.py,     *)
(* schema.sql).  Every invocation is a process of its own: it claims its   *)
(* idempotency key in one transaction, drives the five nodes of the graph, *)
(* each of which stamps its stage on the row when it starts, and closes    *)
(* the row in a last transaction.  Invocations with the same key race;     *)
(* any of them may die at any point (SIGKILL, Ctrl-C, a lost database).    *)
(*                                                                         *)
(* run_id is minted by the invocation that inserts the row, so the run of  *)
(* process p is named p.                                                   *)
(***************************************************************************)
EXTENDS Naturals

CONSTANTS Procs,       \* invocations of `litweave run`, and the runs they mint
          Keys,        \* idempotency keys
          Categories,  \* the ErrorCategory values a node can note
          NoRun,       \* "no run"
          NoCategory   \* error_category IS NULL

ASSUME LifecycleAssumption == /\ NoRun \notin Procs
                              /\ NoCategory \notin Categories \cup {"schema_invalid"}

VARIABLES key,      \* --idempotency-key of each invocation
          pc,       \* where _cmd_run stands
          node,     \* last graph node the invocation entered (0: none)
          surfaced, \* existing_run_id carried by an IdempotencyConflict
          exit,     \* exit code of the process
          status,   \* runs.status of the committed rows
          stage,    \* runs.current_stage, as the node's position (0: NULL)
          errcat,   \* runs.error_category
          cancel    \* runs.cancel_requested

procVars == <<key, pc, node, surfaced, exit>>
rowVars  == <<status, stage, errcat, cancel>>
vars     == <<procVars, rowVars>>

\* planner, researcher_wide, researcher_deep, synthesize, write
Nodes == 1..5
\* The nodes that end with note_error_category when something went wrong.
Noting == {2, 3, 4}

NoRow == "none"
Live == {"PENDING", "RUNNING"}
Terminal == {"SUCCEEDED", "FAILED"}

\* EXIT_CANCELLED (2) is declared beside these and returned nowhere.
EXIT_OK == 0
EXIT_FAILED == 1
EXIT_USAGE == 3
NoExit == 99

Ended == {"exited", "crashed"}
-----------------------------------------------------------------------------
Init == /\ key \in [Procs -> Keys]
        /\ pc = [p \in Procs |-> "start"]
        /\ node = [p \in Procs |-> 0]
        /\ surfaced = [p \in Procs |-> NoRun]
        /\ exit = [p \in Procs |-> NoExit]
        /\ status = [p \in Procs |-> NoRow]
        /\ stage = [p \in Procs |-> 0]
        /\ errcat = [p \in Procs |-> NoCategory]
        /\ cancel = [p \in Procs |-> FALSE]

Goto(p, l) == pc' = [pc EXCEPT ![p] = l]

\* Mutant: the lookup forgets its WHERE clause.
HoldersOfAnyKey(k) == {r \in Procs : status[r] # NoRow}

\* The committed rows that hold key k: UNIQUE (idempotency_key).
Holders(k) == {r \in Procs : status[r] # NoRow /\ key[r] = k}

\* Mutants: no unique index, so nobody waits; a lock that outlives its holder.
LockedNever(k) == FALSE
LockedForEver(k) == \E q \in Procs : /\ key[q] = k
                                    /\ \/ pc[q] = "inserted"
                                       \/ pc[q] = "crashed" /\ status[q] = NoRow

\* An uncommitted INSERT of key k: another INSERT of k waits for its outcome.
Locked(k) == \E q \in Procs : pc[q] = "inserted" /\ key[q] = k

\* INSERT ... ON CONFLICT DO NOTHING RETURNING gives the row back.
Insert(p) == /\ pc[p] = "start"
             /\ ~ Locked(key[p])
             /\ Holders(key[p]) = {}
             /\ Goto(p, "inserted")
             /\ UNCHANGED <<key, node, surfaced, exit, rowVars>>

\* The INSERT returns no row: look the holder up and raise
\* IdempotencyConflict, which _cmd_run reports with exit code 3.  Rows are
\* never deleted, so the lookup finds what the INSERT collided with.
Conflict(p) == /\ pc[p] = "start"
               /\ ~ Locked(key[p])
               /\ \E r \in Holders(key[p]) : surfaced' = [surfaced EXCEPT ![p] = r]
               /\ exit' = [exit EXCEPT ![p] = EXIT_USAGE]
               /\ Goto(p, "exited")
               /\ UNCHANGED <<key, node, rowVars>>

\* The `with transaction()` block of _cmd_run ends: the row becomes visible.
CommitCreate(p) == /\ pc[p] = "inserted"
                   /\ status' = [status EXCEPT ![p] = "PENDING"]
                   /\ Goto(p, "graph")
                   /\ UNCHANGED <<key, node, surfaced, exit, stage, errcat, cancel>>

\* Mutant: the stage is stamped, the status left alone.
UpdateStageOnly(r, n) == /\ stage' = [stage EXCEPT ![r] = n]
                         /\ UNCHANGED status

\* RunManager.update_stage: writes RUNNING whatever the status was.
UpdateStage(r, n) == /\ stage' = [stage EXCEPT ![r] = n]
                     /\ status' = [status EXCEPT ![r] = "RUNNING"]

\* LangGraph starts the next node, whose first transaction is update_stage.
EnterNode(p) == /\ pc[p] = "graph"
                /\ node[p] + 1 \in Nodes
                /\ node' = [node EXCEPT ![p] = @ + 1]
                /\ UpdateStage(p, node[p] + 1)
                /\ Goto(p, "node")
                /\ UNCHANGED <<key, surfaced, exit, errcat, cancel>>

\* The node returns; a noting node may have written error_category, which
\* overwrites what an earlier node wrote.
LeaveNode(p) == /\ pc[p] = "node"
                /\ \/ UNCHANGED errcat
                   \/ /\ node[p] \in Noting
                      /\ \E c \in Categories : errcat' = [errcat EXCEPT ![p] = c]
                /\ Goto(p, "graph")
                /\ UNCHANGED <<key, node, surfaced, exit, status, stage, cancel>>

\* Mutant: the exception is reported and the row not closed.
RaiseUnrecorded(p) == /\ pc[p] \in {"graph", "node"}
                      /\ Goto(p, "reportFailed")
                      /\ UNCHANGED <<key, node, surfaced, exit, rowVars>>

\* build_graph, a node, or the checkpointer raises inside graph.invoke.
Raise(p) == /\ pc[p] \in {"graph", "node"}
            /\ Goto(p, "raised")
            /\ UNCHANGED <<key, node, surfaced, exit, rowVars>>

\* Mutant: graph.invoke may return before the last node.
SucceedEarly(p) == /\ pc[p] = "graph"
                   /\ status' = [status EXCEPT ![p] = "SUCCEEDED"]
                   /\ Goto(p, "reportOk")
                   /\ UNCHANGED <<key, node, surfaced, exit, stage, errcat, cancel>>

Succeed(p) == /\ pc[p] = "graph"
              /\ node[p] = 5
              /\ status' = [status EXCEPT ![p] = "SUCCEEDED"]
              /\ Goto(p, "reportOk")
              /\ UNCHANGED <<key, node, surfaced, exit, stage, errcat, cancel>>

\* `except Exception`: every category collapses into schema_invalid.
Fail(p) == /\ pc[p] = "raised"
           /\ status' = [status EXCEPT ![p] = "FAILED"]
           /\ errcat' = [errcat EXCEPT ![p] = "schema_invalid"]
           /\ Goto(p, "reportFailed")
           /\ UNCHANGED <<key, node, surfaced, exit, stage, cancel>>

Report(p) == /\ \/ pc[p] = "reportOk" /\ exit' = [exit EXCEPT ![p] = EXIT_OK]
                \/ pc[p] = "reportFailed" /\ exit' = [exit EXCEPT ![p] = EXIT_FAILED]
             /\ Goto(p, "exited")
             /\ UNCHANGED <<key, node, surfaced, rowVars>>

\* The process dies, or an exception leaves _cmd_run (KeyboardInterrupt is no
\* Exception; a database error inside create, fail or succeed is not caught).
\* The server rolls back what the process had not committed.
Crash(p) == /\ pc[p] \notin Ended
            /\ Goto(p, "crashed")
            /\ UNCHANGED <<key, node, surfaced, exit, rowVars>>

\* RunManager.request_cancel, called by anybody for a committed run.
RequestCancel(r) == /\ status[r] # NoRow
                    /\ ~ cancel[r]
                    /\ cancel' = [cancel EXCEPT ![r] = TRUE]
                    /\ UNCHANGED <<procVars, status, stage, errcat>>

Step(p) == \/ Insert(p) \/ Conflict(p) \/ CommitCreate(p)
           \/ EnterNode(p) \/ LeaveNode(p) \/ Raise(p)
           \/ Succeed(p) \/ Fail(p) \/ Report(p)

Done == (\A p \in Procs : pc[p] \in Ended) /\ UNCHANGED vars

Next == \/ \E p \in Procs : Step(p) \/ Crash(p) \/ RequestCancel(p)
        \/ Done

Spec == Init /\ [][Next]_vars

\* Python runs the next statement of a live process, and Postgres grants a
\* row lock its holder has given up; nothing forces a crash or a cancel.
Fairness == \A p \in Procs : WF_vars(Step(p))
FairSpec == Spec /\ Fairness
-----------------------------------------------------------------------------
TypeOK == /\ key \in [Procs -> Keys]
          /\ pc \in [Procs -> {"start", "inserted", "graph", "node", "raised",
                               "reportOk", "reportFailed"} \cup Ended]
          /\ node \in [Procs -> 0..5]
          /\ surfaced \in [Procs -> Procs \cup {NoRun}]
          /\ exit \in [Procs -> {EXIT_OK, EXIT_FAILED, EXIT_USAGE, NoExit}]
          /\ status \in [Procs -> Live \cup Terminal \cup {NoRow}]
          /\ stage \in [Procs -> 0..5]
          /\ errcat \in [Procs -> Categories \cup {"schema_invalid", NoCategory}]
          /\ cancel \in [Procs -> BOOLEAN]

\* However invocations of the same key interleave and crash, the key never
\* ends up on two rows (RunManager.create relies on ON CONFLICT for this).
OneRunPerKey ==
  \A r, s \in Procs : /\ status[r] # NoRow
                      /\ status[s] # NoRow
                      /\ key[r] = key[s]
                      => r = s

\* The run_id a refused caller is told to use with `status` exists, carries
\* the caller's key, and is not the caller's own.
ConflictNamesWinner ==
  \A p \in Procs : surfaced[p] # NoRun => /\ surfaced[p] # p
                                          /\ status[surfaced[p]] # NoRow
                                          /\ key[surfaced[p]] = key[p]

\* The exit code and the row agree: 0 with SUCCEEDED after all five nodes, 1
\* with FAILED, 3 with no row of its own.  A process that exits by itself
\* leaves no PENDING or RUNNING row behind; only a crash can.
ExitTellsTruth ==
  \A p \in Procs : pc[p] = "exited" =>
      \/ exit[p] = EXIT_OK /\ status[p] = "SUCCEEDED" /\ stage[p] = 5
      \/ exit[p] = EXIT_FAILED /\ status[p] = "FAILED"
      \/ exit[p] = EXIT_USAGE /\ status[p] = NoRow /\ surfaced[p] # NoRun

\* `status` readers see the pipeline advance one stage at a time and only on
\* a run that is not over: no step revives a closed row or skips a stage.
StageOrder ==
  [][\A r \in Procs : stage'[r] # stage[r] =>
        /\ stage'[r] = stage[r] + 1
        /\ status[r] \in Live
        /\ status'[r] = "RUNNING"]_vars

\* The owner of each key, read off the committed rows.
OneOf(S) == CHOOSE r \in S : TRUE
Owner == [k \in Keys |-> IF Holders(k) = {} THEN NoRun ELSE OneOf(Holders(k))]

\* The invocations together do what the table promises: RunContract, with the
\* committed rows as its state.  A closed run stays closed, a key keeps its
\* run, and only a run that went through a stage succeeds.
Contract == INSTANCE RunContract WITH Runs <- Procs, owner <- Owner, st <- status
ImplementsContract == Contract!Spec

\* Every invocation ends: with no other invocation's fate able to keep one
\* waiting on the key for ever.
InvocationEnds == \A p \in Procs : <>(pc[p] \in Ended)

\* Doc of request_cancel: the graph runner polls the flag and moves the run
\* to CANCELLED at a safe point.  A run asked to stop while it plans has four
\* node boundaries ahead of it.
CancelHonoured ==
  \A r \in Procs : (/\ cancel[r]
                    /\ status[r] = "RUNNING"
                    /\ stage[r] = 1)
                   ~> (status[r] \in {"CANCELLED", "FAILED"} \/ pc[r] = "crashed")
=============================================================================
