--------------------------- MODULE ResearcherWide ---------------------------
(***************************************************************************)
(* The researcher_wide node (agents/researcher_wide.py): for each section  *)
(* of the outline a ReAct loop of at most MaxTurns model invocations, with *)
(* a token budget checked before each of them, in which the model calls    *)
(* search tools and at last submits candidate papers.  Candidates go to    *)
(* section_notes and, a few per section, to deep_read_queue.  A section    *)
(* that runs out of turns or budget, or ends with text that is no          *)
(* submission, exits by force with what its tool calls have seen.          *)
(*                                                                         *)
(* The model is the environment: every answer its schema lets through can  *)
(* come, papers no tool has returned included.  Lists of papers are sets:  *)
(* which papers pass a cap is the model's order, or the sort order of ids. *)
(***************************************************************************)
EXTENDS Naturals, Sequences, FiniteSets, NodeContracts

CONSTANTS Ids,         \* section ids the planner can use
          Outlines,    \* outlines it can produce: sequences of ids
          Papers,      \* paper ids
          NoCategory,  \* no error category
          MaxTurns,    \* MAX_TURNS_PER_SECTION
          MaxHandoff,  \* MAX_HANDOFF_TO_DEEP_PER_SECTION
          Budget,      \* max_input_tokens of the role
          MaxUsage,    \* bound: input tokens one invocation reports
          MaxCalls     \* bound: tool calls in one response

ASSUME WideAssumption == /\ Outlines \subseteq Seq(Ids)
                         /\ IsFiniteSet(Papers)
                         /\ NoCategory \notin {"context_overflow", "schema_invalid"}
                         /\ MaxTurns \in Nat
                         /\ MaxHandoff \in Nat
                         /\ Budget \in Nat
                         /\ MaxUsage \in Nat
                         /\ MaxCalls \in Nat

VARIABLES outline,   \* section ids of state["outline"]
          notes,     \* section_notes: the papers noted under each id
          queue,     \* deep_read_queue
          pc,        \* where the node stands
          idx,       \* position of the section being worked on
          turn,      \* invocations made for it
          tokens,    \* total_input_tokens of the section
          seen,      \* seen_paper_ids of the section
          mismatch,  \* had_section_mismatch
          more,      \* tool calls of the last response not handled yet
          lastErr,   \* last_error_category
          noted,     \* category left on the run
          exits      \* history: category and seen_paper_ids each section ended with

loop == <<turn, tokens, seen, mismatch, more>>
vars == <<outline, notes, queue, pc, idx, loop, lastErr, noted, exits>>

Categories == {"context_overflow", "schema_invalid"}
-----------------------------------------------------------------------------
Init == /\ outline \in Outlines
        /\ notes = [i \in Ids |-> {}]
        /\ queue = {}
        /\ pc = "section"
        /\ idx = 0
        /\ turn = 0 /\ tokens = 0 /\ seen = {} /\ mismatch = FALSE /\ more = 0
        /\ lastErr = NoCategory
        /\ noted = NoCategory
        /\ exits = <<>>

\* An empty outline is refused before the stage is stamped.
Refuse == /\ pc = "section"
          /\ outline = <<>>
          /\ pc' = "failed"
          /\ UNCHANGED <<outline, notes, queue, idx, loop, lastErr, noted, exits>>

NextSection == /\ pc = "section"
               /\ idx < Len(outline)
               /\ idx' = idx + 1
               /\ turn' = 0 /\ tokens' = 0 /\ seen' = {} /\ mismatch' = FALSE /\ more' = 0
               /\ pc' = "turn"
               /\ UNCHANGED <<outline, notes, queue, lastErr, noted, exits>>

\* Mutant: the cap counts papers and not the section's own hand-offs.
HandoffsUncapped(S) == {S}

\* What a cap lets through of S: all of it, or MaxHandoff papers.
Handoffs(S) == IF Cardinality(S) <= MaxHandoff THEN {S}
               ELSE {H \in SUBSET S : Cardinality(H) = MaxHandoff}

\* Mutant: no stubs, so the notes keep only what has been triaged.
NoteQueued(papers) == notes' = [notes EXCEPT ![outline[idx]] = papers \cap queue]

Note(papers) == notes' = [notes EXCEPT ![outline[idx]] = papers]

\* Normal completion: every candidate is noted; of those flagged and not
\* queued yet, at most MaxHandoff are queued.
Complete(candidates, flagged) ==
  /\ Note(candidates)
  /\ \E H \in Handoffs(flagged \ queue) : queue' = queue \cup H
  /\ pc' = "section"
  /\ exits' = Append(exits, [category |-> NoCategory, seen |-> seen])
  /\ UNCHANGED <<outline, idx, lastErr, noted>>

\* Mutant: the forced exit leaves no category.
MarkQuietly(category) == lastErr' = lastErr

Mark(category) == lastErr' = category

\* Forced exit: stubs for everything seen; of the first MaxHandoff ids in sort
\* order, those not queued yet are queued.
ForcedExit(category) ==
  /\ Note(seen)
  /\ \E H \in Handoffs(seen) : queue' = queue \cup H
  /\ Mark(category)
  /\ pc' = "section"
  /\ exits' = Append(exits, [category |-> category, seen |-> seen])
  /\ UNCHANGED <<outline, idx, noted>>

AtTurn == pc = "turn"

TurnsLeft == turn < MaxTurns

TurnCap == /\ AtTurn
           /\ ~ TurnsLeft
           /\ ForcedExit(IF mismatch THEN "schema_invalid" ELSE "context_overflow")
           /\ UNCHANGED loop

\* Mutant: no budget check.
OverBudgetNever == FALSE

\* BudgetManager.check on what the section has used so far.
OverBudget == tokens > Budget

BudgetExit == /\ AtTurn
              /\ TurnsLeft
              /\ OverBudget
              /\ ForcedExit("context_overflow")
              /\ UNCHANGED loop

\* Mutant: the turn is not counted.
InvokeUncounted == /\ AtTurn
                   /\ TurnsLeft
                   /\ ~ OverBudget
                   /\ turn' = turn
                   /\ \E u \in 0..MaxUsage : tokens' = tokens + u

\* One invocation; usage 0 is also a response without usage_metadata.
Invoke == /\ AtTurn
          /\ TurnsLeft
          /\ ~ OverBudget
          /\ turn' = turn + 1
          /\ \E u \in 0..MaxUsage : tokens' = tokens + u

\* The response has tool calls.
InvokeCalls == /\ Invoke
               /\ more' \in 1..MaxCalls
               /\ pc' = "calls"
               /\ UNCHANGED <<outline, notes, queue, idx, seen, mismatch,
                              lastErr, noted, exits>>

\* Plain content that parses as a submission for this section.
InvokeContent == /\ Invoke
                 /\ \E C \in SUBSET Papers : \E F \in SUBSET C : Complete(C, F)
                 /\ UNCHANGED <<seen, mismatch, more>>

\* Plain content that is a submission for another section, or none at all.
InvokeStops == /\ Invoke
               /\ \E c \in Categories : ForcedExit(c)
               /\ UNCHANGED <<seen, mismatch, more>>

\* The model call fails: nothing catches it in the node.
InvokeRaises == /\ AtTurn
                /\ TurnsLeft
                /\ ~ OverBudget
                /\ pc' = "failed"
                /\ UNCHANGED <<outline, notes, queue, idx, loop, lastErr, noted, exits>>

AtCall == pc = "calls" /\ more > 0

NextCall == /\ more' = more - 1
            /\ UNCHANGED <<outline, notes, queue, pc, idx, turn, tokens,
                           lastErr, noted, exits>>

\* submit_results with arguments for this section ends the loop; the other
\* calls of the response are dropped.
SubmitOk == /\ AtCall
            /\ \E C \in SUBSET Papers : \E F \in SUBSET C : Complete(C, F)
            /\ UNCHANGED loop

\* Wrong section_id: fed back to the model, remembered for the cap exit.
SubmitMismatch == /\ AtCall
                  /\ mismatch' = TRUE
                  /\ UNCHANGED seen
                  /\ NextCall

\* Invalid submission, or a tool that raised: fed back to the model.
CallFails == /\ AtCall
             /\ UNCHANGED <<seen, mismatch>>
             /\ NextCall

\* A search tool answers, in a transaction of its own (see ToolGateway).
ToolAnswers == /\ AtCall
               /\ \E P \in SUBSET Papers : seen' = seen \cup P
               /\ UNCHANGED mismatch
               /\ NextCall

EndTurn == /\ pc = "calls"
           /\ more = 0
           /\ pc' = "turn"
           /\ UNCHANGED <<outline, notes, queue, idx, loop, lastErr, noted, exits>>

\* All sections done: note_error_category, and the state goes on to Deep.
Finish == /\ pc = "section"
          /\ outline # <<>>
          /\ idx = Len(outline)
          /\ noted' = lastErr
          /\ pc' = "done"
          /\ UNCHANGED <<outline, notes, queue, idx, loop, lastErr, exits>>

Step == \/ Refuse \/ NextSection \/ TurnCap \/ BudgetExit
        \/ InvokeCalls \/ InvokeContent \/ InvokeStops \/ InvokeRaises
        \/ SubmitOk \/ SubmitMismatch \/ CallFails \/ ToolAnswers \/ EndTurn
        \/ Finish

Done == pc \in {"done", "failed"} /\ UNCHANGED vars

Next == Step \/ Done

Spec == Init /\ [][Next]_vars
FairSpec == Spec /\ WF_vars(Step)
-----------------------------------------------------------------------------
TypeOK == /\ outline \in Outlines
          /\ notes \in [Ids -> SUBSET Papers]
          /\ queue \subseteq Papers
          /\ pc \in {"section", "turn", "calls", "done", "failed"}
          /\ idx \in 0..Len(outline)
          /\ turn \in 0..MaxTurns
          /\ tokens \in Nat
          /\ seen \subseteq Papers
          /\ mismatch \in BOOLEAN
          /\ more \in 0..MaxCalls
          /\ lastErr \in Categories \cup {NoCategory}
          /\ noted \in Categories \cup {NoCategory}
          /\ exits \in Seq([category : Categories \cup {NoCategory}, seen : SUBSET Papers])

DistinctIds == \A i, j \in 1..Len(outline) : outline[i] = outline[j] => i = j

ForcedOut == {i \in 1..Len(exits) : exits[i].category # NoCategory}

Noted == UNION {notes[i] : i \in Ids}

\* Every queued paper is noted under some section, which is how Deep finds the
\* section to read it for, provided the planner repeats no section id.
QueueHasSection == DistinctIds => queue \subseteq Noted

\* The hand-off of the whole run is bounded by the cap per section.
HandoffBound == Cardinality(queue) <= MaxHandoff * idx

\* A section overruns its budget by one response at the most.
OverrunByOneResponse == tokens <= Budget + MaxUsage

\* What a section had seen when it was forced out is still noted under its id,
\* whatever the sections after it did.
ForcedExitKeepsSeen ==
  DistinctIds => \A i \in ForcedOut : exits[i].seen \subseteq notes[outline[i]]

\* The run is marked if and only if some section was forced out: a section
\* that completes later does not wipe the mark.
ForcedExitIsNoted == pc = "done" => (noted # NoCategory <=> ForcedOut # {})

\* What the pipeline relies on, as NodeContracts promises it: no notes but for
\* planned sections, no queued paper without a note unless section ids repeat, and
\* a category on the run if and only if a section was forced out.
Delivers ==
  pc = "done" => WideDelivers(outline, notes, queue, ForcedOut # {}, noted, NoCategory)

\* The node ends, whatever the model keeps asking for.
Terminates == <>(pc \in {"done", "failed"})
=============================================================================
