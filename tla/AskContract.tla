----------------------------- MODULE AskContract -----------------------------
(***************************************************************************)
(* What a node relies on when it asks a model for structured output        *)
(* (llm/structured_output.py and the callers' own checks): a number of     *)
(* model calls that is bounded from the start, one decision that is taken  *)
(* after the last of them, and nothing after the decision.  The Ask        *)
(* actions of ResearcherDeep, Synthesizer and Pipeline take the decision   *)
(* in one step.                                                            *)
(***************************************************************************)
EXTENDS Naturals

VARIABLES limit,   \* most calls this question may cost
          asked,   \* model calls made so far
          outcome  \* the decision, or "none"

vars == <<limit, asked, outcome>>

\* An answer the caller takes; no answer it can take; a provider error it
\* knows; an exception that leaves the node.
Decisions == {"answer", "rejected", "failed", "raised"}

Init == /\ limit \in Nat \ {0}
        /\ asked = 0
        /\ outcome = "none"

Ask == /\ outcome = "none"
       /\ asked < limit
       /\ asked' = asked + 1
       /\ UNCHANGED <<limit, outcome>>

\* The call itself may raise, so deciding may be a call too.
Decide == /\ outcome = "none"
          /\ outcome' \in Decisions
          /\ asked' \in {asked, asked + 1}
          /\ asked' \in 1..limit
          /\ UNCHANGED limit

Next == Ask \/ Decide

Spec == Init /\ [][Next]_vars
=============================================================================
