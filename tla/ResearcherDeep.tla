--------------------------- MODULE ResearcherDeep ---------------------------
(***************************************************************************)
(* The researcher_deep node (agents/researcher_deep.py): it groups the     *)
(* papers of deep_read_queue by the sections that noted them, and for each *)
(* section fetches the abstracts (s2_lookup, with arxiv_lookup as the      *)
(* fallback), asks the model once, validates the answer and persists the   *)
(* evidence cards in one transaction.  Papers of sections that completed   *)
(* leave the queue; the rest stay for whoever re-enters the node.          *)
(*                                                                         *)
(* The queue and the notes are checkpointed graph state, evidence_items is *)
(* a table: a crash in the middle keeps the evidence and forgets the pass. *)
(* Sections and papers are taken in any order: the order of the dicts and  *)
(* lists is the model's, and nothing below depends on it.                  *)
(***************************************************************************)
EXTENDS Naturals, FiniteSets, FetchContract, NodeContracts

CONSTANTS Sections,    \* section ids in section_notes
          Papers,      \* paper ids
          Claims,      \* what tells the cards of one paper apart
          NoCategory,  \* no error category
          MaxPasses,   \* bound: times the node is entered on purpose
          MaxRestarts  \* bound: crashes followed by a re-run

ASSUME DeepAssumption == /\ Web \subseteq Papers
                         /\ Arxiv \subseteq Papers
                         /\ Web \cap Arxiv = {}
                         /\ IsFiniteSet(Papers)
                         /\ IsFiniteSet(Sections)
                         /\ IsFiniteSet(Claims)
                         /\ NoCategory \notin {"provider_429", "provider_5xx",
                                               "schema_invalid", "context_overflow"}
                         /\ MaxPasses \in Nat
                         /\ MaxRestarts \in Nat

VARIABLES known,     \* section ids of the outline (sections_by_id)
          notes,     \* section_notes: the papers each section noted
          queue,     \* deep_read_queue of the graph state
          evidence,  \* committed evidence_items of this run
          pc,        \* where the node stands
          taken,     \* deep_queue_set: the queue as the pass found it
          todo,      \* sections of papers_by_section still to visit
          cur,       \* section being worked on
          left,      \* its papers not fetched yet
          abstracts, \* its papers with an abstract
          cards,     \* validated cards about to be persisted
          processed, \* papers of completed sections
          lastErr,   \* last_error_category
          noted,     \* error category the last complete pass left on the run
          pass, restarts,          \* entries so far
          fetched, answered, broken, cause   \* history, see below

input  == <<known, notes>>
local  == <<taken, todo, cur, left, abstracts, cards, processed, lastErr>>
bounds == <<pass, restarts>>
\* fetched: <<section, paper>> whose abstract some pass got; answered: those an
\* accepted answer of this pass reported on; broken: sections this pass left
\* on a transient failure; cause: why the node raised.
history == <<fetched, answered, broken, cause>>
vars == <<input, queue, evidence, pc, local, noted, bounds, history>>

Categories == {"provider_429", "provider_5xx", "schema_invalid", "context_overflow"}
None == "none"
-----------------------------------------------------------------------------
(* What the model can answer, once it has passed the JSON schema. *)
Card == [section : Sections, paper : Papers, claim : Claims]
Answers == [section : Sections, processed : SUBSET Papers,
            insufficient : SUBSET Papers, cards : SUBSET Card]

CardPapers(a) == {c.paper : c \in a.cards}

\* Mutant: no coverage check.
AcceptPartial(a) == /\ a.section = cur
                    /\ a.processed \subseteq abstracts
                    /\ a.insufficient \subseteq abstracts
                    /\ CardPapers(a) \subseteq abstracts

\* Section id, subset checks, coverage.
Accept(a) == /\ a.section = cur
             /\ a.processed = abstracts
             /\ a.insufficient \subseteq abstracts
             /\ CardPapers(a) \subseteq abstracts

\* The cards that are written: the others are filtered out one by one.
Kept(a) == {c \in a.cards : c.section = cur /\ c.paper \in abstracts}

\* What is left of the accepted answers.
Reports == {[processed |-> a.processed, cards |-> Kept(a)]
              : a \in {b \in Answers : Accept(b)}}

\* Mutant: the whole queue for every section.
PapersOfAnySection(s) == taken

\* The papers a section will be asked about: its notes, cut to the queue.
PapersOf(s) == notes[s] \cap taken
-----------------------------------------------------------------------------
Init == /\ known \in SUBSET Sections
        /\ notes \in [Sections -> SUBSET Papers]
        /\ queue \in SUBSET Papers
        /\ evidence = {}
        /\ pc = "idle"
        /\ taken = {} /\ todo = {} /\ cur = None /\ left = {}
        /\ abstracts = {} /\ cards = {} /\ processed = {}
        /\ lastErr = NoCategory /\ noted = NoCategory
        /\ pass = 1 /\ restarts = 0
        /\ fetched = {} /\ answered = {} /\ broken = {} /\ cause = None

\* update_stage, then group the queue by section.
Enter == /\ pc = "idle"
         /\ taken' = queue
         /\ todo' = {s \in Sections : notes[s] \cap queue # {}}
         /\ processed' = {}
         /\ lastErr' = NoCategory
         /\ broken' = {} /\ answered' = {}
         /\ pc' = "section"
         /\ UNCHANGED <<input, queue, evidence, cur, left, abstracts, cards,
                        noted, bounds, fetched, cause>>

\* Mutant: the section that is passed over comes up again.
SkipUnknownAgain == /\ pc = "section"
                    /\ todo \ known # {}
                    /\ UNCHANGED vars

\* A section the outline does not have is passed over.
SkipUnknown == /\ pc = "section"
               /\ \E s \in todo \ known : todo' = todo \ {s}
               /\ UNCHANGED <<input, queue, evidence, pc, taken, cur, left, abstracts,
                              cards, processed, lastErr, noted, bounds, history>>

\* Mutant: the section stays among those to visit.
PickSectionAgain == /\ pc = "section"
                    /\ \E s \in todo \cap known : cur' = s /\ left' = PapersOf(s)
                    /\ abstracts' = {}
                    /\ pc' = "fetch"
                    /\ UNCHANGED <<input, queue, evidence, taken, todo, cards, processed,
                                   lastErr, noted, bounds, history>>

PickSection == /\ pc = "section"
               /\ \E s \in todo \cap known :
                     /\ cur' = s
                     /\ todo' = todo \ {s}
                     /\ left' = PapersOf(s)
               /\ abstracts' = {}
               /\ pc' = "fetch"
               /\ UNCHANGED <<input, queue, evidence, taken, cards, processed,
                              lastErr, noted, bounds, history>>

\* `continue`: give the section up and go to the next one.
Drop == /\ pc' = "section"
        /\ cur' = None /\ left' = {} /\ abstracts' = {} /\ cards' = {}
        /\ UNCHANGED <<input, queue, evidence, taken, todo, processed, noted,
                       bounds, fetched, answered, cause>>

\* Mutant: the section is given up and no category is remembered.
DropSilently(category) == /\ Drop
                          /\ lastErr' = lastErr
                          /\ broken' = broken \cup {cur}

\* The section hit a transient failure; its papers are to be retried.
DropTransient(category) == /\ Drop
                           /\ lastErr' = category
                           /\ broken' = broken \cup {cur}

\* The local variables are gone with the call, cur but for what is said of it.
Forget == /\ taken' = {} /\ todo' = {} /\ left' = {}
          /\ abstracts' = {} /\ cards' = {} /\ processed' = {}
          /\ lastErr' = NoCategory
          /\ broken' = {} /\ answered' = {}

\* An exception leaves the node; graph.invoke and the run fail.
Raise(why) == /\ pc' = "failed"
              /\ cause' = why
              /\ Forget
              /\ UNCHANGED <<input, queue, evidence, cur, noted, bounds, fetched>>

\* One turn of the fetch loop.  The exception is caught inside the
\* transaction, classified after it.
Fetch == /\ pc = "fetch"
         /\ \E p \in left : \E o \in Fetched(p) :
              \/ /\ o \in {"abstract", "absent"}
                 /\ left' = left \ {p}
                 /\ IF o = "abstract"
                    THEN /\ abstracts' = abstracts \cup {p}
                         /\ fetched' = fetched \cup {<<cur, p>>}
                    ELSE UNCHANGED <<abstracts, fetched>>
                 /\ UNCHANGED <<input, queue, evidence, pc, taken, todo, cur, cards,
                                processed, lastErr, noted, bounds, answered,
                                broken, cause>>
              \/ /\ Classified(o)
                 /\ DropTransient(o)
              \/ /\ o \in {"network", "unclassified"}
                 /\ Raise(o)

\* Nothing to ask about: not an error, the papers stay.
NoAbstracts == /\ pc = "fetch"
               /\ left = {}
               /\ abstracts = {}
               /\ Drop
               /\ UNCHANGED <<lastErr, broken>>

\* The prompt does not fit (budget_manager.check), or the model call fails
\* with something recoverable.
AskFails == /\ pc = "fetch"
            /\ left = {}
            /\ abstracts # {}
            /\ \E c \in Categories : DropTransient(c)

AskRaises == /\ pc = "fetch"
             /\ left = {}
             /\ abstracts # {}
             /\ Raise("unclassified")

AskRejected == /\ pc = "fetch"
               /\ left = {}
               /\ abstracts # {}
               /\ ~ \A a \in Answers : Accept(a)
               /\ DropTransient("schema_invalid")

AskAccepted == /\ pc = "fetch"
               /\ left = {}
               /\ abstracts # {}
               /\ \E r \in Reports :
                     /\ cards' = r.cards
                     /\ answered' = answered \cup ({cur} \X r.processed)
               /\ processed' = processed \cup abstracts
               /\ pc' = "persist"
               /\ UNCHANGED <<input, queue, evidence, taken, todo, cur, left,
                              abstracts, lastErr, noted, bounds, fetched,
                              broken, cause>>

\* Mutant: numbering goes on after the rows the section already has.
FirstNumberAfter(s) == Cardinality({e \in evidence : e.section = s})

\* section_evidence_count starts over in every pass.
FirstNumber(s) == 0

\* The numberings of a batch from the first number on, in the model's order:
\* as many numbers as cards, none left out.
Numberings(batch, first) ==
  LET ids == first..(first + Cardinality(batch) - 1) IN
  {f \in [batch -> ids] : \A n \in ids : \E c \in batch : f[c] = n}

\* evidence_id is E-<run>-<section>-<n>, the primary key.
Taken(s, n) == \E e \in evidence : e.section = s /\ e.n = n

\* All cards of the section in one transaction; a duplicate id or any other
\* database error rolls all of them back and leaves the node.
Persist ==
  /\ pc = "persist"
  /\ \E f \in Numberings(cards, FirstNumber(cur)) :
       IF \E c \in cards : Taken(cur, f[c])
       THEN Raise("unique")
       ELSE /\ evidence' = evidence \cup
                 {[section |-> cur, paper |-> c.paper, n |-> f[c], pass |-> pass + restarts]
                     : c \in cards}
            /\ pc' = "section"
            /\ cur' = None /\ abstracts' = {} /\ cards' = {}
            /\ UNCHANGED <<input, queue, taken, todo, left, processed, lastErr,
                           noted, bounds, history>>

PersistFails == pc = "persist" /\ Raise("database")

Remaining == {p \in queue : p \notin processed /\ p \notin Web}

\* note_error_category, and the new queue goes into the graph state.
Finish == /\ pc = "section"
          /\ todo = {}
          /\ queue' = Remaining
          /\ noted' = lastErr
          /\ pc' = "done"
          /\ UNCHANGED <<input, evidence, local, bounds, history>>

\* The retry the queue is kept for.
Reenter == /\ pc = "done"
           /\ queue # {}
           /\ pass < MaxPasses
           /\ pass' = pass + 1
           /\ pc' = "idle"
           /\ Forget
           /\ UNCHANGED <<input, queue, evidence, cur, noted, restarts, fetched, cause>>

\* The process dies inside the node; a resumed graph runs the node again on
\* the checkpointed state.
Restart == /\ pc \in {"section", "fetch", "persist"}
           /\ restarts < MaxRestarts
           /\ restarts' = restarts + 1
           /\ pc' = "idle"
           /\ cur' = None
           /\ Forget
           /\ UNCHANGED <<input, queue, evidence, noted, pass, fetched, cause>>

Step == \/ Enter \/ SkipUnknown \/ PickSection \/ Fetch \/ NoAbstracts
        \/ AskFails \/ AskRaises \/ AskRejected \/ AskAccepted
        \/ Persist \/ PersistFails \/ Finish

Done == pc \in {"done", "failed"} /\ UNCHANGED vars

Next == Step \/ Reenter \/ Restart \/ Done

Spec == Init /\ [][Next]_vars
FairSpec == Spec /\ WF_vars(Step)
-----------------------------------------------------------------------------
TypeOK ==
  /\ known \subseteq Sections
  /\ notes \in [Sections -> SUBSET Papers]
  /\ queue \subseteq Papers
  /\ evidence \subseteq [section : Sections, paper : Papers, n : Nat, pass : Nat]
  /\ pc \in {"idle", "section", "fetch", "persist", "done", "failed"}
  /\ taken \subseteq Papers
  /\ todo \subseteq Sections
  /\ cur \in Sections \cup {None}
  /\ left \subseteq Papers
  /\ abstracts \subseteq Papers
  /\ cards \subseteq Card
  /\ processed \subseteq Papers
  /\ lastErr \in Categories \cup {NoCategory}
  /\ noted \in Categories \cup {NoCategory}
  /\ pass \in Nat
  /\ restarts \in Nat
  /\ fetched \subseteq Sections \X Papers
  /\ answered \subseteq Sections \X Papers
  /\ broken \subseteq Sections
  /\ cause \in {None, "network", "unclassified", "unique", "database"}

\* A paper leaves the queue only as a web: paper or because an accepted answer
\* of this pass reported on it: none is lost to a failed fetch, a rejected or
\* partial answer, or a missing abstract.
LeavesOnlyAnswered ==
  pc = "done" => \A p \in taken \ queue :
                    p \in Web \/ \E s \in Sections : <<s, p>> \in answered

\* Every evidence row is about a paper its section noted and whose abstract
\* was really fetched for that section: no hallucinated paper, no card of
\* another section, nothing about a paper the model never saw.
EvidenceGrounded ==
  \A e \in evidence : /\ e.section \in known
                      /\ e.paper \in notes[e.section]
                      /\ <<e.section, e.paper>> \in fetched

\* Re-runs never double a section's evidence: its rows come from one pass.
OnePassPerSection ==
  \A e, f \in evidence : e.section = f.section => e.pass = f.pass

\* Numbering from 0 again keeps the evidence apart at the price of a refusal: an
\* id is refused only when an earlier entry of the node, re-entered or crashed,
\* has written evidence of the section, and never for what this one wrote.
CollidesOnlyOnRerun ==
  cause = "unique" => \E e \in evidence : e.section = cur /\ e.pass < pass + restarts

\* A pass that gave a section up on a failure leaves a category on the run,
\* even when the sections after it complete.
FailureIsNoted == pc = "done" /\ broken # {} => noted # NoCategory

\* The rows of this entry of the node.
Written == {e \in evidence : e.pass = pass + restarts}

\* Each entry leaves what NodeContracts promises the nodes after it: its rows are
\* about papers it took off the queue for a section that noted them, a paper that
\* stays in the queue has no new row, none leaves it that no known section noted,
\* and a section given up on a failure shows in the category of the run.
Delivers ==
  pc = "done" => DeepDelivers(known, notes, taken, Web, Written, queue,
                              broken # {}, noted, NoCategory)

\* However often it is entered, resumed or crashed, the node comes to an end,
\* whatever the lookups and the model answer.
Terminates == []<>(pc \in {"done", "failed"})

\* Docstring: papers from sections that hit transient failures stay in the
\* queue (web: papers apart).
BrokenSectionsKeepPapers ==
  pc = "done" => \A s \in broken : PapersOf(s) \ Web \subseteq queue
=============================================================================
