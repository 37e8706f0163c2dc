----------------------------- MODULE Synthesizer -----------------------------
(***************************************************************************)
(* The synthesize node (synthesis/synthesizer.py): for each section of the *)
(* outline it reads the section's evidence, drops whole papers until the   *)
(* prompt fits the token budget, asks the model at most twice, validates   *)
(* that the answer cites nothing but the evidence it was shown, and keeps  *)
(* the answer as the section's structured extract.                         *)
(*                                                                         *)
(* Data: an evidence row is its id, its paper, a confidence and the length *)
(* of its block in the prompt.  An answer is the references it makes: what *)
(* it says about them is left out.  Confidences are integers, so averages  *)
(* compare without the rounding of floats; rows have no order, so papers   *)
(* with the same score are taken in any order (created_at, the order of    *)
(* the query, is the same for all rows of a transaction).  The evidence    *)
(* does not change under this node: Deep has ended.                        *)
(***************************************************************************)
EXTENDS Naturals, Sequences, FiniteSets, FiniteSetsExt, NodeContracts

CONSTANTS Sections,    \* section ids
          Outlines,    \* outlines the planner can produce: sequences of ids
          Papers,      \* paper ids
          EvidenceIds, \* evidence ids, and those a model makes up
          Stores,      \* contents evidence_items can have for this run
          Lists,       \* what a list of references in an answer can hold
          NoExtract,   \* the section has no structured extract
          NoCategory,  \* no error category
          BaseChars,   \* length of the formatted template
          Budget       \* max_input_tokens of the role

Rows == [id : EvidenceIds, section : Sections, paper : Papers, conf : Nat, chars : Nat]

\* One entry of a list: the papers it names and the evidence it cites.
Refs == [papers : SUBSET Papers, ids : SUBSET EvidenceIds]

ASSUME SynthesizerAssumption ==
  /\ Outlines \subseteq Seq(Sections)
  /\ IsFiniteSet(Papers)
  /\ \A S \in Stores : S \subseteq Rows /\ IsFiniteSet(S)
  /\ \A S \in Stores : \A r, s \in S : r.id = s.id => r = s
  /\ Lists \subseteq SUBSET Refs
  /\ NoExtract \notin [cited : SUBSET Papers, refs : SUBSET Refs,
                       synthesis : SUBSET Refs, missing : BOOLEAN,
                       told : SUBSET Papers]
  /\ NoCategory \notin {"provider_429", "provider_5xx", "schema_invalid",
                        "context_overflow"}
  /\ BaseChars \in Nat
  /\ Budget \in Nat

VARIABLES outline,   \* section ids of state["outline"]
          store,     \* evidence_items of the run
          extracts,  \* structured_extracts
          pc,        \* where the node stands
          idx,       \* position of the section being worked on
          items,     \* evidence going into the prompt
          rest,      \* papers _top_k_rerank has not considered yet
          dropped,   \* dropped_paper_ids
          attempt,   \* number of the model call
          lastErr,   \* last_error_category
          noted      \* category left on the run

input   == <<outline, store>>
section == <<items, rest, dropped, attempt>>
vars    == <<input, extracts, pc, idx, section, lastErr, noted>>

Categories == {"provider_429", "provider_5xx", "schema_invalid", "context_overflow"}
\* What classify_exception answers for an exception it knows.
Transport == {"provider_429", "provider_5xx", "schema_invalid"}

Extracts == [cited : SUBSET Papers, refs : SUBSET Refs, synthesis : SUBSET Refs,
             missing : BOOLEAN, told : SUBSET Papers]
-----------------------------------------------------------------------------
(* Token accounting: four characters to a token, rounded down. *)
Tokens(chars) == chars \div 4

HeaderChars == 37   \* _EVIDENCE_SECTION_HEADER
JoinerChars == 2    \* _BLOCK_JOINER

Of(R, p) == {r \in R : r.paper = p}
PapersIn(R) == {r.paper : r \in R}

\* _format_evidence_items_for_prompt: the blocks of R and the joiners in between.
BlockChars(R) == MapThenSumSet(LAMBDA r : r.chars, R) + JoinerChars * (Cardinality(R) - 1)

\* Mutant: the header is not counted.
PackedHeaderless(R) ==
  Tokens(BaseChars) + MapThenSumSet(LAMBDA p : Tokens(BlockChars(Of(R, p))), PapersIn(R))

\* _packed_total_tokens: every part is rounded down on its own, a joiner to 0.
Packed(R) ==
  IF R = {} THEN Tokens(BaseChars)
  ELSE Tokens(BaseChars) + Tokens(HeaderChars)
       + MapThenSumSet(LAMBDA p : Tokens(BlockChars(Of(R, p))), PapersIn(R))
       + (Cardinality(PapersIn(R)) - 1) * Tokens(JoinerChars)

\* _estimate_tokens(_build_user_message(...)): the prompt as it is sent.
Prompt(R) == Tokens(BaseChars + HeaderChars + BlockChars(R))

\* budget_manager.check does not raise.
Fits(R) == Packed(R) <= Budget

Conf(R) == MapThenSumSet(LAMBDA r : r.conf, R)

\* _paper_score: the average confidence decides, then the number of items.
Before(P, Q) == LET p == Conf(P) * Cardinality(Q)
                    q == Conf(Q) * Cardinality(P)
                IN p > q \/ (p = q /\ Cardinality(P) > Cardinality(Q))
-----------------------------------------------------------------------------
Cur == outline[idx]

\* EvidenceStore.list_by_section
Read(s) == {r \in store : r.section = s}

\* The papers a descending sort can bring next.
Best == {p \in rest : \A q \in rest : ~ Before(Of(Read(Cur), q), Of(Read(Cur), p))}

\* _empty_output_for_section: a missing_evidence gap for every item wanted, of
\* which a planned section has at least one.
EmptyOutput == [cited |-> {}, refs |-> {}, synthesis |-> {}, missing |-> TRUE, told |-> {}]
-----------------------------------------------------------------------------
(* _validate_grounding, layer by layer, for each list of an answer. *)
Owners(ids) == PapersIn({r \in items : r.id \in ids})

\* Mutant: layer 2 looks the ids up in the whole table.
ShownAnywhere(r) == /\ r.papers \subseteq PapersIn(items)
                    /\ r.ids \subseteq {x.id : x \in store}

\* Layers 1 and 2.
Shown(r) == /\ r.papers \subseteq PapersIn(items)
            /\ r.ids \subseteq {x.id : x \in items}

\* Mutant: layer 3 forgotten.
OwnedLoosely(r) == TRUE

\* Layers 3a, 3c, 3d, 3e: the papers named are those the evidence is about.
Owned(r) == Owners(r.ids) = r.papers

One(S) == Cardinality(S) = 1

Claims == {L \in Lists : \A r \in L : One(r.papers) /\ One(r.ids) /\ Shown(r) /\ Owned(r)}

\* Layer 5b: an entry for every paper.
PaperFacts == {L \in Lists : /\ \A r \in L : One(r.papers) /\ r.ids # {} /\ Shown(r) /\ Owned(r)
                             /\ PapersIn(items) \subseteq UNION {r.papers : r \in L}}

\* Layers 3b and 5c; a row may have no cells.
MatrixRows == {L \in Lists : /\ \A r \in L : /\ One(r.papers)
                                             /\ Shown(r)
                                             /\ Owners(r.ids) \subseteq r.papers
                             /\ PapersIn(items) \subseteq UNION {r.papers : r \in L}}

\* Layer 4.
Taxonomies == {L \in Lists : \A r \in L : Shown(r) /\ (r.papers # {} => r.ids # {})}

\* min_length = 2 counts the ids listed, which may be the same one twice.
Syntheses == {L \in Lists : \A r \in L : /\ r.papers # {}
                                         /\ r.ids # {}
                                         /\ Shown(r)
                                         /\ Owned(r)}

\* Mutant: the papers the budget cost are not reported.
AddGapsNever(R) == {}

\* The budget_truncation gap lists the papers dropped.
AddGaps(R) == R

\* The extracts that can come of an answer that passes all layers; its section
\* id is the section's and papers_cited is exactly what was shown (0, 5a).
Accepted ==
  {[cited |-> PapersIn(items), refs |-> c \cup f \cup m \cup t \cup x, synthesis |-> x,
    missing |-> FALSE, told |-> AddGaps(dropped)]
     : c \in Claims, f \in PaperFacts, m \in MatrixRows, t \in Taxonomies, x \in Syntheses}
-----------------------------------------------------------------------------
Init == /\ outline \in Outlines
        /\ store \in Stores
        /\ extracts = [s \in Sections |-> NoExtract]
        /\ pc = "section"
        /\ idx = 0
        /\ items = {} /\ rest = {} /\ dropped = {} /\ attempt = 1
        /\ lastErr = NoCategory
        /\ noted = NoCategory

Write(s, extract) == extracts' = [extracts EXCEPT ![s] = extract]

\* No evidence: an output that is empty but there.
EmptySection == /\ pc = "section"
                /\ idx < Len(outline)
                /\ idx' = idx + 1
                /\ Read(outline[idx + 1]) = {}
                /\ Write(outline[idx + 1], EmptyOutput)
                /\ UNCHANGED <<input, pc, section, lastErr, noted>>

\* The first budget check: everything goes in, or the papers are ranked.
NextSection == /\ pc = "section"
               /\ idx < Len(outline)
               /\ idx' = idx + 1
               /\ dropped' = {}
               /\ attempt' = 1
               /\ LET all == Read(outline[idx + 1]) IN
                  /\ all # {}
                  /\ IF Fits(all)
                     THEN pc' = "ask" /\ items' = all /\ rest' = {}
                     ELSE pc' = "pack" /\ items' = {} /\ rest' = PapersIn(all)
               /\ UNCHANGED <<input, extracts, lastErr, noted>>

\* Mutant: the first paper that does not fit ends the packing.
RejectAll(p) == /\ dropped' = dropped \cup rest
                /\ rest' = {}
                /\ UNCHANGED items

Reject(p) == /\ dropped' = dropped \cup {p}
             /\ rest' = rest \ {p}
             /\ UNCHANGED items

\* One round of the loop of _top_k_rerank: the whole paper or nothing of it.
PackPaper == /\ pc = "pack"
             /\ \E p \in Best :
                  LET candidate == items \cup Of(Read(Cur), p) IN
                  IF Fits(candidate)
                  THEN items' = candidate /\ rest' = rest \ {p} /\ UNCHANGED dropped
                  ELSE Reject(p)
             /\ UNCHANGED <<input, extracts, pc, idx, attempt, lastErr, noted>>

\* Mutant: the category is recorded after an early `continue`.
MarkNothing(category) == lastErr' = lastErr

Mark(category) == lastErr' = category

\* The pool is packed and checked once more.
Packing == pc = "pack" /\ rest = {}

PackedEnough == /\ Packing
                /\ items # {}
                /\ Fits(items)
                /\ pc' = "ask"
                /\ UNCHANGED <<input, extracts, idx, section, lastErr, noted>>

\* Nothing left to ask about: the section gets the output of an empty one.
Overflow == /\ Packing
            /\ items = {} \/ ~ Fits(items)
            /\ Write(Cur, EmptyOutput)
            /\ Mark("context_overflow")
            /\ pc' = "section"
            /\ UNCHANGED <<input, idx, section, noted>>

AskAccepted == /\ pc = "ask"
               /\ \E extract \in Accepted : Write(Cur, extract)
               /\ pc' = "section"
               /\ UNCHANGED <<input, idx, section, lastErr, noted>>

MayRepair == attempt = 1

CountAttempt == attempt' = attempt + 1

\* No JSON, the wrong shape, or not grounded: the model is told and asked again.
AskRepaired == /\ pc = "ask"
               /\ MayRepair
               /\ CountAttempt
               /\ UNCHANGED <<input, extracts, pc, idx, items, rest, dropped, lastErr, noted>>

GiveUp(category) == /\ Mark(category)
                    /\ pc' = "section"
                    /\ UNCHANGED <<input, extracts, idx, section, noted>>

\* The second answer is no better.
AskRejected == /\ pc = "ask"
               /\ ~ MayRepair
               /\ GiveUp("schema_invalid")

\* A provider error, in either call.
AskFails == /\ pc = "ask"
            /\ \E c \in Transport : GiveUp(c)

\* An exception the classifier does not know ends the run.
AskRaises == /\ pc = "ask"
             /\ pc' = "failed"
             /\ UNCHANGED <<input, extracts, idx, section, lastErr, noted>>

\* note_error_category, and the extracts go into the graph state.
Finish == /\ pc = "section"
          /\ idx = Len(outline)
          /\ noted' = lastErr
          /\ pc' = "done"
          /\ UNCHANGED <<input, extracts, idx, section, lastErr>>

Step == \/ EmptySection \/ NextSection \/ PackPaper \/ PackedEnough \/ Overflow
        \/ AskAccepted \/ AskRepaired \/ AskRejected \/ AskFails \/ AskRaises
        \/ Finish

Done == pc \in {"done", "failed"} /\ UNCHANGED vars

Next == Step \/ Done

Spec == Init /\ [][Next]_vars
-----------------------------------------------------------------------------
TypeOK == /\ outline \in Outlines
          /\ store \in Stores
          /\ extracts \in [Sections -> Extracts \cup {NoExtract}]
          /\ pc \in {"section", "pack", "ask", "done", "failed"}
          /\ idx \in 0..Len(outline)
          /\ items \subseteq store
          /\ rest \subseteq Papers
          /\ dropped \subseteq Papers
          /\ attempt \in {1, 2}
          /\ lastErr \in Categories \cup {NoCategory}
          /\ noted \in Categories \cup {NoCategory}

\* Whatever the model answers, an extract cites only evidence that the store
\* holds for this very section, and names with it no paper that had been
\* dropped to fit the budget.
ExtractsGrounded ==
  \A s \in Sections : extracts[s] # NoExtract =>
     \A ref \in extracts[s].refs :
        /\ \A e \in ref.ids : \E r \in Read(s) : /\ r.id = e
                                                 /\ r.paper \in extracts[s].cited
        /\ ref.papers \cap extracts[s].told = {}

\* A cross-paper claim is backed paper by paper: each paper it names has a row
\* of its own among the evidence it cites, and it cites no row of a paper it
\* does not name.
SynthesisBacked ==
  \A s \in Sections : extracts[s] # NoExtract =>
     \A ref \in extracts[s].synthesis :
        ref.papers = PapersIn({r \in Read(s) : r.id \in ref.ids})

\* Every paper with evidence in a section is cited or reported as dropped, never
\* both, unless the section ended empty.
PapersAccounted ==
  \A s \in Sections : extracts[s] # NoExtract /\ ~ extracts[s].missing =>
     /\ extracts[s].cited \cup extracts[s].told = PapersIn(Read(s))
     /\ extracts[s].cited \cap extracts[s].told = {}

\* The estimate grows with the evidence it is made for: what fits goes on to fit
\* when rows are left out.
EstimateGrows ==
  \A S \in Stores : \A B \in SUBSET S : \A A \in SUBSET B : Fits(B) => Fits(A)

\* The papers with evidence that the section's extract says nothing about.
Lost(s) == IF extracts[s].missing THEN PapersIn(Read(s)) ELSE extracts[s].told

\* No paper is lost to the budget that would still fit beside the ones that were
\* kept; of a section that was emptied, none fits on its own.
DropsNeeded ==
  \A s \in Sections : extracts[s] # NoExtract =>
     \A p \in Lost(s) :
        ~ Fits({r \in Read(s) : r.paper \in extracts[s].cited \cup {p}})

\* The prompt that is sent overruns the budget by the rounding and no more: at
\* most five characters for each of its papers and two.
OverrunByRounding ==
  pc = "ask" => Prompt(items) <= Budget + (5 * Cardinality(PapersIn(items)) + 2) \div 4

\* A section that has evidence and ends without an extract of it leaves a
\* category on the run, whatever the sections after it do.
FailureIsNoted ==
  pc = "done" => \A i \in 1..Len(outline) :
     LET x == extracts[outline[i]] IN
     x = NoExtract \/ (x.missing /\ Read(outline[i]) # {}) => noted # NoCategory

\* What the pipeline relies on: an extract of every planned section that tells of
\* each paper with evidence, or a category, and of no other section.
Delivers ==
  pc = "done" => \A s \in Sections :
    IF s \in Planned(outline)
    THEN SynthDelivers(PapersWithEvidence(store, s), extracts[s], NoExtract, noted, NoCategory)
    ELSE extracts[s] = NoExtract
=============================================================================
