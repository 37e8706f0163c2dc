---------------------------- MODULE NodeContracts ----------------------------
(***************************************************************************)
(* What each node of the graph leaves in the graph state, in               *)
(* evidence_items and on the run row for the nodes after it.  The modules  *)
(* of the nodes show that the nodes keep to it (their invariants           *)
(* Delivers); Pipeline puts the nodes together on nothing else.            *)
(*                                                                         *)
(* A row has a section and a paper; category is what the node notes on the *)
(* run, none if nothing; troubled says that it gave a section up.          *)
(***************************************************************************)
EXTENDS Naturals, Sequences

Planned(outline) == {outline[i] : i \in DOMAIN outline}

Distinct(outline) == \A i, j \in DOMAIN outline : outline[i] = outline[j] => i = j

NotedUnder(sections, notes) == UNION {notes[s] : s \in sections}

PapersWithEvidence(rows, s) == {r.paper : r \in {x \in rows : x.section = s}}

\* researcher_wide: notes for planned sections only, no queued paper without
\* one if the ids are distinct, and a category if and only if it was in trouble.
WideDelivers(outline, notes, queue, troubled, category, none) ==
  /\ \A s \in DOMAIN notes \ Planned(outline) : notes[s] = {}
  /\ Distinct(outline) => queue \subseteq NotedUnder(Planned(outline), notes)
  /\ troubled <=> category # none

\* researcher_deep: evidence of planned sections about papers that were handed
\* over for them and are through; left is what stays in the queue.
DeepDelivers(planned, notes, queue, web, rows, left, troubled, category, none) ==
  /\ left \subseteq queue \ web
  /\ queue \ (left \cup web) \subseteq NotedUnder(planned, notes)
  /\ \A r \in rows : /\ r.section \in planned
                     /\ r.paper \in (notes[r.section] \cap queue) \ (left \cup web)
  /\ troubled => category # none

\* synthesize, for a section with the papers in its evidence: an extract that
\* tells of each of them, one way or the other, or a category.
SynthDelivers(papers, extract, noExtract, category, none) ==
  IF extract = noExtract THEN papers # {} /\ category # none
  ELSE IF extract.missing THEN papers = {} \/ category # none
  ELSE /\ extract.cited # {}
       /\ extract.cited \cup extract.told = papers
       /\ extract.cited \cap extract.told = {}
=============================================================================
