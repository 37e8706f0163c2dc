--------------------------- MODULE Pipeline_proofs ---------------------------
(***************************************************************************)
(* Proofs about Pipeline, for any outlines, papers, routing tables and     *)
(* prompt files, and any evidence of other runs.                           *)
(*                                                                         *)
(* What the graph state holds at a node follows from the nodes before it:  *)
(* Early says what is still empty where, Rooted that the evidence of this  *)
(* run goes back to the notes, Backed that extracts and drafts go back to  *)
(* the evidence, and Complete that what is missing shows in the category.  *)
(* Prepared is about the set-up that comes before all nodes.               *)
(***************************************************************************)
EXTENDS Pipeline, TLAPS

\* The prompt of role r is in order, and r has its binding.
InOrder(r) ==
  /\ r \in bound
  /\ templates[r].kinds \cap {"include", "marker", "brace"} = {}
  /\ r \in CITATION_EMITTING_ROLES => "rules" \in templates[r].kinds

Prepared ==
  /\ \A r \in Loaded : InOrder(r)
  /\ pc \in {"enter", "inside", "closing"} \/ stage # None => ToLoad = {}

Early ==
  /\ at < 3 => Evidence = {}
  /\ at < 4 => \A s \in Ids : extracts[s] = None
  /\ pc \notin {"closing"} \cup Over => \A s \in Ids : drafts[s] = None

Rooted == \A e \in Evidence : e.section \in Planned(outline) /\ e.paper \in notes[e.section] \ Web

\* An extract or a draft is about papers with evidence.
About(x, s) == x = None \/ x.cited \cup x.told \subseteq PapersWithEvidence(Evidence, s)

Backed == \A s \in Ids : About(extracts[s], s) /\ About(drafts[s], s)

Full(s) == /\ extracts[s] # None
           /\ extracts[s].cited \cup extracts[s].told = PapersWithEvidence(Evidence, s)

Complete ==
  /\ troubled => category # None
  /\ at = 5 /\ category = None => \A s \in Planned(outline) : Full(s)
  /\ pc \in {"closing", "succeeded"} =>
       /\ at = 5
       /\ {s \in Ids : drafts[s] # None} = Planned(outline)
       /\ category = None => \A s \in Planned(outline) : drafts[s] = extracts[s]
  /\ status = "SUCCEEDED" => pc = "succeeded"

IInv == /\ TypeOK
        /\ Prepared
        /\ Early
        /\ Rooted
        /\ Backed
        /\ Complete

LEMMA PlannedType == ASSUME TypeOK PROVE Planned(outline) \subseteq Ids
<1>1. outline \in Seq(Ids)
  <2>1. <<>> \in Seq(Ids)
    OBVIOUS
  <2>2. outline \in Outlines \/ outline = <<>>
    BY DEF TypeOK
  <2> QED
    BY <2>1, <2>2, PipelineAssumption
<1> QED
  BY <1>1 DEF Planned

\* Where the nodes are.
LEMMA NodeAt ==
  ASSUME at \in DOMAIN Nodes
  PROVE  /\ at \in 1..5
         /\ Inside("planner") => at = 1
         /\ Inside("researcher_wide") => at = 2
         /\ Inside("researcher_deep") => at = 3
         /\ Inside("synthesize") => at = 4
         /\ Inside("write") => at = 5
BY DEF Nodes, Inside

\* The edges.
LEMMA FollowTo ==
  ASSUME at \in DOMAIN Nodes, Follow
  PROVE  /\ at' \in DOMAIN Nodes
         /\ at < 5 => at' = at + 1 /\ pc' = "enter"
         /\ at = 5 => at' = 5 /\ pc' = "closing"
<1>1. at \in 1..5 /\ Len(Nodes) = 5 /\ DOMAIN Nodes = 1..5
  BY DEF Nodes
<1> QED
  BY <1>1 DEF Follow

LEMMA EvidenceType ==
  ASSUME TypeOK
  PROVE  /\ \A e \in Evidence : e \in [run : {"this", "other"}, section : Ids, paper : Papers]
         /\ \A s : PapersWithEvidence(Evidence, s) \subseteq Papers
BY DEF TypeOK, Evidence, PapersWithEvidence

\* Set-up and set-out: steps that touch nothing of the nodes'.
LEMMA QuietData ==
  ASSUME Early, Rooted, Backed, Complete,
         UNCHANGED <<at, outline, notes, extracts, drafts, evidence, category, troubled>>,
         status' # "SUCCEEDED",
         pc' \notin {"closing", "succeeded"},
         pc' \notin Over => pc \notin {"closing"} \cup Over
  PROVE  Early' /\ Rooted' /\ Backed' /\ Complete'
<1>1. Evidence' = Evidence
  BY DEF Evidence
<1>2. Early' /\ Rooted'
  BY <1>1 DEF Early, Rooted
<1>3. Backed'
  BY <1>1 DEF Backed, About
<1>4. Complete'
  BY <1>1 DEF Complete, Full
<1> QED
  BY <1>2, <1>3, <1>4

\* A node that ends keeps the set-up.
LEMMA LeavePrepared ==
  ASSUME TypeOK, Prepared, pc = "inside", UNCHANGED setup, UNCHANGED stage
  PROVE  Prepared'
BY DEF Prepared, setup, Loaded, ToLoad, InOrder

LEMMA LoadRoutingStep == ASSUME IInv, LoadRouting PROVE IInv'
<1>1. /\ pc = "routing" /\ pc' \in {"prompts", "raised"}
      /\ bound' = bound \/ bound' = AgentRoles
      /\ UNCHANGED <<at, templates, outline, notes, queue, extracts, drafts, evidence,
                     status, stage, category, troubled>>
  BY DEF LoadRouting, state, row
<1>2. TypeOK'
  BY <1>1 DEF IInv, TypeOK
<1>3. Prepared'
  <2>1. Loaded' = Loaded /\ Loaded \subseteq AgentRoles /\ ToLoad' = ToLoad
    BY <1>1 DEF Loaded, ToLoad
  <2> QED
    BY <1>1, <2>1 DEF IInv, Prepared, InOrder
<1>4. status' # "SUCCEEDED" /\ pc \notin {"closing"} \cup Over
  BY <1>1 DEF IInv, Complete, Over
<1> QED
  BY <1>1, <1>2, <1>3, <1>4, QuietData DEF IInv

\* A prompt that is accepted is in order.
LEMMA LoadPromptStep == ASSUME IInv, LoadPrompt PROVE IInv'
<1> DEFINE role == Prompted[CHOOSE i \in ToLoad : \A j \in ToLoad : i <= j]
<1>1. PICK file \in Files[role] :
        IF Accepted(role, file) /\ role \in bound
        THEN /\ templates' = [templates EXCEPT ![role] = Template(Expanded(file.body))]
             /\ UNCHANGED pc
        ELSE /\ UNCHANGED templates
             /\ pc' = "raised"
  BY DEF LoadPrompt
<1> HIDE DEF role
<1>2. /\ pc = "prompts" /\ pc' \in {"prompts", "raised"}
      /\ UNCHANGED <<at, bound, outline, notes, queue, extracts, drafts, evidence,
                     status, stage, category, troubled>>
  BY <1>1 DEF LoadPrompt, state, row
<1>3. DOMAIN templates = AgentRoles /\ DOMAIN templates' = AgentRoles
  BY <1>1 DEF IInv, TypeOK
<1>4. TypeOK'
  BY <1>2, <1>3 DEF IInv, TypeOK
<1>5. stage = None
  BY DEF LoadPrompt, IInv, Prepared
<1>6. ASSUME NEW r \in Loaded' PROVE InOrder(r)'
  <2>1. CASE templates'[r] = templates[r]
    BY <1>2, <1>6, <2>1 DEF IInv, Prepared, InOrder, Loaded
  <2>2. CASE templates'[r] # templates[r]
    <3>1. r = role /\ Accepted(role, file) /\ role \in bound
      BY <1>1, <1>3, <1>6, <2>2 DEF Loaded
    <3>2. templates'[r] = Template(Expanded(file.body))
      BY <1>1, <1>3, <1>6, <3>1 DEF Loaded
    <3>3. templates'[r].kinds = Kinds(Expanded(file.body))
      BY <3>2 DEF Template
    <3>4. /\ {"marker", "include"} \cap Kinds(Expanded(file.body)) = {}
          /\ "brace" \notin Kinds(Expanded(file.body))
          /\ role \in CITATION_EMITTING_ROLES => "rules" \in Kinds(Expanded(file.body))
      BY <3>1 DEF Accepted, Finished, BracesValid, CitesRules
    <3> QED
      BY <1>2, <3>1, <3>3, <3>4 DEF InOrder
  <2> QED
    BY <2>1, <2>2
<1>7. Prepared'
  BY <1>2, <1>5, <1>6 DEF Prepared
<1>8. status' # "SUCCEEDED" /\ pc \notin {"closing"} \cup Over
  BY <1>2 DEF IInv, Complete, Over
<1> QED
  BY <1>2, <1>4, <1>7, <1>8, QuietData DEF IInv

LEMMA SetOutStep ==
  ASSUME IInv, Compiled \/ EnterNode \/ Raise \/ Die
  PROVE  IInv'
<1>1. /\ UNCHANGED <<at, bound, templates, outline, notes, queue, extracts, drafts, evidence,
                     category, troubled>>
      /\ pc' \in {"enter", "inside", "raised", "dead"}
  BY DEF Compiled, EnterNode, Raise, Die, setup, state, row
<1>2. /\ pc' # "dead" => pc \in {"routing", "prompts", "enter", "inside"}
      /\ pc \notin Over
      /\ status' \in {status, "RUNNING"}
  BY DEF Compiled, EnterNode, Raise, Die, row, Over
<1>3. stage' = stage \/ (stage' = Stages[at] /\ pc = "enter")
  BY DEF Compiled, EnterNode, Raise, Die, row
<1>4. stage' \in {Stages[i] : i \in DOMAIN Stages} \cup {None}
  <2>1. DOMAIN Stages = DOMAIN Nodes
    BY DEF Stages, Nodes
  <2> QED
    BY <1>3, <2>1 DEF IInv, TypeOK
<1>5. pc' \in {"routing", "prompts", "enter", "inside", "raised", "closing"} \cup Over
  BY <1>1 DEF Over
<1>6. TypeOK'
  BY <1>1, <1>2, <1>4, <1>5 DEF IInv, TypeOK
<1>7. Prepared'
  <2>1. Loaded' = Loaded /\ ToLoad' = ToLoad
    BY <1>1 DEF Loaded, ToLoad
  <2>2. \A r \in Loaded' : InOrder(r)'
    BY <1>1, <2>1 DEF IInv, Prepared, InOrder
  <2>3. CASE Compiled
    BY <2>1, <2>2, <2>3 DEF Compiled, Prepared
  <2>4. CASE EnterNode
    BY <2>1, <2>2, <2>4 DEF EnterNode, IInv, Prepared
  <2>5. CASE Raise \/ Die
    BY <2>1, <2>2, <2>5 DEF Raise, Die, row, IInv, Prepared
  <2> QED
    BY <2>3, <2>4, <2>5
<1>8. status' # "SUCCEEDED"
  BY <1>2 DEF IInv, Complete, Over
<1>9. pc' \notin Over => pc \notin {"closing"} \cup Over
  BY <1>1, <1>2 DEF Over
<1> QED
  BY <1>1, <1>6, <1>7, <1>8, <1>9, QuietData DEF IInv

LEMMA PlanStep == ASSUME IInv, Plan PROVE IInv'
<1>1. /\ Inside("planner") /\ Follow /\ pc = "inside"
      /\ outline' \in Outlines
      /\ UNCHANGED <<bound, templates, notes, queue, extracts, drafts, evidence,
                     status, stage, category, troubled>>
  BY DEF Plan, Leave, NoteCategory, Inside, setup
<1>2. at = 1 /\ at' = 2 /\ pc' = "enter" /\ at' \in DOMAIN Nodes
  BY <1>1, NodeAt, FollowTo DEF IInv, TypeOK
<1>3. TypeOK'
  BY <1>1, <1>2 DEF IInv, TypeOK
<1>4. Evidence' = Evidence /\ Evidence = {}
  BY <1>1, <1>2 DEF IInv, Early, Evidence
<1>5. Early'
  BY <1>1, <1>2, <1>4 DEF IInv, Early, Over
<1>6. Rooted' /\ Backed'
  BY <1>1, <1>2, <1>4 DEF IInv, Rooted, Backed, About
<1>7. Complete'
  BY <1>1, <1>2 DEF IInv, Complete
<1> QED
  BY <1>1, <1>3, <1>5, <1>6, <1>7, LeavePrepared DEF IInv, setup

LEMMA ResearchWideStep == ASSUME IInv, ResearchWide PROVE IInv'
<1>1. PICK c \in {"context_overflow", "schema_invalid", None} :
        /\ notes' \in [Ids -> SUBSET Papers] /\ queue' \in SUBSET Papers
        /\ troubled' = (c # None)
        /\ Follow /\ category' = IF c = None THEN category ELSE c
  BY DEF ResearchWide, Leave, NoteCategory
<1>2. /\ Inside("researcher_wide") /\ pc = "inside"
      /\ UNCHANGED <<bound, templates, outline, extracts, drafts, evidence, status, stage>>
  BY DEF ResearchWide, Leave, Inside, setup
<1>3. at = 2 /\ at' = 3 /\ pc' = "enter" /\ at' \in DOMAIN Nodes
  BY <1>1, <1>2, NodeAt, FollowTo DEF IInv, TypeOK
<1>4. category' \in Categories \cup {None} /\ (troubled' => category' # None)
  BY <1>1 DEF IInv, TypeOK, Categories
<1>5. TypeOK'
  <2>1. troubled' \in BOOLEAN
    BY <1>1
  <2> QED
    BY <1>1, <1>2, <1>3, <1>4, <2>1 DEF IInv, TypeOK
<1>6. Evidence' = Evidence /\ Evidence = {}
  BY <1>2, <1>3 DEF IInv, Early, Evidence
<1>7. Early'
  BY <1>2, <1>3, <1>6 DEF IInv, Early, Over
<1>8. Rooted' /\ Backed'
  BY <1>2, <1>3, <1>6 DEF IInv, Rooted, Backed, About
<1>9. Complete'
  BY <1>2, <1>3, <1>4 DEF IInv, Complete
<1> QED
  BY <1>2, <1>5, <1>7, <1>8, <1>9, LeavePrepared DEF IInv, setup

LEMMA DeepCommitsStep == ASSUME IInv, DeepCommits PROVE IInv'
<1>1. PICK s \in Planned(outline) :
        \E P \in SUBSET ((notes[s] \cap queue) \ Web) :
          evidence' = evidence \cup RowsOf("this", s, P)
  BY DEF DeepCommits
<1>2. PICK P \in SUBSET ((notes[s] \cap queue) \ Web) :
        evidence' = evidence \cup RowsOf("this", s, P)
  BY <1>1
<1>3. /\ Inside("researcher_deep") /\ pc = "inside"
      /\ UNCHANGED <<pc, at, bound, templates, outline, notes, queue, extracts, drafts,
                     status, stage, category, troubled>>
  BY DEF DeepCommits, Inside, setup, state, row
<1>4. at = 3
  BY <1>3, NodeAt DEF IInv, TypeOK
<1>5. s \in Ids /\ P \subseteq Papers
  BY PlannedType DEF IInv, TypeOK
<1>6. Evidence' = Evidence \cup RowsOf("this", s, P)
  BY <1>2 DEF Evidence, RowsOf
<1>7. TypeOK'
  <2>1. evidence' \subseteq [run : {"this", "other"}, section : Ids, paper : Papers]
    BY <1>2, <1>5 DEF RowsOf, IInv, TypeOK
  <2> QED
    BY <1>3, <2>1 DEF IInv, TypeOK
<1>8. Rooted'
  BY <1>2, <1>3, <1>6 DEF IInv, Rooted, RowsOf
<1>9. Early' /\ Complete'
  BY <1>3, <1>4 DEF IInv, Early, Complete
<1>10. Backed'
  <2>1. \A r \in Ids : extracts'[r] = None /\ drafts'[r] = None
    BY <1>3, <1>4 DEF IInv, Early, Over
  <2> QED
    BY <2>1 DEF Backed, About
<1> QED
  BY <1>3, <1>7, <1>8, <1>9, <1>10, LeavePrepared DEF IInv, setup

LEMMA ResearchDeepStep == ASSUME IInv, ResearchDeep PROVE IInv'
<1>1. PICK c \in Categories \cup {None}, t \in BOOLEAN :
        /\ queue' \in SUBSET queue
        /\ t => c # None
        /\ troubled' = (troubled \/ t)
        /\ Follow /\ category' = IF c = None THEN category ELSE c
  BY DEF ResearchDeep, DeepDelivers, Leave, NoteCategory
<1>2. /\ Inside("researcher_deep") /\ pc = "inside"
      /\ UNCHANGED <<bound, templates, outline, notes, extracts, drafts, evidence, status, stage>>
  BY DEF ResearchDeep, Leave, Inside, setup
<1>3. at = 3 /\ at' = 4 /\ pc' = "enter" /\ at' \in DOMAIN Nodes
  BY <1>1, <1>2, NodeAt, FollowTo DEF IInv, TypeOK
<1>4. category' \in Categories \cup {None} /\ (troubled' => category' # None)
  BY <1>1 DEF IInv, TypeOK, Complete
<1>5. TypeOK'
  <2>1. troubled' \in BOOLEAN
    BY <1>1 DEF IInv, TypeOK
  <2> QED
    BY <1>1, <1>2, <1>3, <1>4, <2>1 DEF IInv, TypeOK
<1>6. Evidence' = Evidence
  BY <1>2 DEF Evidence
<1>7. Early'
  BY <1>2, <1>3, <1>6 DEF IInv, Early, Over
<1>8. Rooted' /\ Backed'
  BY <1>2, <1>6 DEF IInv, Rooted, Backed, About
<1>9. Complete'
  BY <1>2, <1>3, <1>4 DEF IInv, Complete
<1> QED
  BY <1>2, <1>5, <1>7, <1>8, <1>9, LeavePrepared DEF IInv, setup

\* The synthesizer delivers an extract of all papers with evidence, or a category.
LEMMA SynthesizeStep == ASSUME IInv, Synthesize PROVE IInv'
<1> DEFINE with(s) == PapersWithEvidence(Evidence, s)
<1>1. PICK c \in Categories \cup {None} :
        /\ extracts' \in [Ids -> UNION {ExtractsOf(with(s)) : s \in Ids}]
        /\ \A s \in Ids : IF s \in Planned(outline)
                          THEN SynthDelivers(with(s), extracts'[s], None, c, None)
                          ELSE extracts'[s] = None
        /\ Follow /\ category' = IF c = None THEN category ELSE c
  BY DEF Synthesize, Leave, NoteCategory
<1>2. /\ Inside("synthesize") /\ pc = "inside"
      /\ UNCHANGED <<bound, templates, outline, notes, queue, drafts, evidence, status, stage,
                     troubled>>
  BY DEF Synthesize, Leave, Inside, setup
<1>3. at = 4 /\ at' = 5 /\ pc' = "enter" /\ at' \in DOMAIN Nodes
  BY <1>1, <1>2, NodeAt, FollowTo DEF IInv, TypeOK
<1>4. /\ category' \in Categories \cup {None} /\ (troubled' => category' # None)
      /\ category' = None => c = None
  BY <1>1, <1>2 DEF IInv, TypeOK, Complete
<1>5. ASSUME NEW s \in Ids
      PROVE  /\ extracts'[s] \in Drafts \cup {None}
             /\ extracts'[s] # None => (extracts'[s].missing => extracts'[s] = EmptyExtract)
  <2>1. PICK r \in Ids : extracts'[s] \in ExtractsOf(with(r))
    BY <1>1
  <2>2. with(r) \subseteq Papers
    BY EvidenceType DEF IInv
  <2> HIDE DEF with
  <2>3. CASE extracts'[s] = None
    BY <2>3
  <2>4. CASE extracts'[s] = EmptyExtract
    <3>1. EmptyExtract \in Drafts
      BY DEF EmptyExtract, Drafts
    <3> QED
      BY <2>4, <3>1
  <2>5. ASSUME NEW C \in SUBSET with(r),
               extracts'[s] = [missing |-> FALSE, cited |-> C, told |-> with(r) \ C]
        PROVE  extracts'[s] \in Drafts /\ ~ extracts'[s].missing
    BY <2>2, <2>5 DEF Drafts
  <2> QED
    BY <2>1, <2>3, <2>4, <2>5 DEF ExtractsOf
<1>6. TypeOK'
  <2>1. extracts' \in [Ids -> Drafts \cup {None}]
    BY <1>1, <1>5
  <2> QED
    BY <1>2, <1>3, <1>4, <2>1 DEF IInv, TypeOK
<1>7. Evidence' = Evidence
  BY <1>2 DEF Evidence
<1>8. Early' /\ Rooted'
  BY <1>2, <1>3, <1>7 DEF IInv, Early, Rooted, Over
<1>9. ASSUME NEW s \in Ids, s \in Planned(outline), extracts'[s] # None
      PROVE  /\ extracts'[s].cited \cup extracts'[s].told \subseteq with(s)
             /\ c = None => extracts'[s].cited \cup extracts'[s].told = with(s)
  <2>1. SynthDelivers(with(s), extracts'[s], None, c, None)
    BY <1>1, <1>9
  <2> HIDE DEF with
  <2>2. CASE extracts'[s].missing
    BY <1>5, <1>9, <2>1, <2>2 DEF SynthDelivers, EmptyExtract
  <2>3. CASE ~ extracts'[s].missing
    BY <1>9, <2>1, <2>3 DEF SynthDelivers
  <2> QED
    BY <2>2, <2>3
<1>10. \A s \in Ids : s \notin Planned(outline) => extracts'[s] = None
  BY <1>1
<1>11. Backed'
  <2>1. ASSUME NEW s \in Ids PROVE About(extracts[s], s)'
    BY <1>7, <1>9, <1>10 DEF About
  <2>2. ASSUME NEW s \in Ids PROVE About(drafts[s], s)'
    BY <1>2, <1>7 DEF IInv, Backed, About
  <2> QED
    BY <2>1, <2>2 DEF Backed
<1>12. \A s \in Planned(outline) : c = None => extracts'[s] # None
  BY <1>1, PlannedType DEF IInv, SynthDelivers
<1>13. Complete'
  <2>1. ASSUME category' = None, NEW s \in Planned(outline)
        PROVE  Full(s)'
    BY <1>4, <1>7, <1>9, <1>12, <2>1, PlannedType DEF IInv, Full
  <2> QED
    BY <1>2, <1>3, <1>4, <2>1 DEF IInv, Complete
<1> QED
  BY <1>2, <1>6, <1>8, <1>11, <1>13, LeavePrepared DEF IInv, setup

\* The writer drafts every planned section, from its extract if there is one.
LEMMA WriteStep == ASSUME IInv, Write PROVE IInv'
<1>1. /\ Inside("write") /\ pc = "inside" /\ Follow
      /\ drafts' = [s \in Ids |-> Drafted(s)]
      /\ UNCHANGED <<bound, templates, outline, notes, queue, extracts, evidence,
                     status, stage, category, troubled>>
  BY DEF Write, Leave, NoteCategory, Inside, setup
<1>2. at = 5 /\ at' = 5 /\ pc' = "closing" /\ at' \in DOMAIN Nodes
  BY <1>1, NodeAt, FollowTo DEF IInv, TypeOK
<1>3. \A s \in Ids : drafts[s] = None
  BY <1>1 DEF IInv, Early, Over
<1>4. BareDraft \in Drafts /\ BareDraft.cited \cup BareDraft.told = {}
  BY DEF BareDraft, Drafts
<1>5. ASSUME NEW s \in Ids
      PROVE  /\ drafts'[s] \in Drafts \cup {None}
             /\ drafts'[s] = None <=> s \notin Planned(outline)
             /\ s \in Planned(outline) /\ extracts[s] # None => drafts'[s] = extracts[s]
             /\ About(drafts[s], s)'
  <2>1. Evidence' = Evidence
    BY <1>1 DEF Evidence
  <2>2. extracts[s] \in Drafts \cup {None} /\ None \notin Drafts
    BY PipelineAssumption DEF IInv, TypeOK, Drafts
  <2>3. CASE s \notin Planned(outline)
    BY <1>1, <1>3, <2>3 DEF Drafted, About
  <2>4. CASE s \in Planned(outline) /\ extracts[s] = None
    <3>1. drafts'[s] = BareDraft
      BY <1>1, <2>4 DEF Drafted
    <3> QED
      BY <1>4, <2>2, <2>4, <3>1 DEF About
  <2>5. CASE s \in Planned(outline) /\ extracts[s] # None
    <3>1. drafts'[s] = extracts[s]
      BY <1>1, <2>5 DEF Drafted
    <3> QED
      BY <2>1, <2>2, <2>5, <3>1 DEF About, IInv, Backed
  <2> QED
    BY <2>3, <2>4, <2>5
<1>6. TypeOK'
  <2>1. drafts' \in [Ids -> Drafts \cup {None}]
    BY <1>1, <1>5
  <2> QED
    BY <1>1, <1>2, <2>1 DEF IInv, TypeOK
<1>7. Evidence' = Evidence
  BY <1>1 DEF Evidence
<1>8. Early' /\ Rooted'
  BY <1>1, <1>2, <1>7 DEF IInv, Early, Rooted
<1>9. Backed'
  BY <1>1, <1>5, <1>7 DEF IInv, Backed, About
<1>10. Complete'
  <2>1. {s \in Ids : drafts'[s] # None} = Planned(outline)
    BY <1>5, PlannedType DEF IInv
  <2>2. category = None => \A s \in Planned(outline) : Full(s) /\ drafts'[s] = extracts[s]
    BY <1>2, <1>5, PlannedType DEF IInv, Complete, Full
  <2>3. \A s : Full(s)' <=> Full(s)
    BY <1>1, <1>7 DEF Full
  <2> QED
    BY <1>1, <1>2, <2>1, <2>2, <2>3 DEF IInv, Complete
<1> QED
  BY <1>1, <1>6, <1>8, <1>9, <1>10, LeavePrepared DEF IInv, setup

\* The row is closed, one way or the other.
LEMMA CloseStep == ASSUME IInv, Fail \/ Succeed PROVE IInv'
<1>1. /\ UNCHANGED <<at, bound, templates, outline, notes, queue, extracts, drafts, evidence,
                     stage, troubled>>
      /\ pc' \in {"failed", "succeeded"} /\ status' \in {"FAILED", "SUCCEEDED"}
      /\ category' \in {category, "schema_invalid"}
  BY DEF Fail, Succeed, FailCategory, setup, state
<1>2. TypeOK'
  BY <1>1 DEF IInv, TypeOK, Categories, Over
<1>3. Prepared'
  BY <1>1 DEF IInv, Prepared, Loaded, ToLoad, InOrder
<1>4. Evidence' = Evidence
  BY <1>1 DEF Evidence
<1>5. Early' /\ Rooted' /\ Backed'
  BY <1>1, <1>4 DEF IInv, Early, Rooted, Backed, About, Over
<1>6. Complete'
  <2>1. CASE Fail
    <3>1. category' # None /\ pc' = "failed" /\ status' = "FAILED"
      BY <2>1, PipelineAssumption DEF Fail, FailCategory
    <3> QED
      BY <3>1 DEF Complete
  <2>2. CASE Succeed
    BY <1>1, <1>4, <2>2 DEF Succeed, IInv, Complete, Full
  <2> QED
    BY <2>1, <2>2
<1> QED
  BY <1>2, <1>3, <1>5, <1>6 DEF IInv

\* Evidence of another run is not this one's.
LEMMA OtherRunStep == ASSUME IInv, OtherRunWrites PROVE IInv'
<1>1. PICK f \in Foreign : evidence' = evidence \cup RowsOf("other", f.section, {f.paper})
  BY DEF OtherRunWrites
<1>2. UNCHANGED <<pc, at, bound, templates, outline, notes, queue, extracts, drafts,
                  status, stage, category, troubled>>
  BY DEF OtherRunWrites, setup, state, row
<1>3. Evidence' = Evidence
  BY <1>1 DEF Evidence, RowsOf
<1>4. evidence' \subseteq [run : {"this", "other"}, section : Ids, paper : Papers]
  BY <1>1, PipelineAssumption DEF RowsOf, IInv, TypeOK
<1>5. TypeOK'
  BY <1>2, <1>4 DEF IInv, TypeOK
<1>6. Prepared'
  BY <1>2 DEF IInv, Prepared, Loaded, ToLoad, InOrder
<1>7. Early' /\ Rooted' /\ Backed' /\ Complete'
  BY <1>2, <1>3 DEF IInv, Early, Rooted, Backed, About, Complete, Full
<1> QED
  BY <1>5, <1>6, <1>7 DEF IInv

LEMMA InitIInv == Init => IInv
<1> SUFFICES ASSUME Init PROVE IInv
  OBVIOUS
<1>1. at \in DOMAIN Nodes /\ DOMAIN templates = AgentRoles
  BY DEF Init, Nodes
<1>2. /\ notes \in [Ids -> SUBSET Papers] /\ extracts \in [Ids -> Drafts \cup {None}]
      /\ drafts \in [Ids -> Drafts \cup {None}]
  BY DEF Init
<1>3. TypeOK
  BY <1>1, <1>2 DEF Init, TypeOK
<1>4. Loaded = {} /\ Evidence = {}
  BY DEF Init, Loaded, Evidence
<1> QED
  BY <1>4, <1>3 DEF Init, IInv, Prepared, Early, Rooted, Backed, About, Complete

LEMMA Inductive == Spec => []IInv
<1>1. IInv /\ [Next]_vars => IInv'
  <2> SUFFICES ASSUME IInv, [Next]_vars PROVE IInv'
    OBVIOUS
  <2>1. CASE UNCHANGED vars
    <3>1. UNCHANGED <<pc, at, bound, templates, outline, notes, queue, extracts, drafts,
                      evidence, status, stage, category, troubled>>
      BY <2>1 DEF vars, setup, state, row
    <3>2. TypeOK' /\ Prepared'
      BY <3>1 DEF IInv, TypeOK, Prepared, Loaded, ToLoad, InOrder
    <3>3. Early' /\ Rooted' /\ Backed' /\ Complete'
      BY <3>1 DEF IInv, Early, Rooted, Backed, About, Complete, Full, Evidence
    <3> QED
      BY <3>2, <3>3 DEF IInv
  <2> QED
    BY <2>1, LoadRoutingStep, LoadPromptStep, SetOutStep, PlanStep, ResearchWideStep,
       DeepCommitsStep, ResearchDeepStep, SynthesizeStep, WriteStep, CloseStep, OtherRunStep
    DEF Next, Step, Done
<1> QED
  BY InitIInv, <1>1, PTL DEF Spec

\* The variables keep their types.
THEOREM TypeCorrect == Spec => []TypeOK
<1>1. IInv => TypeOK
  BY DEF IInv
<1> QED
  BY <1>1, Inductive, PTL

\* No model is asked before every node to come has its binding and a prompt in order.
THEOREM SetUpComesFirst == Spec => []SetUpBeforeWork
<1>1. IInv => SetUpBeforeWork
  <2> SUFFICES ASSUME IInv, stage # None, NEW i \in DOMAIN Prompted
               PROVE  /\ Prompted[i] \in bound \cap Loaded
                      /\ templates[Prompted[i]].kinds \cap {"include", "marker", "brace"} = {}
                      /\ Prompted[i] \in CITATION_EMITTING_ROLES
                           => "rules" \in templates[Prompted[i]].kinds
    BY DEF SetUpBeforeWork
  <2>1. Prompted[i] \in Loaded
    BY DEF IInv, Prepared, ToLoad
  <2> QED
    BY <2>1 DEF IInv, Prepared, InOrder
<1> QED
  BY <1>1, Inductive, PTL

\* Extracts and drafts tell of no paper without evidence of this run and section.
THEOREM DraftsAreGrounded == Spec => []DraftsGrounded
<1>1. IInv => DraftsGrounded
  <2> SUFFICES ASSUME IInv, NEW s \in Ids, NEW x \in {extracts[s], drafts[s]} \ {None},
                      NEW p \in x.cited \cup x.told
               PROVE  /\ RowsOf("this", s, {p}) \subseteq evidence
                      /\ p \in notes[s] \ Web
                      /\ s \in Planned(outline)
    BY DEF DraftsGrounded
  <2>1. p \in PapersWithEvidence(Evidence, s)
    BY DEF IInv, Backed, About
  <2>2. PICK e \in Evidence : e.section = s /\ e.paper = p
    BY <2>1 DEF PapersWithEvidence
  <2>3. e \in evidence /\ e = [run |-> "this", section |-> s, paper |-> p]
    BY <2>2 DEF Evidence, IInv, TypeOK
  <2> QED
    BY <2>2, <2>3 DEF RowsOf, IInv, Rooted
<1> QED
  BY <1>1, Inductive, PTL

\* A run that succeeds has drafted what was planned, and one without a category has
\* given nothing up.
THEOREM SuccessesAreComplete == Spec => []SuccessIsComplete
<1>1. IInv => SuccessIsComplete
  BY DEF IInv, Complete, Full, SuccessIsComplete
<1> QED
  BY <1>1, Inductive, PTL
-----------------------------------------------------------------------------
(* The invocation as RunLifecycle has it. *)

\* Where the row stands while the nodes follow one another.
Stamped ==
  /\ pc \in {"routing", "prompts"} => at = 1 /\ stage = None
  /\ pc = "enter" => IF at = 1 THEN stage = None ELSE stage = Stages[at - 1]
  /\ pc = "inside" => stage = Stages[at]
  /\ pc = "closing" => stage = Stages[5]

LEMMA Positions == /\ Position(None) = 0
                   /\ \A i \in 1..5 : Position(Stages[i]) = i
<1>1. DOMAIN Stages = 1..5
  BY DEF Stages
<1>2. \A i \in 1..5 : Stages[i] # None
  BY PipelineAssumption DEF Stages
<1>3. \A i, j \in 1..5 : Stages[i] = Stages[j] => i = j
  BY DEF Stages
<1>4. ASSUME NEW i \in 1..5 PROVE Position(Stages[i]) = i
  <2>1. Position(Stages[i]) = CHOOSE j \in 1..5 : Stages[j] = Stages[i]
    BY <1>1, <1>2 DEF Position
  <2> QED
    BY <1>3, <2>1
<1> QED
  BY <1>4 DEF Position

\* A function of the one invocation.
LEMMA Single == /\ "run" \in Me
                /\ \A v : [p \in Me |-> v]["run"] = v
                /\ \A v, w : [[p \in Me |-> v] EXCEPT !["run"] = w] = [p \in Me |-> w]
BY DEF Me

\* A node that ends: whatever it notes is a category, and only where RunLifecycle
\* lets a node note one.
LEMMA Leaving ==
  ASSUME IInv, Plan \/ ResearchWide \/ ResearchDeep \/ Synthesize \/ Write
  PROVE  /\ pc = "inside" /\ at \in 1..5
         /\ IF at < 5 THEN pc' = "enter" /\ at' = at + 1 ELSE pc' = "closing"
         /\ UNCHANGED <<status, stage>>
         /\ category' = category \/ (category' \in Categories /\ at \in {2, 3, 4})
<1>1. PICK c \in Categories \cup {None} : Leave(c) /\ (c # None => at \in {2, 3, 4})
  <2>1. CASE Plan \/ Write
    BY <2>1 DEF Plan, Write
  <2>2. CASE ResearchWide
    BY <2>2, NodeAt DEF ResearchWide, Categories, IInv, TypeOK
  <2>3. CASE ResearchDeep
    BY <2>3, NodeAt DEF ResearchDeep, IInv, TypeOK
  <2>4. CASE Synthesize
    BY <2>4, NodeAt DEF Synthesize, IInv, TypeOK
  <2> QED
    BY <2>1, <2>2, <2>3, <2>4
<1>2. pc = "inside" /\ at \in DOMAIN Nodes /\ at \in 1..5
  BY NodeAt DEF Plan, ResearchWide, ResearchDeep, Synthesize, Write, Inside, IInv, TypeOK
<1>3. Follow /\ UNCHANGED <<status, stage>> /\ category' = IF c = None THEN category ELSE c
  BY <1>1 DEF Leave, NoteCategory
<1> QED
  BY <1>1, <1>2, <1>3, FollowTo

LEMMA StampedStep == ASSUME IInv, Stamped, [Next]_vars PROVE Stamped'
<1>1. CASE LoadRouting \/ LoadPrompt \/ Raise \/ Die \/ Fail \/ Succeed
  <2>1. /\ UNCHANGED <<at, stage>>
        /\ pc' \in {"raised", "dead", "failed", "succeeded"} \/ pc' = pc
           \/ (pc = "routing" /\ pc' = "prompts")
    BY <1>1 DEF LoadRouting, LoadPrompt, Raise, Die, Fail, Succeed, row
  <2> QED
    BY <2>1 DEF Stamped
<1>2. CASE Compiled
  BY <1>2 DEF Compiled, Stamped, row
<1>3. CASE EnterNode
  BY <1>3 DEF EnterNode, Stamped
<1>4. CASE Plan \/ ResearchWide \/ ResearchDeep \/ Synthesize \/ Write
  <2>1. /\ pc = "inside" /\ at \in 1..5
        /\ IF at < 5 THEN pc' = "enter" /\ at' = at + 1 ELSE pc' = "closing"
        /\ stage' = stage
    BY <1>4, Leaving
  <2>2. stage = Stages[at]
    BY <2>1 DEF Stamped
  <2> QED
    BY <2>1, <2>2 DEF Stamped
<1>5. CASE DeepCommits \/ OtherRunWrites \/ UNCHANGED vars
  <2>1. UNCHANGED <<pc, at, stage>>
    BY <1>5 DEF DeepCommits, OtherRunWrites, vars, row
  <2> QED
    BY <2>1 DEF Stamped
<1> QED
  BY <1>1, <1>2, <1>3, <1>4, <1>5 DEF Next, Step, Done

\* What RunLifecycle sees.
LEMMA QuietMaps ==
  ASSUME Place(pc') = Place(pc), UNCHANGED <<status, stage, category>>
  PROVE  UNCHANGED Lifecycle!vars
BY DEF Lifecycle!vars, Lifecycle!procVars, Lifecycle!rowVars, Position

LEMMA EnterMaps ==
  ASSUME IInv, Stamped, EnterNode
  PROVE  Lifecycle!Next
<1>1. /\ Place(pc) = "graph" /\ Place(pc') = "node" /\ status' = "RUNNING"
      /\ stage' = Stages[at] /\ category' = category
  BY DEF EnterNode, Place
<1>2. at \in 1..5
  BY NodeAt DEF IInv, TypeOK
<1>3. Position(stage) + 1 = at
  <2>1. IF at = 1 THEN stage = None ELSE stage = Stages[at - 1]
    BY DEF EnterNode, Stamped
  <2> QED
    BY <1>2, <2>1, Positions
<1>4. Position(stage') = at
  BY <1>1, <1>2, Positions
<1>5. Lifecycle!EnterNode("run")
  BY <1>1, <1>2, <1>3, <1>4, Single
     DEF Lifecycle!EnterNode, Lifecycle!UpdateStage, Lifecycle!Goto, Lifecycle!Nodes
<1> QED
  BY <1>5, Single DEF Lifecycle!Next, Lifecycle!Step

LEMMA LeaveMaps ==
  ASSUME IInv, Stamped, Plan \/ ResearchWide \/ ResearchDeep \/ Synthesize \/ Write
  PROVE  Lifecycle!Next
<1>1. /\ pc = "inside" /\ at \in 1..5 /\ pc' \in {"enter", "closing"}
      /\ UNCHANGED <<status, stage>>
      /\ category' = category \/ (category' \in Categories /\ at \in {2, 3, 4})
  BY Leaving
<1>2. Place(pc) = "node" /\ Place(pc') = "graph"
  BY <1>1 DEF Place
<1>3. Position(stage) = at
  BY <1>1, Positions DEF Stamped
<1>4. Lifecycle!LeaveNode("run")
  BY <1>1, <1>2, <1>3, Single DEF Lifecycle!LeaveNode, Lifecycle!Goto, Lifecycle!Noting
<1> QED
  BY <1>4, Single DEF Lifecycle!Next, Lifecycle!Step

LEMMA RaiseMaps ==
  ASSUME pc \in {"routing", "prompts", "enter", "inside"}, pc' = "raised",
         UNCHANGED <<status, stage, category>>
  PROVE  Lifecycle!Next
<1>1. Place(pc) \in {"graph", "node"} /\ Place(pc') = "raised"
  BY DEF Place
<1>2. Lifecycle!Raise("run")
  BY <1>1, Single DEF Lifecycle!Raise, Lifecycle!Goto, Lifecycle!rowVars
<1> QED
  BY <1>2, Single DEF Lifecycle!Next, Lifecycle!Step

LEMMA CloseMaps ==
  ASSUME TypeOK, Stamped, Fail \/ Succeed \/ Die
  PROVE  Lifecycle!Next
<1>1. CASE Fail
  <2>1. Place(pc) = "raised" /\ Place(pc') = "reportFailed"
    BY <1>1 DEF Fail, Place
  <2>2. status' = "FAILED" /\ category' = "schema_invalid" /\ stage' = stage
    BY <1>1 DEF Fail, FailCategory
  <2>3. Lifecycle!Fail("run")
    BY <2>1, <2>2, Single DEF Lifecycle!Fail, Lifecycle!Goto
  <2> QED
    BY <2>3, Single DEF Lifecycle!Next, Lifecycle!Step
<1>2. CASE Succeed
  <2>1. Place(pc) = "graph" /\ Place(pc') = "reportOk"
    BY <1>2 DEF Succeed, Place
  <2>2. status' = "SUCCEEDED" /\ UNCHANGED <<stage, category>>
    BY <1>2 DEF Succeed
  <2>3. Position(stage) = 5
    BY <1>2, Positions DEF Succeed, Stamped
  <2>4. Lifecycle!Succeed("run")
    BY <2>1, <2>2, <2>3, Single DEF Lifecycle!Succeed, Lifecycle!Goto
  <2> QED
    BY <2>4, Single DEF Lifecycle!Next, Lifecycle!Step
<1>3. CASE Die
  <2>1. Place(pc') = "crashed" /\ UNCHANGED <<status, stage, category>>
    BY <1>3 DEF Die, Place, row
  <2>2. Place(pc) \notin {"exited", "crashed"}
    <3>1. pc \in {"routing", "prompts", "enter", "inside", "raised", "closing"}
      BY <1>3 DEF Die, TypeOK
    <3> QED
      BY <3>1 DEF Place
  <2>3. Lifecycle!Crash("run")
    BY <2>1, <2>2, Single DEF Lifecycle!Crash, Lifecycle!Goto, Lifecycle!Ended, Lifecycle!rowVars
  <2> QED
    BY <2>3, Single DEF Lifecycle!Next
<1> QED
  BY <1>1, <1>2, <1>3

\* The pipeline is RunLifecycle's invocation seen from the inside: what RunLifecycle
\* lets an invocation do between the commit of its row and the end is no less than
\* what the set-up, the nodes and the closing of the row can come to.
THEOREM ImplementsTheLifecycle == Spec => ImplementsLifecycle
<1>1. Init => /\ Stamped
              /\ stage = None /\ category = None /\ status = "PENDING" /\ Place(pc) = "graph"
  BY DEF Init, Stamped, Place
<1>2. IInv /\ Stamped /\ [Next]_vars => Stamped'
  BY StampedStep
<1>3. IInv /\ Stamped /\ [Next]_vars => [Lifecycle!Next]_(Lifecycle!vars)
  <2> SUFFICES ASSUME IInv, Stamped, [Next]_vars
               PROVE  Lifecycle!Next \/ UNCHANGED Lifecycle!vars
    OBVIOUS
  <2>1. CASE LoadRouting \/ LoadPrompt
    <3>1. /\ UNCHANGED <<status, stage, category>> /\ pc \in {"routing", "prompts"}
          /\ pc' \in {"routing", "prompts", "raised"}
      BY <2>1 DEF LoadRouting, LoadPrompt, row
    <3>2. CASE pc' = "raised"
      BY <3>1, <3>2, RaiseMaps
    <3>3. CASE pc' # "raised"
      <4>1. Place(pc') = Place(pc)
        BY <3>1, <3>3 DEF Place
      <4> QED
        BY <3>1, <4>1, QuietMaps
    <3> QED
      BY <3>2, <3>3
  <2>2. CASE Raise
    BY <2>2, RaiseMaps DEF Raise, row
  <2>3. CASE Compiled \/ DeepCommits \/ OtherRunWrites \/ UNCHANGED vars
    <3>1. UNCHANGED <<status, stage, category>> /\ Place(pc') = Place(pc)
      BY <2>3 DEF Compiled, DeepCommits, OtherRunWrites, vars, row, Place
    <3> QED
      BY <3>1, QuietMaps
  <2> QED
    BY <2>1, <2>2, <2>3, EnterMaps, LeaveMaps, CloseMaps DEF IInv, Next, Step, Done
<1> QED
  BY <1>1, <1>2, <1>3, Inductive, PTL DEF Spec, ImplementsLifecycle
=============================================================================
