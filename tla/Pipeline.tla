------------------------------ MODULE Pipeline ------------------------------
(***************************************************************************)
(* One `litweave run` from the row that _cmd_run has created to its exit:  *)
(* build_graph (graph.py) reads the routing table and the prompts, then    *)
(* the five nodes follow one another over the shared graph state, the      *)
(* evidence table and the run row.  Four nodes are what NodeContracts says *)
(* they deliver; the fifth, the stub writer (writing/stub.py), is here.    *)
(*                                                                         *)
(* An extract, and the draft made of it, is whether it reports all that    *)
(* the section wanted as missing, the papers its references are about and  *)
(* the papers its gaps report as dropped.                                  *)
(***************************************************************************)
EXTENDS Naturals, Sequences, NodeContracts, PromptRegistry

CONSTANTS Ids,        \* section ids
          Outlines,   \* outlines a PlannerOutput can hold
          Papers,     \* paper ids
          Web,        \* those with the web: prefix
          AgentRoles, \* roles of the routing table
          Routings,   \* sets of roles a routing table has valid entries for
          Files,      \* what the prompt file of a role can be
          Foreign,    \* evidence of other runs: section and paper
          None

ASSUME PipelineAssumption ==
  /\ Outlines \subseteq Seq(Ids)
  /\ Web \subseteq Papers
  /\ Foreign \subseteq [section : Ids, paper : Papers]
  /\ {"planner", "researcher_wide", "researcher_deep", "synthesizer"} \subseteq AgentRoles
  /\ None \notin {"provider_429", "provider_5xx", "schema_invalid", "context_overflow"}
  /\ None \notin {"planning", "research_wide", "research_deep", "synthesize", "write"}
  /\ None \notin [missing : BOOLEAN, cited : SUBSET Papers, told : SUBSET Papers]

VARIABLES pc,         \* where _cmd_run stands
          at,         \* position of the node in Nodes
          bound,      \* roles with a binding
          templates,  \* loaded prompts
          outline, notes, queue, extracts, drafts,  \* SurveyState
          evidence,   \* evidence_items
          status, stage, category,                  \* the run row
          troubled    \* history: Wide or Deep gave a section up

setup == <<bound, templates>>
state == <<outline, notes, queue, extracts, drafts>>
row   == <<status, stage, category>>
vars  == <<pc, at, setup, state, evidence, row, troubled>>

Nodes == <<"planner", "researcher_wide", "researcher_deep", "synthesize", "write">>
Stages == <<"planning", "research_wide", "research_deep", "synthesize", "write">>

\* The roles whose prompts the node factories load, in that order.
Prompted == <<"planner", "researcher_wide", "researcher_deep", "synthesizer">>

Categories == {"provider_429", "provider_5xx", "schema_invalid", "context_overflow"}

EmptyExtract == [missing |-> TRUE, cited |-> {}, told |-> {}]
BareDraft == [missing |-> FALSE, cited |-> {}, told |-> {}]

Over == {"succeeded", "failed", "dead"}
-----------------------------------------------------------------------------
\* _cmd_run has committed the row.
Init == /\ pc = "routing"
        /\ at = 1
        /\ bound = {}
        /\ templates = [r \in AgentRoles |-> None]
        /\ outline = <<>>
        /\ notes = [s \in Ids |-> {}]
        /\ queue = {}
        /\ extracts = [s \in Ids |-> None]
        /\ drafts = [s \in Ids |-> None]
        /\ evidence = {}
        /\ status = "PENDING" /\ stage = None /\ category = None
        /\ troubled = FALSE

\* load_routing_yaml: a table with an entry missing, unknown or invalid is refused.
LoadRouting == /\ pc = "routing"
               /\ \E entries \in Routings :
                    IF entries = AgentRoles
                    THEN bound' = entries /\ pc' = "prompts"
                    ELSE UNCHANGED bound /\ pc' = "raised"
               /\ UNCHANGED <<at, templates, state, evidence, row, troubled>>

Loaded == {r \in AgentRoles : templates[r] # None}

\* Mutant: the other nodes load their prompts when they run.
ToLoadLazily == {1} \cap {i \in DOMAIN Prompted : Prompted[i] \notin Loaded}

ToLoad == {i \in DOMAIN Prompted : Prompted[i] \notin Loaded}

\* The factory of the next node loads its prompt and looks its binding up.
LoadPrompt == /\ pc = "prompts"
              /\ ToLoad # {}
              /\ LET role == Prompted[CHOOSE i \in ToLoad : \A j \in ToLoad : i <= j] IN
                 \E file \in Files[role] :
                   IF Accepted(role, file) /\ role \in bound
                   THEN /\ templates' = [templates EXCEPT ![role] = Template(Expanded(file.body))]
                        /\ UNCHANGED pc
                   ELSE /\ UNCHANGED templates
                        /\ pc' = "raised"
              /\ UNCHANGED <<at, bound, state, evidence, row, troubled>>

\* g.compile, and graph.invoke.
Compiled == /\ pc = "prompts"
            /\ ToLoad = {}
            /\ pc' = "enter"
            /\ UNCHANGED <<at, setup, state, evidence, row, troubled>>

\* update_stage
EnterNode == /\ pc = "enter"
             /\ status' = "RUNNING"
             /\ stage' = Stages[at]
             /\ pc' = "inside"
             /\ UNCHANGED <<at, setup, state, evidence, category, troubled>>

Inside(node) == pc = "inside" /\ Nodes[at] = node

\* The edges of the graph.
Follow == IF at < Len(Nodes) THEN at' = at + 1 /\ pc' = "enter"
          ELSE UNCHANGED at /\ pc' = "closing"

\* Mutant: the category is written whether or not there is one.
NoteAlways(c) == category' = c

\* note_error_category, if there is something to note.
NoteCategory(c) == category' = IF c = None THEN category ELSE c

Leave(c) == /\ Follow
            /\ NoteCategory(c)
            /\ UNCHANGED <<setup, status, stage>>
-----------------------------------------------------------------------------
Plan == /\ Inside("planner")
        /\ templates["planner"].renders
        /\ outline' \in Outlines
        /\ Leave(None)
        /\ UNCHANGED <<notes, queue, extracts, drafts, evidence, troubled>>

ResearchWide ==
  /\ Inside("researcher_wide")
  /\ templates["researcher_wide"].renders
  /\ \E c \in {"context_overflow", "schema_invalid", None} :
       /\ notes' \in [Ids -> SUBSET Papers]
       /\ queue' \in SUBSET Papers
       /\ WideDelivers(outline, notes', queue', c # None, c, None)
       /\ troubled' = (c # None)
       /\ Leave(c)
  /\ UNCHANGED <<outline, extracts, drafts, evidence>>

\* Mutant: no WHERE on the run.
EvidenceOfAnyRun == evidence

\* EvidenceStore.list_by_section, over the sections.
Evidence == {e \in evidence : e.run = "this"}

RowsOf(run, s, P) == {[run |-> run, section |-> s, paper |-> p] : p \in P}

\* The cards of one section, in a transaction of their own.
DeepCommits ==
  /\ Inside("researcher_deep")
  /\ templates["researcher_deep"].renders
  /\ \E s \in Planned(outline) :
       /\ PapersWithEvidence(Evidence, s) = {}
       /\ \E P \in SUBSET ((notes[s] \cap queue) \ Web) :
            P # {} /\ evidence' = evidence \cup RowsOf("this", s, P)
  /\ UNCHANGED <<pc, at, setup, state, row, troubled>>

ResearchDeep ==
  /\ Inside("researcher_deep")
  /\ \E c \in Categories \cup {None}, t \in BOOLEAN :
       /\ queue' \in SUBSET queue
       /\ DeepDelivers(Planned(outline), notes, queue, Web, Evidence, queue', t, c, None)
       /\ troubled' = (troubled \/ t)
       /\ Leave(c)
  /\ UNCHANGED <<outline, notes, extracts, drafts, evidence>>

\* What an extract of a section with these papers in its evidence can be.
ExtractsOf(P) == {None, EmptyExtract}
                 \cup {[missing |-> FALSE, cited |-> C, told |-> P \ C] : C \in SUBSET P}

Synthesize ==
  /\ Inside("synthesize")
  /\ LET with(s) == PapersWithEvidence(Evidence, s) IN
     /\ (\A s \in Planned(outline) : with(s) = {}) \/ templates["synthesizer"].renders
     /\ \E c \in Categories \cup {None} :
          /\ extracts' \in [Ids -> UNION {ExtractsOf(with(s)) : s \in Ids}]
          /\ \A s \in Ids : IF s \in Planned(outline)
                            THEN SynthDelivers(with(s), extracts'[s], None, c, None)
                            ELSE extracts'[s] = None
          /\ Leave(c)
  /\ UNCHANGED <<outline, notes, queue, drafts, evidence, troubled>>

\* Mutant: sections without an extract are left out.
DraftedWithExtract(s) == IF s \in Planned(outline) THEN extracts[s] ELSE drafts[s]

\* A section without an extract is drafted from empty lists.
Drafted(s) == IF s \notin Planned(outline) THEN drafts[s]
              ELSE IF extracts[s] = None THEN BareDraft
              ELSE extracts[s]

Write == /\ Inside("write")
         /\ drafts' = [s \in Ids |-> Drafted(s)]
         /\ Leave(None)
         /\ UNCHANGED <<outline, notes, queue, extracts, evidence, troubled>>
-----------------------------------------------------------------------------
\* An exception of build_graph or of a node, a prompt that does not render among them.
Raise == /\ pc \in {"routing", "prompts", "enter", "inside"}
         /\ pc' = "raised"
         /\ UNCHANGED <<at, setup, state, evidence, row, troubled>>

FailCategory == "schema_invalid"

Fail == /\ pc = "raised"
        /\ status' = "FAILED"
        /\ category' = FailCategory
        /\ pc' = "failed"
        /\ UNCHANGED <<at, setup, state, evidence, stage, troubled>>

Succeed == /\ pc = "closing"
           /\ status' = "SUCCEEDED"
           /\ pc' = "succeeded"
           /\ UNCHANGED <<at, setup, state, evidence, stage, category, troubled>>

\* The process is killed, or the transaction that closes the row fails.
Die == /\ pc \notin Over
       /\ pc' = "dead"
       /\ UNCHANGED <<at, setup, state, evidence, row, troubled>>

\* Another run commits evidence to the same table.
OtherRunWrites == /\ pc \notin Over
                  /\ \E f \in Foreign :
                       evidence' = evidence \cup RowsOf("other", f.section, {f.paper})
                  /\ evidence' # evidence
                  /\ UNCHANGED <<pc, at, setup, state, row, troubled>>

Step == \/ LoadRouting \/ LoadPrompt \/ Compiled \/ EnterNode
        \/ Plan \/ ResearchWide \/ DeepCommits \/ ResearchDeep \/ Synthesize \/ Write
        \/ Raise \/ Fail \/ Succeed

Done == pc \in Over /\ UNCHANGED vars

Next == Step \/ Die \/ OtherRunWrites \/ Done

Spec == Init /\ [][Next]_vars

-----------------------------------------------------------------------------
Drafts == [missing : BOOLEAN, cited : SUBSET Papers, told : SUBSET Papers]

TypeOK == /\ pc \in {"routing", "prompts", "enter", "inside", "raised", "closing"} \cup Over
          /\ at \in DOMAIN Nodes
          /\ bound \subseteq AgentRoles
          /\ DOMAIN templates = AgentRoles
          /\ outline \in Outlines \cup {<<>>}
          /\ notes \in [Ids -> SUBSET Papers]
          /\ queue \subseteq Papers
          /\ extracts \in [Ids -> Drafts \cup {None}]
          /\ drafts \in [Ids -> Drafts \cup {None}]
          /\ evidence \subseteq [run : {"this", "other"}, section : Ids, paper : Papers]
          /\ status \in {"PENDING", "RUNNING", "SUCCEEDED", "FAILED"}
          /\ stage \in {Stages[i] : i \in DOMAIN Stages} \cup {None}
          /\ category \in Categories \cup {None}
          /\ troubled \in BOOLEAN

\* When the first model is asked, every node to come has its binding and a prompt
\* without includes, markers and stray braces, with the citation rules where
\* claims are made: what can be found wrong before is not found at the fourth node.
SetUpBeforeWork ==
  stage # None => \A i \in DOMAIN Prompted :
    /\ Prompted[i] \in bound \cap Loaded
    /\ templates[Prompted[i]].kinds \cap {"include", "marker", "brace"} = {}
    /\ Prompted[i] \in CITATION_EMITTING_ROLES => "rules" \in templates[Prompted[i]].kinds

\* A draft, and before it an extract, refers to no paper but those this run has
\* evidence on for that very section, which Wide had noted there: whatever other
\* runs write meanwhile, and whatever crash or repeated section id comes between.
DraftsGrounded ==
  \A s \in Ids : \A x \in {extracts[s], drafts[s]} \ {None} :
    \A p \in x.cited \cup x.told : /\ RowsOf("this", s, {p}) \subseteq evidence
                                   /\ p \in notes[s] \ Web
                                   /\ s \in Planned(outline)

\* A run that succeeds has a draft for every planned section, also for those no
\* node had anything to say about, and for no other.  If it has no category, it has
\* given nothing up either: no section was forced out, broken or left without an
\* extract, and every paper with evidence is in the draft of its section, cited or
\* reported as dropped.
SuccessIsComplete ==
  status = "SUCCEEDED" =>
    /\ {s \in Ids : drafts[s] # None} = Planned(outline)
    /\ category = None =>
         /\ ~ troubled
         /\ \A s \in Planned(outline) :
              /\ extracts[s] # None
              /\ drafts[s].cited \cup drafts[s].told = PapersWithEvidence(Evidence, s)
-----------------------------------------------------------------------------
(* RunLifecycle tells of an invocation what a reader of the table can see:   *)
(* from the commit of the row on, this module is that story for one of them. *)
Me == {"run"}

\* The position of a stage, which is that of the node that stamps it.
Position(x) == IF x = None THEN 0 ELSE CHOOSE i \in DOMAIN Stages : Stages[i] = x

Place(l) == CASE l \in {"routing", "prompts", "enter", "closing"} -> "graph"
              [] l = "inside" -> "node"
              [] l = "raised" -> "raised"
              [] l = "succeeded" -> "reportOk"
              [] l = "failed" -> "reportFailed"
              [] l = "dead" -> "crashed"

Lifecycle == INSTANCE RunLifecycle WITH
  Procs <- Me, Keys <- {"key"}, Categories <- Categories,
  NoRun <- "no run", NoCategory <- None,
  key <- [p \in Me |-> "key"], pc <- [p \in Me |-> Place(pc)],
  node <- [p \in Me |-> Position(stage)], surfaced <- [p \in Me |-> "no run"],
  exit <- [p \in Me |-> 99], status <- [p \in Me |-> status],
  stage <- [p \in Me |-> Position(stage)], errcat <- [p \in Me |-> category],
  cancel <- [p \in Me |-> FALSE]

\* What happens in the set-up, between the nodes and inside them comes to the steps
\* RunLifecycle gives an invocation whose row is committed: the nodes are entered
\* one after the other, all of them before the run succeeds, a category comes from
\* a node that notes one and is never taken back, and the row is closed once.
ImplementsLifecycle ==
  /\ stage = None /\ category = None /\ status = "PENDING" /\ Place(pc) = "graph"
  /\ [][Lifecycle!Next]_(Lifecycle!vars)
=============================================================================
