----------------------------- MODULE MCPipeline -----------------------------
(* Instance of Pipeline for TLC.                                            *)
EXTENDS Pipeline, TLC

AllRoles == {"planner", "researcher_wide", "researcher_deep", "synthesizer", "writer"}

\* A complete table, one with a role missing, one with a role too many.
SomeRoutings == {AllRoles, AllRoles \ {"writer"}, AllRoles \cup {"reviewer"}}

Include(name) == Piece("include", name)
Rules == Piece("rules", "")
Topic == Piece("placeholder", "topic")

\* A shared file that brings in another.
SharedFiles == [citation_rules |-> <<Rules>>,
                nested |-> <<Include("citation_rules")>>]

\* For every role; with the citation rules, resolved or not; and without them.
Flawed(body) == {body \o <<p>> : p \in {Piece("marker", "TODO"), Piece("brace", ""),
                                        Include("absent"), Piece("placeholder", "topci")}}

PlainBodies == {<<Topic>>} \cup Flawed(<<Topic>>)
CitingBodies == {<<Topic, Include("citation_rules")>>,
                 <<Include("nested"), Include("citation_rules"), Topic>>,
                 <<Include("citation_rules"), Include("nested"), Topic>>}
                \cup Flawed(<<Topic, Rules>>)

SomeFiles ==
  [r \in AllRoles |->
     [front : {"fine"}, body : IF r \in CITATION_EMITTING_ROLES
                               THEN PlainBodies \cup CitingBodies ELSE PlainBodies]
     \cup [front : FrontFlaws, body : {<<Topic, Rules>>}]]

\* Ids that come twice: with distinct ones Wide promises more, and nothing else
\* changes.
SomeOutlines == {<<"S1", "S2", "S1">>, <<"S1", "S1", "S1">>}

\* Evidence of another run, in a section of the same id.
SomeForeign == {[section |-> "S1", paper |-> "p"]}
=============================================================================
