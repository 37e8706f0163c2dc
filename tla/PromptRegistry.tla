--------------------------- MODULE PromptRegistry ---------------------------
(***************************************************************************)
(* What PromptRegistry.load (prompts/loader.py) makes of a prompt file.    *)
(*                                                                         *)
(* Data: a body is a sequence of pieces, of which the registry tells apart *)
(* an include <<name>>, a placeholder {name}, a brace that is neither this *)
(* nor escaped, a TODO marker and the words "Citation Rules"; the front    *)
(* matter is what is wrong with it, or "fine".                             *)
(***************************************************************************)
EXTENDS Sequences, SequencesExt

CONSTANTS Shared,    \* the files of shared/, name to body
          Supplied   \* names the nodes pass to format()

FrontFlaws == {"no file", "delimiters", "yaml", "field", "role", "schema", "tools",
               "completion_tools"}

CITATION_EMITTING_ROLES == {"researcher_deep", "synthesizer"}

Piece(kind, name) == [kind |-> kind, name |-> name]

IsInclude(piece) == piece.kind = "include"

\* body.replace: every occurrence of one include.
Substituted(body, include) ==
  FlattenSeq([i \in DOMAIN body |->
    IF body[i] = include THEN Shared[include.name] ELSE <<body[i]>>])

\* The includes are listed once, from the body as it is in the file, and
\* replaced in that order: one that a shared file brings in goes only if the
\* same include comes later in the list.
Expanded(body) == FoldLeft(Substituted, body, SelectSeq(body, IsInclude))

Kinds(body) == {body[i].kind : i \in DOMAIN body}

IncludesExist(body) ==
  \A i \in DOMAIN body : IsInclude(body[i]) => body[i].name \in DOMAIN Shared

\* Mutant: nobody looks for them.
CitesRulesNever(role, body) == TRUE

CitesRules(role, body) == role \in CITATION_EMITTING_ROLES => "rules" \in Kinds(body)

\* No placeholder marker, and no include left.
Finished(body) == {"marker", "include"} \cap Kinds(body) = {}

\* _validate_format_braces
BracesValid(body) == "brace" \notin Kinds(body)

\* PromptRegistry.load returns a template.
Accepted(role, file) ==
  /\ file.front = "fine"
  /\ IncludesExist(file.body)
  /\ LET body == Expanded(file.body) IN
     Finished(body) /\ BracesValid(body) /\ CitesRules(role, body)

\* The template: what its body is made of, and whether format() finds a value for
\* every name in it.
Template(body) ==
  [kinds |-> Kinds(body),
   renders |-> \A i \in DOMAIN body : body[i].kind = "placeholder" => body[i].name \in Supplied]
=============================================================================
