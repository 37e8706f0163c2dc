-------------------------------- MODULE Trust --------------------------------
(***************************************************************************)
(* The trust boundary (runtime/trust.py) over sequences of tokens: the     *)
(* characters escaping is about, the names of their entities, and the text *)
(* of the tag.  What surrounds the block and never varies, the             *)
(* evidence_pack and the trust attribute, is left out.                     *)
(***************************************************************************)
EXTENDS Naturals, Sequences, SequencesExt

\* html.escape with quote=False, and with quote=True, a quote being either kind.
BodyEntity == [lt |-> "lt;", gt |-> "gt;", amp |-> "amp;"]
AttrEntity == [lt |-> "lt;", gt |-> "gt;", amp |-> "amp;", quote |-> "quot;"]

\* Mutant: the ampersand is taken for harmless.
EscapeTagsOnly(text, entity) ==
  FlattenSeq([i \in DOMAIN text |->
    IF text[i] \in DOMAIN entity \ {"amp"} THEN <<"amp", entity[text[i]]>> ELSE <<text[i]>>])

\* html.escape
Escape(text, entity) ==
  FlattenSeq([i \in DOMAIN text |->
    IF text[i] \in DOMAIN entity THEN <<"amp", entity[text[i]]>> ELSE <<text[i]>>])

\* html.unescape: one pass over the references.
Unescape(text) ==
  LET names(i) == {c \in DOMAIN AttrEntity : AttrEntity[c] = text[i]}
      refers(i) == i \in 1..(Len(text) - 1) /\ text[i] = "amp" /\ names(i + 1) # {}
  IN FlattenSeq([i \in DOMAIN text |->
       IF refers(i) THEN SetToSeq(names(i + 1))
       ELSE IF refers(i - 1) THEN <<>>
       ELSE <<text[i]>>])

Open == <<"lt", "evidence_id=", "quote">>
Between == <<"quote", "source_tool=", "quote">>
OpenEnd == <<"quote", "gt">>
Close == <<"lt", "/evidence", "gt">>

\* wrap_untrusted
Wrap(content, tool, id) ==
  Open \o Escape(id, AttrEntity) \o Between \o Escape(tool, AttrEntity) \o OpenEnd
    \o Escape(content, BodyEntity) \o Close

Occurs(part, text) ==
  {i \in 1..(Len(text) - Len(part) + 1) : SubSeq(text, i, i + Len(part) - 1) = part}

First(S) == CHOOSE i \in S : \A j \in S : i <= j

\* _EVIDENCE_PATTERN on a text that starts with a block: attributes end at the
\* next quote, the body at the first closing tag.
Block(text) ==
  LET q1 == Len(Open)
      q2 == First({i \in Occurs(<<"quote">>, text) : i > q1})
      q3 == q2 + Len(Between) - 1
      q4 == First({i \in Occurs(<<"quote">>, text) : i > q3})
      from == q4 + Len(OpenEnd)
      to == First({i \in Occurs(Close, text) : i >= from})
  IN [id |-> SubSeq(text, q1 + 1, q2 - 1), body |-> SubSeq(text, from, to - 1),
      end |-> to + Len(Close) - 1]

\* extract_untrusted
Extract(text, id) ==
  IF Unescape(Block(text).id) = id THEN Unescape(Block(text).body) ELSE <<"ValueError">>
=============================================================================
