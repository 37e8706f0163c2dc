------------------------------- MODULE MCTools -------------------------------
(* Instance of Tools for TLC.                                               *)
EXTENDS Tools

SmallTokens == {"lt", "gt", "amp", "quote", "lt;", "amp;", "text"}
AllTokens == SmallTokens \cup {"evidence_id=", "/evidence", "E-wide-S1-T1"}

\* Every content of up to two tokens, a closing tag, and an opening tag in the
\* middle of text.
SmallContents == UNION {[1..n -> SmallTokens] : n \in 0..2}
                 \cup {Close, <<"text">> \o Open \o <<"text">>}

\* A section id of the planner may hold anything too.
SmallTags == {<<"E-wide-S1-T1">>, <<"quote", "gt">>}
=============================================================================
