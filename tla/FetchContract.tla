---------------------------- MODULE FetchContract ----------------------------
(***************************************************************************)
(* What researcher_deep gets of the two lookups (_fetch_abstract in        *)
(* agents/researcher_deep.py, classify_exception in runtime/errors.py),    *)
(* told by what each of them comes to.  ResearcherDeep takes its abstracts *)
(* through it; Tools shows that requests, retries and parsing keep to it.  *)
(***************************************************************************)
CONSTANTS Web,   \* paper ids with the web: prefix
          Arxiv  \* those with the arxiv: prefix; the others are s2:

\* "absent" is a paper without an abstract, or none; "network" an
\* httpx.RequestError, which classify_exception does not know; "unclassified"
\* any other exception it does not know.
Lookup == {"abstract", "absent", "provider_429", "provider_5xx",
           "schema_invalid", "network", "unclassified"}

\* _is_fallbackable_s2_error
Fallbackable == {"provider_429", "provider_5xx", "network"}

\* _fetch_abstract: the outcome for paper p when s2_lookup gives s2 and
\* arxiv_lookup, if it comes to that, gives ax.
FetchAbstract(p, s2, ax) ==
  IF p \in Web THEN "absent"
  ELSE IF s2 \in Fallbackable /\ p \in Arxiv /\ ax \in {"abstract", "absent"} THEN ax
  ELSE s2

\* Whatever the lookups give.
Fetched(p) == {FetchAbstract(p, s2, ax) : s2 \in Lookup, ax \in Lookup}

\* classify_exception
Classified(outcome) == outcome \in {"provider_429", "provider_5xx", "schema_invalid"}
=============================================================================
