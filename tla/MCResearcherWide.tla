-------------------------- MODULE MCResearcherWide --------------------------
(* Instances of ResearcherWide for TLC.                                    *)
EXTENDS ResearcherWide, TLC

\* No section, one, two different ones, the same one twice.
SmallOutlines == {<<>>, <<"S1">>, <<"S1", "S2">>, <<"S1", "S1">>}
=============================================================================
