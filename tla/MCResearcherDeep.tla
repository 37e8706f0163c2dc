-------------------------- MODULE MCResearcherDeep --------------------------
(* Instances of ResearcherDeep for TLC.                                    *)
EXTENDS ResearcherDeep
=============================================================================
