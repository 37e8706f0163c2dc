-------------------------- MODULE MCStructuredCall --------------------------
(* Instance of StructuredCall for TLC.                                      *)
EXTENDS StructuredCall
=============================================================================
