---------------------------- MODULE MCToolGateway ----------------------------
(* Instances of ToolGateway for TLC.                                        *)
EXTENDS ToolGateway, TLC

Symmetry == Permutations(Conns)
=============================================================================
