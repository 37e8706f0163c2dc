---------------------------- MODULE MCRateLimiter ----------------------------
(* Instances of RateLimiter for TLC.                                        *)
EXTENDS RateLimiter, TLC

\* All roles are bound to the same provider.
OneProvider == [r \in Roles |-> "v1"]
=============================================================================
