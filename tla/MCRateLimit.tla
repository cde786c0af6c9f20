---------------------------- MODULE MCRateLimit ----------------------------
(***************************************************************************)
(* Model-checking parameters of RateLimit.                                 *)
(***************************************************************************)
EXTENDS RateLimit, TLC

Symmetry == Permutations(Hit)
=============================================================================
