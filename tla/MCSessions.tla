----------------------------- MODULE MCSessions -----------------------------
(***************************************************************************)
(* Model-checking parameters of Sessions.                                  *)
(***************************************************************************)
EXTENDS Sessions, TLC

\* The lineage of one user; sessions and handlers are alike.
Symmetry == Permutations(Sid) \cup Permutations(Req)
=============================================================================
