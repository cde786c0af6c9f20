---------------------------- MODULE MCVisitors ----------------------------
(***************************************************************************)
(* Model-checking parameters of Visitors.                                  *)
(***************************************************************************)
EXTENDS Visitors, TLC

CONSTANTS t1, t2, r1, r2

\* t1's inquiry, which r1 submits and reads and r2 deletes.
InquiryCalls == ({r1} \X {"submit", "read"} \X {t1}) \cup {<<r2, "delete", t1>>}
\* Visitors of two tenants.
PageviewCalls == {r1} \X {"pageview"} \X Tenant
VisitorsWorkloads == {InquiryCalls, PageviewCalls}

Symmetry == Permutations(View) \cup Permutations(Visitor)
=============================================================================
