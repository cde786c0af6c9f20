----------------------------- MODULE MCTenants -----------------------------
(***************************************************************************)
(* Model-checking parameters of Tenants.                                   *)
(***************************************************************************)
EXTENDS Tenants, TLC

CONSTANTS u1, u2, r1, r2

\* Two requests of u1, one of which may be the first; r2 also works for u2,
\* who may take u1's generated name and leaves.
TenantsCalls ==
    ({r1} \X {"get", "choose", "domain", "status"} \X {u1})
    \cup ({r2} \X {"get", "choose"} \X {u1, u2}) \cup {<<r2, "domain", u2>>}
=============================================================================
