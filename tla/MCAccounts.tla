----------------------------- MODULE MCAccounts -----------------------------
(***************************************************************************)
(* Model-checking parameters of Accounts.                                  *)
(***************************************************************************)
EXTENDS Accounts, TLC

CONSTANTS u1, u2, r1, r2, e1, e2, p1

\* r1 works on u1; r2 redeems links beside it and registers u2, with an
\* address u1 may change to.
AccountsCalls ==
    ({r1} \X {"listen", "email_verify", "email_change", "password_reset",
              "profile", "password", "redeem", "remove"} \X {u1})
    \cup {<<r2, "redeem", u1>>}
AccountsForms == {<<r1, u1, e1, p1>>, <<r2, u2, e2, p1>>}

\* The tokens are all there is left to permute.
Symmetry == Permutations(Token)
=============================================================================
