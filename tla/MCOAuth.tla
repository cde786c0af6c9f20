------------------------------ MODULE MCOAuth ------------------------------
(***************************************************************************)
(* Model-checking parameters of OAuth.                                     *)
(***************************************************************************)
EXTENDS OAuth, TLC

CONSTANTS u1, i1, i2, e1, e2

\* u1 registered with e1.  i1 reports e1 and later e2, both verified; i2
\* reports e2 verified or not, or no address.
OAuthEarly == {<<u1, e1>>}
OAuthProfiles ==
    {<<i1, e1, TRUE>>, <<i1, e2, TRUE>>,
     <<i2, e2, TRUE>>, <<i2, e2, FALSE>>, <<i2, None, FALSE>>}

Symmetry == Permutations(Req) \cup Permutations(Hop) \cup Permutations(Code)
            \cup Permutations(User \ {u1})
=============================================================================
