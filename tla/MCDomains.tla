----------------------------- MODULE MCDomains -----------------------------
(***************************************************************************)
(* Model-checking parameters of Domains.                                   *)
(***************************************************************************)
EXTENDS Domains, TLC

CONSTANTS t1, t2, d1, d2, r1, r2

\* Domains.cfg: t1 may exceed its limit of one claim, and unbinds and reloads
\* while its claim is checked; t2, whose claim is made, competes for d1.
DomainsClaim == {<<t1, d1>>, <<t1, d2>>, <<t2, d1>>}
DomainsEarly == {<<t2, d1>>}
DomainsCalls ==
    {<<r1, "request", <<t1, d1>>>>, <<r1, "verify", <<t1, d1>>>>, <<r1, "load", t1>>,
     <<r2, "request", <<t1, d2>>>>, <<r2, "verify", <<t2, d1>>>>, <<r2, "unbind", t1>>}
DomainsAgeing == {<<t1, d1>>}

\* DomainsSettles.cfg: one claim, two jobs of it, an account that may leave;
\* after that nothing happens any more.
OneClaim == {<<t1, d1>>}
SettlesCalls == {r1} \X {"request", "verify"} \X OneClaim
=============================================================================
