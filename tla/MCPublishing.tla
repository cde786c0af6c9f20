---------------------------- MODULE MCPublishing ----------------------------
(***************************************************************************)
(* Model-checking parameters of Publishing.                                *)
(***************************************************************************)
EXTENDS Publishing, TLC

CONSTANTS t1, t2

\* t1's owner edits and publishes; t2 competes with it for the domain and
\* changes its subdomain.  With no settings no section is enabled, so no
\* publish is refused as incomplete: MCPublicSite has settings.
PublishingOps == ({t1} \X {"read", "upsert", "delete", "restore", "publish",
                            "unpublish", "domain"})
                 \cup ({t2} \X {"subdomain", "domain"})

\* The tenants have different operations, so they are not symmetric.
Symmetry == Permutations(Req) \cup Permutations(Sub)
=============================================================================
