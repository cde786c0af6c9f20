---------------------------- MODULE MCPublicSite ----------------------------
(***************************************************************************)
(* Model-checking parameters of PublicSite.                                *)
(***************************************************************************)
EXTENDS PublicSite, TLC

CONSTANT t1

\* One portfolio's editor, and its subdomain.
SiteOps == {t1} \X {"upsert", "settings", "publish", "unpublish", "subdomain"}

\* The settings beside the content, and beside the address.
SiteWorkloads ==
    {{t1} \X {"upsert", "publish", "unpublish", "subdomain"},
     {t1} \X {"upsert", "settings", "publish"},
     {t1} \X {"settings", "publish", "subdomain"}}
=============================================================================
