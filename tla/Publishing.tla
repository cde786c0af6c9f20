----------------------------- MODULE Publishing -----------------------------
(***************************************************************************)
(* The portfolio editor and the publish pipeline of                        *)
(* src/src/modules/portfolios/portfolios.service.ts, with the writers of   *)
(* the tenant row they share it with (tenants.service.ts setSubdomain,     *)
(* domains.service.ts unbind and bindDomainToTenant).                      *)
(*                                                                         *)
(* Every handler first loads rows (resolve), computes on the loaded        *)
(* objects and then saves them; no transaction spans two statements, and   *)
(* save writes the whole loaded row over the stored one.  An action is one *)
(* statement with the synchronous code after it.  A section body is a      *)
(* member of Body; zod parsing maps every body an editor can store to      *)
(* itself.  A subdomain or custom domain is a member of Sub or Dom.        *)
(***************************************************************************)
EXTENDS FiniteSets

CONSTANTS
    Tenant,     \* tenants; each has one owner and at most one portfolio
    Section,    \* section kinds
    Body,       \* section bodies
    Sub, Dom,   \* subdomains and custom domains
    Req,        \* slots for handlers in flight
    Ops,        \* bound: the operations invoked, with the tenant of each
    None        \* SQL NULL / no row / no section

Sections == [Section -> Body \cup {None}]     \* a draft or a snapshot
PortfolioRow == [draft : Sections, published : Sections \cup {None}, enabled : SUBSET Section]

ASSUME PublishingAssumption ==
    /\ None \notin Body \cup Sub \cup Dom
    /\ None \notin PortfolioRow
    /\ Sub \cap Dom = {}
    /\ Req \cap Tenant = {}
    /\ Ops \subseteq Tenant \X {"read", "settings", "upsert", "delete", "restore",
                               "publish", "unpublish", "subdomain", "domain"}

VARIABLES
    portfolio,  \* table `portfolios`, by tenant_id (unique); None: no row yet
    tenant,     \* table `tenants`
    revisions,  \* table `portfolio_revisions`: snapshots, by tenant
    req         \* handlers in flight

\* History, read by the properties and by nothing else.
VARIABLES
    torn,       \* snapshots of publishes that died before their revision
    dirty       \* handlers that overlapped a publish, and tenants they wrote

pubVars == <<portfolio, tenant, revisions, req, torn, dirty>>

-----------------------------------------------------------------------------
TenantRow == [sub : Sub, dom : Dom \cup {None}, status : {"draft", "published", "archived"}]

Editors == {"settings", "upsert", "delete", "restore"}
Publishers == {"publish", "unpublish"}
Kind == Editors \cup Publishers \cup {"read"}

Handler ==
         [pc : {"idle"}]
    \cup [pc : {"load", "create"}, kind : Kind, t : Tenant, ten : TenantRow]
    \cup [pc : {"saveDraft"}, t : Tenant, port : PortfolioRow]
    \cup [pc : {"savePublished"}, t : Tenant, ten : TenantRow, port : PortfolioRow]
    \cup [pc : {"insertRevision"}, t : Tenant, ten : TenantRow, snapshot : Sections]
    \cup [pc : {"probe", "saveKeys", "saveStatus"}, t : Tenant, ten : TenantRow]

Idle == [pc |-> "idle"]
\* h publishes or unpublishes.
IsPublisher(h) ==
    \/ h.pc \in {"load", "create"} /\ h.kind \in Publishers
    \/ h.pc \in {"savePublished", "insertRevision", "saveStatus"}
On(t) == {q \in Req : req[q] # Idle /\ req[q].t = t}
Goto(r, h) == req' = [req EXCEPT ![r] = h]

\* The row resolve creates on first access.
Blank == [draft |-> [s \in Section |-> None], published |-> None, enabled |-> {}]

\* Every tenant exists, with its generated subdomain; portfolios do not yet.
Init ==
    /\ portfolio = [t \in Tenant |-> None]
    /\ tenant \in {f \in [Tenant -> [sub : Sub, dom : {None}, status : {"draft"}]] :
                     \A t, u \in Tenant : f[t].sub = f[u].sub => t = u}
    /\ revisions = [t \in Tenant |-> {}]
    /\ req = [r \in Req |-> Idle]
    /\ torn = [t \in Tenant |-> {}]
    /\ dirty = {}

-----------------------------------------------------------------------------
\* A handler starts with the local state h.  If it or another one at work on
\* the same tenant publishes or unpublishes, both are dirty from now on.
Start(r, h) ==
    LET rivals == {q \in On(h.t) : IsPublisher(h) \/ IsPublisher(req[q])} IN
    /\ req[r] = Idle
    /\ Goto(r, h)
    /\ dirty' = IF rivals = {} THEN dirty ELSE dirty \cup rivals \cup {r}

\* Handler r ends after its last statement, or early.
End(r) ==
    /\ Goto(r, Idle)
    /\ dirty' = dirty \ {r}

\* What a dirty handler writes is dirty.
Soil(r, t) == IF r \in dirty THEN dirty \cup {t} ELSE dirty

\* The unique constraints on tenants.subdomain and tenants.custom_domain.
KeysFree(t, ten) ==
    \A u \in Tenant \ {t} :
        /\ tenant[u].sub # ten.sub
        /\ ten.dom # None => tenant[u].dom # ten.dom

-----------------------------------------------------------------------------
(***************************************************************************)
(* resolve, and what each operation does with the rows it returns          *)
(***************************************************************************)

\* resolve: tenants.findOne({ownerId}).
ResolveTenant(r, t, kind) ==
    /\ Start(r, [pc |-> "load", kind |-> kind, t |-> t, ten |-> tenant[t]])
    /\ UNCHANGED <<portfolio, tenant, revisions, torn>>

\* Mutation: deleting a section sets the whole draft column to null.
EditsDropDraft(kind, t, row) ==
    IF kind = "delete" THEN {[row EXCEPT !.draft = None]} ELSE {row}

\* The loaded row as the operation will save it; more than one outcome where
\* the client's input decides.
Edits(kind, t, row) ==
    CASE kind = "settings" -> {[row EXCEPT !.enabled = S] : S \in SUBSET Section}
      [] kind = "upsert"   -> {[row EXCEPT !.draft[s] = b] : s \in Section, b \in Body}
      [] kind = "delete"   -> {[row EXCEPT !.draft[s] = None] : s \in Section}
      [] kind = "restore"  -> {[row EXCEPT !.draft = v] : v \in revisions[t]}

\* publish refuses a draft that lacks an enabled section.
Complete(row) == \A s \in row.enabled : row.draft[s] # None

\* The operation goes on with the portfolio row resolve returned, as far as
\* its first save - or ends there with an error.
Proceed(r, row) ==
    LET h == req[r] IN
    \/ /\ h.kind = "read"                            \* getForUser, listRevisions
       /\ End(r)
    \/ /\ h.kind \in Editors
       /\ \E new \in Edits(h.kind, h.t, row) :
            Goto(r, [pc |-> "saveDraft", t |-> h.t, port |-> new])
       /\ UNCHANGED dirty
    \/ /\ h.kind = "restore"
       /\ End(r)                                    \* 404 revision_not_found
    \/ /\ h.kind = "publish"
       /\ IF Complete(row)
          THEN /\ Goto(r, [pc |-> "savePublished", t |-> h.t, ten |-> h.ten,
                           port |-> [row EXCEPT !.published = row.draft]])
               /\ UNCHANGED dirty
          ELSE End(r)                               \* 422 section_missing
    \/ /\ h.kind = "unpublish"
       /\ Goto(r, [pc |-> "savePublished", t |-> h.t, ten |-> h.ten,
                   port |-> [row EXCEPT !.published = None]])
       /\ UNCHANGED dirty

\* resolve: portfolios.findOne({tenantId}).
ResolvePortfolio(r) ==
    /\ req[r].pc = "load"
    /\ IF portfolio[req[r].t] = None
       THEN Goto(r, [req[r] EXCEPT !.pc = "create"]) /\ UNCHANGED dirty
       ELSE Proceed(r, portfolio[req[r].t])
    /\ UNCHANGED <<portfolio, tenant, revisions, torn>>

\* uq_portfolios_tenant: a tenant has one portfolio.
PortfolioFree(t) == portfolio[t] = None

\* resolve: save of the blank row, refused if another handler was faster.
CreatePortfolio(r) ==
    LET t == req[r].t IN
    /\ req[r].pc = "create"
    /\ IF PortfolioFree(t)
       THEN portfolio' = [portfolio EXCEPT ![t] = Blank] /\ Proceed(r, Blank)
       ELSE UNCHANGED portfolio /\ End(r)
    /\ UNCHANGED <<tenant, revisions, torn>>

-----------------------------------------------------------------------------
(***************************************************************************)
(* The saves                                                               *)
(***************************************************************************)

\* updateSettings, upsertSection, deleteSection, restoreRevision: the save.
SaveDraft(r) ==
    /\ req[r].pc = "saveDraft"
    /\ portfolio' = [portfolio EXCEPT ![req[r].t] = req[r].port]
    /\ Goto(r, Idle)
    /\ dirty' = Soil(r, req[r].t) \ {r}
    /\ UNCHANGED <<tenant, revisions, torn>>

\* Mutation: unpublish does not touch the status.
SavePublishedNoArchive(r) ==
    LET h == req[r] IN
    /\ h.pc = "savePublished"
    /\ portfolio' = [portfolio EXCEPT ![h.t] = h.port]
    /\ Goto(r, IF h.port.published # None
               THEN [pc |-> "insertRevision", t |-> h.t, ten |-> h.ten,
                     snapshot |-> h.port.published]
               ELSE [pc |-> "saveStatus", t |-> h.t, ten |-> h.ten])
    /\ dirty' = Soil(r, h.t)
    /\ UNCHANGED <<tenant, revisions, torn>>

\* publish and unpublish: portfolios.save(portfolio).  The status is set on
\* the tenant row loaded at the start, right before that row is saved.
SavePublished(r) ==
    LET h == req[r] IN
    /\ h.pc = "savePublished"
    /\ portfolio' = [portfolio EXCEPT ![h.t] = h.port]
    /\ Goto(r, IF h.port.published # None
               THEN [pc |-> "insertRevision", t |-> h.t, ten |-> h.ten,
                     snapshot |-> h.port.published]
               ELSE [pc |-> "saveStatus", t |-> h.t,
                     ten |-> [h.ten EXCEPT !.status = "archived"]])
    /\ dirty' = Soil(r, h.t)
    /\ UNCHANGED <<tenant, revisions, torn>>

\* Mutation: the revision is taken from the draft as stored by now.
InsertRevisionOfDraft(r) ==
    LET h == req[r] IN
    /\ h.pc = "insertRevision"
    /\ revisions' = [revisions EXCEPT ![h.t] = @ \cup {portfolio[h.t].draft}]
    /\ Goto(r, [pc |-> "saveStatus", t |-> h.t,
                ten |-> [h.ten EXCEPT !.status = "published"]])
    /\ UNCHANGED <<portfolio, tenant, torn, dirty>>

\* publish: revisions.save(revision).
InsertRevision(r) ==
    LET h == req[r] IN
    /\ h.pc = "insertRevision"
    /\ revisions' = [revisions EXCEPT ![h.t] = @ \cup {h.snapshot}]
    /\ Goto(r, [pc |-> "saveStatus", t |-> h.t,
                ten |-> [h.ten EXCEPT !.status = "published"]])
    /\ UNCHANGED <<portfolio, tenant, torn, dirty>>

\* publish and unpublish: tenants.save(tenant); then the event is emitted.
\* A publish or unpublish that overlapped nothing leaves a clean tenant.
SaveStatus(r) ==
    LET h == req[r] IN
    /\ h.pc = "saveStatus"
    /\ KeysFree(h.t, h.ten)
    /\ tenant' = [tenant EXCEPT ![h.t] = h.ten]
    /\ Goto(r, Idle)
    /\ dirty' = (IF r \in dirty THEN dirty \cup {h.t} ELSE dirty \ {h.t}) \ {r}
    /\ UNCHANGED <<portfolio, revisions, torn>>

-----------------------------------------------------------------------------
(***************************************************************************)
(* The other writers of the tenant row                                     *)
(***************************************************************************)

\* setSubdomain: getOrCreateOwnRow; keeping one's own subdomain is a no-op.
SetSubdomain(r, t, sub) ==
    /\ sub # tenant[t].sub
    /\ Start(r, [pc |-> "probe", t |-> t,
                 ten |-> [tenant[t] EXCEPT !.sub = sub]])
    /\ UNCHANGED <<portfolio, tenant, revisions, torn>>

\* setSubdomain: tenants.exist({subdomain}); taken is a 409.
ProbeSubdomain(r) ==
    /\ req[r].pc = "probe"
    /\ IF \E u \in Tenant : tenant[u].sub = req[r].ten.sub
       THEN End(r)
       ELSE Goto(r, [req[r] EXCEPT !.pc = "saveKeys"]) /\ UNCHANGED dirty
    /\ UNCHANGED <<portfolio, tenant, revisions, torn>>

\* unbind (dom = None) and bindDomainToTenant: the row as loaded, with the
\* custom domain replaced; unchanged is a no-op.
SetCustomDomain(r, t, dom) ==
    /\ dom # tenant[t].dom
    /\ Start(r, [pc |-> "saveKeys", t |-> t,
                 ten |-> [tenant[t] EXCEPT !.dom = dom]])
    /\ UNCHANGED <<portfolio, tenant, revisions, torn>>

\* setSubdomain, unbind, bindDomainToTenant: tenants.save(tenant).
SaveKeys(r) ==
    LET h == req[r] IN
    /\ h.pc = "saveKeys"
    /\ KeysFree(h.t, h.ten)
    /\ tenant' = [tenant EXCEPT ![h.t] = h.ten]
    /\ Goto(r, Idle)
    /\ dirty' = Soil(r, h.t) \ {r}
    /\ UNCHANGED <<portfolio, revisions, torn>>

\* tenants.save runs into a unique constraint: 409, or a 500 out of publish,
\* whose earlier saves stay.
SaveRefused(r) ==
    /\ req[r].pc \in {"saveStatus", "saveKeys"}
    /\ ~KeysFree(req[r].t, req[r].ten)
    /\ Goto(r, Idle)
    /\ dirty' = Soil(r, req[r].t) \ {r}
    /\ UNCHANGED <<portfolio, tenant, revisions, torn>>

-----------------------------------------------------------------------------
\* The handler's statement fails or the process dies: what it saved stays.
Abort(r) ==
    LET h == req[r] IN
    /\ h # Idle
    /\ Goto(r, Idle)
    /\ torn' = IF h.pc = "insertRevision"
               THEN [torn EXCEPT ![h.t] = @ \cup {h.snapshot}] ELSE torn
    /\ dirty' = (IF h.pc \in {"insertRevision", "saveStatus"} THEN dirty \cup {h.t}
                 ELSE dirty) \ {r}
    /\ UNCHANGED <<portfolio, tenant, revisions>>

\* One of the operations ops is invoked.
Arrive(r, ops) ==
    \E t \in Tenant :
        \/ \E kind \in Kind : <<t, kind>> \in ops /\ ResolveTenant(r, t, kind)
        \/ <<t, "subdomain">> \in ops /\ \E sub \in Sub : SetSubdomain(r, t, sub)
        \/ <<t, "domain">> \in ops /\ \E dom \in Dom \cup {None} : SetCustomDomain(r, t, dom)

\* The steps of a handler in flight but the one that ends in an event.
Continue(r) ==
    \/ ResolvePortfolio(r)
    \/ CreatePortfolio(r)
    \/ SaveDraft(r)
    \/ SavePublished(r)
    \/ InsertRevision(r)
    \/ ProbeSubdomain(r)
    \/ SaveKeys(r)
    \/ SaveRefused(r)

Next == \E r \in Req : Arrive(r, Ops) \/ Continue(r) \/ SaveStatus(r) \/ Abort(r)

Spec == Init /\ [][Next]_pubVars

-----------------------------------------------------------------------------
(***************************************************************************)
(* Properties                                                              *)
(***************************************************************************)

TypeOK ==
    /\ portfolio \in [Tenant -> PortfolioRow \cup {None}]
    /\ tenant \in [Tenant -> TenantRow]
    /\ revisions \in [Tenant -> SUBSET Sections]
    /\ req \in [Req -> Handler]
    /\ torn \in [Tenant -> SUBSET Sections]
    /\ dirty \subseteq Req \cup Tenant

Published(t) == IF portfolio[t] = None THEN None ELSE portfolio[t].published
Publishing(t) == {q \in On(t) : req[q].pc \in {"insertRevision", "saveStatus"}}

\* Whatever is published has its revision - also when a stale save of an
\* editor brings an older published column back - except while the publish
\* that saved it is about to insert it, or died at that point
\* (portfolios.service.ts:132-139).
PublishedHasRevision ==
    \A t \in Tenant : Published(t) # None =>
        \/ Published(t) \in revisions[t] \cup torn[t]
        \/ \E q \in Publishing(t) :
             req[q].pc = "insertRevision" /\ req[q].snapshot = Published(t)

\* The two rows agree on whether the portfolio is online, unless a publish
\* or unpublish is between its saves, died there, or a handler that
\* overlapped one has written since the last that overlapped none
\* (portfolios.service.ts:130-142, 156-161).
StatusAgrees ==
    \A t \in Tenant : t \notin dirty /\ Publishing(t) = {} =>
        (Published(t) # None <=> tenant[t].status = "published")
=============================================================================
