----------------------------- MODULE PublicSite -----------------------------
(***************************************************************************)
(* What a visitor of a portfolio is served: resolveConfig of               *)
(* src/src/modules/public/public.service.ts over the Redis cache of        *)
(* config-cache.service.ts, composed with the publish pipeline, whose last *)
(* step emits the event that deletes the cached entries.                   *)
(*                                                                         *)
(* The event bus calls its listeners and does not await them, so the DEL   *)
(* runs some time after the publish has answered, and an error in it is    *)
(* only logged.  A hostname is the subdomain or custom domain it resolves  *)
(* to; the cache key of a host is the host.                                *)
(***************************************************************************)
EXTENDS Publishing, Naturals

CONSTANTS
    Fill,           \* slots for resolveConfig calls in flight
    MaxDeletions,   \* bound: listener calls in flight
    Workloads       \* bound: sets of operations, of which a behaviour invokes those of one

Host == Sub \cup Dom

ASSUME PublicSiteAssumption ==
    /\ Fill \cap Host = {}
    /\ MaxDeletions \in Nat
    /\ Workloads \subseteq SUBSET Ops

VARIABLES
    cache,          \* Redis: the config stored for a host, None if there is none
    fill,           \* resolveConfig calls in flight
    deletions,      \* listener calls in flight: the keys each will delete
    workload        \* the operations invoked

\* History.
VARIABLES
    raced,          \* fills during which their tenant's row or site was written
    excused         \* hosts whose entry no event of its tenant could clean up

siteVars == <<cache, fill, deletions, workload, raced, excused>>
allVars == <<portfolio, tenant, revisions, req, torn, dirty,
             cache, fill, deletions, workload, raced, excused>>

-----------------------------------------------------------------------------
Config == [t : Tenant, published : Sections, enabled : SUBSET Section]

Filling ==
         [pc : {"idle"}]
    \cup [pc : {"missed"}, host : Host]
    \cup [pc : {"found"}, host : Host, t : Tenant]
    \cup [pc : {"store"}, host : Host, config : Config]

\* Mutation: the key of a missing custom domain is deleted too.
HostsOfUnchecked(ten) == {ten.sub, ten.dom}

\* The hosts under which a tenant row is found, hence the keys of its event.
HostsOf(ten) == {ten.sub, ten.dom} \ {None}

\* findTenantByHost: by subdomain or by custom domain.
FoundAt(host) == {t \in Tenant : host \in HostsOf(tenant[t])}

\* Mutation: the draft is served.
ConfigOfDraft(t) == [t |-> t, published |-> portfolio[t].draft, enabled |-> portfolio[t].enabled]

\* The parts of PublicPortfolioConfig the model keeps: whose site, which
\* sections, and the enabled ones that stand for the unannounced settings.
ConfigOf(t) == [t |-> t, published |-> portfolio[t].published, enabled |-> portfolio[t].enabled]

InitSite ==
    /\ Init
    /\ cache = [h \in Host |-> None]
    /\ fill = [f \in Fill |-> Idle]
    /\ deletions = {}
    /\ workload \in Workloads
    /\ raced = {}
    /\ excused = {}

-----------------------------------------------------------------------------
\* resolveConfig: cache.get misses.  A hit is served as it is.
FillMiss(f, host) ==
    /\ fill[f] = Idle
    /\ cache[host] = None
    /\ fill' = [fill EXCEPT ![f] = [pc |-> "missed", host |-> host]]
    /\ UNCHANGED <<cache, deletions, raced, excused, pubVars, workload>>

\* resolveConfig: findTenantByHost; an unknown host is a 404.
FillTenant(f) ==
    LET host == fill[f].host IN
    /\ fill[f].pc = "missed"
    /\ \/ \E t \in FoundAt(host) :
            fill' = [fill EXCEPT ![f] = [pc |-> "found", host |-> host, t |-> t]]
       \/ FoundAt(host) = {} /\ fill' = [fill EXCEPT ![f] = Idle]
    /\ UNCHANGED <<cache, deletions, raced, excused, pubVars, workload>>

\* resolveConfig: portfolios.findOne; nothing published is a 404.  The owner's
\* name and picture are read next and are not modelled.
FillPortfolio(f) ==
    LET t == fill[f].t IN
    /\ fill[f].pc = "found"
    /\ fill' = [fill EXCEPT ![f] =
                  IF Published(t) = None THEN Idle
                  ELSE [pc |-> "store", host |-> fill[f].host, config |-> ConfigOf(t)]]
    /\ raced' = IF Published(t) = None THEN raced \ {f} ELSE raced
    /\ UNCHANGED <<cache, deletions, excused, pubVars, workload>>

\* resolveConfig: cache.set(host, config, 60 s); the config is served.
FillStore(f) ==
    LET h == fill[f] IN
    /\ h.pc = "store"
    /\ cache' = [cache EXCEPT ![h.host] = h.config]
    /\ fill' = [fill EXCEPT ![f] = Idle]
    /\ excused' = IF f \in raced THEN excused \cup {h.host} ELSE excused \ {h.host}
    /\ raced' = raced \ {f}
    /\ UNCHANGED <<deletions, pubVars, workload>>

\* The call fails or the process dies.
FillAbort(f) ==
    /\ fill[f] # Idle
    /\ fill' = [fill EXCEPT ![f] = Idle]
    /\ raced' = raced \ {f}
    /\ UNCHANGED <<cache, deletions, excused, pubVars, workload>>

\* Mutation: SET without EX.
ExpireEntryNever(host) ==
    /\ cache[host] # None /\ cache[host] = None
    /\ UNCHANGED allVars

\* An entry's 60 seconds are over.
ExpireEntry(host) ==
    /\ cache[host] # None
    /\ cache' = [cache EXCEPT ![host] = None]
    /\ excused' = excused \ {host}
    /\ UNCHANGED <<fill, deletions, raced, pubVars, workload>>

\* The listener's DEL of all its keys.
Invalidate(keys) ==
    /\ keys \in deletions
    /\ cache' = [h \in Host |-> IF h \in keys THEN None ELSE cache[h]]
    /\ deletions' = deletions \ {keys}
    /\ excused' = excused \ keys
    /\ UNCHANGED <<fill, raced, pubVars, workload>>

\* The DEL fails - the bus logs it - or the process dies before it.
LoseInvalidation(keys) ==
    /\ keys \in deletions
    /\ deletions' = deletions \ {keys}
    /\ excused' = excused \cup keys
    /\ UNCHANGED <<cache, fill, raced, pubVars, workload>>

-----------------------------------------------------------------------------
\* The fills in flight that have a tenant in hand whose published site or
\* addresses change in this step.
Overtaken ==
    LET touched == {t \in Tenant : Published(t)' # Published(t)
                                   \/ HostsOf(tenant'[t]) # HostsOf(tenant[t])}
    IN {f \in Fill : \/ fill[f].pc = "found" /\ fill[f].t \in touched
                     \/ fill[f].pc = "store" /\ fill[f].config.t \in touched}

\* Hosts a tenant gives up in this step: its later events do not name them.
GivenUp == UNION {HostsOf(tenant[t]) \ HostsOf(tenant'[t]) : t \in Tenant}

PublishingHistory ==
    /\ raced' = raced \cup Overtaken
    /\ excused' = excused \cup GivenUp

\* Mutation: nobody listens to portfolio.unpublished.
AnnouncePublishOnly(r) ==
    /\ Cardinality(deletions) < MaxDeletions
    /\ SaveStatus(r)
    /\ deletions' = IF req[r].ten.status = "published"
                    THEN deletions \cup {HostsOf(req[r].ten)} ELSE deletions
    /\ PublishingHistory
    /\ UNCHANGED <<cache, fill, workload>>

\* publish and unpublish end by emitting the event: its listener is called
\* with the addresses of the tenant row the handler loaded at its start.
Announce(r) ==
    /\ Cardinality(deletions) < MaxDeletions
    /\ SaveStatus(r)
    /\ deletions' = deletions \cup {HostsOf(req[r].ten)}
    /\ PublishingHistory
    /\ UNCHANGED <<cache, fill, workload>>

\* Any other step of the editor.
Edit(r) ==
    /\ Arrive(r, workload) \/ Continue(r) \/ Abort(r)
    /\ PublishingHistory
    /\ UNCHANGED <<cache, fill, deletions, workload>>

Visit(f) ==
    \/ \E host \in Host : FillMiss(f, host)
    \/ FillTenant(f)
    \/ FillPortfolio(f)
    \/ FillStore(f)
    \/ FillAbort(f)

NextSite ==
    \/ \E r \in Req : Edit(r) \/ Announce(r)
    \/ \E f \in Fill : Visit(f)
    \/ \E host \in Host : ExpireEntry(host)
    \/ \E keys \in deletions : Invalidate(keys) \/ LoseInvalidation(keys)

SpecSite == InitSite /\ [][NextSite]_allVars

\* Redis drops entries when their time is over, the event loop runs every
\* listener, and each call in flight is answered.
FairSpecSite ==
    /\ SpecSite
    /\ \A r \in Req : WF_allVars(Edit(r) /\ Continue(r)) /\ WF_allVars(Announce(r))
    /\ \A f \in Fill : /\ WF_allVars(FillTenant(f)) /\ WF_allVars(FillPortfolio(f))
                       /\ WF_allVars(FillStore(f))
    /\ \A host \in Host : WF_allVars(ExpireEntry(host))
    /\ WF_allVars(\E keys \in deletions : Invalidate(keys) \/ LoseInvalidation(keys))

-----------------------------------------------------------------------------
(***************************************************************************)
(* Properties                                                              *)
(***************************************************************************)

SiteTypeOK ==
    /\ TypeOK
    /\ cache \in [Host -> Config \cup {None}]
    /\ fill \in [Fill -> Filling]
    /\ deletions \subseteq SUBSET Host
    /\ workload \in Workloads
    /\ raced \subseteq Fill
    /\ excused \subseteq Host

\* No visitor is ever served anything but a snapshot its owner published -
\* no draft, no half-saved edit - even from a cache filled by reads of two
\* rows at two times (public.service.ts:47-77).
ServesOnlyPublished ==
    \A host \in Host : cache[host] # None =>
        LET c == cache[host] IN
        \/ c.published \in revisions[c.t] \cup torn[c.t]
        \/ \E q \in Publishing(c.t) :
             req[q].pc = "insertRevision" /\ req[q].snapshot = c.published

\* A visitor at a tenant's address is served that tenant's site, and what it
\* has published now, as soon as the publish that changed it and its event
\* are through - unless a fill or an address change crossed it, or a DEL was
\* lost
\* (config-cache.service.ts:39-47, portfolios.service.ts:144-149, 163-168).
InvalidationReaches ==
    \A t \in Tenant, host \in Host :
        /\ t \notin dirty /\ Publishing(t) = {}
        /\ host \in HostsOf(tenant[t]) \ (excused \cup UNION deletions)
        /\ cache[host] # None
        => cache[host].t = t /\ cache[host].published = Published(t)

Agrees(host) ==
    cache[host] # None =>
        FoundAt(host) = {cache[host].t} /\ cache[host] = ConfigOf(cache[host].t)

\* Whatever crossed, once the editors have stopped the cache comes to agree
\* with the tables and keeps agreeing - settings, which no event announces,
\* and given-up addresses included (config-cache.service.ts:7, 59-61).
CacheConverges ==
    <>[](\A r \in Req : req[r] = Idle) => <>[](\A host \in Host : Agrees(host))
=============================================================================
