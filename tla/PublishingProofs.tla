-------------------------- MODULE PublishingProofs --------------------------
(***************************************************************************)
(* Theorems about Publishing, for any tenants, sections and handlers: its  *)
(* typing, that what is online has its revision, and that the two rows of  *)
(* a portfolio agree on whether it is online.  And about PublicSite, which *)
(* composes it with the visitors and the cache: what visitors are served   *)
(* was published, and a publish reaches them through its event.            *)
(***************************************************************************)
EXTENDS PublicSite, TLAPS

-----------------------------------------------------------------------------
(***************************************************************************)
(* The inductive invariant                                                 *)
(***************************************************************************)

\* What is or was published has its revision, has been torn, or is about to
\* get its revision.
AccountedIn(rev, tn, rq, t, p) ==
    p # None =>
        \/ p \in rev[t] \cup tn[t]
        \/ \E q \in Req : rq[q].pc = "insertRevision" /\ rq[q].t = t /\ rq[q].snapshot = p
AccountedFor(t, p) == AccountedIn(revisions, torn, req, t, p)

\* So is the published column of every stored row and of every row an editor
\* carries; the row of a publish or unpublish is the next to be published.
Accounted ==
    /\ \A t \in Tenant : portfolio[t] # None => AccountedFor(t, portfolio[t].published)
    /\ \A r \in Req : req[r].pc = "saveDraft" => AccountedFor(req[r].t, req[r].port.published)

\* A handler that works beside a publish or unpublish is dirty, and so is that.
Overlaps ==
    \A q, r \in Req :
        /\ q # r /\ req[q] # Idle /\ req[r] # Idle /\ req[q].t = req[r].t
        /\ IsPublisher(req[r])
        => q \in dirty /\ r \in dirty

\* The unique constraints.
KeysUnique == \A t \in Tenant : KeysFree(t, tenant[t])

\* A clean editor of a clean tenant carries what is published, a clean writer of
\* keys the stored status.
EditorAgrees(r) ==
    LET h == req[r] IN
    r \notin dirty /\ h # Idle /\ h.t \notin dirty =>
        /\ h.pc = "saveDraft" => h.port.published = Published(h.t)
        /\ h.pc \in {"probe", "saveKeys"} => h.ten.status = tenant[h.t].status

\* A clean publish or unpublish carries the stored keys, and knows what it has
\* made of the portfolio.
PublisherAgrees(r) ==
    LET h == req[r] IN
    r \notin dirty /\ IsPublisher(h) =>
        /\ h.ten.sub = tenant[h.t].sub /\ h.ten.dom = tenant[h.t].dom
        /\ h.pc = "insertRevision" => Published(h.t) # None
        /\ h.pc = "saveStatus" => (Published(h.t) # None <=> h.ten.status = "published")

CarriedAgree == \A r \in Req : EditorAgrees(r) /\ PublisherAgrees(r)

IInv == TypeOK /\ Accounted /\ Overlaps /\ KeysUnique /\ CarriedAgree /\ StatusAgrees

-----------------------------------------------------------------------------
(***************************************************************************)
(* Handlers                                                                *)
(***************************************************************************)

\* What a handler state holds, by its pc.
LEMMA HandlerFields ==
    ASSUME NEW h \in Handler
    PROVE  /\ h.pc \in {"idle", "load", "create", "saveDraft", "savePublished",
                        "insertRevision", "probe", "saveKeys", "saveStatus"}
           /\ h.pc = "idle" <=> h = Idle
           /\ h # Idle => h.t \in Tenant
           /\ h.pc \in {"load", "create"} => h.kind \in Kind
           /\ h.pc \in {"load", "create", "savePublished", "insertRevision", "probe",
                        "saveKeys", "saveStatus"} => h.ten \in TenantRow
           /\ h.pc \in {"saveDraft", "savePublished"} => h.port \in PortfolioRow
           /\ h.pc = "insertRevision" => h.snapshot \in Sections
BY DEF Handler, Idle

\* The handler states that the steps make.
LEMMA HandlerMade ==
    ASSUME NEW t \in Tenant, NEW ten \in TenantRow
    PROVE  /\ Idle \in Handler
           /\ \A pc \in {"load", "create"}, kind \in Kind :
                [pc |-> pc, kind |-> kind, t |-> t, ten |-> ten] \in Handler
           /\ \A port \in PortfolioRow :
                /\ [pc |-> "saveDraft", t |-> t, port |-> port] \in Handler
                /\ [pc |-> "savePublished", t |-> t, ten |-> ten, port |-> port] \in Handler
           /\ \A v \in Sections :
                [pc |-> "insertRevision", t |-> t, ten |-> ten, snapshot |-> v] \in Handler
           /\ \A pc \in {"probe", "saveKeys", "saveStatus"} :
                [pc |-> pc, t |-> t, ten |-> ten] \in Handler
BY DEF Handler, Idle

LEMMA HandlerAdvanced ==
    ASSUME NEW h \in Handler
    PROVE  /\ h.pc = "load" =>
                LET g == [h EXCEPT !.pc = "create"] IN
                g \in Handler /\ g.pc = "create" /\ g.kind = h.kind /\ g.t = h.t /\ g.ten = h.ten
           /\ h.pc = "probe" =>
                LET g == [h EXCEPT !.pc = "saveKeys"] IN
                g \in Handler /\ g.pc = "saveKeys" /\ g.t = h.t /\ g.ten = h.ten
BY DEF Handler

LEMMA GotoReq ==
    ASSUME TypeOK, NEW r \in Req, NEW h, Goto(r, h)
    PROVE  req'[r] = h /\ \A q \in Req \ {r} : req'[q] = req[q]
BY DEF Goto, TypeOK

-----------------------------------------------------------------------------
(***************************************************************************)
(* What a step on one tenant leaves alone                                  *)
(***************************************************************************)

\* Handler r goes on as h; it works on t, and what is about the other tenants
\* and handlers stays.
Works(r, t, h) ==
    /\ h \in Handler /\ Goto(r, h)
    /\ req[r] # Idle => req[r].t = t
    /\ h # Idle => h.t = t
    /\ \A u \in Tenant \ {t} : /\ portfolio'[u] = portfolio[u]
                               /\ tenant'[u] = tenant[u]
                               /\ u \in dirty => u \in dirty'
    /\ \A q \in Req \ {r} : q \in dirty => q \in dirty'

\* Revisions are only added to; a revision about to be inserted is inserted or
\* its publish torn.
Records(r) ==
    /\ \A t \in Tenant : revisions[t] \subseteq revisions'[t] /\ torn[t] \subseteq torn'[t]
    /\ req[r].pc = "insertRevision" =>
         req[r].snapshot \in revisions'[req[r].t] \cup torn'[req[r].t]

\* What was accounted for stays so.
LEMMA StaysAccounted ==
    ASSUME TypeOK, NEW r \in Req, NEW h, Goto(r, h), Records(r),
           NEW t \in Tenant, NEW p, AccountedFor(t, p)
    PROVE  AccountedIn(revisions', torn', req', t, p)
<1> SUFFICES ASSUME p # None, p \notin revisions'[t] \cup torn'[t]
             PROVE  \E q \in Req : req'[q].pc = "insertRevision" /\ req'[q].t = t
                                   /\ req'[q].snapshot = p
  BY DEF AccountedIn
<1>1. p \notin revisions[t] \cup torn[t]
  BY DEF Records
<1>2. PICK q \in Req : req[q].pc = "insertRevision" /\ req[q].t = t /\ req[q].snapshot = p
  BY <1>1 DEF AccountedFor, AccountedIn
<1>3. q # r
  BY <1>2 DEF Records
<1> QED
  BY <1>2, <1>3, GotoReq

LEMMA AccountedKept ==
    ASSUME TypeOK, Accounted, NEW r \in Req, NEW h, Goto(r, h), Records(r),
           \A t \in Tenant :
              \/ portfolio'[t] = portfolio[t]
              \/ portfolio'[t] # None =>
                   AccountedIn(revisions', torn', req', t, portfolio'[t].published),
           h.pc = "saveDraft" => h.t \in Tenant /\ AccountedFor(h.t, h.port.published)
    PROVE  Accounted'
<1>1. ASSUME NEW t \in Tenant, portfolio'[t] # None
      PROVE  AccountedIn(revisions', torn', req', t, portfolio'[t].published)
  <2>1. CASE portfolio'[t] = portfolio[t]
    <3>1. AccountedFor(t, portfolio[t].published)
      BY <1>1, <2>1 DEF Accounted
    <3>2. AccountedIn(revisions', torn', req', t, portfolio[t].published)
      BY <3>1, StaysAccounted
    <3> QED
      BY <2>1, <3>2
  <2> QED
    BY <1>1, <2>1
<1>2. ASSUME NEW q \in Req, req'[q].pc = "saveDraft"
      PROVE  AccountedIn(revisions', torn', req', req'[q].t, req'[q].port.published)
  <2>1. CASE q = r
    BY <1>2, <2>1, GotoReq, StaysAccounted
  <2>2. CASE q # r
    <3>1. req'[q] = req[q] /\ req[q] \in Handler
      BY <2>2, GotoReq DEF TypeOK
    <3>2. req[q].t \in Tenant /\ AccountedFor(req[q].t, req[q].port.published)
      BY <1>2, <3>1, HandlerFields DEF Accounted
    <3> QED
      BY <3>1, <3>2, StaysAccounted
  <2> QED
    BY <2>1, <2>2
<1> QED
  BY <1>1, <1>2 DEF Accounted, AccountedFor

\* A handler that goes on overlaps those it overlapped before.
LEMMA OverlapsKept ==
    ASSUME TypeOK, Overlaps, NEW r \in Req, NEW t \in Tenant, NEW h, Works(r, t, h),
           h # Idle => /\ req[r] # Idle
                       /\ IsPublisher(h) => IsPublisher(req[r])
                       /\ r \in dirty => r \in dirty'
    PROVE  Overlaps'
<1> SUFFICES ASSUME NEW q \in Req, NEW p \in Req, q # p, req'[q] # Idle, req'[p] # Idle,
                    req'[q].t = req'[p].t, IsPublisher(req'[p])
             PROVE  q \in dirty' /\ p \in dirty'
  BY DEF Overlaps, IsPublisher, Idle
<1>1. req'[r] = h /\ \A s \in Req \ {r} : req'[s] = req[s]
  BY GotoReq DEF Works
<1>2. req[q] # Idle /\ req[p] # Idle /\ req[q].t = req[p].t /\ IsPublisher(req[p])
  BY <1>1 DEF Works
<1>3. q \in dirty /\ p \in dirty
  BY <1>2 DEF Overlaps
<1> QED
  BY <1>1, <1>3 DEF Works

\* What t has published, and its status, are as before, and t is no cleaner.
Quiet(t) ==
    /\ Published(t)' = Published(t)
    /\ tenant'[t].status = tenant[t].status
    /\ t \in dirty => t \in dirty'

\* A clean tenant that nobody is publishing was so before the step of r, with
\* the same site - or r's publish or unpublish has just come to its end.
Settles(r) ==
    \A u \in Tenant : u \notin dirty' /\ Publishing(u)' = {} =>
        \/ u \notin dirty /\ Publishing(u) = {} /\ Published(u)' = Published(u)
        \/ req[r].pc = "saveStatus" /\ req[r].t = u

\* What the other handlers carry agrees with the rows as it did: beside a
\* publish or unpublish they are dirty.
LEMMA OthersAgree ==
    ASSUME TypeOK, Overlaps, CarriedAgree, NEW r \in Req, NEW t \in Tenant, NEW h,
           Works(r, t, h),
           Quiet(t) \/ t \in dirty' \/ IsPublisher(req[r]),
           req[r] = Idle => portfolio'[t] = portfolio[t] /\ tenant'[t] = tenant[t],
           NEW q \in Req \ {r}
    PROVE  EditorAgrees(q)' /\ PublisherAgrees(q)'
<1>1. req'[q] = req[q] /\ req[q] \in Handler /\ req[r] \in Handler
  BY GotoReq DEF Works, TypeOK
<1>2. q \in dirty => q \in dirty'
  BY DEF Works
<1>3. EditorAgrees(q) /\ PublisherAgrees(q)
  BY DEF CarriedAgree
<1>4. req[q] = Idle \/ req[q].t \in Tenant
  BY <1>1, HandlerFields
<1>5. ASSUME req[q] # Idle, req[q].t # t
      PROVE  EditorAgrees(q)' /\ PublisherAgrees(q)'
  <2>1. /\ portfolio'[req[q].t] = portfolio[req[q].t]
        /\ tenant'[req[q].t] = tenant[req[q].t]
        /\ req[q].t \in dirty => req[q].t \in dirty'
    BY <1>4, <1>5 DEF Works
  <2>2. Published(req[q].t)' = Published(req[q].t)
    BY <2>1, <1>1 DEF Published
  <2> QED
    BY <1>1, <1>2, <1>3, <2>1, <2>2 DEF EditorAgrees, PublisherAgrees, IsPublisher, Published
<1>6. ASSUME req[q] # Idle, req[q].t = t
      PROVE  EditorAgrees(q)' /\ PublisherAgrees(q)'
  <2>1. ASSUME IsPublisher(req[q]) \/ IsPublisher(req[r]), req[r] # Idle
        PROVE  q \in dirty'
    BY <1>2, <1>6, <2>1 DEF Overlaps, Works
  <2>2. IsPublisher(req[r]) => req[r] # Idle
    BY DEF IsPublisher, Idle
  <2>3. EditorAgrees(q)'
    BY <1>1, <1>2, <1>3, <1>6, <2>1, <2>2 DEF EditorAgrees, Quiet, Published
  <2>4. PublisherAgrees(q)'
    BY <1>1, <1>2, <1>3, <1>6, <2>1 DEF PublisherAgrees, Published
  <2> QED
    BY <2>3, <2>4
<1>7. ASSUME req[q] = Idle
      PROVE  EditorAgrees(q)' /\ PublisherAgrees(q)'
  BY <1>1, <1>7 DEF EditorAgrees, PublisherAgrees, IsPublisher, Idle
<1> QED
  BY <1>5, <1>6, <1>7

\* The rows agree as before, or t is not bound to, or its rows do.
LEMMA StatusKept ==
    ASSUME TypeOK, StatusAgrees, NEW r \in Req, NEW t \in Tenant, NEW h, Works(r, t, h),
           \/ t \in dirty'
           \/ h.pc \in {"insertRevision", "saveStatus"}
           \/ Quiet(t) /\ req[r].pc \notin {"insertRevision", "saveStatus"}
           \/ /\ req[r].pc = "saveStatus" /\ req[r].t = t
              /\ Published(t)' # None <=> tenant'[t].status = "published"
    PROVE  StatusAgrees' /\ Settles(r)
<1> SUFFICES ASSUME NEW u \in Tenant, u \notin dirty', Publishing(u)' = {}
             PROVE  /\ Published(u)' # None <=> tenant'[u].status = "published"
                    /\ \/ u \notin dirty /\ Publishing(u) = {} /\ Published(u)' = Published(u)
                       \/ req[r].pc = "saveStatus" /\ req[r].t = u
  BY DEF StatusAgrees, Settles
<1>1. req'[r] = h /\ (\A q \in Req \ {r} : req'[q] = req[q]) /\ req[r] \in Handler
  BY GotoReq DEF Works, TypeOK
<1>2. \A q \in Req : ~(req'[q] # Idle /\ req'[q].t = u /\ req'[q].pc \in {"insertRevision", "saveStatus"})
  BY DEF Publishing, On
<1>3. ASSUME req[r] # Idle /\ req[r].t = u => req[r].pc \notin {"insertRevision", "saveStatus"}
      PROVE  Publishing(u) = {}
  BY <1>1, <1>2, <1>3 DEF Publishing, On
<1>4. CASE u # t
  <2>1. u \notin dirty /\ portfolio'[u] = portfolio[u] /\ tenant'[u] = tenant[u]
    BY <1>4 DEF Works
  <2>2. Publishing(u) = {}
    BY <1>3, <1>4 DEF Works
  <2> QED
    BY <2>1, <2>2 DEF StatusAgrees, Published
<1>5. CASE u = t
  <2>1. h.pc \notin {"insertRevision", "saveStatus"}
    BY <1>1, <1>2, <1>5 DEF Works, Idle
  <2>2. CASE Quiet(t) /\ req[r].pc \notin {"insertRevision", "saveStatus"}
    <3>1. Publishing(u) = {} /\ u \notin dirty
      BY <1>3, <1>5, <2>2 DEF Quiet
    <3> QED
      BY <1>5, <2>2, <3>1 DEF StatusAgrees, Quiet
  <2> QED
    BY <1>5, <2>1, <2>2
<1> QED
  BY <1>4, <1>5

LEMMA KeysKept ==
    ASSUME TypeOK, KeysUnique, NEW t \in Tenant, NEW ten, KeysFree(t, ten),
           tenant' = [tenant EXCEPT ![t] = ten]
    PROVE  KeysUnique'
<1>1. tenant'[t] = ten /\ \A u \in Tenant \ {t} : tenant'[u] = tenant[u]
  BY DEF TypeOK
<1>2. ASSUME NEW u \in Tenant, NEW v \in Tenant \ {u}
      PROVE  /\ tenant'[v].sub # tenant'[u].sub
             /\ tenant'[u].dom # None => tenant'[v].dom # tenant'[u].dom
  BY <1>1, <1>2 DEF KeysUnique, KeysFree
<1> QED
  BY <1>2 DEF KeysUnique, KeysFree

\* A step of a handler in flight keeps the invariant if it accounts for what
\* it publishes, takes free keys, and is honest about what it changes.
LEMMA StepKeeps ==
    ASSUME IInv, TypeOK', NEW r \in Req, NEW t \in Tenant, NEW h, Works(r, t, h), Records(r),
           req[r] # Idle,
           \/ portfolio'[t] = portfolio[t]
           \/ portfolio'[t] # None =>
                AccountedIn(revisions', torn', req', t, portfolio'[t].published),
           h.pc = "saveDraft" => AccountedFor(t, h.port.published),
           h # Idle => /\ IsPublisher(h) => IsPublisher(req[r])
                       /\ r \in dirty => r \in dirty'
                       /\ EditorAgrees(r)' /\ PublisherAgrees(r)',
           \/ tenant' = tenant
           \/ \E ten : KeysFree(t, ten) /\ tenant' = [tenant EXCEPT ![t] = ten],
           Quiet(t) \/ t \in dirty' \/ IsPublisher(req[r]),
           \/ t \in dirty'
           \/ h.pc \in {"insertRevision", "saveStatus"}
           \/ Quiet(t) /\ req[r].pc \notin {"insertRevision", "saveStatus"}
           \/ /\ req[r].pc = "saveStatus" /\ req[r].t = t
              /\ Published(t)' # None <=> tenant'[t].status = "published"
    PROVE  IInv' /\ Settles(r)
<1>1. Accounted'
  <2>1. \A u \in Tenant :
           \/ portfolio'[u] = portfolio[u]
           \/ portfolio'[u] # None => AccountedIn(revisions', torn', req', u, portfolio'[u].published)
    BY DEF Works
  <2>2. h.pc = "saveDraft" => h.t \in Tenant /\ AccountedFor(h.t, h.port.published)
    BY DEF Works, Idle
  <2> QED
    BY <2>1, <2>2, AccountedKept DEF IInv, Works
<1>2. Overlaps'
  BY OverlapsKept DEF IInv
<1>3. KeysUnique'
  <2>1. CASE tenant' = tenant
    BY <2>1 DEF IInv, KeysUnique, KeysFree
  <2> QED
    BY <2>1, KeysKept DEF IInv
<1>4. CarriedAgree'
  <2>1. \A q \in Req \ {r} : EditorAgrees(q)' /\ PublisherAgrees(q)'
    BY OthersAgree DEF IInv
  <2>2. h = Idle => EditorAgrees(r)' /\ PublisherAgrees(r)'
    BY GotoReq DEF EditorAgrees, PublisherAgrees, IsPublisher, Idle, Works, IInv
  <2> QED
    BY <2>1, <2>2 DEF CarriedAgree
<1>5. StatusAgrees' /\ Settles(r)
  BY StatusKept DEF IInv
<1> QED
  BY <1>1, <1>2, <1>3, <1>4, <1>5 DEF IInv

-----------------------------------------------------------------------------
(***************************************************************************)
(* The initial states and the start of a handler                           *)
(***************************************************************************)

LEMMA InitIInv == Init => IInv
<1> SUFFICES ASSUME Init
             PROVE  IInv
  OBVIOUS
<1>1. TypeOK
  BY DEF Init, TypeOK, TenantRow, Handler, Idle
<1>2. \A r \in Req : req[r] = Idle /\ ~IsPublisher(req[r])
  BY DEF Init, Idle, IsPublisher
<1>3. Accounted
  BY <1>2 DEF Accounted, Init, Idle
<1>4. Overlaps /\ CarriedAgree
  BY <1>2 DEF Overlaps, CarriedAgree, EditorAgrees, PublisherAgrees
<1>5. KeysUnique
  <2> SUFFICES ASSUME NEW t \in Tenant, NEW u \in Tenant \ {t}
               PROVE  tenant[u].sub # tenant[t].sub /\ tenant[t].dom = None
    BY DEF KeysUnique, KeysFree
  <2> QED
    BY DEF Init
<1>6. StatusAgrees
  <2> SUFFICES ASSUME NEW t \in Tenant
               PROVE  Published(t) = None /\ tenant[t].status = "draft"
    BY DEF StatusAgrees
  <2> QED
    BY DEF Init, Published
<1> QED
  BY <1>1, <1>3, <1>4, <1>5, <1>6 DEF IInv

\* A handler starts with the row it has just loaded, and with the handlers it
\* overlaps marked.
LEMMA StartKeeps ==
    ASSUME IInv, NEW r \in Req, NEW t \in Tenant, NEW h \in Handler, Start(r, h),
           UNCHANGED <<portfolio, tenant, revisions, torn>>,
           h.t = t, h.pc \in {"load", "probe", "saveKeys"},
           h.pc = "load" => h.ten = tenant[t],
           h.ten.status = tenant[t].status
    PROVE  IInv' /\ Settles(r)
<1> DEFINE rivals == {q \in On(h.t) : IsPublisher(h) \/ IsPublisher(req[q])}
<1>1. /\ req[r] = Idle /\ Goto(r, h) /\ h # Idle
      /\ dirty' = IF rivals = {} THEN dirty ELSE dirty \cup rivals \cup {r}
  BY DEF Start, Idle
<1>2. req'[r] = h /\ \A q \in Req \ {r} : req'[q] = req[q]
  BY <1>1, GotoReq DEF IInv
<1>3. TypeOK'
  BY <1>1 DEF IInv, TypeOK, Goto, On
<1>4. Works(r, t, h) /\ Records(r) /\ Quiet(t)
  BY <1>1 DEF Works, Records, Quiet, Published, Idle
<1>5. Accounted'
  BY <1>1, <1>4, AccountedKept DEF IInv
<1>6. Overlaps'
  <2> SUFFICES ASSUME NEW q \in Req, NEW p \in Req, q # p, req'[q] # Idle, req'[p] # Idle,
                      req'[q].t = req'[p].t, IsPublisher(req'[p])
               PROVE  q \in dirty' /\ p \in dirty'
    BY DEF Overlaps, IsPublisher, Idle
  <2>1. CASE q = r
    <3>1. p \in rivals
      BY <1>2, <2>1 DEF On
    <3> QED
      BY <1>1, <2>1, <3>1
  <2>2. CASE p = r
    <3>1. q \in rivals
      BY <1>2, <2>2 DEF On
    <3> QED
      BY <1>1, <2>2, <3>1
  <2>3. CASE q # r /\ p # r
    <3>1. q \in dirty /\ p \in dirty
      BY <1>2, <2>3 DEF IInv, Overlaps
    <3> QED
      BY <1>1, <3>1
  <2> QED
    BY <2>1, <2>2, <2>3
<1>7. KeysUnique'
  BY DEF IInv, KeysUnique, KeysFree
<1>8. CarriedAgree'
  <2>1. \A q \in Req \ {r} : EditorAgrees(q)' /\ PublisherAgrees(q)'
    BY <1>4, OthersAgree DEF IInv
  <2>2. EditorAgrees(r)' /\ PublisherAgrees(r)'
    BY <1>2 DEF EditorAgrees, PublisherAgrees, IsPublisher
  <2> QED
    BY <2>1, <2>2 DEF CarriedAgree
<1>9. StatusAgrees' /\ Settles(r)
  BY <1>1, <1>4, StatusKept DEF IInv, Idle
<1> QED
  BY <1>3, <1>5, <1>6, <1>7, <1>8, <1>9 DEF IInv

LEMMA ArriveKeeps ==
    ASSUME PublishingAssumption, IInv, NEW r \in Req, NEW ops, Arrive(r, ops)
    PROVE  IInv' /\ Settles(r)
<1>1. ASSUME NEW t \in Tenant, NEW kind \in Kind, ResolveTenant(r, t, kind)
      PROVE  IInv' /\ Settles(r)
  <2> DEFINE h == [pc |-> "load", kind |-> kind, t |-> t, ten |-> tenant[t]]
  <2>1. h \in Handler
    BY HandlerMade DEF IInv, TypeOK
  <2> QED
    BY <1>1, <2>1, StartKeeps DEF ResolveTenant
<1>2. ASSUME NEW t \in Tenant, NEW sub \in Sub, SetSubdomain(r, t, sub)
      PROVE  IInv' /\ Settles(r)
  <2> DEFINE ten == [tenant[t] EXCEPT !.sub = sub]
             h == [pc |-> "probe", t |-> t, ten |-> ten]
  <2>1. ten \in TenantRow /\ ten.status = tenant[t].status
    BY DEF IInv, TypeOK, TenantRow
  <2>2. h \in Handler
    BY <2>1, HandlerMade
  <2> QED
    BY <1>2, <2>1, <2>2, StartKeeps DEF SetSubdomain
<1>3. ASSUME NEW t \in Tenant, NEW dom \in Dom \cup {None}, SetCustomDomain(r, t, dom)
      PROVE  IInv' /\ Settles(r)
  <2> DEFINE ten == [tenant[t] EXCEPT !.dom = dom]
             h == [pc |-> "saveKeys", t |-> t, ten |-> ten]
  <2>1. ten \in TenantRow /\ ten.status = tenant[t].status
    BY DEF IInv, TypeOK, TenantRow
  <2>2. h \in Handler
    BY <2>1, HandlerMade
  <2> QED
    BY <1>3, <2>1, <2>2, StartKeeps DEF SetCustomDomain
<1> QED
  BY <1>1, <1>2, <1>3 DEF Arrive

-----------------------------------------------------------------------------
(***************************************************************************)
(* The portfolio's row                                                     *)
(***************************************************************************)

\* What an operation makes of the row: the published column is only changed
\* by publish and unpublish.
LEMMA EditsRow ==
    ASSUME TypeOK, NEW kind \in Editors, NEW t \in Tenant, NEW row \in PortfolioRow,
           NEW new \in Edits(kind, t, row)
    PROVE  new \in PortfolioRow /\ new.published = row.published
<1>1. CASE kind = "settings"
  BY <1>1 DEF Edits, PortfolioRow
<1>2. CASE kind = "upsert"
  <2>1. PICK s \in Section, b \in Body : new = [row EXCEPT !.draft[s] = b]
    BY <1>2 DEF Edits
  <2>2. [row.draft EXCEPT ![s] = b] \in Sections
    BY DEF PortfolioRow, Sections
  <2> QED
    BY <2>1, <2>2 DEF PortfolioRow
<1>3. CASE kind = "delete"
  <2>1. PICK s \in Section : new = [row EXCEPT !.draft[s] = None]
    BY <1>3 DEF Edits
  <2>2. [row.draft EXCEPT ![s] = None] \in Sections
    BY DEF PortfolioRow, Sections
  <2> QED
    BY <2>1, <2>2 DEF PortfolioRow
<1>4. CASE kind = "restore"
  <2>1. PICK v \in revisions[t] : new = [row EXCEPT !.draft = v]
    BY <1>4 DEF Edits
  <2>2. v \in Sections
    BY DEF TypeOK
  <2> QED
    BY <2>1, <2>2 DEF PortfolioRow
<1> QED
  BY <1>1, <1>2, <1>3, <1>4 DEF Editors

\* Where Proceed leads with a row: to the end, to an editor's save of a row
\* with the same published column, or to the save of a publish or unpublish.
Proceeds(r, row, h) ==
    /\ h \in Handler /\ Goto(r, h)
    /\ h # Idle => h.t = req[r].t
    /\ \/ h = Idle /\ dirty' = dirty \ {r}
       \/ h.pc = "saveDraft" /\ h.port.published = row.published /\ dirty' = dirty
       \/ /\ h.pc = "savePublished" /\ h.ten = req[r].ten /\ dirty' = dirty
          /\ IsPublisher(req[r])

LEMMA ProceedCases ==
    ASSUME TypeOK, NEW r \in Req, req[r].pc \in {"load", "create"},
           NEW row \in PortfolioRow, Proceed(r, row)
    PROVE  \E h : Proceeds(r, row, h)
<1>1. /\ req[r].kind \in Kind /\ req[r].t \in Tenant /\ req[r].ten \in TenantRow
      /\ Idle \in Handler
  BY HandlerFields, HandlerMade DEF TypeOK, Idle
<1>2. CASE End(r)
  BY <1>1, <1>2 DEF End, Proceeds
<1>3. ASSUME req[r].kind \in Editors, NEW new \in Edits(req[r].kind, req[r].t, row),
             Goto(r, [pc |-> "saveDraft", t |-> req[r].t, port |-> new]), dirty' = dirty
      PROVE  \E h : Proceeds(r, row, h)
  <2> DEFINE h == [pc |-> "saveDraft", t |-> req[r].t, port |-> new]
  <2>1. new \in PortfolioRow /\ new.published = row.published
    BY <1>1, <1>3, EditsRow
  <2>2. h \in Handler
    BY <1>1, <2>1, HandlerMade
  <2>3. Proceeds(r, row, h)
    BY <1>3, <2>1, <2>2 DEF Proceeds
  <2> QED
    BY <2>3
<1>4. ASSUME req[r].kind \in Publishers, NEW v \in Sections \cup {None},
             Goto(r, [pc |-> "savePublished", t |-> req[r].t, ten |-> req[r].ten,
                      port |-> [row EXCEPT !.published = v]]), dirty' = dirty
      PROVE  \E h : Proceeds(r, row, h)
  <2> DEFINE port == [row EXCEPT !.published = v]
             h == [pc |-> "savePublished", t |-> req[r].t, ten |-> req[r].ten, port |-> port]
  <2>1. port \in PortfolioRow
    BY DEF PortfolioRow
  <2>2. h \in Handler
    BY <1>1, <2>1, HandlerMade
  <2>3. Proceeds(r, row, h)
    BY <1>4, <2>2 DEF Proceeds, IsPublisher
  <2> QED
    BY <2>3
<1>5. row.draft \in Sections
  BY DEF PortfolioRow
<1>6. CASE req[r].kind = "publish"
  BY <1>2, <1>4, <1>5, <1>6 DEF Proceed, Publishers, Editors
<1>7. CASE req[r].kind # "publish"
  BY <1>2, <1>3, <1>4, <1>7 DEF Proceed, Publishers
<1> QED
  BY <1>6, <1>7

\* The operation goes on from the row as stored, or as created just now.
LEMMA ProceedKeeps ==
    ASSUME PublishingAssumption, IInv, NEW r \in Req, req[r].pc \in {"load", "create"},
           NEW t \in Tenant, req[r].t = t, NEW row \in PortfolioRow, Proceed(r, row),
           UNCHANGED <<tenant, revisions, torn>>,
           \/ portfolio[t] = row /\ portfolio' = portfolio
           \/ /\ portfolio[t] = None /\ row.published = None
              /\ portfolio' = [portfolio EXCEPT ![t] = row]
    PROVE  IInv' /\ Settles(r)
<1>1. PICK h : Proceeds(r, row, h)
  BY ProceedCases DEF IInv
<1>2. req[r] # Idle
  BY HandlerFields DEF IInv, TypeOK, Idle
<1> USE PublishingAssumption
<1>3. portfolio'[t] = row /\ \A u \in Tenant \ {t} : portfolio'[u] = portfolio[u]
  BY <1>2 DEF IInv, TypeOK
<1>4. TypeOK'
  BY <1>1, <1>2 DEF IInv, TypeOK, Proceeds, Goto
<1>5. Works(r, t, h) /\ Records(r)
  BY <1>1, <1>2, <1>3 DEF Works, Records, Proceeds
<1>6. Quiet(t)
  BY <1>1, <1>2, <1>3 DEF Quiet, Proceeds, Published
<1>7. req'[r] = h
  BY <1>1, GotoReq DEF Proceeds, IInv
<1>8. portfolio'[t] = portfolio[t] \/ portfolio'[t].published = None
  BY <1>3
<1>9. AccountedFor(t, row.published)
  BY <1>2, <1>3 DEF IInv, Accounted, AccountedFor, AccountedIn
<1>10. h # Idle => /\ IsPublisher(h) => IsPublisher(req[r])
                   /\ r \in dirty => r \in dirty'
  BY <1>1 DEF Proceeds, IsPublisher
<1>11. h # Idle => EditorAgrees(r)'
  BY <1>1, <1>3, <1>7 DEF EditorAgrees, Proceeds, Published
<1>12. h # Idle => PublisherAgrees(r)'
  BY <1>1, <1>7 DEF IInv, CarriedAgree, PublisherAgrees, Proceeds, IsPublisher
<1>13. h.pc = "saveDraft" => h.port.published = row.published
  BY <1>1 DEF Proceeds, Idle
<1> QED
  BY <1>2, <1>4, <1>5, <1>6, <1>8, <1>9, <1>10, <1>11, <1>12, <1>13, StepKeeps DEF AccountedIn

LEMMA ResolvePortfolioKeeps ==
    ASSUME PublishingAssumption, IInv, NEW r \in Req, NEW t \in Tenant, req[r].t = t,
           ResolvePortfolio(r)
    PROVE  IInv' /\ Settles(r)
<1>1. CASE portfolio[t] = None
  <2> DEFINE h == [req[r] EXCEPT !.pc = "create"]
  <2>1. Goto(r, h) /\ req[r].pc = "load" /\ dirty' = dirty
    BY <1>1 DEF ResolvePortfolio
  <2>2. /\ h \in Handler /\ h.pc = "create" /\ h.kind = req[r].kind
        /\ h.t = t /\ h.ten = req[r].ten
    BY <2>1, HandlerAdvanced DEF IInv, TypeOK
  <2> HIDE DEF h
  <2>3. TypeOK'
    BY <2>1, <2>2 DEF IInv, TypeOK, Goto, ResolvePortfolio
  <2>4. Works(r, t, h) /\ Records(r) /\ Quiet(t)
    BY <2>1, <2>2 DEF Works, Records, Quiet, Published, ResolvePortfolio
  <2>5. req[r] # Idle /\ req'[r] = h
    BY <2>1, GotoReq DEF Idle, IInv
  <2>6. IsPublisher(h) => IsPublisher(req[r])
    BY <2>1, <2>2 DEF IsPublisher
  <2>7. EditorAgrees(r)'
    BY <2>2, <2>5 DEF EditorAgrees
  <2>8. PublisherAgrees(r)'
    BY <2>1, <2>2, <2>5, <2>6 DEF IInv, CarriedAgree, PublisherAgrees, ResolvePortfolio
  <2> QED
    BY <2>1, <2>2, <2>3, <2>4, <2>5, <2>6, <2>7, <2>8, StepKeeps DEF ResolvePortfolio
<1>2. CASE portfolio[t] # None
  <2>1. portfolio[t] \in PortfolioRow
    BY <1>2 DEF IInv, TypeOK
  <2> QED
    BY <1>2, <2>1, ProceedKeeps DEF ResolvePortfolio
<1> QED
  BY <1>1, <1>2

\* A handler that ends without a further write, or only adds what it carries to
\* the torn snapshots.
LEMMA EndKeeps ==
    ASSUME PublishingAssumption, IInv, NEW r \in Req, NEW t \in Tenant, req[r].t = t,
           req[r] # Idle, Goto(r, Idle), TypeOK', Records(r),
           UNCHANGED <<portfolio, tenant>>,
           \A q \in (Req \cup Tenant) \ {r} : q \in dirty => q \in dirty',
           req[r].pc \in {"insertRevision", "saveStatus"} => t \in dirty'
    PROVE  IInv' /\ Settles(r)
<1>1. Idle \in Handler /\ t # r
  BY DEF PublishingAssumption, Handler, Idle
<1>2. Works(r, t, Idle) /\ Quiet(t)
  BY <1>1 DEF Works, Quiet, Published, PublishingAssumption
<1> QED
  BY <1>2, StepKeeps DEF Idle

LEMMA CreatePortfolioKeeps ==
    ASSUME PublishingAssumption, IInv, NEW r \in Req, NEW t \in Tenant, req[r].t = t,
           CreatePortfolio(r)
    PROVE  IInv' /\ Settles(r)
<1>1. CASE portfolio[t] = None
  <2>1. Blank \in PortfolioRow /\ Blank.published = None
    BY DEF Blank, PortfolioRow, Sections
  <2> QED
    BY <1>1, <2>1, ProceedKeeps DEF CreatePortfolio, PortfolioFree
<1>2. CASE portfolio[t] # None
  <2>1. End(r) /\ UNCHANGED <<portfolio, tenant, revisions, torn>> /\ req[r].pc = "create"
    BY <1>2 DEF CreatePortfolio, PortfolioFree
  <2>2. TypeOK'
    BY <2>1, HandlerMade DEF IInv, TypeOK, End, Goto, Handler, Idle
  <2> QED
    BY <2>1, <2>2, EndKeeps DEF End, Records, Idle
<1> QED
  BY <1>1, <1>2

LEMMA SaveDraftKeeps ==
    ASSUME PublishingAssumption, IInv, NEW r \in Req, NEW t \in Tenant, req[r].t = t,
           SaveDraft(r)
    PROVE  IInv' /\ Settles(r)
<1> USE PublishingAssumption
<1>1. /\ req[r].pc = "saveDraft" /\ req[r] # Idle /\ req[r].port \in PortfolioRow
      /\ Idle \in Handler
  BY HandlerFields, HandlerMade DEF SaveDraft, IInv, TypeOK, Idle
<1>2. /\ portfolio' = [portfolio EXCEPT ![t] = req[r].port]
      /\ dirty' = Soil(r, t) \ {r} /\ Goto(r, Idle)
      /\ UNCHANGED <<tenant, revisions, torn>>
  BY DEF SaveDraft
<1>3. TypeOK'
  BY <1>1, <1>2 DEF IInv, TypeOK, Goto, Soil
<1>4. portfolio'[t] = req[r].port /\ \A u \in Tenant \ {t} : portfolio'[u] = portfolio[u]
  BY <1>2 DEF IInv, TypeOK
<1>5. Works(r, t, Idle) /\ Records(r)
  BY <1>1, <1>2, <1>4 DEF Works, Records, Soil, PublishingAssumption
<1>6. AccountedIn(revisions', torn', req', t, portfolio'[t].published)
  BY <1>1, <1>2, <1>4, <1>5, StaysAccounted DEF IInv, Accounted
<1>7. t \in dirty' \/ Quiet(t)
  <2>1. r \in dirty => t \in dirty'
    BY <1>2 DEF Soil, PublishingAssumption
  <2>2. t \in dirty => t \in dirty'
    BY <1>2 DEF Soil, PublishingAssumption
  <2>3. ASSUME r \notin dirty, t \notin dirty
        PROVE  Published(t)' = Published(t)
    <3>1. req[r].port.published = Published(t)
      BY <1>1, <2>3 DEF IInv, CarriedAgree, EditorAgrees
    <3> QED
      BY <1>1, <1>4, <3>1 DEF Published
  <2> QED
    BY <1>2, <2>1, <2>2, <2>3 DEF Quiet
<1> QED
  BY <1>1, <1>2, <1>3, <1>5, <1>6, <1>7, StepKeeps DEF Idle

-----------------------------------------------------------------------------
(***************************************************************************)
(* Publish, unpublish and the writers of keys                              *)
(***************************************************************************)

\* The stored keys of a clean publish or unpublish are still its own, so that
\* its last save is not refused.
LEMMA CleanIsFree ==
    ASSUME IInv, NEW r \in Req, NEW t \in Tenant, req[r].t = t, IsPublisher(req[r]),
           r \notin dirty
    PROVE  KeysFree(t, req[r].ten)
<1>1. req[r].ten.sub = tenant[t].sub /\ req[r].ten.dom = tenant[t].dom
  BY DEF IInv, CarriedAgree, PublisherAgrees
<1>2. KeysFree(t, tenant[t])
  BY DEF IInv, KeysUnique
<1> QED
  BY <1>1, <1>2 DEF KeysFree

LEMMA SavePublishedKeeps ==
    ASSUME PublishingAssumption, IInv, NEW r \in Req, NEW t \in Tenant, req[r].t = t,
           SavePublished(r)
    PROVE  IInv' /\ Settles(r)
<1> USE PublishingAssumption
<1>1. /\ req[r].pc = "savePublished" /\ req[r] # Idle /\ IsPublisher(req[r])
      /\ req[r].port \in PortfolioRow /\ req[r].ten \in TenantRow
  BY HandlerFields DEF SavePublished, IInv, TypeOK, Idle, IsPublisher
<1>2. /\ portfolio' = [portfolio EXCEPT ![t] = req[r].port]
      /\ dirty' = Soil(r, t)
      /\ UNCHANGED <<tenant, revisions, torn>>
  BY DEF SavePublished
<1>3. portfolio'[t] = req[r].port /\ \A u \in Tenant \ {t} : portfolio'[u] = portfolio[u]
  BY <1>2 DEF IInv, TypeOK
<1>4. Published(t)' = req[r].port.published
  BY <1>1, <1>3 DEF Published
<1>5. PICK h \in Handler :
        /\ Goto(r, h) /\ h.t = t
        /\ h.ten.sub = req[r].ten.sub /\ h.ten.dom = req[r].ten.dom
        /\ \/ /\ h.pc = "insertRevision" /\ h.snapshot = req[r].port.published
              /\ req[r].port.published # None
           \/ h.pc = "saveStatus" /\ req[r].port.published = None /\ h.ten.status = "archived"
  <2> DEFINE ten == [req[r].ten EXCEPT !.status = "archived"]
  <2>1. ten \in TenantRow /\ ten.status = "archived"
        /\ ten.sub = req[r].ten.sub /\ ten.dom = req[r].ten.dom
    BY <1>1 DEF TenantRow
  <2> HIDE DEF ten
  <2>2. CASE req[r].port.published = None
    <3> DEFINE h == [pc |-> "saveStatus", t |-> t, ten |-> ten]
    <3>1. Goto(r, h)
      BY <2>2 DEF SavePublished, ten
    <3>2. h \in Handler
      BY <2>1, HandlerMade
    <3> QED
      BY <2>1, <2>2, <3>1, <3>2
  <2>3. CASE req[r].port.published # None
    <3> DEFINE h == [pc |-> "insertRevision", t |-> t, ten |-> req[r].ten,
                     snapshot |-> req[r].port.published]
    <3>1. Goto(r, h)
      BY <2>3 DEF SavePublished
    <3>2. req[r].port.published \in Sections
      BY <1>1, <2>3 DEF PortfolioRow
    <3>3. h \in Handler
      BY <1>1, <3>2, HandlerMade
    <3> QED
      BY <2>3, <3>1, <3>3
  <2> QED
    BY <2>2, <2>3
<1>6. req'[r] = h /\ h # Idle
  BY <1>5, GotoReq DEF IInv, Idle
<1>7. TypeOK'
  BY <1>1, <1>2, <1>5 DEF IInv, TypeOK, Goto, Soil
<1>8. Works(r, t, h) /\ Records(r)
  BY <1>1, <1>2, <1>3, <1>5 DEF Works, Records, Soil
<1>9. AccountedIn(revisions', torn', req', t, portfolio'[t].published)
  BY <1>3, <1>5, <1>6 DEF AccountedIn
<1>10. EditorAgrees(r)' /\ (r \in dirty => r \in dirty')
  BY <1>2, <1>5, <1>6 DEF EditorAgrees, Soil
<1>11. PublisherAgrees(r)'
  <2>1. r \notin dirty' => r \notin dirty
    BY <1>10
  <2>2. r \notin dirty => req[r].ten.sub = tenant[t].sub /\ req[r].ten.dom = tenant[t].dom
    BY <1>1 DEF IInv, CarriedAgree, PublisherAgrees
  <2> QED
    BY <1>2, <1>4, <1>5, <1>6, <2>1, <2>2 DEF PublisherAgrees
<1> QED
  BY <1>1, <1>2, <1>5, <1>6, <1>7, <1>8, <1>9, <1>10, <1>11, StepKeeps

LEMMA InsertRevisionKeeps ==
    ASSUME PublishingAssumption, IInv, NEW r \in Req, NEW t \in Tenant, req[r].t = t,
           InsertRevision(r)
    PROVE  IInv' /\ Settles(r)
<1> USE PublishingAssumption
<1> DEFINE ten == [req[r].ten EXCEPT !.status = "published"]
           h == [pc |-> "saveStatus", t |-> t, ten |-> ten]
<1>1. /\ req[r].pc = "insertRevision" /\ req[r] # Idle /\ IsPublisher(req[r])
      /\ req[r].ten \in TenantRow /\ req[r].snapshot \in Sections
  BY HandlerFields DEF InsertRevision, IInv, TypeOK, Idle, IsPublisher
<1>2. /\ ten \in TenantRow /\ ten.status = "published"
      /\ ten.sub = req[r].ten.sub /\ ten.dom = req[r].ten.dom
  BY <1>1 DEF TenantRow
<1>3. /\ revisions' = [revisions EXCEPT ![t] = @ \cup {req[r].snapshot}]
      /\ Goto(r, h) /\ UNCHANGED <<portfolio, tenant, torn, dirty>>
  BY DEF InsertRevision
<1> HIDE DEF ten
<1>4. h \in Handler /\ h # Idle /\ h.t = t /\ h.pc = "saveStatus" /\ h.ten = ten
  BY <1>2, HandlerMade DEF Idle
<1> HIDE DEF h
<1>5. req'[r] = h
  BY <1>3, GotoReq DEF IInv
<1>6. TypeOK'
  <2>1. revisions' \in [Tenant -> SUBSET Sections]
    BY <1>1, <1>3 DEF IInv, TypeOK
  <2> QED
    BY <1>3, <1>4, <2>1 DEF IInv, TypeOK, Goto
<1>7. Works(r, t, h)
  BY <1>1, <1>3, <1>4 DEF Works
<1>8. Records(r)
  BY <1>3 DEF Records, IInv, TypeOK
<1>9. EditorAgrees(r)'
  BY <1>4, <1>5 DEF EditorAgrees
<1>10. PublisherAgrees(r)'
  <2>1. r \notin dirty => /\ req[r].ten.sub = tenant[t].sub /\ req[r].ten.dom = tenant[t].dom
                          /\ Published(t) # None
    BY <1>1 DEF IInv, CarriedAgree, PublisherAgrees
  <2> QED
    BY <1>2, <1>3, <1>4, <1>5, <2>1 DEF PublisherAgrees, Published
<1> QED
  BY <1>1, <1>3, <1>4, <1>6, <1>7, <1>8, <1>9, <1>10, StepKeeps

LEMMA SaveStatusKeeps ==
    ASSUME PublishingAssumption, IInv, NEW r \in Req, NEW t \in Tenant, req[r].t = t,
           SaveStatus(r)
    PROVE  IInv' /\ Settles(r)
<1> USE PublishingAssumption
<1>1. /\ req[r].pc = "saveStatus" /\ req[r] # Idle /\ IsPublisher(req[r])
      /\ req[r].ten \in TenantRow /\ Idle \in Handler
  BY HandlerFields, HandlerMade DEF SaveStatus, IInv, TypeOK, Idle, IsPublisher
<1>2. /\ KeysFree(t, req[r].ten) /\ tenant' = [tenant EXCEPT ![t] = req[r].ten]
      /\ Goto(r, Idle) /\ UNCHANGED <<portfolio, revisions, torn>>
      /\ dirty' = (IF r \in dirty THEN dirty \cup {t} ELSE dirty \ {t}) \ {r}
  BY DEF SaveStatus
<1>3. tenant'[t] = req[r].ten /\ \A u \in Tenant \ {t} : tenant'[u] = tenant[u]
  BY <1>2 DEF IInv, TypeOK
<1>4. TypeOK'
  BY <1>1, <1>2 DEF IInv, TypeOK, Goto
<1>5. Works(r, t, Idle) /\ Records(r)
  BY <1>1, <1>2, <1>3 DEF Works, Records, PublishingAssumption
<1>6. t \in dirty' \/ (Published(t)' # None <=> tenant'[t].status = "published")
  <2>1. CASE r \in dirty
    BY <1>2, <2>1 DEF PublishingAssumption
  <2>2. CASE r \notin dirty
    <3>1. Published(t) # None <=> req[r].ten.status = "published"
      BY <1>1, <2>2 DEF IInv, CarriedAgree, PublisherAgrees
    <3> QED
      BY <1>2, <1>3, <3>1 DEF Published
  <2> QED
    BY <2>1, <2>2
<1> QED
  BY <1>1, <1>2, <1>4, <1>5, <1>6, StepKeeps DEF Idle

LEMMA ProbeSubdomainKeeps ==
    ASSUME PublishingAssumption, IInv, NEW r \in Req, NEW t \in Tenant, req[r].t = t,
           ProbeSubdomain(r)
    PROVE  IInv' /\ Settles(r)
<1> USE PublishingAssumption
<1>1. req[r].pc = "probe" /\ req[r] # Idle /\ UNCHANGED <<portfolio, tenant, revisions, torn>>
  BY DEF ProbeSubdomain, Idle
<1>2. CASE End(r)
  <2>1. TypeOK'
    BY <1>1, <1>2, HandlerMade DEF IInv, TypeOK, End, Goto, Handler, Idle
  <2> QED
    BY <1>1, <1>2, <2>1, EndKeeps DEF End, Records
<1>3. CASE Goto(r, [req[r] EXCEPT !.pc = "saveKeys"]) /\ UNCHANGED dirty
  <2> DEFINE h == [req[r] EXCEPT !.pc = "saveKeys"]
  <2>1. /\ h \in Handler /\ h.pc = "saveKeys" /\ h.t = t /\ h.ten = req[r].ten
    BY <1>1, HandlerAdvanced DEF IInv, TypeOK
  <2> HIDE DEF h
  <2>2. Goto(r, h) /\ dirty' = dirty
    BY <1>3 DEF h
  <2>3. TypeOK'
    BY <1>1, <2>1, <2>2 DEF IInv, TypeOK, Goto
  <2>4. Works(r, t, h) /\ Records(r) /\ Quiet(t)
    BY <1>1, <2>1, <2>2 DEF Works, Records, Quiet, Published
  <2>5. req'[r] = h
    BY <2>2, GotoReq DEF IInv
  <2>6. ~IsPublisher(h)
    BY <2>1 DEF IsPublisher
  <2>7. EditorAgrees(r)'
    BY <1>1, <2>1, <2>2, <2>5 DEF IInv, CarriedAgree, EditorAgrees
  <2>8. PublisherAgrees(r)'
    BY <2>5, <2>6 DEF PublisherAgrees
  <2> QED
    BY <1>1, <2>1, <2>2, <2>3, <2>4, <2>6, <2>7, <2>8, StepKeeps
<1> QED
  BY <1>2, <1>3 DEF ProbeSubdomain

LEMMA SaveKeysKeeps ==
    ASSUME PublishingAssumption, IInv, NEW r \in Req, NEW t \in Tenant, req[r].t = t,
           SaveKeys(r)
    PROVE  IInv' /\ Settles(r)
<1> USE PublishingAssumption
<1>1. /\ req[r].pc = "saveKeys" /\ req[r] # Idle
      /\ req[r].ten \in TenantRow /\ Idle \in Handler
  BY HandlerFields, HandlerMade DEF SaveKeys, IInv, TypeOK, Idle
<1>2. /\ KeysFree(t, req[r].ten) /\ tenant' = [tenant EXCEPT ![t] = req[r].ten]
      /\ Goto(r, Idle) /\ dirty' = Soil(r, t) \ {r}
      /\ UNCHANGED <<portfolio, revisions, torn>>
  BY DEF SaveKeys
<1>3. tenant'[t] = req[r].ten /\ \A u \in Tenant \ {t} : tenant'[u] = tenant[u]
  BY <1>2 DEF IInv, TypeOK
<1>4. TypeOK'
  BY <1>1, <1>2 DEF IInv, TypeOK, Goto, Soil
<1>5. Works(r, t, Idle) /\ Records(r)
  BY <1>1, <1>2, <1>3 DEF Works, Records, Soil, PublishingAssumption
<1>6. t \in dirty' \/ Quiet(t)
  <2>1. r \in dirty \/ t \in dirty => t \in dirty'
    BY <1>2 DEF Soil, PublishingAssumption
  <2>2. ASSUME r \notin dirty, t \notin dirty
        PROVE  req[r].ten.status = tenant[t].status
    BY <1>1, <2>2 DEF IInv, CarriedAgree, EditorAgrees
  <2> QED
    BY <1>2, <1>3, <2>1, <2>2 DEF Quiet, Published
<1> QED
  BY <1>1, <1>2, <1>4, <1>5, <1>6, StepKeeps DEF Idle

LEMMA SaveRefusedKeeps ==
    ASSUME PublishingAssumption, IInv, NEW r \in Req, NEW t \in Tenant, req[r].t = t,
           SaveRefused(r)
    PROVE  IInv' /\ Settles(r)
<1> USE PublishingAssumption
<1>1. /\ req[r].pc \in {"saveStatus", "saveKeys"} /\ req[r] # Idle /\ Idle \in Handler
      /\ Goto(r, Idle) /\ dirty' = Soil(r, t) \ {r}
      /\ UNCHANGED <<portfolio, tenant, revisions, torn>> /\ ~KeysFree(t, req[r].ten)
  BY DEF SaveRefused, Handler, Idle
<1>2. TypeOK'
  BY <1>1 DEF IInv, TypeOK, Goto, Soil
<1>3. req[r].pc = "saveStatus" => r \in dirty
  BY <1>1, CleanIsFree DEF IsPublisher
<1>4. req[r].pc = "saveStatus" => t \in dirty'
  BY <1>1, <1>3 DEF Soil, PublishingAssumption
<1>5. \A q \in (Req \cup Tenant) \ {r} : q \in dirty => q \in dirty'
  BY <1>1 DEF Soil
<1> QED
  BY <1>1, <1>2, <1>4, <1>5, EndKeeps DEF Records

LEMMA AbortKeeps ==
    ASSUME PublishingAssumption, IInv, NEW r \in Req, NEW t \in Tenant, req[r].t = t,
           Abort(r)
    PROVE  IInv' /\ Settles(r)
<1> USE PublishingAssumption
<1>1. req[r] # Idle /\ Goto(r, Idle) /\ UNCHANGED <<portfolio, tenant, revisions>> /\ Idle \in Handler
  BY DEF Abort, Handler, Idle
<1>2. /\ torn' = IF req[r].pc = "insertRevision"
                 THEN [torn EXCEPT ![t] = @ \cup {req[r].snapshot}] ELSE torn
      /\ dirty' = (IF req[r].pc \in {"insertRevision", "saveStatus"} THEN dirty \cup {t}
                   ELSE dirty) \ {r}
  BY DEF Abort
<1>3. req[r].pc = "insertRevision" => req[r].snapshot \in Sections
  BY HandlerFields DEF IInv, TypeOK
<1>4. TypeOK' /\ Records(r)
  <2>1. /\ torn' \in [Tenant -> SUBSET Sections]
        /\ \A u \in Tenant : torn[u] \subseteq torn'[u]
        /\ req[r].pc = "insertRevision" => req[r].snapshot \in torn'[t]
    BY <1>2, <1>3 DEF IInv, TypeOK
  <2> QED
    BY <1>1, <1>2, <2>1 DEF IInv, TypeOK, Records, Goto
<1>5. /\ \A q \in (Req \cup Tenant) \ {r} : q \in dirty => q \in dirty'
      /\ req[r].pc \in {"insertRevision", "saveStatus"} => t \in dirty'
  BY <1>2 DEF PublishingAssumption
<1> QED
  BY <1>1, <1>4, <1>5, EndKeeps

-----------------------------------------------------------------------------
(***************************************************************************)
(* The theorems about Publishing                                           *)
(***************************************************************************)

\* What arrives takes up an idle slot.
LEMMA ArriveStarts ==
    ASSUME NEW r \in Req, NEW ops, Arrive(r, ops)
    PROVE  UNCHANGED <<revisions, torn>> /\ \E h : Start(r, h)
<1>1. ASSUME NEW t \in Tenant, NEW kind \in Kind, ResolveTenant(r, t, kind)
      PROVE  UNCHANGED <<revisions, torn>> /\ \E h : Start(r, h)
  BY <1>1 DEF ResolveTenant
<1>2. ASSUME NEW t \in Tenant, NEW sub \in Sub, SetSubdomain(r, t, sub)
      PROVE  UNCHANGED <<revisions, torn>> /\ \E h : Start(r, h)
  BY <1>2 DEF SetSubdomain
<1>3. ASSUME NEW t \in Tenant, NEW dom \in Dom \cup {None}, SetCustomDomain(r, t, dom)
      PROVE  UNCHANGED <<revisions, torn>> /\ \E h : Start(r, h)
  BY <1>3 DEF SetCustomDomain
<1> QED
  BY <1>1, <1>2, <1>3 DEF Arrive

\* Each step is one handler's; it never drops a revision, and one about to be
\* inserted is inserted or torn.
LEMMA StepRecords ==
    ASSUME TypeOK, NEW r \in Req, NEW ops,
           Arrive(r, ops) \/ Continue(r) \/ SaveStatus(r) \/ Abort(r)
    PROVE  Records(r) /\ \E h : Goto(r, h)
<1>1. CASE Arrive(r, ops)
  BY <1>1, ArriveStarts DEF Start, Records, Idle
<1>2. CASE InsertRevision(r)
  <2>1. req[r].t \in Tenant
    BY <1>2, HandlerFields DEF InsertRevision, TypeOK, Idle
  <2> QED
    BY <1>2, <2>1 DEF InsertRevision, Records, TypeOK
<1>3. CASE Abort(r)
  <2>1. req[r].t \in Tenant
    BY <1>3, HandlerFields DEF Abort, TypeOK
  <2> QED
    BY <1>3, <2>1 DEF Abort, Records, TypeOK
<1>4. CASE SaveDraft(r) \/ SavePublished(r) \/ SaveKeys(r) \/ SaveRefused(r) \/ SaveStatus(r)
           \/ ProbeSubdomain(r)
  BY <1>4 DEF SaveDraft, SavePublished, SaveKeys, SaveRefused, SaveStatus, ProbeSubdomain, End,
              Records
<1>5. CASE ResolvePortfolio(r) \/ CreatePortfolio(r)
  BY <1>5 DEF ResolvePortfolio, CreatePortfolio, Proceed, End, Records
<1> QED
  BY <1>1, <1>2, <1>3, <1>4, <1>5 DEF Continue

\* Every step of a handler keeps the invariant, and settles what it should.
LEMMA EditorStep ==
    ASSUME PublishingAssumption, IInv, NEW r \in Req, NEW ops,
           Arrive(r, ops) \/ Continue(r) \/ SaveStatus(r) \/ Abort(r)
    PROVE  IInv' /\ Settles(r)
<1>1. CASE Continue(r) \/ SaveStatus(r) \/ Abort(r)
  <2>1. req[r] # Idle
    BY <1>1 DEF Continue, ResolvePortfolio, CreatePortfolio, SaveDraft, SavePublished,
                InsertRevision, ProbeSubdomain, SaveKeys, SaveRefused, SaveStatus, Abort, Idle
  <2>2. PICK t \in Tenant : req[r].t = t
    BY <2>1, HandlerFields DEF IInv, TypeOK
  <2> QED
    BY <1>1, <2>2, ResolvePortfolioKeeps, CreatePortfolioKeeps, SaveDraftKeeps,
       SavePublishedKeeps, InsertRevisionKeeps, ProbeSubdomainKeeps, SaveKeysKeeps,
       SaveRefusedKeeps, SaveStatusKeeps, AbortKeeps DEF Continue
<1> QED
  BY <1>1, ArriveKeeps

\* Nothing the invariant is about changes.
LEMMA StillIInv ==
    ASSUME IInv, UNCHANGED pubVars
    PROVE  IInv'
BY DEF pubVars, IInv, TypeOK, Accounted, AccountedFor, AccountedIn, Overlaps, KeysUnique,
       KeysFree, CarriedAgree, EditorAgrees, PublisherAgrees, StatusAgrees, Published,
       Publishing, On

LEMMA NextIInv ==
    ASSUME PublishingAssumption, IInv, [Next]_pubVars
    PROVE  IInv'
BY EditorStep, StillIInv DEF Next

\* The typing, what is published and what the handlers carry stay as described
\* under every interleaving of the handlers of portfolios.service.ts:60-262,
\* setSubdomain, unbind and bindDomainToTenant.
THEOREM Invariance == Spec => []IInv
<1>1. Init => IInv
  BY InitIInv
<1>2. IInv /\ [Next]_pubVars => IInv'
  BY NextIInv, PublishingAssumption
<1> QED
  BY <1>1, <1>2, PTL DEF Spec

\* Every stored row, and every row a handler of portfolios.service.ts or
\* tenants.service.ts carries, is a row of its table.
THEOREM TypeCorrect == Spec => []TypeOK
<1>1. IInv => TypeOK
  BY DEF IInv
<1> QED
  BY <1>1, Invariance, PTL

\* Whatever is online has its revision, unless its publish is about to insert
\* it or died there (portfolios.service.ts:132-139); stale saves of editors
\* included, for any number of handlers.
THEOREM RevisionsKept == Spec => []PublishedHasRevision
<1>1. IInv => PublishedHasRevision
  <2> SUFFICES ASSUME IInv, NEW t \in Tenant, Published(t) # None,
                      Published(t) \notin revisions[t] \cup torn[t]
               PROVE  \E q \in Publishing(t) :
                        req[q].pc = "insertRevision" /\ req[q].snapshot = Published(t)
    BY DEF PublishedHasRevision
  <2>1. portfolio[t] # None /\ Published(t) = portfolio[t].published
    BY DEF Published
  <2>2. PICK q \in Req : req[q].pc = "insertRevision" /\ req[q].t = t
                         /\ req[q].snapshot = Published(t)
    BY <2>1 DEF IInv, Accounted, AccountedFor, AccountedIn
  <2>3. q \in Publishing(t)
    BY <2>2 DEF Publishing, On, Idle
  <2> QED
    BY <2>2, <2>3
<1> QED
  BY <1>1, Invariance, PTL

\* The portfolio's row and the tenant's agree on whether it is online, except
\* where a publish or unpublish is at work, died between its saves, or was
\* overlapped by a save of a row loaded before
\* (portfolios.service.ts:130-142, 156-161).
THEOREM RowsAgree == Spec => []StatusAgrees
<1>1. IInv => StatusAgrees
  BY DEF IInv
<1> QED
  BY <1>1, Invariance, PTL

\* A publish or unpublish that no other handler of its tenant overlapped never
\* runs into a unique constraint with its last save (portfolios.service.ts:142,
\* 161): the keys on the row it loaded are still its tenant's own.
THEOREM UndisturbedIsNotRefused ==
    Spec => [](\A r \in Req : req[r].pc = "saveStatus" /\ r \notin dirty =>
                 KeysFree(req[r].t, req[r].ten))
<1>1. IInv => \A r \in Req : req[r].pc = "saveStatus" /\ r \notin dirty =>
                               KeysFree(req[r].t, req[r].ten)
  <2> SUFFICES ASSUME IInv, NEW r \in Req, req[r].pc = "saveStatus", r \notin dirty
               PROVE  KeysFree(req[r].t, req[r].ten)
    OBVIOUS
  <2>1. req[r].t \in Tenant /\ IsPublisher(req[r])
    BY HandlerFields DEF IInv, TypeOK, Idle, IsPublisher
  <2> QED
    BY <2>1, CleanIsFree
<1> QED
  BY <1>1, Invariance, PTL

-----------------------------------------------------------------------------
(***************************************************************************)
(* The public site                                                         *)
(***************************************************************************)

\* What is cached or about to be is, or was, published.
ServedAccounted ==
    /\ \A host \in Host : cache[host] # None =>
         cache[host].published # None /\ AccountedFor(cache[host].t, cache[host].published)
    /\ \A f \in Fill : fill[f].pc = "store" =>
         fill[f].config.published # None
         /\ AccountedFor(fill[f].config.t, fill[f].config.published)

\* A fill that nothing crossed has read what the rows still say.
FillFresh(f) ==
    f \notin raced =>
        /\ fill[f].pc = "found" => fill[f].host \in HostsOf(tenant[fill[f].t])
        /\ fill[f].pc = "store" =>
             /\ fill[f].host \in HostsOf(tenant[fill[f].config.t])
             /\ fill[f].config.published = Published(fill[f].config.t)
FillsFresh == \A f \in Fill : FillFresh(f)

\* A cached entry that is not excused is at an address its tenant still has.
CachedAtOwn ==
    \A host \in Host : cache[host] # None /\ host \notin excused =>
        host \in HostsOf(tenant[cache[host].t])

SiteIInv ==
    /\ IInv
    /\ SiteTypeOK
    /\ ServedAccounted
    /\ FillsFresh
    /\ CachedAtOwn
    /\ InvalidationReaches

\* The fields of a fill, by its pc.
LEMMA FillFields ==
    ASSUME NEW g \in Filling
    PROVE  /\ g.pc = "idle" <=> g = Idle
           /\ g.pc \in {"missed", "found", "store"} => g.host \in Host
           /\ g.pc = "found" => g.t \in Tenant
           /\ g.pc = "store" =>
                /\ g.config \in Config
                /\ g.config.t \in Tenant /\ g.config.published \in Sections
BY DEF Filling, Config, Idle

\* A host leads to one tenant at most (the unique constraints).
LEMMA OneOwner ==
    ASSUME PublishingAssumption, TypeOK, KeysUnique, NEW host \in Host,
           NEW t \in Tenant, NEW u \in Tenant,
           host \in HostsOf(tenant[t]), host \in HostsOf(tenant[u])
    PROVE  t = u
<1> SUFFICES ASSUME t # u PROVE FALSE
  OBVIOUS
<1>1. KeysFree(t, tenant[t]) /\ tenant[t] \in TenantRow /\ tenant[u] \in TenantRow
  BY DEF KeysUnique, TypeOK
<1> QED
  BY <1>1 DEF KeysFree, HostsOf, TenantRow, PublishingAssumption

-----------------------------------------------------------------------------
\* Editors write the rows, and mark the fills and hosts they cross.  After a
\* step that gives no address away unmarked and announces what it settles, the
\* cache is as good as before.
LEMMA EditKeeps ==
    ASSUME PublishingAssumption, SiteIInv, IInv', NEW r \in Req,
           Settles(r), Records(r), NEW h, Goto(r, h),
           PublishingHistory, UNCHANGED <<cache, fill, workload>>,
           deletions \subseteq deletions', deletions' \subseteq SUBSET Host,
           \A t \in Tenant : req[r].pc = "saveStatus" /\ req[r].t = t =>
               t \in dirty' \/ HostsOf(tenant'[t]) \in deletions'
    PROVE  SiteIInv'
<1> USE DEF SiteIInv
<1>1. /\ raced' = raced \cup Overtaken
      /\ excused' = excused \cup GivenUp
  BY DEF PublishingHistory
<1>2. /\ TypeOK /\ TypeOK' /\ KeysUnique'
      /\ \A host \in Host : cache[host] # None => cache[host].t \in Tenant
      /\ \A f \in Fill : fill[f] \in Filling
  BY DEF IInv, SiteTypeOK, Config
<1>3. SiteTypeOK'
  <2>1. GivenUp \subseteq Host
    BY <1>2 DEF GivenUp, HostsOf, TypeOK, TenantRow, Host
  <2>2. Overtaken \subseteq Fill
    BY DEF Overtaken
  <2> QED
    BY <1>1, <1>2, <2>1, <2>2 DEF SiteTypeOK
<1>4. ServedAccounted'
  <2>1. ASSUME NEW t \in Tenant, NEW p, AccountedFor(t, p)
        PROVE  AccountedIn(revisions', torn', req', t, p)
    BY <1>2, <2>1, StaysAccounted
  <2>2. ASSUME NEW host \in Host, cache[host] # None
        PROVE  /\ cache[host].published # None
               /\ AccountedIn(revisions', torn', req', cache[host].t, cache[host].published)
    BY <1>2, <2>1, <2>2 DEF ServedAccounted
  <2>3. ASSUME NEW f \in Fill, fill[f].pc = "store"
        PROVE  /\ fill[f].config.published # None
               /\ AccountedIn(revisions', torn', req', fill[f].config.t, fill[f].config.published)
    BY <1>2, <2>1, <2>3, FillFields DEF ServedAccounted
  <2> QED
    BY <2>2, <2>3 DEF ServedAccounted, AccountedFor
<1>5. ASSUME NEW f \in Fill, f \notin raced'
      PROVE  FillFresh(f)'
  <2>1. FillFresh(f) /\ f \notin raced /\ f \notin Overtaken
    BY <1>1, <1>5 DEF FillsFresh
  <2>2. ASSUME fill[f].pc = "found"
        PROVE  fill[f].host \in HostsOf(tenant'[fill[f].t])
    BY <1>2, <2>1, <2>2, FillFields DEF FillFresh, Overtaken
  <2>3. ASSUME fill[f].pc = "store", NEW t \in Tenant, t = fill[f].config.t
        PROVE  fill[f].host \in HostsOf(tenant'[t]) /\ fill[f].config.published = Published(t)'
    BY <1>2, <2>1, <2>3 DEF FillFresh, Overtaken
  <2> QED
    BY <1>2, <2>2, <2>3, FillFields DEF FillFresh, HostsOf
<1>6. FillsFresh'
  BY <1>5 DEF FillsFresh, FillFresh
<1>7. CachedAtOwn'
  <2> SUFFICES ASSUME NEW host \in Host, cache[host] # None, host \notin excused'
               PROVE  host \in HostsOf(tenant'[cache[host].t])
    BY DEF CachedAtOwn, HostsOf
  <2> QED
    BY <1>1, <1>2 DEF CachedAtOwn, GivenUp
<1>8. InvalidationReaches'
  <2> SUFFICES ASSUME NEW t \in Tenant, NEW host \in Host, t \notin dirty', Publishing(t)' = {},
                      host \in HostsOf(tenant'[t]), host \notin excused',
                      host \notin UNION deletions', cache[host] # None
               PROVE  cache[host].t = t /\ cache[host].published = Published(t)'
    BY DEF InvalidationReaches, HostsOf
  <2>1. host \notin excused /\ host \notin GivenUp /\ host \notin UNION deletions
    BY <1>1
  <2>2. cache[host].t \in Tenant /\ host \in HostsOf(tenant[cache[host].t])
    BY <1>2, <2>1 DEF CachedAtOwn
  <2>3. host \in HostsOf(tenant'[cache[host].t])
    BY <2>1, <2>2 DEF GivenUp
  <2>4. cache[host].t = t
    <3> HIDE DEF SiteIInv
    <3>1. host \in HostsOf(tenant'[t]) /\ host \in HostsOf(tenant'[cache[host].t])
      BY <2>3
    <3>2. KeysFree(t, tenant[t])' /\ tenant'[t] \in TenantRow /\ tenant'[cache[host].t] \in TenantRow
      BY <1>2, <2>2 DEF KeysUnique, TypeOK
    <3> QED
      BY <2>2, <3>1, <3>2 DEF KeysFree, HostsOf, TenantRow, PublishingAssumption
  <2>5. t \notin dirty /\ Publishing(t) = {} /\ Published(t)' = Published(t)
    BY DEF Settles
  <2> QED
    BY <2>1, <2>2, <2>4, <2>5 DEF InvalidationReaches
<1> QED
  BY <1>3, <1>4, <1>6, <1>7, <1>8

\* publish and unpublish that end early leave a dirty tenant.
LEMMA EditStep ==
    ASSUME PublishingAssumption, SiteIInv, NEW r \in Req, Edit(r)
    PROVE  SiteIInv'
<1>1. IInv /\ TypeOK /\ req[r] \in Handler
  BY DEF SiteIInv, IInv, TypeOK
<1>2. IInv' /\ Settles(r) /\ Records(r) /\ \E h : Goto(r, h)
  BY <1>1, EditorStep, StepRecords DEF Edit
<1>3. ASSUME NEW t \in Tenant, req[r].pc = "saveStatus", req[r].t = t
      PROVE  t \in dirty'
  <2>1. SaveRefused(r) \/ Abort(r)
    <3>1. ~Arrive(r, workload)
      BY <1>3, ArriveStarts DEF Start, Idle
    <3>2. Continue(r) => SaveRefused(r)
      BY <1>3 DEF Continue, ResolvePortfolio, CreatePortfolio, SaveDraft, SavePublished,
         InsertRevision, ProbeSubdomain, SaveKeys
    <3> QED
      BY <3>1, <3>2 DEF Edit
  <2>2. IsPublisher(req[r]) /\ t # r
    BY <1>3 DEF IsPublisher, PublishingAssumption
  <2>3. CASE SaveRefused(r)
    BY <1>1, <1>3, <2>2, <2>3, CleanIsFree DEF SaveRefused, Soil
  <2>4. CASE Abort(r)
    BY <1>3, <2>2, <2>4 DEF Abort
  <2> QED
    BY <2>1, <2>3, <2>4
<1> QED
  BY <1>2, <1>3, EditKeeps DEF Edit, SiteIInv, SiteTypeOK

\* publish and unpublish that come to their end announce the addresses they
\* have just saved.
LEMMA AnnounceStep ==
    ASSUME PublishingAssumption, SiteIInv, NEW r \in Req, Announce(r)
    PROVE  SiteIInv'
<1>1. IInv /\ TypeOK /\ req[r] \in Handler
  BY DEF SiteIInv, IInv, TypeOK
<1>2. IInv' /\ Settles(r) /\ Records(r) /\ \E h : Goto(r, h)
  BY <1>1, EditorStep, StepRecords DEF Announce
<1>3. req[r].pc = "saveStatus" /\ req[r].t \in Tenant /\ req[r].ten \in TenantRow
  BY <1>1, HandlerFields DEF Announce, SaveStatus, Idle
<1>4. tenant'[req[r].t] = req[r].ten
  BY <1>1, <1>3 DEF Announce, SaveStatus, TypeOK
<1>5. HostsOf(req[r].ten) \subseteq Host
  BY <1>3 DEF HostsOf, TenantRow, Host
<1>6. deletions' = deletions \cup {HostsOf(req[r].ten)}
  BY DEF Announce
<1>7. deletions \subseteq deletions' /\ deletions' \subseteq SUBSET Host
  BY <1>5, <1>6 DEF SiteIInv, SiteTypeOK
<1>8. \A t \in Tenant : req[r].t = t => HostsOf(tenant'[t]) \in deletions'
  BY <1>4, <1>6
<1> QED
  BY <1>2, <1>7, <1>8, EditKeeps DEF Announce

-----------------------------------------------------------------------------
\* A step of the visitors or the cache leaves the editors' invariant alone.
LEMMA RowsStay ==
    ASSUME SiteIInv, UNCHANGED pubVars
    PROVE  /\ IInv' /\ TypeOK'
           /\ \A t \in Tenant : /\ Published(t)' = Published(t)
                                /\ Publishing(t)' = Publishing(t)
           /\ \A t, p : AccountedIn(revisions', torn', req', t, p) <=> AccountedFor(t, p)
<1>1. IInv'
  BY StillIInv DEF SiteIInv
<1> QED
  BY <1>1 DEF IInv, pubVars, Published, Publishing, On, AccountedFor

\* A fill moves on, or ends, without a write.
LEMMA FillMoves ==
    ASSUME SiteIInv, NEW f \in Fill, NEW g \in Filling,
           fill' = [fill EXCEPT ![f] = g],
           raced' \subseteq raced, raced \subseteq raced' \cup {f},
           UNCHANGED <<cache, deletions, excused, pubVars, workload>>,
           g.pc = "store" =>
               /\ g.config.published # None
               /\ AccountedFor(g.config.t, g.config.published),
           f \notin raced' =>
               /\ g.pc = "found" => g.host \in HostsOf(tenant[g.t])
               /\ g.pc = "store" =>
                    /\ g.host \in HostsOf(tenant[g.config.t])
                    /\ g.config.published = Published(g.config.t)
    PROVE  SiteIInv'
<1> USE DEF SiteIInv
<1>1. /\ IInv' /\ TypeOK'
      /\ \A t \in Tenant : Published(t)' = Published(t) /\ Publishing(t)' = Publishing(t)
      /\ \A t, p : AccountedIn(revisions', torn', req', t, p) <=> AccountedFor(t, p)
  BY RowsStay
<1>2. /\ fill'[f] = g /\ fill' \in [Fill -> Filling]
      /\ \A e \in Fill \ {f} : fill'[e] = fill[e]
  BY DEF SiteTypeOK
<1>3. SiteTypeOK'
  BY <1>1, <1>2 DEF SiteTypeOK
<1>4. ServedAccounted'
  BY <1>1, <1>2 DEF ServedAccounted, AccountedFor
<1>5. ASSUME NEW e \in Fill, e \notin raced'
      PROVE  /\ fill'[e].pc = "found" => fill'[e].host \in HostsOf(tenant'[fill'[e].t])
             /\ fill'[e].pc = "store" =>
                  /\ fill'[e].host \in HostsOf(tenant'[fill'[e].config.t])
                  /\ \A t \in Tenant : t = fill'[e].config.t =>
                                          fill'[e].config.published = Published(t)'
  <2>1. tenant' = tenant
    BY DEF pubVars
  <2>2. CASE e = f
    BY <1>1, <1>2, <1>5, <2>1, <2>2
  <2>3. CASE e # f
    <3>1. FillFresh(e) /\ e \notin raced /\ fill'[e] = fill[e]
      BY <1>2, <1>5, <2>3 DEF FillsFresh
    <3> QED
      BY <1>1, <2>1, <3>1 DEF FillFresh
  <2> QED
    BY <2>2, <2>3
<1>6. FillsFresh'
  <2>1. \A e \in Fill : fill'[e].pc = "store" => fill'[e].config.t \in Tenant
    BY <1>2, FillFields
  <2> QED
    BY <1>5, <2>1 DEF FillsFresh, FillFresh, HostsOf
<1>7. CachedAtOwn'
  BY DEF CachedAtOwn, HostsOf, pubVars
<1>8. InvalidationReaches'
  BY <1>1 DEF InvalidationReaches, HostsOf, pubVars
<1> QED
  BY <1>1, <1>3, <1>4, <1>6, <1>7, <1>8

\* A fill's two reads.
LEMMA FillReadSteps ==
    ASSUME PublishingAssumption, SiteIInv, NEW f \in Fill,
           \/ \E host \in Host : FillMiss(f, host)
           \/ FillTenant(f) \/ FillPortfolio(f) \/ FillAbort(f)
    PROVE  SiteIInv'
<1>1. /\ TypeOK /\ fill[f] \in Filling /\ Idle \in Filling /\ Idle.pc = "idle"
  BY DEF SiteIInv, SiteTypeOK, Filling, Idle
<1>2. ASSUME NEW host \in Host, FillMiss(f, host)
      PROVE  SiteIInv'
  <2> DEFINE g == [pc |-> "missed", host |-> host]
  <2>1. fill' = [fill EXCEPT ![f] = g]
    BY <1>2 DEF FillMiss
  <2>2. g \in Filling /\ g.pc = "missed"
    BY DEF Filling
  <2> HIDE DEF g
  <2> QED
    BY <1>2, <2>1, <2>2, FillMoves DEF FillMiss
<1>3. CASE FillTenant(f)
  <2> DEFINE host == fill[f].host
  <2>1. host \in Host
    BY <1>1, <1>3, FillFields DEF FillTenant
  <2>2. ASSUME NEW t \in FoundAt(host),
               fill' = [fill EXCEPT ![f] = [pc |-> "found", host |-> host, t |-> t]]
        PROVE  SiteIInv'
    <3> DEFINE g == [pc |-> "found", host |-> host, t |-> t]
    <3>1. g \in Filling /\ g.pc = "found" /\ g.host = host /\ g.t = t /\ host \in HostsOf(tenant[t])
      BY <2>1 DEF Filling, FoundAt
    <3>2. fill' = [fill EXCEPT ![f] = g]
      BY <2>2
    <3> HIDE DEF g
    <3> QED
      BY <1>3, <3>1, <3>2, FillMoves DEF FillTenant
  <2>3. CASE fill' = [fill EXCEPT ![f] = Idle]
    BY <1>1, <1>3, <2>3, FillMoves DEF FillTenant
  <2> QED
    BY <1>3, <2>2, <2>3 DEF FillTenant
<1>4. CASE FillPortfolio(f)
  <2> DEFINE t == fill[f].t
  <2>1. /\ fill[f].pc = "found" /\ t \in Tenant /\ fill[f].host \in Host
        /\ UNCHANGED <<cache, deletions, excused, pubVars, workload>>
    BY <1>1, <1>4, FillFields DEF FillPortfolio
  <2>2. CASE Published(t) = None
    <3>1. fill' = [fill EXCEPT ![f] = Idle] /\ raced' = raced \ {f}
      BY <1>4, <2>2 DEF FillPortfolio
    <3> QED
      BY <1>1, <2>1, <3>1, FillMoves
  <2>3. CASE Published(t) # None
    <3> DEFINE g == [pc |-> "store", host |-> fill[f].host, config |-> ConfigOf(t)]
    <3>1. fill' = [fill EXCEPT ![f] = g] /\ raced' = raced
      BY <1>4, <2>3 DEF FillPortfolio
    <3>2. portfolio[t] \in PortfolioRow /\ Published(t) = portfolio[t].published
      BY <1>1, <2>1, <2>3 DEF Published, TypeOK
    <3>3. ConfigOf(t) \in Config /\ ConfigOf(t).t = t /\ ConfigOf(t).published = Published(t)
      BY <2>1, <2>3, <3>2 DEF ConfigOf, Config, PortfolioRow
    <3>4. g \in Filling /\ g.pc = "store" /\ g.host = fill[f].host /\ g.config = ConfigOf(t)
      BY <2>1, <3>3 DEF Filling
    <3> HIDE DEF g
    <3>5. AccountedFor(t, Published(t))
      BY <2>1, <2>3, <3>2 DEF SiteIInv, IInv, Accounted, Published
    <3>6. f \notin raced => fill[f].host \in HostsOf(tenant[t])
      BY <2>1 DEF SiteIInv, FillsFresh, FillFresh
    <3> QED
      BY <2>1, <2>3, <3>1, <3>3, <3>4, <3>5, <3>6, FillMoves
  <2> QED
    BY <2>2, <2>3
<1>5. CASE FillAbort(f)
  BY <1>1, <1>5, FillMoves DEF FillAbort
<1> QED
  BY <1>2, <1>3, <1>4, <1>5

-----------------------------------------------------------------------------
\* A step of the cache: entries go, or the config of a fill f comes in at its
\* host.
LEMMA CacheMoves ==
    ASSUME PublishingAssumption, SiteIInv, cache' \in [Host -> Config \cup {None}],
           fill' \in [Fill -> Filling], raced' \subseteq raced, excused' \subseteq Host,
           deletions' \subseteq deletions, UNCHANGED <<pubVars, workload>>,
           \A f \in Fill : \/ fill'[f].pc = "idle"
                           \/ fill'[f] = fill[f] /\ (f \in raced => f \in raced'),
           \A host \in Host :
              \/ cache'[host] = None
              \/ /\ cache'[host] = cache[host]
                 /\ host \in excused => host \in excused'
                 /\ host \in UNION deletions => host \in excused' \cup UNION deletions'
              \/ \E f \in Fill : /\ fill[f].pc = "store" /\ fill[f].host = host
                                 /\ cache'[host] = fill[f].config
                                 /\ f \in raced => host \in excused'
    PROVE  SiteIInv'
<1> USE DEF SiteIInv
<1>1. /\ IInv' /\ TypeOK' /\ TypeOK /\ KeysUnique
      /\ \A t \in Tenant : Published(t)' = Published(t) /\ Publishing(t)' = Publishing(t)
      /\ \A t, p : AccountedIn(revisions', torn', req', t, p) <=> AccountedFor(t, p)
  BY RowsStay DEF IInv
<1>2. SiteTypeOK'
  BY <1>1 DEF SiteTypeOK
<1>3. tenant' = tenant /\ \A f \in Fill : fill[f] \in Filling
  BY DEF pubVars, SiteTypeOK
<1>4. ServedAccounted'
  <2>1. ASSUME NEW host \in Host, cache'[host] # None
        PROVE  /\ cache'[host].published # None
               /\ AccountedFor(cache'[host].t, cache'[host].published)
    BY <2>1 DEF ServedAccounted
  <2>2. ASSUME NEW f \in Fill, fill'[f].pc = "store"
        PROVE  /\ fill'[f].config.published # None
               /\ AccountedFor(fill'[f].config.t, fill'[f].config.published)
    BY <2>2 DEF ServedAccounted
  <2> QED
    BY <1>1, <2>1, <2>2 DEF ServedAccounted, AccountedFor
<1>5. FillsFresh'
  <2> SUFFICES ASSUME NEW f \in Fill, f \notin raced'
               PROVE  FillFresh(f)'
    BY DEF FillsFresh, FillFresh
  <2>1. CASE fill'[f].pc = "idle"
    BY <2>1 DEF FillFresh
  <2>2. CASE fill'[f] = fill[f] /\ f \notin raced
    <3>1. FillFresh(f)
      BY <2>2 DEF FillsFresh
    <3>2. /\ fill[f].pc = "found" => HostsOf(tenant[fill[f].t])' = HostsOf(tenant[fill[f].t])
          /\ fill[f].pc = "store" =>
               /\ HostsOf(tenant[fill[f].config.t])' = HostsOf(tenant[fill[f].config.t])
               /\ Published(fill[f].config.t)' = Published(fill[f].config.t)
      BY <1>1, <1>3, <2>2, FillFields DEF HostsOf, Published, pubVars
    <3> QED
      BY <2>2, <3>1, <3>2 DEF FillFresh
  <2> QED
    BY <2>1, <2>2
<1>6. ASSUME NEW host \in Host, cache'[host] # None, host \notin excused'
      PROVE  \/ /\ cache'[host] = cache[host] /\ host \notin excused
                /\ host \in UNION deletions => host \in UNION deletions'
             \/ /\ cache'[host].t \in Tenant /\ host \in HostsOf(tenant[cache'[host].t])
                /\ cache'[host].published = Published(cache'[host].t)
  <2>1. CASE /\ cache'[host] = cache[host]
             /\ host \in excused => host \in excused'
             /\ host \in UNION deletions => host \in excused' \cup UNION deletions'
    BY <1>6, <2>1
  <2>2. ASSUME NEW f \in Fill, fill[f].pc = "store", fill[f].host = host,
               cache'[host] = fill[f].config, f \notin raced
        PROVE  /\ cache'[host].t \in Tenant /\ host \in HostsOf(tenant[cache'[host].t])
               /\ cache'[host].published = Published(cache'[host].t)
    BY <1>3, <2>2, FillFields DEF FillsFresh, FillFresh
  <2> QED
    BY <1>6, <2>1, <2>2
<1>7. CachedAtOwn'
  <2> SUFFICES ASSUME NEW host \in Host, cache'[host] # None, host \notin excused'
               PROVE  host \in HostsOf(tenant[cache'[host].t])
    BY <1>3 DEF CachedAtOwn, HostsOf
  <2> QED
    BY <1>6 DEF CachedAtOwn
<1>8. InvalidationReaches'
  <2> SUFFICES ASSUME NEW t \in Tenant, NEW host \in Host, t \notin dirty, Publishing(t) = {},
                      host \in HostsOf(tenant[t]), host \notin excused',
                      host \notin UNION deletions', cache'[host] # None
               PROVE  cache'[host].t = t /\ cache'[host].published = Published(t)
    BY <1>1, <1>3 DEF InvalidationReaches, HostsOf, pubVars
  <2>1. CASE /\ cache'[host] = cache[host] /\ host \notin excused
             /\ host \in UNION deletions => host \in UNION deletions'
    BY <2>1 DEF InvalidationReaches
  <2>2. CASE /\ cache'[host].t \in Tenant /\ host \in HostsOf(tenant[cache'[host].t])
             /\ cache'[host].published = Published(cache'[host].t)
    <3>1. cache'[host].t = t
      BY <1>1, <2>2, OneOwner
    <3> QED
      BY <2>2, <3>1
  <2> QED
    BY <1>6, <2>1, <2>2
<1> QED
  BY <1>1, <1>2, <1>4, <1>5, <1>7, <1>8

\* The store of a fill, the end of an entry's time, and the DEL that runs or is
\* lost are such steps.
LEMMA CacheSteps ==
    ASSUME PublishingAssumption, SiteIInv,
           \/ \E f \in Fill : FillStore(f)
           \/ \E host \in Host : ExpireEntry(host)
           \/ \E keys \in deletions : Invalidate(keys) \/ LoseInvalidation(keys)
    PROVE  SiteIInv'
<1>1. /\ cache \in [Host -> Config \cup {None}] /\ fill \in [Fill -> Filling]
      /\ deletions \subseteq SUBSET Host /\ raced \subseteq Fill /\ excused \subseteq Host
  BY DEF SiteIInv, SiteTypeOK
<1>2. Idle \in Filling /\ Idle.pc = "idle"
  BY DEF Filling, Idle
<1>3. ASSUME NEW f \in Fill, FillStore(f)
      PROVE  SiteIInv'
  <2>1. fill[f].pc = "store" /\ fill[f].host \in Host /\ fill[f].config \in Config
    BY <1>1, <1>3, FillFields DEF FillStore
  <2>2. /\ cache'[fill[f].host] = fill[f].config
        /\ cache' \in [Host -> Config \cup {None}]
        /\ \A host \in Host \ {fill[f].host} : cache'[host] = cache[host]
    BY <1>1, <1>3, <2>1 DEF FillStore
  <2>3. /\ fill' \in [Fill -> Filling] /\ fill'[f] = Idle
        /\ \A e \in Fill \ {f} : fill'[e] = fill[e]
    BY <1>1, <1>2, <1>3 DEF FillStore
  <2>4. /\ excused' \subseteq Host /\ excused \subseteq excused' \cup {fill[f].host}
        /\ f \in raced => fill[f].host \in excused'
        /\ raced' = raced \ {f} /\ UNCHANGED <<deletions, pubVars, workload>>
    BY <1>1, <1>3, <2>1 DEF FillStore
  <2>5. \A e \in Fill : \/ fill'[e].pc = "idle"
                        \/ fill'[e] = fill[e] /\ (e \in raced => e \in raced')
    BY <1>2, <2>3, <2>4
  <2>6. ASSUME NEW host \in Host
        PROVE  \/ /\ cache'[host] = cache[host]
                  /\ host \in excused => host \in excused'
                  /\ host \in UNION deletions => host \in excused' \cup UNION deletions'
               \/ \E e \in Fill : /\ fill[e].pc = "store" /\ fill[e].host = host
                                  /\ cache'[host] = fill[e].config
                                  /\ e \in raced => host \in excused'
    BY <2>1, <2>2, <2>4
  <2> QED
    BY <2>2, <2>3, <2>4, <2>5, <2>6, CacheMoves
<1>4. ASSUME NEW host \in Host, ExpireEntry(host)
      PROVE  SiteIInv'
  <2>1. /\ cache' \in [Host -> Config \cup {None}] /\ cache'[host] = None
        /\ \A k \in Host \ {host} : cache'[k] = cache[k]
    BY <1>1, <1>4 DEF ExpireEntry
  <2>2. excused' = excused \ {host} /\ UNCHANGED <<fill, deletions, raced, pubVars, workload>>
    BY <1>4 DEF ExpireEntry
  <2>3. ASSUME NEW k \in Host
        PROVE  \/ cache'[k] = None
               \/ /\ cache'[k] = cache[k]
                  /\ k \in excused => k \in excused'
                  /\ k \in UNION deletions => k \in excused' \cup UNION deletions'
    BY <2>1, <2>2
  <2> QED
    BY <1>1, <2>1, <2>2, <2>3, CacheMoves
<1>5. ASSUME NEW keys \in deletions, Invalidate(keys)
      PROVE  SiteIInv'
  <2>1. /\ cache' \in [Host -> Config \cup {None}]
        /\ \A k \in Host : cache'[k] = IF k \in keys THEN None ELSE cache[k]
    BY <1>1, <1>5 DEF Invalidate
  <2>2. /\ deletions' = deletions \ {keys} /\ excused' = excused \ keys
        /\ UNCHANGED <<fill, raced, pubVars, workload>>
    BY <1>5 DEF Invalidate
  <2>3. ASSUME NEW k \in Host
        PROVE  \/ cache'[k] = None
               \/ /\ cache'[k] = cache[k]
                  /\ k \in excused => k \in excused'
                  /\ k \in UNION deletions => k \in excused' \cup UNION deletions'
    BY <2>1, <2>2
  <2> QED
    BY <1>1, <2>1, <2>2, <2>3, CacheMoves
<1>6. ASSUME NEW keys \in deletions, LoseInvalidation(keys)
      PROVE  SiteIInv'
  <2>1. /\ deletions' = deletions \ {keys} /\ excused' = excused \cup keys
        /\ UNCHANGED <<cache, fill, raced, pubVars, workload>>
    BY <1>6 DEF LoseInvalidation
  <2>2. ASSUME NEW k \in Host
        PROVE  /\ cache'[k] = cache[k]
               /\ k \in excused => k \in excused'
               /\ k \in UNION deletions => k \in excused' \cup UNION deletions'
    BY <2>1
  <2> QED
    BY <1>1, <2>1, <2>2, CacheMoves
<1> QED
  BY <1>3, <1>4, <1>5, <1>6

-----------------------------------------------------------------------------
\* The cache starts empty.
LEMMA InitSiteIInv == InitSite => SiteIInv
<1> SUFFICES ASSUME InitSite
             PROVE  SiteIInv
  OBVIOUS
<1>1. IInv
  BY InitIInv DEF InitSite
<1>2. SiteTypeOK
  BY <1>1 DEF InitSite, SiteTypeOK, IInv, Filling, Idle
<1>3. \A host \in Host : cache[host] = None
  BY DEF InitSite
<1>4. \A f \in Fill : fill[f].pc = "idle"
  BY DEF InitSite, Idle
<1> QED
  BY <1>1, <1>2, <1>3, <1>4 DEF SiteIInv, ServedAccounted, FillsFresh, FillFresh, CachedAtOwn,
     InvalidationReaches

\* Every step of the composed system keeps the invariant.
LEMMA NextSiteIInv ==
    ASSUME PublishingAssumption, SiteIInv, [NextSite]_allVars
    PROVE  SiteIInv'
<1>1. CASE UNCHANGED allVars
  <2>1. /\ IInv' /\ TypeOK'
        /\ \A t \in Tenant : Published(t)' = Published(t) /\ Publishing(t)' = Publishing(t)
        /\ \A t, p : AccountedIn(revisions', torn', req', t, p) <=> AccountedFor(t, p)
    BY <1>1, RowsStay DEF allVars, pubVars
  <2>2. SiteTypeOK' /\ ServedAccounted' /\ CachedAtOwn' /\ InvalidationReaches'
    BY <1>1, <2>1 DEF allVars, SiteIInv, SiteTypeOK, ServedAccounted, CachedAtOwn,
       InvalidationReaches, HostsOf, AccountedFor
  <2>3. FillsFresh'
    BY <1>1 DEF allVars, SiteIInv, FillsFresh, FillFresh, HostsOf, Published
  <2> QED
    BY <2>1, <2>2, <2>3 DEF SiteIInv
<1>2. ASSUME NEW f \in Fill, Visit(f)
      PROVE  SiteIInv'
  BY <1>2, FillReadSteps, CacheSteps DEF Visit
<1> QED
  BY <1>1, <1>2, EditStep, AnnounceStep, CacheSteps DEF NextSite

\* Editors, visitors, the cache and the event bus keep the invariant between
\* them (public.service.ts:47-77, config-cache.service.ts:39-61).
THEOREM SiteInvariance == SpecSite => []SiteIInv
<1>1. SiteIInv /\ [NextSite]_allVars => SiteIInv'
  BY NextSiteIInv, PublishingAssumption
<1> QED
  BY <1>1, InitSiteIInv, PTL DEF SpecSite

\* The cache holds configs of existing tenants under hosts, and each call in
\* flight what it has read (public.service.ts:47-77).
THEOREM SiteTypeCorrect == SpecSite => []SiteTypeOK
<1>1. SiteIInv => SiteTypeOK
  BY DEF SiteIInv
<1> QED
  BY <1>1, SiteInvariance, PTL

\* Whatever visitors are served was published by the site's owner: no draft
\* and no half-saved edit gets into the cache, whoever overlaps whom
\* (public.service.ts:47-77, portfolios.service.ts:132-139).
THEOREM OnlyPublishedServed == SpecSite => []ServesOnlyPublished
<1>1. SiteIInv => ServesOnlyPublished
  <2> SUFFICES ASSUME SiteIInv, NEW host \in Host, cache[host] # None,
                      NEW t, t = cache[host].t, NEW p, p = cache[host].published,
                      p \notin revisions[t] \cup torn[t]
               PROVE  \E q \in Publishing(t) :
                        req[q].pc = "insertRevision" /\ req[q].snapshot = p
    BY DEF ServesOnlyPublished
  <2>1. PICK q \in Req : req[q].pc = "insertRevision" /\ req[q].t = t /\ req[q].snapshot = p
    BY DEF SiteIInv, ServedAccounted, AccountedFor, AccountedIn
  <2>2. q \in Publishing(t)
    BY <2>1 DEF Publishing, On, Idle
  <2> QED
    BY <2>1, <2>2
<1> QED
  BY <1>1, SiteInvariance, PTL

\* Once a publish and its event are through, the addresses of the tenant serve
\* its site as published now, unless a fill or an address change crossed it or
\* the DEL was lost (config-cache.service.ts:39-47, portfolios.service.ts:144-149,
\* 163-168).
THEOREM EventsReach == SpecSite => []InvalidationReaches
<1>1. SiteIInv => InvalidationReaches
  BY DEF SiteIInv
<1> QED
  BY <1>1, SiteInvariance, PTL
=============================================================================
