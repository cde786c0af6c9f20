---------------------------- MODULE TenantsProofs ----------------------------
(***************************************************************************)
(* Theorems about Tenants, for any users, subdomains, calls and handlers.  *)
(*                                                                         *)
(* Both properties rest on one fact about the rows that handlers carry:    *)
(* unless the handler is stale, its row is the stored one or, when it is   *)
(* about to be saved, the stored one with the change the operation is      *)
(* about.                                                                  *)
(***************************************************************************)
EXTENDS Tenants, TLAPS

Carrying == {"hydrate", "taken?", "save"}

\* h carries a row of its user that was read or saved last.
Fits(h) ==
    /\ tenant[h.u] # None
    /\ h.pc \in {"hydrate", "taken?"} => h.row = tenant[h.u]
    /\ h.pc = "save" => h.row = Intended(h.for, tenant[h.u], h.row)

Fresh == \A r \in Req : req[r].pc \in Carrying /\ r \notin stale => Fits(req[r])

IInv == TypeOK /\ Fresh

-----------------------------------------------------------------------------
(***************************************************************************)
(* Handlers                                                                *)
(***************************************************************************)

\* What a handler state holds, by its pc.
LEMMA HandlerFields ==
    ASSUME NEW h \in Handler
    PROVE  /\ h.pc \in {"find", "owner", "refetch"} => h.u \in User /\ h.want \in Sub \cup {None}
           /\ h.pc = "probe" => h.u \in User /\ h.want \in Sub \cup {None} /\ h.left \in 1..Probes
           /\ h.pc = "insert" => h.u \in User /\ h.want \in Sub \cup {None} /\ h.sub \in Slug
           /\ h.pc = "hydrate" => h.u \in User /\ h.want \in Sub \cup {None} /\ h.row \in Row
           /\ h.pc = "reload" => h.u \in User /\ h.want \in Sub
           /\ h.pc = "taken?" => h.u \in User /\ h.want \in Sub /\ h.row \in Row
           /\ h.pc = "save" => /\ h.u \in User /\ h.row \in Row
                               /\ h.for \in {"subdomain", "domain", "status"}
BY DEF Handler

\* The states that the operators of the handlers make.
LEMMA HandlerStates ==
    ASSUME NEW u \in User
    PROVE  /\ Idle \in Handler /\ Idle.pc = "idle"
           /\ \A want \in Sub \cup {None}, row \in Row :
                /\ Hydrate(u, want, row) \in Handler
                /\ Hydrate(u, want, row).pc = "hydrate"
                /\ Hydrate(u, want, row).u = u
                /\ Hydrate(u, want, row).row = row
           /\ \A want \in Sub \cup {None}, pc \in {"find", "owner", "refetch"} :
                [pc |-> pc, u |-> u, want |-> want] \in Handler
           /\ \A want \in Sub : [pc |-> "reload", u |-> u, want |-> want] \in Handler
BY DEF Handler, Hydrate, Idle

\* A step that sets r's handler to h and leaves the tables and stale alone, or
\* takes r from stale when h carries nothing.
LEMMA GotoFresh ==
    ASSUME IInv, NEW r \in Req, NEW h \in Handler, Goto(r, h),
           UNCHANGED <<live, tenant>>,
           \/ UNCHANGED stale
           \/ stale' = stale \ {r} /\ h.pc \notin Carrying,
           h.pc \in Carrying /\ r \notin stale => Fits(h)
    PROVE  IInv'
<1>1. req' \in [Req -> Handler] /\ req'[r] = h /\ \A q \in Req \ {r} : req'[q] = req[q]
  BY DEF Goto, IInv, TypeOK
<1>2. TypeOK'
  BY <1>1 DEF IInv, TypeOK
<1>3. Fresh'
  <2> SUFFICES ASSUME NEW q \in Req, req'[q].pc \in Carrying, q \notin stale'
               PROVE  Fits(req[q])'
    BY DEF Fresh
  <2>1. CASE q = r
    <3>1. Fits(h)
      BY <1>1, <2>1
    <3> QED
      BY <1>1, <2>1, <3>1 DEF Fits
  <2>2. CASE q # r
    <3>1. q \notin stale /\ req'[q] = req[q] /\ Fits(req[q])
      BY <1>1, <2>2 DEF IInv, Fresh
    <3> QED
      BY <3>1 DEF Fits
  <2> QED
    BY <2>1, <2>2
<1> QED
  BY <1>2, <1>3 DEF IInv

-----------------------------------------------------------------------------
(***************************************************************************)
(* One lemma per step that does more                                       *)
(***************************************************************************)

\* A query for the caller's row leads to a handler that carries it, or to
\* one that carries nothing.
LEMMA FoundFits ==
    ASSUME IInv, NEW u \in User, NEW want \in Sub \cup {None}, tenant[u] # None
    PROVE  /\ tenant[u] \in Row
           /\ Hydrate(u, want, tenant[u]) \in Handler
           /\ Fits(Hydrate(u, want, tenant[u]))
<1>1. tenant[u] \in Row
  BY DEF IInv, TypeOK
<1> QED
  BY <1>1, HandlerStates DEF Fits, Hydrate

\* setSubdomain goes on with a row just read.
LEMMA WithOwnFits ==
    ASSUME IInv, NEW u \in User, NEW want \in Sub, tenant[u] # None
    PROVE  /\ WithOwn(u, want, tenant[u]) \in Handler
           /\ Fits(WithOwn(u, want, tenant[u]))
<1>1. tenant[u] \in Row
  BY DEF IInv, TypeOK
<1>2. CASE tenant[u].sub = want
  BY <1>2, FoundFits DEF WithOwn
<1>3. CASE tenant[u].sub # want
  <2>1. WithOwn(u, want, tenant[u]) = [pc |-> "taken?", u |-> u, want |-> want, row |-> tenant[u]]
    BY <1>3 DEF WithOwn
  <2> QED
    BY <1>1, <2>1 DEF Handler, Fits
<1> QED
  BY <1>2, <1>3

LEMMA FindOwnStep ==
    ASSUME IInv, NEW r \in Req, NEW u \in User, NEW want \in Sub \cup {None},
           FindOwn(r, u, want, "owner"), UNCHANGED <<live, tenant, stale>>
    PROVE  IInv'
<1>1. CASE tenant[u] # None
  <2>1. Goto(r, Hydrate(u, want, tenant[u]))
    BY <1>1 DEF FindOwn
  <2> QED
    BY <1>1, <2>1, FoundFits, GotoFresh
<1>2. CASE tenant[u] = None
  <2> DEFINE h == [pc |-> "owner", u |-> u, want |-> want]
  <2>1. Goto(r, h)
    BY <1>2 DEF FindOwn
  <2>2. h \in Handler /\ h.pc \notin Carrying
    BY HandlerStates DEF Carrying
  <2> HIDE DEF h
  <2> QED
    BY <2>1, <2>2, GotoFresh
<1> QED
  BY <1>1, <1>2

\* A new handler state that carries nothing keeps the invariant.
LEMMA PlainStep ==
    ASSUME IInv, NEW r \in Req, NEW h \in Handler, Goto(r, h), h.pc \notin Carrying,
           UNCHANGED <<live, tenant>>, stale' = stale \/ stale' = stale \ {r}
    PROVE  IInv'
BY GotoFresh

LEMMA GetStep == ASSUME IInv, NEW r \in Req, NEW u \in User, Get(r, u) PROVE IInv'
BY FindOwnStep DEF Get

LEMMA FindStep == ASSUME IInv, NEW r \in Req, Find(r) PROVE IInv'
<1>1. req[r] \in Handler
  BY DEF IInv, TypeOK
<1> QED
  BY <1>1, HandlerFields, FindOwnStep DEF Find

LEMMA LoadOwnerStep == ASSUME IInv, NEW r \in Req, LoadOwner(r) PROVE IInv'
<1> DEFINE h == [pc |-> "probe", u |-> req[r].u, want |-> req[r].want, left |-> Probes]
<1>1. req[r] \in Handler
  BY DEF IInv, TypeOK
<1>2. h \in Handler /\ h.pc \notin Carrying
  <2>1. Probes \in 1..Probes
    BY TenantsAssumption
  <2> QED
    BY <1>1, <2>1, HandlerFields DEF LoadOwner, Handler, Carrying
<1>3. Goto(r, h) /\ UNCHANGED <<live, tenant, stale>>
  BY DEF LoadOwner
<1> HIDE DEF h
<1> QED
  BY <1>2, <1>3, PlainStep

LEMMA ProbeStep == ASSUME IInv, NEW r \in Req, Probe(r) PROVE IInv'
<1>1. req[r] \in Handler /\ req[r].pc = "probe"
  BY DEF IInv, TypeOK, Probe
<1>2. req[r].u \in User /\ req[r].want \in Sub \cup {None} /\ req[r].left \in 1..Probes
  BY <1>1, HandlerFields
<1> DEFINE I(s) == [pc |-> "insert", u |-> req[r].u, want |-> req[r].want, sub |-> s]
           P == [pc |-> "probe", u |-> req[r].u, want |-> req[r].want, left |-> req[r].left - 1]
<1>3. \A s \in Slug : I(s) \in Handler /\ I(s).pc \notin Carrying
  BY <1>2 DEF Handler, Carrying
<1>4. req[r].left > 1 => P \in Handler /\ P.pc \notin Carrying
  <2> SUFFICES ASSUME req[r].left > 1 PROVE P \in Handler /\ P.pc \notin Carrying
    OBVIOUS
  <2>1. req[r].left - 1 \in 1..Probes
    BY <1>2, TenantsAssumption
  <2> QED
    BY <1>2, <2>1 DEF Handler, Carrying
<1>5. Idle \in Handler /\ Idle.pc \notin Carrying
  BY DEF Handler, Idle, Carrying
<1>6. PICK s \in Slug : Goto(r, I(s)) \/ (req[r].left > 1 /\ Goto(r, P)) \/ Goto(r, Idle)
  <2>1. PICK s \in Slug :
          Goto(r, CASE \A v \in User : tenant[v] # None => tenant[v].sub # s -> I(s)
                    [] (\E v \in User : tenant[v] # None /\ tenant[v].sub = s)
                         /\ req[r].left > 1 -> P
                    [] OTHER -> Idle)
    BY DEF Probe
  <2> HIDE DEF I, P
  <2> QED
    BY <2>1
<1>7. UNCHANGED <<live, tenant, stale>>
  BY DEF Probe
<1> HIDE DEF I, P
<1> QED
  BY <1>3, <1>4, <1>5, <1>6, <1>7, PlainStep

\* After the row was made or read, a GET ends and setSubdomain reads it again.
LEMMA CreatedPlain ==
    ASSUME NEW h, h.u \in User, h.want \in Sub \cup {None}
    PROVE  Created(h) \in Handler /\ Created(h).pc \notin Carrying
<1>1. CASE h.want = None
  BY <1>1 DEF Created, Handler, Idle, Carrying
<1>2. CASE h.want # None
  <2>1. [pc |-> "reload", u |-> h.u, want |-> h.want] \in Handler
    BY <1>2, HandlerStates
  <2> QED
    BY <1>2, <2>1 DEF Created, Carrying
<1> QED
  BY <1>1, <1>2

LEMMA NewRowTyped == ASSUME NEW s \in Slug PROVE NewRow(s) \in Row
BY TenantsAssumption DEF NewRow, Row

\* Nobody fresh carries a row of a user who has none, so an insert is noticed
\* by no one.
LEMMA InsertStep == ASSUME IInv, NEW r \in Req, Insert(r) PROVE IInv'
<1>1. req[r] \in Handler /\ req[r].pc = "insert"
  BY DEF IInv, TypeOK, Insert
<1>2. req[r].u \in User /\ req[r].want \in Sub \cup {None} /\ req[r].sub \in Slug
  BY <1>1, HandlerFields
<1> DEFINE u == req[r].u
           row == NewRow(req[r].sub)
           R == [pc |-> "refetch", u |-> req[r].u, want |-> req[r].want]
<1>3. CASE tenant[u] = None /\ tenant' = [tenant EXCEPT ![u] = row] /\ Goto(r, Created(req[r]))
  <2>1. Created(req[r]) \in Handler /\ Created(req[r]).pc \notin Carrying
    BY <1>2, CreatedPlain
  <2>2. row \in Row /\ UNCHANGED <<live, stale>>
    BY <1>2, NewRowTyped DEF Insert
  <2> HIDE DEF row
  <2>3. TypeOK'
    BY <1>2, <1>3, <2>1, <2>2 DEF IInv, TypeOK, Goto
  <2>4. Fresh'
    <3> SUFFICES ASSUME NEW q \in Req, req'[q].pc \in Carrying, q \notin stale'
                 PROVE  Fits(req[q])'
      BY DEF Fresh
    <3>1. q # r /\ req'[q] = req[q]
      BY <1>3, <2>1 DEF Goto, IInv, TypeOK
    <3>2. Fits(req[q])
      BY <2>2, <3>1 DEF IInv, Fresh
    <3>3. req[q].u # u
      BY <1>3, <3>2 DEF Fits
    <3>4. req[q].u \in User
      <4>1. req[q] \in Handler
        BY DEF IInv, TypeOK
      <4> QED
        BY <3>1, <4>1, HandlerFields DEF Carrying
    <3>5. tenant'[req[q].u] = tenant[req[q].u]
      BY <1>3, <3>3, <3>4 DEF IInv, TypeOK
    <3> QED
      BY <3>1, <3>2, <3>5 DEF Fits
  <2> QED
    BY <2>3, <2>4 DEF IInv
<1>4. CASE Goto(r, R) /\ UNCHANGED tenant
  <2>1. R \in Handler /\ R.pc \notin Carrying
    BY <1>2, HandlerStates DEF Carrying
  <2>2. UNCHANGED <<live, stale>>
    BY DEF Insert
  <2> HIDE DEF R
  <2> QED
    BY <1>4, <2>1, <2>2, PlainStep
<1> QED
  BY <1>3, <1>4 DEF Insert

LEMMA RefetchStep == ASSUME IInv, NEW r \in Req, Refetch(r) PROVE IInv'
<1>1. req[r] \in Handler /\ req[r].pc = "refetch" /\ UNCHANGED <<live, tenant, stale>>
  BY DEF IInv, TypeOK, Refetch
<1>2. req[r].u \in User /\ req[r].want \in Sub \cup {None}
  BY <1>1, HandlerFields
<1>3. CASE tenant[req[r].u] # None
  <2>1. Goto(r, Hydrate(req[r].u, req[r].want, tenant[req[r].u]))
    BY <1>3 DEF Refetch
  <2> QED
    BY <1>1, <1>2, <1>3, <2>1, FoundFits, GotoFresh
<1>4. CASE tenant[req[r].u] = None
  <2>1. Goto(r, Idle)
    BY <1>4 DEF Refetch
  <2>2. Idle \in Handler /\ Idle.pc \notin Carrying
    BY DEF Handler, Idle, Carrying
  <2> QED
    BY <1>1, <2>1, <2>2, PlainStep
<1> QED
  BY <1>3, <1>4

LEMMA AnswerStep == ASSUME IInv, NEW r \in Req, Answer(r) PROVE IInv'
<1>1. req[r] \in Handler /\ req[r].pc = "hydrate"
  BY DEF IInv, TypeOK, Answer
<1>2. Created(req[r]) \in Handler /\ Created(req[r]).pc \notin Carrying
  BY <1>1, HandlerFields, CreatedPlain
<1>3. Goto(r, Created(req[r])) /\ stale' = stale \ {r} /\ UNCHANGED <<live, tenant>>
  BY DEF Answer
<1> QED
  BY <1>2, <1>3, PlainStep

LEMMA SetSubdomainStep ==
    ASSUME IInv, NEW r \in Req, NEW u \in User, NEW want \in Sub, SetSubdomain(r, u, want)
    PROVE  IInv'
<1>1. UNCHANGED <<live, tenant, stale>>
  BY DEF SetSubdomain
<1>2. CASE tenant[u] # None
  <2>1. Goto(r, WithOwn(u, want, tenant[u]))
    BY <1>2 DEF SetSubdomain
  <2> QED
    BY <1>1, <1>2, <2>1, WithOwnFits, GotoFresh
<1>3. CASE tenant[u] = None
  <2> DEFINE h == [pc |-> "find", u |-> u, want |-> want]
  <2>1. Goto(r, h)
    BY <1>3 DEF SetSubdomain
  <2>2. h \in Handler /\ h.pc \notin Carrying
    BY HandlerStates DEF Carrying
  <2> HIDE DEF h
  <2> QED
    BY <1>1, <2>1, <2>2, PlainStep
<1> QED
  BY <1>2, <1>3

LEMMA ReloadStep == ASSUME IInv, NEW r \in Req, Reload(r) PROVE IInv'
<1>1. req[r] \in Handler /\ req[r].pc = "reload" /\ UNCHANGED <<live, tenant, stale>>
  BY DEF IInv, TypeOK, Reload
<1>2. req[r].u \in User /\ req[r].want \in Sub
  BY <1>1, HandlerFields
<1>3. CASE tenant[req[r].u] # None
  <2>1. Goto(r, WithOwn(req[r].u, req[r].want, tenant[req[r].u]))
    BY <1>3 DEF Reload
  <2> QED
    BY <1>1, <1>2, <1>3, <2>1, WithOwnFits, GotoFresh
<1>4. CASE tenant[req[r].u] = None
  <2>1. Goto(r, Idle)
    BY <1>4 DEF Reload
  <2>2. Idle \in Handler /\ Idle.pc \notin Carrying
    BY DEF Handler, Idle, Carrying
  <2> QED
    BY <1>1, <2>1, <2>2, PlainStep
<1> QED
  BY <1>3, <1>4

\* The rows that the operations make are rows.
LEMMA ChangedTyped ==
    ASSUME NEW row \in Row
    PROVE  /\ \A sub \in Sub : Chosen(row, sub) \in Row /\ Chosen(row, sub).sub = sub
           /\ \A dom \in Dom \cup {None} : Moved(row, dom) \in Row /\ Moved(row, dom).dom = dom
BY DEF Row, Chosen, Moved

\* The state before a save, with a row made of the stored one.
LEMMA SaveFits ==
    ASSUME NEW u \in User, NEW new \in Row, NEW for \in {"subdomain", "domain", "status"},
           tenant[u] # None, new = Intended(for, tenant[u], new)
    PROVE  LET h == [pc |-> "save", for |-> for, u |-> u, row |-> new]
           IN  h \in Handler /\ Fits(h)
BY DEF Handler, Fits

LEMMA CheckTakenStep == ASSUME IInv, NEW r \in Req, CheckTaken(r) PROVE IInv'
<1>1. req[r] \in Handler /\ req[r].pc = "taken?" /\ UNCHANGED <<live, tenant>>
  BY DEF IInv, TypeOK, CheckTaken
<1>2. req[r].u \in User /\ req[r].want \in Sub /\ req[r].row \in Row
  BY <1>1, HandlerFields
<1> DEFINE new == Chosen(req[r].row, req[r].want)
           h == [pc |-> "save", for |-> "subdomain", u |-> req[r].u, row |-> new]
<1>3. \/ Goto(r, Idle) /\ stale' = stale \ {r}
      \/ Goto(r, h) /\ stale' = stale
  BY DEF CheckTaken
<1>4. CASE Goto(r, Idle) /\ stale' = stale \ {r}
  <2>1. Idle \in Handler /\ Idle.pc \notin Carrying
    BY DEF Handler, Idle, Carrying
  <2> QED
    BY <1>1, <1>4, <2>1, PlainStep
<1>5. CASE Goto(r, h) /\ stale' = stale
  <2>1. new \in Row /\ new.sub = req[r].want
    BY <1>2, ChangedTyped
  <2>2. h \in Handler
    BY <1>2, <2>1 DEF Handler
  <2>3. r \notin stale => Fits(h)
    <3> SUFFICES ASSUME r \notin stale PROVE Fits(h)
      OBVIOUS
    <3>1. tenant[req[r].u] # None /\ req[r].row = tenant[req[r].u]
      BY <1>1 DEF IInv, Fresh, Carrying, Fits
    <3>2. new = Intended("subdomain", tenant[req[r].u], new)
      BY <2>1, <3>1 DEF Intended, Chosen
    <3> HIDE DEF new
    <3> QED
      BY <1>2, <2>1, <3>1, <3>2, SaveFits
  <2> HIDE DEF h
  <2> QED
    BY <1>1, <1>5, <2>2, <2>3, GotoFresh
<1> QED
  BY <1>3, <1>4, <1>5

LEMMA LoadStep == ASSUME IInv, NEW r \in Req, NEW u \in User, Load(r, u) PROVE IInv'
<1> DEFINE h == [pc |-> "save", for |-> "status", u |-> u, row |-> tenant[u]]
<1>1. tenant[u] # None /\ Goto(r, h) /\ UNCHANGED <<live, tenant, stale>>
  BY DEF Load
<1>2. tenant[u] \in Row
  BY <1>1 DEF IInv, TypeOK
<1>3. tenant[u] = Intended("status", tenant[u], tenant[u])
  BY DEF Intended
<1>4. h \in Handler /\ Fits(h)
  BY <1>1, <1>2, <1>3, SaveFits
<1> HIDE DEF h
<1> QED
  BY <1>1, <1>4, GotoFresh

LEMMA SetDomainStep ==
    ASSUME IInv, NEW r \in Req, NEW u \in User, NEW dom \in Dom \cup {None},
           SetDomain(r, u, dom)
    PROVE  IInv'
<1> DEFINE new == Moved(tenant[u], dom)
           h == [pc |-> "save", for |-> "domain", u |-> u, row |-> new]
<1>1. tenant[u] # None /\ Goto(r, h) /\ UNCHANGED <<live, tenant, stale>>
  BY DEF SetDomain
<1>2. tenant[u] \in Row
  BY <1>1 DEF IInv, TypeOK
<1>3. new \in Row /\ new.dom = dom
  BY <1>2, ChangedTyped
<1>4. new = Intended("domain", tenant[u], new)
  BY <1>3 DEF Intended, Moved
<1>5. h \in Handler /\ Fits(h)
  <2> HIDE DEF new
  <2> QED
    BY <1>1, <1>3, <1>4, SaveFits
<1> HIDE DEF h
<1> QED
  BY <1>1, <1>5, GotoFresh

\* The other carriers of a row that was saved or removed are stale then.
LEMMA OthersFresh ==
    ASSUME IInv, NEW r, NEW u \in User, NEW row,
           tenant' = [tenant EXCEPT ![u] = row],
           Holders(u) \ {r} \subseteq stale', stale \ {r} \subseteq stale',
           NEW q \in Req \ {r}, req'[q] = req[q], req[q].pc \in Carrying, q \notin stale'
    PROVE  Fits(req[q])'
<1>1. q \notin stale /\ Fits(req[q])
  BY DEF IInv, Fresh
<1>2. req[q].u # u
  BY DEF Holders, Carrying
<1>3. req[q].u \in User
  <2>1. req[q] \in Handler
    BY DEF IInv, TypeOK
  <2> QED
    BY <2>1, HandlerFields DEF Carrying
<1>4. tenant'[req[q].u] = tenant[req[q].u]
  BY <1>2, <1>3 DEF IInv, TypeOK
<1> QED
  BY <1>1, <1>4 DEF Fits

LEMMA SaveTenantStep == ASSUME IInv, NEW r \in Req, SaveTenant(r) PROVE IInv'
<1>1. /\ req[r] \in Handler /\ req[r].pc = "save"
      /\ tenant' = [tenant EXCEPT ![req[r].u] = req[r].row]
      /\ stale' = (stale \cup Holders(req[r].u)) \ {r} /\ live' = live
  BY DEF IInv, TypeOK, SaveTenant
<1>2. req[r].u \in User /\ req[r].row \in Row
  BY <1>1, HandlerFields
<1> DEFINE H == Hydrate(req[r].u, None, req[r].row)
<1>3. PICK h : Goto(r, h) /\ (h = H \/ h = Idle)
  BY DEF SaveTenant
<1>4. H \in Handler /\ H.pc = "hydrate" /\ H.u = req[r].u /\ H.row = req[r].row
  BY <1>2, HandlerStates
<1>5. Idle \in Handler /\ Idle.pc \notin Carrying
  BY DEF Handler, Idle, Carrying
<1> HIDE DEF H
<1>6. req' \in [Req -> Handler] /\ req'[r] = h /\ \A q \in Req \ {r} : req'[q] = req[q]
  BY <1>3, <1>4, <1>5 DEF Goto, IInv, TypeOK
<1>7. TypeOK'
  <2>1. stale' \subseteq Req
    BY <1>1 DEF IInv, TypeOK, Holders
  <2>2. tenant' \in [User -> Row \cup {None}]
    BY <1>1, <1>2 DEF IInv, TypeOK
  <2> QED
    BY <1>1, <1>6, <2>1, <2>2 DEF IInv, TypeOK
<1>8. Fresh'
  <2> SUFFICES ASSUME NEW q \in Req, req'[q].pc \in Carrying, q \notin stale'
               PROVE  Fits(req[q])'
    BY DEF Fresh
  <2>1. CASE q = r
    <3>1. req'[r] = H
      BY <1>3, <1>5, <1>6, <2>1
    <3>2. tenant'[req[r].u] = req[r].row /\ req[r].row # None
      BY <1>1, <1>2, TenantsAssumption DEF IInv, TypeOK, Row
    <3> QED
      BY <1>4, <2>1, <3>1, <3>2 DEF Fits
  <2>2. CASE q # r
    <3>1. req'[q] = req[q]
      BY <1>6, <2>2
    <3> QED
      BY <1>1, <1>2, <2>2, <3>1, OthersFresh
  <2> QED
    BY <2>1, <2>2
<1> QED
  BY <1>7, <1>8 DEF IInv

LEMMA AbortStep == ASSUME IInv, NEW r \in Req, Abort(r) PROVE IInv'
<1>1. Idle \in Handler /\ Idle.pc \notin Carrying
  BY DEF Handler, Idle, Carrying
<1>2. Goto(r, Idle) /\ stale' = stale \ {r} /\ UNCHANGED <<live, tenant>>
  BY DEF Abort
<1> QED
  BY <1>1, <1>2, PlainStep

LEMMA DeleteUserStep == ASSUME IInv, NEW u \in User, DeleteUser(u) PROVE IInv'
<1>1. /\ tenant' = [tenant EXCEPT ![u] = None] /\ req' = req
      /\ stale' = stale \cup Holders(u) /\ live' = live \ {u}
  BY DEF DeleteUser
<1>2. TypeOK'
  BY <1>1 DEF IInv, TypeOK, Holders
<1>3. Fresh'
  <2> SUFFICES ASSUME NEW q \in Req, req'[q].pc \in Carrying, q \notin stale'
               PROVE  Fits(req[q])'
    BY DEF Fresh
  <2>1. PICK r : r \notin Req
    <3>1. \E r : r \notin Req
      <4> DEFINE S == {x \in Req : x \notin x}
      <4>1. S \notin Req
        OBVIOUS
      <4> QED
        BY <4>1
    <3> QED
      BY <3>1
  <2>2. q \in Req \ {r} /\ req'[q] = req[q]
    BY <1>1, <2>1
  <2> QED
    BY <1>1, <2>2, OthersFresh
<1> QED
  BY <1>2, <1>3 DEF IInv

-----------------------------------------------------------------------------
(***************************************************************************)
(* Theorems                                                                *)
(***************************************************************************)

LEMMA InitHolds == Init => IInv
<1> SUFFICES ASSUME Init PROVE IInv
  OBVIOUS
<1>1. Idle \in Handler /\ Idle.pc \notin Carrying
  BY DEF Handler, Idle, Carrying
<1>2. \A r \in Req : req[r] = Idle
  BY DEF Init
<1>3. TypeOK
  BY <1>1 DEF Init, TypeOK
<1>4. Fresh
  BY <1>1, <1>2 DEF Fresh
<1> QED
  BY <1>3, <1>4 DEF IInv

LEMMA NextKeeps == IInv /\ [Next]_tenantVars => IInv'
<1> SUFFICES ASSUME IInv, [Next]_tenantVars PROVE IInv'
  OBVIOUS
<1>1. ASSUME NEW r \in Req, Arrive(r) PROVE IInv'
  <2>1. PICK u \in User :
          \/ Get(r, u)
          \/ \E want \in Sub : SetSubdomain(r, u, want)
          \/ Load(r, u)
          \/ \E dom \in Dom \cup {None} : SetDomain(r, u, dom)
    BY <1>1 DEF Arrive
  <2> QED
    BY <2>1, GetStep, SetSubdomainStep, LoadStep, SetDomainStep
<1>2. ASSUME NEW r \in Req, Continue(r) PROVE IInv'
  BY <1>2, FindStep, LoadOwnerStep, ProbeStep, InsertStep, RefetchStep, AnswerStep,
     ReloadStep, CheckTakenStep, SaveTenantStep, AbortStep DEF Continue
<1>3. ASSUME NEW u \in User, DeleteUser(u) PROVE IInv'
  BY <1>3, DeleteUserStep
<1>4. CASE UNCHANGED tenantVars
  BY <1>4 DEF IInv, TypeOK, Fresh, Fits, tenantVars
<1> QED
  BY <1>1, <1>2, <1>3, <1>4 DEF Next

THEOREM Invariance == Spec => []IInv
BY InitHolds, NextKeeps, PTL DEF Spec

\* The users, tenants and handlers keep their types.
THEOREM TypeCorrect == Spec => []TypeOK
<1>1. IInv => TypeOK
  BY DEF IInv
<1> QED
  BY <1>1, Invariance, PTL

\* However first requests race, each answers the row that is stored
\* (getOrCreateForUser 73-97, setSubdomain 112-134).
THEOREM AnswersAreStored == Spec => []AnswerIsStored
<1>1. IInv => AnswerIsStored
  BY DEF IInv, Fresh, Carrying, Fits, AnswerIsStored
<1> QED
  BY <1>1, Invariance, PTL

\* A save of a tenant row by a handler that is not stale changes what its
\* operation is about (setSubdomain 112-127, publish 114-142, unbind 121-127,
\* bind 135-147).
THEOREM NoAddressIsLost == Spec => NoAddressLost
<1> DEFINE A == \A r \in Req :
                  LET h == req[r] IN
                  h.pc = "save" /\ req'[r].pc # "save" /\ tenant' # tenant =>
                    r \in stale \/ tenant'[h.u] = Intended(h.for, tenant[h.u], h.row)
<1>1. IInv /\ [Next]_tenantVars => [A]_tenantVars
  <2> SUFFICES ASSUME IInv, Next, NEW r \in Req, req[r].pc = "save",
                      req'[r].pc # "save", tenant' # tenant, r \notin stale
               PROVE  tenant'[req[r].u] = Intended(req[r].for, tenant[req[r].u], req[r].row)
    BY DEF tenantVars
  <2>1. SaveTenant(r)
    <3>1. \A q \in Req \ {r} : \A h : Goto(q, h) => req'[r] = req[r]
      BY DEF Goto, IInv, TypeOK
    <3>2. ASSUME NEW q \in Req, Arrive(q) PROVE FALSE
      <4>1. UNCHANGED tenant
        BY <3>2 DEF Arrive, Get, SetSubdomain, Load, SetDomain
      <4> QED
        BY <4>1
    <3>3. ASSUME NEW u \in User, DeleteUser(u) PROVE FALSE
      BY <3>3 DEF DeleteUser
    <3>4. PICK q \in Req : Continue(q)
      BY <3>2, <3>3 DEF Next
    <3>5. Insert(q) \/ SaveTenant(q)
      BY <3>4 DEF Continue, Find, LoadOwner, Probe, Refetch, Answer, Reload, CheckTaken, Abort
    <3>6. q = r
      <4>1. \E h : Goto(q, h)
        BY <3>5 DEF Insert, SaveTenant
      <4> QED
        BY <3>1, <4>1
    <3>7. ~Insert(q)
      BY <3>6 DEF Insert
    <3> QED
      BY <3>5, <3>6, <3>7
  <2>2. tenant'[req[r].u] = req[r].row
    <3>1. req[r] \in Handler
      BY DEF IInv, TypeOK
    <3> QED
      BY <2>1, <3>1, HandlerFields DEF SaveTenant, IInv, TypeOK
  <2>3. req[r].row = Intended(req[r].for, tenant[req[r].u], req[r].row)
    BY DEF IInv, Fresh, Carrying, Fits
  <2> QED
    BY <2>2, <2>3
<1> QED
  BY <1>1, Invariance, PTL DEF Spec, NoAddressLost
=============================================================================
