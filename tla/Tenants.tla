------------------------------- MODULE Tenants -------------------------------
(***************************************************************************)
(* TenantsService: the tenant a user gets on first access, with a          *)
(* generated subdomain, and the subdomain the user chooses; beside them    *)
(* the handlers elsewhere that save the same rows (publish and unpublish,  *)
(* bind and unbind).                                                       *)
(*                                                                         *)
(* An action is one statement with the synchronous code after it.  Rows    *)
(* are loaded, changed and saved as a whole.  A row is kept by its owner   *)
(* (unique); its id and status, the checks of a chosen name (no reserved   *)
(* name is chosen, none is generated) and checkSubdomainAvailability,      *)
(* which only reads, are left out.                                         *)
(***************************************************************************)
EXTENDS Naturals

CONSTANTS
    User,       \* owners
    Sub, Dom,   \* subdomains and custom domains
    Slug,       \* the subdomains that can be generated
    Probes,     \* attempts to generate one (8)
    Req,        \* slots for handlers in flight
    Calls,      \* bound: the calls made, by slot
    Leaving,    \* bound: the users whose account may be deleted
    None        \* SQL NULL, no row, no choice

ASSUME TenantsAssumption ==
    /\ Slug \subseteq Sub /\ Leaving \subseteq User
    /\ Probes \in Nat \ {0}
    /\ Calls \subseteq Req \X {"get", "choose", "domain", "status"} \X User
    /\ None \notin Sub \cup Dom
    /\ None \notin [sub : Sub, dom : Dom \cup {None}, onboarded : BOOLEAN]

VARIABLES
    live,       \* users whose row exists
    tenant,     \* table `tenants`, by owner
    req         \* handlers in flight

\* History, read by the properties and by nothing else.
VARIABLE stale  \* handlers whose loaded row was saved or removed meanwhile

tenantVars == <<live, tenant, req, stale>>

-----------------------------------------------------------------------------
Row == [sub : Sub, dom : Dom \cup {None}, onboarded : BOOLEAN]

\* want: the subdomain that setSubdomain goes on to set, if it called.
Handler ==
         [pc : {"idle"}]
    \cup [pc : {"find", "owner", "refetch"}, u : User, want : Sub \cup {None}]
    \cup [pc : {"probe"}, u : User, want : Sub \cup {None}, left : 1..Probes]
    \cup [pc : {"insert"}, u : User, want : Sub \cup {None}, sub : Slug]
    \cup [pc : {"hydrate"}, u : User, want : Sub \cup {None}, row : Row]
    \cup [pc : {"reload"}, u : User, want : Sub]
    \cup [pc : {"taken?"}, u : User, want : Sub, row : Row]
    \cup [pc : {"save"}, for : {"subdomain", "domain", "status"}, u : User, row : Row]

Idle == [pc |-> "idle"]
Goto(r, h) == req' = [req EXCEPT ![r] = h]

\* Handlers that carry a loaded row of u.
Holders(u) == {r \in Req : req[r].pc \in {"hydrate", "taken?", "save"} /\ req[r].u = u}

SubFree(u, sub) == \A v \in User \ {u} : tenant[v] # None => tenant[v].sub # sub

\* The foreign key and the unique constraints.
CanSave(u, row) ==
    /\ u \in live
    /\ SubFree(u, row.sub)
    /\ row.dom # None => \A v \in User \ {u} : tenant[v] # None => tenant[v].dom # row.dom

Init ==
    /\ live = User
    /\ tenant = [u \in User |-> None]
    /\ req = [r \in Req |-> Idle]
    /\ stale = {}

-----------------------------------------------------------------------------
(***************************************************************************)
(* getOrCreateForUser                                                      *)
(***************************************************************************)

Hydrate(u, want, row) == [pc |-> "hydrate", u |-> u, want |-> want, row |-> row]

\* The query for the caller's row, which is found or, in state pc, is not.
FindOwn(r, u, want, pc) ==
    Goto(r, IF tenant[u] # None THEN Hydrate(u, want, tenant[u])
            ELSE [pc |-> pc, u |-> u, want |-> want])

\* GET /tenant: tenants.findOne.
Get(r, u) ==
    /\ req[r] = Idle
    /\ FindOwn(r, u, None, "owner")
    /\ UNCHANGED <<live, tenant, stale>>

\* The same, called by getOrCreateOwnRow.
Find(r) ==
    /\ req[r].pc = "find"
    /\ FindOwn(r, req[r].u, req[r].want, "owner")
    /\ UNCHANGED <<live, tenant, stale>>

\* users.findOne, or 404.
LoadOwner(r) ==
    LET h == req[r] IN
    /\ h.pc = "owner"
    /\ h.u \in live
    /\ Goto(r, [pc |-> "probe", u |-> h.u, want |-> h.want, left |-> Probes])
    /\ UNCHANGED <<live, tenant, stale>>

\* generateUniqueSubdomain: a name, and tenants.exist; 409 when the attempts
\* are used up.
Probe(r) ==
    LET h == req[r] IN
    /\ h.pc = "probe"
    /\ \E s \in Slug :
        Goto(r, CASE \A v \in User : tenant[v] # None => tenant[v].sub # s ->
                       [pc |-> "insert", u |-> h.u, want |-> h.want, sub |-> s]
                  [] (\E v \in User : tenant[v] # None /\ tenant[v].sub = s) /\ h.left > 1 ->
                       [pc |-> "probe", u |-> h.u, want |-> h.want, left |-> h.left - 1]
                  [] OTHER -> Idle)
    /\ UNCHANGED <<live, tenant, stale>>

NewRow(sub) == [sub |-> sub, dom |-> None, onboarded |-> FALSE]

\* The new row is the answer, setSubdomain reads it again.
Created(h) ==
    IF h.want = None THEN Idle ELSE [pc |-> "reload", u |-> h.u, want |-> h.want]

\* Mutation: the row that was not saved is the answer.
InsertUnsaved(r) ==
    LET h == req[r] IN
    /\ h.pc = "insert"
    /\ \/ /\ tenant[h.u] = None /\ CanSave(h.u, NewRow(h.sub))
          /\ tenant' = [tenant EXCEPT ![h.u] = NewRow(h.sub)]
          /\ Goto(r, Created(h))
       \/ /\ Goto(r, Hydrate(h.u, h.want, NewRow(h.sub)))
          /\ UNCHANGED tenant
    /\ UNCHANGED <<live, stale>>

\* tenants.save of the new row; whatever refuses it is taken for a race.
Insert(r) ==
    LET h == req[r] IN
    /\ h.pc = "insert"
    /\ \/ /\ tenant[h.u] = None /\ CanSave(h.u, NewRow(h.sub))
          /\ tenant' = [tenant EXCEPT ![h.u] = NewRow(h.sub)]
          /\ Goto(r, Created(h))
       \/ /\ Goto(r, [pc |-> "refetch", u |-> h.u, want |-> h.want])
          /\ UNCHANGED tenant
    /\ UNCHANGED <<live, stale>>

\* The catch: tenants.findOne; without a row the error goes on.
Refetch(r) ==
    LET h == req[r] IN
    /\ h.pc = "refetch"
    /\ Goto(r, IF tenant[h.u] # None THEN Hydrate(h.u, h.want, tenant[h.u]) ELSE Idle)
    /\ UNCHANGED <<live, tenant, stale>>

\* hydrate: users.findOne, or 404; the row is the answer, of which setSubdomain
\* only needs that it exists.
Answer(r) ==
    LET h == req[r] IN
    /\ h.pc = "hydrate"
    /\ h.u \in live
    /\ Goto(r, Created(h))
    /\ stale' = stale \ {r}
    /\ UNCHANGED <<live, tenant>>

-----------------------------------------------------------------------------
(***************************************************************************)
(* setSubdomain, and the other writers                                     *)
(***************************************************************************)

\* setSubdomain goes on with the row it has: keeping the subdomain is a no-op.
WithOwn(u, want, row) ==
    IF row.sub = want THEN Hydrate(u, None, row)
    ELSE [pc |-> "taken?", u |-> u, want |-> want, row |-> row]

\* getOrCreateOwnRow: tenants.findOne.
SetSubdomain(r, u, want) ==
    /\ req[r] = Idle
    /\ Goto(r, IF tenant[u] # None THEN WithOwn(u, want, tenant[u])
               ELSE [pc |-> "find", u |-> u, want |-> want])
    /\ UNCHANGED <<live, tenant, stale>>

\* getOrCreateOwnRow: tenants.findOne again, or 404.
Reload(r) ==
    LET h == req[r] IN
    /\ h.pc = "reload"
    /\ Goto(r, IF tenant[h.u] # None THEN WithOwn(h.u, h.want, tenant[h.u]) ELSE Idle)
    /\ UNCHANGED <<live, tenant, stale>>

\* Mutation: the row saved is built anew.
ChosenAnew(row, sub) == [sub |-> sub, dom |-> None, onboarded |-> TRUE]
\* The row setSubdomain saves.
Chosen(row, sub) == [sub |-> sub, dom |-> row.dom, onboarded |-> TRUE]

\* tenants.exist; taken is a 409.
CheckTaken(r) ==
    LET h == req[r]
        taken == \E v \in User : tenant[v] # None /\ tenant[v].sub = h.want
    IN
    /\ h.pc = "taken?"
    /\ Goto(r, IF taken THEN Idle
               ELSE [pc |-> "save", for |-> "subdomain", u |-> h.u,
                     row |-> Chosen(h.row, h.want)])
    /\ stale' = IF taken THEN stale \ {r} ELSE stale
    /\ UNCHANGED <<live, tenant>>

\* publish and unpublish load the row.
Load(r, u) ==
    /\ req[r] = Idle
    /\ tenant[u] # None
    /\ Goto(r, [pc |-> "save", for |-> "status", u |-> u, row |-> tenant[u]])
    /\ UNCHANGED <<live, tenant, stale>>

Moved(row, dom) == [sub |-> row.sub, dom |-> dom, onboarded |-> row.onboarded]

\* bind and unbind.
SetDomain(r, u, dom) ==
    /\ req[r] = Idle
    /\ tenant[u] # None
    /\ tenant[u].dom # dom
    /\ Goto(r, [pc |-> "save", for |-> "domain", u |-> u, row |-> Moved(tenant[u], dom)])
    /\ UNCHANGED <<live, tenant, stale>>

\* tenants.save of a loaded and changed row.  Other handlers with a loaded row
\* are stale then.  setSubdomain answers with the row saved.
SaveTenant(r) ==
    LET h == req[r] IN
    /\ h.pc = "save"
    /\ CanSave(h.u, h.row)
    /\ tenant' = [tenant EXCEPT ![h.u] = h.row]
    /\ stale' = (stale \cup Holders(h.u)) \ {r}
    /\ Goto(r, IF h.for = "subdomain" THEN Hydrate(h.u, None, h.row) ELSE Idle)
    /\ UNCHANGED live

\* A handler ends with an error, a refused save - which setSubdomain answers
\* with 409 subdomain_taken - or the death of the process.
Abort(r) ==
    /\ req[r] # Idle
    /\ Goto(r, Idle)
    /\ stale' = stale \ {r}
    /\ UNCHANGED <<live, tenant>>

\* The account is deleted; the cascade takes the tenant.
DeleteUser(u) ==
    /\ u \in Leaving \cap live
    /\ live' = live \ {u}
    /\ tenant' = [tenant EXCEPT ![u] = None]
    /\ stale' = stale \cup Holders(u)
    /\ UNCHANGED req

-----------------------------------------------------------------------------
Arrive(r) ==
    \E u \in User :
        \/ <<r, "get", u>> \in Calls /\ Get(r, u)
        \/ <<r, "choose", u>> \in Calls /\ \E want \in Sub : SetSubdomain(r, u, want)
        \/ <<r, "status", u>> \in Calls /\ Load(r, u)
        \/ <<r, "domain", u>> \in Calls /\ \E dom \in Dom \cup {None} : SetDomain(r, u, dom)

Continue(r) ==
    \/ Find(r) \/ LoadOwner(r) \/ Probe(r) \/ Insert(r) \/ Refetch(r) \/ Answer(r)
    \/ Reload(r) \/ CheckTaken(r) \/ SaveTenant(r)
    \/ Abort(r)

Next ==
    \/ \E r \in Req : Arrive(r) \/ Continue(r)
    \/ \E u \in User : DeleteUser(u)

Spec == Init /\ [][Next]_tenantVars

-----------------------------------------------------------------------------
(***************************************************************************)
(* Properties                                                              *)
(***************************************************************************)

TypeOK ==
    /\ live \subseteq User
    /\ tenant \in [User -> Row \cup {None}]
    /\ req \in [Req -> Handler]
    /\ stale \subseteq Req

\* However the first requests of a user race - with each other, with another
\* user who takes the generated name, with a choice of the user's own -, what
\* each answers is the one row that is stored, unless that was saved again
\* or removed since the handler read or saved it (getOrCreateForUser 73-97,
\* setSubdomain 112-134).
AnswerIsStored ==
    \A r \in Req : req[r].pc = "hydrate" /\ r \notin stale => tenant[req[r].u] = req[r].row

\* What an operation may make of the stored row old, given the row it saves.
Intended(for, old, new) ==
    CASE for = "subdomain" -> [sub |-> new.sub, dom |-> old.dom, onboarded |-> TRUE]
      [] for = "domain" -> [sub |-> old.sub, dom |-> new.dom, onboarded |-> old.onboarded]
      [] for = "status" -> old

\* A save of a tenant row changes no more than its operation is about - it
\* puts back no older subdomain, no domain that was unbound and no earlier
\* stage of the onboarding - unless the row was saved between the handler's
\* load and its save (setSubdomain 112-127, publish 114-142, unbind 121-127,
\* bind 135-147).
NoAddressLost ==
    [][\A r \in Req :
         LET h == req[r] IN
         h.pc = "save" /\ req'[r].pc # "save" /\ tenant' # tenant =>
            r \in stale \/ tenant'[h.u] = Intended(h.for, tenant[h.u], h.row)]_tenantVars
=============================================================================
