------------------------------ MODULE Domains ------------------------------
(***************************************************************************)
(* Custom domains: src/src/modules/domains.  A tenant claims a domain,     *)
(* proves it with a TXT record and has it bound to its tenant row; a queue *)
(* of verification jobs keeps checking for a day.                          *)
(*                                                                         *)
(* An action is one statement (a query, a save, a DoH lookup, a queue      *)
(* command) with the synchronous code after it.  A verification row is its *)
(* status, with "new" for a pending row never checked (lastCheckedAt is    *)
(* null): the token never changes and belongs to one tenant and domain, so *)
(* what a lookup finds is a choice.  A tenant row is its custom domain.    *)
(***************************************************************************)
EXTENDS FiniteSets, Integers

CONSTANTS
    Tenant, Dom,    \* tenants and domains
    Claim,          \* bound: the claims made, pairs of a tenant and a domain
    Early,          \* bound: the claims already made at the start
    Calls,          \* bound: the API calls made, by slot
    Ageing,         \* bound: the claims of which a day may pass
    Leaving,        \* bound: the tenants whose account may be deleted
    MaxDomains,     \* MAX_DOMAINS_PER_TENANT (5)
    Attempts,       \* attempts of a job (3)
    Req,            \* slots for API handlers in flight
    Job,            \* slots for jobs
    None            \* SQL NULL

ASSUME DomainsAssumption ==
    /\ Claim \subseteq Tenant \X Dom
    /\ Early \cup Ageing \subseteq Claim
    /\ Leaving \subseteq Tenant
    /\ Calls \subseteq (Req \X {"request", "verify"} \X Claim)
                   \cup (Req \X {"unbind", "load"} \X Tenant)
    /\ MaxDomains \in Nat /\ Attempts \in Nat \ {0}
    /\ IsFiniteSet(Req) /\ Req # {}
    /\ IsFiniteSet(Early)
    /\ \A t \in Tenant : Cardinality({c \in Early : c[1] = t}) <= MaxDomains
    /\ None \notin Dom

VARIABLES
    live,       \* tenants whose row exists
    verif,      \* table `domain_verifications`: the status by claim
    aged,       \* claims whose row is older than MAX_AGE_MS (24 h)
    custom,     \* column tenants.custom_domain
    req,        \* API handlers in flight
    job         \* queue domain-verify, with what the worker does for each job

\* History, read by the properties and by nothing else.
VARIABLES
    proven,     \* claims a lookup has found since the tenant's last unbind
    held,       \* claims found before it, with a handler still at work then
    crossed,    \* tenants of which two requests overlapped
    lost        \* claims of which a job gave up, or was not enqueued, since
                \* the last one was

domVars == <<live, verif, aged, custom, req, job, proven, held, crossed, lost>>
history == <<proven, held, crossed, lost>>

-----------------------------------------------------------------------------
Status == {"none", "new", "pending", "verified", "failed"}

Handler ==
         [pc : {"idle"}]
    \cup [pc : {"conflict", "existing", "count", "insert", "enqueue"}, c : Claim]
    \cup [pc : {"row", "lookup"}, c : Claim, bound : BOOLEAN]
    \cup [pc : {"saveRow"}, c : Claim, bound : BOOLEAN, found : BOOLEAN]
    \cup [pc : {"saveTenant"}, t : Tenant, dom : Dom \cup {None}]

JobState ==
         [pc : {"free"}]
    \cup [pc : {"queued", "saveFailed", "lookup", "loadTenant", "saveTenant", "followUp"},
          c : Claim, left : 1..Attempts]
    \cup [pc : {"saveRow"}, c : Claim, left : 1..Attempts, found : BOOLEAN]

Idle == [pc |-> "idle"]
Free == [pc |-> "free"]
\* Mutation: attempts counts the retries only.
QueuedRetries(c) == [pc |-> "queued", c |-> c, left |-> Attempts + 1]
\* enqueueVerify: a job as it waits in the queue.
Queued(c) == [pc |-> "queued", c |-> c, left |-> Attempts]
Goto(r, h) == req' = [req EXCEPT ![r] = h]
Step(j, s) == job' = [job EXCEPT ![j] = s]
Become(j, pc) == Step(j, [pc |-> pc, c |-> job[j].c, left |-> job[j].left])
ClaimsOf(t) == {c \in Claim : c[1] = t}
Rows(t) == {c \in ClaimsOf(t) : verif[c] # "none"}

Init ==
    /\ live = Tenant
    /\ verif = [c \in Claim |-> IF c \in Early THEN "new" ELSE "none"]
    /\ aged = {}
    /\ custom = [t \in Tenant |-> None]
    /\ req = [r \in Req |-> Idle]
    /\ job = [j \in Job |-> Free]
    /\ proven = {} /\ held = {} /\ crossed = {} /\ lost = {}

-----------------------------------------------------------------------------
(***************************************************************************)
(* Saves                                                                   *)
(***************************************************************************)

\* The foreign keys and the unique constraint on tenants.custom_domain: a row
\* of a deleted tenant is refused, as is a domain another tenant has.
CanSaveTenant(t, dom) ==
    /\ t \in live
    /\ dom # None => \A u \in Tenant \ {t} : custom[u] # dom

\* Handlers that may still save the row of tenant t, other than r.
Binders(t, r) ==
    {q \in Req \ {r} : \/ req[q].pc \in {"row", "lookup", "saveRow"} /\ req[q].c[1] = t
                       \/ req[q].pc = "saveTenant" /\ req[q].t = t}
    \cup {j \in Job : /\ job[j].pc \in {"lookup", "saveRow", "loadTenant", "saveTenant"}
                      /\ job[j].c[1] = t}

\* tenants.save by handler r with the custom domain dom.  Clearing the domain
\* starts a new count of proofs.
SaveDomain(t, dom, r) ==
    /\ custom' = [custom EXCEPT ![t] = dom]
    /\ IF dom = None /\ custom[t] # None
       THEN /\ proven' = proven \ ClaimsOf(t)
            /\ held' = IF Binders(t, r) = {} THEN held \ ClaimsOf(t)
                       ELSE held \cup (proven \cap ClaimsOf(t))
       ELSE UNCHANGED <<proven, held>>

\* runCheck: the status saved after a lookup.
Checked(found) == IF found THEN "verified" ELSE "pending"

\* runCheck: verifications.save(row), which writes the whole row.
SaveCheck(c, found) ==
    /\ verif' = [verif EXCEPT ![c] = Checked(found)]
    /\ lost' = IF found THEN lost \ {c} ELSE lost

-----------------------------------------------------------------------------
(***************************************************************************)
(* requestVerification                                                     *)
(***************************************************************************)

\* tenantFor: the caller's tenant, or 403.
HasTenant(t) == t \in live

\* requestVerification: tenantFor.
Request(r, c) ==
    /\ req[r] = Idle
    /\ HasTenant(c[1])
    /\ Goto(r, [pc |-> "conflict", c |-> c])
    /\ UNCHANGED <<live, verif, aged, custom, job, history>>

\* assertNotGlobalConflict: a domain another tenant has is a 409.
CheckConflict(r) ==
    LET c == req[r].c
        taken == \E u \in Tenant \ {c[1]} : custom[u] = c[2]
        asking == \E q \in Req : /\ req[q].pc \in {"existing", "count", "insert"}
                                 /\ req[q].c[1] = c[1]
    IN
    /\ req[r].pc = "conflict"
    /\ Goto(r, IF taken THEN Idle ELSE [pc |-> "existing", c |-> c])
    /\ crossed' = IF asking /\ ~taken THEN crossed \cup {c[1]} ELSE crossed
    /\ UNCHANGED <<live, verif, aged, custom, job, proven, held, lost>>

\* verifications.findOne: an existing row is the answer.
FindExisting(r) ==
    LET c == req[r].c IN
    /\ req[r].pc = "existing"
    /\ Goto(r, IF verif[c] # "none" THEN Idle ELSE [pc |-> "count", c |-> c])
    /\ UNCHANGED <<live, verif, aged, custom, job, history>>

\* Mutation: the limit is off by one.
CountRowsOneMore(r) ==
    LET c == req[r].c IN
    /\ req[r].pc = "count"
    /\ Goto(r, IF Cardinality(Rows(c[1])) > MaxDomains
               THEN Idle ELSE [pc |-> "insert", c |-> c])
    /\ UNCHANGED <<live, verif, aged, custom, job, history>>

\* verifications.count: at the limit it is a 400.
CountRows(r) ==
    LET c == req[r].c IN
    /\ req[r].pc = "count"
    /\ Goto(r, IF Cardinality(Rows(c[1])) >= MaxDomains
               THEN Idle ELSE [pc |-> "insert", c |-> c])
    /\ UNCHANGED <<live, verif, aged, custom, job, history>>

\* verifications.save of the pending row, refused if it exists by now or the
\* tenant is gone.
InsertRow(r) ==
    LET c == req[r].c IN
    /\ req[r].pc = "insert"
    /\ verif' = IF verif[c] = "none" /\ c[1] \in live
                THEN [verif EXCEPT ![c] = "new"] ELSE verif
    /\ Goto(r, Idle)
    /\ UNCHANGED <<live, aged, custom, job, history>>

-----------------------------------------------------------------------------
(***************************************************************************)
(* verify, unbind, and the handlers elsewhere that save a tenant row       *)
(***************************************************************************)

\* verify: tenantFor.
Verify(r, c) ==
    /\ req[r] = Idle
    /\ HasTenant(c[1])
    /\ Goto(r, [pc |-> "row", c |-> c, bound |-> custom[c[1]] = c[2]])
    /\ UNCHANGED <<live, verif, aged, custom, job, history>>

\* verify: verifications.findOne, or 404.
VerifyLoadRow(r) ==
    /\ req[r].pc = "row"
    /\ Goto(r, IF verif[req[r].c] = "none" THEN Idle ELSE [req[r] EXCEPT !.pc = "lookup"])
    /\ UNCHANGED <<live, verif, aged, custom, job, history>>

\* runCheck: doh.lookupTxt, which reports every failure as not found.
VerifyLookup(r) ==
    LET h == req[r] IN
    /\ h.pc = "lookup"
    /\ \E found \in BOOLEAN :
        /\ Goto(r, [pc |-> "saveRow", c |-> h.c, bound |-> h.bound, found |-> found])
        /\ proven' = IF found THEN proven \cup {h.c} ELSE proven
    /\ UNCHANGED <<live, verif, aged, custom, job, held, crossed, lost>>

\* Mutation: a verify that does not succeed binds the domain all the same.
VerifySaveRowBinds(r) ==
    LET h == req[r] IN
    /\ h.pc = "saveRow"
    /\ h.c[1] \in live
    /\ SaveCheck(h.c, h.found)
    /\ Goto(r, [pc |-> "saveTenant", t |-> h.c[1], dom |-> h.c[2]])
    /\ UNCHANGED <<live, aged, custom, job, proven, held, crossed>>

\* runCheck: the save; then verify enqueues a job or, by the tenant row it
\* loaded at the start, binds the domain.
VerifySaveRow(r) ==
    LET h == req[r] IN
    /\ h.pc = "saveRow"
    /\ h.c[1] \in live
    /\ SaveCheck(h.c, h.found)
    /\ Goto(r, IF ~h.found THEN [pc |-> "enqueue", c |-> h.c]
               ELSE IF h.bound THEN Idle
               ELSE [pc |-> "saveTenant", t |-> h.c[1], dom |-> h.c[2]])
    /\ UNCHANGED <<live, aged, custom, job, proven, held, crossed>>

\* queue.enqueueVerify with a delay of a minute.  The bound on jobs: only if
\* a slot is free.
VerifyEnqueue(r) ==
    /\ req[r].pc = "enqueue"
    /\ \E j \in Job : job[j] = Free /\ Step(j, Queued(req[r].c))
    /\ lost' = lost \ {req[r].c}
    /\ Goto(r, Idle)
    /\ UNCHANGED <<live, verif, aged, custom, proven, held, crossed>>

\* unbind: the row as loaded, without its domain.
Unbind(r, t) ==
    /\ req[r] = Idle
    /\ t \in live
    /\ custom[t] # None
    /\ Goto(r, [pc |-> "saveTenant", t |-> t, dom |-> None])
    /\ UNCHANGED <<live, verif, aged, custom, job, history>>

\* setSubdomain, publish, unpublish: save a tenant row loaded earlier.
LoadTenant(r, t) ==
    /\ req[r] = Idle
    /\ t \in live
    /\ Goto(r, [pc |-> "saveTenant", t |-> t, dom |-> custom[t]])
    /\ UNCHANGED <<live, verif, aged, custom, job, history>>

\* tenants.save of unbind, bindDomainToTenant and the handlers elsewhere.
SaveTenant(r) ==
    LET h == req[r] IN
    /\ h.pc = "saveTenant"
    /\ CanSaveTenant(h.t, h.dom)
    /\ SaveDomain(h.t, h.dom, r)
    /\ Goto(r, Idle)
    /\ UNCHANGED <<live, verif, aged, job, crossed, lost>>

\* A handler ends with an error: a refused save (409, 500), a statement that
\* fails, or the death of the process.
Abort(r) ==
    /\ req[r] # Idle
    /\ Goto(r, Idle)
    /\ lost' = IF req[r].pc = "enqueue" THEN lost \cup {req[r].c} ELSE lost
    /\ UNCHANGED <<live, verif, aged, custom, job, proven, held, crossed>>

-----------------------------------------------------------------------------
(***************************************************************************)
(* The worker                                                              *)
(***************************************************************************)

\* Mutation: no age check.
WorkLoadAgeless(j) ==
    LET c == job[j].c IN
    /\ job[j].pc = "queued"
    /\ IF verif[c] \notin {"new", "pending"} THEN Step(j, Free) ELSE Become(j, "lookup")
    /\ UNCHANGED <<live, verif, aged, custom, req, history>>

\* handle: verifications.findOne, the early returns and the age check.
WorkLoad(j) ==
    LET c == job[j].c IN
    /\ job[j].pc = "queued"
    /\ IF verif[c] \notin {"new", "pending"} THEN Step(j, Free)
       ELSE Become(j, IF c \in aged THEN "saveFailed" ELSE "lookup")
    /\ UNCHANGED <<live, verif, aged, custom, req, history>>

\* handle: the save of the failed row.
WorkFail(j) ==
    /\ job[j].pc = "saveFailed"
    /\ job[j].c[1] \in live
    /\ verif' = [verif EXCEPT ![job[j].c] = "failed"]
    /\ lost' = lost \ {job[j].c}
    /\ Step(j, Free)
    /\ UNCHANGED <<live, aged, custom, req, proven, held, crossed>>

\* runCheck: doh.lookupTxt.
WorkLookup(j) ==
    LET s == job[j] IN
    /\ s.pc = "lookup"
    /\ \E found \in BOOLEAN :
        /\ Step(j, [pc |-> "saveRow", c |-> s.c, left |-> s.left, found |-> found])
        /\ proven' = IF found THEN proven \cup {s.c} ELSE proven
    /\ UNCHANGED <<live, verif, aged, custom, req, held, crossed, lost>>

\* runCheck: the save.
WorkSaveRow(j) ==
    LET s == job[j] IN
    /\ s.pc = "saveRow"
    /\ s.c[1] \in live
    /\ SaveCheck(s.c, s.found)
    /\ Become(j, IF s.found THEN "loadTenant" ELSE "followUp")
    /\ UNCHANGED <<live, aged, custom, req, proven, held, crossed>>

\* handle: tenants.findOne.
WorkLoadTenant(j) ==
    LET c == job[j].c IN
    /\ job[j].pc = "loadTenant"
    /\ IF c[1] \in live /\ custom[c[1]] # c[2] THEN Become(j, "saveTenant") ELSE Step(j, Free)
    /\ UNCHANGED <<live, verif, aged, custom, req, history>>

\* handle: tenants.save.  Its error is only logged; a job rerun after a crash
\* finds the row verified and returns.
WorkSaveTenant(j) ==
    LET c == job[j].c IN
    /\ job[j].pc = "saveTenant"
    /\ \/ CanSaveTenant(c[1], c[2]) /\ SaveDomain(c[1], c[2], j)
       \/ UNCHANGED <<custom, proven, held>>
    /\ Step(j, Free)
    /\ UNCHANGED <<live, verif, aged, req, crossed, lost>>

\* Mutation: the job ends without a follow-up.
WorkFollowUpNone(j) ==
    /\ job[j].pc = "followUp"
    /\ Step(j, Free)
    /\ UNCHANGED <<live, verif, aged, custom, req, history>>

\* handle: the follow-up is enqueued and the job completes.
WorkFollowUp(j) ==
    /\ job[j].pc = "followUp"
    /\ Step(j, Queued(job[j].c))
    /\ lost' = lost \ {job[j].c}
    /\ UNCHANGED <<live, verif, aged, custom, req, proven, held, crossed>>

\* The process dies after the follow-up was enqueued: the stalled job runs
\* again beside it.  The bound on jobs: only if a slot is free.
WorkFork(j) ==
    LET s == job[j] IN
    /\ s.pc = "followUp" /\ s.left > 1
    /\ \E k \in Job : /\ job[k] = Free
                      /\ job' = [job EXCEPT ![j] = Queued(s.c),
                                            ![k] = [Queued(s.c) EXCEPT !.left = s.left - 1]]
    /\ lost' = lost \ {s.c}
    /\ UNCHANGED <<live, verif, aged, custom, req, proven, held, crossed>>

\* A statement of the worker fails, a save is refused or the process dies:
\* the job is queued again until its attempts are used up.
WorkThrow(j) ==
    LET s == job[j] IN
    /\ s.pc \in {"saveFailed", "lookup", "saveRow", "loadTenant", "followUp"}
    /\ IF s.left > 1
       THEN Step(j, [pc |-> "queued", c |-> s.c, left |-> s.left - 1]) /\ UNCHANGED lost
       ELSE Step(j, Free) /\ lost' = lost \cup {s.c}
    /\ UNCHANGED <<live, verif, aged, custom, req, proven, held, crossed>>

-----------------------------------------------------------------------------
(***************************************************************************)
(* The environment                                                         *)
(***************************************************************************)

\* A day passes after the row was created.
Age(c) ==
    /\ c \in Ageing \ aged
    /\ verif[c] # "none"
    /\ aged' = aged \cup {c}
    /\ UNCHANGED <<live, verif, custom, req, job, history>>

\* The owner's account is deleted; the cascade takes the tenant with its rows.
DeleteTenant(t) ==
    /\ t \in Leaving \cap live
    /\ live' = live \ {t}
    /\ verif' = [c \in Claim |-> IF c[1] = t THEN "none" ELSE verif[c]]
    /\ custom' = [custom EXCEPT ![t] = None]
    /\ proven' = proven \ ClaimsOf(t) /\ held' = held \ ClaimsOf(t)
    /\ lost' = lost \ ClaimsOf(t)
    /\ UNCHANGED <<aged, req, job, crossed>>

Arrive(r) ==
    \/ \E c \in Claim : \/ <<r, "request", c>> \in Calls /\ Request(r, c)
                        \/ <<r, "verify", c>> \in Calls /\ Verify(r, c)
    \/ \E t \in Tenant : \/ <<r, "unbind", t>> \in Calls /\ Unbind(r, t)
                         \/ <<r, "load", t>> \in Calls /\ LoadTenant(r, t)

Continue(r) ==
    \/ CheckConflict(r) \/ FindExisting(r) \/ CountRows(r) \/ InsertRow(r)
    \/ VerifyLoadRow(r) \/ VerifyLookup(r) \/ VerifySaveRow(r) \/ VerifyEnqueue(r)
    \/ SaveTenant(r)
    \/ Abort(r)

Work(j) ==
    \/ WorkLoad(j) \/ WorkFail(j) \/ WorkLookup(j) \/ WorkSaveRow(j)
    \/ WorkLoadTenant(j) \/ WorkSaveTenant(j)
    \/ WorkFollowUp(j) \/ WorkFork(j) \/ WorkThrow(j)

Next ==
    \/ \E r \in Req : Arrive(r) \/ Continue(r)
    \/ \E j \in Job : Work(j)
    \/ \E c \in Claim : Age(c)
    \/ \E t \in Tenant : DeleteTenant(t)

Spec == Init /\ [][Next]_domVars

\* The worker keeps taking jobs and time passes; API calls may stop.
FairSpec ==
    /\ Spec
    /\ \A j \in Job : WF_domVars(Work(j))
    /\ \A c \in Claim : WF_domVars(Age(c))

-----------------------------------------------------------------------------
(***************************************************************************)
(* Properties                                                              *)
(***************************************************************************)

TypeOK ==
    /\ live \subseteq Tenant
    /\ verif \in [Claim -> Status]
    /\ aged \subseteq Claim
    /\ custom \in [Tenant -> Dom \cup {None}]
    /\ req \in [Req -> Handler]
    /\ job \in [Job -> JobState]
    /\ proven \subseteq Claim /\ held \subseteq Claim
    /\ crossed \subseteq Tenant /\ lost \subseteq Claim

\* A domain is bound to a tenant only after a lookup found that tenant's own
\* token, and after an unbind only by another such lookup - or by a handler
\* that was at work during the unbind and saved what it had loaded or found
\* before (verify 82-100, unbind 121-127, bind 135-147, handle 61-91).
BoundWasProven ==
    \A t \in Tenant : custom[t] # None => <<t, custom[t]>> \in proven \cup held

\* A tenant has more claims than MAX_DOMAINS_PER_TENANT only if two of its
\* requests overlapped, and then at most one more for each other request
\* (requestVerification 52-73, count and insert are two statements).
LimitKept ==
    \A t \in Tenant :
        LET inserting == {r \in Req : req[r].pc = "insert" /\ req[r].c[1] = t} IN
        /\ Cardinality(Rows(t)) <= MaxDomains + Cardinality(Req) - 1
        /\ t \notin crossed => Cardinality(Rows(t)) + Cardinality(inserting) <= MaxDomains

\* A claim that a check found wanting is being chased: a job of it waits or
\* is at work on the way to its next check, or verify is about to enqueue
\* one, unless the chain broke - a worker used up its attempts or verify
\* failed before the enqueue (verify 93-95, handle 61-91).
PendingIsChased ==
    \A c \in Claim :
        verif[c] = "pending" =>
            \/ c \in lost
            \/ \E r \in Req : req[r].pc = "enqueue" /\ req[r].c = c
            \/ \E j \in Job : /\ job[j].pc \in {"queued", "saveFailed", "lookup",
                                                "saveRow", "followUp"}
                              /\ job[j].c = c

\* A claim with a job ends up verified or failed, whatever the user and
\* concurrent checks do meanwhile, unless the job is lost or the tenant
\* leaves: the 5-minute follow-ups do not run for ever (handle 61-91).
JobSettles ==
    \A c \in Claim :
        (\E j \in Job : job[j].pc = "queued" /\ job[j].c = c)
            ~> (verif[c] \in {"none", "verified", "failed"} \/ c \in lost)
=============================================================================
