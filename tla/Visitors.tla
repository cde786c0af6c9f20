----------------------------- MODULE Visitors -----------------------------
(***************************************************************************)
(* What visitors leave behind: inquiries, which are mailed to the owner    *)
(* and kept for the dashboard (PublicService.submitInquiry,                *)
(* InquiriesService and its mail worker), and page views, which a nightly  *)
(* job adds up by day and later prunes (PublicService.recordPageview,      *)
(* AnalyticsRollupProcessor).                                              *)
(*                                                                         *)
(* An action is one statement with the synchronous code after it.  Text of *)
(* inquiries and mails, paths, referrers and countries are left out, as    *)
(* are the queries that only read.  Time passes in days (UTC).             *)
(***************************************************************************)
EXTENDS Naturals, FiniteSets

CONSTANTS
    Tenant,     \* tenants, each with its owner
    Leaving,    \* bound: the tenants whose account may be deleted
    Inquiry,    \* bound: the inquiries ever submitted
    View,       \* bound: the page views ever recorded
    Visitor,    \* visitors, told apart by address and user agent
    Req,        \* slots for API handlers in flight
    Workloads,  \* bound: sets of calls, by slot and with their tenants, of which
                \* a behaviour makes those of one
    Attempts,   \* attempts of a mail job (3)
    PruneAfter, \* PRUNE_AFTER_DAYS (90)
    MaxDay,     \* bound: the last day
    None        \* no row

ASSUME VisitorsAssumption ==
    /\ Leaving \subseteq Tenant
    /\ \A calls \in Workloads :
        calls \subseteq Req \X {"submit", "pageview", "read", "delete"} \X Tenant
    /\ Attempts \in Nat \ {0}
    /\ MaxDay \in Nat
    /\ PruneAfter \in Nat /\ PruneAfter > 1     \* yesterday is never pruned
    /\ None \notin [views : Nat, uniques : Nat]

Day == 0..MaxDay

VARIABLES
    live,       \* tenants whose row exists
    inquiry,    \* table `inquiries`
    told,       \* inquiry.received events, their listener not yet run
    mail,       \* queue inquiry-mail, with what the worker does, by inquiry
    stray,      \* what is left of the run of its job that stalled, by inquiry
    view,       \* table `page_views`
    stat,       \* table `daily_stats`
    today,
    due,        \* the nightly job waits
    rollup,     \* what the analytics worker does
    req,        \* API handlers in flight
    calls       \* the workload

\* History, read by the properties and by nothing else.
VARIABLES
    sent,       \* mails the mail provider took, by inquiry
    unsure,     \* inquiries of which the answer to a mail taken was lost
    lost,       \* inquiries whose event or last attempt was lost
    revived,    \* inquiries that were deleted and saved again
    visited,    \* the rows of `page_views` before any pruning
    complete    \* days of which a rollup has saved every tenant

visitVars == <<live, inquiry, told, mail, stray, view, stat, today, due, rollup, req,
               calls, sent, unsure, lost, revived, visited, complete>>
inquiries == <<inquiry, told, mail, stray, sent, unsure, lost, revived>>
analytics == <<view, stat, today, due, rollup, visited, complete>>

-----------------------------------------------------------------------------
InquiryRow == [t : Tenant, read : BOOLEAN]
\* hashSession: the visitor, salted with the tenant and the day.
ViewRow == [t : Tenant, day : Day, visitor : Visitor, salt : Day]
Stat == [views : Nat, uniques : Nat]

Handler ==
         [pc : {"idle"}]
    \cup [pc : {"insertInquiry"}, t : Tenant]
    \cup [pc : {"insertView"}, t : Tenant, visitor : Visitor, salt : Day]
    \cup [pc : {"saveRead"}, q : Inquiry, row : InquiryRow]
    \cup [pc : {"remove"}, q : Inquiry]

MailState ==
         [pc : {"none", "done"}]
    \cup [pc : {"queued", "tenant", "owner", "send"}, t : Tenant, left : 1..Attempts]

Idle == [pc |-> "idle"]
Goto(r, h) == req' = [req EXCEPT ![r] = h]
Mail(q, m) == mail' = [mail EXCEPT ![q] = m]
Done == [pc |-> "done"]
Running == {"queued", "tenant", "owner", "send"}
Told(q) == \E t \in Tenant : <<q, t>> \in told

Init ==
    /\ live = Tenant
    /\ inquiry = [q \in Inquiry |-> None]
    /\ told = {}
    /\ mail = [q \in Inquiry |-> [pc |-> "none"]]
    /\ stray = mail
    /\ view = [v \in View |-> None]
    /\ stat = [t \in Tenant |-> [d \in Day |-> None]]
    /\ today = 0
    /\ due = FALSE
    /\ rollup = Idle
    /\ req = [r \in Req |-> Idle]
    /\ sent = [q \in Inquiry |-> 0]
    /\ unsure = {} /\ lost = {} /\ revived = {}
    /\ visited = view
    /\ complete = {}
    /\ calls \in Workloads

-----------------------------------------------------------------------------
(***************************************************************************)
(* Inquiries                                                               *)
(***************************************************************************)

\* submitInquiry: tenants.findOne.
Submit(r, t) ==
    /\ req[r] = Idle
    /\ t \in live                                   \* else 404
    /\ Goto(r, [pc |-> "insertInquiry", t |-> t])
    /\ UNCHANGED <<live, inquiries, analytics>>

\* submitInquiry: inquiries.save, refused if the tenant is gone; the event.
InsertInquiry(r) ==
    LET t == req[r].t IN
    /\ req[r].pc = "insertInquiry"
    /\ t \in live
    /\ \E q \in Inquiry :
        /\ mail[q].pc = "none" /\ q \notin lost /\ ~Told(q)     \* a new id
        /\ inquiry' = [inquiry EXCEPT ![q] = [t |-> t, read |-> FALSE]]
        /\ told' = told \cup {<<q, t>>}
    /\ Goto(r, Idle)
    /\ UNCHANGED <<live, mail, stray, sent, unsure, lost, revived, analytics>>

\* InquiriesListener: the mail job is enqueued.
OnReceived(q, t) ==
    /\ <<q, t>> \in told
    /\ told' = told \ {<<q, t>>}
    /\ Mail(q, [pc |-> "queued", t |-> t, left |-> Attempts])
    /\ UNCHANGED <<live, inquiry, stray, sent, unsure, lost, revived, req, analytics>>

\* The listener's error is only logged, or the process dies.
LoseEvent(q, t) ==
    /\ <<q, t>> \in told
    /\ told' = told \ {<<q, t>>}
    /\ lost' = lost \cup {q}
    /\ UNCHANGED <<live, inquiry, mail, stray, sent, unsure, revived, req, analytics>>

\* markRead: loadOwned; one that was read is answered as it is.
MarkRead(r, q) ==
    /\ req[r] = Idle
    /\ inquiry[q] # None /\ ~inquiry[q].read
    /\ Goto(r, [pc |-> "saveRead", q |-> q, row |-> [inquiry[q] EXCEPT !.read = TRUE]])
    /\ UNCHANGED <<live, inquiries, analytics>>

\* markRead: inquiries.save of the loaded row, which inserts it again if it
\* was deleted meanwhile; refused if the tenant is gone.
SaveRead(r) ==
    LET h == req[r] IN
    /\ h.pc = "saveRead"
    /\ h.row.t \in live
    /\ inquiry' = [inquiry EXCEPT ![h.q] = h.row]
    /\ revived' = IF inquiry[h.q] = None THEN revived \cup {h.q} ELSE revived
    /\ Goto(r, Idle)
    /\ UNCHANGED <<live, told, mail, stray, sent, unsure, lost, analytics>>

\* delete: loadOwned.
DeleteInquiry(r, q) ==
    /\ req[r] = Idle
    /\ inquiry[q] # None
    /\ Goto(r, [pc |-> "remove", q |-> q])
    /\ UNCHANGED <<live, inquiries, analytics>>

\* delete: inquiries.remove.
RemoveInquiry(r) ==
    /\ req[r].pc = "remove"
    /\ inquiry' = [inquiry EXCEPT ![req[r].q] = None]
    /\ Goto(r, Idle)
    /\ UNCHANGED <<live, told, mail, stray, sent, unsure, lost, revived, analytics>>

-----------------------------------------------------------------------------
(***************************************************************************)
(* The mail worker                                                         *)
(***************************************************************************)

\* handle: inquiries.findOne, tenants.findOne, users.findOne; a missing row
\* ends the run.
Read(q, run) ==
    IF run.pc = "queued"
    THEN IF inquiry[q] = None THEN Done ELSE [run EXCEPT !.pc = "tenant"]
    ELSE IF run.t \notin live THEN Done
         ELSE [run EXCEPT !.pc = IF run.pc = "tenant" THEN "owner" ELSE "send"]

WorkRead(q) ==
    /\ mail[q].pc \in Running \ {"send"}
    /\ Mail(q, Read(q, mail[q]))
    /\ UNCHANGED <<live, inquiry, told, stray, sent, unsure, lost, revived, req, analytics>>

\* Mutation: attempts counts the retries only.
RetryOnceMore(q) ==
    IF mail[q].left > 0
    THEN Mail(q, [mail[q] EXCEPT !.pc = "queued", !.left = @ - 1]) /\ UNCHANGED lost
    ELSE Mail(q, Done) /\ lost' = lost \cup {q}
\* BullMQ runs a job that failed again until its attempts are used up.
Retry(q) ==
    IF mail[q].left > 1
    THEN Mail(q, [mail[q] EXCEPT !.pc = "queued", !.left = @ - 1]) /\ UNCHANGED lost
    ELSE Mail(q, Done) /\ lost' = lost \cup {q}

\* Mutation: a refused mail is taken for sent.
SendAnyway(q) ==
    /\ mail[q].pc = "send"
    /\ Mail(q, Done)
    /\ \E n \in {0, 1} : sent' = [sent EXCEPT ![q] = @ + n]
    /\ UNCHANGED <<live, inquiry, told, stray, unsure, lost, revived, req, analytics>>

\* MailService.send: the provider takes the mail and the job completes.
Send(q) ==
    /\ mail[q].pc = "send"
    /\ Mail(q, Done)
    /\ sent' = [sent EXCEPT ![q] = @ + 1]
    /\ UNCHANGED <<live, inquiry, told, stray, unsure, lost, revived, req, analytics>>

\* MailService.send: the provider takes the mail, but its answer does not
\* arrive.
SendUnsure(q) ==
    /\ mail[q].pc = "send"
    /\ sent' = [sent EXCEPT ![q] = @ + 1]
    /\ unsure' = unsure \cup {q}
    /\ Retry(q)
    /\ UNCHANGED <<live, inquiry, told, stray, revived, req, analytics>>

\* The provider refuses the mail or a statement fails.
WorkThrow(q) ==
    /\ mail[q].pc \in Running
    /\ Retry(q)
    /\ UNCHANGED <<live, inquiry, told, stray, sent, unsure, revived, req, analytics>>

\* A worker does not renew its lock in time, being dead or held up.  The job
\* runs again, beside what may be left of its run; one that stalled before is
\* given up, whatever its run still does.
Stall(q) ==
    /\ mail[q].pc \in Running
    /\ IF stray[q].pc = "none"
       THEN /\ stray' = [stray EXCEPT ![q] = mail[q]]
            /\ Mail(q, [mail[q] EXCEPT !.pc = "queued"])
            /\ UNCHANGED lost
       ELSE /\ Mail(q, [mail[q] EXCEPT !.left = 1])
            /\ lost' = lost \cup {q}
            /\ UNCHANGED stray
    /\ UNCHANGED <<live, inquiry, told, sent, unsure, revived, req, analytics>>

\* The run that stalled goes on; nobody listens to how it ends.
StrayRead(q) ==
    /\ stray[q].pc \in Running \ {"send"}
    /\ stray' = [stray EXCEPT ![q] = Read(q, stray[q])]
    /\ UNCHANGED <<live, inquiry, told, mail, sent, unsure, lost, revived, req, analytics>>

StraySend(q) ==
    /\ stray[q].pc = "send"
    /\ sent' = [sent EXCEPT ![q] = @ + 1]
    /\ stray' = [stray EXCEPT ![q] = Done]
    /\ UNCHANGED <<live, inquiry, told, mail, unsure, lost, revived, req, analytics>>

StrayEnds(q) ==
    /\ stray[q].pc \in Running
    /\ stray' = [stray EXCEPT ![q] = Done]
    /\ UNCHANGED <<live, inquiry, told, mail, sent, unsure, lost, revived, req, analytics>>

-----------------------------------------------------------------------------
(***************************************************************************)
(* Page views                                                              *)
(***************************************************************************)

\* recordPageview: tenants.findOne, and the hash.
RecordPageview(r, t, visitor) ==
    /\ req[r] = Idle
    /\ t \in live                                   \* else 400
    /\ Goto(r, [pc |-> "insertView", t |-> t, visitor |-> visitor, salt |-> today])
    /\ UNCHANGED <<live, inquiries, analytics>>

\* recordPageview: pageViews.save; the database sets created_at.
InsertView(r) ==
    LET h == req[r] IN
    /\ h.pc = "insertView"
    /\ h.t \in live
    /\ \E v \in View :
        /\ visited[v] = None
        /\ view' = [view EXCEPT ![v] = [t |-> h.t, day |-> today, visitor |-> h.visitor,
                                        salt |-> h.salt]]
        /\ visited' = [visited EXCEPT ![v] = view'[v]]
    /\ Goto(r, Idle)
    /\ UNCHANGED <<live, inquiries, stat, today, due, rollup, complete>>

\* Midnight, and 00:05: the job of an earlier night may still wait.
Midnight ==
    /\ today < MaxDay
    /\ today' = today + 1
    /\ due' = TRUE
    /\ UNCHANGED <<live, inquiries, view, stat, rollup, req, visited, complete>>

-----------------------------------------------------------------------------
(***************************************************************************)
(* The analytics worker                                                    *)
(***************************************************************************)

RowsOf(table, t, d) ==
    {v \in View : table[v] # None /\ table[v].t = t /\ table[v].day = d}

\* handle: the views of a tenant on a day, and the hashes among them.
Tally(table, t, d) ==
    LET rows == RowsOf(table, t, d) IN
    [views |-> Cardinality(rows),
     uniques |-> Cardinality({<<table[v].visitor, table[v].salt>> : v \in rows})]

\* Mutation: the day is the one that just began.
RollupDateToday == today
\* handle: no date is given, so it is yesterday, when the job runs.
RollupDate == today - 1

\* handle: the rows of the day, added up by tenant.
RollupLoad ==
    /\ due /\ rollup = Idle
    /\ due' = FALSE
    /\ rollup' = [pc |-> "save", date |-> RollupDate,
                  todo |-> [t \in {u \in Tenant : RowsOf(view, u, RollupDate) # {}} |->
                              Tally(view, t, RollupDate)]]
    /\ UNCHANGED <<live, inquiries, view, stat, today, req, visited, complete>>

\* handle: dailyStats.save of one tenant's row, in no particular order;
\* refused if the tenant is gone.
RollupSave ==
    /\ rollup.pc = "save"
    /\ \E t \in DOMAIN rollup.todo :
        /\ t \in live
        /\ stat' = [stat EXCEPT ![t][rollup.date] = rollup.todo[t]]
        /\ rollup' = [rollup EXCEPT !.todo =
                        [u \in DOMAIN rollup.todo \ {t} |-> rollup.todo[u]]]
    /\ UNCHANGED <<live, inquiries, view, today, due, req, visited, complete>>

\* handle: the loop is done.
RollupSaved ==
    /\ rollup.pc = "save" /\ DOMAIN rollup.todo = {}
    /\ rollup' = [pc |-> "prune"]
    /\ complete' = complete \cup {rollup.date}
    /\ UNCHANGED <<live, inquiries, view, stat, today, due, req, visited>>

\* pruneRawViews: rows older than 90 days to the minute; of the day that many
\* days ago, those before the time of day it is now.
Pruned == {v \in View : view[v] # None /\ view[v].day + PruneAfter < today}

RollupPrune ==
    /\ rollup.pc = "prune"
    /\ \E some \in SUBSET {v \in View : view[v] # None /\ view[v].day + PruneAfter = today} :
        view' = [v \in View |-> IF v \in Pruned \cup some THEN None ELSE view[v]]
    /\ rollup' = Idle
    /\ UNCHANGED <<live, inquiries, stat, today, due, req, visited, complete>>

\* A statement of the worker fails: the nightly job has one attempt.  Or the
\* process dies: the stalled job runs again.
RollupThrow ==
    /\ rollup # Idle
    /\ rollup' = Idle
    /\ due' \in {due, TRUE}
    /\ UNCHANGED <<live, inquiries, view, stat, today, req, visited, complete>>

-----------------------------------------------------------------------------
\* An API handler fails, or the process dies.
Abort(r) ==
    /\ req[r] # Idle
    /\ Goto(r, Idle)
    /\ UNCHANGED <<live, inquiries, analytics>>

\* The owner's account is deleted; the cascade takes the tenant with its rows.
DeleteTenant(t) ==
    LET Others(table) == [x \in DOMAIN table |->
                            IF table[x] # None /\ table[x].t = t THEN None ELSE table[x]]
    IN
    /\ t \in Leaving \cap live
    /\ live' = live \ {t}
    /\ inquiry' = Others(inquiry)
    /\ view' = Others(view) /\ visited' = Others(visited)
    /\ stat' = [stat EXCEPT ![t] = [d \in Day |-> None]]
    /\ UNCHANGED <<told, mail, stray, today, due, rollup, req, sent, unsure, lost, revived, complete>>

Arrive(r) ==
    \E t \in Tenant :
        \/ <<r, "submit", t>> \in calls /\ Submit(r, t)
        \/ <<r, "pageview", t>> \in calls /\ \E visitor \in Visitor : RecordPageview(r, t, visitor)
        \/ /\ <<r, "read", t>> \in calls
           /\ \E q \in Inquiry : inquiry[q] # None /\ inquiry[q].t = t /\ MarkRead(r, q)
        \/ /\ <<r, "delete", t>> \in calls
           /\ \E q \in Inquiry : inquiry[q] # None /\ inquiry[q].t = t /\ DeleteInquiry(r, q)

Continue(r) ==
    \/ InsertInquiry(r) \/ SaveRead(r) \/ RemoveInquiry(r) \/ InsertView(r)
    \/ Abort(r)

MailWork(q) ==
    \/ WorkRead(q) \/ Send(q) \/ SendUnsure(q) \/ WorkThrow(q)
    \/ Stall(q) \/ StrayRead(q) \/ StraySend(q) \/ StrayEnds(q)

RollupWork == RollupLoad \/ RollupSave \/ RollupSaved \/ RollupPrune \/ RollupThrow

Next ==
    /\ \/ \E r \in Req : Arrive(r) \/ Continue(r)
       \/ \E q \in Inquiry : \/ \E t \in Tenant : OnReceived(q, t) \/ LoseEvent(q, t)
                            \/ MailWork(q)
       \/ Midnight
       \/ RollupWork
       \/ \E t \in Tenant : DeleteTenant(t)
    /\ UNCHANGED calls

Spec == Init /\ [][Next]_visitVars

-----------------------------------------------------------------------------
(***************************************************************************)
(* Properties                                                              *)
(***************************************************************************)

TypeOK ==
    /\ live \subseteq Tenant
    /\ inquiry \in [Inquiry -> InquiryRow \cup {None}]
    /\ told \subseteq Inquiry \X Tenant
    /\ mail \in [Inquiry -> MailState] /\ stray \in [Inquiry -> MailState]
    /\ view \in [View -> ViewRow \cup {None}] /\ visited \in [View -> ViewRow \cup {None}]
    /\ stat \in [Tenant -> [Day -> Stat \cup {None}]]
    /\ today \in Day /\ due \in BOOLEAN
    /\ \/ rollup \in [pc : {"idle", "prune"}]
       \/ /\ DOMAIN rollup = {"pc", "date", "todo"}
          /\ rollup.pc = "save" /\ rollup.date \in Day
          /\ DOMAIN rollup.todo \subseteq Tenant
          /\ \A t \in DOMAIN rollup.todo : rollup.todo[t] \in Stat
    /\ req \in [Req -> Handler]
    /\ sent \in [Inquiry -> Nat]
    /\ unsure \subseteq Inquiry /\ lost \subseteq Inquiry /\ revived \subseteq Inquiry
    /\ complete \subseteq Day
    /\ calls \in Workloads

\* An inquiry in the dashboard was mailed to the owner or is on its way,
\* unless its event or its last attempt was lost, or it was deleted - and
\* not mailed for that - and saved again by a markRead that had loaded it
\* before; and it was mailed more than once only if an answer of the mail
\* provider was lost or its job stalled, and then never more often than the
\* job has attempts, but for the run that stalled (submitInquiry 102-104,
\* handle 58-96, markRead 72-79).
InquiryIsMailed ==
    \A q \in Inquiry :
        LET stalled == stray[q].pc # "none" IN
        /\ inquiry[q] # None =>
            \/ Told(q) \/ mail[q].pc \in Running
            \/ sent[q] > 0
            \/ q \in lost \cup revived
        /\ sent[q] > 1 => q \in unsure \/ stalled
        /\ sent[q] <= IF stalled THEN Attempts + 1 ELSE Attempts

\* A day's row, whenever the job ran and however often, counts every view of
\* the day and each visitor once - twice if a view straddled midnight - and
\* stays so when the views are pruned; and no view is pruned uncounted,
\* unless the rollup of its day did not get through, as when another
\* tenant's account was deleted while it ran (handle 62-98, prune 100-104).
StatsKeepTheCount ==
    \A t \in live, d \in Day :
        LET rows == RowsOf(visited, t, d)
            here == RowsOf(view, t, d)
            row == stat[t][d]
        IN
        /\ row # None =>
            /\ row.views = Cardinality(rows)
            /\ (\A v \in rows : visited[v].salt = d) =>
                row.uniques = Cardinality({visited[v].visitor : v \in rows})
        /\ here # rows /\ row = None => d \notin complete
=============================================================================
