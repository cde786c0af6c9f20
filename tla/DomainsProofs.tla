---------------------------- MODULE DomainsProofs ----------------------------
(***************************************************************************)
(* Theorems about Domains, for any tenants, claims, calls, handlers and    *)
(* jobs.                                                                   *)
(*                                                                         *)
(* A domain is bound by handlers and jobs that hold the result of a lookup *)
(* or a tenant row loaded earlier, so what they hold must be a proof while *)
(* they hold it (Carried).  That a tenant stays within its limit needs, on *)
(* top of a count over the requests in flight (Limits), that no save of a  *)
(* verification row brings a row into being: whoever saves one has seen    *)
(* it, and rows only go with their tenant (Carried again).                 *)
(***************************************************************************)
EXTENDS Domains, FiniteSetTheorems, TLAPS

\* What a handler in state h, or a job in state s, holds of a tenant in lv is
\* in ph, the claims proven or held, and the row it will save is in ver.
HandlerOK(lv, ver, ph, h) ==
    /\ h.pc = "saveRow" /\ h.c[1] \in lv /\ h.found => h.c \in ph
    /\ h.pc = "saveTenant" /\ h.t \in lv /\ h.dom # None => <<h.t, h.dom>> \in ph
    /\ h.pc \in {"lookup", "saveRow"} /\ h.c[1] \in lv => ver[h.c] # "none"

JobOK(lv, ver, ph, s) ==
    /\ s.pc \in {"loadTenant", "saveTenant"} /\ s.c[1] \in lv => s.c \in ph
    /\ s.pc = "saveRow" /\ s.c[1] \in lv /\ s.found => s.c \in ph
    /\ s.pc \in {"saveFailed", "lookup", "saveRow"} /\ s.c[1] \in lv => ver[s.c] # "none"

Carried ==
    /\ \A r \in Req : HandlerOK(live, verif, proven \cup held, req[r])
    /\ \A j \in Job : JobOK(live, verif, proven \cup held, job[j])

\* The claims of t that have a row in ver, and the requests of t in rq that
\* may still, or are about to, insert one.
RowsIn(ver, t) == {c \in ClaimsOf(t) : ver[c] # "none"}
Asking == {"existing", "count", "insert"}
AskingFor(rq, t) == {r \in Req : rq[r].pc \in Asking /\ rq[r].c[1] = t}
Inserting(rq, t) == {r \in Req : rq[r].pc = "insert" /\ rq[r].c[1] = t}

Within(ver, rq, cr, t) ==
    /\ IsFiniteSet(RowsIn(ver, t))
    /\ Cardinality(RowsIn(ver, t)) + Cardinality(Inserting(rq, t))
           <= MaxDomains + Cardinality(Req) - 1
    /\ t \notin cr =>
        /\ \A p, q \in AskingFor(rq, t) : p = q
        /\ Cardinality(RowsIn(ver, t)) + Cardinality(Inserting(rq, t)) <= MaxDomains

Limits == \A t \in Tenant : Within(verif, req, crossed, t)

IInv == TypeOK /\ Carried /\ BoundWasProven /\ PendingIsChased /\ Limits

-----------------------------------------------------------------------------
(***************************************************************************)
(* Claims, handlers and jobs                                               *)
(***************************************************************************)

LEMMA ClaimFields ==
    ASSUME NEW c \in Claim
    PROVE  c[1] \in Tenant /\ c[2] \in Dom /\ c = <<c[1], c[2]>> /\ c[2] # None
BY DomainsAssumption

\* What a handler state holds, by its pc.
LEMMA HandlerFields ==
    ASSUME NEW h \in Handler
    PROVE  /\ h.pc \in Asking \cup {"conflict", "enqueue", "row", "lookup", "saveRow"} => h.c \in Claim
           /\ h.pc \in {"row", "lookup", "saveRow"} => h.bound \in BOOLEAN
           /\ h.pc = "saveRow" => h.found \in BOOLEAN
           /\ h.pc = "saveTenant" => h.t \in Tenant /\ h.dom \in Dom \cup {None}
BY DEF Handler, Asking

\* What a job state holds, by its pc.
LEMMA JobFields ==
    ASSUME NEW s \in JobState
    PROVE  /\ s.pc # "free" => s.c \in Claim /\ s.left \in 1..Attempts
           /\ s.pc = "saveRow" => s.found \in BOOLEAN
BY DEF JobState

\* The states that handlers go to.
LEMMA HandlerMade ==
    /\ Idle \in Handler /\ Idle.pc = "idle"
    /\ \A c \in Claim : \A pc \in Asking \cup {"conflict", "enqueue"} : [pc |-> pc, c |-> c] \in Handler
    /\ \A c \in Claim : \A b \in BOOLEAN : \A pc \in {"row", "lookup"} :
           [pc |-> pc, c |-> c, bound |-> b] \in Handler
    /\ \A c \in Claim : \A b, f \in BOOLEAN :
           [pc |-> "saveRow", c |-> c, bound |-> b, found |-> f] \in Handler
    /\ \A t \in Tenant : \A dom \in Dom \cup {None} :
           [pc |-> "saveTenant", t |-> t, dom |-> dom] \in Handler
BY DEF Idle, Handler, Asking

\* The states that jobs go to.
LEMMA JobMade ==
    /\ Free \in JobState /\ Free.pc = "free"
    /\ \A c \in Claim : Queued(c) \in JobState
    /\ \A c \in Claim : Queued(c).pc = "queued" /\ Queued(c).c = c
    /\ \A c \in Claim : \A left \in 1..Attempts :
           \A pc \in {"queued", "saveFailed", "lookup", "loadTenant", "saveTenant", "followUp"} :
               [pc |-> pc, c |-> c, left |-> left] \in JobState
    /\ \A c \in Claim : \A left \in 1..Attempts : \A f \in BOOLEAN :
           [pc |-> "saveRow", c |-> c, left |-> left, found |-> f] \in JobState
BY DomainsAssumption DEF Free, Queued, JobState

LEMMA GotoReq ==
    ASSUME req \in [Req -> Handler], NEW r \in Req, NEW h \in Handler, Goto(r, h)
    PROVE  req' \in [Req -> Handler] /\ req'[r] = h /\ \A q \in Req \ {r} : req'[q] = req[q]
BY DEF Goto

LEMMA StepJob ==
    ASSUME job \in [Job -> JobState], NEW j \in Job, NEW s \in JobState, Step(j, s)
    PROVE  job' \in [Job -> JobState] /\ job'[j] = s /\ \A k \in Job \ {j} : job'[k] = job[k]
BY DEF Step

-----------------------------------------------------------------------------
(***************************************************************************)
(* What a step keeps when it moves one handler or one job                  *)
(***************************************************************************)

\* Nobody loses what it holds: tenants only go, proofs and rows only come.
Growing ==
    /\ live' \subseteq live
    /\ proven \cup held \subseteq proven' \cup held'
    /\ \A c \in Claim : verif[c] # "none" => verif'[c] # "none"

LEMMA HandlerStaysOK ==
    ASSUME Growing, NEW h \in Handler, HandlerOK(live, verif, proven \cup held, h)
    PROVE  HandlerOK(live', verif', proven' \cup held', h)
BY HandlerFields DEF Growing, HandlerOK

LEMMA JobStaysOK ==
    ASSUME Growing, NEW s \in JobState, JobOK(live, verif, proven \cup held, s)
    PROVE  JobOK(live', verif', proven' \cup held', s)
BY JobFields DEF Growing, JobOK

LEMMA ReqCarried ==
    ASSUME TypeOK, Carried, NEW r \in Req, NEW h \in Handler, Goto(r, h), UNCHANGED job,
           Growing, HandlerOK(live', verif', proven' \cup held', h)
    PROVE  Carried'
<1>1. \A q \in Req : HandlerOK(live', verif', proven' \cup held', req'[q])
  BY GotoReq, HandlerStaysOK DEF TypeOK, Carried
<1>2. \A k \in Job : JobOK(live', verif', proven' \cup held', job'[k])
  BY JobStaysOK DEF TypeOK, Carried
<1> QED
  BY <1>1, <1>2 DEF Carried

LEMMA JobCarried ==
    ASSUME TypeOK, Carried, NEW j \in Job, NEW s \in JobState, Step(j, s), UNCHANGED req,
           Growing, JobOK(live', verif', proven' \cup held', s)
    PROVE  Carried'
<1>1. \A q \in Req : HandlerOK(live', verif', proven' \cup held', req'[q])
  BY HandlerStaysOK DEF TypeOK, Carried
<1>2. \A k \in Job : JobOK(live', verif', proven' \cup held', job'[k])
  BY StepJob, JobStaysOK DEF TypeOK, Carried
<1> QED
  BY <1>1, <1>2 DEF Carried

\* Job state s, or handler state h, chases claim c.
JobChases(s, c) ==
    /\ s.pc \in {"queued", "saveFailed", "lookup", "saveRow", "followUp"}
    /\ s.c = c
HandlerChases(h, c) == h.pc = "enqueue" /\ h.c = c

\* PendingIsChased in these words.
LEMMA ChasedSaid ==
    PendingIsChased <=>
        \A c \in Claim : verif[c] = "pending" =>
            \/ c \in lost
            \/ \E r \in Req : HandlerChases(req[r], c)
            \/ \E j \in Job : JobChases(job[j], c)
BY DEF PendingIsChased, HandlerChases, JobChases

LEMMA ChasedSaidNext ==
    PendingIsChased' <=>
        \A c \in Claim : verif'[c] = "pending" =>
            \/ c \in lost'
            \/ \E r \in Req : HandlerChases(req'[r], c)
            \/ \E j \in Job : JobChases(job'[j], c)
BY DEF PendingIsChased, HandlerChases, JobChases

\* A handler goes to state h.
LEMMA ReqChased ==
    ASSUME TypeOK, PendingIsChased, NEW r \in Req, NEW h \in Handler, Goto(r, h),
           UNCHANGED job, lost \subseteq lost',
           \A c \in Claim : verif'[c] = "pending" => verif[c] = "pending" \/ HandlerChases(h, c),
           req[r].pc = "enqueue" => req[r].c \in lost'
    PROVE  PendingIsChased'
<1> SUFFICES ASSUME NEW c \in Claim, verif'[c] = "pending", c \notin lost'
             PROVE  \/ \E q \in Req : HandlerChases(req'[q], c)
                    \/ \E k \in Job : JobChases(job'[k], c)
  BY ChasedSaidNext
<1>1. CASE HandlerChases(h, c)
  BY <1>1, GotoReq DEF TypeOK
<1>2. CASE verif[c] = "pending"
  <2>1. \/ \E q \in Req : HandlerChases(req[q], c)
        \/ \E k \in Job : JobChases(job[k], c)
    BY <1>2, ChasedSaid
  <2>2. ~HandlerChases(req[r], c)
    BY DEF HandlerChases
  <2> QED
    BY <2>1, <2>2, GotoReq DEF TypeOK
<1> QED
  BY <1>1, <1>2

\* A job goes to state s: unless s chases it, its claim is lost or no longer
\* pending.
LEMMA JobChased ==
    ASSUME TypeOK, PendingIsChased, NEW j \in Job, NEW s \in JobState, Step(j, s),
           UNCHANGED req,
           \A c \in Claim : verif'[c] = "pending" =>
               \/ JobChases(s, c)
               \/ verif[c] = "pending" /\ (c \in lost => c \in lost')
                                       /\ (JobChases(job[j], c) => c \in lost')
    PROVE  PendingIsChased'
<1> SUFFICES ASSUME NEW c \in Claim, verif'[c] = "pending", c \notin lost'
             PROVE  \/ \E q \in Req : HandlerChases(req'[q], c)
                    \/ \E k \in Job : JobChases(job'[k], c)
  BY ChasedSaidNext
<1>1. CASE JobChases(s, c)
  BY <1>1, StepJob DEF TypeOK
<1>2. CASE ~JobChases(s, c)
  <2>1. \/ \E q \in Req : HandlerChases(req[q], c)
        \/ \E k \in Job : JobChases(job[k], c)
    BY <1>2, ChasedSaid
  <2>2. ~JobChases(job[j], c)
    BY <1>2
  <2> QED
    BY <2>1, <2>2, StepJob DEF TypeOK
<1> QED
  BY <1>1, <1>2

-----------------------------------------------------------------------------
(***************************************************************************)
(* The limit                                                               *)
(***************************************************************************)

LEMMA OneMore ==
    ASSUME NEW S, NEW x, IsFiniteSet(S)
    PROVE  /\ IsFiniteSet(S \cup {x})
           /\ Cardinality(S \cup {x}) <= Cardinality(S) + 1
           /\ Cardinality(S) \in Nat
<1>1. Cardinality(S) \in Nat
  BY FS_CardinalityType
<1>2. CASE x \in S
  <2>1. S \cup {x} = S
    BY <1>2
  <2>2. IsFiniteSet(S \cup {x}) /\ Cardinality(S \cup {x}) = Cardinality(S)
    BY <2>1, Zenon
  <2> QED
    BY <1>1, <2>2
<1>3. CASE x \notin S
  <2>1. /\ IsFiniteSet(S \cup {x})
        /\ Cardinality(S \cup {x}) = Cardinality(S) + 1
    BY <1>3, FS_AddElement
  <2> QED
    BY <1>1, <2>1
<1> QED
  BY <1>2, <1>3

LEMMA InsertingFinite ==
    ASSUME NEW rq, NEW t
    PROVE  /\ IsFiniteSet(Inserting(rq, t))
           /\ Cardinality(Inserting(rq, t)) \in Nat
           /\ Cardinality(Inserting(rq, t)) <= Cardinality(Req)
           /\ Cardinality(Req) \in Nat \ {0}
<1>1. Inserting(rq, t) \subseteq Req
  BY DEF Inserting
<1>2. Cardinality(Req) \in Nat /\ Cardinality(Req) # 0
  BY DomainsAssumption, FS_CardinalityType, FS_EmptySet
<1> QED
  BY <1>1, <1>2, DomainsAssumption, FS_Subset, FS_CardinalityType

\* Nothing is added: no row, no request, no insert about to happen.
LEMMA FewerWithin ==
    ASSUME NEW v1, NEW q1, NEW k1, NEW v2, NEW q2, NEW k2, NEW t, Within(v1, q1, k1, t),
           RowsIn(v2, t) \subseteq RowsIn(v1, t),
           AskingFor(q2, t) \subseteq AskingFor(q1, t),
           Inserting(q2, t) \subseteq Inserting(q1, t),
           k1 \subseteq k2
    PROVE  Within(v2, q2, k2, t)
<1>1. /\ IsFiniteSet(RowsIn(v2, t))
      /\ Cardinality(RowsIn(v2, t)) <= Cardinality(RowsIn(v1, t))
  BY FS_Subset DEF Within
<1>2. Cardinality(Inserting(q2, t)) <= Cardinality(Inserting(q1, t))
  BY InsertingFinite, FS_Subset
<1>3. Cardinality(RowsIn(v2, t)) \in Nat /\ Cardinality(RowsIn(v1, t)) \in Nat
  BY <1>1, FS_CardinalityType DEF Within
<1>4. /\ Cardinality(Inserting(q2, t)) \in Nat /\ Cardinality(Inserting(q1, t)) \in Nat
      /\ Cardinality(Req) \in Nat
  BY InsertingFinite
<1>5. Cardinality(RowsIn(v2, t)) + Cardinality(Inserting(q2, t))
          <= Cardinality(RowsIn(v1, t)) + Cardinality(Inserting(q1, t))
  BY <1>1, <1>2, <1>3, <1>4
<1>6. MaxDomains \in Nat
  BY DomainsAssumption
<1>7. Cardinality(RowsIn(v2, t)) + Cardinality(Inserting(q2, t))
          <= MaxDomains + Cardinality(Req) - 1
  BY <1>3, <1>4, <1>5, <1>6 DEF Within
<1>8. ASSUME t \notin k2
      PROVE  /\ \A p, q \in AskingFor(q2, t) : p = q
             /\ Cardinality(RowsIn(v2, t)) + Cardinality(Inserting(q2, t)) <= MaxDomains
  BY <1>3, <1>4, <1>5, <1>6, <1>8 DEF Within
<1> QED
  BY <1>1, <1>7, <1>8 DEF Within

\* The step creates no row.
NoRowAdded == \A c \in Claim : verif'[c] # "none" => verif[c] # "none"

LEMMA RowsFewer ==
    ASSUME NoRowAdded, NEW t
    PROVE  RowsIn(verif', t) \subseteq RowsIn(verif, t)
BY DEF NoRowAdded, RowsIn, ClaimsOf

\* A handler goes to state h, without a row or a request more.
LEMMA ReqLimits ==
    ASSUME TypeOK, Limits, NEW r \in Req, NEW h \in Handler, Goto(r, h), NoRowAdded,
           UNCHANGED crossed,
           h.pc # "insert",
           h.pc \in Asking => req[r].pc \in Asking /\ h.c[1] = req[r].c[1]
    PROVE  Limits'
<1> SUFFICES ASSUME NEW t \in Tenant
             PROVE  Within(verif', req', crossed', t)
  BY DEF Limits
<1>1. AskingFor(req', t) \subseteq AskingFor(req, t)
  BY GotoReq DEF AskingFor, TypeOK
<1>2. Inserting(req', t) \subseteq Inserting(req, t)
  BY GotoReq DEF Inserting, TypeOK
<1> QED
  BY <1>1, <1>2, RowsFewer, FewerWithin DEF Limits

\* No handler moves.
LEMMA StillLimits ==
    ASSUME TypeOK, Limits, NoRowAdded, UNCHANGED <<req, crossed>>
    PROVE  Limits'
<1> SUFFICES ASSUME NEW t \in Tenant
             PROVE  Within(verif', req', crossed', t)
  BY DEF Limits
<1> QED
  BY RowsFewer, FewerWithin DEF Limits

-----------------------------------------------------------------------------
(***************************************************************************)
(* Steps that move one handler or one job and nothing else                 *)
(***************************************************************************)

StoresUnchanged ==
    UNCHANGED <<live, verif, aged, custom, proven, held, crossed, lost>>

LEMMA QuietReq ==
    ASSUME IInv, NEW r \in Req, NEW h \in Handler, Goto(r, h), UNCHANGED job,
           StoresUnchanged,
           req[r].pc # "enqueue",
           HandlerOK(live, verif, proven \cup held, h),
           h.pc # "insert",
           h.pc \in Asking => req[r].pc \in Asking /\ h.c[1] = req[r].c[1]
    PROVE  IInv'
<1>1. TypeOK'
  BY GotoReq DEF IInv, TypeOK, StoresUnchanged
<1>2. Growing /\ NoRowAdded
  BY DEF StoresUnchanged, Growing, NoRowAdded
<1>3. Carried'
  BY <1>2, ReqCarried DEF IInv, StoresUnchanged
<1>4. BoundWasProven'
  BY DEF IInv, BoundWasProven, StoresUnchanged
<1>5. PendingIsChased'
  BY ReqChased DEF IInv, StoresUnchanged
<1>6. Limits'
  BY <1>2, ReqLimits DEF IInv, StoresUnchanged
<1> QED
  BY <1>1, <1>3, <1>4, <1>5, <1>6 DEF IInv

LEMMA QuietJob ==
    ASSUME IInv, NEW j \in Job, NEW s \in JobState, Step(j, s), UNCHANGED req,
           StoresUnchanged,
           JobOK(live, verif, proven \cup held, s),
           \A c \in Claim : verif[c] = "pending" /\ JobChases(job[j], c) => JobChases(s, c)
    PROVE  IInv'
<1>1. TypeOK'
  BY StepJob DEF IInv, TypeOK, StoresUnchanged
<1>2. Growing /\ NoRowAdded
  BY DEF StoresUnchanged, Growing, NoRowAdded
<1>3. Carried'
  BY <1>2, JobCarried DEF IInv, StoresUnchanged
<1>4. BoundWasProven'
  BY DEF IInv, BoundWasProven, StoresUnchanged
<1>5. PendingIsChased'
  BY JobChased DEF IInv, StoresUnchanged
<1>6. Limits'
  BY <1>2, StillLimits DEF IInv, StoresUnchanged
<1> QED
  BY <1>1, <1>3, <1>4, <1>5, <1>6 DEF IInv

LEMMA IdleOK ==
    /\ \A lv, ver, ph : HandlerOK(lv, ver, ph, Idle)
    /\ \A lv, ver, ph : JobOK(lv, ver, ph, Free)
    /\ \A c : ~HandlerChases(Idle, c) /\ ~JobChases(Free, c)
BY DEF HandlerOK, JobOK, Idle, Free, HandlerChases, JobChases

-----------------------------------------------------------------------------
(***************************************************************************)
(* requestVerification                                                     *)
(***************************************************************************)

LEMMA RequestStep ==
    ASSUME IInv, NEW r \in Req, NEW c \in Claim, Request(r, c)
    PROVE  IInv'
<1> DEFINE h == [pc |-> "conflict", c |-> c]
<1>1. h \in Handler /\ h.pc = "conflict" /\ req[r].pc = "idle"
  BY HandlerMade DEF Request
<1>2. Goto(r, h) /\ StoresUnchanged /\ UNCHANGED job
  BY DEF Request, history, StoresUnchanged
<1> HIDE DEF h
<1>3. HandlerOK(live, verif, proven \cup held, h)
  BY <1>1 DEF HandlerOK
<1> QED
  BY <1>1, <1>2, <1>3, QuietReq DEF Asking

\* A request that meets no conflict.
LEMMA NoConflictStep ==
    ASSUME IInv, NEW r \in Req, CheckConflict(r),
           \A u \in Tenant \ {req[r].c[1]} : custom[u] # req[r].c[2]
    PROVE  IInv'
<1> DEFINE c == req[r].c
           h == [pc |-> "existing", c |-> c]
<1>0. req[r].pc = "conflict" /\ c \in Claim
  BY HandlerFields DEF IInv, TypeOK, CheckConflict
<1>1. h \in Handler /\ h.pc = "existing" /\ h.c = c
  BY <1>0, HandlerMade DEF Asking
<1>2. /\ Goto(r, h) /\ UNCHANGED <<live, verif, aged, custom, job, proven, held, lost>>
      /\ crossed' = IF \E q \in Req : q \in AskingFor(req, c[1])
                    THEN crossed \cup {c[1]} ELSE crossed
  BY DEF CheckConflict, AskingFor, Asking
<1> HIDE DEF c, h
<1>3. req' \in [Req -> Handler] /\ req'[r] = h /\ \A q \in Req \ {r} : req'[q] = req[q]
  BY <1>1, <1>2, GotoReq DEF IInv, TypeOK
<1>4. TypeOK'
  BY <1>0, <1>2, <1>3, ClaimFields DEF IInv, TypeOK
<1>5. Growing /\ NoRowAdded
  BY <1>2 DEF Growing, NoRowAdded
<1>6. Carried'
  BY <1>1, <1>2, <1>5, ReqCarried DEF IInv, HandlerOK
<1>7. BoundWasProven'
  BY <1>2 DEF IInv, BoundWasProven
<1>8. PendingIsChased'
  BY <1>0, <1>1, <1>2, HandlerMade, ReqChased DEF IInv, HandlerChases
<1>9. ASSUME NEW t \in Tenant
      PROVE  Within(verif', req', crossed', t)
  <2>1. Inserting(req', t) = Inserting(req, t)
    BY <1>0, <1>1, <1>2, <1>3 DEF Inserting
  <2>2. Within(verif, req, crossed, t) /\ verif' = verif
    BY <1>2 DEF IInv, Limits
  <2>3. CASE c[1] # t
    <3>1. AskingFor(req', t) = AskingFor(req, t) /\ crossed \subseteq crossed'
      BY <1>0, <1>1, <1>2, <1>3, <2>3 DEF AskingFor, Asking
    <3> QED
      BY <2>1, <2>2, <3>1, FewerWithin
  <2>4. CASE c[1] = t /\ t \in crossed'
    BY <2>1, <2>2, <2>4 DEF Within
  <2>5. CASE c[1] = t /\ t \notin crossed'
    <3>1. AskingFor(req, t) = {}
      BY <1>2, <2>5 DEF AskingFor
    <3>2. \A p \in AskingFor(req', t) : p = r
      BY <1>3, <3>1 DEF AskingFor
    <3>3. t \notin crossed
      BY <1>2, <2>5
    <3> QED
      BY <2>1, <2>2, <3>2, <3>3 DEF Within
  <2> QED
    BY <2>3, <2>4, <2>5
<1> QED
  BY <1>4, <1>6, <1>7, <1>8, <1>9 DEF IInv, Limits

LEMMA CheckConflictStep ==
    ASSUME IInv, NEW r \in Req, CheckConflict(r)
    PROVE  IInv'
<1>1. CASE \E u \in Tenant \ {req[r].c[1]} : custom[u] = req[r].c[2]
  <2>1. Goto(r, Idle) /\ StoresUnchanged /\ UNCHANGED job /\ req[r].pc = "conflict"
    BY <1>1 DEF CheckConflict, StoresUnchanged
  <2> QED
    BY <2>1, HandlerMade, IdleOK, QuietReq DEF Asking
<1>2. CASE ~ \E u \in Tenant \ {req[r].c[1]} : custom[u] = req[r].c[2]
  BY <1>2, NoConflictStep
<1> QED
  BY <1>1, <1>2

LEMMA FindExistingStep ==
    ASSUME IInv, NEW r \in Req, FindExisting(r)
    PROVE  IInv'
<1>1. req[r] \in Handler /\ req[r].pc = "existing" /\ req[r].c \in Claim
  BY HandlerFields DEF IInv, TypeOK, FindExisting, Asking
<1>2. StoresUnchanged /\ UNCHANGED job
  BY DEF FindExisting, history, StoresUnchanged
<1>3. CASE verif[req[r].c] # "none"
  <2>1. Goto(r, Idle)
    BY <1>3 DEF FindExisting
  <2> QED
    BY <1>1, <1>2, <2>1, HandlerMade, IdleOK, QuietReq DEF Asking
<1>4. CASE verif[req[r].c] = "none"
  <2> DEFINE h == [pc |-> "count", c |-> req[r].c]
  <2>1. Goto(r, h)
    BY <1>4 DEF FindExisting
  <2>2. h \in Handler /\ h.pc = "count" /\ h.c = req[r].c
    BY <1>1, HandlerMade DEF Asking
  <2> HIDE DEF h
  <2>3. HandlerOK(live, verif, proven \cup held, h)
    BY <2>2 DEF HandlerOK
  <2> QED
    BY <1>1, <1>2, <2>1, <2>2, <2>3, QuietReq DEF Asking
<1> QED
  BY <1>3, <1>4

LEMMA CountRowsStep ==
    ASSUME IInv, NEW r \in Req, CountRows(r)
    PROVE  IInv'
<1>1. req[r] \in Handler /\ req[r].pc = "count" /\ req[r].c \in Claim
  BY HandlerFields DEF IInv, TypeOK, CountRows, Asking
<1>2. StoresUnchanged /\ UNCHANGED job
  BY DEF CountRows, history, StoresUnchanged
<1>3. CASE Cardinality(Rows(req[r].c[1])) >= MaxDomains
  <2>1. Goto(r, Idle)
    BY <1>3 DEF CountRows
  <2> QED
    BY <1>1, <1>2, <2>1, HandlerMade, IdleOK, QuietReq DEF Asking
<1>4. CASE ~(Cardinality(Rows(req[r].c[1])) >= MaxDomains)
  <2> DEFINE c == req[r].c
             h == [pc |-> "insert", c |-> c]
  <2>1. Goto(r, h)
    BY <1>4 DEF CountRows
  <2>2. h \in Handler /\ h.pc = "insert" /\ h.c = c
    BY <1>1, HandlerMade DEF Asking
  <2>3. ~(Cardinality(RowsIn(verif, c[1])) >= MaxDomains)
    BY <1>4 DEF Rows, RowsIn
  <2> HIDE DEF h
  <2>4. TypeOK'
    BY <1>2, <2>1, <2>2, GotoReq DEF IInv, TypeOK, StoresUnchanged
  <2>5. Growing
    BY <1>2 DEF Growing, StoresUnchanged
  <2>6. Carried'
    BY <1>2, <2>1, <2>2, <2>5, ReqCarried DEF IInv, HandlerOK
  <2>7. BoundWasProven'
    BY <1>2 DEF IInv, BoundWasProven, StoresUnchanged
  <2>8. PendingIsChased'
    BY <1>1, <1>2, <2>1, <2>2, ReqChased DEF IInv, StoresUnchanged
  <2>9. req'[r] = h /\ \A q \in Req \ {r} : req'[q] = req[q]
    BY <2>1, <2>2, GotoReq DEF IInv, TypeOK
  <2>10. ASSUME NEW t \in Tenant
         PROVE  Within(verif', req', crossed', t)
    <3>1. /\ Within(verif, req, crossed, t) /\ verif' = verif /\ crossed' = crossed
          /\ AskingFor(req', t) = AskingFor(req, t)
      BY <1>1, <1>2, <2>2, <2>9 DEF IInv, Limits, AskingFor, Asking, StoresUnchanged
    <3>2. CASE c[1] # t
      <4>1. Inserting(req', t) = Inserting(req, t)
        BY <1>1, <2>2, <2>9, <3>2 DEF Inserting
      <4> QED
        BY <3>1, <4>1, FewerWithin
    <3>3. CASE c[1] = t
      <4>1. /\ Cardinality(RowsIn(verif, t)) \in Nat /\ MaxDomains \in Nat
            /\ Cardinality(RowsIn(verif, t)) <= MaxDomains - 1
        BY <2>3, <3>1, <3>3, FS_CardinalityType, DomainsAssumption DEF Within
      <4>2. /\ Cardinality(Inserting(req', t)) \in Nat /\ Cardinality(Req) \in Nat
            /\ Cardinality(Inserting(req', t)) <= Cardinality(Req)
        BY InsertingFinite
      <4>3. Cardinality(RowsIn(verif, t)) + Cardinality(Inserting(req', t))
                <= MaxDomains + Cardinality(Req) - 1
        BY <4>1, <4>2
      <4>4. ASSUME t \notin crossed
            PROVE  Cardinality(RowsIn(verif, t)) + Cardinality(Inserting(req', t)) <= MaxDomains
        <5>1. AskingFor(req', t) = {r}
          BY <1>1, <3>1, <3>3, <4>4 DEF Within, AskingFor, Asking
        <5>2. Inserting(req', t) \subseteq {r}
          BY <5>1 DEF AskingFor, Inserting, Asking
        <5>3. Cardinality(Inserting(req', t)) <= 1
          <6>1. IsFiniteSet({r}) /\ Cardinality({r}) = 1
            BY FS_Singleton
          <6>2. Cardinality(Inserting(req', t)) <= Cardinality({r})
            BY <5>2, <6>1, FS_Subset
          <6> QED
            BY <6>1, <6>2
        <5> QED
          BY <4>1, <4>2, <5>3
      <4> QED
        BY <3>1, <4>3, <4>4 DEF Within
    <3> QED
      BY <3>2, <3>3
  <2> QED
    BY <2>4, <2>6, <2>7, <2>8, <2>10 DEF IInv, Limits
<1> QED
  BY <1>3, <1>4

LEMMA InsertRowStep ==
    ASSUME IInv, NEW r \in Req, InsertRow(r)
    PROVE  IInv'
<1> DEFINE c == req[r].c
<1>1. req[r] \in Handler /\ req[r].pc = "insert" /\ c \in Claim /\ c[1] \in Tenant
  BY HandlerFields, ClaimFields DEF IInv, TypeOK, InsertRow, Asking
<1>2. /\ Goto(r, Idle)
      /\ UNCHANGED <<live, aged, custom, job, proven, held, crossed, lost>>
      /\ verif' = IF verif[c] = "none" /\ c[1] \in live
                  THEN [verif EXCEPT ![c] = "new"] ELSE verif
  BY DEF InsertRow, history
<1>3. /\ verif \in [Claim -> Status] /\ verif' \in [Claim -> Status]
      /\ \A d \in Claim \ {c} : verif'[d] = verif[d]
      /\ verif'[c] = verif[c] \/ (verif'[c] = "new" /\ verif[c] = "none")
  <2>1. verif \in [Claim -> Status] /\ c \in Claim
    BY <1>1 DEF IInv, TypeOK
  <2> HIDE DEF c
  <2> QED
    BY <1>2, <2>1 DEF Status
<1> HIDE DEF c
<1>4. req' \in [Req -> Handler] /\ req'[r] = Idle /\ \A q \in Req \ {r} : req'[q] = req[q]
  BY <1>2, GotoReq, HandlerMade DEF IInv, TypeOK
<1>5. TypeOK'
  BY <1>2, <1>3, <1>4 DEF IInv, TypeOK
<1>6. Growing
  BY <1>2, <1>3 DEF Growing
<1>7. Carried'
  BY <1>2, <1>6, HandlerMade, IdleOK, ReqCarried DEF IInv
<1>8. BoundWasProven'
  BY <1>2 DEF IInv, BoundWasProven
<1>9. PendingIsChased'
  BY <1>1, <1>2, <1>3, HandlerMade, ReqChased DEF IInv
<1>10. ASSUME NEW t \in Tenant
       PROVE  Within(verif', req', crossed', t)
  <2>1. /\ Within(verif, req, crossed, t) /\ crossed' = crossed
        /\ AskingFor(req', t) \subseteq AskingFor(req, t)
        /\ Inserting(req', t) \subseteq Inserting(req, t)
    BY <1>2, <1>4, HandlerMade DEF IInv, Limits, AskingFor, Inserting, Asking
  <2>2. CASE c[1] # t
    <3>1. RowsIn(verif', t) \subseteq RowsIn(verif, t)
      BY <1>3, <2>2 DEF RowsIn, ClaimsOf
    <3> QED
      BY <2>1, <3>1, FewerWithin
  <2>3. CASE c[1] = t
    <3>1. RowsIn(verif', t) \subseteq RowsIn(verif, t) \cup {c}
      BY <1>1, <1>3 DEF RowsIn, ClaimsOf
    <3>2. /\ IsFiniteSet(RowsIn(verif, t) \cup {c})
          /\ Cardinality(RowsIn(verif, t) \cup {c}) <= Cardinality(RowsIn(verif, t)) + 1
          /\ Cardinality(RowsIn(verif, t)) \in Nat
      BY <2>1, OneMore DEF Within
    <3>3. /\ IsFiniteSet(RowsIn(verif', t))
          /\ Cardinality(RowsIn(verif', t)) \in Nat
          /\ Cardinality(RowsIn(verif', t)) <= Cardinality(RowsIn(verif, t)) + 1
      <4>1. /\ IsFiniteSet(RowsIn(verif', t))
            /\ Cardinality(RowsIn(verif', t)) <= Cardinality(RowsIn(verif, t) \cup {c})
        BY <3>1, <3>2, FS_Subset
      <4> QED
        BY <3>2, <4>1, FS_CardinalityType
    <3>4. Inserting(req', t) = Inserting(req, t) \ {r} /\ r \in Inserting(req, t)
      BY <1>1, <1>4, <2>3, HandlerMade DEF Inserting, c
    <3>5. /\ Cardinality(Inserting(req', t)) = Cardinality(Inserting(req, t)) - 1
          /\ Cardinality(Inserting(req, t)) \in Nat
      BY <3>4, FS_RemoveElement, InsertingFinite
    <3>6. Cardinality(RowsIn(verif', t)) + Cardinality(Inserting(req', t))
              <= Cardinality(RowsIn(verif, t)) + Cardinality(Inserting(req, t))
      BY <3>2, <3>3, <3>5
    <3>7. Cardinality(RowsIn(verif', t)) + Cardinality(Inserting(req', t))
              <= MaxDomains + Cardinality(Req) - 1
      BY <2>1, <3>2, <3>3, <3>5, <3>6, DomainsAssumption, InsertingFinite DEF Within
    <3>8. ASSUME t \notin crossed'
          PROVE  /\ \A p, q \in AskingFor(req', t) : p = q
                 /\ Cardinality(RowsIn(verif', t)) + Cardinality(Inserting(req', t)) <= MaxDomains
      BY <2>1, <3>2, <3>3, <3>5, <3>6, <3>8, DomainsAssumption DEF Within
    <3> QED
      BY <3>3, <3>7, <3>8 DEF Within
  <2> QED
    BY <2>2, <2>3
<1> QED
  BY <1>5, <1>7, <1>8, <1>9, <1>10 DEF IInv, Limits

-----------------------------------------------------------------------------
(***************************************************************************)
(* verify, unbind and the handlers elsewhere                               *)
(***************************************************************************)

LEMMA VerifyStep ==
    ASSUME IInv, NEW r \in Req, NEW c \in Claim, Verify(r, c)
    PROVE  IInv'
<1> DEFINE h == [pc |-> "row", c |-> c, bound |-> custom[c[1]] = c[2]]
<1>1. h \in Handler /\ h.pc = "row"
  BY HandlerMade
<1>2. HandlerOK(live, verif, proven \cup held, h)
  BY DEF HandlerOK
<1>3. Goto(r, h) /\ UNCHANGED job /\ StoresUnchanged /\ req[r] = Idle
  BY DEF Verify, history, StoresUnchanged
<1> HIDE DEF h
<1> QED
  BY <1>1, <1>2, <1>3, HandlerMade, QuietReq DEF Asking

LEMMA VerifyLoadRowStep ==
    ASSUME IInv, NEW r \in Req, VerifyLoadRow(r)
    PROVE  IInv'
<1>1. req[r] \in Handler /\ req[r].pc = "row" /\ UNCHANGED job /\ StoresUnchanged
  BY DEF IInv, TypeOK, VerifyLoadRow, history, StoresUnchanged
<1>2. CASE verif[req[r].c] = "none"
  <2>1. Goto(r, Idle)
    BY <1>2 DEF VerifyLoadRow
  <2> QED
    BY <1>1, <2>1, HandlerMade, IdleOK, QuietReq DEF Asking
<1>3. CASE verif[req[r].c] # "none"
  <2> DEFINE h == [req[r] EXCEPT !.pc = "lookup"]
  <2>1. Goto(r, h)
    BY <1>3 DEF VerifyLoadRow
  <2>2. h \in Handler /\ h.pc = "lookup" /\ h.c = req[r].c
    BY <1>1 DEF Handler
  <2> HIDE DEF h
  <2>3. HandlerOK(live, verif, proven \cup held, h)
    BY <1>3, <2>2 DEF HandlerOK
  <2> QED
    BY <1>1, <2>1, <2>2, <2>3, QuietReq DEF Asking
<1> QED
  BY <1>2, <1>3

LEMMA VerifyLookupStep ==
    ASSUME IInv, NEW r \in Req, VerifyLookup(r)
    PROVE  IInv'
<1>1. /\ req[r] \in Handler /\ req[r].pc = "lookup" /\ req[r].c \in Claim
      /\ req[r].bound \in BOOLEAN
  BY HandlerFields DEF IInv, TypeOK, VerifyLookup
<1>2. PICK found \in BOOLEAN :
          /\ Goto(r, [pc |-> "saveRow", c |-> req[r].c, bound |-> req[r].bound, found |-> found])
          /\ proven' = IF found THEN proven \cup {req[r].c} ELSE proven
  BY DEF VerifyLookup
<1>3. UNCHANGED <<live, verif, aged, custom, job, held, crossed, lost>>
  BY DEF VerifyLookup
<1> DEFINE h == [pc |-> "saveRow", c |-> req[r].c, bound |-> req[r].bound, found |-> found]
<1>4. h \in Handler /\ h.pc = "saveRow" /\ h.c = req[r].c /\ h.found = found /\ Goto(r, h)
  BY <1>1, <1>2, HandlerMade
<1> HIDE DEF h
<1>5. Growing /\ NoRowAdded
  BY <1>2, <1>3 DEF Growing, NoRowAdded
<1>6. HandlerOK(live', verif', proven' \cup held', h)
  BY <1>1, <1>2, <1>3, <1>4 DEF IInv, Carried, HandlerOK
<1>7. TypeOK'
  BY <1>1, <1>2, <1>3, <1>4, GotoReq DEF IInv, TypeOK
<1>8. Carried'
  BY <1>3, <1>4, <1>5, <1>6, ReqCarried DEF IInv
<1>9. BoundWasProven'
  BY <1>2, <1>3 DEF IInv, BoundWasProven
<1>10. PendingIsChased'
  BY <1>1, <1>3, <1>4, ReqChased DEF IInv
<1>11. Limits'
  BY <1>3, <1>4, <1>5, ReqLimits DEF IInv, Asking
<1> QED
  BY <1>7, <1>8, <1>9, <1>10, <1>11 DEF IInv

\* The save of a checked row whose row exists.
LEMMA SaveCheckSaves ==
    ASSUME TypeOK, NEW c \in Claim, NEW found \in BOOLEAN, SaveCheck(c, found),
           verif[c] # "none", UNCHANGED <<live, proven, held>>
    PROVE  /\ verif' \in [Claim -> Status]
           /\ Growing /\ NoRowAdded
           /\ lost' \subseteq lost /\ lost \subseteq lost' \cup {c}
           /\ \A d \in Claim : d # c => verif'[d] = verif[d]
           /\ verif'[c] = IF found THEN "verified" ELSE "pending"
           /\ ~found => lost' = lost
BY DEF SaveCheck, Checked, TypeOK, Growing, NoRowAdded, Status

LEMMA VerifySaveRowStep ==
    ASSUME IInv, NEW r \in Req, VerifySaveRow(r)
    PROVE  IInv'
<1>1. /\ req[r] \in Handler /\ req[r].pc = "saveRow" /\ req[r].c \in Claim
      /\ req[r].bound \in BOOLEAN /\ req[r].found \in BOOLEAN
  BY HandlerFields DEF IInv, TypeOK, VerifySaveRow
<1> DEFINE c == req[r].c
           found == req[r].found
           h == IF ~found THEN [pc |-> "enqueue", c |-> c]
                ELSE IF req[r].bound THEN Idle
                ELSE [pc |-> "saveTenant", t |-> c[1], dom |-> c[2]]
<1>2. /\ SaveCheck(c, found) /\ c[1] \in live /\ Goto(r, h)
      /\ UNCHANGED <<live, aged, custom, job, proven, held, crossed>>
  BY DEF VerifySaveRow
<1>3. HandlerOK(live, verif, proven \cup held, req[r])
  BY DEF IInv, Carried
<1>4. verif[c] # "none" /\ (found => c \in proven \cup held)
  BY <1>1, <1>2, <1>3 DEF HandlerOK
<1>5. c[1] \in Tenant /\ c[2] \in Dom /\ c = <<c[1], c[2]>>
  BY <1>1, ClaimFields
<1>6. /\ h \in Handler
      /\ ~found => h.pc = "enqueue" /\ h.c = c
      /\ found => \/ h = Idle
                  \/ h.pc = "saveTenant" /\ h.t = c[1] /\ h.dom = c[2]
  BY <1>1, <1>5, HandlerMade DEF Asking
<1> HIDE DEF h
<1>7. /\ verif' \in [Claim -> Status]
      /\ Growing /\ NoRowAdded
      /\ lost' \subseteq lost /\ lost \subseteq lost' \cup {c}
      /\ \A d \in Claim : d # c => verif'[d] = verif[d]
      /\ verif'[c] = IF found THEN "verified" ELSE "pending"
  BY <1>1, <1>2, <1>4, SaveCheckSaves DEF IInv
<1> HIDE DEF c, found
<1>8. h.pc # "saveRow" /\ h.pc # "lookup" /\ h.pc \notin Asking
  BY <1>6, HandlerMade, <1>1 DEF Asking, found
<1>9. HandlerOK(live', verif', proven' \cup held', h)
  <2>1. CASE h.pc = "saveTenant"
    <3>1. found
      BY <1>1, <1>6, <2>1 DEF found
    <3>2. h.t = c[1] /\ h.dom = c[2]
      BY <1>6, <2>1, <3>1, HandlerMade
    <3> QED
      BY <1>2, <1>4, <1>5, <1>8, <3>1, <3>2 DEF HandlerOK
  <2>2. CASE h.pc # "saveTenant"
    BY <1>8, <2>2 DEF HandlerOK
  <2> QED
    BY <2>1, <2>2
<1>10. TypeOK'
  BY <1>2, <1>6, <1>7, GotoReq DEF IInv, TypeOK
<1>11. Carried'
  BY <1>2, <1>6, <1>7, <1>9, ReqCarried DEF IInv
<1>12. BoundWasProven'
  BY <1>2 DEF IInv, BoundWasProven
<1>13. PendingIsChased'
  <2> SUFFICES ASSUME NEW d \in Claim, verif'[d] = "pending", d \notin lost'
               PROVE  \/ \E q \in Req : HandlerChases(req'[q], d)
                      \/ \E k \in Job : JobChases(job'[k], d)
    BY ChasedSaidNext
  <2>1. req'[r] = h /\ \A q \in Req \ {r} : req'[q] = req[q]
    BY <1>2, <1>6, GotoReq DEF IInv, TypeOK
  <2>2. CASE d = c
    <3>1. ~found
      BY <1>1, <1>7, <2>2 DEF found
    <3> QED
      BY <1>6, <2>1, <2>2, <3>1 DEF HandlerChases
  <2>3. CASE d # c
    <3>1. verif[d] = "pending" /\ d \notin lost
      BY <1>7, <2>3
    <3>2. \/ \E q \in Req : HandlerChases(req[q], d)
          \/ \E k \in Job : JobChases(job[k], d)
      BY <3>1, ChasedSaid DEF IInv
    <3>3. ~HandlerChases(req[r], d)
      BY <1>1 DEF HandlerChases
    <3> QED
      BY <1>2, <2>1, <3>2, <3>3
  <2> QED
    BY <2>2, <2>3
<1>14. Limits'
  BY <1>2, <1>6, <1>7, <1>8, ReqLimits DEF IInv, Asking
<1> QED
  BY <1>10, <1>11, <1>12, <1>13, <1>14 DEF IInv

LEMMA VerifyEnqueueStep ==
    ASSUME IInv, NEW r \in Req, VerifyEnqueue(r)
    PROVE  IInv'
<1>1. req[r] \in Handler /\ req[r].pc = "enqueue" /\ req[r].c \in Claim
  BY HandlerFields DEF IInv, TypeOK, VerifyEnqueue
<1>2. PICK j \in Job : job[j] = Free /\ Step(j, Queued(req[r].c))
  BY DEF VerifyEnqueue
<1> DEFINE c == req[r].c
<1>3. /\ lost' = lost \ {c} /\ Goto(r, Idle)
      /\ UNCHANGED <<live, verif, aged, custom, proven, held, crossed>>
  BY DEF VerifyEnqueue
<1>4. /\ req' \in [Req -> Handler] /\ req'[r] = Idle
      /\ \A q \in Req \ {r} : req'[q] = req[q]
  BY <1>3, HandlerMade, GotoReq DEF IInv, TypeOK
<1>5. /\ job' \in [Job -> JobState] /\ job'[j] = Queued(c)
      /\ \A k \in Job \ {j} : job'[k] = job[k]
  BY <1>1, <1>2, JobMade, StepJob DEF IInv, TypeOK
<1>6. Queued(c) \in JobState /\ Queued(c).pc = "queued" /\ Queued(c).c = c
  BY <1>1, JobMade
<1> HIDE DEF c
<1>7. TypeOK'
  BY <1>3, <1>4, <1>5 DEF IInv, TypeOK
<1>8. Carried'
  <2>1. Growing
    BY <1>3 DEF Growing
  <2>2. \A q \in Req : HandlerOK(live', verif', proven' \cup held', req'[q])
    BY <1>4, <2>1, IdleOK, HandlerStaysOK DEF IInv, TypeOK, Carried
  <2>3. JobOK(live', verif', proven' \cup held', Queued(c))
    BY <1>6 DEF JobOK
  <2>4. \A k \in Job : JobOK(live', verif', proven' \cup held', job'[k])
    BY <1>5, <2>1, <2>3, JobStaysOK DEF IInv, TypeOK, Carried
  <2> QED
    BY <2>2, <2>4 DEF Carried
<1>9. BoundWasProven'
  BY <1>3 DEF IInv, BoundWasProven
<1>10. PendingIsChased'
  <2> SUFFICES ASSUME NEW d \in Claim, verif'[d] = "pending", d \notin lost'
               PROVE  \/ \E q \in Req : HandlerChases(req'[q], d)
                      \/ \E k \in Job : JobChases(job'[k], d)
    BY ChasedSaidNext
  <2>1. CASE d = c
    BY <1>5, <1>6, <2>1 DEF JobChases
  <2>2. CASE d # c
    <3>1. \/ \E q \in Req : HandlerChases(req[q], d)
          \/ \E k \in Job : JobChases(job[k], d)
      BY <1>3, <2>2, ChasedSaid DEF IInv
    <3>2. ~HandlerChases(req[r], d) /\ ~JobChases(job[j], d)
      BY <1>2, <2>2, IdleOK DEF HandlerChases, c
    <3> QED
      BY <1>4, <1>5, <3>1, <3>2
  <2> QED
    BY <2>1, <2>2
<1>11. Limits'
  BY <1>3, HandlerMade, ReqLimits DEF IInv, Asking, NoRowAdded
<1> QED
  BY <1>7, <1>8, <1>9, <1>10, <1>11 DEF IInv

LEMMA UnbindStep ==
    ASSUME IInv, NEW r \in Req, NEW t \in Tenant, Unbind(r, t)
    PROVE  IInv'
<1> DEFINE h == [pc |-> "saveTenant", t |-> t, dom |-> None]
<1>1. h \in Handler /\ h.pc = "saveTenant" /\ h.dom = None
  BY HandlerMade
<1>2. Goto(r, h) /\ UNCHANGED job /\ StoresUnchanged /\ req[r] = Idle
  BY DEF Unbind, history, StoresUnchanged
<1> HIDE DEF h
<1>3. HandlerOK(live, verif, proven \cup held, h)
  BY <1>1 DEF HandlerOK
<1> QED
  BY <1>1, <1>2, <1>3, HandlerMade, QuietReq DEF Asking

LEMMA LoadTenantStep ==
    ASSUME IInv, NEW r \in Req, NEW t \in Tenant, LoadTenant(r, t)
    PROVE  IInv'
<1> DEFINE h == [pc |-> "saveTenant", t |-> t, dom |-> custom[t]]
<1>1. h \in Handler /\ h.pc = "saveTenant" /\ h.t = t /\ h.dom = custom[t]
  BY HandlerMade DEF IInv, TypeOK
<1>2. Goto(r, h) /\ UNCHANGED job /\ StoresUnchanged /\ req[r] = Idle
  BY DEF LoadTenant, history, StoresUnchanged
<1> HIDE DEF h
<1>3. HandlerOK(live, verif, proven \cup held, h)
  BY <1>1 DEF HandlerOK, IInv, BoundWasProven
<1> QED
  BY <1>1, <1>2, <1>3, HandlerMade, QuietReq DEF Asking

-----------------------------------------------------------------------------
(***************************************************************************)
(* The saves of a tenant row                                               *)
(***************************************************************************)

\* Such a save leaves bound domains proven and loses proofs only of t, when
\* nobody else holds any.
LEMMA SaveDomainSaves ==
    ASSUME IInv, NEW t \in Tenant, NEW dom \in Dom \cup {None}, NEW r,
           SaveDomain(t, dom, r), dom # None => <<t, dom>> \in proven \cup held
    PROVE  /\ custom' \in [Tenant -> Dom \cup {None}]
           /\ proven' \subseteq Claim /\ held' \subseteq Claim
           /\ BoundWasProven'
           /\ \/ proven \cup held \subseteq proven' \cup held'
              \/ /\ dom = None
                 /\ Binders(t, r) = {}
                 /\ \A c \in proven \cup held : c[1] # t => c \in proven' \cup held'
<1>1. /\ custom \in [Tenant -> Dom \cup {None}]
      /\ custom' = [custom EXCEPT ![t] = dom]
      /\ proven \subseteq Claim /\ held \subseteq Claim
  BY DEF IInv, TypeOK, SaveDomain
<1>2. CASE dom = None /\ custom[t] # None
  <2>1. /\ proven' = proven \ ClaimsOf(t)
        /\ held' = IF Binders(t, r) = {} THEN held \ ClaimsOf(t)
                   ELSE held \cup (proven \cap ClaimsOf(t))
    BY <1>2 DEF SaveDomain
  <2>2. \A c \in proven \cup held : c[1] # t => c \in proven' \cup held'
    BY <2>1 DEF ClaimsOf
  <2>3. ASSUME NEW u \in Tenant, custom'[u] # None
        PROVE  <<u, custom'[u]>> \in proven' \cup held'
    <3>1. u # t /\ custom'[u] = custom[u]
      BY <1>1, <1>2, <2>3
    <3>2. <<u, custom[u]>> \in proven \cup held
      BY <2>3, <3>1 DEF IInv, BoundWasProven
    <3> QED
      BY <2>2, <3>1, <3>2
  <2>4. Binders(t, r) # {} => proven \cup held \subseteq proven' \cup held'
    BY <2>1
  <2>5. proven' \subseteq Claim /\ held' \subseteq Claim
    BY <1>1, <2>1
  <2> QED
    BY <1>1, <1>2, <2>2, <2>3, <2>4, <2>5 DEF BoundWasProven
<1>3. CASE ~(dom = None /\ custom[t] # None)
  <2>1. UNCHANGED <<proven, held>>
    BY <1>3 DEF SaveDomain
  <2>2. BoundWasProven'
    BY <1>1, <2>1 DEF IInv, BoundWasProven
  <2> QED
    BY <1>1, <2>1, <2>2
<1> QED
  BY <1>2, <1>3

LEMMA SaveTenantStep ==
    ASSUME IInv, NEW r \in Req, SaveTenant(r)
    PROVE  IInv'
<1> DEFINE t == req[r].t
           dom == req[r].dom
<1>1. /\ req[r] \in Handler /\ req[r].pc = "saveTenant"
      /\ t \in Tenant /\ dom \in Dom \cup {None} /\ t \in live
  BY HandlerFields DEF IInv, TypeOK, SaveTenant, CanSaveTenant
<1>2. /\ SaveDomain(t, dom, r) /\ Goto(r, Idle)
      /\ UNCHANGED <<live, verif, aged, job, crossed, lost>>
  BY DEF SaveTenant
<1>3. dom # None => <<t, dom>> \in proven \cup held
  BY <1>1 DEF IInv, Carried, HandlerOK
<1>4. /\ req' \in [Req -> Handler] /\ req'[r] = Idle
      /\ \A q \in Req \ {r} : req'[q] = req[q]
  BY <1>2, HandlerMade, GotoReq DEF IInv, TypeOK
<1> HIDE DEF t, dom
<1>5. /\ custom' \in [Tenant -> Dom \cup {None}]
      /\ proven' \subseteq Claim /\ held' \subseteq Claim
      /\ BoundWasProven'
      /\ \/ proven \cup held \subseteq proven' \cup held'
         \/ /\ dom = None
            /\ Binders(t, r) = {}
            /\ \A c \in proven \cup held : c[1] # t => c \in proven' \cup held'
  BY <1>1, <1>2, <1>3, SaveDomainSaves
<1>6. TypeOK'
  BY <1>2, <1>4, <1>5 DEF IInv, TypeOK
<1>7. Carried'
  <2>1. CASE proven \cup held \subseteq proven' \cup held'
    <3>1. Growing
      BY <1>2, <2>1 DEF Growing
    <3> QED
      BY <1>2, <3>1, HandlerMade, IdleOK, ReqCarried DEF IInv
  <2>2. CASE /\ Binders(t, r) = {}
             /\ \A c \in proven \cup held : c[1] # t => c \in proven' \cup held'
    <3>1. ASSUME NEW q \in Req
          PROVE  HandlerOK(live', verif', proven' \cup held', req'[q])
      <4>1. CASE q = r
        BY <1>4, <4>1, IdleOK
      <4>2. CASE q # r
        <5>1. /\ req'[q] = req[q] /\ req[q] \in Handler
              /\ HandlerOK(live, verif, proven \cup held, req[q])
          BY <1>4, <4>2 DEF IInv, TypeOK, Carried
        <5>2. /\ req[q].pc = "saveRow" => req[q].c[1] # t
              /\ req[q].pc = "saveTenant" => req[q].t # t
          BY <2>2, <4>2 DEF Binders
        <5>3. req[q].pc = "saveTenant" => <<req[q].t, req[q].dom>>[1] # t
          BY <5>2
        <5> QED
          BY <1>2, <2>2, <5>1, <5>2, <5>3 DEF HandlerOK
      <4> QED
        BY <4>1, <4>2
    <3>2. ASSUME NEW k \in Job
          PROVE  JobOK(live', verif', proven' \cup held', job'[k])
      <4>1. JobOK(live, verif, proven \cup held, job[k]) /\ job'[k] = job[k]
        BY <1>2 DEF IInv, Carried
      <4>2. job[k].pc \in {"saveRow", "loadTenant", "saveTenant"} => job[k].c[1] # t
        BY <2>2 DEF Binders
      <4> QED
        BY <1>2, <2>2, <4>1, <4>2 DEF JobOK
    <3> QED
      BY <3>1, <3>2 DEF Carried
  <2> QED
    BY <1>5, <2>1, <2>2
<1>8. PendingIsChased'
  BY <1>1, <1>2, HandlerMade, ReqChased DEF IInv
<1>9. Limits'
  BY <1>2, HandlerMade, ReqLimits DEF IInv, Asking, NoRowAdded
<1> QED
  BY <1>5, <1>6, <1>7, <1>8, <1>9 DEF IInv

LEMMA AbortStep ==
    ASSUME IInv, NEW r \in Req, Abort(r)
    PROVE  IInv'
<1>1. /\ req[r] \in Handler /\ (req[r].pc = "enqueue" => req[r].c \in Claim)
      /\ Goto(r, Idle)
      /\ lost' = IF req[r].pc = "enqueue" THEN lost \cup {req[r].c} ELSE lost
      /\ UNCHANGED <<live, verif, aged, custom, job, proven, held, crossed>>
  BY HandlerFields DEF IInv, TypeOK, Abort
<1>2. Growing /\ NoRowAdded
  BY <1>1 DEF Growing, NoRowAdded
<1>3. TypeOK'
  BY <1>1, HandlerMade, GotoReq DEF IInv, TypeOK
<1>4. Carried'
  BY <1>1, <1>2, HandlerMade, IdleOK, ReqCarried DEF IInv
<1>5. BoundWasProven'
  BY <1>1 DEF IInv, BoundWasProven
<1>6. PendingIsChased'
  BY <1>1, HandlerMade, ReqChased DEF IInv
<1>7. Limits'
  BY <1>1, <1>2, HandlerMade, ReqLimits DEF IInv, Asking
<1> QED
  BY <1>3, <1>4, <1>5, <1>6, <1>7 DEF IInv

-----------------------------------------------------------------------------
(***************************************************************************)
(* The worker                                                              *)
(***************************************************************************)

\* What a job is when it is not free, and what Become makes of it.
LEMMA JobAtWork ==
    ASSUME TypeOK, NEW j \in Job, job[j].pc # "free"
    PROVE  /\ job[j] \in JobState /\ job[j].c \in Claim /\ job[j].left \in 1..Attempts
           /\ \A pc \in {"queued", "saveFailed", "lookup", "loadTenant", "saveTenant", "followUp"} :
                  /\ [pc |-> pc, c |-> job[j].c, left |-> job[j].left] \in JobState
                  /\ Become(j, pc) <=> Step(j, [pc |-> pc, c |-> job[j].c, left |-> job[j].left])
BY JobFields, JobMade DEF TypeOK, Become

LEMMA WorkLoadStep ==
    ASSUME IInv, NEW j \in Job, WorkLoad(j)
    PROVE  IInv'
<1>1. job[j].pc = "queued" /\ UNCHANGED req /\ StoresUnchanged
  BY DEF WorkLoad, history, StoresUnchanged
<1>2. CASE verif[job[j].c] \notin {"new", "pending"}
  <2>1. Step(j, Free)
    BY <1>2 DEF WorkLoad
  <2>2. \A c \in Claim : ~(verif[c] = "pending" /\ JobChases(job[j], c))
    BY <1>2 DEF JobChases
  <2> QED
    BY <1>1, <2>1, <2>2, JobMade, IdleOK, QuietJob
<1>3. CASE verif[job[j].c] \in {"new", "pending"}
  <2>1. PICK pc \in {"saveFailed", "lookup"} : Become(j, pc)
    BY <1>3 DEF WorkLoad
  <2> DEFINE s == [pc |-> pc, c |-> job[j].c, left |-> job[j].left]
  <2>2. s \in JobState /\ s.pc = pc /\ s.c = job[j].c /\ Step(j, s)
    BY <1>1, <2>1, JobAtWork DEF IInv
  <2> HIDE DEF s
  <2>3. JobOK(live, verif, proven \cup held, s)
    BY <1>3, <2>2 DEF JobOK
  <2>4. \A c \in Claim : JobChases(job[j], c) => JobChases(s, c)
    BY <2>2 DEF JobChases
  <2> QED
    BY <1>1, <2>2, <2>3, <2>4, QuietJob
<1> QED
  BY <1>2, <1>3

LEMMA WorkFailStep ==
    ASSUME IInv, NEW j \in Job, WorkFail(j)
    PROVE  IInv'
<1> DEFINE c == job[j].c
<1>1. /\ job[j].pc = "saveFailed" /\ job[j] \in JobState /\ c \in Claim
      /\ JobOK(live, verif, proven \cup held, job[j])
  BY JobAtWork DEF IInv, WorkFail, Carried
<1>2. /\ c[1] \in live /\ verif' = [verif EXCEPT ![c] = "failed"]
      /\ lost' = lost \ {c} /\ Step(j, Free)
      /\ UNCHANGED <<live, aged, custom, req, proven, held, crossed>>
  BY DEF WorkFail
<1>3. verif[c] # "none"
  BY <1>1, <1>2 DEF JobOK
<1>4. /\ verif' \in [Claim -> Status] /\ verif'[c] = "failed"
      /\ \A d \in Claim : d # c => verif'[d] = verif[d]
  <2>1. verif \in [Claim -> Status] /\ c \in Claim
    BY <1>1 DEF IInv, TypeOK
  <2> HIDE DEF c
  <2> QED
    BY <1>2, <2>1 DEF Status
<1>5. \A d \in Claim : JobChases(job[j], d) => d = c
  BY DEF JobChases
<1> HIDE DEF c
<1>6. Growing /\ NoRowAdded
  BY <1>2, <1>3, <1>4 DEF Growing, NoRowAdded
<1>7. TypeOK'
  BY <1>2, <1>4, JobMade, StepJob DEF IInv, TypeOK
<1>8. Carried'
  BY <1>2, <1>6, JobMade, IdleOK, JobCarried DEF IInv
<1>9. BoundWasProven'
  BY <1>2 DEF IInv, BoundWasProven
<1>10. PendingIsChased'
  BY <1>2, <1>4, <1>5, JobMade, JobChased DEF IInv
<1>11. Limits'
  BY <1>2, <1>6, StillLimits DEF IInv
<1> QED
  BY <1>7, <1>8, <1>9, <1>10, <1>11 DEF IInv

LEMMA WorkLookupStep ==
    ASSUME IInv, NEW j \in Job, WorkLookup(j)
    PROVE  IInv'
<1>1. /\ job[j].pc = "lookup" /\ job[j] \in JobState /\ job[j].c \in Claim
      /\ job[j].left \in 1..Attempts /\ JobOK(live, verif, proven \cup held, job[j])
  BY JobAtWork DEF IInv, WorkLookup, Carried
<1>2. PICK found \in BOOLEAN :
          /\ Step(j, [pc |-> "saveRow", c |-> job[j].c, left |-> job[j].left, found |-> found])
          /\ proven' = IF found THEN proven \cup {job[j].c} ELSE proven
  BY DEF WorkLookup
<1>3. UNCHANGED <<live, verif, aged, custom, req, held, crossed, lost>>
  BY DEF WorkLookup
<1> DEFINE s == [pc |-> "saveRow", c |-> job[j].c, left |-> job[j].left, found |-> found]
<1>4. s \in JobState /\ s.pc = "saveRow" /\ s.c = job[j].c /\ s.found = found /\ Step(j, s)
  BY <1>1, <1>2, JobMade
<1> HIDE DEF s
<1>5. Growing /\ NoRowAdded
  BY <1>2, <1>3 DEF Growing, NoRowAdded
<1>6. JobOK(live', verif', proven' \cup held', s)
  BY <1>1, <1>2, <1>3, <1>4 DEF JobOK
<1>7. TypeOK'
  BY <1>1, <1>2, <1>3, <1>4, StepJob DEF IInv, TypeOK
<1>8. Carried'
  BY <1>3, <1>4, <1>5, <1>6, JobCarried DEF IInv
<1>9. BoundWasProven'
  BY <1>2, <1>3 DEF IInv, BoundWasProven
<1>10. \A c \in Claim : JobChases(job[j], c) => JobChases(s, c)
  BY <1>4 DEF JobChases
<1>11. PendingIsChased'
  BY <1>3, <1>4, <1>10, JobChased DEF IInv
<1>12. Limits'
  BY <1>3, <1>5, StillLimits DEF IInv
<1> QED
  BY <1>7, <1>8, <1>9, <1>11, <1>12 DEF IInv

LEMMA WorkSaveRowStep ==
    ASSUME IInv, NEW j \in Job, WorkSaveRow(j)
    PROVE  IInv'
<1> DEFINE c == job[j].c
           found == job[j].found
<1>1. /\ job[j].pc = "saveRow" /\ job[j] \in JobState /\ c \in Claim
      /\ job[j].left \in 1..Attempts /\ found \in BOOLEAN
      /\ JobOK(live, verif, proven \cup held, job[j])
  BY JobAtWork, JobFields DEF IInv, WorkSaveRow, Carried
<1>2. /\ c[1] \in live /\ SaveCheck(c, found)
      /\ Become(j, IF found THEN "loadTenant" ELSE "followUp")
      /\ UNCHANGED <<live, aged, custom, req, proven, held, crossed>>
  BY DEF WorkSaveRow
<1>3. verif[c] # "none" /\ (found => c \in proven \cup held)
  BY <1>1, <1>2 DEF JobOK
<1> DEFINE s == [pc |-> IF found THEN "loadTenant" ELSE "followUp", c |-> c, left |-> job[j].left]
<1>4. /\ s \in JobState /\ s.c = c /\ Step(j, s)
      /\ s.pc = IF found THEN "loadTenant" ELSE "followUp"
  BY <1>1, <1>2, JobMade DEF Become
<1>5. \A d \in Claim : JobChases(job[j], d) => d = c
  BY DEF JobChases
<1> HIDE DEF s, c, found
<1>6. /\ verif' \in [Claim -> Status]
      /\ Growing /\ NoRowAdded
      /\ lost' \subseteq lost /\ lost \subseteq lost' \cup {c}
      /\ \A d \in Claim : d # c => verif'[d] = verif[d]
      /\ verif'[c] = IF found THEN "verified" ELSE "pending"
  BY <1>1, <1>2, <1>3, SaveCheckSaves DEF IInv
<1>7. JobOK(live', verif', proven' \cup held', s)
  BY <1>1, <1>2, <1>3, <1>4 DEF JobOK
<1>8. TypeOK'
  BY <1>2, <1>4, <1>6, StepJob DEF IInv, TypeOK
<1>9. Carried'
  BY <1>2, <1>4, <1>6, <1>7, JobCarried DEF IInv
<1>10. BoundWasProven'
  BY <1>2 DEF IInv, BoundWasProven
<1>11. PendingIsChased'
  <2>1. ASSUME NEW d \in Claim, verif'[d] = "pending"
        PROVE  \/ JobChases(s, d)
               \/ verif[d] = "pending" /\ (d \in lost => d \in lost')
                                       /\ (JobChases(job[j], d) => d \in lost')
    <3>1. CASE d = c
      BY <1>1, <1>4, <1>6, <2>1, <3>1 DEF JobChases
    <3>2. CASE d # c
      BY <1>5, <1>6, <2>1, <3>2
    <3> QED
      BY <3>1, <3>2
  <2> QED
    BY <1>2, <1>4, <2>1, JobChased DEF IInv
<1>12. Limits'
  BY <1>2, <1>6, StillLimits DEF IInv
<1> QED
  BY <1>8, <1>9, <1>10, <1>11, <1>12 DEF IInv

LEMMA WorkLoadTenantStep ==
    ASSUME IInv, NEW j \in Job, WorkLoadTenant(j)
    PROVE  IInv'
<1>1. /\ job[j].pc = "loadTenant" /\ UNCHANGED req /\ StoresUnchanged
      /\ JobOK(live, verif, proven \cup held, job[j])
      /\ Step(j, Free) \/ Become(j, "saveTenant")
  BY DEF WorkLoadTenant, history, StoresUnchanged, IInv, Carried
<1>2. \A c \in Claim : ~JobChases(job[j], c)
  BY <1>1 DEF JobChases
<1>3. CASE Step(j, Free)
  BY <1>1, <1>2, <1>3, JobMade, IdleOK, QuietJob
<1>4. CASE Become(j, "saveTenant")
  <2> DEFINE s == [pc |-> "saveTenant", c |-> job[j].c, left |-> job[j].left]
  <2>1. s \in JobState /\ s.pc = "saveTenant" /\ s.c = job[j].c /\ Step(j, s)
    BY <1>1, <1>4, JobAtWork DEF IInv
  <2> HIDE DEF s
  <2>2. JobOK(live, verif, proven \cup held, s)
    BY <1>1, <2>1 DEF JobOK
  <2> QED
    BY <1>1, <1>2, <2>1, <2>2, QuietJob
<1> QED
  BY <1>1, <1>3, <1>4

LEMMA WorkSaveTenantStep ==
    ASSUME IInv, NEW j \in Job, WorkSaveTenant(j)
    PROVE  IInv'
<1> DEFINE c == job[j].c
<1>1. /\ job[j].pc = "saveTenant" /\ c \in Claim
      /\ JobOK(live, verif, proven \cup held, job[j])
      /\ c[1] \in Tenant /\ c[2] \in Dom /\ c = <<c[1], c[2]>> /\ c[2] # None
  BY JobAtWork, ClaimFields DEF IInv, WorkSaveTenant, Carried
<1>2. /\ \/ CanSaveTenant(c[1], c[2]) /\ SaveDomain(c[1], c[2], j)
         \/ UNCHANGED <<custom, proven, held>>
      /\ Step(j, Free)
      /\ UNCHANGED <<live, verif, aged, req, crossed, lost>>
  BY DEF WorkSaveTenant
<1>3. \A d \in Claim : ~JobChases(job[j], d)
  BY <1>1 DEF JobChases
<1>4. /\ custom' \in [Tenant -> Dom \cup {None}]
      /\ proven' \subseteq Claim /\ held' \subseteq Claim
      /\ BoundWasProven'
      /\ proven \cup held \subseteq proven' \cup held'
  <2>1. CASE UNCHANGED <<custom, proven, held>>
    BY <2>1 DEF IInv, TypeOK, BoundWasProven
  <2>2. CASE CanSaveTenant(c[1], c[2]) /\ SaveDomain(c[1], c[2], j)
    <3>1. c \in proven \cup held
      BY <1>1, <2>2 DEF JobOK, CanSaveTenant
    <3> HIDE DEF c
    <3>2. c[2] \in Dom \cup {None} /\ <<c[1], c[2]>> \in proven \cup held
      BY <1>1, <3>1
    <3> QED
      BY <1>1, <2>2, <3>2, SaveDomainSaves
  <2> QED
    BY <1>2, <2>1, <2>2
<1> HIDE DEF c
<1>5. Growing /\ NoRowAdded
  BY <1>2, <1>4 DEF Growing, NoRowAdded
<1>6. TypeOK'
  BY <1>2, <1>4, JobMade, StepJob DEF IInv, TypeOK
<1>7. Carried'
  BY <1>2, <1>5, JobMade, IdleOK, JobCarried DEF IInv
<1>8. PendingIsChased'
  BY <1>2, <1>3, JobMade, JobChased DEF IInv
<1>9. Limits'
  BY <1>2, <1>5, StillLimits DEF IInv
<1> QED
  BY <1>4, <1>6, <1>7, <1>8, <1>9 DEF IInv

LEMMA WorkFollowUpStep ==
    ASSUME IInv, NEW j \in Job, WorkFollowUp(j)
    PROVE  IInv'
<1> DEFINE c == job[j].c
           s == Queued(c)
<1>1. /\ job[j].pc = "followUp" /\ c \in Claim
      /\ s \in JobState /\ s.pc = "queued" /\ s.c = c
  BY JobAtWork, JobMade DEF IInv, WorkFollowUp
<1>2. /\ Step(j, s) /\ lost' = lost \ {c}
      /\ UNCHANGED <<live, verif, aged, custom, req, proven, held, crossed>>
  BY DEF WorkFollowUp
<1>3. \A d \in Claim : JobChases(job[j], d) => d = c
  BY DEF JobChases
<1> HIDE DEF c, s
<1>4. Growing /\ NoRowAdded
  BY <1>2 DEF Growing, NoRowAdded
<1>5. JobOK(live', verif', proven' \cup held', s)
  BY <1>1 DEF JobOK
<1>6. TypeOK'
  BY <1>1, <1>2, StepJob DEF IInv, TypeOK
<1>7. Carried'
  BY <1>1, <1>2, <1>4, <1>5, JobCarried DEF IInv
<1>8. BoundWasProven'
  BY <1>2 DEF IInv, BoundWasProven
<1>9. JobChases(s, c)
  BY <1>1 DEF JobChases
<1>10. PendingIsChased'
  BY <1>1, <1>2, <1>3, <1>9, JobChased DEF IInv
<1>11. Limits'
  BY <1>2, <1>4, StillLimits DEF IInv
<1> QED
  BY <1>6, <1>7, <1>8, <1>10, <1>11 DEF IInv

LEMMA WorkForkStep ==
    ASSUME IInv, NEW j \in Job, WorkFork(j)
    PROVE  IInv'
<1> DEFINE c == job[j].c
           s1 == Queued(c)
           s2 == [Queued(c) EXCEPT !.left = job[j].left - 1]
<1>1. /\ job[j].pc = "followUp" /\ c \in Claim /\ job[j].left \in 1..Attempts
      /\ job[j].left > 1
      /\ s1 \in JobState /\ s1.pc = "queued" /\ s1.c = c
  BY JobAtWork, JobMade DEF IInv, WorkFork
<1>2. s2 \in JobState /\ s2.pc = "queued" /\ s2.c = c
  <2>1. job[j].left - 1 \in 1..Attempts
    BY <1>1, DomainsAssumption
  <2>2. s2 = [pc |-> "queued", c |-> c, left |-> job[j].left - 1]
    BY DEF Queued
  <2> HIDE DEF c, s2
  <2>3. [pc |-> "queued", c |-> c, left |-> job[j].left - 1] \in JobState
    BY <1>1, <2>1, JobMade
  <2> QED
    BY <2>2, <2>3
<1>3. PICK k \in Job : job[k] = Free /\ job' = [job EXCEPT ![j] = s1, ![k] = s2]
  BY DEF WorkFork
<1>4. /\ lost' = lost \ {c}
      /\ UNCHANGED <<live, verif, aged, custom, req, proven, held, crossed>>
  BY DEF WorkFork
<1>5. \A d \in Claim : JobChases(job[j], d) => d = c
  BY DEF JobChases
<1> HIDE DEF c, s1, s2
<1>6. k # j
  BY <1>1, <1>3, JobMade
<1>7. /\ job' \in [Job -> JobState] /\ job'[j] = s1 /\ job'[k] = s2
      /\ \A i \in Job \ {j, k} : job'[i] = job[i]
  <2>1. job \in [Job -> JobState]
    BY DEF IInv, TypeOK
  <2> QED
    BY <1>1, <1>2, <1>3, <1>6, <2>1
<1>8. Growing /\ NoRowAdded
  BY <1>4 DEF Growing, NoRowAdded
<1>9. TypeOK'
  BY <1>4, <1>7 DEF IInv, TypeOK
<1>10. Carried'
  <2>1. /\ JobOK(live', verif', proven' \cup held', s1)
        /\ JobOK(live', verif', proven' \cup held', s2)
    BY <1>1, <1>2 DEF JobOK
  <2>2. \A i \in Job : JobOK(live', verif', proven' \cup held', job'[i])
    BY <1>7, <1>8, <2>1, JobStaysOK DEF IInv, TypeOK, Carried
  <2>3. \A q \in Req : HandlerOK(live', verif', proven' \cup held', req'[q])
    BY <1>4, <1>8, HandlerStaysOK DEF IInv, TypeOK, Carried
  <2> QED
    BY <2>2, <2>3 DEF Carried
<1>11. BoundWasProven'
  BY <1>4 DEF IInv, BoundWasProven
<1>12. PendingIsChased'
  <2> SUFFICES ASSUME NEW d \in Claim, verif'[d] = "pending", d \notin lost'
               PROVE  \/ \E q \in Req : HandlerChases(req'[q], d)
                      \/ \E i \in Job : JobChases(job'[i], d)
    BY ChasedSaidNext
  <2>1. CASE d = c
    BY <1>1, <1>7, <2>1 DEF JobChases
  <2>2. CASE d # c
    <3>1. \/ \E q \in Req : HandlerChases(req[q], d)
          \/ \E i \in Job : JobChases(job[i], d)
      BY <1>4, <2>2, ChasedSaid DEF IInv
    <3>2. ~JobChases(job[j], d) /\ ~JobChases(job[k], d)
      BY <1>3, <1>5, <2>2, IdleOK
    <3> QED
      BY <1>4, <1>7, <3>1, <3>2
  <2> QED
    BY <2>1, <2>2
<1>13. Limits'
  BY <1>4, <1>8, StillLimits DEF IInv
<1> QED
  BY <1>9, <1>10, <1>11, <1>12, <1>13 DEF IInv

LEMMA WorkThrowStep ==
    ASSUME IInv, NEW j \in Job, WorkThrow(j)
    PROVE  IInv'
<1> DEFINE c == job[j].c
<1>1. /\ job[j].pc # "free" /\ c \in Claim /\ job[j].left \in 1..Attempts
      /\ UNCHANGED <<live, verif, aged, custom, req, proven, held, crossed>>
  BY JobAtWork, JobMade DEF IInv, WorkThrow
<1>2. Growing /\ NoRowAdded
  BY <1>1 DEF Growing, NoRowAdded
<1>3. BoundWasProven' /\ Limits'
  BY <1>1, <1>2, StillLimits DEF IInv, BoundWasProven
<1>4. \A d \in Claim : JobChases(job[j], d) => d = c
  BY DEF JobChases
<1>5. CASE job[j].left > 1
  <2> DEFINE s == [pc |-> "queued", c |-> c, left |-> job[j].left - 1]
  <2>1. Step(j, s) /\ UNCHANGED lost
    BY <1>5 DEF WorkThrow
  <2>2. job[j].left - 1 \in 1..Attempts
    BY <1>1, <1>5, DomainsAssumption
  <2>3. s \in JobState /\ s.pc = "queued" /\ s.c = c
    BY <1>1, <2>2, JobMade
  <2> HIDE DEF s, c
  <2>4. TypeOK'
    BY <1>1, <2>1, <2>3, StepJob DEF IInv, TypeOK
  <2>5. Carried'
    BY <1>1, <1>2, <2>1, <2>3, JobCarried DEF IInv, JobOK
  <2>6. JobChases(s, c)
    BY <2>3 DEF JobChases
  <2>7. PendingIsChased'
    BY <1>1, <1>4, <2>1, <2>3, <2>6, JobChased DEF IInv
  <2> QED
    BY <1>3, <2>4, <2>5, <2>7 DEF IInv
<1>6. CASE ~(job[j].left > 1)
  <2>1. Step(j, Free) /\ lost' = lost \cup {c}
    BY <1>6 DEF WorkThrow
  <2> HIDE DEF c
  <2>2. TypeOK'
    BY <1>1, <2>1, JobMade, StepJob DEF IInv, TypeOK
  <2>3. Carried'
    BY <1>1, <1>2, <2>1, JobMade, IdleOK, JobCarried DEF IInv
  <2>4. PendingIsChased'
    BY <1>1, <1>4, <2>1, JobMade, JobChased DEF IInv
  <2> QED
    BY <1>3, <2>2, <2>3, <2>4 DEF IInv
<1> QED
  BY <1>5, <1>6

-----------------------------------------------------------------------------
(***************************************************************************)
(* The environment                                                         *)
(***************************************************************************)

LEMMA AgeStep ==
    ASSUME IInv, NEW c \in Claim, Age(c)
    PROVE  IInv'
<1>1. aged' = aged \cup {c}
      /\ UNCHANGED <<live, verif, custom, req, job, proven, held, crossed, lost>>
  BY DEF Age, history
<1>2. TypeOK'
  BY <1>1 DEF IInv, TypeOK
<1>3. Carried' /\ BoundWasProven' /\ PendingIsChased'
  BY <1>1 DEF IInv, Carried, BoundWasProven, PendingIsChased
<1>4. Limits'
  BY <1>1, StillLimits DEF IInv, NoRowAdded
<1> QED
  BY <1>2, <1>3, <1>4 DEF IInv

\* What is lost when a tenant goes concerns only it.
LEMMA DeleteTenantStep ==
    ASSUME IInv, NEW t \in Tenant, DeleteTenant(t)
    PROVE  IInv'
<1>1. /\ live' = live \ {t}
      /\ verif' = [c \in Claim |-> IF c[1] = t THEN "none" ELSE verif[c]]
      /\ custom' = [custom EXCEPT ![t] = None]
      /\ proven' = proven \ ClaimsOf(t) /\ held' = held \ ClaimsOf(t)
      /\ lost' = lost \ ClaimsOf(t)
      /\ UNCHANGED <<aged, req, job, crossed>>
  BY DEF DeleteTenant
<1>2. TypeOK'
  BY <1>1 DEF IInv, TypeOK, Status
<1>3. \A c \in proven \cup held : c[1] # t => c \in proven' \cup held'
  BY <1>1 DEF ClaimsOf
<1>4. ASSUME NEW q \in Req
      PROVE  HandlerOK(live', verif', proven' \cup held', req'[q])
  <2>1. req[q] \in Handler /\ HandlerOK(live, verif, proven \cup held, req[q]) /\ req'[q] = req[q]
    BY <1>1 DEF IInv, TypeOK, Carried
  <2>2. <<req[q].t, req[q].dom>>[1] = req[q].t
    OBVIOUS
  <2> QED
    BY <1>1, <1>3, <2>1, <2>2, HandlerFields DEF HandlerOK
<1>5. ASSUME NEW k \in Job
      PROVE  JobOK(live', verif', proven' \cup held', job'[k])
  <2>1. job[k] \in JobState /\ JobOK(live, verif, proven \cup held, job[k]) /\ job'[k] = job[k]
    BY <1>1 DEF IInv, TypeOK, Carried
  <2> QED
    BY <1>1, <1>3, <2>1, JobFields DEF JobOK
<1>6. BoundWasProven'
  <2> SUFFICES ASSUME NEW u \in Tenant, custom'[u] # None
               PROVE  <<u, custom'[u]>> \in proven' \cup held'
    BY DEF BoundWasProven
  <2>1. u # t /\ custom'[u] = custom[u]
    BY <1>1 DEF IInv, TypeOK
  <2>2. <<u, custom[u]>> \in proven \cup held /\ <<u, custom[u]>>[1] = u
    BY <2>1 DEF IInv, BoundWasProven
  <2> QED
    BY <1>3, <2>1, <2>2
<1>7. PendingIsChased'
  BY <1>1 DEF IInv, PendingIsChased, ClaimsOf
<1>8. NoRowAdded
  BY <1>1 DEF NoRowAdded
<1>9. Limits'
  BY <1>1, <1>8, StillLimits DEF IInv
<1> QED
  BY <1>2, <1>4, <1>5, <1>6, <1>7, <1>9 DEF IInv, Carried

-----------------------------------------------------------------------------
(***************************************************************************)
(* The specification                                                       *)
(***************************************************************************)

LEMMA InitIInv ==
    ASSUME Init
    PROVE  IInv
<1>1. TypeOK
  BY DomainsAssumption DEF Init, TypeOK, Status, Handler, JobState, Idle, Free
<1>2. Carried /\ BoundWasProven /\ PendingIsChased
  BY IdleOK DEF Init, Carried, BoundWasProven, PendingIsChased
<1>3. ASSUME NEW t \in Tenant
      PROVE  Within(verif, req, crossed, t)
  <2> DEFINE Mine == {c \in Early : c[1] = t}
  <2>1. RowsIn(verif, t) \subseteq Mine /\ Mine \subseteq Early
    BY DomainsAssumption DEF Init, RowsIn, ClaimsOf
  <2>2. IsFiniteSet(Mine) /\ Cardinality(Mine) <= MaxDomains /\ Cardinality(Mine) \in Nat
    BY <2>1, DomainsAssumption, FS_Subset, FS_CardinalityType
  <2> HIDE DEF Mine
  <2>3. /\ IsFiniteSet(RowsIn(verif, t))
        /\ Cardinality(RowsIn(verif, t)) <= Cardinality(Mine)
        /\ Cardinality(RowsIn(verif, t)) \in Nat
    BY <2>1, <2>2, FS_Subset, FS_CardinalityType
  <2>4. AskingFor(req, t) = {} /\ Inserting(req, t) = {}
    BY HandlerMade DEF Init, AskingFor, Inserting, Asking
  <2>5. Cardinality(Inserting(req, t)) = 0 /\ Cardinality(Req) \in Nat \ {0}
    BY <2>4, FS_EmptySet, InsertingFinite
  <2>6. MaxDomains \in Nat
    BY DomainsAssumption
  <2> QED
    BY <2>2, <2>3, <2>4, <2>5, <2>6 DEF Within
<1> QED
  BY <1>1, <1>2, <1>3 DEF IInv, Limits

LEMMA StutterIInv ==
    ASSUME IInv, UNCHANGED domVars
    PROVE  IInv'
BY DEF IInv, TypeOK, Carried, BoundWasProven, PendingIsChased, Limits, domVars

LEMMA ReqStepIInv ==
    ASSUME IInv, NEW r \in Req, Arrive(r) \/ Continue(r)
    PROVE  IInv'
<1>1. CASE Arrive(r)
  BY <1>1, RequestStep, VerifyStep, UnbindStep, LoadTenantStep DEF Arrive
<1>2. CASE Continue(r)
  BY <1>2, CheckConflictStep, FindExistingStep, CountRowsStep, InsertRowStep,
     VerifyLoadRowStep, VerifyLookupStep, VerifySaveRowStep, VerifyEnqueueStep,
     SaveTenantStep, AbortStep
     DEF Continue
<1> QED
  BY <1>1, <1>2

LEMMA WorkStepIInv ==
    ASSUME IInv, NEW j \in Job, Work(j)
    PROVE  IInv'
BY WorkLoadStep, WorkFailStep, WorkLookupStep, WorkSaveRowStep, WorkLoadTenantStep,
   WorkSaveTenantStep, WorkFollowUpStep, WorkForkStep, WorkThrowStep DEF Work

LEMMA NextIInv ==
    ASSUME IInv, [Next]_domVars
    PROVE  IInv'
BY ReqStepIInv, WorkStepIInv, AgeStep, DeleteTenantStep, StutterIInv DEF Next

\* What the limits say of the rows alone.
LEMMA LimitsKeep ==
    ASSUME IInv
    PROVE  LimitKept
<1> SUFFICES ASSUME NEW t \in Tenant
             PROVE  /\ Cardinality(Rows(t)) <= MaxDomains + Cardinality(Req) - 1
                    /\ t \notin crossed =>
                           Cardinality(Rows(t)) + Cardinality(Inserting(req, t)) <= MaxDomains
  BY DEF LimitKept, Inserting
<1>1. Within(verif, req, crossed, t) /\ Rows(t) = RowsIn(verif, t)
  BY DEF IInv, Limits, Rows, RowsIn
<1>2. /\ Cardinality(Rows(t)) \in Nat /\ Cardinality(Inserting(req, t)) \in Nat
      /\ Cardinality(Req) \in Nat /\ MaxDomains \in Nat
  BY <1>1, FS_CardinalityType, InsertingFinite, DomainsAssumption DEF Within
<1> QED
  BY <1>1, <1>2 DEF Within

\* The invariant of the handlers and jobs of custom-domain.service.ts (verify,
\* unbind, requestVerification) and verify-domain.worker.ts (handle).
THEOREM Invariance == Spec => []IInv
<1>1. Init => IInv
  BY InitIInv
<1>2. IInv /\ [Next]_domVars => IInv'
  BY NextIInv
<1> QED
  BY <1>1, <1>2, PTL DEF Spec

\* Every row, handler and job has its shape at all times.
THEOREM TypeCorrect == Spec => []TypeOK
<1>1. IInv => TypeOK
  BY DEF IInv
<1> QED
  BY <1>1, Invariance, PTL

\* A tenant has a domain bound only on a lookup that found its token since its
\* last unbind, or on one a handler held during that unbind (verify 82-100,
\* unbind 121-127, bindDomainToTenant 135-147, handle 61-91).
THEOREM BoundProven == Spec => []BoundWasProven
<1>1. IInv => BoundWasProven
  BY DEF IInv
<1> QED
  BY <1>1, Invariance, PTL

\* Without overlapping requests a tenant stays within MAX_DOMAINS_PER_TENANT;
\* with them it exceeds it by less than their number (requestVerification
\* 52-73).
THEOREM Limit == Spec => []LimitKept
<1>1. IInv => LimitKept
  BY LimitsKeep
<1> QED
  BY <1>1, Invariance, PTL

\* A claim left pending by a check has a job or a handler that goes on with
\* it, unless the chain was lost (verify 93-95, handle 61-91).
THEOREM Chased == Spec => []PendingIsChased
<1>1. IInv => PendingIsChased
  BY DEF IInv
<1> QED
  BY <1>1, Invariance, PTL
=============================================================================
