---------------------------- MODULE AssetsProofs ----------------------------
(***************************************************************************)
(* Theorems about Assets, for any keys, handlers and jobs.                 *)
(*                                                                         *)
(* Handlers and workers act on a row they loaded earlier.  That it is the  *)
(* stored one when they act (Fits) holds as long as no delete overlaps the *)
(* processing of its key (Apart).  From then on every object in the bucket *)
(* is accounted for: by the row that names it, by the worker that is about *)
(* to name it (Accounted), or by the purge that will remove it (Purged).   *)
(***************************************************************************)
EXTENDS Assets, SequenceTheorems, FiniteSetTheorems, TLAPS

Working == {"download", "put", "save"}

\* A handler in state h finds the bucket o and the row w of its key as its
\* next statement needs them, unless its key is in cr.
HandlerFits(o, w, cr, h) ==
    /\ h.pc \in {"find", "insert"} /\ w = None => <<h.k, "orig">> \in o
    /\ h.pc = "enqueue" => h.k \in Image /\ w # None
    /\ h.pc \in {"softDelete", "enqueuePurge"} =>
           w # None /\ (h.k \notin cr => h.derived = w.derived)
    /\ h.pc = "enqueuePurge" /\ h.k \notin cr => w.deleted

\* The same for a job in state s.
JobFits(o, w, cr, s) ==
    /\ s.pc \in {"queued"} \cup Working => s.k \in Image /\ w # None
    /\ s.pc \in Working /\ s.k \notin cr => ~w.deleted
    /\ s.pc = "put" /\ s.k \notin cr /\ Len(s.todo) = 1 => <<s.k, "1600">> \in o
    /\ s.pc = "save" /\ s.k \notin cr => <<s.k, "1600">> \in o /\ <<s.k, "800">> \in o
    /\ s.pc = "purge" => w # None /\ (s.k \notin cr => w.deleted)

Fits ==
    /\ \A r \in Req : req[r].pc # "idle" =>
           HandlerFits(objects, row[req[r].k], crossed, req[r])
    /\ \A j \in Job : job[j].pc # "free" =>
           JobFits(objects, row[job[j].k], crossed, job[j])

\* No delete overlaps the processing of its key.
Apart ==
    \A r \in Req, j \in Job :
        req[r].pc = "softDelete" /\ job[j].pc \in Working /\ req[r].k = job[j].k
            => req[r].k \in crossed

\* Derivatives in the bucket are named by the row or about to be.
Accounted ==
    \A k \in Key, v \in Variant : <<k, v>> \in objects =>
        \/ v = "orig"
        \/ row[k] # None /\ row[k].derived
        \/ row[k] # None /\ k \in crossed \cup litter
        \/ \E j \in Job : job[j].pc \in {"put", "save"} /\ job[j].k = k

\* Variant v of key k is in the hands of a purge.
InTodo(v, l) == \E i \in 1..Len(l) : l[i] = v
Told(rq, jb, k, v) ==
    \/ \E r \in Req : rq[r].pc = "enqueuePurge" /\ rq[r].k = k
    \/ \E j \in Job : jb[j].pc = "purge" /\ jb[j].k = k /\ InTodo(v, jb[j].todo)

Purged ==
    \A k \in Key, v \in Variant :
        /\ row[k] # None /\ row[k].deleted
        /\ k \notin crossed \cup litter
        /\ <<k, v>> \in objects
        => Told(req, job, k, v)

\* Who will see to the derivatives of k: at most one, and one if they are
\* wanted.
HandlerChases(h, k) == h.pc = "enqueue" /\ h.k = k
JobChases(s, k) == s.pc \in {"queued"} \cup Working /\ s.k = k /\ s.left > 0

Single ==
    \A k \in Key :
        /\ \A p, q \in Req : HandlerChases(req[p], k) /\ HandlerChases(req[q], k) => p = q
        /\ \A i, j \in Job : JobChases(job[i], k) /\ JobChases(job[j], k) => i = j
        /\ \A r \in Req, j \in Job : ~(HandlerChases(req[r], k) /\ JobChases(job[j], k))

Wanting(w, k, ls) == k \in Image /\ w # None /\ ~w.deleted /\ ~w.derived /\ k \notin ls

Chased ==
    \A k \in Key : Wanting(row[k], k, lost) =>
        \/ \E r \in Req : HandlerChases(req[r], k)
        \/ \E j \in Job : JobChases(job[j], k)

IInv ==
    /\ TypeOK /\ Fits /\ Apart /\ ListedServes
    /\ Accounted /\ Purged /\ Single /\ Chased

-----------------------------------------------------------------------------
(***************************************************************************)
(* Lists of variants                                                       *)
(***************************************************************************)

LEMMA NamesAre ==
    Names(TRUE) = <<"orig", "1600", "800">> /\ Names(FALSE) = <<"orig">>
<1> DEFINE a == <<"orig">>
           b == <<"orig", "1600", "800">>
           c == a \o Derivatives
<1>1. a \in Seq(Variant) /\ Derivatives \in Seq(Variant) /\ b \in Seq(Variant)
  BY DEF Derivatives, Variant
<1>2. /\ Len(a) = 1 /\ a[1] = "orig"
      /\ Len(Derivatives) = 2 /\ Derivatives[1] = "1600" /\ Derivatives[2] = "800"
  BY DEF Derivatives
<1>3. Len(b) = 3 /\ b[1] = "orig" /\ b[2] = "1600" /\ b[3] = "800"
  OBVIOUS
<1> HIDE DEF a, b
<1>4. /\ c \in Seq(Variant) /\ Len(c) = 3
      /\ c[1] = "orig" /\ c[2] = "1600" /\ c[3] = "800"
  <2>1. /\ c \in Seq(Variant) /\ Len(c) = Len(a) + Len(Derivatives)
        /\ \A i \in 1..Len(a) + Len(Derivatives) :
               c[i] = IF i <= Len(a) THEN a[i] ELSE Derivatives[i - Len(a)]
    BY <1>1, ConcatProperties, Zenon
  <2> HIDE DEF c
  <2>2. Len(a) + Len(Derivatives) = 3
    BY <1>2
  <2>3. c[1] = a[1] /\ c[2] = Derivatives[2 - 1] /\ c[3] = Derivatives[3 - 1]
    BY <1>2, <2>1, <2>2
  <2> QED
    BY <1>2, <2>1, <2>2, <2>3
<1> HIDE DEF c
<1>5. \A i \in 1..Len(c) : c[i] = b[i]
  BY <1>3, <1>4
<1>6. c = b
  BY <1>1, <1>3, <1>4, <1>5, SeqEqual
<1> QED
  BY <1>6 DEF Names, c, a, b

LEMMA NameListsAre ==
    NameLists = {<<"orig", "1600", "800">>, <<"orig">>, Derivatives, <<"800">>, <<>>}
BY NamesAre DEF NameLists

LEMMA ListsAreSeqs ==
    NameLists \subseteq Seq(Variant)
<1>1. /\ <<"orig", "1600", "800">> \in Seq(Variant) /\ <<"orig">> \in Seq(Variant)
      /\ Derivatives \in Seq(Variant) /\ <<"800">> \in Seq(Variant) /\ <<>> \in Seq(Variant)
  BY DEF Derivatives, Variant
<1> QED
  BY <1>1, NameListsAre

\* Taking the next key of a purge.
LEMMA PurgeLists ==
    ASSUME NEW l \in NameLists
    PROVE  /\ l # <<>> => /\ Head(l) \in Variant /\ Tail(l) \in NameLists
                          /\ \A v : InTodo(v, l) => v = Head(l) \/ InTodo(v, Tail(l))
           /\ l = <<>> => \A v : ~InTodo(v, l)
<1>1. l \in Seq(Variant)
  BY ListsAreSeqs
<1>2. l = <<>> => \A v : ~InTodo(v, l)
  BY DEF InTodo
<1>3. ASSUME l # <<>>, NEW v, InTodo(v, l)
      PROVE  v = Head(l) \/ InTodo(v, Tail(l))
  BY <1>1, <1>3 DEF InTodo
<1>4. l # <<>> => Head(l) \in Variant
  BY <1>1
<1>5. l # <<>> => Tail(l) \in NameLists
  <2>1. /\ Tail(<<"orig", "1600", "800">>) = Derivatives /\ Tail(<<"orig">>) = <<>>
        /\ Tail(Derivatives) = <<"800">> /\ Tail(<<"800">>) = <<>>
    BY DEF Derivatives
  <2> QED
    BY <2>1, NameListsAre
<1> QED
  BY <1>2, <1>3, <1>4, <1>5

\* What a purge is told of.
LEMMA PurgeNames ==
    ASSUME NEW d \in BOOLEAN
    PROVE  /\ Names(d) \in NameLists
           /\ InTodo("orig", Names(d))
           /\ d => \A v \in Variant : InTodo(v, Names(d))
<1>1. CASE d
  <2>1. \A v \in Variant : InTodo(v, <<"orig", "1600", "800">>)
    BY DEF InTodo, Variant
  <2> QED
    BY <1>1, <2>1, NamesAre, NameListsAre DEF Variant
<1>2. CASE ~d
  <2>1. InTodo("orig", <<"orig">>)
    BY DEF InTodo
  <2> QED
    BY <1>2, <2>1, NamesAre, NameListsAre
<1> QED
  BY <1>1, <1>2

\* What a worker puts, in this order.
LEMMA PutLists ==
    /\ Len(Derivatives) = 2 /\ Head(Derivatives) = "1600" /\ Tail(Derivatives) = <<"800">>
    /\ Len(<<"800">>) = 1 /\ Head(<<"800">>) = "800"
BY DEF Derivatives

-----------------------------------------------------------------------------
(***************************************************************************)
(* Handlers and jobs                                                       *)
(***************************************************************************)

LEMMA HandlerFields ==
    ASSUME NEW h \in Handler
    PROVE  /\ h.pc # "idle" => h.k \in Key
           /\ h.pc \in {"softDelete", "enqueuePurge"} => h.derived \in BOOLEAN
           /\ h.pc = "idle" => h = Idle
BY DEF Handler, Idle

LEMMA JobFields ==
    ASSUME NEW s \in JobState
    PROVE  /\ s.pc # "free" => s.k \in Key
           /\ s.pc \in {"queued"} \cup Working => s.left \in 0..Attempts
           /\ s.pc = "queued" => s.left \in 1..Attempts
           /\ s.pc = "put" => s.todo = Derivatives \/ s.todo = <<"800">>
           /\ s.pc = "purge" => s.todo \in NameLists
           /\ s.pc = "free" => s = Free
BY DEF JobState, Free, Working

LEMMA RowMade ==
    \A d, e \in BOOLEAN : /\ [deleted |-> d, derived |-> e] \in Row
                           /\ [deleted |-> d, derived |-> e] # None
<1>1. \A w \in Row : w # None
  BY AssetsAssumption, Zenon DEF Row
<1>2. \A d, e \in BOOLEAN : [deleted |-> d, derived |-> e] \in Row
  BY DEF Row
<1> QED
  BY <1>1, <1>2, Zenon

LEMMA HandlerMade ==
    /\ Idle \in Handler /\ Idle.pc = "idle"
    /\ \A k \in Key : \A pc \in {"find", "insert", "enqueue"} : [pc |-> pc, k |-> k] \in Handler
    /\ \A k \in Key : \A d \in BOOLEAN : \A pc \in {"softDelete", "enqueuePurge"} :
           [pc |-> pc, k |-> k, derived |-> d] \in Handler
BY DEF Idle, Handler

LEMMA JobMade ==
    /\ Free \in JobState /\ Free.pc = "free"
    /\ \A k \in Key : \A left \in 1..Attempts :
           [pc |-> "queued", k |-> k, left |-> left] \in JobState
    /\ \A k \in Key : \A left \in 0..Attempts : \A pc \in {"download", "save"} :
           [pc |-> pc, k |-> k, left |-> left] \in JobState
    /\ \A k \in Key : \A left \in 0..Attempts : \A l \in {Derivatives, <<"800">>} :
           [pc |-> "put", k |-> k, left |-> left, todo |-> l] \in JobState
    /\ \A k \in Key : \A l \in NameLists : [pc |-> "purge", k |-> k, todo |-> l] \in JobState
BY DEF Free, JobState

LEMMA GotoReq ==
    ASSUME TypeOK, NEW r \in Req, NEW h \in Handler, Goto(r, h)
    PROVE  req' \in [Req -> Handler] /\ req'[r] = h /\ \A q \in Req \ {r} : req'[q] = req[q]
BY DEF Goto, TypeOK

LEMMA StepJob ==
    ASSUME TypeOK, NEW j \in Job, NEW s \in JobState, Step(j, s)
    PROVE  job' \in [Job -> JobState] /\ job'[j] = s /\ \A i \in Job \ {j} : job'[i] = job[i]
BY DEF Step, TypeOK

-----------------------------------------------------------------------------
(***************************************************************************)
(* What a step keeps, part by part                                         *)
(***************************************************************************)

\* The row of k stays and so do its objects.
Steady(k) ==
    /\ row'[k] = row[k]
    /\ \A v \in Variant : <<k, v>> \in objects => <<k, v>> \in objects'

LEMMA FitsKept ==
    ASSUME TypeOK, Fits, crossed \subseteq crossed',
           \A q \in Req : \/ req'[q].pc = "idle"
                          \/ HandlerFits(objects', row'[req'[q].k], crossed', req'[q])
                          \/ req'[q] = req[q] /\ Steady(req[q].k),
           \A i \in Job : \/ job'[i].pc = "free"
                          \/ JobFits(objects', row'[job'[i].k], crossed', job'[i])
                          \/ job'[i] = job[i] /\ Steady(job[i].k)
    PROVE  Fits'
<1>1. "orig" \in Variant /\ "1600" \in Variant /\ "800" \in Variant
  BY DEF Variant
<1>2. ASSUME NEW q \in Req, req'[q].pc # "idle"
      PROVE  HandlerFits(objects', row'[req'[q].k], crossed', req'[q])
  <2>1. CASE HandlerFits(objects', row'[req'[q].k], crossed', req'[q])
    BY <2>1
  <2>2. CASE req'[q] = req[q] /\ Steady(req[q].k)
    <3>1. HandlerFits(objects, row[req[q].k], crossed, req[q])
      BY <1>2, <2>2 DEF Fits
    <3> QED
      BY <1>1, <2>2, <3>1 DEF HandlerFits, Steady
  <2> QED
    BY <1>2, <2>1, <2>2
<1>3. ASSUME NEW i \in Job, job'[i].pc # "free"
      PROVE  JobFits(objects', row'[job'[i].k], crossed', job'[i])
  <2>1. CASE JobFits(objects', row'[job'[i].k], crossed', job'[i])
    BY <2>1
  <2>2. CASE job'[i] = job[i] /\ Steady(job[i].k)
    <3>1. JobFits(objects, row[job[i].k], crossed, job[i])
      BY <1>3, <2>2 DEF Fits
    <3> QED
      BY <1>1, <2>2, <3>1 DEF JobFits, Steady
  <2> QED
    BY <1>3, <2>1, <2>2
<1> QED
  BY <1>2, <1>3 DEF Fits

LEMMA ApartKept ==
    ASSUME Apart, crossed \subseteq crossed',
           \A q \in Req : req'[q].pc = "softDelete" =>
               req[q].pc = "softDelete" /\ req[q].k = req'[q].k,
           \A i \in Job : job'[i].pc \in Working => job[i].pc \in Working /\ job[i].k = job'[i].k
    PROVE  Apart'
BY DEF Apart

LEMMA ServesKept ==
    ASSUME ListedServes, crossed \subseteq crossed',
           \A k \in Key : Steady(k) \/ k \in crossed' \/ row'[k] = None \/ row'[k].deleted
    PROVE  ListedServes'
<1>1. "orig" \in Variant
  BY DEF Variant
<1> SUFFICES ASSUME NEW k \in Key, row'[k] # None, ~row'[k].deleted, k \notin crossed'
             PROVE  /\ <<k, "orig">> \in objects'
                    /\ row'[k].derived => \A v \in Variant : <<k, v>> \in objects'
  BY DEF ListedServes, Found
<1>2. Steady(k)
  OBVIOUS
<1> QED
  BY <1>1, <1>2 DEF ListedServes, Found, Steady

LEMMA AccountedKept ==
    ASSUME Accounted, UNCHANGED row, crossed \subseteq crossed', litter \subseteq litter',
           \A i \in Job : job[i].pc \in {"put", "save"} =>
               \/ job'[i].pc \in {"put", "save"} /\ job'[i].k = job[i].k
               \/ job[i].k \in litter' /\ row[job[i].k] # None,
           \A k \in Key, v \in Variant : <<k, v>> \in objects' =>
               \/ <<k, v>> \in objects
               \/ v = "orig"
               \/ \E i \in Job : job'[i].pc \in {"put", "save"} /\ job'[i].k = k
    PROVE  Accounted'
<1> SUFFICES ASSUME NEW k \in Key, NEW v \in Variant, <<k, v>> \in objects', v # "orig",
                    ~ \E i \in Job : job'[i].pc \in {"put", "save"} /\ job'[i].k = k
             PROVE  \/ row'[k] # None /\ row'[k].derived
                    \/ row'[k] # None /\ k \in crossed' \cup litter'
  BY DEF Accounted
<1>1. <<k, v>> \in objects
  OBVIOUS
<1>2. \/ row[k] # None /\ row[k].derived
      \/ row[k] # None /\ k \in crossed \cup litter
      \/ \E j \in Job : job[j].pc \in {"put", "save"} /\ job[j].k = k
  BY <1>1 DEF Accounted
<1> QED
  BY <1>2

LEMMA PurgedKept ==
    ASSUME Purged, UNCHANGED row, crossed \subseteq crossed', litter \subseteq litter',
           \A k \in Key, v \in Variant :
               /\ row[k] # None /\ row[k].deleted
               /\ k \notin crossed' \cup litter' /\ <<k, v>> \in objects'
               => <<k, v>> \in objects /\ (Told(req, job, k, v) => Told(req', job', k, v))
    PROVE  Purged'
<1> SUFFICES ASSUME NEW k \in Key, NEW v \in Variant, row'[k] # None, row'[k].deleted,
                    k \notin crossed' \cup litter', <<k, v>> \in objects'
             PROVE  Told(req', job', k, v)
  BY DEF Purged, Told
<1>1. <<k, v>> \in objects /\ (Told(req, job, k, v) => Told(req', job', k, v))
  OBVIOUS
<1>2. k \notin crossed \cup litter
  OBVIOUS
<1> QED
  BY <1>1, <1>2 DEF Purged

LEMMA SingleKept ==
    ASSUME Single,
           \A k \in Key : /\ \A q \in Req : HandlerChases(req'[q], k) => HandlerChases(req[q], k)
                          /\ \A i \in Job : JobChases(job'[i], k) => JobChases(job[i], k)
    PROVE  Single'
BY DEF Single, HandlerChases, JobChases

LEMMA ChasedKept ==
    ASSUME Chased,
           \A k \in Key : Wanting(row'[k], k, lost') =>
               /\ Wanting(row[k], k, lost)
               /\ \A q \in Req : HandlerChases(req[q], k) => HandlerChases(req'[q], k)
               /\ \A i \in Job : JobChases(job[i], k) => JobChases(job'[i], k)
    PROVE  Chased'
<1> SUFFICES ASSUME NEW k \in Key, Wanting(row'[k], k, lost')
             PROVE  \/ \E r \in Req : HandlerChases(req'[r], k)
                    \/ \E j \in Job : JobChases(job'[j], k)
  BY DEF Chased, Wanting, HandlerChases, JobChases
<1> QED
  BY DEF Chased

-----------------------------------------------------------------------------
(***************************************************************************)
(* Steps that leave the table and the bucket alone                         *)
(***************************************************************************)

Still ==
    /\ UNCHANGED <<objects, row>>
    /\ urls' \subseteq Key
    /\ crossed \subseteq crossed' /\ crossed' \subseteq Key
    /\ litter \subseteq litter' /\ litter' \subseteq Key
    /\ lost \subseteq lost' /\ lost' \subseteq Key
    /\ stalled' \subseteq Key

LEMMA StillSteady ==
    ASSUME Still
    PROVE  \A k : Steady(k)
BY DEF Still, Steady

\* Handler r goes to state h.
LEMMA StillReq ==
    ASSUME IInv, Still, NEW r \in Req, NEW h \in Handler, Goto(r, h), UNCHANGED job,
           h.pc # "idle" => HandlerFits(objects, row[h.k], crossed', h),
           h.pc = "softDelete" =>
               \A j \in Job : job[j].pc \in Working /\ job[j].k = h.k => h.k \in crossed',
           h.pc # "enqueue",
           req[r].pc = "enqueue" => req[r].k \in lost',
           req[r].pc = "enqueuePurge" => req[r].k \in litter'
    PROVE  IInv'
<1>1. req' \in [Req -> Handler] /\ req'[r] = h /\ \A q \in Req \ {r} : req'[q] = req[q]
  BY GotoReq DEF IInv
<1>2. TypeOK'
  BY <1>1 DEF IInv, TypeOK, Still
<1>3. Fits'
  BY <1>1, StillSteady, FitsKept DEF IInv, Still
<1>4. Apart'
  <2> SUFFICES ASSUME NEW q \in Req, NEW j \in Job, req'[q].pc = "softDelete",
                      job[j].pc \in Working, req'[q].k = job[j].k
               PROVE  req'[q].k \in crossed'
    BY DEF Apart
  <2>1. CASE q = r
    BY <1>1, <2>1
  <2>2. CASE q # r
    BY <1>1, <2>2 DEF IInv, Apart, Still
  <2> QED
    BY <2>1, <2>2
<1>5. ListedServes'
  BY StillSteady, ServesKept DEF IInv, Still
<1>6. Accounted'
  BY AccountedKept DEF IInv, Still
<1>7. Purged'
  <2>1. \A k \in Key, v \in Variant :
            k \notin litter' /\ Told(req, job, k, v) => Told(req', job', k, v)
    BY <1>1 DEF Told
  <2> QED
    BY <2>1, PurgedKept DEF IInv, Still
<1>8. Single'
  <2>1. \A k \in Key, q \in Req : HandlerChases(req'[q], k) => HandlerChases(req[q], k)
    BY <1>1 DEF HandlerChases
  <2> QED
    BY <2>1, SingleKept DEF IInv
<1>9. Chased'
  <2>1. \A k \in Key : Wanting(row'[k], k, lost') => Wanting(row[k], k, lost) /\ k \notin lost'
    BY DEF Wanting, Still
  <2>2. \A k \in Key, q \in Req :
            k \notin lost' /\ HandlerChases(req[q], k) => HandlerChases(req'[q], k)
    BY <1>1 DEF HandlerChases
  <2> QED
    BY <2>1, <2>2, ChasedKept DEF IInv
<1> QED
  BY <1>2, <1>3, <1>4, <1>5, <1>6, <1>7, <1>8, <1>9 DEF IInv

\* Job j goes to state s.
LEMMA StillJob ==
    ASSUME IInv, Still, NEW j \in Job, NEW s \in JobState, Step(j, s), UNCHANGED req,
           s.pc # "free" => JobFits(objects, row[s.k], crossed', s),
           s.pc \in Working =>
               \/ job[j].pc \in Working /\ job[j].k = s.k
               \/ \A r \in Req : req[r].pc = "softDelete" /\ req[r].k = s.k => s.k \in crossed',
           \A k \in Key : JobChases(s, k) => JobChases(job[j], k),
           \A k \in Key : JobChases(job[j], k) /\ Wanting(row[k], k, lost') => JobChases(s, k),
           job[j].pc \in {"put", "save"} =>
               (s.pc \in {"put", "save"} /\ s.k = job[j].k) \/ job[j].k \in litter',
           job[j].pc = "purge" => job[j].k \in litter' \/ job[j].todo = <<>>
    PROVE  IInv'
<1>1. job' \in [Job -> JobState] /\ job'[j] = s /\ \A i \in Job \ {j} : job'[i] = job[i]
  BY StepJob DEF IInv
<1>2. TypeOK'
  BY <1>1 DEF IInv, TypeOK, Still
<1>3. Fits'
  BY <1>1, StillSteady, FitsKept DEF IInv, Still
<1>4. Apart'
  <2> SUFFICES ASSUME NEW q \in Req, NEW i \in Job, req[q].pc = "softDelete",
                      job'[i].pc \in Working, req[q].k = job'[i].k
               PROVE  req[q].k \in crossed'
    BY DEF Apart
  <2>1. CASE i = j
    BY <1>1, <2>1 DEF IInv, Apart, Still
  <2>2. CASE i # j
    BY <1>1, <2>2 DEF IInv, Apart, Still
  <2> QED
    BY <2>1, <2>2
<1>5. ListedServes'
  BY StillSteady, ServesKept DEF IInv, Still
<1>6. Accounted'
  <2>1. job[j].pc \in {"put", "save"} => row[job[j].k] # None
    BY JobMade DEF IInv, Fits, JobFits, Working
  <2>2. \A i \in Job : job[i].pc \in {"put", "save"} =>
            \/ job'[i].pc \in {"put", "save"} /\ job'[i].k = job[i].k
            \/ job[i].k \in litter' /\ row[job[i].k] # None
    BY <1>1, <2>1
  <2> QED
    BY <2>2, AccountedKept DEF IInv, Still
<1>7. Purged'
  <2>1. job[j].pc = "purge" /\ job[j].todo = <<>> => \A v : ~InTodo(v, job[j].todo)
    BY JobFields, PurgeLists DEF IInv, TypeOK
  <2>2. \A k \in Key, v \in Variant :
            k \notin litter' /\ Told(req, job, k, v) => Told(req', job', k, v)
    BY <1>1, <2>1 DEF Told
  <2> QED
    BY <2>2, PurgedKept DEF IInv, Still
<1>8. Single'
  BY <1>1, SingleKept DEF IInv
<1>9. Chased'
  <2>1. \A k \in Key : Wanting(row'[k], k, lost') =>
            Wanting(row[k], k, lost') /\ Wanting(row[k], k, lost)
    BY DEF Wanting, Still
  <2> QED
    BY <1>1, <2>1, ChasedKept DEF IInv
<1> QED
  BY <1>2, <1>3, <1>4, <1>5, <1>6, <1>7, <1>8, <1>9 DEF IInv

\* The handler and the job are the same ones.
LEMMA StillNobody ==
    ASSUME IInv, Still, UNCHANGED <<req, job>>, UNCHANGED <<crossed, litter, lost, stalled>>
    PROVE  IInv'
<1>1. TypeOK'
  BY DEF IInv, TypeOK, Still
<1>2. Fits' /\ Apart' /\ Accounted'
  BY DEF IInv, Still, Fits, Apart, Accounted
<1>3. ListedServes'
  BY DEF IInv, Still, ListedServes, Found
<1>4. Purged' /\ Single' /\ Chased'
  BY DEF IInv, Still, Purged, Told, Single, Chased
<1> QED
  BY <1>1, <1>2, <1>3, <1>4 DEF IInv

-----------------------------------------------------------------------------
(***************************************************************************)
(* The client and its requests                                             *)
(***************************************************************************)

LEMMA UrlSteps ==
    ASSUME IInv, NEW k \in Key, Sign(k) \/ ExpireUrl(k)
    PROVE  IInv'
<1>1. Still /\ UNCHANGED <<req, job>> /\ UNCHANGED <<crossed, litter, lost, stalled>>
  BY DEF IInv, TypeOK, Sign, ExpireUrl, history, Still
<1> QED
  BY <1>1, StillNobody

LEMMA PutStep ==
    ASSUME IInv, NEW k \in Key, Put(k)
    PROVE  IInv'
<1>1. /\ objects' = objects \cup {<<k, "orig">>}
      /\ litter' = IF row[k] # None /\ row[k].deleted THEN litter \cup {k} ELSE litter
      /\ UNCHANGED <<urls, row, req, job, stalled, crossed, lost>>
  BY DEF Put
<1>2. \A x \in Key : Steady(x)
  BY <1>1 DEF Steady
<1>3. <<k, "orig">> \in Key \X Variant
  BY DEF Variant
<1>4. TypeOK'
  BY <1>1, <1>3 DEF IInv, TypeOK
<1>5. Fits'
  <2>1. \A q \in Req : req[q].pc = "idle" \/ Steady(req[q].k)
    BY <1>2, HandlerFields DEF IInv, TypeOK
  <2>2. \A i \in Job : job[i].pc = "free" \/ Steady(job[i].k)
    BY <1>2, JobFields DEF IInv, TypeOK
  <2> QED
    BY <1>1, <2>1, <2>2, FitsKept DEF IInv
<1>6. Apart'
  BY <1>1 DEF IInv, Apart
<1>7. ListedServes'
  BY <1>1, <1>2, ServesKept DEF IInv
<1>8. \A x \in Key, v \in Variant : <<x, v>> \in objects' =>
          <<x, v>> \in objects \/ (x = k /\ v = "orig")
  BY <1>1
<1>9. Accounted'
  BY <1>1, <1>8, AccountedKept DEF IInv
<1>10. Purged'
  BY <1>1, <1>8, PurgedKept DEF IInv
<1>11. Single' /\ Chased'
  BY <1>1 DEF IInv, Single, Chased
<1> QED
  BY <1>4, <1>5, <1>6, <1>7, <1>9, <1>10, <1>11 DEF IInv

LEMMA ConfirmStep ==
    ASSUME IInv, NEW r \in Req, NEW k \in Key, Confirm(r, k)
    PROVE  IInv'
<1> DEFINE h == [pc |-> "find", k |-> k]
<1>1. h \in Handler /\ h.pc = "find" /\ h.k = k
  BY HandlerMade
<1>2. /\ Goto(r, h) /\ UNCHANGED job /\ Still /\ req[r] = Idle
      /\ <<k, "orig">> \in objects
  BY DEF IInv, TypeOK, Confirm, history, Still
<1> HIDE DEF h
<1>3. HandlerFits(objects, row[h.k], crossed', h)
  BY <1>1, <1>2 DEF HandlerFits
<1> QED
  BY <1>1, <1>2, <1>3, HandlerMade, StillReq

LEMMA ConfirmFindStep ==
    ASSUME IInv, NEW r \in Req, ConfirmFind(r)
    PROVE  IInv'
<1>1. /\ req[r] \in Handler /\ req[r].pc = "find" /\ UNCHANGED job /\ Still
      /\ HandlerFits(objects, row[req[r].k], crossed, req[r])
  BY DEF IInv, TypeOK, Fits, ConfirmFind, history, Still
<1>2. CASE Goto(r, Idle)
  BY <1>1, <1>2, HandlerMade, StillReq
<1>3. CASE Goto(r, [req[r] EXCEPT !.pc = "insert"])
  <2> DEFINE h == [req[r] EXCEPT !.pc = "insert"]
  <2>1. h \in Handler /\ h.pc = "insert" /\ h.k = req[r].k
    BY <1>1 DEF Handler
  <2> HIDE DEF h
  <2>2. HandlerFits(objects, row[h.k], crossed', h)
    BY <1>1, <2>1 DEF HandlerFits
  <2>3. Goto(r, h)
    BY <1>3 DEF h
  <2> QED
    BY <1>1, <2>1, <2>2, <2>3, StillReq
<1> QED
  BY <1>2, <1>3 DEF ConfirmFind

LEMMA DeleteStep ==
    ASSUME IInv, NEW r \in Req, NEW k \in Key, Delete(r, k)
    PROVE  IInv'
<1> DEFINE h == [pc |-> "softDelete", k |-> k, derived |-> row[k].derived]
<1>1. row[k] \in Row /\ row[k].derived \in BOOLEAN /\ row[k] # None
  BY DEF IInv, TypeOK, Delete, Found, Row
<1>2. h \in Handler /\ h.pc = "softDelete" /\ h.k = k /\ h.derived = row[k].derived
  BY <1>1, HandlerMade
<1>3. Goto(r, h) /\ UNCHANGED job /\ req[r] = Idle
  BY DEF Delete
<1>4. Still /\ (Processing(k) => k \in crossed')
  BY DEF IInv, TypeOK, Delete, Still
<1> HIDE DEF h
<1>5. HandlerFits(objects, row[h.k], crossed', h)
  BY <1>1, <1>2 DEF HandlerFits
<1>6. \A j \in Job : job[j].pc \in Working /\ job[j].k = h.k => h.k \in crossed'
  BY <1>2, <1>4 DEF Processing, Working
<1> QED
  BY <1>2, <1>3, <1>4, <1>5, <1>6, HandlerMade, StillReq

LEMMA AbortStep ==
    ASSUME IInv, NEW r \in Req, Abort(r)
    PROVE  IInv'
<1>1. req[r] \in Handler /\ req[r].k \in Key
  BY HandlerFields DEF IInv, TypeOK, Abort
<1>2. Still /\ UNCHANGED job /\ Goto(r, Idle)
  BY <1>1 DEF IInv, TypeOK, Abort, Still
<1>3. /\ req[r].pc = "enqueue" => req[r].k \in lost'
      /\ req[r].pc = "enqueuePurge" => req[r].k \in litter'
  BY DEF Abort
<1> QED
  BY <1>2, <1>3, HandlerMade, StillReq

\* Of a key without a row nobody is past its insert, and its original is all
\* the bucket may hold.
LEMMA RowlessKey ==
    ASSUME IInv, NEW k \in Key, row[k] = None
    PROVE  /\ \A q \in Req : req[q].pc # "idle" /\ req[q].k = k => req[q].pc \in {"find", "insert"}
           /\ \A i \in Job : job[i].pc # "free" => job[i].k # k
           /\ \A v \in Variant : <<k, v>> \in objects => v = "orig"
<1>1. ASSUME NEW q \in Req, req[q].pc # "idle", req[q].k = k
      PROVE  req[q].pc \in {"find", "insert"}
  <2>1. req[q] \in Handler /\ HandlerFits(objects, row[k], crossed, req[q])
    BY <1>1 DEF IInv, TypeOK, Fits
  <2>2. req[q].pc \notin {"enqueue", "softDelete", "enqueuePurge"}
    BY <2>1 DEF HandlerFits
  <2> QED
    BY <1>1, <2>1, <2>2 DEF Handler
<1>2. ASSUME NEW i \in Job, job[i].pc # "free", job[i].k = k
      PROVE  FALSE
  <2>1. job[i] \in JobState /\ JobFits(objects, row[k], crossed, job[i])
    BY <1>2 DEF IInv, TypeOK, Fits
  <2>2. job[i].pc \notin {"queued", "download", "put", "save", "purge"}
    BY <2>1 DEF JobFits, Working
  <2> QED
    BY <1>2, <2>1, <2>2 DEF JobState
<1>3. ASSUME NEW v \in Variant, <<k, v>> \in objects, v # "orig"
      PROVE  FALSE
  <2>1. \E j \in Job : job[j].pc \in {"put", "save"} /\ job[j].k = k
    BY <1>3 DEF IInv, Accounted
  <2> QED
    BY <1>2, <2>1
<1> QED
  BY <1>1, <1>2, <1>3

LEMMA ConfirmInsertStep ==
    ASSUME IInv, NEW r \in Req, ConfirmInsert(r)
    PROVE  IInv'
<1> DEFINE k == req[r].k
<1>1. /\ req[r] \in Handler /\ req[r].pc = "insert" /\ k \in Key
      /\ HandlerFits(objects, row[k], crossed, req[r])
  BY HandlerFields DEF IInv, TypeOK, Fits, ConfirmInsert, KeyFree
<1>2. CASE row[k] # None
  <2>1. Goto(r, Idle) /\ UNCHANGED job /\ Still
    BY <1>2 DEF IInv, TypeOK, ConfirmInsert, KeyFree, history, Still
  <2> QED
    BY <1>1, <2>1, HandlerMade, StillReq
<1>3. CASE row[k] = None
  <2> DEFINE new == [deleted |-> FALSE, derived |-> FALSE]
             h == IF k \in Image THEN [pc |-> "enqueue", k |-> k] ELSE Idle
  <2>1. /\ row' = [row EXCEPT ![k] = new] /\ Goto(r, h)
        /\ UNCHANGED <<urls, objects, job, crossed, litter, lost, stalled>>
    BY <1>3 DEF ConfirmInsert, KeyFree, history
  <2>2. /\ h \in Handler
        /\ k \in Image => h.pc = "enqueue" /\ h.k = k
        /\ k \notin Image => h.pc = "idle"
    BY <1>1, HandlerMade
  <2>3. new \in Row /\ new # None /\ ~new.deleted /\ ~new.derived
    BY RowMade
  <2>4. <<k, "orig">> \in objects
    BY <1>1, <1>3 DEF HandlerFits
  <2> HIDE DEF k, h, new
  <2>5. req' \in [Req -> Handler] /\ req'[r] = h /\ \A q \in Req \ {r} : req'[q] = req[q]
    BY <2>1, <2>2, GotoReq DEF IInv
  <2>6. /\ row' \in [Key -> Row \cup {None}] /\ row'[k] = new
        /\ \A x \in Key : x # k => row'[x] = row[x] /\ Steady(x)
    BY <1>1, <2>1, <2>3 DEF IInv, TypeOK, Steady
  <2>7. /\ \A q \in Req : req[q].pc # "idle" /\ req[q].k = k => req[q].pc \in {"find", "insert"}
        /\ \A i \in Job : job[i].pc # "free" => job[i].k # k
        /\ \A v \in Variant : <<k, v>> \in objects => v = "orig"
    BY <1>1, <1>3, RowlessKey
  <2>8. TypeOK'
    BY <2>1, <2>5, <2>6 DEF IInv, TypeOK
  <2>9. Fits'
    <3>1. ASSUME NEW q \in Req, req'[q].pc # "idle"
          PROVE  \/ HandlerFits(objects', row'[req'[q].k], crossed', req'[q])
                 \/ req'[q] = req[q] /\ Steady(req[q].k)
      <4>1. CASE q = r
        BY <2>2, <2>3, <2>5, <2>6, <3>1, <4>1 DEF HandlerFits
      <4>2. CASE q # r /\ req[q].k # k
        <5>1. req'[q] = req[q] /\ req[q].k \in Key
          BY <2>5, <3>1, <4>2, HandlerFields DEF IInv, TypeOK
        <5> QED
          BY <2>6, <4>2, <5>1
      <4>3. CASE q # r /\ req[q].k = k
        <5>1. req'[q] = req[q] /\ req[q].pc \in {"find", "insert"}
          BY <2>5, <2>7, <3>1, <4>3
        <5> QED
          BY <2>3, <2>6, <4>3, <5>1 DEF HandlerFits
      <4> QED
        BY <4>1, <4>2, <4>3
    <3>2. \A i \in Job : job[i].pc = "free" \/ Steady(job[i].k)
      BY <2>6, <2>7, JobFields DEF IInv, TypeOK
    <3> QED
      BY <2>1, <3>1, <3>2, FitsKept DEF IInv
  <2>10. Apart'
    BY <1>1, <2>1, <2>2, <2>5, ApartKept DEF IInv
  <2>11. ListedServes'
    <3> SUFFICES ASSUME NEW x \in Key, row'[x] # None, ~row'[x].deleted, x \notin crossed'
                 PROVE  /\ <<x, "orig">> \in objects'
                        /\ row'[x].derived => \A v \in Variant : <<x, v>> \in objects'
      BY DEF ListedServes, Found
    <3>1. CASE x = k
      BY <2>1, <2>3, <2>4, <2>6, <3>1
    <3>2. CASE x # k
      BY <2>1, <2>6, <3>2 DEF IInv, ListedServes, Found
    <3> QED
      BY <3>1, <3>2
  <2>12. Accounted'
    <3> SUFFICES ASSUME NEW x \in Key, NEW v \in Variant, <<x, v>> \in objects'
                 PROVE  \/ v = "orig"
                        \/ row'[x] # None /\ row'[x].derived
                        \/ row'[x] # None /\ x \in crossed' \cup litter'
                        \/ \E j \in Job : job'[j].pc \in {"put", "save"} /\ job'[j].k = x
      BY DEF Accounted
    <3>1. CASE x = k
      BY <2>1, <2>7, <3>1
    <3>2. CASE x # k
      BY <2>1, <2>6, <3>2 DEF IInv, Accounted
    <3> QED
      BY <3>1, <3>2
  <2>13. Purged'
    <3> SUFFICES ASSUME NEW x \in Key, NEW v \in Variant, row'[x] # None, row'[x].deleted,
                        x \notin crossed' \cup litter', <<x, v>> \in objects'
                 PROVE  Told(req', job', x, v)
      BY DEF Purged, Told
    <3>1. x # k /\ row'[x] = row[x]
      BY <2>3, <2>6
    <3>2. Told(req, job, x, v)
      BY <2>1, <3>1 DEF IInv, Purged
    <3> QED
      BY <1>1, <2>1, <2>5, <3>2 DEF Told
  <2>14. /\ \A q \in Req : ~HandlerChases(req[q], k)
         /\ \A i \in Job : ~JobChases(job[i], k)
    BY <2>7, HandlerMade, JobMade DEF HandlerChases, JobChases, Working
  <2>15. \A x \in Key : x # k => \A q \in Req : HandlerChases(req'[q], x) <=> HandlerChases(req[q], x)
    BY <1>1, <2>2, <2>5 DEF HandlerChases
  <2>16. Single'
    <3> SUFFICES ASSUME NEW x \in Key
                 PROVE  /\ \A p, q \in Req : HandlerChases(req'[p], x) /\ HandlerChases(req'[q], x)
                                                => p = q
                        /\ \A i, j \in Job : JobChases(job'[i], x) /\ JobChases(job'[j], x) => i = j
                        /\ \A q \in Req, j \in Job :
                               ~(HandlerChases(req'[q], x) /\ JobChases(job'[j], x))
      BY DEF Single, HandlerChases, JobChases
    <3>1. CASE x = k
      <4>1. \A q \in Req : HandlerChases(req'[q], x) => q = r
        BY <2>5, <2>14, <3>1
      <4> QED
        BY <2>1, <2>14, <3>1, <4>1
    <3>2. CASE x # k
      BY <2>1, <2>15, <3>2 DEF IInv, Single
    <3> QED
      BY <3>1, <3>2
  <2>17. Chased'
    <3> SUFFICES ASSUME NEW x \in Key, Wanting(row'[x], x, lost')
                 PROVE  \/ \E q \in Req : HandlerChases(req'[q], x)
                        \/ \E j \in Job : JobChases(job'[j], x)
      BY DEF Chased, Wanting, HandlerChases, JobChases
    <3>1. CASE x = k
      <4>1. x \in Image
        BY DEF Wanting
      <4> QED
        BY <2>2, <2>5, <3>1, <4>1 DEF HandlerChases
    <3>2. CASE x # k
      <4>1. Wanting(row[x], x, lost)
        BY <2>1, <2>6, <3>2
      <4> QED
        BY <2>1, <2>15, <3>2, <4>1 DEF IInv, Chased
    <3> QED
      BY <3>1, <3>2
  <2> QED
    BY <2>8, <2>9, <2>10, <2>11, <2>12, <2>13, <2>16, <2>17 DEF IInv
<1> QED
  BY <1>2, <1>3

LEMMA ConfirmEnqueueStep ==
    ASSUME IInv, NEW r \in Req, ConfirmEnqueue(r)
    PROVE  IInv'
<1> DEFINE k == req[r].k
           s == [pc |-> "queued", k |-> k, left |-> Attempts]
<1>1. /\ req[r] \in Handler /\ req[r].pc = "enqueue" /\ k \in Key
      /\ HandlerFits(objects, row[k], crossed, req[r])
  BY HandlerFields DEF IInv, TypeOK, Fits, ConfirmEnqueue
<1>2. PICK j \in Job : job[j] = Free /\ Step(j, s)
  BY DEF ConfirmEnqueue
<1>3. Goto(r, Idle) /\ UNCHANGED <<urls, objects, row, crossed, litter, lost, stalled>>
  BY DEF ConfirmEnqueue, history
<1>4. s \in JobState /\ s.pc = "queued" /\ s.k = k /\ s.left > 0
  <2>1. Attempts \in 1..Attempts /\ Attempts > 0
    BY AssetsAssumption
  <2> QED
    BY <1>1, <2>1, JobMade
<1>5. k \in Image /\ row[k] # None
  BY <1>1 DEF HandlerFits
<1>6. HandlerChases(req[r], k) /\ \A x : x # k => ~HandlerChases(req[r], x)
  BY <1>1 DEF HandlerChases
<1> HIDE DEF k, s
<1>7. /\ req' \in [Req -> Handler] /\ req'[r].pc = "idle"
      /\ \A q \in Req \ {r} : req'[q] = req[q]
  BY <1>3, HandlerMade, GotoReq DEF IInv
<1>8. job' \in [Job -> JobState] /\ job'[j] = s /\ \A i \in Job \ {j} : job'[i] = job[i]
  BY <1>2, <1>4, StepJob DEF IInv
<1>9. job[j].pc = "free"
  BY <1>2, JobMade
<1>10. Still
  BY <1>3 DEF IInv, TypeOK, Still
<1>11. TypeOK'
  BY <1>3, <1>7, <1>8 DEF IInv, TypeOK
<1>12. Fits'
  <2>1. JobFits(objects', row'[s.k], crossed', s)
    BY <1>3, <1>4, <1>5 DEF JobFits, Working
  <2> QED
    BY <1>3, <1>7, <1>8, <1>10, <2>1, StillSteady, FitsKept DEF IInv
<1>13. Apart'
  BY <1>3, <1>4, <1>7, <1>8, ApartKept DEF IInv, Working
<1>14. ListedServes'
  BY <1>3, <1>10, StillSteady, ServesKept DEF IInv
<1>15. Accounted'
  BY <1>3, <1>8, <1>9, AccountedKept DEF IInv
<1>16. Purged'
  <2>1. \A x \in Key, v \in Variant : Told(req, job, x, v) => Told(req', job', x, v)
    BY <1>1, <1>7, <1>8, <1>9 DEF Told
  <2> QED
    BY <1>3, <2>1, PurgedKept DEF IInv
<1>17. /\ \A q \in Req, x \in Key : HandlerChases(req'[q], x) <=> HandlerChases(req[q], x) /\ q # r
       /\ \A i \in Job, x \in Key : JobChases(job'[i], x) <=>
              JobChases(job[i], x) \/ (i = j /\ x = k)
  <2>1. \A x : ~HandlerChases(req'[r], x)
    BY <1>7 DEF HandlerChases
  <2>2. \A x : (JobChases(s, x) <=> x = k) /\ ~JobChases(job[j], x)
    BY <1>4, <1>9 DEF JobChases, Working
  <2> QED
    BY <1>7, <1>8, <2>1, <2>2
<1>18. Single'
  <2> SUFFICES ASSUME NEW x \in Key
               PROVE  /\ \A p, q \in Req : HandlerChases(req'[p], x) /\ HandlerChases(req'[q], x)
                                              => p = q
                      /\ \A i, l \in Job : JobChases(job'[i], x) /\ JobChases(job'[l], x) => i = l
                      /\ \A q \in Req, i \in Job :
                             ~(HandlerChases(req'[q], x) /\ JobChases(job'[i], x))
    BY DEF Single, HandlerChases, JobChases
  <2> QED
    BY <1>6, <1>17 DEF IInv, Single
<1>19. Chased'
  <2> SUFFICES ASSUME NEW x \in Key, Wanting(row'[x], x, lost')
               PROVE  \/ \E q \in Req : HandlerChases(req'[q], x)
                      \/ \E i \in Job : JobChases(job'[i], x)
    BY DEF Chased, Wanting, HandlerChases, JobChases
  <2>1. \/ \E q \in Req : HandlerChases(req[q], x)
        \/ \E i \in Job : JobChases(job[i], x)
    BY <1>3 DEF IInv, Chased
  <2> QED
    BY <1>6, <1>17, <2>1
<1> QED
  BY <1>11, <1>12, <1>13, <1>14, <1>15, <1>16, <1>18, <1>19 DEF IInv

-----------------------------------------------------------------------------
(***************************************************************************)
(* delete                                                                  *)
(***************************************************************************)

LEMMA DeleteSaveStep ==
    ASSUME IInv, NEW r \in Req, DeleteSave(r)
    PROVE  IInv'
<1> DEFINE k == req[r].k
           d == req[r].derived
           new == [deleted |-> TRUE, derived |-> d]
           h == [req[r] EXCEPT !.pc = "enqueuePurge"]
<1>1. /\ req[r] \in Handler /\ req[r].pc = "softDelete" /\ k \in Key /\ d \in BOOLEAN
      /\ HandlerFits(objects, row[k], crossed, req[r])
  BY HandlerFields DEF IInv, TypeOK, Fits, DeleteSave
<1>2. /\ row' = [row EXCEPT ![k] = new] /\ Goto(r, h)
      /\ UNCHANGED <<urls, objects, job, crossed, litter, lost, stalled>>
  BY DEF DeleteSave, history
<1>3. h \in Handler /\ h.pc = "enqueuePurge" /\ h.k = k /\ h.derived = d
  BY <1>1 DEF Handler
<1>4. new \in Row /\ new # None /\ new.deleted /\ new.derived = d
  BY <1>1, RowMade
<1>5. row[k] # None /\ (k \notin crossed => d = row[k].derived)
  BY <1>1 DEF HandlerFits
<1> HIDE DEF k, d, new, h
<1>6. req' \in [Req -> Handler] /\ req'[r] = h /\ \A q \in Req \ {r} : req'[q] = req[q]
  BY <1>2, <1>3, GotoReq DEF IInv
<1>7. /\ row' \in [Key -> Row \cup {None}] /\ row'[k] = new
      /\ \A x \in Key : x # k => row'[x] = row[x] /\ Steady(x)
  BY <1>1, <1>2, <1>4 DEF IInv, TypeOK, Steady
<1>8. TypeOK'
  BY <1>2, <1>6, <1>7 DEF IInv, TypeOK
<1>9. \A j \in Job : job[j].pc \in Working /\ job[j].k = k => k \in crossed
  BY <1>1 DEF IInv, Apart, k
<1>10. Fits'
  <2>1. ASSUME NEW q \in Req, req'[q].pc # "idle"
        PROVE  \/ HandlerFits(objects', row'[req'[q].k], crossed', req'[q])
               \/ req'[q] = req[q] /\ Steady(req[q].k)
    <3>1. CASE q = r
      BY <1>2, <1>3, <1>4, <1>6, <1>7, <3>1 DEF HandlerFits
    <3>2. CASE q # r /\ req[q].k # k
      <4>1. req'[q] = req[q] /\ req[q].k \in Key
        BY <1>6, <2>1, <3>2, HandlerFields DEF IInv, TypeOK
      <4> QED
        BY <1>7, <3>2, <4>1
    <3>3. CASE q # r /\ req[q].k = k
      <4>1. req'[q] = req[q] /\ HandlerFits(objects, row[k], crossed, req[q])
        BY <1>6, <2>1, <3>3 DEF IInv, Fits
      <4> QED
        BY <1>2, <1>4, <1>5, <1>7, <3>3, <4>1 DEF HandlerFits
    <3> QED
      BY <3>1, <3>2, <3>3
  <2>2. ASSUME NEW i \in Job, job[i].pc # "free"
        PROVE  JobFits(objects', row'[job[i].k], crossed', job[i]) \/ Steady(job[i].k)
    <3>1. CASE job[i].k = k
      <4>1. JobFits(objects, row[k], crossed, job[i])
        BY <2>2, <3>1 DEF IInv, Fits
      <4> QED
        BY <1>2, <1>4, <1>7, <1>9, <3>1, <4>1 DEF JobFits, Working
    <3>2. CASE job[i].k # k
      BY <1>7, <2>2, <3>2, JobFields DEF IInv, TypeOK
    <3> QED
      BY <3>1, <3>2
  <2> QED
    BY <1>2, <2>1, <2>2, FitsKept DEF IInv
<1>11. Apart'
  BY <1>2, <1>3, <1>6, ApartKept DEF IInv
<1>12. ListedServes'
  BY <1>2, <1>4, <1>7, ServesKept DEF IInv
<1>13. Accounted'
  <2> SUFFICES ASSUME NEW x \in Key, NEW v \in Variant, <<x, v>> \in objects'
               PROVE  \/ v = "orig"
                      \/ row'[x] # None /\ row'[x].derived
                      \/ row'[x] # None /\ x \in crossed' \cup litter'
                      \/ \E j \in Job : job'[j].pc \in {"put", "save"} /\ job'[j].k = x
    BY DEF Accounted
  <2>1. \/ v = "orig"
        \/ row[x] # None /\ row[x].derived
        \/ row[x] # None /\ x \in crossed \cup litter
        \/ \E j \in Job : job[j].pc \in {"put", "save"} /\ job[j].k = x
    BY <1>2 DEF IInv, Accounted
  <2>2. CASE x = k
    BY <1>2, <1>4, <1>5, <1>7, <2>1, <2>2
  <2>3. CASE x # k
    BY <1>2, <1>7, <2>1, <2>3
  <2> QED
    BY <2>2, <2>3
<1>14. Purged'
  <2> SUFFICES ASSUME NEW x \in Key, NEW v \in Variant, row'[x] # None, row'[x].deleted,
                      x \notin crossed' \cup litter', <<x, v>> \in objects'
               PROVE  Told(req', job', x, v)
    BY DEF Purged, Told
  <2>1. CASE x = k
    BY <1>3, <1>6, <2>1 DEF Told
  <2>2. CASE x # k
    <3>1. Told(req, job, x, v)
      BY <1>2, <1>7, <2>2 DEF IInv, Purged
    <3> QED
      BY <1>1, <1>2, <1>6, <3>1 DEF Told
  <2> QED
    BY <2>1, <2>2
<1>15. \A q \in Req, x \in Key : HandlerChases(req'[q], x) <=> HandlerChases(req[q], x)
  BY <1>1, <1>3, <1>6 DEF HandlerChases
<1>16. Single'
  BY <1>2, <1>15, SingleKept DEF IInv
<1>17. Chased'
  <2>1. \A x \in Key : Wanting(row'[x], x, lost') => Wanting(row[x], x, lost)
    BY <1>2, <1>4, <1>7 DEF Wanting
  <2> QED
    BY <1>2, <1>15, <2>1, ChasedKept DEF IInv
<1> QED
  BY <1>8, <1>10, <1>11, <1>12, <1>13, <1>14, <1>16, <1>17 DEF IInv

LEMMA DeleteEnqueueStep ==
    ASSUME IInv, NEW r \in Req, DeleteEnqueue(r)
    PROVE  IInv'
<1> DEFINE k == req[r].k
           d == req[r].derived
           s == [pc |-> "purge", k |-> k, todo |-> Names(d)]
<1>1. /\ req[r] \in Handler /\ req[r].pc = "enqueuePurge" /\ k \in Key /\ d \in BOOLEAN
      /\ HandlerFits(objects, row[k], crossed, req[r])
  BY HandlerFields DEF IInv, TypeOK, Fits, DeleteEnqueue
<1>2. PICK j \in Job : job[j] = Free /\ Step(j, s)
  BY DEF DeleteEnqueue
<1>3. Goto(r, Idle) /\ UNCHANGED <<urls, objects, row, crossed, litter, lost, stalled>>
  BY DEF DeleteEnqueue, history
<1>4. s \in JobState /\ s.pc = "purge" /\ s.k = k /\ s.todo = Names(d)
  BY <1>1, JobMade, PurgeNames
<1>5. row[k] # None /\ (k \notin crossed => row[k].deleted /\ d = row[k].derived)
  BY <1>1 DEF HandlerFits
<1> HIDE DEF k, d, s
<1>6. /\ req' \in [Req -> Handler] /\ req'[r].pc = "idle"
      /\ \A q \in Req \ {r} : req'[q] = req[q]
  BY <1>3, HandlerMade, GotoReq DEF IInv
<1>7. job' \in [Job -> JobState] /\ job'[j] = s /\ \A i \in Job \ {j} : job'[i] = job[i]
  BY <1>2, <1>4, StepJob DEF IInv
<1>8. job[j].pc = "free"
  BY <1>2, JobMade
<1>9. Still
  BY <1>3 DEF IInv, TypeOK, Still
<1>10. TypeOK'
  BY <1>3, <1>6, <1>7 DEF IInv, TypeOK
<1>11. Fits'
  <2>1. JobFits(objects', row'[s.k], crossed', s)
    BY <1>3, <1>4, <1>5 DEF JobFits, Working
  <2> QED
    BY <1>3, <1>6, <1>7, <1>9, <2>1, StillSteady, FitsKept DEF IInv
<1>12. Apart'
  BY <1>3, <1>4, <1>6, <1>7, ApartKept DEF IInv, Working
<1>13. ListedServes'
  BY <1>3, <1>9, StillSteady, ServesKept DEF IInv
<1>14. Accounted'
  BY <1>3, <1>7, <1>8, AccountedKept DEF IInv
<1>15. Purged'
  <2>1. ASSUME NEW x \in Key, NEW v \in Variant, x \notin crossed \cup litter,
               <<x, v>> \in objects, Told(req, job, x, v)
        PROVE  Told(req', job', x, v)
    <3>1. CASE x # k
      BY <1>6, <1>7, <1>8, <2>1, <3>1 DEF Told, k
    <3>2. CASE x = k
      <4>1. \A i \in Job : job[i].pc \in {"put", "save"} => job[i].k # k
        <5> SUFFICES ASSUME NEW i \in Job, job[i].pc \in {"put", "save"}, job[i].k = k
                     PROVE  FALSE
          OBVIOUS
        <5>1. JobFits(objects, row[k], crossed, job[i])
          BY DEF IInv, Fits
        <5> QED
          BY <1>5, <2>1, <3>2, <5>1 DEF JobFits, Working
      <4>2. v = "orig" \/ row[k].derived
        BY <2>1, <3>2, <4>1 DEF IInv, Accounted
      <4>3. InTodo(v, s.todo)
        BY <1>1, <1>4, <1>5, <2>1, <3>2, <4>2, PurgeNames
      <4> QED
        BY <1>4, <1>7, <3>2, <4>3 DEF Told
    <3> QED
      BY <3>1, <3>2
  <2> QED
    BY <1>3, <2>1, PurgedKept DEF IInv
<1>16. /\ \A q \in Req, x \in Key : HandlerChases(req'[q], x) <=> HandlerChases(req[q], x)
       /\ \A i \in Job, x \in Key : JobChases(job'[i], x) <=> JobChases(job[i], x)
  BY <1>1, <1>4, <1>6, <1>7, <1>8 DEF HandlerChases, JobChases, Working
<1>17. Single'
  BY <1>16, SingleKept DEF IInv
<1>18. Chased'
  BY <1>3, <1>16, ChasedKept DEF IInv
<1> QED
  BY <1>10, <1>11, <1>12, <1>13, <1>14, <1>15, <1>17, <1>18 DEF IInv

-----------------------------------------------------------------------------
(***************************************************************************)
(* The worker of assets-process                                            *)
(***************************************************************************)

\* What a job is when it is not free.
LEMMA JobAtWork ==
    ASSUME IInv, NEW j \in Job, job[j].pc # "free"
    PROVE  /\ job[j] \in JobState /\ job[j].k \in Key
           /\ JobFits(objects, row[job[j].k], crossed, job[j])
           /\ job[j].pc \in {"queued"} \cup Working => job[j].left \in 0..Attempts
           /\ job[j].pc = "queued" => job[j].left \in 1..Attempts
BY JobFields DEF IInv, TypeOK, Fits

LEMMA ProcessLoadStep ==
    ASSUME IInv, NEW j \in Job, ProcessLoad(j)
    PROVE  IInv'
<1> DEFINE k == job[j].k
           s == [pc |-> "download", k |-> k, left |-> job[j].left]
<1>1. /\ job[j].pc = "queued" /\ k \in Key /\ job[j].left \in 0..Attempts
      /\ JobFits(objects, row[k], crossed, job[j])
  BY JobAtWork DEF ProcessLoad, Working
<1>2. Still /\ UNCHANGED req
  BY <1>1 DEF IInv, TypeOK, ProcessLoad, Still
<1>3. CASE ~Found(k)
  <2>1. Step(j, Free)
    BY <1>3 DEF ProcessLoad
  <2>2. \A x \in Key : JobChases(job[j], x) => ~Wanting(row[x], x, lost')
    BY <1>3 DEF JobChases, Wanting, Found
  <2>3. \A x : ~JobChases(Free, x)
    BY JobMade DEF JobChases, Working
  <2> QED
    BY <1>1, <1>2, <2>1, <2>2, <2>3, JobMade, StillJob DEF Working
<1>4. CASE Found(k)
  <2>1. Step(j, s) /\ (Deleting(k) => k \in crossed')
    BY <1>4 DEF ProcessLoad, Become
  <2>2. s \in JobState /\ s.pc = "download" /\ s.k = k /\ s.left = job[j].left
    BY <1>1, JobMade
  <2>3. \A x : JobChases(s, x) <=> JobChases(job[j], x)
    BY <1>1, <2>2 DEF JobChases, Working
  <2> HIDE DEF s
  <2>4. JobFits(objects, row[s.k], crossed', s)
    BY <1>1, <1>4, <2>2 DEF JobFits, Working, Found
  <2>5. \A r \in Req : req[r].pc = "softDelete" /\ req[r].k = s.k => s.k \in crossed'
    BY <2>1, <2>2 DEF Deleting
  <2> QED
    BY <1>1, <1>2, <2>1, <2>2, <2>3, <2>4, <2>5, StillJob
<1> QED
  BY <1>3, <1>4

LEMMA DownloadStep ==
    ASSUME IInv, NEW j \in Job, Download(j)
    PROVE  IInv'
<1> DEFINE k == job[j].k
           s == [pc |-> "put", k |-> k, left |-> job[j].left, todo |-> Derivatives]
<1>1. /\ job[j].pc = "download" /\ k \in Key /\ job[j].left \in 0..Attempts
      /\ JobFits(objects, row[k], crossed, job[j])
  BY JobAtWork DEF Download, Working
<1>2. Still /\ UNCHANGED req /\ UNCHANGED crossed /\ Step(j, s)
  BY DEF IInv, TypeOK, Download, history, Still
<1>3. s \in JobState /\ s.pc = "put" /\ s.k = k /\ s.todo = Derivatives /\ s.left = job[j].left
  BY <1>1, JobMade
<1> HIDE DEF s
<1>4. \A x : JobChases(s, x) <=> JobChases(job[j], x)
  BY <1>1, <1>3 DEF JobChases, Working
<1>5. JobFits(objects, row[s.k], crossed', s)
  BY <1>1, <1>2, <1>3, PutLists DEF JobFits, Working
<1> QED
  BY <1>1, <1>2, <1>3, <1>4, <1>5, StillJob DEF Working

LEMMA PutDerivativeStep ==
    ASSUME IInv, NEW j \in Job, PutDerivative(j)
    PROVE  IInv'
<1> DEFINE k == job[j].k
           new == <<k, Head(job[j].todo)>>
           s == IF Len(job[j].todo) = 1 THEN [pc |-> "save", k |-> k, left |-> job[j].left]
                ELSE [job[j] EXCEPT !.todo = Tail(@)]
<1>1. /\ job[j] \in JobState /\ job[j].pc = "put" /\ k \in Key /\ job[j].left \in 0..Attempts
      /\ JobFits(objects, row[k], crossed, job[j])
      /\ job[j].todo = Derivatives \/ job[j].todo = <<"800">>
  BY JobAtWork, JobFields DEF PutDerivative, Working
<1>2. /\ objects' = objects \cup {new} /\ Step(j, s)
      /\ UNCHANGED <<urls, row, req, crossed, litter, lost, stalled>>
  BY DEF PutDerivative, history, Become
<1>3. /\ s \in JobState /\ s.k = k /\ s.left = job[j].left
      /\ job[j].todo = Derivatives =>
             s.pc = "put" /\ s.todo = <<"800">> /\ new = <<k, "1600">>
      /\ job[j].todo = <<"800">> => s.pc = "save" /\ new = <<k, "800">>
  <2>1. CASE job[j].todo = Derivatives
    <3>1. s = [job[j] EXCEPT !.todo = Tail(@)]
      BY <2>1, PutLists
    <3>2. s = [pc |-> "put", k |-> k, left |-> job[j].left, todo |-> Tail(job[j].todo)]
      BY <1>1, <3>1 DEF JobState
    <3>3. job[j].todo # <<"800">>
      BY <2>1, PutLists
    <3>4. new = <<k, "1600">> /\ Tail(job[j].todo) = <<"800">>
      BY <2>1, PutLists
    <3> QED
      BY <1>1, <3>2, <3>3, <3>4, JobMade
  <2>2. CASE job[j].todo = <<"800">>
    <3>1. s = [pc |-> "save", k |-> k, left |-> job[j].left] /\ new = <<k, "800">>
      BY <2>2, PutLists
    <3>2. job[j].todo # Derivatives
      BY <2>2, PutLists
    <3> QED
      BY <1>1, <3>1, <3>2, JobMade
  <2> QED
    BY <1>1, <2>1, <2>2
<1>4. new \in Key \X Variant /\ \A x, v : <<x, v>> = new => x = k
  BY <1>1, <1>3 DEF Variant
<1>5. s.pc \in {"put", "save"}
  BY <1>1, <1>3
<1> HIDE DEF k, new, s
<1>6. job' \in [Job -> JobState] /\ job'[j] = s /\ \A i \in Job \ {j} : job'[i] = job[i]
  BY <1>2, <1>3, StepJob DEF IInv
<1>7. \A x : Steady(x)
  BY <1>2 DEF Steady
<1>8. TypeOK'
  BY <1>2, <1>4, <1>6 DEF IInv, TypeOK
<1>9. Fits'
  <2>1. row[k] # None /\ k \in Image /\ (k \notin crossed => ~row[k].deleted)
    BY <1>1 DEF JobFits, Working, k
  <2>2. k \notin crossed => <<k, "1600">> \in objects'
    <3>1. job[j].todo = <<"800">> /\ k \notin crossed => <<k, "1600">> \in objects
      BY <1>1, PutLists DEF JobFits, k
    <3> QED
      BY <1>1, <1>2, <1>3, <3>1
  <2>3. s.pc = "save" => <<k, "800">> \in objects'
    BY <1>1, <1>2, <1>3
  <2>4. JobFits(objects', row'[s.k], crossed', s)
    BY <1>2, <1>3, <1>5, <2>1, <2>2, <2>3 DEF JobFits, Working
  <2> QED
    BY <1>2, <1>6, <1>7, <2>4, FitsKept DEF IInv
<1>10. Apart'
  BY <1>1, <1>2, <1>3, <1>6, ApartKept DEF IInv, Working, k
<1>11. ListedServes'
  BY <1>2, <1>7, ServesKept DEF IInv
<1>12. Accounted'
  BY <1>1, <1>2, <1>3, <1>4, <1>5, <1>6, AccountedKept DEF IInv, k
<1>13. Purged'
  <2>1. ASSUME NEW x \in Key, NEW v \in Variant, row[x].deleted,
               x \notin crossed, <<x, v>> \in objects'
        PROVE  <<x, v>> \in objects
    <3>1. x # k
      BY <1>1, <2>1 DEF JobFits, Working, k
    <3> QED
      BY <1>2, <1>4, <2>1, <3>1
  <2>2. \A x \in Key, v \in Variant : Told(req, job, x, v) => Told(req', job', x, v)
    BY <1>1, <1>2, <1>6 DEF Told
  <2> QED
    BY <1>2, <2>1, <2>2, PurgedKept DEF IInv
<1>14. \A i \in Job, x \in Key : JobChases(job'[i], x) <=> JobChases(job[i], x)
  BY <1>1, <1>3, <1>5, <1>6 DEF JobChases, Working, k
<1>15. Single'
  BY <1>2, <1>14, SingleKept DEF IInv
<1>16. Chased'
  BY <1>2, <1>14, ChasedKept DEF IInv
<1> QED
  BY <1>8, <1>9, <1>10, <1>11, <1>12, <1>13, <1>15, <1>16 DEF IInv

LEMMA ProcessSaveStep ==
    ASSUME IInv, NEW j \in Job, ProcessSave(j)
    PROVE  IInv'
<1> DEFINE k == job[j].k
           new == [deleted |-> FALSE, derived |-> TRUE]
<1>1. /\ job[j].pc = "save" /\ k \in Key /\ JobFits(objects, row[k], crossed, job[j])
  BY JobAtWork DEF ProcessSave, Working
<1>2. /\ row' = [row EXCEPT ![k] = new] /\ Step(j, Free)
      /\ UNCHANGED <<urls, objects, req, crossed, litter, lost, stalled>>
  BY DEF ProcessSave, history
<1>3. new \in Row /\ new # None /\ ~new.deleted /\ new.derived
  BY RowMade
<1>4. /\ row[k] # None
      /\ k \notin crossed => /\ ~row[k].deleted
                             /\ <<k, "1600">> \in objects /\ <<k, "800">> \in objects
  BY <1>1 DEF JobFits, Working
<1>5. \A q \in Req : req[q].pc = "softDelete" /\ req[q].k = k => k \in crossed
  BY <1>1 DEF IInv, Apart, Working
<1> HIDE DEF k, new
<1>6. /\ job' \in [Job -> JobState] /\ job'[j].pc = "free"
      /\ \A i \in Job \ {j} : job'[i] = job[i]
  BY <1>2, JobMade, StepJob DEF IInv
<1>7. /\ row' \in [Key -> Row \cup {None}] /\ row'[k] = new
      /\ \A x \in Key : x # k => row'[x] = row[x] /\ Steady(x)
  BY <1>1, <1>2, <1>3 DEF IInv, TypeOK, Steady
<1>8. TypeOK'
  BY <1>2, <1>6, <1>7 DEF IInv, TypeOK
<1>9. Fits'
  <2>1. ASSUME NEW q \in Req, req[q].pc # "idle"
        PROVE  HandlerFits(objects', row'[req[q].k], crossed', req[q]) \/ Steady(req[q].k)
    <3>1. CASE req[q].k = k
      <4>1. HandlerFits(objects, row[k], crossed, req[q])
        BY <2>1, <3>1 DEF IInv, Fits
      <4> QED
        BY <1>2, <1>3, <1>4, <1>5, <1>7, <3>1, <4>1 DEF HandlerFits
    <3>2. CASE req[q].k # k
      BY <1>7, <2>1, <3>2, HandlerFields DEF IInv, TypeOK
    <3> QED
      BY <3>1, <3>2
  <2>2. ASSUME NEW i \in Job, job'[i].pc # "free"
        PROVE  \/ JobFits(objects', row'[job'[i].k], crossed', job'[i])
               \/ job'[i] = job[i] /\ Steady(job[i].k)
    <3>1. job'[i] = job[i] /\ job[i].pc # "free"
      BY <1>6, <2>2
    <3>2. CASE job[i].k = k
      <4>1. JobFits(objects, row[k], crossed, job[i])
        BY <3>1, <3>2 DEF IInv, Fits
      <4> QED
        BY <1>2, <1>3, <1>4, <1>7, <3>1, <3>2, <4>1 DEF JobFits
    <3>3. CASE job[i].k # k
      BY <1>7, <3>1, <3>3, JobFields DEF IInv, TypeOK
    <3> QED
      BY <3>2, <3>3
  <2> QED
    BY <1>2, <2>1, <2>2, FitsKept DEF IInv
<1>10. Apart'
  BY <1>2, <1>6, ApartKept DEF IInv, Working
<1>11. ListedServes'
  <2> SUFFICES ASSUME NEW x \in Key, row'[x] # None, ~row'[x].deleted, x \notin crossed'
               PROVE  /\ <<x, "orig">> \in objects'
                      /\ row'[x].derived => \A v \in Variant : <<x, v>> \in objects'
    BY DEF ListedServes, Found
  <2>1. CASE x = k
    <3>1. <<k, "orig">> \in objects
      BY <1>1, <1>2, <1>4, <2>1 DEF IInv, ListedServes, Found
    <3> QED
      BY <1>2, <1>4, <2>1, <3>1 DEF Variant
  <2>2. CASE x # k
    BY <1>2, <1>7, <2>2 DEF IInv, ListedServes, Found
  <2> QED
    BY <2>1, <2>2
<1>12. Accounted'
  <2> SUFFICES ASSUME NEW x \in Key, NEW v \in Variant, <<x, v>> \in objects', x # k
               PROVE  \/ v = "orig"
                      \/ row'[x] # None /\ row'[x].derived
                      \/ row'[x] # None /\ x \in crossed' \cup litter'
                      \/ \E i \in Job : job'[i].pc \in {"put", "save"} /\ job'[i].k = x
    BY <1>3, <1>7 DEF Accounted
  <2>1. \/ v = "orig"
        \/ row[x] # None /\ row[x].derived
        \/ row[x] # None /\ x \in crossed \cup litter
        \/ \E i \in Job : job[i].pc \in {"put", "save"} /\ job[i].k = x
    BY <1>2 DEF IInv, Accounted
  <2> QED
    BY <1>2, <1>6, <1>7, <2>1 DEF k
<1>13. Purged'
  <2> SUFFICES ASSUME NEW x \in Key, NEW v \in Variant, row'[x] # None, row'[x].deleted,
                      x \notin crossed' \cup litter', <<x, v>> \in objects'
               PROVE  Told(req', job', x, v)
    BY DEF Purged, Told
  <2>1. x # k
    BY <1>3, <1>7
  <2>2. Told(req, job, x, v)
    BY <1>2, <1>7, <2>1 DEF IInv, Purged
  <2> QED
    BY <1>1, <1>2, <1>6, <2>2 DEF Told
<1>14. \A i \in Job, x \in Key : JobChases(job'[i], x) <=> JobChases(job[i], x) /\ i # j
  BY <1>6 DEF JobChases, Working
<1>15. Single'
  BY <1>2, <1>14, SingleKept DEF IInv
<1>16. Chased'
  <2>1. \A x \in Key : Wanting(row'[x], x, lost') => x # k /\ Wanting(row[x], x, lost)
    BY <1>2, <1>3, <1>7 DEF Wanting
  <2>2. \A x : JobChases(job[j], x) => x = k
    BY DEF JobChases, k
  <2> QED
    BY <1>2, <1>14, <2>1, <2>2, ChasedKept DEF IInv
<1> QED
  BY <1>8, <1>9, <1>10, <1>11, <1>12, <1>13, <1>15, <1>16 DEF IInv

LEMMA ProcessThrowStep ==
    ASSUME IInv, NEW j \in Job, ProcessThrow(j)
    PROVE  IInv'
<1> DEFINE k == job[j].k
           s == [pc |-> "queued", k |-> k, left |-> job[j].left - 1]
<1>1. /\ job[j].pc \in Working /\ k \in Key /\ job[j].left \in 0..Attempts
      /\ JobFits(objects, row[k], crossed, job[j])
  BY JobAtWork DEF ProcessThrow, Working
<1>2. Still /\ UNCHANGED req /\ UNCHANGED crossed
  BY <1>1 DEF IInv, TypeOK, ProcessThrow, Still
<1>3. job[j].pc \in {"put", "save"} => k \in litter'
  BY DEF ProcessThrow
<1>4. CASE job[j].left > 1
  <2>1. Step(j, s)
    BY <1>4 DEF ProcessThrow
  <2>2. job[j].left - 1 \in 1..Attempts /\ job[j].left > 0
    BY <1>1, <1>4, AssetsAssumption
  <2>3. s \in JobState /\ s.pc = "queued" /\ s.k = k /\ s.left > 0
    BY <1>1, <2>2, JobMade
  <2> HIDE DEF s
  <2>4. \A x : JobChases(s, x) <=> JobChases(job[j], x)
    BY <1>1, <2>2, <2>3 DEF JobChases
  <2>5. JobFits(objects, row[s.k], crossed', s)
    BY <1>1, <1>2, <2>3 DEF JobFits, Working
  <2> QED
    BY <1>1, <1>2, <1>3, <2>1, <2>3, <2>4, <2>5, StillJob DEF Working
<1>5. CASE ~(job[j].left > 1)
  <2>1. Step(j, Free) /\ (job[j].left > 0 => k \in lost')
    BY <1>1, <1>5, AssetsAssumption DEF ProcessThrow
  <2>2. /\ \A x : ~JobChases(Free, x)
        /\ \A x : JobChases(job[j], x) => ~Wanting(row[x], x, lost')
    BY <2>1, JobMade DEF JobChases, Wanting, Working
  <2> QED
    BY <1>1, <1>2, <1>3, <2>1, <2>2, JobMade, StillJob DEF Working
<1> QED
  BY <1>4, <1>5

\* A run the queue leaves is as fit as it was and chases nothing.
LEMMA LeftBehind ==
    ASSUME IInv, NEW j \in Job, job[j].pc \in Working
    PROVE  LET run == [job[j] EXCEPT !.left = 0]
           IN  /\ run \in JobState /\ run.pc = job[j].pc /\ run.k = job[j].k /\ run.pc \in Working
               /\ \A x : ~JobChases(run, x)
               /\ \A o, w, cr : JobFits(o, w, cr, job[j]) => JobFits(o, w, cr, run)
<1> DEFINE run == [job[j] EXCEPT !.left = 0]
           k == job[j].k
           pc == job[j].pc
           todo == job[j].todo
<1>1. job[j] \in JobState /\ k \in Key /\ 0 \in 0..Attempts
  BY JobAtWork, AssetsAssumption DEF Working
<1>2. pc \in Working
  OBVIOUS
<1>3. run \in JobState /\ run.pc = pc /\ run.k = k /\ run.left = 0 /\ (pc = "put" => run.todo = todo)
  <2>1. CASE pc = "put"
    <3>1. run = [pc |-> "put", k |-> k, left |-> 0, todo |-> todo]
      BY <1>1, <2>1 DEF JobState
    <3>2. todo \in {Derivatives, <<"800">>}
      BY <1>1, <2>1, JobFields
    <3> HIDE DEF run, k, pc, todo
    <3>3. [pc |-> "put", k |-> k, left |-> 0, todo |-> todo] \in JobState
      BY <1>1, <3>2, JobMade
    <3> QED
      BY <2>1, <3>1, <3>3
  <2>2. CASE pc # "put"
    <3>1. run = [pc |-> pc, k |-> k, left |-> 0]
      BY <1>1, <1>2, <2>2 DEF JobState, Working
    <3> HIDE DEF run, k, pc, todo
    <3>2. [pc |-> pc, k |-> k, left |-> 0] \in JobState
      BY <1>1, <1>2, <2>2, JobMade DEF Working
    <3> QED
      BY <2>2, <3>1, <3>2
  <2> QED
    BY <2>1, <2>2
<1> HIDE DEF run
<1>4. \A x : ~JobChases(run, x)
  BY <1>3 DEF JobChases
<1>5. \A o, w, cr : JobFits(o, w, cr, job[j]) => JobFits(o, w, cr, run)
  BY <1>2, <1>3 DEF JobFits, Working
<1> QED
  BY <1>2, <1>3, <1>4, <1>5 DEF run

\* A second stall.
LEMMA GivenUpStep ==
    ASSUME IInv, NEW j \in Job, Stall(j), job[j].k \in stalled
    PROVE  IInv'
<1> DEFINE k == job[j].k
           run == [job[j] EXCEPT !.left = 0]
<1>1. job[j].pc \in Working /\ k \in Key /\ JobFits(objects, row[k], crossed, job[j])
  BY JobAtWork DEF Stall, Working
<1>2. /\ Step(j, run) /\ lost' = lost \cup {k}
      /\ UNCHANGED <<urls, objects, row, req, stalled, crossed, litter>>
  BY DEF Stall
<1>3. Still
  BY <1>1, <1>2 DEF IInv, TypeOK, Still
<1>4. /\ run \in JobState /\ run.pc = job[j].pc /\ run.k = k
      /\ \A x : ~JobChases(run, x)
      /\ JobFits(objects, row[k], crossed, run)
  BY <1>1, LeftBehind
<1> HIDE DEF run
<1>5. \A x \in Key : JobChases(job[j], x) => ~Wanting(row[x], x, lost')
  BY <1>2 DEF JobChases, Wanting
<1> QED
  BY <1>1, <1>2, <1>3, <1>4, <1>5, StillJob DEF Working

\* A first stall.
LEMMA StallStep ==
    ASSUME IInv, NEW j \in Job, Stall(j)
    PROVE  IInv'
<1> DEFINE k == job[j].k
           run == [job[j] EXCEPT !.left = 0]
           s == [pc |-> "queued", k |-> k, left |-> job[j].left]
<1> SUFFICES ASSUME k \notin stalled
             PROVE  IInv'
  BY GivenUpStep
<1>1. /\ job[j].pc \in Working /\ k \in Key /\ JobFits(objects, row[k], crossed, job[j])
      /\ job[j].left \in 1..Attempts /\ job[j].left > 0
  BY JobAtWork, AssetsAssumption DEF Stall, Working
<1>2. PICK i \in Job : job[i] = Free /\ job' = [job EXCEPT ![j] = run, ![i] = s]
  BY DEF Stall
<1>3. UNCHANGED <<urls, objects, row, req, crossed, litter, lost>> /\ stalled' = stalled \cup {k}
  BY DEF Stall
<1>4. /\ run \in JobState /\ run.pc = job[j].pc /\ run.k = k
      /\ \A x : ~JobChases(run, x)
      /\ JobFits(objects, row[k], crossed, run)
  BY <1>1, LeftBehind
<1>5. s \in JobState /\ s.pc = "queued" /\ s.k = k /\ s.left > 0
  BY <1>1, JobMade
<1>6. job[i].pc = "free" /\ i # j
  BY <1>1, <1>2, JobMade DEF Working
<1>7. \A x : (JobChases(s, x) <=> x = k) /\ (JobChases(job[j], x) <=> x = k) /\ ~JobChases(job[i], x)
  BY <1>1, <1>5, <1>6 DEF JobChases, Working
<1> HIDE DEF k, run, s
<1>8. /\ job' \in [Job -> JobState] /\ job'[j] = run /\ job'[i] = s
      /\ \A l \in Job \ {i, j} : job'[l] = job[l]
  BY <1>2, <1>4, <1>5, <1>6 DEF IInv, TypeOK
<1>9. Still
  BY <1>1, <1>3 DEF IInv, TypeOK, Still
<1>10. TypeOK'
  BY <1>3, <1>8, <1>9 DEF IInv, TypeOK, Still
<1>11. Fits'
  <2>1. JobFits(objects', row'[s.k], crossed', s)
    BY <1>1, <1>3, <1>5 DEF JobFits, Working, k
  <2>2. JobFits(objects', row'[run.k], crossed', run)
    BY <1>3, <1>4
  <2> QED
    BY <1>3, <1>8, <1>9, <2>1, <2>2, StillSteady, FitsKept DEF IInv
<1>12. Apart'
  <2> SUFFICES ASSUME NEW q \in Req, NEW l \in Job, req[q].pc = "softDelete",
                      job'[l].pc \in Working, req[q].k = job'[l].k
               PROVE  req[q].k \in crossed
    BY <1>3 DEF Apart
  <2>1. l # i
    BY <1>5, <1>8 DEF Working
  <2>2. job[l].pc \in Working /\ req[q].k = job[l].k
    BY <1>4, <1>8, <2>1 DEF k
  <2> QED
    BY <2>2 DEF IInv, Apart
<1>13. ListedServes'
  BY <1>3, <1>9, StillSteady, ServesKept DEF IInv
<1>14. Accounted'
  <2>1. \A l \in Job : job[l].pc \in {"put", "save"} =>
            job'[l].pc \in {"put", "save"} /\ job'[l].k = job[l].k
    BY <1>4, <1>6, <1>8 DEF k
  <2> QED
    BY <1>3, <2>1, AccountedKept DEF IInv
<1>15. Purged'
  <2>1. \A x \in Key, v \in Variant : Told(req, job, x, v) => Told(req', job', x, v)
    BY <1>1, <1>3, <1>6, <1>8 DEF Told, Working
  <2> QED
    BY <1>3, <2>1, PurgedKept DEF IInv
<1>16. \A l \in Job, x \in Key : JobChases(job'[l], x) <=>
           IF l = i THEN x = k ELSE JobChases(job[l], x) /\ l # j
  BY <1>4, <1>7, <1>8
<1>17. \A l \in Job : JobChases(job[l], k) => l = j
  BY <1>1, <1>7 DEF IInv, Single
<1>18. Single'
  <2> SUFFICES ASSUME NEW x \in Key
               PROVE  /\ \A p, q \in Req : HandlerChases(req'[p], x) /\ HandlerChases(req'[q], x)
                                              => p = q
                      /\ \A l, m \in Job : JobChases(job'[l], x) /\ JobChases(job'[m], x) => l = m
                      /\ \A q \in Req, l \in Job :
                             ~(HandlerChases(req'[q], x) /\ JobChases(job'[l], x))
    BY DEF Single, HandlerChases, JobChases
  <2>1. \A l \in Job : JobChases(job'[l], x) => JobChases(job[l], x) \/ (l = i /\ x = k)
    BY <1>16
  <2>2. \A q \in Req : HandlerChases(req'[q], x) <=> HandlerChases(req[q], x)
    BY <1>3
  <2> QED
    BY <1>1, <1>7, <1>16, <1>17, <2>1, <2>2 DEF IInv, Single
<1>19. Chased'
  <2> SUFFICES ASSUME NEW x \in Key, Wanting(row'[x], x, lost')
               PROVE  \/ \E q \in Req : HandlerChases(req'[q], x)
                      \/ \E l \in Job : JobChases(job'[l], x)
    BY DEF Chased, Wanting, HandlerChases, JobChases
  <2>1. \/ \E q \in Req : HandlerChases(req[q], x)
        \/ \E l \in Job : JobChases(job[l], x)
    BY <1>3 DEF IInv, Chased
  <2> QED
    BY <1>3, <1>6, <1>7, <1>16, <2>1
<1> QED
  BY <1>10, <1>11, <1>12, <1>13, <1>14, <1>15, <1>18, <1>19 DEF IInv

-----------------------------------------------------------------------------
(***************************************************************************)
(* The worker of r2-purge                                                  *)
(***************************************************************************)

LEMMA PurgeKeyStep ==
    ASSUME IInv, NEW j \in Job, PurgeKey(j)
    PROVE  IInv'
<1> DEFINE k == job[j].k
           l == job[j].todo
           s == [job[j] EXCEPT !.todo = Tail(@)]
<1>1. /\ job[j] \in JobState /\ job[j].pc = "purge" /\ k \in Key /\ l \in NameLists /\ l # <<>>
      /\ JobFits(objects, row[k], crossed, job[j])
  BY JobAtWork, JobFields DEF PurgeKey
<1>2. /\ \/ objects' = objects \ {<<k, Head(l)>>} /\ UNCHANGED litter
         \/ litter' = litter \cup {k} /\ UNCHANGED objects
      /\ Step(j, s)
      /\ UNCHANGED <<urls, row, req, stalled, crossed, lost>>
  BY DEF PurgeKey
<1>3. /\ Head(l) \in Variant /\ Tail(l) \in NameLists
      /\ \A v : InTodo(v, l) => v = Head(l) \/ InTodo(v, Tail(l))
  BY <1>1, PurgeLists
<1>4. s \in JobState /\ s.pc = "purge" /\ s.k = k /\ s.todo = Tail(l)
  <2>1. s = [pc |-> "purge", k |-> k, todo |-> Tail(l)]
    BY <1>1 DEF JobState
  <2> QED
    BY <1>1, <1>3, <2>1, JobMade
<1>5. row[k] # None /\ (k \notin crossed => row[k].deleted)
  BY <1>1 DEF JobFits
<1> HIDE DEF k, l, s
<1>6. job' \in [Job -> JobState] /\ job'[j] = s /\ \A i \in Job \ {j} : job'[i] = job[i]
  BY <1>2, <1>4, StepJob DEF IInv
<1>7. objects' \subseteq objects /\ \A x : x # k => Steady(x)
  BY <1>2 DEF Steady
<1>8. TypeOK'
  BY <1>1, <1>2, <1>6, <1>7 DEF IInv, TypeOK
<1>9. Fits'
  <2>1. ASSUME NEW q \in Req, req[q].pc # "idle"
        PROVE  HandlerFits(objects', row'[req[q].k], crossed', req[q]) \/ Steady(req[q].k)
    <3>1. CASE req[q].k = k
      <4>1. HandlerFits(objects, row[k], crossed, req[q])
        BY <2>1, <3>1 DEF IInv, Fits
      <4> QED
        BY <1>2, <1>5, <3>1, <4>1 DEF HandlerFits
    <3>2. CASE req[q].k # k
      BY <1>7, <3>2
    <3> QED
      BY <3>1, <3>2
  <2>2. ASSUME NEW i \in Job, job'[i].pc # "free"
        PROVE  \/ JobFits(objects', row'[job'[i].k], crossed', job'[i])
               \/ job'[i] = job[i] /\ Steady(job[i].k)
    <3>1. CASE i = j
      BY <1>2, <1>4, <1>5, <1>6, <3>1 DEF JobFits, Working
    <3>2. CASE i # j /\ job[i].k = k
      <4>1. job'[i] = job[i] /\ JobFits(objects, row[k], crossed, job[i])
        BY <1>6, <2>2, <3>2 DEF IInv, Fits
      <4> QED
        BY <1>2, <1>5, <3>2, <4>1 DEF JobFits, Working
    <3>3. CASE i # j /\ job[i].k # k
      BY <1>6, <1>7, <3>3
    <3> QED
      BY <3>1, <3>2, <3>3
  <2> QED
    BY <1>2, <2>1, <2>2, FitsKept DEF IInv
<1>10. Apart'
  BY <1>2, <1>4, <1>6, ApartKept DEF IInv, Working
<1>11. ListedServes'
  BY <1>2, <1>5, <1>7, ServesKept DEF IInv
<1>12. Accounted'
  BY <1>1, <1>2, <1>6, <1>7, AccountedKept DEF IInv
<1>13. Purged'
  <2>1. ASSUME NEW x \in Key, NEW v \in Variant, x \notin litter',
               <<x, v>> \in objects', Told(req, job, x, v)
        PROVE  Told(req', job', x, v)
    <3>1. CASE \E r \in Req : req[r].pc = "enqueuePurge" /\ req[r].k = x
      BY <1>2, <3>1 DEF Told
    <3>2. CASE \E i \in Job : job[i].pc = "purge" /\ job[i].k = x /\ InTodo(v, job[i].todo)
      <4>1. PICK i \in Job : job[i].pc = "purge" /\ job[i].k = x /\ InTodo(v, job[i].todo)
        BY <3>2
      <4>2. CASE i # j
        BY <1>6, <4>1, <4>2 DEF Told
      <4>3. CASE i = j
        <5>1. x = k /\ InTodo(v, l)
          BY <4>1, <4>3 DEF k, l
        <5>2. v # Head(l)
          BY <1>2, <2>1, <5>1
        <5>3. InTodo(v, s.todo)
          BY <1>3, <1>4, <5>1, <5>2
        <5> QED
          BY <1>4, <1>6, <5>1, <5>3 DEF Told
      <4> QED
        BY <4>2, <4>3
    <3> QED
      BY <2>1, <3>1, <3>2 DEF Told
  <2>2. litter \subseteq litter'
    BY <1>2
  <2> QED
    BY <1>2, <1>7, <2>1, <2>2, PurgedKept DEF IInv
<1>14. \A i \in Job, x \in Key : JobChases(job'[i], x) <=> JobChases(job[i], x)
  BY <1>1, <1>4, <1>6 DEF JobChases, Working
<1>15. Single'
  BY <1>2, <1>14, SingleKept DEF IInv
<1>16. Chased'
  BY <1>2, <1>14, ChasedKept DEF IInv
<1> QED
  BY <1>8, <1>9, <1>10, <1>11, <1>12, <1>13, <1>15, <1>16 DEF IInv

LEMMA PurgeEndSteps ==
    ASSUME IInv, NEW j \in Job, PurgeDone(j) \/ PurgeCrash(j)
    PROVE  IInv'
<1>1. job[j].pc = "purge" /\ job[j].k \in Key
  BY JobAtWork DEF PurgeDone, PurgeCrash
<1>2. Still /\ UNCHANGED req /\ Step(j, Free)
  BY <1>1 DEF IInv, TypeOK, PurgeDone, PurgeCrash, history, Still
<1>3. job[j].k \in litter' \/ job[j].todo = <<>>
  BY DEF PurgeDone, PurgeCrash
<1>4. \A x : ~JobChases(Free, x) /\ ~JobChases(job[j], x)
  BY <1>1, JobMade DEF JobChases, Working
<1> QED
  BY <1>1, <1>2, <1>3, <1>4, JobMade, StillJob DEF Working

-----------------------------------------------------------------------------
(***************************************************************************)
(* The specification                                                       *)
(***************************************************************************)

LEMMA InitIInv ==
    ASSUME Init
    PROVE  IInv
<1>1. TypeOK
  BY HandlerMade, JobMade DEF Init, TypeOK
<1>2. /\ \A r \in Req : req[r].pc = "idle"
      /\ \A j \in Job : job[j].pc = "free"
  BY HandlerMade, JobMade DEF Init
<1>3. Fits /\ Apart
  BY <1>2 DEF Fits, Apart
<1>4. ListedServes /\ Accounted /\ Purged
  BY DEF Init, ListedServes, Found, Accounted, Purged
<1>5. Single /\ Chased
  BY <1>2 DEF Init, Single, Chased, HandlerChases, JobChases, Wanting, Working
<1> QED
  BY <1>1, <1>3, <1>4, <1>5 DEF IInv

LEMMA StutterIInv ==
    ASSUME IInv, UNCHANGED assetVars
    PROVE  IInv'
<1>1. Still /\ UNCHANGED <<req, job>> /\ UNCHANGED <<crossed, litter, lost, stalled>>
  BY DEF IInv, TypeOK, assetVars, Still
<1> QED
  BY <1>1, StillNobody

LEMMA ReqStepIInv ==
    ASSUME IInv, NEW r \in Req, Arrive(r) \/ Continue(r)
    PROVE  IInv'
<1>1. CASE Arrive(r)
  BY <1>1, ConfirmStep, DeleteStep DEF Arrive
<1>2. CASE Continue(r)
  BY <1>2, ConfirmFindStep, ConfirmInsertStep, ConfirmEnqueueStep, DeleteSaveStep,
     DeleteEnqueueStep, AbortStep DEF Continue
<1> QED
  BY <1>1, <1>2

LEMMA WorkStepIInv ==
    ASSUME IInv, NEW j \in Job, Work(j)
    PROVE  IInv'
BY ProcessLoadStep, DownloadStep, PutDerivativeStep, ProcessSaveStep, ProcessThrowStep,
   StallStep, PurgeKeyStep, PurgeEndSteps DEF Work

LEMMA NextIInv ==
    ASSUME IInv, [Next]_assetVars
    PROVE  IInv'
BY UrlSteps, PutStep, ReqStepIInv, WorkStepIInv, StutterIInv DEF Next

\* Whoever chases a key is the only one.
LEMMA SingleChaser ==
    ASSUME IInv
    PROVE  OneJobPerImage
<1> SUFFICES ASSUME NEW k \in Key
             PROVE  LET chasers == {r \in Req : HandlerChases(req[r], k)}
                                   \cup {j \in Job : JobChases(job[j], k)}
                    IN  /\ Cardinality(chasers) <= IF k \in Image THEN 1 ELSE 0
                        /\ Wanting(row[k], k, lost) => chasers # {}
  BY DEF OneJobPerImage, HandlerChases, JobChases, Wanting, Found, Working
<1> DEFINE chasers == {r \in Req : HandlerChases(req[r], k)}
                      \cup {j \in Job : JobChases(job[j], k)}
<1>1. \A x, y \in chasers : x = y
  BY DEF IInv, Single
<1>2. chasers # {} => k \in Image
  <2>1. \A r \in Req : HandlerChases(req[r], k) => k \in Image
    BY DEF IInv, Fits, HandlerFits, HandlerChases
  <2>2. \A j \in Job : JobChases(job[j], k) => k \in Image
    BY DEF IInv, Fits, JobFits, JobChases, Working
  <2> QED
    BY <2>1, <2>2
<1>3. Wanting(row[k], k, lost) => chasers # {}
  BY DEF IInv, Chased
<1> HIDE DEF chasers
<1>4. Cardinality(chasers) <= IF k \in Image THEN 1 ELSE 0
  <2>1. CASE chasers = {}
    BY <2>1, FS_EmptySet
  <2>2. CASE chasers # {}
    <3>1. PICK x : chasers = {x}
      BY <1>1, <2>2
    <3>2. Cardinality(chasers) = 1
      BY <3>1, FS_Singleton
    <3> QED
      BY <1>2, <2>2, <3>2
  <2> QED
    BY <2>1, <2>2
<1> QED
  BY <1>3, <1>4 DEF chasers

\* A purge that is done has nothing left to do.
LEMMA NothingLeft ==
    ASSUME IInv
    PROVE  DeletedLeavesNothing
<1> SUFFICES ASSUME NEW k \in Key, row[k] # None, ~Found(k), k \notin crossed \cup litter,
                    ~ \E r \in Req : req[r].pc = "enqueuePurge" /\ req[r].k = k,
                    ~ \E j \in Job : job[j].pc = "purge" /\ job[j].k = k
             PROVE  \A v \in Variant : <<k, v>> \notin objects
  BY DEF DeletedLeavesNothing
<1> QED
  BY DEF IInv, Purged, Told, Found

\* The invariant of assets.service.ts (confirm, delete) and the workers of
\* assets-process and r2-purge.
THEOREM Invariance == Spec => []IInv
<1>1. Init => IInv
  BY InitIInv
<1>2. IInv /\ [Next]_assetVars => IInv'
  BY NextIInv
<1> QED
  BY <1>1, <1>2, PTL DEF Spec

\* Rows, objects, handlers and jobs have their shape at all times.
THEOREM TypeCorrect == Spec => []TypeOK
<1>1. IInv => TypeOK
  BY DEF IInv
<1> QED
  BY <1>1, Invariance, PTL

\* What list shows is in the bucket, original and derivatives, unless a delete
\* overlapped the processing (confirm 86-131, delete 148-161, handleProcess
\* 91-121).
THEOREM Serves == Spec => []ListedServes
<1>1. IInv => ListedServes
  BY DEF IInv
<1> QED
  BY <1>1, Invariance, PTL

\* A deleted asset leaves no object behind once its purges are done, but for
\* the overlaps and failures named (delete 148-161, handlePurge 123-132).
THEOREM LeavesNothing == Spec => []DeletedLeavesNothing
<1>1. IInv => DeletedLeavesNothing
  BY NothingLeft
<1> QED
  BY <1>1, Invariance, PTL

\* A listed image without derivatives has exactly one job or handler that will
\* see to them, unless its job failed for good or was never enqueued; nothing
\* else has one (confirm 110-128).
THEOREM OneJob == Spec => []OneJobPerImage
<1>1. IInv => OneJobPerImage
  BY SingleChaser
<1> QED
  BY <1>1, Invariance, PTL
=============================================================================
