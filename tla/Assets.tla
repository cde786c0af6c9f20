------------------------------- MODULE Assets -------------------------------
(***************************************************************************)
(* Uploads: src/src/modules/assets.  A client PUTs a file to R2 with a     *)
(* presigned URL and confirms it; a queue makes two derivatives of an      *)
(* image; a delete marks the row and a second queue purges the objects.    *)
(*                                                                         *)
(* Table and bucket are two stores: an action is one statement on either   *)
(* of them or on a queue.  A row is the one of its key (unique), and save  *)
(* writes the whole row as loaded.  What a file contains is left out but   *)
(* for whether it is an image; resolve and the prefix check only tell      *)
(* whose keys these are, and the keys of one portfolio are modelled.       *)
(***************************************************************************)
EXTENDS Naturals, Sequences, FiniteSets

CONSTANTS
    Key,        \* object keys, each made by one sign
    Image,      \* the keys whose upload has an image type; the rest are PDFs
    MaxUploads, \* bound: uploads under way or made
    Attempts,   \* attempts of a job (3 to process, 5 to purge)
    Req,        \* slots for API handlers in flight
    Job,        \* slots for jobs
    None        \* no row

ASSUME AssetsAssumption ==
    /\ Image \subseteq Key
    /\ MaxUploads \in Nat /\ Attempts \in Nat \ {0}
    /\ None \notin [deleted : BOOLEAN, derived : BOOLEAN]

VARIABLES
    urls,       \* keys with a presigned PUT that has not expired
    objects,    \* the bucket: <<key, variant>>
    row,        \* table `assets`, by key
    req,        \* API handlers in flight
    job,        \* queues assets-process and r2-purge, with their workers
    stalled     \* keys whose processing has stalled once

\* History, read by the properties and by nothing else.
VARIABLES
    crossed,    \* keys of which a delete and the processing overlapped
    litter,     \* keys with objects no purge will be told of
    lost        \* keys whose processing failed for good or was never enqueued

assetVars == <<urls, objects, row, req, job, stalled, crossed, litter, lost>>
history == <<crossed, litter, lost>>

-----------------------------------------------------------------------------
Derivatives == <<"1600", "800">>              \* DERIVATIVE_WIDTHS
Variant == {"orig", "1600", "800"}
Row == [deleted : BOOLEAN, derived : BOOLEAN] \* deletedAt set, derivatives set

\* Mutation: the purge is told of the original only.
NamesOriginal(derived) == <<"orig">>
\* The variants a row names, in the order delete lists them.
Names(derived) == IF derived THEN <<"orig">> \o Derivatives ELSE <<"orig">>
NameLists == {Names(FALSE), Names(TRUE), Derivatives, <<"800">>, <<>>}

Handler ==
         [pc : {"idle"}]
    \cup [pc : {"find", "insert", "enqueue"}, k : Key]
    \cup [pc : {"softDelete", "enqueuePurge"}, k : Key, derived : BOOLEAN]

\* A job, or with no attempt left the run of one that the queue has left.
JobState ==
         [pc : {"free"}]
    \cup [pc : {"queued"}, k : Key, left : 1..Attempts]
    \cup [pc : {"download", "save"}, k : Key, left : 0..Attempts]
    \cup [pc : {"put"}, k : Key, left : 0..Attempts, todo : {Derivatives, <<"800">>}]
    \cup [pc : {"purge"}, k : Key, todo : NameLists]

Idle == [pc |-> "idle"]
Free == [pc |-> "free"]
Goto(r, h) == req' = [req EXCEPT ![r] = h]
Step(j, s) == job' = [job EXCEPT ![j] = s]
Become(j, pc) == Step(j, [pc |-> pc, k |-> job[j].k, left |-> job[j].left])

\* findOne, which leaves out soft-deleted rows.
Found(k) == row[k] # None /\ ~row[k].deleted

Init ==
    /\ urls = {} /\ objects = {}
    /\ row = [k \in Key |-> None]
    /\ req = [r \in Req |-> Idle]
    /\ job = [j \in Job |-> Free]
    /\ stalled = {}
    /\ crossed = {} /\ litter = {} /\ lost = {}

\* A worker that holds the row of k; a delete that does.
Processing(k) == \E j \in Job : job[j].pc \in {"download", "put", "save"} /\ job[j].k = k
Deleting(k) == \E r \in Req : req[r].pc = "softDelete" /\ req[r].k = k

-----------------------------------------------------------------------------
(***************************************************************************)
(* sign, the upload itself, confirm                                        *)
(***************************************************************************)

Used(k) == k \in urls \/ row[k] # None \/ <<k, "orig">> \in objects

\* sign: a fresh key and its presigned PUT.
Sign(k) ==
    /\ ~Used(k) /\ Cardinality({u \in Key : Used(u)}) < MaxUploads
    /\ urls' = urls \cup {k}
    /\ UNCHANGED <<objects, row, req, job, stalled, history>>

\* The client PUTs, once or again.  A file put under a deleted row stays.
Put(k) ==
    /\ k \in urls
    /\ objects' = objects \cup {<<k, "orig">>}
    /\ litter' = IF row[k] # None /\ row[k].deleted THEN litter \cup {k} ELSE litter
    /\ UNCHANGED <<urls, row, req, job, stalled, crossed, lost>>

ExpireUrl(k) ==
    /\ k \in urls
    /\ urls' = urls \ {k}
    /\ UNCHANGED <<objects, row, req, job, stalled, history>>

\* confirm: r2.head and the checks of type and size, which may refuse.
Confirm(r, k) ==
    /\ req[r] = Idle
    /\ <<k, "orig">> \in objects                \* else 404 upload_missing
    /\ Goto(r, [pc |-> "find", k |-> k])
    /\ UNCHANGED <<urls, objects, row, job, stalled, history>>

\* confirm: assets.findOne by key; a row found is the answer.
ConfirmFind(r) ==
    /\ req[r].pc = "find"
    /\ Goto(r, IF Found(req[r].k) THEN Idle ELSE [req[r] EXCEPT !.pc = "insert"])
    /\ UNCHANGED <<urls, objects, row, job, stalled, history>>

\* Mutation: the key is not unique, the second insert counts as well.
ConfirmInsertAny(r) ==
    LET k == req[r].k IN
    /\ req[r].pc = "insert"
    /\ row' = [row EXCEPT ![k] = [deleted |-> FALSE, derived |-> FALSE]]
    /\ Goto(r, IF k \in Image THEN [pc |-> "enqueue", k |-> k] ELSE Idle)
    /\ UNCHANGED <<urls, objects, job, stalled, history>>

\* uq_assets_key: the key is unique among all rows, the soft-deleted included.
KeyFree(k) == row[k] = None

\* confirm: assets.save of the new row, refused if its key is taken.
ConfirmInsert(r) ==
    LET k == req[r].k IN
    /\ req[r].pc = "insert"
    /\ IF KeyFree(k)
       THEN /\ row' = [row EXCEPT ![k] = [deleted |-> FALSE, derived |-> FALSE]]
            /\ Goto(r, IF k \in Image THEN [pc |-> "enqueue", k |-> k] ELSE Idle)
       ELSE Goto(r, Idle) /\ UNCHANGED row
    /\ UNCHANGED <<urls, objects, job, stalled, history>>

\* confirm: queue.enqueueProcess.  The bound on jobs: only if a slot is free.
ConfirmEnqueue(r) ==
    /\ req[r].pc = "enqueue"
    /\ \E j \in Job :
        /\ job[j] = Free
        /\ Step(j, [pc |-> "queued", k |-> req[r].k, left |-> Attempts])
    /\ Goto(r, Idle)
    /\ UNCHANGED <<urls, objects, row, stalled, history>>

-----------------------------------------------------------------------------
(***************************************************************************)
(* delete                                                                  *)
(***************************************************************************)

\* delete: assets.findOne, or 404 - also for a row already deleted.
Delete(r, k) ==
    /\ req[r] = Idle
    /\ Found(k)
    /\ Goto(r, [pc |-> "softDelete", k |-> k, derived |-> row[k].derived])
    /\ crossed' = IF Processing(k) THEN crossed \cup {k} ELSE crossed
    /\ UNCHANGED <<urls, objects, row, job, stalled, litter, lost>>

\* delete: assets.save of the loaded row, deletedAt set.
DeleteSave(r) ==
    LET h == req[r] IN
    /\ h.pc = "softDelete"
    /\ row' = [row EXCEPT ![h.k] = [deleted |-> TRUE, derived |-> h.derived]]
    /\ Goto(r, [h EXCEPT !.pc = "enqueuePurge"])
    /\ UNCHANGED <<urls, objects, job, stalled, history>>

\* delete: queue.enqueuePurge of the keys the loaded row names.
DeleteEnqueue(r) ==
    LET h == req[r] IN
    /\ h.pc = "enqueuePurge"
    /\ \E j \in Job :
        job[j] = Free /\ Step(j, [pc |-> "purge", k |-> h.k, todo |-> Names(h.derived)])
    /\ Goto(r, Idle)
    /\ UNCHANGED <<urls, objects, row, stalled, history>>

\* A handler ends with an error, or the process dies.
Abort(r) ==
    LET h == req[r] IN
    /\ h # Idle
    /\ Goto(r, Idle)
    /\ litter' = IF h.pc = "enqueuePurge" THEN litter \cup {h.k} ELSE litter
    /\ lost' = IF h.pc = "enqueue" THEN lost \cup {h.k} ELSE lost
    /\ UNCHANGED <<urls, objects, row, job, stalled, crossed>>

-----------------------------------------------------------------------------
(***************************************************************************)
(* The worker of assets-process                                            *)
(***************************************************************************)

\* handleProcess: assets.findOne, or nothing to do.
ProcessLoad(j) ==
    LET k == job[j].k IN
    /\ job[j].pc = "queued"
    /\ IF Found(k) THEN Become(j, "download") ELSE Step(j, Free)
    /\ crossed' = IF Found(k) /\ Deleting(k) THEN crossed \cup {k} ELSE crossed
    /\ UNCHANGED <<urls, objects, row, req, stalled, litter, lost>>

\* handleProcess: downloadBytes, which fails if the object is gone.
Download(j) ==
    LET s == job[j] IN
    /\ s.pc = "download"
    /\ <<s.k, "orig">> \in objects
    /\ Step(j, [pc |-> "put", k |-> s.k, left |-> s.left, todo |-> Derivatives])
    /\ UNCHANGED <<urls, objects, row, req, stalled, history>>

\* Mutation: the loop ends one width early.
PutDerivativeFewer(j) ==
    LET s == job[j] IN
    /\ s.pc = "put"
    /\ objects' = objects \cup {<<s.k, Head(s.todo)>>}
    /\ Become(j, "save")
    /\ UNCHANGED <<urls, row, req, stalled, history>>

\* handleProcess: the PUT of the next derivative.
PutDerivative(j) ==
    LET s == job[j] IN
    /\ s.pc = "put"
    /\ objects' = objects \cup {<<s.k, Head(s.todo)>>}
    /\ IF Len(s.todo) = 1 THEN Become(j, "save") ELSE Step(j, [s EXCEPT !.todo = Tail(@)])
    /\ UNCHANGED <<urls, row, req, stalled, history>>

\* handleProcess: assets.save of the row loaded at the start, whose deletedAt
\* was null.
ProcessSave(j) ==
    /\ job[j].pc = "save"
    /\ row' = [row EXCEPT ![job[j].k] = [deleted |-> FALSE, derived |-> TRUE]]
    /\ Step(j, Free)
    /\ UNCHANGED <<urls, objects, req, stalled, history>>

\* Mutation: a failed job is queued again however often it failed.
ProcessThrowForever(j) ==
    LET s == job[j] IN
    /\ s.pc \in {"download", "put", "save"}
    /\ Become(j, "queued")
    /\ litter' = IF s.pc = "download" THEN litter ELSE litter \cup {s.k}
    /\ UNCHANGED <<urls, objects, row, req, stalled, crossed, lost>>

\* Mutation: attempts counts the retries only.
ProcessThrowOneMore(j) ==
    LET s == job[j] IN
    /\ s.pc \in {"download", "put", "save"}
    /\ Step(j, IF s.left > 0 THEN [pc |-> "queued", k |-> s.k, left |-> s.left - 1] ELSE Free)
    /\ lost' = IF s.left = 0 THEN lost \cup {s.k} ELSE lost
    /\ litter' = IF s.pc = "download" THEN litter ELSE litter \cup {s.k}
    /\ UNCHANGED <<urls, objects, row, req, stalled, crossed>>

\* A statement of the worker fails or the process dies: the job is queued
\* again until its attempts are used up.  Derivatives put so far stay.
ProcessThrow(j) ==
    LET s == job[j] IN
    /\ s.pc \in {"download", "put", "save"}
    /\ Step(j, IF s.left > 1 THEN [pc |-> "queued", k |-> s.k, left |-> s.left - 1] ELSE Free)
    /\ lost' = IF s.left = 1 THEN lost \cup {s.k} ELSE lost
    /\ litter' = IF s.pc = "download" THEN litter ELSE litter \cup {s.k}
    /\ UNCHANGED <<urls, objects, row, req, stalled, crossed>>

\* A worker does not renew its lock in time.  The job is queued again, if a
\* slot is free, beside its run; if it stalled before it is given up, whatever
\* its runs still do.
Stall(j) ==
    LET s == job[j]
        run == [s EXCEPT !.left = 0]
    IN
    /\ s.pc \in {"download", "put", "save"} /\ s.left > 0
    /\ \/ /\ s.k \notin stalled
          /\ \E i \in Job :
                /\ job[i] = Free
                /\ job' = [job EXCEPT ![j] = run,
                                      ![i] = [pc |-> "queued", k |-> s.k, left |-> s.left]]
          /\ stalled' = stalled \cup {s.k}
          /\ UNCHANGED lost
       \/ /\ s.k \in stalled
          /\ Step(j, run)
          /\ lost' = lost \cup {s.k}
          /\ UNCHANGED stalled
    /\ UNCHANGED <<urls, objects, row, req, crossed, litter>>

-----------------------------------------------------------------------------
(***************************************************************************)
(* The worker of r2-purge                                                  *)
(***************************************************************************)

\* handlePurge: r2.delete of the next key; an error is only logged.
PurgeKey(j) ==
    LET s == job[j] IN
    /\ s.pc = "purge" /\ s.todo # <<>>
    /\ \/ objects' = objects \ {<<s.k, Head(s.todo)>>} /\ UNCHANGED litter
       \/ litter' = litter \cup {s.k} /\ UNCHANGED objects
    /\ Step(j, [s EXCEPT !.todo = Tail(@)])
    /\ UNCHANGED <<urls, row, req, stalled, crossed, lost>>

PurgeDone(j) ==
    /\ job[j].pc = "purge" /\ job[j].todo = <<>>
    /\ Step(j, Free)
    /\ UNCHANGED <<urls, objects, row, req, stalled, history>>

\* The process dies: BullMQ gives up a job that stalled too often.  (One that
\* runs again deletes what it deleted already.)
PurgeCrash(j) ==
    /\ job[j].pc = "purge"
    /\ Step(j, Free)
    /\ litter' = litter \cup {job[j].k}
    /\ UNCHANGED <<urls, objects, row, req, stalled, crossed, lost>>

-----------------------------------------------------------------------------
Arrive(r) == \E k \in Key : Confirm(r, k) \/ Delete(r, k)

Continue(r) ==
    \/ ConfirmFind(r) \/ ConfirmInsert(r) \/ ConfirmEnqueue(r)
    \/ DeleteSave(r) \/ DeleteEnqueue(r)
    \/ Abort(r)

Work(j) ==
    \/ ProcessLoad(j) \/ Download(j) \/ PutDerivative(j) \/ ProcessSave(j)
    \/ ProcessThrow(j) \/ Stall(j)
    \/ PurgeKey(j) \/ PurgeDone(j) \/ PurgeCrash(j)

Next ==
    \/ \E k \in Key : Sign(k) \/ Put(k) \/ ExpireUrl(k)
    \/ \E r \in Req : Arrive(r) \/ Continue(r)
    \/ \E j \in Job : Work(j)

Spec == Init /\ [][Next]_assetVars

\* Handlers in flight finish and the workers keep taking jobs.
FairSpec ==
    /\ Spec
    /\ \A r \in Req : WF_assetVars(Continue(r))
    /\ \A j \in Job : WF_assetVars(Work(j))

-----------------------------------------------------------------------------
(***************************************************************************)
(* Properties                                                              *)
(***************************************************************************)

TypeOK ==
    /\ urls \subseteq Key
    /\ objects \subseteq Key \X Variant
    /\ row \in [Key -> Row \cup {None}]
    /\ req \in [Req -> Handler]
    /\ job \in [Job -> JobState]
    /\ stalled \subseteq Key
    /\ crossed \subseteq Key /\ litter \subseteq Key /\ lost \subseteq Key

\* What list shows can be fetched: the original of every listed asset and
\* every derivative its row names are in the bucket, unless the asset was
\* deleted while it was processed and the worker's save of the row it had
\* loaded took the deletion back (confirm 86-131, delete 148-161,
\* handleProcess 91-121).
ListedServes ==
    \A k \in Key : Found(k) =>
        \/ k \in crossed
        \/ /\ <<k, "orig">> \in objects
           /\ row[k].derived => \A v \in Variant : <<k, v>> \in objects

\* A deleted asset leaves nothing behind once its purges are done, unless it
\* was processed meanwhile (its derivatives are not named by the row delete
\* loaded), a failed processing left derivatives no row names, the object
\* was put again, R2 refused, or a handler or worker died (delete 148-161,
\* handlePurge 123-132).
DeletedLeavesNothing ==
    \A k \in Key :
        \/ row[k] = None \/ Found(k) \/ k \in crossed \cup litter
        \/ \E r \in Req : req[r].pc = "enqueuePurge" /\ req[r].k = k
        \/ \E j \in Job : job[j].pc = "purge" /\ job[j].k = k
        \/ \A v \in Variant : <<k, v>> \notin objects

\* However often an upload is confirmed, a listed image without derivatives
\* has exactly one job that will make them, or one handler about to enqueue
\* it, unless that job failed for good or the handler did; and no other key
\* has one (confirm 110-128: the unique key decides).  The run of a job that
\* stalled is no job.
OneJobPerImage ==
    \A k \in Key :
        LET chasers == {r \in Req : req[r].pc = "enqueue" /\ req[r].k = k}
                       \cup {j \in Job : job[j].pc \in {"queued", "download", "put", "save"}
                                         /\ job[j].k = k /\ job[j].left > 0}
        IN
        /\ Cardinality(chasers) <= IF k \in Image THEN 1 ELSE 0
        /\ k \in Image /\ Found(k) /\ ~row[k].derived /\ k \notin lost => chasers # {}

\* A confirmed image gets its derivatives or is deleted, unless its job failed
\* for good or was never enqueued (confirm 124-128, handleProcess 91-121).
ImageIsProcessed ==
    \A k \in Image :
        Found(k) ~> (~Found(k) \/ row[k].derived \/ k \in lost)
=============================================================================
