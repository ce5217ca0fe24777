--------------------------- MODULE PropertyListing ---------------------------
(***************************************************************************)
(* One brokerage listing and its images: properties.service.ts, media-     *)
(* processing.service.ts and the queue between its two halves, under       *)
(* src/apps/api/src/properties/.                                           *)
(*                                                                         *)
(* submit(), updatePrice() and updateDealStatus() write under a condition  *)
(* on what they read; update() does not.  requestUpload() and deleteMedia()*)
(* lock the property's row.  The worker takes upload jobs from a queue     *)
(* that gives a job out again when a worker stalls, whether or not that    *)
(* worker has stopped.                                                     *)
(*                                                                         *)
(* Left out: the broker's standing, asked before a submission, the         *)
(* ownership evidence of direct listings, videos, and titles and the like. *)
(***************************************************************************)
EXTENDS Requests, Integers, FiniteSets

CONSTANTS
    Price,          \* asking prices
    Target,         \* deal statuses the registrant asks for
    Upload,         \* ids of media uploads
    MaxVersion,     \* bound: changes of the listing, by its updatedAt
    MaxImages,      \* bound: images ever stored
    ImageLimit,     \* images of one listing, pending uploads included
    MaxJobAttempts  \* MEDIA_WORKER_MAX_ATTEMPTS

ListingStatus == {"DRAFT", "PENDING_REVIEW", "ACTIVE", "REJECTED", "INACTIVE"}
DealStatus ==
    {"AVAILABLE", "RESERVED", "CONTRACTING", "COMPLETED", "WITHDRAWN"}
UploadStatus == {"NONE", "REQUESTED", "PROCESSING", "READY", "FAILED"}

ASSUME ListingAssumption ==
    /\ Price # {} /\ None \notin Price \cup Upload
    /\ Target \subseteq DealStatus
    /\ MaxVersion \in Nat \ {0} /\ MaxImages \in Nat \ {0} /\ ImageLimit \in Nat
    /\ MaxJobAttempts \in Nat \ {0}

VARIABLES
    status, deal, price, version,   \* the row of properties
    images,        \* property_media
    shown,         \* those that are public
    stored,        \* images ever stored
    upload,        \* property_media_uploads
    job,           \* the queue's job for each upload
    files,         \* the converted files of each upload are in the storage
    work,          \* requests and jobs under way
    misrecorded,   \* history: a change was recorded that did not happen
    overtaken,     \* history: an update or a submission used a stale read
    disturbed      \* history: uploads whose job ran twice or lost an answer

row == <<status, deal, price, version>>
media == <<images, shown, stored>>
processing == <<upload, job, files, disturbed>>
listingVars == <<row, media, processing, work, misrecorded, overtaken>>

Image == 1..MaxImages

NoUpload == [status |-> "NONE", public |-> FALSE, image |-> 0, made |-> 0]
NoJob == [state |-> "none", attempts |-> 0]
NoWork == [phase |-> "idle", price |-> None, deal |-> None, version |-> 0,
           found |-> None, image |-> 0, public |-> FALSE, upload |-> None,
           stale |-> FALSE]

\* The listing as create() leaves it.
ListingInit ==
    /\ status = "DRAFT" /\ deal = "AVAILABLE" /\ price \in Price /\ version = 1
    /\ images = {1} /\ shown = {1} /\ stored = 1
    /\ upload = [u \in Upload |-> NoUpload]
    /\ job = [u \in Upload |-> NoJob]
    /\ files = {}
    /\ work = [r \in Request |-> NoWork]
    /\ misrecorded = FALSE
    /\ overtaken = FALSE
    /\ disturbed = {}

-----------------------------------------------------------------------------

Begin(r, request) ==
    /\ work[r] = NoWork
    /\ work' = [work EXCEPT ![r] = request]

Finish(r) == work' = [work EXCEPT ![r] = NoWork]

Advance(r, condition, phase) ==
    IF condition THEN work' = Moved(work, r, phase) ELSE Finish(r)

\* Every update of the row moves updatedAt.
Touch == version < MaxVersion /\ version' = version + 1

Draft == status \in {"DRAFT", "REJECTED"}

\* The submissions that have checked the images a commit now changes.
MarkSubmissions(w) ==
    [q \in Request |-> IF w[q].phase = "submit"
                       THEN [w[q] EXCEPT !.stale = TRUE] ELSE w[q]]

-----------------------------------------------------------------------------
(* update() *)

ReceiveUpdate(r, p) ==
    /\ Begin(r, [NoWork EXCEPT !.phase = "update", !.price = p])
    /\ UNCHANGED <<row, media, processing, misrecorded, overtaken>>

ReadForUpdate(r) ==
    /\ At(work, r, "update")
    /\ Advance(r, Draft, "rewrite")
    /\ UNCHANGED <<row, media, processing, misrecorded, overtaken>>

\* One image replaces all there were; nothing looks at the status again.
CommitUpdate(r, public) ==
    /\ At(work, r, "rewrite")
    /\ stored < MaxImages
    /\ Touch
    /\ status' = "DRAFT"
    /\ price' = work[r].price
    /\ images' = {stored + 1}
    /\ shown' = IF public THEN images' ELSE {}
    /\ stored' = stored + 1
    /\ overtaken' = (overtaken \/ ~Draft)
    /\ work' = MarkSubmissions([work EXCEPT ![r] = NoWork])
    /\ UNCHANGED <<deal, processing, misrecorded>>

-----------------------------------------------------------------------------
(* submit() and review() *)

ReceiveSubmit(r) ==
    /\ Begin(r, [NoWork EXCEPT !.phase = "check"])
    /\ UNCHANGED <<row, media, processing, misrecorded, overtaken>>

\* A public image is required.
Submittable == Draft /\ shown # {}

ReadForSubmit(r) ==
    /\ At(work, r, "check")
    /\ Advance(r, Submittable, "submit")
    /\ UNCHANGED <<row, media, processing, misrecorded, overtaken>>

\* updateMany where the status is DRAFT or REJECTED
CommitSubmit(r) ==
    /\ At(work, r, "submit")
    /\ IF Draft
       THEN /\ Touch
            /\ status' = "PENDING_REVIEW"
            /\ overtaken' = (overtaken \/ work[r].stale)
       ELSE UNCHANGED <<status, version, overtaken>>
    /\ Finish(r)
    /\ UNCHANGED <<deal, price, media, processing, misrecorded>>

ReviewableOff == status \in {"PENDING_REVIEW", "INACTIVE"} /\ deal = "AVAILABLE"

Reviewable == status = "PENDING_REVIEW"

Review(verdict) ==
    /\ Reviewable
    /\ Touch
    /\ status' = verdict
    /\ UNCHANGED <<deal, price, media, processing, work, misrecorded,
                   overtaken>>

\* A report upheld takes off a listing that is on offer (PropertyReports).
TakeDown ==
    /\ status = "ACTIVE"
    /\ Touch
    /\ status' = "INACTIVE"
    /\ UNCHANGED <<deal, price, media, processing, work, misrecorded,
                   overtaken>>

-----------------------------------------------------------------------------
(* updatePrice() *)

SameVersionAny(r) == TRUE

\* updatedAt is still the one the client named, which it had seen before.
SameVersion(r) == version = work[r].version

ReceivePrice(r, p, v) ==
    /\ Begin(r, [NoWork EXCEPT !.phase = "priced", !.price = p, !.version = v])
    /\ UNCHANGED <<row, media, processing, misrecorded, overtaken>>

ReadForPrice(r) ==
    /\ At(work, r, "priced")
    /\ IF status = "ACTIVE"
       THEN work' = [work EXCEPT ![r].phase = "price", ![r].found = price]
       ELSE Finish(r)
    /\ UNCHANGED <<row, media, processing, misrecorded, overtaken>>

\* recordChange() writes the price that was read as the one before.
CommitPrice(r) ==
    /\ At(work, r, "price")
    /\ IF status = "ACTIVE" /\ SameVersion(r)
       THEN /\ Touch
            /\ price' = work[r].price
            /\ misrecorded' = (misrecorded \/ work[r].found # price)
       ELSE UNCHANGED <<price, version, misrecorded>>
    /\ Finish(r)
    /\ UNCHANGED <<status, deal, media, processing, overtaken>>

-----------------------------------------------------------------------------
(* updateDealStatus() *)

Closed == {"COMPLETED", "WITHDRAWN"}

\* allowedDealTransition()
AllowedDealTransition(d, e) == d \notin Closed /\ e # d

ReceiveDeal(r, d, v) ==
    /\ Begin(r, [NoWork EXCEPT !.phase = "dealt", !.deal = d, !.version = v])
    /\ UNCHANGED <<row, media, processing, misrecorded, overtaken>>

ReadForDeal(r) ==
    /\ At(work, r, "dealt")
    /\ IF status = "ACTIVE" /\ AllowedDealTransition(deal, work[r].deal)
       THEN work' = [work EXCEPT ![r].phase = "deal", ![r].found = deal]
       ELSE Finish(r)
    /\ UNCHANGED <<row, media, processing, misrecorded, overtaken>>

\* A deal that is closed takes the listing off.
Publication(d) == IF d \in Closed THEN "INACTIVE" ELSE "ACTIVE"

CommitDeal(r) ==
    /\ At(work, r, "deal")
    /\ IF status = "ACTIVE" /\ deal = work[r].found /\ SameVersion(r)
       THEN /\ Touch
            /\ deal' = work[r].deal
            /\ status' = Publication(work[r].deal)
       ELSE UNCHANGED <<deal, status, version>>
    /\ Finish(r)
    /\ UNCHANGED <<price, media, processing, misrecorded, overtaken>>

-----------------------------------------------------------------------------
(* deleteMedia() *)

\* assertMediaEditable()
MediaEditable == Draft \/ (status = "ACTIVE" /\ deal \notin Closed)

ReceiveDelete(r, i) ==
    /\ i \in images
    /\ Begin(r, [NoWork EXCEPT !.phase = "remove", !.image = i])
    /\ UNCHANGED <<row, media, processing, misrecorded, overtaken>>

ReadForDelete(r) ==
    /\ At(work, r, "remove")
    /\ Advance(r, work[r].image \in images /\ MediaEditable, "delete")
    /\ UNCHANGED <<row, media, processing, misrecorded, overtaken>>

RemovableAlways(i) == i \in images /\ MediaEditable

\* The last public image of a listing that is on offer stays.
Removable(i) ==
    /\ i \in images /\ MediaEditable
    /\ (status = "ACTIVE" /\ i \in shown) => shown # {i}

\* The transaction reads everything again under the lock of the row.
CommitDelete(r) ==
    /\ At(work, r, "delete")
    /\ LET i == work[r].image
       IN  IF Removable(i)
           THEN /\ images' = images \ {i}
                /\ shown' = shown \ {i}
                /\ work' = MarkSubmissions(Moved(work, r, "erase"))
           ELSE Finish(r) /\ UNCHANGED <<images, shown>>
    /\ UNCHANGED <<row, stored, processing, misrecorded, overtaken>>

EraseFiles(r) ==
    /\ At(work, r, "erase")
    /\ files' = {u \in files : upload[u].image # work[r].image}
    /\ Finish(r)
    /\ UNCHANGED <<row, media, upload, job, disturbed, misrecorded, overtaken>>

-----------------------------------------------------------------------------
(* requestUpload() *)

Pending == {u \in Upload : upload[u].status \in {"REQUESTED", "PROCESSING"}}

\* assertMediaLimit()
BelowLimit == Cardinality(images) + Cardinality(Pending) < ImageLimit

ReceiveUpload(r, u, public) ==
    /\ upload[u].status = "NONE"
    /\ \A q \in Request : work[q].upload # u
    /\ Begin(r, [NoWork EXCEPT !.phase = "upload", !.upload = u,
                               !.public = public])
    /\ UNCHANGED <<row, media, processing, misrecorded, overtaken>>

ReadForUpload(r) ==
    /\ At(work, r, "upload")
    /\ Advance(r, MediaEditable /\ BelowLimit, "keep")
    /\ UNCHANGED <<row, media, processing, misrecorded, overtaken>>

\* The row's lock keeps others from adding images between the two counts.
CommitUpload(r) ==
    /\ At(work, r, "keep")
    /\ upload' = IF MediaEditable /\ BelowLimit
                 THEN [upload EXCEPT ![work[r].upload] =
                          [NoUpload EXCEPT !.status = "REQUESTED",
                                           !.public = work[r].public]]
                 ELSE upload
    /\ Advance(r, MediaEditable /\ BelowLimit, "enqueue")
    /\ UNCHANGED <<row, media, job, files, disturbed, misrecorded, overtaken>>

\* The queue takes the job, refuses it, or takes it and does not say so.
Enqueue(r) ==
    /\ At(work, r, "enqueue")
    /\ LET u == work[r].upload
           queued == [job EXCEPT ![u].state = "waiting"]
       IN  \/ job' = queued /\ Finish(r) /\ UNCHANGED disturbed
           \/ /\ work' = Moved(work, r, "unqueued")
              /\ \/ UNCHANGED <<job, disturbed>>
                 \/ job' = queued /\ disturbed' = disturbed \cup {u}
    /\ UNCHANGED <<row, media, upload, files, misrecorded, overtaken>>

FailUpload(r) ==
    /\ At(work, r, "unqueued")
    /\ upload' = [upload EXCEPT ![work[r].upload].status = "FAILED"]
    /\ Finish(r)
    /\ UNCHANGED <<row, media, job, files, disturbed, misrecorded, overtaken>>

-----------------------------------------------------------------------------
(* processQueuedUpload() *)

Running(u) == \E r \in Request : work[r].upload = u
                  /\ work[r].phase \in {"take", "mark", "convert", "publish",
                                        "insert", "broken", "lost"}

TakeJob(r, u) ==
    /\ job[u].state = "waiting"
    /\ job' = [job EXCEPT ![u].state = "active"]
    /\ Begin(r, [NoWork EXCEPT !.phase = "take", !.upload = u])
    /\ disturbed' = IF Running(u) THEN disturbed \cup {u} ELSE disturbed
    /\ UNCHANGED <<row, media, upload, files, misrecorded, overtaken>>

\* The worker's lock on the job runs out: it crashed, or it is only slow.
StallJob(u) ==
    /\ job[u].state = "active"
    /\ job' = [job EXCEPT ![u].state = "waiting"]
    /\ UNCHANGED <<row, media, upload, files, disturbed, work, misrecorded,
                   overtaken>>

JobDone(u) == [job EXCEPT ![u].state = "done"]

\* READY: nothing to do.  FAILED: the job is discarded.
ReadUpload(r) ==
    /\ At(work, r, "take")
    /\ LET u == work[r].upload
           settled == upload[u].status \in {"READY", "FAILED"}
       IN  /\ Advance(r, ~settled, "mark")
           /\ job' = IF settled THEN JobDone(u) ELSE job
    /\ UNCHANGED <<row, media, upload, files, disturbed, misrecorded,
                   overtaken>>

MarkProcessing(r) ==
    /\ At(work, r, "mark")
    /\ upload' = [upload EXCEPT ![work[r].upload].status = "PROCESSING"]
    /\ work' = Moved(work, r, "convert")
    /\ UNCHANGED <<row, media, job, files, disturbed, misrecorded, overtaken>>

\* The converted files are stored, or something failed before that.
Convert(r) ==
    /\ At(work, r, "convert")
    /\ \/ files' = files \cup {work[r].upload}
          /\ work' = Moved(work, r, "publish")
       \/ work' = Moved(work, r, "broken") /\ UNCHANGED files
    /\ UNCHANGED <<row, media, upload, job, disturbed, misrecorded, overtaken>>

\* The transaction's first read: another run may have published the upload.
ReadForPublish(r) ==
    /\ At(work, r, "publish")
    /\ LET u == work[r].upload
           done == upload[u].status = "READY"
       IN  /\ Advance(r, ~done, "insert")
           /\ job' = IF done THEN JobDone(u) ELSE job
    /\ UNCHANGED <<row, media, upload, files, disturbed, misrecorded,
                   overtaken>>

Published(u) ==
    [upload EXCEPT ![u].status = "READY", ![u].image = stored + 1,
                   ![u].made = @ + 1]

MadeOutside(u) == [upload EXCEPT ![u].made = @ + 1]

\* The image's row goes with the transaction.
RolledBack(u) == upload

\* The image and the upload's row; the commit may fail, or succeed with its
\* answer lost.
CommitPublish(r) ==
    /\ At(work, r, "insert")
    /\ LET u == work[r].upload
       IN  \/ /\ stored < MaxImages
              /\ upload' = Published(u)
              /\ stored' = stored + 1
              /\ images' = images \cup {stored + 1}
              /\ shown' = IF upload[u].public THEN shown \cup {stored + 1}
                                              ELSE shown
              /\ \/ Finish(r) /\ job' = JobDone(u) /\ UNCHANGED disturbed
                 \/ /\ work' = Moved(work, r, "lost")
                    /\ disturbed' = disturbed \cup {u}
                    /\ UNCHANGED job
           \/ /\ upload' = RolledBack(u)
              /\ work' = Moved(work, r, "lost")
              /\ UNCHANGED <<media, job, disturbed>>
    /\ UNCHANGED <<row, files, misrecorded, overtaken>>

\* After a failed transaction the converted files are removed.
RemoveOutputs(r) ==
    /\ At(work, r, "lost")
    /\ files' = files \ {work[r].upload}
    /\ work' = Moved(work, r, "broken")
    /\ UNCHANGED <<row, media, upload, job, disturbed, misrecorded, overtaken>>

LastAttemptLate(u) == job[u].attempts >= MaxJobAttempts

LastAttempt(u) == job[u].attempts + 1 >= MaxJobAttempts

\* updateMany where the status is not READY; the queue tries the job again
\* unless this was its last attempt or the error is permanent.
CatchFailure(r, permanent) ==
    /\ At(work, r, "broken")
    /\ LET u == work[r].upload
           terminal == permanent \/ LastAttempt(u)
       IN  /\ upload' = IF upload[u].status = "READY" THEN upload
                        ELSE [upload EXCEPT ![u].status =
                                 IF terminal THEN "FAILED" ELSE "REQUESTED"]
           /\ job' = [job EXCEPT
                         ![u].state = IF terminal THEN "done" ELSE "waiting",
                         ![u].attempts = IF terminal THEN @ ELSE @ + 1]
    /\ Finish(r)
    /\ UNCHANGED <<row, media, files, disturbed, misrecorded, overtaken>>

\* The process dies or the connection drops: open transactions roll back.
LoseWork(r) ==
    /\ work[r] # NoWork
    /\ Finish(r)
    /\ UNCHANGED <<row, media, processing, misrecorded, overtaken>>

-----------------------------------------------------------------------------

ListingStep(r) ==
    \/ \E p \in Price : ReceiveUpdate(r, p)
    \/ ReadForUpdate(r) \/ \E public \in BOOLEAN : CommitUpdate(r, public)
    \/ ReceiveSubmit(r) \/ ReadForSubmit(r) \/ CommitSubmit(r)
    \/ \E p \in Price, v \in 1..version : ReceivePrice(r, p, v)
    \/ ReadForPrice(r) \/ CommitPrice(r)
    \/ \E d \in Target, v \in 1..version : ReceiveDeal(r, d, v)
    \/ ReadForDeal(r) \/ CommitDeal(r)
    \/ LoseWork(r)

MediaStep(r) ==
    \/ \E i \in Image : ReceiveDelete(r, i)
    \/ ReadForDelete(r) \/ CommitDelete(r) \/ EraseFiles(r)
    \/ \E u \in Upload : TakeJob(r, u)
    \/ \E u \in Upload, public \in BOOLEAN : ReceiveUpload(r, u, public)
    \/ ReadForUpload(r) \/ CommitUpload(r) \/ Enqueue(r) \/ FailUpload(r)
    \/ ReadUpload(r) \/ MarkProcessing(r) \/ Convert(r) \/ ReadForPublish(r)
    \/ CommitPublish(r) \/ RemoveOutputs(r)
    \/ \E permanent \in BOOLEAN : CatchFailure(r, permanent)

ListingMoves ==
    \/ \E r \in Request : ListingStep(r) \/ MediaStep(r)
    \/ \E verdict \in {"ACTIVE", "REJECTED"} : Review(verdict)
    \/ \E u \in Upload : StallJob(u)

ListingNext == ListingMoves \/ TakeDown

ListingSpec == ListingInit /\ [][ListingNext]_listingVars

-----------------------------------------------------------------------------
(* Properties *)

WorkRequest ==
    [phase : {"idle", "update", "rewrite", "check", "submit", "priced",
              "price", "dealt", "deal", "remove", "delete", "erase", "upload",
              "keep", "enqueue", "unqueued", "take", "mark", "convert",
              "publish", "insert", "lost", "broken"},
     price : Price \cup {None}, deal : Target \cup {None},
     version : 0..MaxVersion, found : Price \cup DealStatus \cup {None},
     image : Image \cup {0}, public : BOOLEAN, upload : Upload \cup {None},
     stale : BOOLEAN]

\* Every variable has its type.
ListingTypeOK ==
    /\ status \in ListingStatus /\ deal \in DealStatus /\ price \in Price
    /\ version \in 0..MaxVersion
    /\ images \subseteq Image /\ shown \subseteq images /\ stored \in Image
    /\ upload \in [Upload -> [status : UploadStatus, public : BOOLEAN,
                              image : Image \cup {0}, made : Nat]]
    /\ job \in [Upload -> [state : {"none", "waiting", "active", "done"},
                           attempts : 0..(MaxJobAttempts - 1)]]
    /\ files \subseteq Upload /\ disturbed \subseteq Upload
    /\ work \in [Request -> WorkRequest]
    /\ misrecorded \in BOOLEAN /\ overtaken \in BOOLEAN

\* The price a watcher is told a listing had before a change is the price the
\* change replaced, although it was read before the transaction that checks
\* only the version the client named.
ChangesAreTrue == ~misrecorded

\* What the public sees has a public image and a deal that is not closed;
\* the way around it is an update() that commits on a status that has moved
\* on, or a deletion between the check of a submission and its commit.
PublicListingsAreSound ==
    (status = "ACTIVE" /\ ~overtaken) => shown # {} /\ deal \notin Closed

\* Whatever fails and is tried again, an upload makes one image exactly when
\* it ends READY, none otherwise, and the files of that image are there as
\* long as it is; unless its job ran twice at a time or an answer of the queue
\* or of the commit was lost.
UploadsAreWhole ==
    \A u \in Upload \ disturbed :
        /\ upload[u].made = IF upload[u].status = "READY" THEN 1 ELSE 0
        /\ upload[u].image \in images => u \in files

=============================================================================
