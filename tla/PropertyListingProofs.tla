------------------------ MODULE PropertyListingProofs ------------------------
(***************************************************************************)
(* Safety of PropertyListing for every set of requests, prices, deal       *)
(* statuses and uploads and every bound, and over its invariants that of   *)
(* PropertyReports for every set of reports.                               *)
(***************************************************************************)
EXTENDS PropertyReports, FiniteSetTheorems, TLAPS

WorkPhase ==
    {"idle", "update", "rewrite", "check", "submit", "priced", "price",
     "dealt", "deal", "remove", "delete", "erase", "upload", "keep",
     "enqueue", "unqueued", "take", "mark", "convert", "publish", "insert",
     "lost", "broken"}

Pricing == {"update", "rewrite", "priced", "price"}
Dealing == {"dealt", "deal"}
Removing == {"remove", "delete", "erase"}
Requesting == {"upload", "keep", "enqueue", "unqueued"}
Converting == {"take", "mark", "convert", "publish", "insert", "lost", "broken"}

\* What a request or a job carries in each phase.
WorkFilled(w) ==
    /\ w.phase \in Pricing => w.price \in Price
    /\ w.phase \in Dealing => w.deal \in Target
    /\ w.phase \in Removing => w.image \in Image
    /\ w.phase \in Requesting \cup Converting <=> w.upload # None
    /\ w.upload # None => w.upload \in Upload

GoodWork == {w \in WorkRequest : WorkFilled(w)}

UploadRow == [status : UploadStatus, public : BOOLEAN,
              image : Image \cup {0}, made : Nat]
JobRow == [state : {"none", "waiting", "active", "done"},
           attempts : 0..(MaxJobAttempts - 1)]

ListingTypes == ListingTypeOK /\ work \in [Request -> GoodWork]

-----------------------------------------------------------------------------
(* Requests and jobs *)

LEMMA NoWorkIsGood == NoWork \in GoodWork
  <1>1. NoWork \in WorkRequest
    BY ListingAssumption DEF NoWork, WorkRequest
  <1>2. QED
    BY <1>1
    DEF GoodWork, WorkFilled, NoWork, Pricing, Dealing, Removing, Requesting,
        Converting

LEMMA WorkAt ==
    ASSUME ListingTypes, NEW r \in Request
    PROVE  work[r] \in WorkRequest /\ WorkFilled(work[r])
  BY DEF ListingTypes, GoodWork

LEMMA OneWorkMoves ==
    ASSUME work \in [Request -> GoodWork], NEW r \in Request, NEW w \in GoodWork,
           work' = [work EXCEPT ![r] = w]
    PROVE  /\ work' \in [Request -> GoodWork]
           /\ work'[r] = w
           /\ \A q \in Request \ {r} : work'[q] = work[q]
  OBVIOUS

LEMMA FinishIsGood ==
    ASSUME work \in [Request -> GoodWork], NEW r \in Request, Finish(r)
    PROVE  work' \in [Request -> GoodWork]
  BY NoWorkIsGood DEF Finish

\* Phases that ask for what the request carries already.
ListingFollows(p, q) ==
    \/ p \in Pricing /\ q \in Pricing
    \/ p \in Dealing /\ q \in Dealing
    \/ p \in Removing /\ q \in Removing
    \/ p \in Requesting /\ q \in Requesting
    \/ p \in Converting /\ q \in Converting
    \/ p = "check" /\ q = "submit"

LEMMA ListingPhaseIsGood ==
    ASSUME NEW v \in GoodWork, NEW q \in WorkPhase, ListingFollows(v.phase, q)
    PROVE  [v EXCEPT !.phase = q] \in GoodWork
  <1> DEFINE w == [v EXCEPT !.phase = q]
  <1>1. v \in WorkRequest /\ WorkFilled(v)
    BY DEF GoodWork
  <1>2. w \in WorkRequest
    BY <1>1 DEF WorkRequest, WorkPhase
  <1>3. /\ w.phase = q /\ w.price = v.price /\ w.deal = v.deal
        /\ w.image = v.image /\ w.upload = v.upload
    BY <1>1 DEF WorkRequest
  <1> HIDE DEF w
  <1>4. WorkFilled(w)
    BY <1>1, <1>3
    DEF WorkFilled, ListingFollows, Pricing, Dealing, Removing, Requesting, Converting
  <1>5. QED
    BY <1>2, <1>4 DEF GoodWork, w

LEMMA ListingMovedIsGood ==
    ASSUME work \in [Request -> GoodWork], NEW r \in Request,
           NEW q \in WorkPhase, ListingFollows(work[r].phase, q)
    PROVE  Moved(work, r, q) \in [Request -> GoodWork]
  BY ListingPhaseIsGood DEF Moved

LEMMA AdvanceIsGood ==
    ASSUME work \in [Request -> GoodWork], NEW r \in Request,
           NEW q \in WorkPhase, ListingFollows(work[r].phase, q),
           NEW c, Advance(r, c, q)
    PROVE  work' \in [Request -> GoodWork]
  BY FinishIsGood, ListingMovedIsGood DEF Advance

LEMMA MarkIsGood ==
    ASSUME NEW w \in [Request -> GoodWork]
    PROVE  MarkSubmissions(w) \in [Request -> GoodWork]
  <1>1. ASSUME NEW q \in Request
        PROVE  [w[q] EXCEPT !.stale = TRUE] \in GoodWork
    <2> DEFINE v == w[q]
               x == [v EXCEPT !.stale = TRUE]
    <2>1. v \in WorkRequest /\ WorkFilled(v)
      BY DEF GoodWork
    <2>2. x \in WorkRequest
      BY <2>1 DEF WorkRequest
    <2>3. /\ x.phase = v.phase /\ x.price = v.price /\ x.deal = v.deal
          /\ x.image = v.image /\ x.upload = v.upload
      BY <2>1 DEF WorkRequest
    <2> HIDE DEF x
    <2>4. WorkFilled(x)
      BY <2>1, <2>3 DEF WorkFilled
    <2>5. QED
      BY <2>2, <2>4 DEF GoodWork, x
  <1>2. QED
    BY <1>1 DEF MarkSubmissions

LEMMA ListingGoodIsTyped ==
    ASSUME work' \in [Request -> GoodWork]
    PROVE  work' \in [Request -> WorkRequest]
  BY DEF GoodWork

-----------------------------------------------------------------------------
(* Type correctness *)

LEMMA ListingInitTypes == ListingInit => ListingTypes
  <1> SUFFICES ASSUME ListingInit PROVE ListingTypes
    OBVIOUS
  <1>1. work \in [Request -> GoodWork] /\ work \in [Request -> WorkRequest]
    BY NoWorkIsGood DEF ListingInit, GoodWork
  <1>2. upload \in [Upload -> UploadRow] /\ job \in [Upload -> JobRow]
    BY ListingAssumption
    DEF ListingInit, NoUpload, NoJob, UploadRow, JobRow, UploadStatus
  <1>3. 1 \in Image /\ 1 \in 0..MaxVersion
    BY ListingAssumption DEF Image
  <1>4. QED
    BY <1>1, <1>2, <1>3
    DEF ListingInit, ListingTypes, ListingTypeOK, ListingStatus, DealStatus,
        UploadRow, JobRow

\* A new request: it is well formed if it carries what its phase asks for.
LEMMA BeginIsGood ==
    ASSUME work \in [Request -> GoodWork], NEW r \in Request,
           NEW w \in WorkRequest, WorkFilled(w), Begin(r, w)
    PROVE  work' \in [Request -> GoodWork]
  BY DEF Begin, GoodWork

LEMMA ReceiveTypes ==
    ASSUME ListingTypes, NEW r \in Request,
           \/ \E p \in Price : ReceiveUpdate(r, p)
           \/ ReceiveSubmit(r)
           \/ \E p \in Price, v \in 1..version : ReceivePrice(r, p, v)
           \/ \E d \in Target, v \in 1..version : ReceiveDeal(r, d, v)
           \/ \E i \in Image : ReceiveDelete(r, i)
           \/ \E u \in Upload, public \in BOOLEAN : ReceiveUpload(r, u, public)
    PROVE  ListingTypes'
  <1> USE DEF WorkFilled, Pricing, Dealing, Removing, Requesting, Converting
  <1>0. work \in [Request -> GoodWork] /\ NoWork \in WorkRequest
        /\ version \in 0..MaxVersion
    BY NoWorkIsGood DEF ListingTypes, ListingTypeOK, GoodWork
  <1>1. ASSUME NEW p \in Price, ReceiveUpdate(r, p)
        PROVE  work' \in [Request -> GoodWork]
    <2> DEFINE w == [NoWork EXCEPT !.phase = "update", !.price = p]
    <2>1. w \in WorkRequest /\ WorkFilled(w)
      BY <1>0 DEF WorkRequest, NoWork
    <2>2. QED
      BY <1>0, <1>1, <2>1, BeginIsGood DEF ReceiveUpdate
  <1>2. CASE ReceiveSubmit(r)
    <2> DEFINE w == [NoWork EXCEPT !.phase = "check"]
    <2>1. w \in WorkRequest /\ WorkFilled(w)
      BY <1>0 DEF WorkRequest, NoWork
    <2>2. work' \in [Request -> GoodWork]
      BY <1>0, <1>2, <2>1, BeginIsGood DEF ReceiveSubmit
    <2>3. QED
      BY <1>2, <2>2, ListingGoodIsTyped
      DEF ReceiveSubmit, ListingTypes, ListingTypeOK, row, media, processing
  <1>3. ASSUME NEW p \in Price, NEW v \in 1..version, ReceivePrice(r, p, v)
        PROVE  work' \in [Request -> GoodWork]
    <2> DEFINE w == [NoWork EXCEPT !.phase = "priced", !.price = p, !.version = v]
    <2>1. v \in 0..MaxVersion
      BY <1>0, ListingAssumption
    <2>2. w \in WorkRequest
      BY <1>0, <2>1 DEF WorkRequest, NoWork
    <2>3. WorkFilled(w)
      BY DEF NoWork
    <2>4. QED
      BY <1>0, <1>3, <2>2, <2>3, BeginIsGood DEF ReceivePrice
  <1>4. ASSUME NEW d \in Target, NEW v \in 1..version, ReceiveDeal(r, d, v)
        PROVE  work' \in [Request -> GoodWork]
    <2> DEFINE w == [NoWork EXCEPT !.phase = "dealt", !.deal = d, !.version = v]
    <2>1. v \in 0..MaxVersion
      BY <1>0, ListingAssumption
    <2>2. w \in WorkRequest
      BY <1>0, <2>1 DEF WorkRequest, NoWork
    <2>3. WorkFilled(w)
      BY DEF NoWork
    <2>4. QED
      BY <1>0, <1>4, <2>2, <2>3, BeginIsGood DEF ReceiveDeal
  <1>5. ASSUME NEW i \in Image, ReceiveDelete(r, i)
        PROVE  work' \in [Request -> GoodWork]
    <2> DEFINE w == [NoWork EXCEPT !.phase = "remove", !.image = i]
    <2>1. w \in WorkRequest /\ WorkFilled(w)
      BY <1>0 DEF WorkRequest, NoWork
    <2>2. QED
      BY <1>0, <1>5, <2>1, BeginIsGood DEF ReceiveDelete
  <1>6. ASSUME NEW u \in Upload, NEW public \in BOOLEAN, ReceiveUpload(r, u, public)
        PROVE  work' \in [Request -> GoodWork]
    <2> DEFINE w == [NoWork EXCEPT !.phase = "upload", !.upload = u,
                                   !.public = public]
    <2>1. w \in WorkRequest /\ WorkFilled(w)
      BY <1>0, ListingAssumption DEF WorkRequest, NoWork
    <2>2. QED
      BY <1>0, <1>6, <2>1, BeginIsGood DEF ReceiveUpload
  <1>7. CASE ~ReceiveSubmit(r)
    <2>1. work' \in [Request -> GoodWork]
      BY <1>1, <1>3, <1>4, <1>5, <1>6, <1>7
    <2>2. UNCHANGED <<row, media, processing, misrecorded, overtaken>>
      BY <1>7 DEF ReceiveUpdate, ReceivePrice, ReceiveDeal, ReceiveDelete,
                  ReceiveUpload
    <2>3. QED
      BY <2>1, <2>2, ListingGoodIsTyped
      DEF ListingTypes, ListingTypeOK, row, media, processing
  <1>8. QED
    BY <1>2, <1>7

LEMMA RowTypes ==
    ASSUME ListingTypes, NEW r \in Request,
           \/ ReadForUpdate(r) \/ \E public \in BOOLEAN : CommitUpdate(r, public)
           \/ ReadForSubmit(r) \/ CommitSubmit(r)
           \/ ReadForPrice(r) \/ CommitPrice(r)
           \/ ReadForDeal(r) \/ CommitDeal(r)
           \/ LoseWork(r)
    PROVE  ListingTypes'
  <1>0. work \in [Request -> GoodWork] /\ version \in 0..MaxVersion
        /\ price \in Price /\ deal \in DealStatus /\ status \in ListingStatus
    BY DEF ListingTypes, ListingTypeOK
  <1>1. CASE ReadForUpdate(r) \/ ReadForSubmit(r) \/ LoseWork(r)
    <2>1. work' \in [Request -> GoodWork]
      BY <1>0, <1>1, AdvanceIsGood, FinishIsGood
      DEF ReadForUpdate, ReadForSubmit, LoseWork, At, ListingFollows, WorkPhase, Pricing
    <2>2. QED
      BY <1>1, <2>1, ListingGoodIsTyped
      DEF ReadForUpdate, ReadForSubmit, LoseWork, ListingTypes, ListingTypeOK,
          row, media, processing
  <1>2. ASSUME NEW public \in BOOLEAN, CommitUpdate(r, public)
        PROVE  ListingTypes'
    <2>1. work' \in [Request -> GoodWork]
      <3>1. [work EXCEPT ![r] = NoWork] \in [Request -> GoodWork]
        BY <1>0, NoWorkIsGood
      <3>2. QED
        BY <1>2, <3>1, MarkIsGood DEF CommitUpdate
    <2>2. work[r].price \in Price
      BY <1>2, WorkAt DEF CommitUpdate, At, WorkFilled, Pricing
    <2>3. stored' \in Image /\ images' \subseteq Image /\ shown' \subseteq images'
      BY <1>2, ListingAssumption
      DEF CommitUpdate, ListingTypes, ListingTypeOK, Image
    <2>4. version' \in 0..MaxVersion
      BY <1>0, <1>2, ListingAssumption DEF CommitUpdate, Touch
    <2>5. overtaken' \in BOOLEAN
      BY <1>2 DEF CommitUpdate, ListingTypes, ListingTypeOK
    <2>6. QED
      BY <1>2, <2>1, <2>2, <2>3, <2>4, <2>5, ListingGoodIsTyped
      DEF CommitUpdate, ListingTypes, ListingTypeOK, ListingStatus, processing
  <1>3. CASE CommitSubmit(r) \/ CommitPrice(r) \/ CommitDeal(r)
    <2>1. work' \in [Request -> GoodWork]
      BY <1>0, <1>3, FinishIsGood DEF CommitSubmit, CommitPrice, CommitDeal
    <2>2. version' \in 0..MaxVersion
      BY <1>0, <1>3, ListingAssumption
      DEF CommitSubmit, CommitPrice, CommitDeal, Touch
    <2>3. status' \in ListingStatus
      BY <1>0, <1>3
      DEF CommitSubmit, CommitPrice, CommitDeal, Publication, ListingStatus
    <2>4. deal' \in DealStatus
      BY <1>0, <1>3, WorkAt, ListingAssumption
      DEF CommitSubmit, CommitPrice, CommitDeal, At, WorkFilled, Dealing
    <2>5. price' \in Price
      BY <1>0, <1>3, WorkAt
      DEF CommitSubmit, CommitPrice, CommitDeal, At, WorkFilled, Pricing
    <2>6. misrecorded' \in BOOLEAN /\ overtaken' \in BOOLEAN
      <3>1. misrecorded \in BOOLEAN /\ overtaken \in BOOLEAN
            /\ work[r].stale \in BOOLEAN
        BY WorkAt DEF ListingTypes, ListingTypeOK, WorkRequest
      <3>2. QED
        BY <1>3, <3>1 DEF CommitSubmit, CommitPrice, CommitDeal
    <2>7. UNCHANGED <<media, processing>>
      BY <1>3 DEF CommitSubmit, CommitPrice, CommitDeal
    <2>8. QED
      BY <2>1, <2>2, <2>3, <2>4, <2>5, <2>6, <2>7, ListingGoodIsTyped
      DEF ListingTypes, ListingTypeOK, media, processing
  <1>4. CASE ReadForPrice(r) \/ ReadForDeal(r)
    <2>1. work' \in [Request -> GoodWork]
      <3>1. ASSUME NEW q \in WorkPhase, NEW f \in Price \cup DealStatus,
                   ListingFollows(work[r].phase, q)
            PROVE  [work[r] EXCEPT !.phase = q, !.found = f] \in GoodWork
        <4> DEFINE v == [work[r] EXCEPT !.phase = q]
                   w == [v EXCEPT !.found = f]
        <4>1. v \in WorkRequest /\ WorkFilled(v)
          BY <1>0, <3>1, ListingPhaseIsGood DEF GoodWork
        <4>2. w = [work[r] EXCEPT !.phase = q, !.found = f]
          BY <1>0 DEF GoodWork, WorkRequest
        <4> HIDE DEF v
        <4>3. w \in WorkRequest /\ w.phase = v.phase /\ w.price = v.price
              /\ w.deal = v.deal /\ w.image = v.image /\ w.upload = v.upload
          BY <3>1, <4>1 DEF WorkRequest
        <4> HIDE DEF w
        <4>4. WorkFilled(w)
          BY <4>1, <4>3 DEF WorkFilled
        <4>5. QED
          BY <4>2, <4>3, <4>4 DEF GoodWork
      <3>2. CASE ReadForPrice(r)
        <4>1. [work[r] EXCEPT !.phase = "price", !.found = price] \in GoodWork
          BY <1>0, <3>1, <3>2 DEF ReadForPrice, At, ListingFollows, Pricing, WorkPhase
        <4>2. QED
          BY <1>0, <3>2, <4>1, OneWorkMoves, FinishIsGood DEF ReadForPrice
      <3>3. CASE ReadForDeal(r)
        <4>1. [work[r] EXCEPT !.phase = "deal", !.found = deal] \in GoodWork
          BY <1>0, <3>1, <3>3 DEF ReadForDeal, At, ListingFollows, Dealing, WorkPhase
        <4>2. QED
          BY <1>0, <3>3, <4>1, OneWorkMoves, FinishIsGood DEF ReadForDeal
      <3>4. QED
        BY <1>4, <3>2, <3>3
    <2>2. QED
      BY <1>4, <2>1, ListingGoodIsTyped
      DEF ReadForPrice, ReadForDeal, ListingTypes, ListingTypeOK, row, media,
          processing
  <1>5. QED
    BY <1>1, <1>2, <1>3, <1>4
LEMMA MediaTypes ==
    ASSUME ListingTypes, NEW r \in Request,
           \/ ReadForDelete(r) \/ CommitDelete(r) \/ EraseFiles(r)
           \/ ReadForUpload(r) \/ CommitUpload(r) \/ Enqueue(r) \/ FailUpload(r)
    PROVE  ListingTypes'
  <1>0. work \in [Request -> GoodWork]
        /\ upload \in [Upload -> UploadRow] /\ job \in [Upload -> JobRow]
    BY DEF ListingTypes, ListingTypeOK, UploadRow, JobRow
  <1>1. CASE ReadForDelete(r) \/ ReadForUpload(r) \/ EraseFiles(r)
    <2>1. work' \in [Request -> GoodWork]
      BY <1>0, <1>1, AdvanceIsGood, FinishIsGood
      DEF ReadForDelete, ReadForUpload, EraseFiles, At, ListingFollows, WorkPhase,
          Removing, Requesting
    <2>2. files' \subseteq Upload
      BY <1>1 DEF ReadForDelete, ReadForUpload, EraseFiles, processing,
                  ListingTypes, ListingTypeOK
    <2>3. QED
      BY <1>1, <2>1, <2>2, ListingGoodIsTyped
      DEF ReadForDelete, ReadForUpload, EraseFiles, ListingTypes, ListingTypeOK,
          row, media, processing
  <1>2. CASE CommitDelete(r)
    <2>1. work' \in [Request -> GoodWork]
      <3>1. Moved(work, r, "erase") \in [Request -> GoodWork]
        BY <1>0, <1>2, ListingMovedIsGood DEF CommitDelete, At, ListingFollows, Removing, WorkPhase
      <3>2. QED
        BY <1>0, <1>2, <3>1, MarkIsGood, FinishIsGood DEF CommitDelete
    <2>2. images' \subseteq Image /\ shown' \subseteq images'
      BY <1>2 DEF CommitDelete, ListingTypes, ListingTypeOK
    <2>3. QED
      BY <1>2, <2>1, <2>2, ListingGoodIsTyped
      DEF CommitDelete, ListingTypes, ListingTypeOK, row, processing
  <1>3. CASE CommitUpload(r)
    <2>1. work' \in [Request -> GoodWork]
      BY <1>0, <1>3, AdvanceIsGood DEF CommitUpload, At, ListingFollows, Requesting, WorkPhase
    <2>2. work[r].upload \in Upload /\ work[r].public \in BOOLEAN
      BY <1>3, WorkAt DEF CommitUpload, At, WorkFilled, Requesting, WorkRequest
    <2>3. upload' \in [Upload -> UploadRow]
      <3> DEFINE w == [NoUpload EXCEPT !.status = "REQUESTED",
                                       !.public = work[r].public]
      <3>1. w \in UploadRow
        BY <2>2 DEF NoUpload, UploadRow, UploadStatus
      <3>2. upload' = upload \/ upload' = [upload EXCEPT ![work[r].upload] = w]
        BY <1>3 DEF CommitUpload
      <3> HIDE DEF w
      <3>3. QED
        BY <1>0, <2>2, <3>1, <3>2
    <2>4. QED
      BY <1>3, <2>1, <2>3, ListingGoodIsTyped
      DEF CommitUpload, ListingTypes, ListingTypeOK, UploadRow, row, media
  <1>4. CASE Enqueue(r)
    <2>1. work' \in [Request -> GoodWork]
      BY <1>0, <1>4, FinishIsGood, ListingMovedIsGood
      DEF Enqueue, At, ListingFollows, Requesting, WorkPhase
    <2>2. work[r].upload \in Upload
      BY <1>4, WorkAt DEF Enqueue, At, WorkFilled, Requesting
    <2>3. job' \in [Upload -> JobRow] /\ disturbed' \subseteq Upload
      <3>1. job' = job \/ job' = [job EXCEPT ![work[r].upload].state = "waiting"]
        BY <1>4 DEF Enqueue
      <3>2. disturbed' \subseteq disturbed \cup {work[r].upload}
        BY <1>4 DEF Enqueue
      <3>3. QED
        BY <1>0, <2>2, <3>1, <3>2 DEF JobRow, ListingTypes, ListingTypeOK
    <2>4. QED
      BY <1>4, <2>1, <2>3, ListingGoodIsTyped
      DEF Enqueue, ListingTypes, ListingTypeOK, JobRow, row, media
  <1>5. CASE FailUpload(r)
    <2>1. work' \in [Request -> GoodWork]
      BY <1>0, <1>5, FinishIsGood DEF FailUpload
    <2>2. upload' \in [Upload -> UploadRow]
      BY <1>0, <1>5 DEF FailUpload, UploadRow, UploadStatus
    <2>3. QED
      BY <1>5, <2>1, <2>2, ListingGoodIsTyped
      DEF FailUpload, ListingTypes, ListingTypeOK, UploadRow, row, media
  <1>6. QED
    BY <1>1, <1>2, <1>3, <1>4, <1>5

LEMMA JobTypes ==
    ASSUME ListingTypes, NEW r \in Request,
           \/ ReadUpload(r) \/ MarkProcessing(r) \/ Convert(r)
           \/ ReadForPublish(r) \/ CommitPublish(r) \/ RemoveOutputs(r)
           \/ \E permanent \in BOOLEAN : CatchFailure(r, permanent)
    PROVE  ListingTypes'
  <1>0. work \in [Request -> GoodWork]
        /\ upload \in [Upload -> UploadRow] /\ job \in [Upload -> JobRow]
    BY DEF ListingTypes, ListingTypeOK, UploadRow, JobRow
  <1>1. PICK u \in Upload : u = work[r].upload
    BY WorkAt
    DEF WorkFilled, Converting, ReadUpload, MarkProcessing, Convert,
        ReadForPublish, CommitPublish, RemoveOutputs, CatchFailure, At
  <1>2. JobDone(u) \in [Upload -> JobRow]
    BY <1>0 DEF JobDone, JobRow
  <1>3. CASE ReadUpload(r) \/ ReadForPublish(r)
    <2>1. work' \in [Request -> GoodWork]
      BY <1>0, <1>3, AdvanceIsGood
      DEF ReadUpload, ReadForPublish, At, ListingFollows, Converting, WorkPhase
    <2>2. job' = JobDone(u) \/ job' = job
      BY <1>1, <1>3 DEF ReadUpload, ReadForPublish
    <2>3. QED
      BY <1>2, <1>3, <2>1, <2>2, ListingGoodIsTyped
      DEF ReadUpload, ReadForPublish, ListingTypes, ListingTypeOK, JobRow, row, media
  <1>4. CASE MarkProcessing(r) \/ Convert(r) \/ RemoveOutputs(r)
    <2>1. work' \in [Request -> GoodWork]
      BY <1>0, <1>4, ListingMovedIsGood
      DEF MarkProcessing, Convert, RemoveOutputs, At, ListingFollows, Converting, WorkPhase
    <2>2. upload' \in [Upload -> UploadRow] /\ files' \subseteq Upload
      <3>1. upload' = upload
            \/ upload' = [upload EXCEPT ![u].status = "PROCESSING"]
        BY <1>1, <1>4 DEF MarkProcessing, Convert, RemoveOutputs
      <3>2. files' \subseteq files \cup {u}
        BY <1>1, <1>4 DEF MarkProcessing, Convert, RemoveOutputs
      <3>3. QED
        BY <1>0, <3>1, <3>2
        DEF UploadRow, UploadStatus, ListingTypes, ListingTypeOK
    <2>3. QED
      BY <1>4, <2>1, <2>2, ListingGoodIsTyped
      DEF MarkProcessing, Convert, RemoveOutputs, ListingTypes, ListingTypeOK,
          UploadRow, row, media
  <1>5. CASE CommitPublish(r)
    <2>1. work' \in [Request -> GoodWork]
      BY <1>0, <1>5, FinishIsGood, ListingMovedIsGood
      DEF CommitPublish, At, ListingFollows, Converting, WorkPhase
    <2>0. stored \in Image /\ images \subseteq Image /\ shown \subseteq images
          /\ (stored < MaxImages => stored + 1 \in Image)
      BY ListingAssumption DEF ListingTypes, ListingTypeOK, Image
    <2>2. \/ upload' = upload /\ UNCHANGED media
          \/ /\ upload' = Published(u) /\ stored + 1 \in Image
             /\ stored' = stored + 1 /\ images' = images \cup {stored + 1}
             /\ shown' \subseteq shown \cup {stored + 1}
             /\ shown \subseteq shown'
      BY <1>1, <1>5, <2>0 DEF CommitPublish, RolledBack
    <2>3. upload' \in [Upload -> UploadRow]
      BY <1>0, <2>2 DEF Published, UploadRow, UploadStatus
    <2>4. stored' \in Image /\ images' \subseteq Image /\ shown' \subseteq images'
      BY <2>0, <2>2 DEF media
    <2>5. job' \in [Upload -> JobRow] /\ disturbed' \subseteq Upload
      BY <1>0, <1>1, <1>2, <1>5 DEF CommitPublish, ListingTypes, ListingTypeOK
    <2>6. QED
      BY <1>5, <2>1, <2>3, <2>4, <2>5, ListingGoodIsTyped
      DEF CommitPublish, ListingTypes, ListingTypeOK, UploadRow, JobRow, row
  <1>6. ASSUME NEW permanent \in BOOLEAN, CatchFailure(r, permanent)
        PROVE  ListingTypes'
    <2>1. work' \in [Request -> GoodWork]
      BY <1>0, <1>6, FinishIsGood DEF CatchFailure
    <2>2. upload' = upload \/ upload' = [upload EXCEPT ![u].status = "FAILED"]
          \/ upload' = [upload EXCEPT ![u].status = "REQUESTED"]
      BY <1>1, <1>6 DEF CatchFailure
    <2>3. upload' \in [Upload -> UploadRow]
      BY <1>0, <2>2 DEF UploadRow, UploadStatus
    <2>4. job' \in [Upload -> JobRow]
      <3>1. job[u].attempts \in 0..(MaxJobAttempts - 1)
        BY <1>0 DEF JobRow
      <3>2. PICK s \in {"waiting", "done"}, a \in 0..(MaxJobAttempts - 1) :
               job' = [job EXCEPT ![u].state = s, ![u].attempts = a]
        <4>1. CASE permanent \/ LastAttempt(u)
          BY <1>1, <1>6, <3>1, <4>1 DEF CatchFailure
        <4>2. CASE ~(permanent \/ LastAttempt(u))
          <5>1. job[u].attempts + 1 \in 0..(MaxJobAttempts - 1)
            BY <3>1, <4>2, ListingAssumption DEF LastAttempt
          <5>2. QED
            BY <1>1, <1>6, <4>2, <5>1 DEF CatchFailure
        <4>3. QED
          BY <4>1, <4>2
      <3>3. QED
        BY <1>0, <3>2 DEF JobRow
    <2>5. QED
      BY <1>6, <2>1, <2>3, <2>4, ListingGoodIsTyped
      DEF CatchFailure, ListingTypes, ListingTypeOK, UploadRow, JobRow, row, media
  <1>7. QED
    BY <1>3, <1>4, <1>5, <1>6

LEMMA QueueTypes ==
    ASSUME ListingTypes, NEW u \in Upload,
           StallJob(u) \/ \E r \in Request : TakeJob(r, u)
    PROVE  ListingTypes'
  <1>0. work \in [Request -> GoodWork] /\ job \in [Upload -> JobRow]
    BY DEF ListingTypes, ListingTypeOK, JobRow
  <1>1. CASE StallJob(u)
    <2>1. job' \in [Upload -> JobRow]
      BY <1>0, <1>1 DEF StallJob, JobRow
    <2>2. QED
      BY <1>1, <2>1
      DEF StallJob, ListingTypes, ListingTypeOK, JobRow, row, media
  <1>2. ASSUME NEW r \in Request, TakeJob(r, u)
        PROVE  ListingTypes'
    <2> DEFINE w == [NoWork EXCEPT !.phase = "take", !.upload = u]
    <2>1. w \in WorkRequest
      BY NoWorkIsGood DEF GoodWork, WorkRequest, NoWork
    <2>2. WorkFilled(w)
      BY ListingAssumption
      DEF NoWork, WorkFilled, Pricing, Dealing, Removing, Requesting, Converting
    <2>3. work' \in [Request -> GoodWork]
      BY <1>0, <1>2, <2>1, <2>2, BeginIsGood DEF TakeJob
    <2>4. job' \in [Upload -> JobRow] /\ disturbed' \subseteq Upload
      BY <1>0, <1>2 DEF TakeJob, JobRow, ListingTypes, ListingTypeOK
    <2>5. QED
      BY <1>2, <2>3, <2>4, ListingGoodIsTyped
      DEF TakeJob, ListingTypes, ListingTypeOK, JobRow, row, media
  <1>3. QED
    BY <1>1, <1>2

LEMMA ListingNextTypes == ListingTypes /\ [ListingNext]_listingVars => ListingTypes'
  <1> SUFFICES ASSUME ListingTypes, [ListingNext]_listingVars
               PROVE  ListingTypes'
    OBVIOUS
  <1>1. CASE UNCHANGED listingVars
    BY <1>1
    DEF listingVars, row, media, processing, ListingTypes, ListingTypeOK
  <1>2. ASSUME NEW r \in Request, ListingStep(r) \/ MediaStep(r)
        PROVE  ListingTypes'
    BY <1>2, ReceiveTypes, RowTypes, MediaTypes, JobTypes, QueueTypes
    DEF ListingStep, MediaStep
  <1>3. ASSUME NEW v \in {"ACTIVE", "REJECTED"}, Review(v)
        PROVE  ListingTypes'
    <2>1. version' \in 0..MaxVersion
      BY <1>3, ListingAssumption DEF Review, Touch, ListingTypes, ListingTypeOK
    <2>2. QED
      BY <1>3, <2>1
      DEF Review, ListingTypes, ListingTypeOK, ListingStatus, media, processing
  <1>4. CASE TakeDown
    <2>1. version' \in 0..MaxVersion
      BY <1>4, ListingAssumption DEF TakeDown, Touch, ListingTypes, ListingTypeOK
    <2>2. QED
      BY <1>4, <2>1
      DEF TakeDown, ListingTypes, ListingTypeOK, ListingStatus, media, processing
  <1>5. QED
    BY <1>1, <1>2, <1>3, <1>4, QueueTypes DEF ListingNext, ListingMoves

LEMMA ListingTypesInvariant == ListingSpec => []ListingTypes
  BY ListingInitTypes, ListingNextTypes, PTL DEF ListingSpec

\* The listing, its images and uploads, the queue and the requests stay well
\* typed: no job is tried more often than allowed, what is public is there.
THEOREM ListingTypeCorrect == ListingSpec => []ListingTypeOK
  BY ListingTypesInvariant, PTL DEF ListingTypes

-----------------------------------------------------------------------------
(* How a step moves the requests *)

\* Only the request that takes the step moves; a change of the images marks
\* the submissions that have checked them.
LEMMA ListingOthersStay ==
    ASSUME ListingTypes, NEW r \in Request, ListingStep(r) \/ MediaStep(r),
           ~CommitDelete(r), \A public \in BOOLEAN : ~CommitUpdate(r, public)
    PROVE  \A q \in Request \ {r} : work'[q] = work[q]
  <1>1. work \in [Request -> GoodWork]
    BY DEF ListingTypes
  <1>2. CASE ListingStep(r)
    BY <1>1, <1>2
    DEF ListingStep, ReceiveUpdate, ReadForUpdate, ReceiveSubmit, ReadForSubmit,
        CommitSubmit, ReceivePrice, ReadForPrice, CommitPrice, ReceiveDeal,
        ReadForDeal, CommitDeal, LoseWork, Begin, Finish, Advance, Moved
  <1>3. CASE MediaStep(r)
    BY <1>1, <1>3
    DEF MediaStep, ReceiveDelete, ReadForDelete, EraseFiles, TakeJob,
        ReceiveUpload, ReadForUpload, CommitUpload, Enqueue, FailUpload,
        ReadUpload, MarkProcessing, Convert, ReadForPublish, CommitPublish,
        RemoveOutputs, CatchFailure, Begin, Finish, Advance, Moved
  <1>4. QED
    BY <1>2, <1>3

LEMMA Marked ==
    ASSUME NEW w \in [Request -> GoodWork], NEW q \in Request
    PROVE  LET x == MarkSubmissions(w)[q]
           IN  /\ x.phase = w[q].phase /\ x.price = w[q].price
               /\ x.version = w[q].version /\ x.found = w[q].found
               /\ x.image = w[q].image /\ x.upload = w[q].upload
               /\ w[q].phase = "submit" => x.stale
               /\ w[q].phase # "submit" => x = w[q]
  <1>1. w[q] \in WorkRequest
    BY DEF GoodWork
  <1>2. MarkSubmissions(w)[q] = IF w[q].phase = "submit"
                                THEN [w[q] EXCEPT !.stale = TRUE] ELSE w[q]
    BY DEF MarkSubmissions
  <1>3. QED
    BY <1>1, <1>2 DEF WorkRequest

\* What a change of the images does to the requests.
LEMMA ImagesMark ==
    ASSUME ListingTypes, NEW r \in Request,
           \/ \E public \in BOOLEAN : CommitUpdate(r, public)
           \/ CommitDelete(r) /\ Removable(work[r].image)
    PROVE  /\ \E w \in [Request -> GoodWork] :
                 /\ work' = MarkSubmissions(w)
                 /\ \A q \in Request \ {r} : w[q] = work[q]
                 /\ \/ w[r] = NoWork /\ ~CommitDelete(r)
                    \/ w[r] = [work[r] EXCEPT !.phase = "erase"] /\ CommitDelete(r)
           /\ \A q \in Request : work'[q].phase = "submit" => work'[q].stale
  <1>0. work \in [Request -> GoodWork]
    BY DEF ListingTypes
  <1>1. \E w \in [Request -> GoodWork] :
            /\ work' = MarkSubmissions(w)
            /\ \A q \in Request \ {r} : w[q] = work[q]
            /\ \/ w[r] = NoWork /\ ~CommitDelete(r)
               \/ w[r] = [work[r] EXCEPT !.phase = "erase"] /\ CommitDelete(r)
    <2>1. CASE \E public \in BOOLEAN : CommitUpdate(r, public)
      <3> DEFINE w == [work EXCEPT ![r] = NoWork]
      <3>1. w \in [Request -> GoodWork] /\ w[r] = NoWork
            /\ \A q \in Request \ {r} : w[q] = work[q]
        BY <1>0, NoWorkIsGood
      <3>2. work' = MarkSubmissions(w) /\ ~CommitDelete(r)
        BY <2>1 DEF CommitUpdate, CommitDelete, At
      <3> HIDE DEF w
      <3>3. QED
        BY <3>1, <3>2
    <2>2. CASE CommitDelete(r) /\ Removable(work[r].image)
      <3> DEFINE w == Moved(work, r, "erase")
      <3>1. w \in [Request -> GoodWork]
        BY <1>0, <2>2, ListingMovedIsGood DEF CommitDelete, At, ListingFollows, Removing, WorkPhase
      <3>2. w[r] = [work[r] EXCEPT !.phase = "erase"]
            /\ \A q \in Request \ {r} : w[q] = work[q]
        BY <1>0 DEF Moved
      <3>3. work' = MarkSubmissions(w)
        BY <2>2 DEF CommitDelete
      <3> HIDE DEF w
      <3>4. QED
        BY <2>2, <3>1, <3>2, <3>3
    <2>3. QED
      BY <2>1, <2>2
  <1>2. QED
    BY <1>1, Marked

LEMMA ListingOthersKeep ==
    ASSUME ListingTypes, NEW r \in Request, ListingStep(r) \/ MediaStep(r),
           NEW q \in Request, q # r
    PROVE  /\ work'[q].phase = work[q].phase /\ work'[q].price = work[q].price
           /\ work'[q].version = work[q].version
           /\ work'[q].found = work[q].found
           /\ work'[q].image = work[q].image
           /\ work'[q].upload = work[q].upload
           /\ ~work'[q].stale => ~work[q].stale
  <1>1. CASE CommitDelete(r) /\ ~Removable(work[r].image)
    <2>1. work' = [work EXCEPT ![r] = NoWork] /\ work \in [Request -> GoodWork]
      BY <1>1 DEF CommitDelete, Finish, ListingTypes
    <2>2. work'[q] = work[q]
      BY <2>1
    <2>3. QED
      BY <2>2
  <1>2. CASE \/ \E public \in BOOLEAN : CommitUpdate(r, public)
             \/ CommitDelete(r) /\ Removable(work[r].image)
    <2>1. PICK w \in [Request -> GoodWork] :
              work' = MarkSubmissions(w) /\ \A p \in Request \ {r} : w[p] = work[p]
      BY <1>2, ImagesMark
    <2>2. w[q] = work[q]
      BY <2>1
    <2>3. QED
      BY <2>1, <2>2, Marked
  <1>3. CASE ~CommitDelete(r) /\ \A public \in BOOLEAN : ~CommitUpdate(r, public)
    BY <1>3, ListingOthersStay
  <1>4. QED
    BY <1>1, <1>2, <1>3

LEMMA Finished ==
    ASSUME ListingTypes, NEW r \in Request, Finish(r)
    PROVE  work'[r] = NoWork /\ work'[r].phase = "idle"
  BY DEF ListingTypes, Finish, NoWork

LEMMA ListingMovedTo ==
    ASSUME ListingTypes, NEW r \in Request, NEW p, work' = Moved(work, r, p)
    PROVE  work'[r] = [work[r] EXCEPT !.phase = p] /\ work'[r].phase = p
  BY DEF ListingTypes, Moved, GoodWork, WorkRequest

LEMMA AdvancedTo ==
    ASSUME ListingTypes, NEW r \in Request, NEW c, NEW p, Advance(r, c, p)
    PROVE  \/ c /\ work'[r] = [work[r] EXCEPT !.phase = p] /\ work'[r].phase = p
           \/ ~c /\ work'[r] = NoWork /\ work'[r].phase = "idle"
  BY Finished, ListingMovedTo DEF Advance

\* The phase each action leaves its request in.
LEMMA ListingPhases ==
    ASSUME ListingTypes, NEW r \in Request
    PROVE  /\ \A p \in Price : ReceiveUpdate(r, p) => work'[r].phase = "update"
           /\ ReadForUpdate(r) => work'[r].phase \in {"idle", "rewrite"}
           /\ \A public \in BOOLEAN :
                 CommitUpdate(r, public) => work'[r].phase = "idle"
           /\ ReceiveSubmit(r) => work'[r].phase = "check"
           /\ ReadForSubmit(r) => work'[r].phase \in {"idle", "submit"}
           /\ CommitSubmit(r) => work'[r].phase = "idle"
           /\ \A p \in Price, v \in 1..version :
                 ReceivePrice(r, p, v) => work'[r].phase = "priced"
           /\ ReadForPrice(r) => work'[r].phase \in {"idle", "price"}
           /\ CommitPrice(r) => work'[r].phase = "idle"
           /\ \A d \in Target, v \in 1..version :
                 ReceiveDeal(r, d, v) => work'[r].phase = "dealt"
           /\ ReadForDeal(r) => work'[r].phase \in {"idle", "deal"}
           /\ CommitDeal(r) => work'[r].phase = "idle"
           /\ LoseWork(r) => work'[r].phase = "idle"
  <1>0. work \in [Request -> GoodWork] /\ work[r] \in WorkRequest
    BY WorkAt DEF ListingTypes
  <1>1. \A p \in Price : ReceiveUpdate(r, p) => work'[r].phase = "update"
    BY <1>0 DEF ReceiveUpdate, Begin, NoWork
  <1>2. ReadForUpdate(r) => work'[r].phase \in {"idle", "rewrite"}
    BY AdvancedTo DEF ReadForUpdate
  <1>3. ASSUME NEW public \in BOOLEAN, CommitUpdate(r, public)
        PROVE  work'[r].phase = "idle"
    <2>1. PICK w \in [Request -> GoodWork] :
              /\ work' = MarkSubmissions(w)
              /\ w[r] = NoWork \/ CommitDelete(r)
      BY <1>3, ImagesMark
    <2>2. w[r] = NoWork
      BY <1>3, <2>1 DEF CommitUpdate, CommitDelete, At
    <2>3. QED
      BY <2>1, <2>2, Marked DEF NoWork
  <1>4. ReceiveSubmit(r) => work'[r].phase = "check"
    BY <1>0 DEF ReceiveSubmit, Begin, NoWork
  <1>5. ReadForSubmit(r) => work'[r].phase \in {"idle", "submit"}
    BY AdvancedTo DEF ReadForSubmit
  <1>6. \A p \in Price, v \in 1..version :
           ReceivePrice(r, p, v) => work'[r].phase = "priced"
    BY <1>0 DEF ReceivePrice, Begin, NoWork
  <1>7. ReadForPrice(r) => work'[r].phase \in {"idle", "price"}
    BY <1>0, Finished DEF ReadForPrice, WorkRequest
  <1>8. \A d \in Target, v \in 1..version :
           ReceiveDeal(r, d, v) => work'[r].phase = "dealt"
    BY <1>0 DEF ReceiveDeal, Begin, NoWork
  <1>9. ReadForDeal(r) => work'[r].phase \in {"idle", "deal"}
    BY <1>0, Finished DEF ReadForDeal, WorkRequest
  <1>10. CommitSubmit(r) \/ CommitPrice(r) \/ CommitDeal(r) \/ LoseWork(r)
            => work'[r].phase = "idle"
    BY Finished DEF CommitSubmit, CommitPrice, CommitDeal, LoseWork
  <1>11. QED
    BY <1>1, <1>2, <1>3, <1>4, <1>5, <1>6, <1>7, <1>8, <1>9, <1>10

LEMMA MediaPhases ==
    ASSUME ListingTypes, NEW r \in Request
    PROVE  /\ \A i \in Image : ReceiveDelete(r, i) => work'[r].phase = "remove"
           /\ ReadForDelete(r) => work'[r].phase \in {"idle", "delete"}
           /\ CommitDelete(r) => work'[r].phase \in {"idle", "erase"}
           /\ EraseFiles(r) => work'[r].phase = "idle"
           /\ \A u \in Upload : TakeJob(r, u) => work'[r].phase = "take"
           /\ \A u \in Upload, public \in BOOLEAN :
                 ReceiveUpload(r, u, public) => work'[r].phase = "upload"
           /\ ReadForUpload(r) => work'[r].phase \in {"idle", "keep"}
           /\ CommitUpload(r) => work'[r].phase \in {"idle", "enqueue"}
           /\ Enqueue(r) => work'[r].phase \in {"idle", "unqueued"}
           /\ FailUpload(r) => work'[r].phase = "idle"
           /\ ReadUpload(r) => work'[r].phase \in {"idle", "mark"}
           /\ MarkProcessing(r) => work'[r].phase = "convert"
           /\ Convert(r) => work'[r].phase \in {"publish", "broken"}
           /\ ReadForPublish(r) => work'[r].phase \in {"idle", "insert"}
           /\ CommitPublish(r) => work'[r].phase \in {"idle", "lost"}
           /\ RemoveOutputs(r) => work'[r].phase = "broken"
           /\ \A permanent \in BOOLEAN :
                 CatchFailure(r, permanent) => work'[r].phase = "idle"
  <1>0. work \in [Request -> GoodWork]
    BY DEF ListingTypes
  <1>1. \A i \in Image : ReceiveDelete(r, i) => work'[r].phase = "remove"
    BY <1>0 DEF ReceiveDelete, Begin, NoWork
  <1>2. \A u \in Upload : TakeJob(r, u) => work'[r].phase = "take"
    BY <1>0 DEF TakeJob, Begin, NoWork
  <1>3. \A u \in Upload, public \in BOOLEAN :
           ReceiveUpload(r, u, public) => work'[r].phase = "upload"
    BY <1>0 DEF ReceiveUpload, Begin, NoWork
  <1>4. ASSUME CommitDelete(r)
        PROVE  work'[r].phase \in {"idle", "erase"}
    <2>1. CASE Removable(work[r].image)
      <3>1. PICK w \in [Request -> GoodWork] :
                /\ work' = MarkSubmissions(w)
                /\ w[r] = NoWork \/ w[r] = [work[r] EXCEPT !.phase = "erase"]
        BY <1>4, <2>1, ImagesMark
      <3>2. w[r].phase \in {"idle", "erase"}
        BY <3>1, WorkAt DEF NoWork, WorkRequest
      <3>3. QED
        BY <3>1, <3>2, Marked
    <2>2. CASE ~Removable(work[r].image)
      BY <1>4, <2>2, Finished DEF CommitDelete
    <2>3. QED
      BY <2>1, <2>2
  <1>5. /\ ReadForDelete(r) => work'[r].phase \in {"idle", "delete"}
        /\ ReadForUpload(r) => work'[r].phase \in {"idle", "keep"}
        /\ CommitUpload(r) => work'[r].phase \in {"idle", "enqueue"}
        /\ ReadUpload(r) => work'[r].phase \in {"idle", "mark"}
        /\ ReadForPublish(r) => work'[r].phase \in {"idle", "insert"}
    BY AdvancedTo
    DEF ReadForDelete, ReadForUpload, CommitUpload, ReadUpload, ReadForPublish
  <1>6. /\ Enqueue(r) => work'[r].phase \in {"idle", "unqueued"}
        /\ MarkProcessing(r) => work'[r].phase = "convert"
        /\ Convert(r) => work'[r].phase \in {"publish", "broken"}
        /\ CommitPublish(r) => work'[r].phase \in {"idle", "lost"}
        /\ RemoveOutputs(r) => work'[r].phase = "broken"
    BY ListingMovedTo, Finished
    DEF Enqueue, MarkProcessing, Convert, CommitPublish, RemoveOutputs
  <1>7. /\ EraseFiles(r) \/ FailUpload(r) => work'[r].phase = "idle"
        /\ \A permanent \in BOOLEAN :
              CatchFailure(r, permanent) => work'[r].phase = "idle"
    BY Finished DEF EraseFiles, FailUpload, CatchFailure
  <1>8. QED
    BY <1>1, <1>2, <1>3, <1>4, <1>5, <1>6, <1>7

\* Which action brings a request to a phase.
LEMMA ListingEntered ==
    ASSUME ListingTypes, NEW r \in Request, ListingStep(r) \/ MediaStep(r)
    PROVE  /\ work'[r].phase = "submit" => ReadForSubmit(r)
           /\ work'[r].phase = "priced" =>
                 \E p \in Price, v \in 1..version : ReceivePrice(r, p, v)
           /\ work'[r].phase = "price" => ReadForPrice(r)
           /\ work'[r].phase = "erase" => CommitDelete(r)
           /\ work'[r].phase = "upload" =>
                 \E u \in Upload, public \in BOOLEAN : ReceiveUpload(r, u, public)
           /\ work'[r].phase = "keep" => ReadForUpload(r)
           /\ work'[r].phase = "enqueue" => CommitUpload(r)
           /\ work'[r].phase = "unqueued" => Enqueue(r)
           /\ work'[r].phase = "take" => \E u \in Upload : TakeJob(r, u)
           /\ work'[r].phase = "mark" => ReadUpload(r)
           /\ work'[r].phase = "convert" => MarkProcessing(r)
           /\ work'[r].phase = "publish" => Convert(r)
           /\ work'[r].phase = "insert" => ReadForPublish(r)
           /\ work'[r].phase = "lost" => CommitPublish(r)
           /\ work'[r].phase = "broken" => Convert(r) \/ RemoveOutputs(r)
  BY ListingPhases, MediaPhases DEF ListingStep, MediaStep

-----------------------------------------------------------------------------
(* The price before a change is the one recorded *)

\* A change of the price has read it at the version it names, or that version
\* is gone.
PriceInv ==
    /\ ~misrecorded
    /\ \A r \in Request :
          work[r].phase \in {"priced", "price"} => work[r].version <= version
    /\ \A r \in Request :
          work[r].phase = "price" /\ work[r].version = version
              => work[r].found = price

\* The price never moves without the version.
LEMMA PriceWriters ==
    ASSUME ListingTypes, PriceInv, NEW r \in Request, ListingStep(r) \/ MediaStep(r)
    PROVE  /\ ~misrecorded'
           /\ (version' = version /\ price' = price) \/ version' = version + 1
  <1>1. ASSUME NEW public \in BOOLEAN, CommitUpdate(r, public)
        PROVE  ~misrecorded' /\ version' = version + 1
    BY <1>1 DEF CommitUpdate, Touch, PriceInv
  <1>2. CASE CommitSubmit(r)
    BY <1>2 DEF CommitSubmit, Touch, PriceInv
  <1>3. CASE CommitPrice(r)
    BY <1>3 DEF CommitPrice, Touch, PriceInv, SameVersion, At
  <1>4. CASE CommitDeal(r)
    BY <1>4 DEF CommitDeal, Touch, PriceInv
  <1>5. CASE ~CommitSubmit(r) /\ ~CommitPrice(r) /\ ~CommitDeal(r)
             /\ \A public \in BOOLEAN : ~CommitUpdate(r, public)
    <2>1. UNCHANGED <<row, misrecorded>>
      BY <1>5
      DEF ListingStep, MediaStep, ReceiveUpdate, ReadForUpdate, ReceiveSubmit,
          ReadForSubmit, ReceivePrice, ReadForPrice, ReceiveDeal, ReadForDeal,
          LoseWork, ReceiveDelete, ReadForDelete, CommitDelete, EraseFiles,
          TakeJob, ReceiveUpload, ReadForUpload, CommitUpload, Enqueue,
          FailUpload, ReadUpload, MarkProcessing, Convert, ReadForPublish,
          CommitPublish, RemoveOutputs, CatchFailure
    <2>2. QED
      BY <2>1 DEF row, PriceInv
  <1>6. QED
    BY <1>1, <1>2, <1>3, <1>4, <1>5

LEMMA StepKeepsPriceInv ==
    ASSUME ListingTypes, PriceInv, NEW r \in Request, ListingStep(r) \/ MediaStep(r)
    PROVE  PriceInv'
  <1>1. /\ ~misrecorded'
        /\ (version' = version /\ price' = price) \/ version' = version + 1
    BY PriceWriters
  <1>2. version \in Nat /\ \A q \in Request : work[q].version \in Nat
    <2>1. version \in 0..MaxVersion
          /\ \A q \in Request : work[q].version \in 0..MaxVersion
      BY WorkAt DEF ListingTypes, ListingTypeOK, WorkRequest
    <2>2. QED
      BY <2>1, ListingAssumption
  <1>3. ASSUME NEW q \in Request, q # r
        PROVE  /\ work'[q].phase \in {"priced", "price"} => work'[q].version <= version'
               /\ work'[q].phase = "price" /\ work'[q].version = version'
                     => work'[q].found = price'
    BY <1>1, <1>2, <1>3, ListingOthersKeep DEF PriceInv
  <1>4. ASSUME work'[r].phase = "priced"
        PROVE  work'[r].version <= version'
    <2>1. PICK p \in Price, v \in 1..version : ReceivePrice(r, p, v)
      BY <1>4, ListingEntered
    <2>2. work'[r].version = v /\ version' = version
      BY <2>1 DEF ReceivePrice, Begin, NoWork, row, ListingTypes
    <2>3. QED
      BY <1>2, <2>2
  <1>5. ASSUME work'[r].phase = "price"
        PROVE  work'[r].version <= version' /\ work'[r].found = price'
    <2>1. ReadForPrice(r) /\ work[r].phase = "priced"
      BY <1>5, ListingEntered DEF ReadForPrice, At
    <2>2. work'[r].version = work[r].version /\ work'[r].found = price
      <3>1. work' = [work EXCEPT ![r] = [work[r] EXCEPT !.phase = "price",
                                                        !.found = price]]
        BY <1>5, <2>1, Finished DEF ReadForPrice
      <3>2. work[r] \in WorkRequest /\ work \in [Request -> GoodWork]
        BY WorkAt DEF ListingTypes
      <3>3. QED
        BY <3>1, <3>2 DEF WorkRequest
    <2>3. version' = version /\ price' = price
      BY <2>1 DEF ReadForPrice, row
    <2>4. QED
      BY <1>2, <2>1, <2>2, <2>3 DEF PriceInv
  <1>6. QED
    BY <1>1, <1>3, <1>4, <1>5 DEF PriceInv

LEMMA PriceInvariant == ListingSpec => []PriceInv
  <1>1. ListingInit => PriceInv
    BY DEF ListingInit, PriceInv, NoWork
  <1>2. ListingTypes /\ PriceInv /\ [ListingNext]_listingVars => PriceInv'
    <2> SUFFICES ASSUME ListingTypes, PriceInv, [ListingNext]_listingVars
                 PROVE  PriceInv'
      OBVIOUS
    <2>1. CASE UNCHANGED <<row, work, misrecorded>>
      BY <2>1 DEF row, PriceInv
    <2>2. ASSUME TakeDown \/ \E v \in {"ACTIVE", "REJECTED"} : Review(v)
          PROVE  PriceInv'
      <3>1. version \in Nat /\ \A q \in Request : work[q].version \in Nat
        <4>1. version \in 0..MaxVersion
              /\ \A q \in Request : work[q].version \in 0..MaxVersion
          BY WorkAt DEF ListingTypes, ListingTypeOK, WorkRequest
        <4>2. QED
          BY <4>1, ListingAssumption
      <3>2. version' = version + 1 /\ UNCHANGED <<work, misrecorded>>
        BY <2>2 DEF Review, TakeDown, Touch
      <3>3. QED
        BY <3>1, <3>2 DEF PriceInv
    <2>3. ASSUME NEW u \in Upload, StallJob(u)
          PROVE  PriceInv'
      BY <2>1, <2>3 DEF StallJob
    <2>4. QED
      BY <2>1, <2>2, <2>3, StepKeepsPriceInv
      DEF ListingNext, ListingMoves, listingVars
  <1>3. QED
    BY <1>1, <1>2, ListingTypesInvariant, PTL DEF ListingSpec

\* The price history that watchers are told is the listing's, whatever other
\* changes come between the read of the old price and the write of the new.
THEOREM HistoryIsTrue == ListingSpec => []ChangesAreTrue
  BY PriceInvariant, PTL DEF PriceInv, ChangesAreTrue

-----------------------------------------------------------------------------
(* What the public sees *)

\* A listing under review or on offer has a public image and an open deal; a
\* submission on its way has seen an image that is still there.
PublicInv ==
    /\ status \in {"PENDING_REVIEW", "ACTIVE"} /\ ~overtaken
           => shown # {} /\ deal \notin Closed
    /\ deal \in Closed /\ ~overtaken => status = "INACTIVE"
    /\ \A r \in Request :
          work[r].phase = "submit" /\ ~work[r].stale => shown # {}

\* The requests that write the status, the deal or the public images.
LEMMA PublicWriters ==
    ASSUME ListingTypes, NEW r \in Request, ListingStep(r) \/ MediaStep(r),
           ~CommitSubmit(r), ~CommitDeal(r), ~CommitDelete(r), ~CommitPublish(r),
           \A public \in BOOLEAN : ~CommitUpdate(r, public)
    PROVE  UNCHANGED <<status, deal, shown, overtaken>>
  BY DEF ListingStep, MediaStep, ReceiveUpdate, ReadForUpdate, ReceiveSubmit,
         ReadForSubmit, ReceivePrice, ReadForPrice, CommitPrice, ReceiveDeal,
         ReadForDeal, LoseWork, ReceiveDelete, ReadForDelete, EraseFiles,
         TakeJob, ReceiveUpload, ReadForUpload, CommitUpload, Enqueue,
         FailUpload, ReadUpload, MarkProcessing, Convert, ReadForPublish,
         RemoveOutputs, CatchFailure, row, media

\* A submission that goes on has found a public image now or before.
LEMMA SubmissionsSaw ==
    ASSUME ListingTypes, PublicInv, NEW r \in Request, ListingStep(r) \/ MediaStep(r),
           NEW q \in Request, work'[q].phase = "submit", ~work'[q].stale
    PROVE  shown # {}
  <1>1. CASE q # r
    BY <1>1, ListingOthersKeep DEF PublicInv
  <1>2. CASE q = r
    <2>1. ReadForSubmit(r)
      BY <1>2, ListingEntered
    <2>2. QED
      BY <1>2, <2>1, AdvancedTo DEF ReadForSubmit, Submittable
  <1>3. QED
    BY <1>1, <1>2

LEMMA StepKeepsPublicInv ==
    ASSUME ListingTypes, PublicInv, NEW r \in Request, ListingStep(r) \/ MediaStep(r)
    PROVE  PublicInv'
  <1>0. status \in ListingStatus
    BY DEF ListingTypes, ListingTypeOK
  <1>1. ASSUME NEW public \in BOOLEAN, CommitUpdate(r, public)
        PROVE  PublicInv'
    <2>1. \A q \in Request : work'[q].phase = "submit" => work'[q].stale
      BY <1>1, ImagesMark
    <2>2. status' = "DRAFT" /\ deal' = deal /\ (overtaken' <=> overtaken \/ ~Draft)
      BY <1>1 DEF CommitUpdate
    <2>3. ~overtaken' => deal' \notin Closed
      BY <2>2 DEF PublicInv, Draft
    <2>4. QED
      BY <2>1, <2>2, <2>3 DEF PublicInv
  <1>2. CASE CommitDelete(r)
    <2>1. CASE Removable(work[r].image)
      <3>1. \A q \in Request : work'[q].phase = "submit" => work'[q].stale
        BY <1>2, <2>1, ImagesMark
      <3>2. UNCHANGED <<status, deal, overtaken>>
            /\ shown' = shown \ {work[r].image}
        BY <1>2, <2>1 DEF CommitDelete, row
      <3>3. status # "PENDING_REVIEW" /\ (status = "ACTIVE" => shown' # {} \/ shown = {})
        BY <2>1, <3>2 DEF Removable, MediaEditable, Draft
      <3>4. QED
        BY <3>1, <3>2, <3>3 DEF PublicInv
    <2>2. CASE ~Removable(work[r].image)
      <3>1. UNCHANGED <<status, deal, shown, overtaken>>
        BY <1>2, <2>2 DEF CommitDelete, row
      <3>2. QED
        BY <3>1, SubmissionsSaw DEF PublicInv
    <2>3. QED
      BY <2>1, <2>2
  <1>3. CASE CommitSubmit(r)
    <2>1. UNCHANGED <<deal, shown>>
      BY <1>3 DEF CommitSubmit, media
    <2>2. CASE Draft
      <3>1. status' = "PENDING_REVIEW" /\ (overtaken' <=> overtaken \/ work[r].stale)
        BY <1>3, <2>2 DEF CommitSubmit
      <3>2. ~overtaken' => shown # {} /\ deal \notin Closed
        BY <1>3, <2>2, <3>1 DEF CommitSubmit, PublicInv, Draft, At
      <3>3. QED
        BY <2>1, <3>1, <3>2, SubmissionsSaw DEF PublicInv
    <2>3. CASE ~Draft
      <3>1. UNCHANGED <<status, overtaken>>
        BY <1>3, <2>3 DEF CommitSubmit
      <3>2. QED
        BY <2>1, <3>1, SubmissionsSaw DEF PublicInv
    <2>4. QED
      BY <2>2, <2>3
  <1>4. CASE CommitDeal(r)
    <2>1. UNCHANGED <<shown, overtaken>>
      BY <1>4 DEF CommitDeal, media
    <2>2. \/ UNCHANGED <<status, deal>>
          \/ status = "ACTIVE" /\ status' = Publication(deal')
      BY <1>4 DEF CommitDeal
    <2>3. QED
      BY <2>1, <2>2, SubmissionsSaw DEF PublicInv, Publication
  <1>5. CASE CommitPublish(r)
    <2>1. UNCHANGED <<status, deal, overtaken>> /\ shown \subseteq shown'
      BY <1>5 DEF CommitPublish, row, media
    <2>2. QED
      BY <2>1, SubmissionsSaw DEF PublicInv
  <1>6. CASE UNCHANGED <<status, deal, shown, overtaken>>
    BY <1>6, SubmissionsSaw DEF PublicInv
  <1>7. QED
    BY <1>1, <1>2, <1>3, <1>4, <1>5, <1>6, PublicWriters

LEMMA PublicInvariant == ListingSpec => []PublicInv
  <1>1. ListingInit => PublicInv
    BY DEF ListingInit, PublicInv, NoWork, Closed
  <1>2. ListingTypes /\ PublicInv /\ [ListingNext]_listingVars => PublicInv'
    <2> SUFFICES ASSUME ListingTypes, PublicInv, [ListingNext]_listingVars
                 PROVE  PublicInv'
      OBVIOUS
    <2>1. CASE UNCHANGED <<row, media, work, overtaken>>
      BY <2>1 DEF row, media, PublicInv
    <2>2. ASSUME NEW v \in {"ACTIVE", "REJECTED"}, Review(v)
          PROVE  PublicInv'
      BY <2>2 DEF Review, Reviewable, PublicInv, media
    <2>3. ASSUME NEW u \in Upload, StallJob(u)
          PROVE  PublicInv'
      BY <2>1, <2>3 DEF StallJob
    <2>4. CASE TakeDown
      BY <2>4 DEF TakeDown, PublicInv, media
    <2>5. QED
      BY <2>1, <2>2, <2>3, <2>4, StepKeepsPublicInv
      DEF ListingNext, ListingMoves, listingVars
  <1>3. QED
    BY <1>1, <1>2, ListingTypesInvariant, PTL DEF ListingSpec

\* A listing on offer shows an image and a deal that is open, unless an update
\* or a submission has committed on a read that was stale.
THEOREM OffersAreSound == ListingSpec => []PublicListingsAreSound
  <1>1. PublicInv => PublicListingsAreSound
    BY DEF PublicInv, PublicListingsAreSound
  <1>2. QED
    BY <1>1, PublicInvariant, PTL

-----------------------------------------------------------------------------
(* An upload that ends READY has made one image, any other has made none *)

\* Images are numbered in their order, and a deleted one does not come back.
StoredInv ==
    /\ images \subseteq 1..stored
    /\ \A u \in Upload : upload[u].image \in 0..stored
    /\ \A r \in Request :
          work[r].phase = "erase" => work[r].image \in (1..stored) \ images

\* The row of an upload agrees with its job and its files.
WholeRow(u) ==
    /\ upload[u].made = IF upload[u].status = "READY" THEN 1 ELSE 0
    /\ upload[u].image \in images => u \in files
    /\ upload[u].status # "READY" => upload[u].image = 0
    /\ upload[u].status = "READY" => job[u].state = "done"
    /\ upload[u].status = "NONE" => job[u].state = "none"

\* A request that asks for the upload has no job yet; a run has one that is
\* not done, and its files once they are converted.
WholeWork(r, u) ==
    work[r].upload = u =>
        /\ work[r].phase \in Requesting => job[u].state = "none"
        /\ work[r].phase \in {"enqueue", "unqueued"} => upload[u].status # "NONE"
        /\ work[r].phase \in Converting => job[u].state \in {"waiting", "active"}
        /\ work[r].phase \in {"publish", "insert"} => u \in files

Alone(u) ==
    \A q, r \in Request : work[q].upload = u /\ work[r].upload = u => q = r

WholeAt(u) == WholeRow(u) /\ Alone(u) /\ \A r \in Request : WholeWork(r, u)

UploadInv == StoredInv /\ \A u \in Upload \ disturbed : WholeAt(u)

\* Which requests write the images.
LEMMA ImageWriters ==
    ASSUME ListingTypes, StoredInv, NEW r \in Request, ListingStep(r) \/ MediaStep(r)
    PROVE  /\ stored \in Nat /\ stored' \in {stored, stored + 1}
           /\ \A i \in images' : i \in images \/ (i = stored + 1 /\ i = stored')
           /\ CommitDelete(r) /\ Removable(work[r].image) =>
                 stored' = stored /\ images' = images \ {work[r].image}
  <1>1. stored \in Nat
    BY ListingAssumption DEF ListingTypes, ListingTypeOK, Image
  <1>2. ASSUME NEW public \in BOOLEAN, CommitUpdate(r, public)
        PROVE  stored' = stored + 1 /\ images' = {stored + 1} /\ ~CommitDelete(r)
    BY <1>2 DEF CommitUpdate, CommitDelete, At
  <1>3. CASE CommitDelete(r)
    <2>1. stored' = stored
          /\ IF Removable(work[r].image) THEN images' = images \ {work[r].image}
             ELSE images' = images
      BY <1>3 DEF CommitDelete
    <2>2. QED
      BY <1>1, <2>1
  <1>4. CASE CommitPublish(r)
    <2>1. ~CommitDelete(r)
      BY <1>4 DEF CommitPublish, CommitDelete, At
    <2>2. \/ stored' = stored + 1 /\ images' = images \cup {stored + 1}
          \/ stored' = stored /\ images' = images
      BY <1>4 DEF CommitPublish, media
    <2>3. QED
      BY <1>1, <2>1, <2>2
  <1>5. CASE ~CommitDelete(r) /\ ~CommitPublish(r)
             /\ \A public \in BOOLEAN : ~CommitUpdate(r, public)
    <2>1. UNCHANGED media
      BY <1>5
      DEF ListingStep, MediaStep, ReceiveUpdate, ReadForUpdate, ReceiveSubmit,
          ReadForSubmit, CommitSubmit, ReceivePrice, ReadForPrice, CommitPrice,
          ReceiveDeal, ReadForDeal, CommitDeal, LoseWork, ReceiveDelete,
          ReadForDelete, EraseFiles, TakeJob, ReceiveUpload, ReadForUpload,
          CommitUpload, Enqueue, FailUpload, ReadUpload, MarkProcessing,
          Convert, ReadForPublish, RemoveOutputs, CatchFailure
    <2>2. stored' = stored /\ images' = images
      BY <2>1 DEF media
    <2>3. QED
      BY <1>1, <1>5, <2>2
  <1>6. QED
    BY <1>1, <1>2, <1>3, <1>4, <1>5

\* A step leaves the uploads alone that its request does not name.
LEMMA Bystanders ==
    ASSUME ListingTypes, NEW r \in Request, ListingStep(r) \/ MediaStep(r)
    PROVE  /\ disturbed \subseteq disturbed'
           /\ \A u \in Upload :
                 work[r].upload # u /\ ~TakeJob(r, u) =>
                    /\ upload'[u] = upload[u] /\ job'[u] = job[u]
                    /\ u \in files =>
                          \/ u \in files'
                          \/ work[r].phase = "erase"
                             /\ upload[u].image = work[r].image
  <1>0. upload \in [Upload -> UploadRow] /\ job \in [Upload -> JobRow]
    BY DEF ListingTypes, ListingTypeOK, UploadRow, JobRow
  <1>1. CASE CommitUpload(r) \/ Enqueue(r) \/ FailUpload(r)
    BY <1>0, <1>1 DEF CommitUpload, Enqueue, FailUpload
  <1>2. CASE ReadUpload(r) \/ MarkProcessing(r) \/ Convert(r) \/ ReadForPublish(r)
    BY <1>0, <1>2 DEF ReadUpload, MarkProcessing, Convert, ReadForPublish, JobDone
  <1>3. CASE CommitPublish(r) \/ RemoveOutputs(r)
             \/ \E permanent \in BOOLEAN : CatchFailure(r, permanent)
    BY <1>0, <1>3
    DEF CommitPublish, RemoveOutputs, CatchFailure, Published, RolledBack, JobDone
  <1>4. CASE EraseFiles(r)
    BY <1>4 DEF EraseFiles, At
  <1>5. ASSUME NEW u \in Upload, TakeJob(r, u)
        PROVE  /\ disturbed \subseteq disturbed' /\ UNCHANGED <<upload, files>>
               /\ \A v \in Upload : v # u => job'[v] = job[v]
    BY <1>0, <1>5 DEF TakeJob
  <1>6. CASE UNCHANGED processing
    BY <1>6 DEF processing
  <1>7. \/ CommitUpload(r) \/ Enqueue(r) \/ FailUpload(r)
        \/ ReadUpload(r) \/ MarkProcessing(r) \/ Convert(r) \/ ReadForPublish(r)
        \/ CommitPublish(r) \/ RemoveOutputs(r)
        \/ \E permanent \in BOOLEAN : CatchFailure(r, permanent)
        \/ EraseFiles(r) \/ (\E u \in Upload : TakeJob(r, u))
        \/ UNCHANGED processing
    BY DEF ListingStep, MediaStep, ReceiveUpdate, ReadForUpdate, CommitUpdate,
           ReceiveSubmit, ReadForSubmit, CommitSubmit, ReceivePrice,
           ReadForPrice, CommitPrice, ReceiveDeal, ReadForDeal, CommitDeal,
           LoseWork, ReceiveDelete, ReadForDelete, CommitDelete, ReceiveUpload,
           ReadForUpload
  <1>8. CASE \E u \in Upload : TakeJob(r, u)
    BY <1>5, <1>8
  <1>9. QED
    BY <1>1, <1>2, <1>3, <1>4, <1>6, <1>7, <1>8

\* A request names the upload it named before, unless it is new.
LEMMA UploadKept ==
    ASSUME ListingTypes, ListingTypes', NEW r \in Request,
           ListingStep(r) \/ MediaStep(r), NEW u \in Upload, work'[r].upload = u
    PROVE  \/ work[r].upload = u
           \/ TakeJob(r, u)
           \/ \E public \in BOOLEAN : ReceiveUpload(r, u, public)
  <1>0. work \in [Request -> GoodWork] /\ work[r] \in WorkRequest
    BY WorkAt DEF ListingTypes
  <1>1. work'[r].phase \in Requesting \cup Converting
    <2>1. work'[r] \in GoodWork /\ u # None
      BY ListingAssumption DEF ListingTypes
    <2>2. QED
      BY <2>1 DEF GoodWork, WorkFilled
  <1>2. work'[r] # NoWork
    BY <1>1 DEF NoWork, Requesting, Converting
  <1>3. CASE \/ ReadForUpload(r) \/ CommitUpload(r) \/ Enqueue(r)
             \/ ReadUpload(r) \/ MarkProcessing(r) \/ Convert(r)
             \/ ReadForPublish(r) \/ CommitPublish(r) \/ RemoveOutputs(r)
    <2>1. \E p : work'[r] = [work[r] EXCEPT !.phase = p]
      <3>1. CASE ReadForUpload(r) \/ CommitUpload(r) \/ ReadUpload(r) \/ ReadForPublish(r)
        BY <1>2, <3>1, AdvancedTo
        DEF ReadForUpload, CommitUpload, ReadUpload, ReadForPublish
      <3>2. CASE Enqueue(r) \/ CommitPublish(r)
        BY <1>2, <3>2, Finished, ListingMovedTo DEF Enqueue, CommitPublish
      <3>3. CASE MarkProcessing(r) \/ Convert(r) \/ RemoveOutputs(r)
        BY <3>3, ListingMovedTo DEF MarkProcessing, Convert, RemoveOutputs
      <3>4. QED
        BY <1>3, <3>1, <3>2, <3>3
    <2>2. QED
      BY <1>0, <2>1 DEF WorkRequest
  <1>4. ASSUME NEW v \in Upload, TakeJob(r, v)
        PROVE  u = v
    BY <1>0, <1>4 DEF TakeJob, Begin, NoWork
  <1>5. ASSUME NEW v \in Upload, NEW public \in BOOLEAN, ReceiveUpload(r, v, public)
        PROVE  u = v
    BY <1>0, <1>5 DEF ReceiveUpload, Begin, NoWork
  <1>6. QED
    BY <1>1, <1>3, <1>4, <1>5, ListingEntered DEF Requesting, Converting

\* The number of an upload's image is the last one given out when it is new.
LEMMA ImageNumbers ==
    ASSUME ListingTypes, NEW r \in Request, ListingStep(r) \/ MediaStep(r),
           NEW u \in Upload
    PROVE  \/ upload'[u].image \in {0, upload[u].image}
           \/ upload'[u].image = stored'
  <1>0. upload \in [Upload -> UploadRow]
    BY DEF ListingTypes, ListingTypeOK, UploadRow
  <1>1. CASE work[r].upload # u \/ TakeJob(r, u)
    BY <1>1, Bystanders DEF TakeJob
  <1>2. CASE CommitUpload(r) \/ FailUpload(r) \/ MarkProcessing(r)
    <2>1. CASE CommitUpload(r)
      <3> DEFINE w == [NoUpload EXCEPT !.status = "REQUESTED",
                                       !.public = work[r].public]
      <3>1. upload' = upload \/ upload' = [upload EXCEPT ![work[r].upload] = w]
        BY <2>1 DEF CommitUpload
      <3>2. w.image = 0
        BY DEF NoUpload
      <3> HIDE DEF w
      <3>3. upload'[u] = upload[u] \/ upload'[u] = w
        BY <1>0, <3>1
      <3>4. QED
        BY <3>2, <3>3
    <2>2. CASE FailUpload(r) \/ MarkProcessing(r)
      BY <1>0, <2>2 DEF FailUpload, MarkProcessing, UploadRow
    <2>3. QED
      BY <1>2, <2>1, <2>2
  <1>3. CASE CommitPublish(r)
    BY <1>0, <1>3 DEF CommitPublish, Published, RolledBack, UploadRow
  <1>4. CASE \E permanent \in BOOLEAN : CatchFailure(r, permanent)
    BY <1>0, <1>4 DEF CatchFailure, UploadRow
  <1>5. CASE UNCHANGED upload
    BY <1>5
  <1>6. \/ CommitUpload(r) \/ FailUpload(r) \/ MarkProcessing(r) \/ CommitPublish(r)
        \/ \E permanent \in BOOLEAN : CatchFailure(r, permanent)
        \/ UNCHANGED upload
    BY DEF ListingStep, MediaStep, ReceiveUpdate, ReadForUpdate, CommitUpdate,
           ReceiveSubmit, ReadForSubmit, CommitSubmit, ReceivePrice,
           ReadForPrice, CommitPrice, ReceiveDeal, ReadForDeal, CommitDeal,
           LoseWork, ReceiveDelete, ReadForDelete, CommitDelete, ReceiveUpload,
           ReadForUpload, EraseFiles, TakeJob, Enqueue, ReadUpload, Convert,
           ReadForPublish, RemoveOutputs, processing
  <1>7. QED
    BY <1>1, <1>2, <1>3, <1>4, <1>5, <1>6

LEMMA StepKeepsStoredInv ==
    ASSUME ListingTypes, StoredInv, NEW r \in Request, ListingStep(r) \/ MediaStep(r)
    PROVE  StoredInv'
  <1>1. stored \in Nat /\ stored' \in {stored, stored + 1}
        /\ \A i \in images' : i \in images \/ (i = stored + 1 /\ i = stored')
    BY ImageWriters
  <1>2. images' \subseteq 1..stored'
    <2>1. \A i \in images' : i \in 1..stored \/ (i = stored + 1 /\ i = stored')
      BY <1>1 DEF StoredInv
    <2>2. QED
      BY <1>1, <2>1
  <1>3. \A u \in Upload : upload'[u].image \in 0..stored'
    BY <1>1, ImageNumbers DEF StoredInv
  <1>4. ASSUME NEW q \in Request, work'[q].phase = "erase"
        PROVE  work'[q].image \in (1..stored') \ images'
    <2>1. CASE q # r
      <3>1. work'[q].image = work[q].image
            /\ work[q].image \in (1..stored) \ images
        BY <1>4, <2>1, ListingOthersKeep DEF StoredInv
      <3>2. QED
        BY <1>1, <3>1
    <2>2. CASE q = r
      <3>1. CommitDelete(r)
        BY <1>4, <2>2, ListingEntered
      <3>2. Removable(work[r].image)
        BY <1>4, <2>2, <3>1, Finished DEF CommitDelete
      <3>3. work[r].image \in images
        BY <3>2 DEF Removable
      <3>4. work'[r].image = work[r].image
        <4>1. PICK w \in [Request -> GoodWork] :
                  /\ work' = MarkSubmissions(w)
                  /\ \/ w[r] = NoWork /\ ~CommitDelete(r)
                     \/ w[r] = [work[r] EXCEPT !.phase = "erase"]
          BY <3>1, <3>2, ImagesMark
        <4>2. w[r].image = work[r].image
          BY <3>1, <4>1, WorkAt DEF WorkRequest
        <4>3. QED
          BY <4>1, <4>2, Marked
      <3>5. stored' = stored /\ images' = images \ {work[r].image}
        BY <3>1, <3>2, ImageWriters
      <3>6. QED
        BY <2>2, <3>3, <3>4, <3>5 DEF StoredInv
    <2>3. QED
      BY <2>1, <2>2
  <1>5. QED
    BY <1>2, <1>3, <1>4 DEF StoredInv

\* An image that is shown after the step was shown before it, or is new.
LEMMA OldImages ==
    ASSUME ListingTypes, StoredInv, NEW r \in Request, ListingStep(r) \/ MediaStep(r),
           NEW i \in 0..stored, i \in images'
    PROVE  i \in images
  <1>1. stored \in Nat /\ (i \in images \/ i = stored + 1)
    BY ImageWriters
  <1>2. QED
    BY <1>1

\* An upload that the request names neither before nor after its step.
LEMMA BystanderStaysWhole ==
    ASSUME ListingTypes, StoredInv, NEW r \in Request, ListingStep(r) \/ MediaStep(r),
           NEW u \in Upload, WholeAt(u),
           work[r].upload # u, work'[r].upload # u
    PROVE  WholeAt(u)'
  <1>1. ~TakeJob(r, u)
    BY DEF TakeJob, Begin, NoWork, ListingTypes
  <1>2. upload'[u] = upload[u] /\ job'[u] = job[u]
    BY <1>1, Bystanders
  <1>3. work[r].phase = "erase" => work[r].image \in (1..stored) \ images
    BY DEF StoredInv
  <1>4. upload[u].image \in 0..stored
    BY DEF StoredInv
  <1>5. u \in files => u \in files' \/ (upload[u].image \in 1..stored /\ upload[u].image \notin images)
    BY <1>1, <1>3, Bystanders
  <1>6. WholeRow(u)'
    <2>1. upload[u].image \in images' => upload[u].image \in images
      BY <1>4, OldImages
    <2>2. upload[u].image \in images' => u \in files'
      BY <1>5, <2>1 DEF WholeAt, WholeRow
    <2>3. QED
      BY <1>2, <2>2 DEF WholeAt, WholeRow
  <1>7. ASSUME NEW q \in Request
        PROVE  WholeWork(q, u)'
    <2>1. CASE q = r
      BY <2>1 DEF WholeWork
    <2>2. CASE q # r
      <3>1. work'[q].upload = work[q].upload /\ work'[q].phase = work[q].phase
        BY <2>2, ListingOthersKeep
      <3>2. ASSUME work[q].upload = u, work[q].phase \in {"publish", "insert"}
            PROVE  u \in files'
        <4>1. u \in files /\ job[u].state \in {"waiting", "active"}
          BY <3>2 DEF WholeAt, WholeWork, Converting
        <4>2. upload[u].image = 0
          BY <4>1 DEF WholeAt, WholeRow
        <4>3. QED
          BY <1>5, <4>1, <4>2
      <3>3. WholeWork(q, u)
        BY DEF WholeAt
      <3>4. QED
        BY <1>2, <3>1, <3>2, <3>3 DEF WholeWork
    <2>3. QED
      BY <2>1, <2>2
  <1>8. Alone(u)'
    BY ListingOthersKeep DEF WholeAt, Alone
  <1>9. QED
    BY <1>6, <1>7, <1>8 DEF WholeAt

\* When the request alone names the upload, only its own phase matters.
LEMMA AloneIsEnough ==
    ASSUME ListingTypes, NEW r \in Request, ListingStep(r) \/ MediaStep(r),
           NEW u \in Upload, \A q \in Request \ {r} : work[q].upload # u,
           WholeRow(u)', WholeWork(r, u)'
    PROVE  WholeAt(u)'
  <1>1. \A q \in Request \ {r} : work'[q].upload # u
    BY ListingOthersKeep
  <1>2. \A q \in Request : WholeWork(q, u)'
    BY <1>1 DEF WholeWork
  <1>3. Alone(u)'
    BY <1>1 DEF Alone
  <1>4. QED
    BY <1>2, <1>3 DEF WholeAt

\* The step of the request that asks for the upload.
LEMMA AskingStaysWhole ==
    ASSUME ListingTypes, StoredInv, NEW r \in Request, NEW u \in Upload, WholeAt(u),
           \/ ReceiveUpload(r, u, TRUE) \/ ReceiveUpload(r, u, FALSE)
           \/ /\ work[r].upload = u
              /\ \/ ReadForUpload(r) \/ CommitUpload(r) \/ Enqueue(r)
                 \/ FailUpload(r),
           u \notin disturbed'
    PROVE  WholeAt(u)'
  <1>0. upload \in [Upload -> UploadRow] /\ job \in [Upload -> JobRow]
        /\ work \in [Request -> GoodWork] /\ work[r] \in WorkRequest
    BY WorkAt DEF ListingTypes, ListingTypeOK, UploadRow, JobRow
  <1>1. MediaStep(r)
    BY DEF MediaStep
  <1>2. 0 \notin images /\ images' = images
    BY DEF StoredInv, ReceiveUpload, ReadForUpload, CommitUpload, Enqueue,
           FailUpload, media
  <1>3. ASSUME NEW public \in BOOLEAN, ReceiveUpload(r, u, public)
        PROVE  WholeAt(u)'
    <2>1. work'[r].upload = u /\ work'[r].phase = "upload"
      BY <1>0, <1>3 DEF ReceiveUpload, Begin, NoWork
    <2>2. UNCHANGED <<upload, job, files>>
      BY <1>3 DEF ReceiveUpload, processing
    <2>3. WholeRow(u)'
      BY <1>2, <2>2 DEF WholeAt, WholeRow
    <2>4. job[u].state = "none"
      BY <1>3 DEF ReceiveUpload, WholeAt, WholeRow
    <2>5. WholeWork(r, u)'
      BY <2>1, <2>2, <2>4 DEF WholeWork, Converting
    <2>6. \A q \in Request : work[q].upload # u
      BY <1>3 DEF ReceiveUpload
    <2>7. QED
      BY <1>1, <2>3, <2>5, <2>6, AloneIsEnough
  <1>4. ASSUME work[r].upload = u
        PROVE  \A q \in Request \ {r} : work[q].upload # u
    BY <1>4 DEF WholeAt, Alone
  <1>5. ASSUME work[r].upload = u, work[r].phase \in Requesting
        PROVE  job[u].state = "none" /\ upload[u].status # "READY"
               /\ upload[u].image = 0 /\ upload[u].made = 0
    <2>1. job[u].state = "none"
      BY <1>5 DEF WholeAt, WholeWork
    <2>2. QED
      BY <2>1 DEF WholeAt, WholeRow
  <1>6. CASE work[r].upload = u /\ ReadForUpload(r)
    <2>1. work'[r] = NoWork \/ work'[r] = [work[r] EXCEPT !.phase = "keep"]
      BY <1>6, AdvancedTo DEF ReadForUpload
    <2>2. UNCHANGED <<upload, job, files>>
      BY <1>6 DEF ReadForUpload, processing
    <2>3. job[u].state = "none"
      BY <1>5, <1>6 DEF ReadForUpload, At, Requesting
    <2>4. work'[r].phase \in {"idle", "keep"}
      BY <1>0, <2>1 DEF NoWork, WorkRequest
    <2>5. WholeRow(u)' /\ WholeWork(r, u)'
      BY <1>2, <2>2, <2>3, <2>4 DEF WholeAt, WholeRow, WholeWork, Converting
    <2>6. QED
      BY <1>1, <1>4, <1>6, <2>5, AloneIsEnough
  <1>7. CASE work[r].upload = u /\ CommitUpload(r)
    <2>1. work'[r].phase \in {"idle", "enqueue"}
          /\ (work'[r].phase = "enqueue" => MediaEditable /\ BelowLimit)
      BY <1>7, AdvancedTo DEF CommitUpload
    <2>2. UNCHANGED <<job, files>>
      BY <1>7 DEF CommitUpload
    <2>3. job[u].state = "none" /\ upload[u].image = 0 /\ upload[u].made = 0
      BY <1>5, <1>7 DEF CommitUpload, At, Requesting
    <2>4. IF MediaEditable /\ BelowLimit
          THEN /\ upload'[u].status = "REQUESTED" /\ upload'[u].image = 0
               /\ upload'[u].made = 0
          ELSE upload' = upload
      BY <1>0, <1>7 DEF CommitUpload, NoUpload
    <2>5. WholeRow(u)'
      BY <1>2, <2>2, <2>3, <2>4 DEF WholeAt, WholeRow
    <2>6. WholeWork(r, u)'
      BY <2>1, <2>2, <2>3, <2>4 DEF WholeWork, Converting
    <2>7. QED
      BY <1>1, <1>4, <1>7, <2>5, <2>6, AloneIsEnough
  <1>8. CASE work[r].upload = u /\ Enqueue(r)
    <2>1. UNCHANGED <<upload, files>>
      BY <1>8 DEF Enqueue
    <2>2. job[u].state = "none" /\ upload[u].status \notin {"READY", "NONE"}
      BY <1>5, <1>8 DEF Enqueue, At, Requesting, WholeAt, WholeWork
    <2>3. \/ job' = [job EXCEPT ![u].state = "waiting"] /\ work'[r].phase = "idle"
          \/ job' = job /\ work'[r].phase = "unqueued"
      <3>1. \/ job' = [job EXCEPT ![u].state = "waiting"] /\ Finish(r)
            \/ job' = job /\ work' = Moved(work, r, "unqueued")
            \/ disturbed' = disturbed \cup {u}
        BY <1>8 DEF Enqueue
      <3>2. QED
        BY <3>1, Finished, ListingMovedTo
    <2>4. job'[u].state \in {"none", "waiting"}
          /\ (work'[r].phase = "unqueued" => job'[u].state = "none")
      BY <1>0, <2>2, <2>3 DEF JobRow
    <2>5. WholeRow(u)'
      BY <1>2, <2>1, <2>2, <2>4 DEF WholeAt, WholeRow
    <2>6. WholeWork(r, u)'
      BY <2>1, <2>2, <2>3, <2>4 DEF WholeWork, Requesting, Converting
    <2>7. QED
      BY <1>1, <1>4, <1>8, <2>5, <2>6, AloneIsEnough
  <1>9. CASE work[r].upload = u /\ FailUpload(r)
    <2>1. UNCHANGED <<job, files>> /\ work'[r] = NoWork
      BY <1>9, Finished DEF FailUpload
    <2>2. job[u].state = "none" /\ upload[u].image = 0 /\ upload[u].made = 0
      BY <1>5, <1>9 DEF FailUpload, At, Requesting
    <2>3. upload'[u].status = "FAILED" /\ upload'[u].image = upload[u].image
          /\ upload'[u].made = upload[u].made
      BY <1>0, <1>9 DEF FailUpload, UploadRow
    <2>4. WholeRow(u)'
      BY <1>2, <2>1, <2>2, <2>3 DEF WholeRow
    <2>5. WholeWork(r, u)'
      BY <2>1, ListingAssumption DEF WholeWork, NoWork
    <2>6. QED
      BY <1>1, <1>4, <1>9, <2>4, <2>5, AloneIsEnough
  <1>10. QED
    BY <1>3, <1>6, <1>7, <1>8, <1>9

\* A worker takes the job when no other works on it, or the queue hands it out
\* again.
LEMMA QueueStaysWhole ==
    ASSUME ListingTypes, StoredInv, NEW u \in Upload, WholeAt(u), u \notin disturbed',
           StallJob(u) \/ \E r \in Request : TakeJob(r, u)
    PROVE  WholeAt(u)'
  <1>0. job \in [Upload -> JobRow] /\ work \in [Request -> GoodWork]
        /\ None \notin Upload
    BY ListingAssumption DEF ListingTypes, ListingTypeOK, JobRow
  <1>1. CASE StallJob(u)
    <2>1. UNCHANGED <<upload, files, images, work>>
          /\ job[u].state = "active" /\ job'[u].state = "waiting"
      BY <1>0, <1>1 DEF StallJob, media, JobRow
    <2>2. QED
      BY <2>1
      DEF WholeAt, WholeRow, WholeWork, Alone, Requesting, Converting
  <1>2. ASSUME NEW r \in Request, TakeJob(r, u)
        PROVE  WholeAt(u)'
    <2>1. /\ work'[r].upload = u /\ work'[r].phase = "take"
          /\ UNCHANGED <<upload, files, images>>
          /\ job[u].state = "waiting" /\ job'[u].state = "active"
      BY <1>0, <1>2 DEF TakeJob, Begin, NoWork, media, JobRow
    <2>2. ~Running(u)
      BY <1>2 DEF TakeJob
    <2>3. ASSUME NEW q \in Request, work[q].upload = u
          PROVE  FALSE
      <3>1. work[q].phase \in Requesting \cup Converting
        BY <1>0, <2>3, WorkAt DEF WorkFilled
      <3>2. work[q].phase \in Requesting => job[u].state = "none"
        BY <2>3 DEF WholeAt, WholeWork
      <3>3. QED
        BY <2>1, <2>2, <2>3, <3>1, <3>2 DEF Running, Converting
    <2>4. WholeRow(u)'
      BY <2>1 DEF WholeAt, WholeRow
    <2>5. WholeWork(r, u)'
      BY <2>1 DEF WholeWork, Requesting
    <2>6. MediaStep(r)
      BY <1>2 DEF MediaStep
    <2>7. QED
      BY <2>3, <2>4, <2>5, <2>6, AloneIsEnough
  <1>3. QED
    BY <1>1, <1>2

\* The step of the run that works on the upload.
LEMMA RunningStaysWhole ==
    ASSUME ListingTypes, StoredInv, NEW r \in Request, NEW u \in Upload, WholeAt(u),
           work[r].upload = u, u \notin disturbed',
           \/ ReadUpload(r) \/ MarkProcessing(r) \/ Convert(r)
           \/ ReadForPublish(r) \/ CommitPublish(r) \/ RemoveOutputs(r)
           \/ \E permanent \in BOOLEAN : CatchFailure(r, permanent)
    PROVE  WholeAt(u)'
  <1>0. upload \in [Upload -> UploadRow] /\ job \in [Upload -> JobRow]
        /\ None \notin Upload /\ 0 \notin images
    BY ListingAssumption
    DEF ListingTypes, ListingTypeOK, UploadRow, JobRow, StoredInv
  <1>1. MediaStep(r)
    BY DEF MediaStep
  <1>2. \A q \in Request \ {r} : work[q].upload # u
    BY DEF WholeAt, Alone
  <1>3. /\ job[u].state \in {"waiting", "active"}
        /\ upload[u].status \notin {"READY", "NONE"}
        /\ upload[u].image = 0 /\ upload[u].made = 0
    <2>1. work[r].phase \in Converting
      BY DEF ReadUpload, MarkProcessing, Convert, ReadForPublish, CommitPublish,
             RemoveOutputs, CatchFailure, At, Converting
    <2>2. job[u].state \in {"waiting", "active"}
      BY <2>1 DEF WholeAt, WholeWork
    <2>3. QED
      BY <2>2 DEF WholeAt, WholeRow
  <1>4. SUFFICES WholeRow(u)' /\ WholeWork(r, u)'
    BY <1>1, <1>2, AloneIsEnough
  <1>5. CASE ReadUpload(r) \/ ReadForPublish(r)
    <2>1. UNCHANGED <<upload, files, images>>
      BY <1>5 DEF ReadUpload, ReadForPublish, media
    <2>2. \/ work'[r] = NoWork /\ work'[r].phase = "idle"
             /\ (job' = job \/ job' = JobDone(u))
          \/ work'[r].phase = "mark" /\ job' = job
          \/ work'[r].phase = "insert" /\ job' = job /\ work[r].phase = "publish"
      <3>1. CASE ReadUpload(r)
        BY <3>1, AdvancedTo DEF ReadUpload
      <3>2. CASE ReadForPublish(r)
        BY <3>2, AdvancedTo DEF ReadForPublish, At
      <3>3. QED
        BY <1>5, <3>1, <3>2
    <2>3. job'[u].state \in {"waiting", "active", "done"}
          /\ (work'[r].phase # "idle" => job'[u].state \in {"waiting", "active"})
      BY <1>0, <1>3, <2>2 DEF JobDone, JobRow
    <2>4. WholeRow(u)'
      BY <1>0, <1>3, <2>1, <2>3 DEF WholeRow
    <2>5. work'[r].phase = "insert" => u \in files
      BY <2>2 DEF WholeAt, WholeWork
    <2>6. WholeWork(r, u)'
      BY <2>1, <2>2, <2>3, <2>5 DEF WholeWork, Requesting, Converting
    <2>7. QED
      BY <2>4, <2>6
  <1>6. CASE MarkProcessing(r)
    <2>0. work'[r].phase = "convert" /\ job' = job
          /\ upload' = [upload EXCEPT ![u].status = "PROCESSING"]
      BY <1>6, ListingMovedTo DEF MarkProcessing
    <2>1. /\ upload'[u].status = "PROCESSING" /\ upload'[u].image = 0
          /\ upload'[u].made = 0
      BY <1>0, <1>3, <2>0 DEF UploadRow
    <2>2. images' = images
      BY <1>6 DEF MarkProcessing, media
    <2>3. QED
      BY <1>0, <1>3, <2>0, <2>1, <2>2 DEF WholeRow, WholeWork, Requesting
  <1>7. CASE Convert(r)
    <2>1. /\ UNCHANGED <<upload, job, images>>
          /\ work'[r].phase = "broken" \/ (work'[r].phase = "publish" /\ u \in files')
      BY <1>7, ListingMovedTo DEF Convert, media
    <2>2. QED
      BY <1>0, <1>3, <2>1 DEF WholeRow, WholeWork, Requesting
  <1>8. CASE CommitPublish(r)
    <2>1. u \in files /\ files' = files
      BY <1>8 DEF CommitPublish, At, WholeAt, WholeWork
    <2>2. CASE upload' = Published(u) /\ Finish(r) /\ job' = JobDone(u)
      <3>1. upload'[u].status = "READY" /\ upload'[u].made = 1
        BY <1>0, <1>3, <2>2 DEF Published, UploadRow
      <3>2. job'[u].state = "done" /\ work'[r].upload = None
        BY <1>0, <2>2, Finished DEF JobDone, JobRow, NoWork
      <3>3. QED
        BY <1>0, <2>1, <3>1, <3>2 DEF WholeRow, WholeWork
    <2>3. CASE upload' = upload /\ work' = Moved(work, r, "lost") /\ UNCHANGED <<media, job>>
      BY <1>0, <1>3, <2>1, <2>3, ListingMovedTo DEF WholeRow, WholeWork, media, Requesting
    <2>4. QED
      BY <1>8, <2>2, <2>3 DEF CommitPublish, RolledBack
  <1>9. CASE RemoveOutputs(r)
    <2>1. UNCHANGED <<upload, job, images>> /\ work'[r].phase = "broken"
      BY <1>9, ListingMovedTo DEF RemoveOutputs, media
    <2>2. QED
      BY <1>0, <1>3, <2>1 DEF WholeRow, WholeWork, Requesting
  <1>10. ASSUME NEW permanent \in BOOLEAN, CatchFailure(r, permanent)
         PROVE  WholeRow(u)' /\ WholeWork(r, u)'
    <2>1. upload' = [upload EXCEPT ![u].status = "FAILED"]
          \/ upload' = [upload EXCEPT ![u].status = "REQUESTED"]
      BY <1>3, <1>10 DEF CatchFailure
    <2>2. /\ upload'[u].status \in {"FAILED", "REQUESTED"}
          /\ upload'[u].image = 0 /\ upload'[u].made = 0
      BY <1>0, <1>3, <2>1 DEF UploadRow
    <2>3. images' = images /\ work'[r] = NoWork
      BY <1>10, Finished DEF CatchFailure, media
    <2>4. QED
      BY <1>0, <2>2, <2>3 DEF WholeRow, WholeWork, NoWork
  <1>11. QED
    BY <1>5, <1>6, <1>7, <1>8, <1>9, <1>10

\* A request of the upload that is lost leaves its rows as they are.
LEMMA LossStaysWhole ==
    ASSUME ListingTypes, NEW r \in Request, NEW u \in Upload, WholeAt(u),
           work[r].upload = u, LoseWork(r)
    PROVE  WholeAt(u)'
  <1>1. UNCHANGED <<upload, job, files, images>> /\ work'[r] = NoWork
    BY Finished DEF LoseWork, processing, media
  <1>2. WholeRow(u)' /\ WholeWork(r, u)'
    BY <1>1, ListingAssumption DEF WholeAt, WholeRow, WholeWork, NoWork
  <1>3. QED
    BY <1>2, AloneIsEnough DEF WholeAt, Alone, ListingStep

LEMMA StepKeepsUploadInv ==
    ASSUME ListingTypes, ListingTypes', UploadInv, NEW r \in Request,
           ListingStep(r) \/ MediaStep(r)
    PROVE  UploadInv'
  <1> USE DEF UploadInv
  <1>1. StoredInv'
    BY StepKeepsStoredInv
  <1>2. ASSUME NEW u \in Upload, u \notin disturbed'
        PROVE  WholeAt(u)'
    <2>1. WholeAt(u)
      BY <1>2, Bystanders
    <2>2. CASE work[r].upload # u /\ work'[r].upload # u
      BY <2>1, <2>2, BystanderStaysWhole
    <2>3. CASE work[r].upload # u /\ work'[r].upload = u
      <3>1. TakeJob(r, u) \/ ReceiveUpload(r, u, TRUE) \/ ReceiveUpload(r, u, FALSE)
        BY <2>3, UploadKept
      <3>2. QED
        BY <1>2, <2>1, <3>1, AskingStaysWhole, QueueStaysWhole
    <2>4. CASE work[r].upload = u
      <3>1. work[r].phase \in Requesting \cup Converting
        BY <2>4, WorkAt, ListingAssumption DEF WorkFilled
      <3>2. \/ ReadForUpload(r) \/ CommitUpload(r) \/ Enqueue(r) \/ FailUpload(r)
            \/ ReadUpload(r) \/ MarkProcessing(r) \/ Convert(r)
            \/ ReadForPublish(r) \/ CommitPublish(r) \/ RemoveOutputs(r)
            \/ \E permanent \in BOOLEAN : CatchFailure(r, permanent)
            \/ LoseWork(r)
        <4>1. work[r] # NoWork
          BY <3>1 DEF NoWork, Requesting, Converting
        <4>2. CASE MediaStep(r)
          BY <3>1, <4>1, <4>2
          DEF MediaStep, ReceiveDelete, ReadForDelete, CommitDelete, EraseFiles,
              TakeJob, ReceiveUpload, Begin, At, Requesting, Converting
        <4>3. CASE ListingStep(r)
          BY <3>1, <4>1, <4>3
          DEF ListingStep, ReceiveUpdate, ReadForUpdate, CommitUpdate,
              ReceiveSubmit, ReadForSubmit, CommitSubmit, ReceivePrice,
              ReadForPrice, CommitPrice, ReceiveDeal, ReadForDeal, CommitDeal,
              Begin, At, Requesting, Converting
        <4>4. QED
          BY <4>2, <4>3
      <3>3. QED
        BY <1>2, <2>1, <2>4, <3>2, AskingStaysWhole, RunningStaysWhole, LossStaysWhole
    <2>5. QED
      BY <2>2, <2>3, <2>4
  <1>3. QED
    BY <1>1, <1>2

LEMMA UploadInvariant == ListingSpec => []UploadInv
  <1>1. ListingInit => UploadInv
    <2> SUFFICES ASSUME ListingInit
                 PROVE  UploadInv
      OBVIOUS
    <2>1. \A r \in Request : work[r].phase = "idle" /\ work[r].upload = None
      BY DEF ListingInit, NoWork
    <2>2. \A u \in Upload : u # None /\ upload[u] = NoUpload /\ job[u] = NoJob
      BY ListingAssumption DEF ListingInit
    <2>3. StoredInv
      BY <2>1, <2>2 DEF ListingInit, StoredInv, NoUpload
    <2>4. \A u \in Upload : WholeRow(u)
      BY <2>2 DEF WholeRow, NoUpload, NoJob, ListingInit
    <2>5. \A u \in Upload : Alone(u) /\ \A r \in Request : WholeWork(r, u)
      BY <2>1, <2>2 DEF Alone, WholeWork
    <2>6. QED
      BY <2>3, <2>4, <2>5 DEF UploadInv, WholeAt
  <1>2. ListingTypes /\ ListingTypes' /\ UploadInv /\ [ListingNext]_listingVars
           => UploadInv'
    <2> SUFFICES ASSUME ListingTypes, ListingTypes', UploadInv,
                        [ListingNext]_listingVars
                 PROVE  UploadInv'
      OBVIOUS
    <2>1. CASE UNCHANGED <<media, processing, work>>
      BY <2>1
      DEF media, processing, UploadInv, StoredInv, WholeAt, WholeRow, WholeWork,
          Alone
    <2>2. ASSUME TakeDown \/ \E v \in {"ACTIVE", "REJECTED"} : Review(v)
          PROVE  UploadInv'
      BY <2>1, <2>2 DEF Review, TakeDown
    <2>3. ASSUME NEW v \in Upload, StallJob(v)
          PROVE  UploadInv'
      <3>1. UNCHANGED <<images, stored, upload, files, disturbed, work>>
        BY <2>3 DEF StallJob, media
      <3>2. \A u \in Upload : u # v => job'[u] = job[u]
        BY <2>3 DEF StallJob, ListingTypes, ListingTypeOK
      <3>3. StoredInv'
        BY <3>1 DEF UploadInv, StoredInv
      <3>4. ASSUME NEW u \in Upload \ disturbed
            PROVE  WholeAt(u)'
        <4>1. CASE u = v
          BY <2>3, <3>1, <4>1, QueueStaysWhole DEF UploadInv
        <4>2. CASE u # v
          BY <3>1, <3>2, <4>2 DEF UploadInv, WholeAt, WholeRow, WholeWork, Alone
        <4>3. QED
          BY <4>1, <4>2
      <3>5. QED
        BY <3>1, <3>3, <3>4 DEF UploadInv
    <2>4. QED
      BY <2>1, <2>2, <2>3, StepKeepsUploadInv
      DEF ListingNext, ListingMoves, listingVars
  <1>3. QED
    BY <1>1, <1>2, ListingTypesInvariant, PTL DEF ListingSpec

\* Whatever fails and is tried again, an upload that ends READY made one image
\* and any other none, unless its job ran twice at a time or an answer of the
\* queue or of the commit was lost.
THEOREM UploadsStayWhole == ListingSpec => []UploadsAreWhole
  <1>1. UploadInv => UploadsAreWhole
    BY DEF UploadInv, WholeAt, WholeRow, UploadsAreWhole
  <1>2. QED
    BY <1>1, UploadInvariant, PTL


-----------------------------------------------------------------------------
(* Reports *)

\* What a member's or an administrator's request carries in each phase.
CaseFilled(w) ==
    /\ w.phase \in {"read", "decide"} => /\ w.report \in Report
                                         /\ w.verdict \in Verdict
    /\ w.phase = "decide" => w.found \in Unprocessed /\ w.found # w.verdict

GoodCase == {w \in ModerationCase : CaseFilled(w)}

ReportTypes == ReportTypeOK /\ moderation \in [Request -> GoodCase]

-----------------------------------------------------------------------------
(* Requests *)

LEMMA NoCaseIsGood == NoCase \in GoodCase
  BY DEF NoCase, GoodCase, ModerationCase, CaseFilled

LEMMA CaseAt ==
    ASSUME ReportTypes, NEW r \in Request
    PROVE  moderation[r] \in ModerationCase /\ CaseFilled(moderation[r])
  BY DEF ReportTypes, GoodCase

LEMMA OneCaseMoves ==
    ASSUME moderation \in [Request -> GoodCase], NEW r \in Request,
           NEW w \in GoodCase, moderation' = [moderation EXCEPT ![r] = w]
    PROVE  /\ moderation' \in [Request -> GoodCase]
           /\ moderation'[r] = w
           /\ \A q \in Request \ {r} : moderation'[q] = moderation[q]
  OBVIOUS

\* The entry after a step, by what step it was.
LEMMA CaseSteps ==
    ASSUME ReportTypes, NEW r \in Request, ReportStep(r)
    PROVE  \E w \in GoodCase :
              /\ moderation' = [moderation EXCEPT ![r] = w]
              /\ w.phase = "search" => status = "ACTIVE" /\ ReadReported(r)
              /\ w.phase = "insert" => NoneUnprocessed /\ CheckDuplicate(r)
  <1>0. moderation[r] \in ModerationCase /\ CaseFilled(moderation[r])
    BY CaseAt
  <1>1. CASE ReceiveReport(r)
    <2>1. [NoCase EXCEPT !.phase = "look"] \in GoodCase
      BY DEF NoCase, GoodCase, ModerationCase, CaseFilled
    <2>2. [NoCase EXCEPT !.phase = "look"].phase = "look"
      BY DEF NoCase
    <2>3. QED
      BY <1>1, <2>1, <2>2 DEF ReceiveReport, TakeUp
  <1>2. CASE ReadReported(r)
    <2>1. CASE status = "ACTIVE"
      <3>1. /\ [moderation[r] EXCEPT !.phase = "search"] \in GoodCase
            /\ [moderation[r] EXCEPT !.phase = "search"].phase = "search"
        BY <1>0 DEF GoodCase, ModerationCase, CaseFilled
      <3>2. moderation' = [moderation EXCEPT ![r] =
                              [moderation[r] EXCEPT !.phase = "search"]]
        BY <1>2, <2>1 DEF ReadReported, GoOn, Moved, ReportTypes
      <3>3. QED
        BY <1>2, <2>1, <3>1, <3>2
    <2>2. CASE status # "ACTIVE"
      BY <1>2, <2>2, NoCaseIsGood DEF ReadReported, GoOn, SetAside, NoCase
    <2>3. QED
      BY <2>1, <2>2
  <1>3. CASE CheckDuplicate(r)
    <2>1. CASE NoneUnprocessed
      <3>1. /\ [moderation[r] EXCEPT !.phase = "insert"] \in GoodCase
            /\ [moderation[r] EXCEPT !.phase = "insert"].phase = "insert"
        BY <1>0 DEF GoodCase, ModerationCase, CaseFilled
      <3>2. moderation' = [moderation EXCEPT ![r] =
                              [moderation[r] EXCEPT !.phase = "insert"]]
        BY <1>3, <2>1 DEF CheckDuplicate, GoOn, Moved, ReportTypes
      <3>3. QED
        BY <1>3, <2>1, <3>1, <3>2
    <2>2. CASE ~NoneUnprocessed
      BY <1>3, <2>2, NoCaseIsGood DEF CheckDuplicate, GoOn, SetAside, NoCase
    <2>3. QED
      BY <2>1, <2>2
  <1>4. ASSUME NEW i \in Report, NEW v \in Verdict, NEW d \in BOOLEAN,
               ReceiveReview(r, i, v, d)
        PROVE  \E w \in GoodCase :
                  moderation' = [moderation EXCEPT ![r] = w] /\ w.phase = "read"
    <2> DEFINE w == [NoCase EXCEPT !.phase = "read", !.report = i,
                                   !.verdict = v, !.down = d]
    <2>1. w \in GoodCase /\ w.phase = "read"
      BY DEF NoCase, GoodCase, ModerationCase, CaseFilled
    <2>2. moderation' = [moderation EXCEPT ![r] = w]
      BY <1>4 DEF ReceiveReview, TakeUp
    <2>3. QED
      BY <2>1, <2>2
  <1>5. CASE ReadReport(r)
    <2> DEFINE now == report[moderation[r].report]
               w == [moderation[r] EXCEPT !.phase = "decide", !.found = now]
    <2>1. CASE now \in Unprocessed /\ now # moderation[r].verdict
      <3>1. w \in GoodCase /\ w.phase = "decide"
        BY <1>0, <1>5, <2>1
        DEF ReadReport, At, GoodCase, ModerationCase, CaseFilled
      <3>2. moderation' = [moderation EXCEPT ![r] = w]
        BY <1>0, <1>5, <2>1 DEF ReadReport, ReportTypes, ModerationCase
      <3>3. QED
        BY <3>1, <3>2
    <2>2. CASE ~(now \in Unprocessed /\ now # moderation[r].verdict)
      BY <1>5, <2>2, NoCaseIsGood DEF ReadReport, SetAside, NoCase
    <2>3. QED
      BY <2>1, <2>2
  <1>6. CASE CommitReview(r) \/ LoseCase(r) \/ \E i \in Report : InsertReport(r, i)
    BY <1>6, NoCaseIsGood
    DEF CommitReview, LoseCase, InsertReport, SetAside, NoCase
  <1>7. QED
    BY <1>1, <1>2, <1>3, <1>4, <1>5, <1>6 DEF ReportStep

\* Only two steps write a report.
LEMMA OthersWriteNoReport ==
    ASSUME NEW r \in Request, ReportStep(r), ~CommitReview(r),
           \A i \in Report : ~InsertReport(r, i)
    PROVE  UNCHANGED <<report, trail, condemned, listingVars>>
  BY DEF ReportStep, ReceiveReport, ReadReported, CheckDuplicate, ReceiveReview,
         ReadReport, LoseCase

-----------------------------------------------------------------------------
(* The listing *)

\* Whoever reports and reviews, the listing behaves as PropertyListing says.
THEOREM ReportsKeepListing == ReportsSpec => ListingSpec
  <1>1. ReportsInit => ListingInit
    BY DEF ReportsInit
  <1>2. ASSUME NEW r \in Request, ReportStep(r)
        PROVE  [ListingNext]_listingVars
    <2>1. CASE CommitReview(r)
      BY <2>1 DEF CommitReview, ListingNext
    <2>2. CASE ~CommitReview(r)
      BY <1>2, <2>2
      DEF ReportStep, ReceiveReport, ReadReported, CheckDuplicate, InsertReport,
          ReceiveReview, ReadReport, LoseCase
    <2>3. QED
      BY <2>1, <2>2
  <1>3. [ReportsNext]_<<reportVars, listingVars>> => [ListingNext]_listingVars
    BY <1>2 DEF ReportsNext, ListingNext
  <1>4. QED
    BY <1>1, <1>3, PTL DEF ReportsSpec, ListingSpec

LEMMA ReportsListingTypes == ReportsSpec => []ListingTypes
  BY ReportsKeepListing, ListingTypesInvariant, PTL

-----------------------------------------------------------------------------
(* Types *)

LEMMA ReportsTypesInit == ReportsInit => ReportTypes
  <1> SUFFICES ASSUME ReportsInit
               PROVE  ReportTypes
    OBVIOUS
  <1>1. \A r \in Request : moderation[r] \in GoodCase
    BY NoCaseIsGood DEF ReportsInit
  <1>2. moderation \in [Request -> GoodCase]
    BY <1>1, NoCaseIsGood DEF ReportsInit
  <1>3. GoodCase \subseteq ModerationCase
    BY DEF GoodCase
  <1>4. trail \in [Report -> Seq(Entry)] /\ report \in [Report -> ReportStatus]
    BY DEF ReportsInit, ReportStatus
  <1>5. QED
    BY <1>2, <1>3, <1>4 DEF ReportsInit, ReportTypes, ReportTypeOK

LEMMA ReportRowTypes ==
    ASSUME ReportTypes, NEW r \in Request, ReportStep(r)
    PROVE  /\ report' \in [Report -> ReportStatus]
           /\ trail' \in [Report -> Seq(Entry)]
  <1>1. CASE CommitReview(r)
    <2> DEFINE w == moderation[r]
               entry == [from |-> w.found, to |-> w.verdict]
    <2>1. w.report \in Report /\ w.verdict \in Verdict /\ w.found \in Unprocessed
      BY <1>1, CaseAt DEF CommitReview, At, CaseFilled
    <2>2. CASE AsFound(r)
      <3>1. report' = [report EXCEPT ![w.report] = w.verdict]
            /\ trail' = [trail EXCEPT ![w.report] = Append(@, entry)]
        BY <1>1, <2>2 DEF CommitReview
      <3>2. Append(trail[w.report], entry) \in Seq(Entry)
        <4>1. entry \in Entry
          BY <2>1 DEF Entry
        <4>2. QED
          BY <2>1, <4>1 DEF ReportTypes, ReportTypeOK
      <3>3. QED
        BY <2>1, <3>1, <3>2 DEF ReportTypes, ReportTypeOK, Verdict
    <2>3. CASE ~AsFound(r)
      BY <1>1, <2>3 DEF CommitReview, ReportTypes, ReportTypeOK
    <2>4. QED
      BY <2>2, <2>3
  <1>2. ASSUME NEW i \in Report, InsertReport(r, i)
        PROVE  report' \in [Report -> ReportStatus] /\ trail' = trail
    BY <1>2 DEF InsertReport, ReportTypes, ReportTypeOK, ReportStatus
  <1>3. QED
    BY <1>1, <1>2, OthersWriteNoReport DEF ReportTypes, ReportTypeOK

LEMMA ReportsTypesNext ==
    ReportTypes /\ [ReportsNext]_<<reportVars, listingVars>> => ReportTypes'
  <1> SUFFICES ASSUME ReportTypes, [ReportsNext]_<<reportVars, listingVars>>
               PROVE  ReportTypes'
    OBVIOUS
  <1>1. CASE UNCHANGED reportVars
    BY <1>1 DEF reportVars, ReportTypes, ReportTypeOK
  <1>2. ASSUME NEW r \in Request, ReportStep(r)
        PROVE  ReportTypes'
    <2>1. moderation' \in [Request -> GoodCase]
      BY <1>2, CaseSteps, OneCaseMoves DEF ReportTypes
    <2>2. GoodCase \subseteq ModerationCase
      BY DEF GoodCase
    <2>3. doubled' \in BOOLEAN /\ condemned' \in BOOLEAN
      <3>1. moderation[r].down \in BOOLEAN
        BY CaseAt DEF ModerationCase
      <3>2. CASE CheckDuplicate(r)
        BY <3>2 DEF CheckDuplicate, ReportTypes, ReportTypeOK
      <3>3. CASE CommitReview(r)
        BY <3>1, <3>3 DEF CommitReview, ReportTypes, ReportTypeOK
      <3>4. CASE ~CheckDuplicate(r) /\ ~CommitReview(r)
        BY <1>2, <3>4
        DEF ReportStep, ReceiveReport, ReadReported, InsertReport, ReceiveReview,
            ReadReport, LoseCase, ReportTypes, ReportTypeOK
      <3>5. QED
        BY <3>2, <3>3, <3>4
    <2>4. QED
      BY <1>2, <2>1, <2>2, <2>3, ReportRowTypes DEF ReportTypes, ReportTypeOK
  <1>3. QED
    BY <1>1, <1>2 DEF ReportsNext

LEMMA ReportsTypesInvariant == ReportsSpec => []ReportTypes
  BY ReportsTypesInit, ReportsTypesNext, PTL DEF ReportsSpec

\* Every variable of the reports keeps its type.
THEOREM ReportsTypeCorrect == ReportsSpec => []ReportTypeOK
  <1>1. ReportTypes => ReportTypeOK
    BY DEF ReportTypes
  <1>2. QED
    BY <1>1, ReportsTypesInvariant, PTL

-----------------------------------------------------------------------------
(* The history of a report *)

LEMMA HistoryGrows ==
    ASSUME NEW t \in Seq(Entry), NEW e \in Entry
    PROVE  /\ Len(Append(t, e)) = Len(t) + 1
           /\ Append(t, e)[Len(t) + 1] = e
           /\ \A k \in 1..Len(t) : Append(t, e)[k] = t[k]
           /\ Append(t, e) # <<>>
           /\ Len(t) \in Nat /\ (t = <<>> <=> Len(t) = 0)
  OBVIOUS

\* An entry that starts from the report's status carries its history on.
LEMMA ReviewIsTold ==
    ASSUME ReportTypes, NEW r \in Request, CommitReview(r), AsFound(r),
           NEW i \in Report, i = moderation[r].report, Told(i)
    PROVE  Told(i)'
  <1> DEFINE w == moderation[r]
             t == trail[i]
             e == [from |-> w.found, to |-> w.verdict]
             u == Append(t, e)
  <1>1. w.verdict \in Verdict /\ w.found \in Unprocessed
    BY CaseAt DEF CommitReview, At, CaseFilled
  <1>2. t \in Seq(Entry) /\ e \in Entry
    BY <1>1 DEF ReportTypes, ReportTypeOK, Entry
  <1>3. report'[i] = w.verdict /\ trail'[i] = u
    BY <1>1 DEF CommitReview, ReportTypes, ReportTypeOK
  <1>4. /\ report[i] = w.found
        /\ t = <<>> => w.found = "OPEN"
        /\ t # <<>> => w.found = t[Len(t)].to
    BY <1>1 DEF AsFound, Told, Unprocessed
  <1>5. ASSUME NEW k \in 1..Len(u)
        PROVE  u[k].from = IF k = 1 THEN "OPEN" ELSE u[k - 1].to
    <2>1. CASE k \in 1..Len(t)
      <3>1. u[k] = t[k] /\ (k # 1 => u[k - 1] = t[k - 1])
        BY <1>2, <2>1, HistoryGrows
      <3>2. QED
        BY <2>1, <3>1 DEF Told
    <2>2. CASE k = Len(t) + 1
      <3>1. u[k] = e
        BY <1>2, <2>2, HistoryGrows
      <3>2. k # 1 => k - 1 \in 1..Len(t) /\ u[k - 1] = t[Len(t)] /\ t # <<>>
        BY <1>2, <2>2, HistoryGrows
      <3>3. k = 1 => t = <<>>
        BY <1>2, <2>2, HistoryGrows
      <3>4. QED
        BY <1>4, <3>1, <3>2, <3>3
    <2>3. k \in 1..Len(t) \/ k = Len(t) + 1
      <3>1. Len(u) = Len(t) + 1 /\ Len(t) \in Nat
        BY <1>2, HistoryGrows
      <3>2. QED
        BY <3>1
    <2>4. QED
      BY <2>1, <2>2, <2>3
  <1>6. u # <<>> /\ u[Len(u)].to = w.verdict
    <2>1. u # <<>> /\ Len(u) = Len(t) + 1 /\ u[Len(t) + 1] = e
      BY <1>2, HistoryGrows
    <2>2. e.to = w.verdict
      OBVIOUS
    <2> HIDE DEF u, e
    <2>3. QED
      BY <2>1, <2>2
  <1>7. w.verdict \notin {"NONE", "OPEN"}
    BY <1>1 DEF Verdict
  <1>8. \A k \in 1..Len(trail'[i]) :
           trail'[i][k].from = IF k = 1 THEN "OPEN" ELSE trail'[i][k - 1].to
    BY <1>3, <1>5
  <1>9. /\ report'[i] \notin {"NONE", "OPEN"} /\ trail'[i] # <<>>
        /\ report'[i] = trail'[i][Len(trail'[i])].to
    BY <1>3, <1>6, <1>7
  <1>10. QED
    BY <1>8, <1>9 DEF Told

\* The history, and what a request has made sure of that is about to insert.
FollowInv ==
    /\ ReportsAreFollowed
    /\ ~doubled => \A r \in Request : At(moderation, r, "insert") =>
                       /\ NoneUnprocessed
                       /\ \A q \in Request : At(moderation, q, "insert") => q = r

LEMMA FollowInit == ReportsInit => FollowInv
  <1> SUFFICES ASSUME ReportsInit
               PROVE  FollowInv
    OBVIOUS
  <1>1. \A i \in Report : report[i] = "NONE" /\ trail[i] = <<>>
    BY DEF ReportsInit
  <1>2. \A r \in Request : ~At(moderation, r, "insert")
    BY DEF ReportsInit, At, NoCase
  <1>3. ASSUME NEW i \in Report
        PROVE  Told(i)
    <2>1. 1..Len(<<>>) = {}
      OBVIOUS
    <2>2. QED
      BY <1>1, <2>1 DEF Told
  <1>4. QED
    BY <1>1, <1>2, <1>3 DEF FollowInv, ReportsAreFollowed, Unprocessed

\* A request is about to insert because it was, or because it has just found
\* nothing unprocessed.
LEMMA Inserting ==
    ASSUME ReportTypes, NEW r \in Request, ReportStep(r), NEW q \in Request,
           At(moderation, q, "insert")'
    PROVE  \/ q # r /\ At(moderation, q, "insert")
           \/ q = r /\ NoneUnprocessed /\ CheckDuplicate(r)
  <1>1. CASE q = r
    BY <1>1, CaseSteps, OneCaseMoves DEF At, ReportTypes
  <1>2. CASE q # r
    BY <1>2, CaseSteps, OneCaseMoves DEF At, ReportTypes
  <1>3. QED
    BY <1>1, <1>2

LEMMA ToldStays ==
    ASSUME ReportTypes, FollowInv, NEW r \in Request, ReportStep(r), NEW i \in Report
    PROVE  Told(i)'
  <1>0. Told(i)
    BY DEF FollowInv, ReportsAreFollowed
  <1>1. CASE UNCHANGED <<report, trail>>
    BY <1>0, <1>1 DEF Told
  <1>2. CASE CommitReview(r)
    <2>1. CASE AsFound(r) /\ i = moderation[r].report
      BY <1>0, <1>2, <2>1, ReviewIsTold
    <2>2. CASE AsFound(r) /\ i # moderation[r].report
      <3>1. report'[i] = report[i] /\ trail'[i] = trail[i]
        BY <1>2, <2>2 DEF CommitReview, ReportTypes, ReportTypeOK
      <3>2. QED
        BY <1>0, <3>1 DEF Told
    <2>3. CASE ~AsFound(r)
      BY <1>1, <1>2, <2>3 DEF CommitReview
    <2>4. QED
      BY <2>1, <2>2, <2>3
  <1>3. ASSUME NEW j \in Report, InsertReport(r, j)
        PROVE  Told(i)'
    <2>1. CASE i = j
      <3>1. report[i] = "NONE" /\ report'[i] = "OPEN" /\ trail' = trail
        BY <1>3, <2>1 DEF InsertReport, ReportTypes, ReportTypeOK
      <3>2. QED
        BY <1>0, <3>1 DEF Told
    <2>2. CASE i # j
      <3>1. report'[i] = report[i] /\ trail' = trail
        BY <1>3, <2>2 DEF InsertReport, ReportTypes, ReportTypeOK
      <3>2. QED
        BY <1>0, <3>1 DEF Told
    <2>3. QED
      BY <2>1, <2>2
  <1>4. QED
    BY <1>1, <1>2, <1>3, OthersWriteNoReport

\* No step but an insertion makes a report unprocessed that was not.
LEMMA UnprocessedBefore ==
    ASSUME ReportTypes, NEW r \in Request, ReportStep(r), NEW i \in Report,
           report'[i] \in Unprocessed
    PROVE  report[i] \in Unprocessed \/ InsertReport(r, i)
  <1>1. CASE CommitReview(r)
    <2>1. moderation[r].found \in Unprocessed
      BY <1>1, CaseAt DEF CommitReview, At, CaseFilled
    <2>2. QED
      BY <1>1, <2>1 DEF CommitReview, AsFound, ReportTypes, ReportTypeOK
  <1>2. ASSUME NEW j \in Report, InsertReport(r, j)
        PROVE  report[i] \in Unprocessed \/ InsertReport(r, i)
    BY <1>2 DEF InsertReport, ReportTypes, ReportTypeOK
  <1>3. QED
    BY <1>1, <1>2, OthersWriteNoReport

LEMMA FollowNext ==
    ReportTypes /\ FollowInv /\ [ReportsNext]_<<reportVars, listingVars>>
        => FollowInv'
  <1> SUFFICES ASSUME ReportTypes, FollowInv,
                      [ReportsNext]_<<reportVars, listingVars>>
               PROVE  FollowInv'
    OBVIOUS
  <1>1. CASE UNCHANGED reportVars
    BY <1>1 DEF reportVars, FollowInv, ReportsAreFollowed, Told, At, NoneUnprocessed
  <1>2. ASSUME NEW r \in Request, ReportStep(r)
        PROVE  FollowInv'
    <2>1. doubled => doubled'
      BY <1>2
      DEF ReportStep, ReceiveReport, ReadReported, CheckDuplicate, InsertReport,
          ReceiveReview, ReadReport, CommitReview, LoseCase
    <2>2. ASSUME ~doubled', NEW q \in Request, At(moderation, q, "insert")'
          PROVE  NoneUnprocessed'
      <3>1. NoneUnprocessed
        BY <1>2, <2>1, <2>2, Inserting DEF FollowInv
      <3>2. ASSUME NEW i \in Report, InsertReport(r, i)
            PROVE  FALSE
        <4>1. At(moderation, r, "insert") /\ ~CheckDuplicate(r)
          BY <3>2 DEF InsertReport, CheckDuplicate, At
        <4>2. q # r /\ At(moderation, q, "insert")
          BY <1>2, <2>2, <4>1, Inserting
        <4>3. QED
          BY <2>1, <2>2, <4>1, <4>2 DEF FollowInv
      <3>3. QED
        BY <1>2, <3>1, <3>2, UnprocessedBefore DEF NoneUnprocessed
    <2>3. ASSUME ~doubled', NEW p \in Request, NEW q \in Request,
                 At(moderation, p, "insert")', At(moderation, q, "insert")', p # q
          PROVE  FALSE
      <3>1. CASE CheckDuplicate(r) /\ NoneUnprocessed
        <4>1. \A s \in Request \ {r} : ~At(moderation, s, "insert")
          BY <2>3, <3>1 DEF CheckDuplicate
        <4>2. QED
          BY <1>2, <2>3, <4>1, Inserting
      <3>2. CASE ~(CheckDuplicate(r) /\ NoneUnprocessed)
        <4>1. At(moderation, p, "insert") /\ At(moderation, q, "insert")
          BY <1>2, <2>3, <3>2, Inserting
        <4>2. QED
          BY <2>1, <2>3, <4>1 DEF FollowInv
      <3>3. QED
        BY <3>1, <3>2
    <2>4. ASSUME ~doubled', NEW i \in Report, NEW j \in Report,
                 report'[i] \in Unprocessed, report'[j] \in Unprocessed
          PROVE  i = j
      <3>1. ASSUME NEW k \in Report, NEW l \in Report, InsertReport(r, k),
                   report'[l] \in Unprocessed
            PROVE  l = k
        <4>1. At(moderation, r, "insert")
          BY <3>1 DEF InsertReport
        <4>2. NoneUnprocessed
          BY <2>1, <2>4, <4>1 DEF FollowInv
        <4>3. l # k => report'[l] = report[l]
          BY <3>1 DEF InsertReport, ReportTypes, ReportTypeOK
        <4>4. QED
          BY <3>1, <4>2, <4>3 DEF NoneUnprocessed
      <3>2. CASE report[i] \in Unprocessed /\ report[j] \in Unprocessed
        BY <2>1, <2>4, <3>2 DEF FollowInv, ReportsAreFollowed
      <3>3. QED
        BY <1>2, <2>4, <3>1, <3>2, UnprocessedBefore
    <2>5. QED
      BY <1>2, <2>2, <2>3, <2>4, ToldStays DEF FollowInv, ReportsAreFollowed
  <1>3. QED
    BY <1>1, <1>2 DEF ReportsNext

\* A report's history leads without a gap from its submission to its status
\* and never out of a conclusion, however many reviewers overlap; and a member
\* has one unprocessed report at most unless two submissions overlapped.
THEOREM ReportsStayFollowed == ReportsSpec => []ReportsAreFollowed
  <1>1. ReportsSpec => []FollowInv
    BY FollowInit, FollowNext, ReportsTypesInvariant, PTL DEF ReportsSpec
  <1>2. FollowInv => ReportsAreFollowed
    BY DEF FollowInv
  <1>3. QED
    BY <1>1, <1>2, PTL

-----------------------------------------------------------------------------
(* The listing that is reported *)

OnOffer == status \in {"ACTIVE", "INACTIVE"}

\* Short of a stale update or submission, a listing that somebody reports or
\* has reported was put on offer for good.
CondemnInv ==
    ~overtaken =>
        /\ condemned => status = "INACTIVE"
        /\ \A r \in Request : moderation[r].phase \in {"search", "insert"} => OnOffer
        /\ \A i \in Report : report[i] # "NONE" => OnOffer

\* The listing's own steps never put on offer again what was taken off.
LEMMA OffersEnd ==
    ASSUME ListingTypes, ListingMoves, OnOffer, ~overtaken'
    PROVE  OnOffer' /\ (status = "INACTIVE" => status' = "INACTIVE")
  <1>1. ASSUME NEW r \in Request, ListingStep(r) \/ MediaStep(r)
        PROVE  OnOffer' /\ (status = "INACTIVE" => status' = "INACTIVE")
    <2>1. ASSUME NEW public \in BOOLEAN, CommitUpdate(r, public)
          PROVE  FALSE
      BY <2>1 DEF CommitUpdate, OnOffer, Draft
    <2>2. CASE CommitSubmit(r)
      BY <2>2 DEF CommitSubmit, OnOffer, Draft
    <2>3. CASE CommitDeal(r)
      BY <2>3 DEF CommitDeal, OnOffer, Publication
    <2>4. CASE CommitDelete(r) \/ CommitPublish(r)
      BY <2>4 DEF CommitDelete, CommitPublish, row, OnOffer
    <2>5. QED
      BY <1>1, <2>1, <2>2, <2>3, <2>4, PublicWriters DEF OnOffer
  <1>2. ASSUME NEW v \in {"ACTIVE", "REJECTED"}, Review(v)
        PROVE  FALSE
    BY <1>2 DEF Review, Reviewable, OnOffer
  <1>3. ASSUME NEW u \in Upload, StallJob(u)
        PROVE  OnOffer' /\ (status = "INACTIVE" => status' = "INACTIVE")
    BY <1>3 DEF StallJob, row, OnOffer
  <1>4. QED
    BY <1>1, <1>2, <1>3 DEF ListingMoves

LEMMA OvertakenStays ==
    ASSUME ListingTypes, ListingMoves, overtaken
    PROVE  overtaken'
  <1>1. ASSUME NEW r \in Request, ListingStep(r) \/ MediaStep(r)
        PROVE  overtaken'
    <2>1. ASSUME NEW public \in BOOLEAN, CommitUpdate(r, public)
          PROVE  overtaken'
      BY <2>1 DEF CommitUpdate
    <2>2. CASE CommitSubmit(r) \/ CommitDeal(r) \/ CommitDelete(r) \/ CommitPublish(r)
      BY <2>2 DEF CommitSubmit, CommitDeal, CommitDelete, CommitPublish
    <2>3. QED
      BY <1>1, <2>1, <2>2, PublicWriters
  <1>2. QED
    BY <1>1 DEF ListingMoves, Review, StallJob

LEMMA CondemnInit == ReportsInit => CondemnInv
  BY DEF ReportsInit, CondemnInv, NoCase

\* A review that takes the listing off finds it on offer or off for good.
LEMMA ReviewCondemns ==
    ASSUME ReportTypes, CondemnInv, NEW r \in Request, CommitReview(r), ~overtaken'
    PROVE  /\ ~overtaken
           /\ condemned' => status' = "INACTIVE"
           /\ OnOffer => OnOffer'
           /\ \A i \in Report : report'[i] # "NONE" => report[i] # "NONE"
  <1> DEFINE w == moderation[r]
  <1>1. w.report \in Report /\ w.found \in Unprocessed /\ w.down \in BOOLEAN
    BY CaseAt DEF CommitReview, At, CaseFilled, ModerationCase
  <1>2. CASE AsFound(r)
    <2>1. report[w.report] # "NONE"
      BY <1>1, <1>2 DEF AsFound, Unprocessed
    <2>2. CASE w.down /\ status = "ACTIVE"
      BY <1>1, <1>2, <2>1, <2>2
      DEF CommitReview, TakeDown, OnOffer, ReportTypes, ReportTypeOK
    <2>3. CASE ~(w.down /\ status = "ACTIVE")
      <3>1. UNCHANGED <<status, overtaken>>
        BY <1>2, <2>3 DEF CommitReview, listingVars, row
      <3>2. OnOffer
        BY <1>1, <2>1, <3>1 DEF CondemnInv
      <3>3. condemned' <=> condemned \/ w.down
        BY <1>2 DEF CommitReview
      <3>4. \A i \in Report : report'[i] # "NONE" => report[i] # "NONE"
        BY <1>2, <2>1 DEF CommitReview, ReportTypes, ReportTypeOK
      <3>5. QED
        BY <2>3, <3>1, <3>2, <3>3, <3>4 DEF CondemnInv, OnOffer
    <2>4. QED
      BY <2>2, <2>3
  <1>3. CASE ~AsFound(r)
    BY <1>3 DEF CommitReview, listingVars, row, OnOffer, CondemnInv
  <1>4. QED
    BY <1>2, <1>3

LEMMA CondemnNext ==
    /\ ListingTypes /\ ReportTypes /\ CondemnInv
    /\ [ReportsNext]_<<reportVars, listingVars>>
    => CondemnInv'
  <1> SUFFICES ASSUME ListingTypes, ReportTypes, CondemnInv, ~overtaken',
                      [ReportsNext]_<<reportVars, listingVars>>
               PROVE  CondemnInv'
    BY DEF CondemnInv
  <1>1. CASE UNCHANGED <<reportVars, listingVars>>
    BY <1>1 DEF reportVars, listingVars, row, CondemnInv, OnOffer
  <1>2. CASE ListingMoves /\ UNCHANGED reportVars
    <2>1. ~overtaken
      BY <1>2, OvertakenStays
    <2>2. OnOffer => OnOffer' /\ (status = "INACTIVE" => status' = "INACTIVE")
      BY <1>2, OffersEnd
    <2>3. QED
      BY <1>2, <2>1, <2>2 DEF CondemnInv, reportVars, OnOffer
  <1>3. ASSUME NEW r \in Request, ReportStep(r)
        PROVE  CondemnInv'
    <2>1. CASE CommitReview(r)
      <3>1. \A q \in Request : moderation'[q].phase \in {"search", "insert"}
                                  => moderation[q].phase \in {"search", "insert"}
        BY <2>1 DEF CommitReview, SetAside, NoCase, ReportTypes
      <3>2. QED
        BY <2>1, <3>1, ReviewCondemns DEF CondemnInv
    <2>2. CASE ~CommitReview(r)
      <3>1. UNCHANGED <<condemned, listingVars>>
        BY <1>3, <2>2, OthersWriteNoReport DEF InsertReport
      <3>2. UNCHANGED <<condemned, status, overtaken>>
        BY <3>1 DEF listingVars, row
      <3>3. ASSUME NEW q \in Request, moderation'[q].phase \in {"search", "insert"}
            PROVE  OnOffer
        <4>1. CASE q # r
          BY <1>3, <3>2, <3>3, <4>1, CaseSteps, OneCaseMoves
          DEF CondemnInv, ReportTypes
        <4>2. CASE q = r
          <5>1. \/ status = "ACTIVE"
                \/ At(moderation, r, "search")
            BY <1>3, <3>3, <4>2, CaseSteps, OneCaseMoves
            DEF CheckDuplicate, ReportTypes
          <5>2. QED
            BY <3>2, <5>1 DEF CondemnInv, OnOffer, At
        <4>3. QED
          BY <4>1, <4>2
      <3>4. ASSUME NEW i \in Report, report'[i] # "NONE"
            PROVE  OnOffer
        <4>1. CASE report[i] # "NONE"
          BY <3>2, <4>1 DEF CondemnInv
        <4>2. ASSUME NEW j \in Report, InsertReport(r, j)
              PROVE  OnOffer
          BY <3>2, <4>2 DEF InsertReport, At, CondemnInv
        <4>3. QED
          BY <1>3, <2>2, <3>4, <4>1, <4>2, OthersWriteNoReport
      <3>5. QED
        BY <3>2, <3>3, <3>4 DEF CondemnInv, OnOffer
    <2>3. QED
      BY <2>1, <2>2
  <1>4. QED
    BY <1>1, <1>2, <1>3 DEF ReportsNext

\* Once a resolved report is to take the listing off, the listing is not on
\* offer, then or later, unless an update or a submission commits on what it
\* read before.
THEOREM CondemnedListingsStayOff == ReportsSpec => []CondemnedStaysOff
  <1>1. ReportsSpec => []CondemnInv
    BY CondemnInit, CondemnNext, ReportsListingTypes, ReportsTypesInvariant, PTL
    DEF ReportsSpec
  <1>2. CondemnInv => CondemnedStaysOff
    BY DEF CondemnInv, CondemnedStaysOff
  <1>3. QED
    BY <1>1, <1>2, PTL

=============================================================================
