------------------------- MODULE ReservationDeposit -------------------------
(***************************************************************************)
(* The deposit of one visit reservation: src/apps/api/src/payments/        *)
(* reservation-deposit.service.ts, payment-webhook.service.ts and          *)
(* admin-payments.service.ts, with the payment provider behind them.       *)
(*                                                                         *)
(* confirm(), the refund that follows a cancellation, an administrator's   *)
(* retry and the provider's webhooks all read the books, wait for the      *)
(* provider and then write, mostly without looking again.  A call in       *)
(* flight is a slot of Call; each of its database or provider round trips  *)
(* is one action.  An answer of the provider may be lost after it acted.   *)
(*                                                                         *)
(* The provider knows one payment per order number.  A cancellation there  *)
(* is identified by the total returned after it, and refunds are always    *)
(* of the whole Amount.  That the visit must not have started when it is   *)
(* prepared or cancelled only disables calls and is left out.              *)
(***************************************************************************)
EXTENDS Integers, FiniteSets

CONSTANTS
    Call,           \* slots for calls in flight
    Key,            \* idempotency keys of confirm()
    Transmission,   \* transmission ids of webhooks
    Abandoned,      \* those about a payment attempt that came to nothing
    Amount,         \* the deposit
    Cancellation,   \* amounts someone may return in the provider's back office
    None            \* SQL NULL

VARIABLES
    visit,          \* status of the visit reservation
    deposit,        \* reservation_deposits
    capture,        \* CAPTURE rows of payment_transactions
    captureRef,     \* the one that holds the provider's payment reference
    lastCapture,    \* the one created last
    refund,         \* the REFUND row of the cancellation
    extra,          \* REFUND rows of webhooks: the cancellation they record
    superseded,     \* one of these was created after the cancellation's row
    event,          \* payment_webhook_events
    charged,        \* provider: the payment is captured
    returned,       \* provider: total returned
    executed,       \* provider: the refund key was executed
    call,           \* the calls in flight
    overtaken,      \* history: a capture was in flight when a refund was queued
    loosed,         \* history: a claim expired, or a cancellation freed it
    crossed,        \* history: a webhook added a row within a cancellation
    failed          \* history: transmissions whose handling failed

books == <<deposit, capture, captureRef, lastCapture, refund, extra,
           superseded>>
provider == <<charged, returned, executed>>
history == <<overtaken, loosed, crossed, failed>>
vars == <<visit, books, event, provider, call, history>>

ASSUME DepositAssumption ==
    /\ Abandoned \subseteq Transmission
    /\ Key \cap Transmission = {}
    /\ None \notin Key \cup Transmission
    /\ Amount \in Nat \ {0}
    /\ Cancellation \subseteq 1..Amount

-----------------------------------------------------------------------------

CaptureRow == Key \cup Transmission

NoRead == [status |-> "NONE", refunded |-> 0, retained |-> 0,
           refund |-> "NONE", capture |-> None]

NoSnapshot == [status |-> "NONE", amount |-> 0]

Idle == [op |-> "none", phase |-> "idle", id |-> None, read |-> NoRead,
         snapshot |-> NoSnapshot]

Init ==
    /\ visit = "CONFIRMED"
    /\ deposit = [status |-> "NONE", reference |-> FALSE, refunded |-> 0,
                  retained |-> 0]
    /\ capture = [k \in CaptureRow |-> "NONE"]
    /\ captureRef = None
    /\ lastCapture = None
    /\ refund = [status |-> "NONE", reference |-> 0, stale |-> FALSE]
    /\ extra = [t \in Transmission |-> 0]
    /\ superseded = FALSE
    /\ event = [t \in Transmission |-> "NONE"]
    /\ charged = FALSE
    /\ returned = 0
    /\ executed = FALSE
    /\ call = [c \in Call |-> Idle]
    /\ overtaken = FALSE
    /\ loosed = FALSE
    /\ crossed = FALSE
    /\ failed = {}

-----------------------------------------------------------------------------

Start(c, op, phase, id) ==
    /\ call[c] = Idle
    /\ call' = [call EXCEPT ![c] = [Idle EXCEPT !.op = op, !.phase = phase,
                                                !.id = id]]

At(c, op, phase) == call[c].op = op /\ call[c].phase = phase

Goto(c, phase) == call' = [call EXCEPT ![c].phase = phase]

Return(c) == call' = [call EXCEPT ![c] = Idle]

\* Go on if the condition holds, otherwise return to the client.
Proceed(c, condition, phase) ==
    IF condition THEN Goto(c, phase) ELSE Return(c)

-----------------------------------------------------------------------------
(* prepare() *)

ReceivePrepare(c) ==
    /\ visit = "CONFIRMED"
    /\ deposit.status = "NONE"
    /\ Start(c, "prepare", "commit", None)
    /\ UNCHANGED <<visit, books, event, provider, history>>

\* The unique reservationId turns a second deposit into a conflict.
CommitPrepare(c) ==
    /\ At(c, "prepare", "commit")
    /\ Return(c)
    /\ deposit' = IF deposit.status = "NONE"
                  THEN [deposit EXCEPT !.status = "READY"] ELSE deposit
    /\ UNCHANGED <<visit, capture, captureRef, lastCapture, refund, extra,
                   superseded, event, provider, history>>

-----------------------------------------------------------------------------
(* confirm() *)

ReceiveConfirm(c, k) ==
    /\ deposit.status = "READY"
    /\ capture[k] # "SUCCEEDED"
    /\ Start(c, "confirm", IF capture[k] = "NONE" THEN "create" ELSE "capture",
             k)
    /\ UNCHANGED <<visit, books, event, provider, history>>

\* The idempotency key is unique: a row made meanwhile ends the call.
CreateCapture(c) ==
    LET k == call[c].id IN
    /\ At(c, "confirm", "create")
    /\ Proceed(c, capture[k] = "NONE", "capture")
    /\ IF capture[k] = "NONE"
       THEN /\ capture' = [capture EXCEPT ![k] = "PENDING"]
            /\ lastCapture' = k
       ELSE UNCHANGED <<capture, lastCapture>>
    /\ UNCHANGED <<visit, deposit, captureRef, refund, extra, superseded,
                   event, provider, history>>

\* The provider captures the payment, refuses, or replays what it answered
\* before; an answer may be lost.
CallCapture(c) ==
    /\ At(c, "confirm", "capture")
    /\ \/ /\ charged' = TRUE
          /\ \/ Goto(c, "commit")
             \/ Goto(c, "failed")
       \/ /\ Goto(c, "failed")
          /\ UNCHANGED charged
    /\ UNCHANGED <<visit, books, event, returned, executed, history>>

ReferenceUnchecked(k) == TRUE

\* The provider's payment reference is unique among the transactions.
ReferenceFree(k) == captureRef \in {None, k}

PaidUnreferenced(d) == [d EXCEPT !.status = "PAID"]

Paid(d) == [d EXCEPT !.status = "PAID", !.reference = TRUE]

CommitConfirm(c) ==
    LET k == call[c].id IN
    /\ At(c, "confirm", "commit")
    /\ IF ReferenceFree(k)
       THEN /\ capture' = [capture EXCEPT ![k] = "SUCCEEDED"]
            /\ captureRef' = k
            /\ deposit' = Paid(deposit)
            /\ Return(c)
       ELSE /\ Goto(c, "failed")
            /\ UNCHANGED <<capture, captureRef, deposit>>
    /\ UNCHANGED <<visit, lastCapture, refund, extra, superseded, event,
                   provider, history>>

FailConfirm(c) ==
    /\ At(c, "confirm", "failed")
    /\ capture' = [capture EXCEPT ![call[c].id] = "FAILED"]
    /\ Return(c)
    /\ UNCHANGED <<visit, deposit, captureRef, lastCapture, refund, extra,
                   superseded, event, provider, history>>

-----------------------------------------------------------------------------
(* The cancellation of the visit, and queueReservationRefund() inside its  *)
(* transaction: the transaction locks the visit, then reads the deposit    *)
(* and writes what it read without locking that.                           *)

\* Calls that may still make the deposit PAID or FAILED on an old reading.
CaptureInFlight ==
    \E c \in Call :
        \/ call[c].op = "confirm"
        \/ call[c].op = "webhook" /\ call[c].read.status \in {"READY", "FAILED"}

\* The call is within the cancellation's transaction.
Cancelling(c) == call[c].op = "cancel" /\ call[c].phase \in {"queue", "commit"}

BeginCancel(c) ==
    /\ visit = "CONFIRMED"
    /\ \A d \in Call : ~Cancelling(d)
    /\ call[c] = Idle
    /\ call' = [call EXCEPT ![c] =
          [Idle EXCEPT !.op = "cancel", !.phase = "queue",
                       !.read.status = deposit.status]]
    /\ superseded' = FALSE
    /\ overtaken' = CaptureInFlight
    /\ UNCHANGED <<visit, deposit, capture, captureRef, lastCapture, refund,
                   extra, event, provider, loosed, crossed, failed>>

RefundDueEarly(status) == status \in {"READY", "PAID"}

RefundDue(status) == status = "PAID"

\* The REFUND row is inserted; nobody sees it before the commit.  createdAt is
\* now(), so of two rows of overlapping transactions either may be the later.
QueueRefund(c) ==
    /\ At(c, "cancel", "queue")
    /\ IF RefundDue(call[c].read.status)
       THEN superseded' \in {superseded, FALSE}
       ELSE UNCHANGED superseded
    /\ Goto(c, "commit")
    /\ UNCHANGED <<visit, deposit, capture, captureRef, lastCapture, refund,
                   extra, event, provider, history>>

\* The deposit is updated and the transaction commits, on the old reading.
CommitCancel(c) ==
    /\ At(c, "cancel", "commit")
    /\ visit' = "CANCELLED"
    /\ IF RefundDue(call[c].read.status)
       THEN /\ refund' = IF refund.status = "NONE"
                         THEN [refund EXCEPT !.status = "PENDING"] ELSE refund
            /\ deposit' = [deposit EXCEPT !.status = "REFUND_PENDING",
                                          !.refunded = Amount, !.retained = 0]
       ELSE UNCHANGED <<refund, deposit>>
    /\ Goto(c, "load")
    /\ UNCHANGED <<capture, captureRef, lastCapture, extra, superseded, event,
                   provider, history>>

-----------------------------------------------------------------------------
(* Refunding: processPendingReservationRefund() after the cancellation, and *)
(* the administrator's retryRefund().  The first takes a REFUND row that    *)
(* did not succeed, which only the cancellation's can be; the second takes  *)
(* the row created last, and returns if that is a webhook's.                *)

LoadRefund(c) ==
    /\ At(c, "cancel", "load")
    /\ IF /\ deposit.status = "REFUND_PENDING"
          /\ refund.status \in {"PENDING", "FAILED"}
          /\ deposit.reference
       THEN call' = [call EXCEPT ![c].phase = "refund",
                                 ![c].read.retained = deposit.retained]
       ELSE Return(c)
    /\ UNCHANGED <<visit, books, event, provider, history>>

ReceiveRetry(c) ==
    /\ deposit.status = "REFUND_PENDING"
    /\ deposit.reference
    /\ ~superseded
    /\ refund.status \notin {"NONE", "SUCCEEDED"}
    /\ call[c] = Idle
    /\ call' = [call EXCEPT ![c] =
          [Idle EXCEPT !.op = "retry", !.phase = "claim",
                       !.read.retained = deposit.retained]]
    /\ UNCHANGED <<visit, books, event, provider, history>>

ClaimableAny == refund.status \in {"PENDING", "PROCESSING", "FAILED"}

Claimable ==
    \/ refund.status \in {"PENDING", "FAILED"}
    \/ refund.status = "PROCESSING" /\ refund.stale

ClaimRefund(c) ==
    /\ At(c, "retry", "claim")
    /\ Proceed(c, Claimable, "refund")
    /\ refund' = IF Claimable
                 THEN [refund EXCEPT !.status = "PROCESSING", !.stale = FALSE]
                 ELSE refund
    /\ UNCHANGED <<visit, deposit, capture, captureRef, lastCapture, extra,
                   superseded, event, provider, history>>

\* The provider returns the whole amount if nothing was returned before,
\* refuses, or replays its answer to the same key.
CallRefund(c) ==
    /\ call[c].op \in {"cancel", "retry"} /\ call[c].phase = "refund"
    /\ \/ /\ charged
          /\ returned = 0 \/ executed
          /\ returned' = Amount
          /\ executed' = TRUE
          /\ \/ Goto(c, "refunded")
             \/ Goto(c, "failed")
       \/ /\ Goto(c, "failed")
          /\ UNCHANGED <<returned, executed>>
    /\ UNCHANGED <<visit, books, event, charged, history>>

\* The reference of a cancellation is unique among the transactions.
CancellationFree(r, own) == own = r \/ \A t \in Transmission : extra[t] # r

CommitRefund(c) ==
    /\ call[c].op \in {"cancel", "retry"} /\ call[c].phase = "refunded"
    /\ IF CancellationFree(Amount, refund.reference)
       THEN /\ refund' = [refund EXCEPT !.status = "SUCCEEDED",
                                        !.reference = Amount]
            /\ deposit' = [deposit EXCEPT !.status =
                              IF call[c].read.retained = 0
                              THEN "REFUNDED" ELSE "PARTIALLY_REFUNDED"]
            /\ Return(c)
       ELSE Goto(c, "failed") /\ UNCHANGED <<refund, deposit>>
    /\ UNCHANGED <<visit, capture, captureRef, lastCapture, extra, superseded,
                   event, provider, history>>

FailRefund(c) ==
    /\ call[c].op \in {"cancel", "retry"} /\ call[c].phase = "failed"
    /\ refund' = [refund EXCEPT !.status = "FAILED"]
    /\ loosed' = (loosed \/ (call[c].op = "cancel"
                               /\ refund.status \in {"PROCESSING", "SUCCEEDED"}))
    /\ Return(c)
    /\ UNCHANGED <<visit, deposit, capture, captureRef, lastCapture, extra,
                   superseded, event, provider, overtaken, crossed, failed>>

\* A claim is ten minutes old.
ClaimExpires ==
    /\ refund.status = "PROCESSING" /\ ~refund.stale
    /\ refund' = [refund EXCEPT !.stale = TRUE]
    /\ loosed' = TRUE
    /\ UNCHANGED <<visit, deposit, capture, captureRef, lastCapture, extra,
                   superseded, event, provider, call, overtaken, crossed,
                   failed>>

-----------------------------------------------------------------------------
(* Webhooks: handle(), process() and reconcile() *)

ReceiveWebhook(c, t) ==
    /\ event[t] \in {"NONE", "FAILED"}
    /\ Start(c, "webhook", IF event[t] = "NONE" THEN "create" ELSE "reopen", t)
    /\ UNCHANGED <<visit, books, event, provider, history>>

EventUnchecked(t) == TRUE

EventIsNew(t) == event[t] = "NONE"

\* The transmission id is unique: an event made meanwhile ends the call.
CreateEvent(c) ==
    LET t == call[c].id IN
    /\ At(c, "webhook", "create")
    /\ Proceed(c, EventIsNew(t), "verify")
    /\ event' = IF EventIsNew(t)
                THEN [event EXCEPT ![t] = "RECEIVED"] ELSE event
    /\ UNCHANGED <<visit, books, provider, history>>

ReopenEvent(c) ==
    /\ At(c, "webhook", "reopen")
    /\ event' = [event EXCEPT ![call[c].id] = "RECEIVED"]
    /\ Goto(c, "verify")
    /\ UNCHANGED <<visit, books, provider, history>>

\* What the provider says of the payment the transmission is about.
Snapshot(t) ==
    [status |-> IF t \in Abandoned THEN "ABORTED"
                ELSE IF ~charged THEN "PENDING"
                ELSE IF returned = 0 THEN "DONE" ELSE "CANCELED",
     amount |-> IF t \in Abandoned THEN 0 ELSE returned]

\* The webhook's own body is not believed: the provider is asked.
VerifyWebhook(c) ==
    /\ At(c, "webhook", "verify")
    /\ \/ call' = [call EXCEPT ![c].phase = "read",
                               ![c].snapshot = Snapshot(call[c].id)]
       \/ Goto(c, "failed")
    /\ UNCHANGED <<visit, books, event, provider, history>>

\* PROCESSED, or IGNORED, which handle() treats alike.
Complete(c) ==
    /\ event' = [event EXCEPT ![call[c].id] = "PROCESSED"]
    /\ Return(c)

\* The transmission tells of something else than a payment's status.
IgnoreWebhook(c) ==
    /\ At(c, "webhook", "verify")
    /\ Complete(c)
    /\ UNCHANGED <<visit, books, provider, history>>

ReadDeposit(c) ==
    /\ At(c, "webhook", "read")
    /\ IF deposit.status = "NONE"
       THEN Goto(c, "failed")
       ELSE call' = [call EXCEPT ![c].phase = "commit",
                                 ![c].read = [status |-> deposit.status,
                                              refunded |-> deposit.refunded,
                                              retained |-> deposit.retained,
                                              refund |-> refund.status,
                                              capture |-> lastCapture]]
    /\ UNCHANGED <<visit, books, event, provider, history>>

\* A unique constraint rolls the transaction back.
RollBack(c) == Goto(c, "failed") /\ UNCHANGED <<books, event>>

Captures(w) == w.snapshot.status = "DONE" /\ w.read.status \in {"READY", "FAILED"}

\* The latest capture row, or a new one, becomes the payment.
CommitPaid(c) ==
    LET w == call[c]
        k == IF w.read.capture = None THEN w.id ELSE w.read.capture
    IN
    /\ At(c, "webhook", "commit")
    /\ Captures(w)
    /\ IF ReferenceFree(k) /\ (k = w.id => capture[k] = "NONE")
       THEN /\ capture' = [capture EXCEPT ![k] = "SUCCEEDED"]
            /\ captureRef' = k
            /\ lastCapture' = IF k = w.id THEN k ELSE lastCapture
            /\ deposit' = Paid(deposit)
            /\ UNCHANGED <<refund, extra, superseded>>
            /\ Complete(c)
       ELSE RollBack(c)
    /\ UNCHANGED <<visit, provider, history>>

FinalStatus(amount) ==
    IF amount = Amount THEN "REFUNDED" ELSE "PARTIALLY_REFUNDED"

RetainedLessRefund(w) == w.read.retained - w.snapshot.amount

Retained(w) == Amount - w.snapshot.amount

Refunds(w) ==
    /\ w.snapshot.status = "CANCELED"
    /\ \/ w.read.status # FinalStatus(w.snapshot.amount)
       \/ w.read.refunded # w.snapshot.amount

\* A cancellation has found a refund due and not committed yet.
CancellationUnderWay ==
    \E c \in Call : Cancelling(c) /\ RefundDue(call[c].read.status)

\* The open refund is taken for the provider's latest cancellation; without
\* one, a row is added if more was returned than the deposit said.
CommitCanceled(c) ==
    LET w == call[c]
        amount == w.snapshot.amount
        open == w.read.refund \notin {"NONE", "SUCCEEDED"}
        added == ~open /\ amount > w.read.refunded
    IN
    /\ At(c, "webhook", "commit")
    /\ Refunds(w)
    /\ IF /\ open => CancellationFree(amount, refund.reference)
          /\ added => /\ extra[w.id] = 0
                      /\ CancellationFree(amount, 0)
                      /\ refund.reference # amount
       THEN /\ refund' = IF open THEN [refund EXCEPT !.status = "SUCCEEDED",
                                                     !.reference = amount]
                         ELSE refund
            /\ extra' = IF added THEN [extra EXCEPT ![w.id] = amount] ELSE extra
            /\ superseded' \in IF added THEN {superseded, TRUE} ELSE {superseded}
            /\ crossed' = (crossed \/ (added /\ CancellationUnderWay))
            /\ deposit' = [status |-> FinalStatus(amount), reference |-> TRUE,
                           refunded |-> amount, retained |-> Retained(w)]
            /\ UNCHANGED <<capture, captureRef, lastCapture>>
            /\ Complete(c)
       ELSE RollBack(c) /\ UNCHANGED crossed
    /\ UNCHANGED <<visit, provider, overtaken, loosed, failed>>

AbortsAny(w) == w.snapshot.status = "ABORTED"

Aborts(w) == w.snapshot.status = "ABORTED" /\ w.read.status = "READY"

CommitAborted(c) ==
    /\ At(c, "webhook", "commit")
    /\ Aborts(call[c])
    /\ deposit' = [deposit EXCEPT !.status = "FAILED"]
    /\ Complete(c)
    /\ UNCHANGED <<visit, capture, captureRef, lastCapture, refund, extra,
                   superseded, provider, history>>

CommitUnchanged(c) ==
    LET w == call[c] IN
    /\ At(c, "webhook", "commit")
    /\ ~Captures(w) /\ ~Refunds(w) /\ ~Aborts(w)
    /\ Complete(c)
    /\ UNCHANGED <<visit, books, provider, history>>

FailWebhook(c) ==
    /\ At(c, "webhook", "failed")
    /\ event' = [event EXCEPT ![call[c].id] = "FAILED"]
    /\ failed' = failed \cup {call[c].id}
    /\ Return(c)
    /\ UNCHANGED <<visit, books, provider, overtaken, loosed, crossed>>

-----------------------------------------------------------------------------
(* Everything around the service *)

\* The back office of the provider returns money on its own.
CancelAtProvider(amount) ==
    /\ charged
    /\ returned + amount <= Amount
    /\ returned' = returned + amount
    /\ UNCHANGED <<visit, books, event, charged, executed, call, history>>

\* The process that handles the call dies.
Crash(c) ==
    /\ call[c] # Idle
    /\ Return(c)
    /\ UNCHANGED <<visit, books, event, provider, history>>

ConfirmNext(c) ==
    \/ ReceivePrepare(c) \/ CommitPrepare(c)
    \/ \E k \in Key : ReceiveConfirm(c, k)
    \/ CreateCapture(c) \/ CallCapture(c) \/ CommitConfirm(c) \/ FailConfirm(c)

RefundNext(c) ==
    \/ BeginCancel(c) \/ QueueRefund(c) \/ CommitCancel(c) \/ LoadRefund(c)
    \/ ReceiveRetry(c) \/ ClaimRefund(c)
    \/ CallRefund(c) \/ CommitRefund(c) \/ FailRefund(c)

WebhookNext(c) ==
    \/ \E t \in Transmission : ReceiveWebhook(c, t)
    \/ CreateEvent(c) \/ ReopenEvent(c) \/ VerifyWebhook(c) \/ IgnoreWebhook(c)
    \/ ReadDeposit(c)
    \/ CommitPaid(c) \/ CommitCanceled(c) \/ CommitAborted(c)
    \/ CommitUnchanged(c) \/ FailWebhook(c)

Next ==
    \/ \E c \in Call : ConfirmNext(c) \/ RefundNext(c) \/ WebhookNext(c)
                       \/ Crash(c)
    \/ \E amount \in Cancellation : CancelAtProvider(amount)
    \/ ClaimExpires

Spec == Init /\ [][Next]_vars

-----------------------------------------------------------------------------

DepositStatus == {"NONE", "READY", "FAILED", "PAID", "REFUND_PENDING",
                  "REFUNDED", "PARTIALLY_REFUNDED"}

RefundStatus == {"NONE", "PENDING", "PROCESSING", "SUCCEEDED", "FAILED"}

CallState ==
    [op : {"none", "prepare", "confirm", "cancel", "retry", "webhook"},
     phase : {"idle", "create", "capture", "reopen", "verify", "read", "queue",
              "commit", "load", "claim", "refund", "refunded", "failed"},
     id : CaptureRow \cup {None},
     read : [status : DepositStatus, refunded : 0..Amount, retained : 0..Amount,
             refund : RefundStatus, capture : CaptureRow \cup {None}],
     snapshot : [status : {"NONE", "PENDING", "DONE", "CANCELED", "ABORTED"},
                 amount : 0..Amount]]

\* Every variable stays within its type.
TypeOK ==
    /\ visit \in {"CONFIRMED", "CANCELLED"}
    /\ deposit \in [status : DepositStatus, reference : BOOLEAN,
                    refunded : 0..Amount, retained : 0..Amount]
    /\ capture \in [CaptureRow -> {"NONE", "PENDING", "SUCCEEDED", "FAILED"}]
    /\ captureRef \in CaptureRow \cup {None}
    /\ lastCapture \in CaptureRow \cup {None}
    /\ refund \in [status : RefundStatus, reference : 0..Amount,
                   stale : BOOLEAN]
    /\ extra \in [Transmission -> 0..Amount]
    /\ superseded \in BOOLEAN
    /\ event \in [Transmission -> {"NONE", "RECEIVED", "PROCESSED", "FAILED"}]
    /\ charged \in BOOLEAN
    /\ returned \in 0..Amount
    /\ executed \in BOOLEAN
    /\ call \in [Call -> CallState]
    /\ overtaken \in BOOLEAN
    /\ loosed \in BOOLEAN
    /\ crossed \in BOOLEAN
    /\ failed \subseteq Transmission

\* The books never claim a payment or a refund the provider has not made,
\* whatever answers were lost and in whatever order webhooks came: a deposit
\* is PAID, or on its way back, only if it was charged, REFUNDED only if all of
\* it was returned, and a refund row records money really returned.
RecordedMoneyIsReal ==
    /\ deposit.status \in {"PAID", "REFUND_PENDING"} => charged
    /\ deposit.status = "REFUNDED" => charged /\ returned = Amount
    /\ deposit.status = "PARTIALLY_REFUNDED" => charged /\ returned > 0
    /\ refund.reference <= returned
    /\ \A t \in Transmission : extra[t] <= returned

Standing == {"REFUND_PENDING", "REFUNDED", "PARTIALLY_REFUNDED"}

\* Once a cancellation has queued a refund the deposit is pending or refunded
\* for good, unless a confirmation or a webhook was still in flight then: it
\* may write PAID or FAILED over it on what it read before.
RefundStaysOwed ==
    refund.status # "NONE" /\ ~overtaken =>
        deposit.status \in Standing

\* A refund that is still pending keeps what another attempt needs: a payment
\* to refund and a row that did not succeed, which the cancellation's own
\* attempt and the webhooks find.  An administrator's retry, which takes the
\* REFUND row created last, finds it too, unless a webhook added a row while
\* the cancellation was in its transaction: then retryRefund() may return early.
PendingRefundRetryable ==
    deposit.status = "REFUND_PENDING" =>
        /\ deposit.reference
        /\ refund.status \in {"PENDING", "PROCESSING", "FAILED"}
        /\ superseded => crossed

Retrying(c) ==
    call[c].op = "retry" /\ call[c].phase \in {"refund", "refunded", "failed"}

\* Administrators' retries of one refund exclude each other from the claim to
\* its result, as long as no claim expires and no cancellation's own attempt,
\* which claims nothing, fails over one.
RetriesExcludeEachOther ==
    ~loosed => \A c, d \in Call : Retrying(c) /\ Retrying(d) => c = d

Handling(c) ==
    /\ call[c].op = "webhook"
    /\ call[c].phase \notin {"create", "reopen"}

\* A transmission whose handling never failed is handled by one call only, and
\* by none once it is PROCESSED, however often and concurrently it is delivered.
HandledOnce ==
    \A c \in Call : Handling(c) /\ call[c].id \notin failed =>
        /\ event[call[c].id] = "RECEIVED"
        /\ \A d \in Call \ {c} : Handling(d) => call[d].id # call[c].id

\* One charge is settled on one row: a confirmation and a webhook that answer
\* for it at the same time never leave two captures SUCCEEDED, nor a PAID
\* deposit without one that holds the payment reference.
OnePayment ==
    /\ deposit.status = "PAID" => captureRef # None
    /\ \A k \in CaptureRow : capture[k] = "SUCCEEDED" => captureRef = k

\* What the architecture document says of member cancellations: a paid
\* deposit of a cancelled visit has its refund requested.
PaidMeansStanding == deposit.status = "PAID" => visit = "CONFIRMED"

-----------------------------------------------------------------------------
(* The deposit as an account *)

\* What the books say of the deposit, to the member and to administrators.
Said(status) ==
    CASE status \in {"NONE", "READY", "FAILED"} -> "NOTHING"
      [] status = "PAID" -> "PAID"
      [] status = "REFUND_PENDING" -> "RETURNING"
      [] status = "PARTIALLY_REFUNDED" -> "PARTLY"
      [] status = "REFUNDED" -> "RETURNED"

Entries == ({refund.reference} \cup {extra[t] : t \in Transmission}) \ {0}

Account ==
    INSTANCE DepositAccount WITH
        refunded <- executed,
        owed <- refund.status # "NONE",
        told <- Said(deposit.status),
        entries <- Entries

\* The deposit keeps the promises of DepositAccount, whatever answers are lost,
\* and however confirmations, cancellations, retries and webhooks overlap: it
\* is charged once, refunded by the service once and only if a cancellation
\* asked for what was paid; and every row written says what is so.
ImplementsAccount == Account!Spec

-----------------------------------------------------------------------------
(* The inductive invariants behind these properties: what the calls in     *)
(* flight may still do.                                                    *)

\* A call about to record money knows it was paid or returned.
MoneyInv ==
    /\ RecordedMoneyIsReal
    /\ \A c \in Call :
          LET w == call[c] IN
          /\ At(c, "confirm", "commit") => charged
          /\ Cancelling(c) /\ w.read.status = "PAID" => charged
          /\ w.op \in {"cancel", "retry"} /\ w.phase = "refunded" =>
                charged /\ returned = Amount
          /\ w.op = "webhook" /\ w.phase \in {"read", "commit"} =>
                /\ w.snapshot.amount <= returned
                /\ w.snapshot.status = "DONE" => charged
                /\ w.snapshot.status = "CANCELED" =>
                      charged /\ w.snapshot.amount > 0

\* What is to be returned was paid, and what the service returned is all.
AccountInv ==
    /\ refund.status # "NONE" => charged
    /\ executed => charged /\ returned = Amount

\* Unless the cancellation overtook a capture, none is in flight once it has
\* read the deposit as PAID.
RefundInv ==
    /\ RefundStaysOwed
    /\ PendingRefundRetryable
    /\ deposit.status = "PAID" => deposit.reference
    /\ refund.status # "NONE" => visit = "CANCELLED"
    /\ refund.status # "NONE" /\ ~overtaken => ~CaptureInFlight
    /\ \A c \in Call :
          LET w == call[c] IN
          /\ Cancelling(c) =>
                /\ visit = "CONFIRMED"
                /\ \A d \in Call : Cancelling(d) => d = c
                /\ w.read.status = "PAID" =>
                      /\ deposit.reference
                      /\ superseded => crossed
                      /\ ~overtaken => /\ ~CaptureInFlight
                                       /\ deposit.status \in Standing \cup {"PAID"}
          /\ w.op = "retry" => refund.status # "NONE"
          /\ w.op = "cancel" /\ w.phase \in {"refund", "refunded", "failed"} =>
                refund.status # "NONE"
          /\ At(c, "webhook", "commit") /\ w.read.refund # "NONE" =>
                refund.status # "NONE"

\* While a retry is at work its claim keeps the others out.
RetryInv ==
    /\ RetriesExcludeEachOther
    /\ ~loosed => \A c \in Call : Retrying(c) =>
                     refund.status \in {"PROCESSING", "SUCCEEDED"} /\ ~refund.stale

\* A second attempt at a transmission starts from a failed one.
HandledInv ==
    /\ HandledOnce
    /\ \A t \in Transmission : event[t] = "FAILED" => t \in failed
    /\ \A c \in Call :
          /\ call[c].op = "webhook" => call[c].id \in Transmission
          /\ At(c, "webhook", "reopen") => call[c].id \in failed

\* Calls that record a payment have a row to record it on.
PaymentInv ==
    /\ OnePayment
    /\ \A c \in Call :
          /\ call[c].op = "confirm" => call[c].id \in Key
          /\ call[c].op = "webhook" => call[c].id \in Transmission

=============================================================================
