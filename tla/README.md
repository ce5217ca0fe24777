# Verification of the LIFE HOME AI server

LIFE HOME AI is a real-estate service: a NestJS API over PostgreSQL
(`src/apps/api`), a Next.js site and a Flutter app. All of its state lives in
the database. The API runs as several processes, and a service method is a
sequence of awaited database and provider calls, most of them outside a
transaction, under READ COMMITTED. Its hard questions are therefore about
interleaving, stale reads, crashes between two awaits, and external providers
that may have done something although they answered nothing. This directory
models that logic in TLA+, checks it with TLC on small instances and proves the
most important results with TLAPS for every value of the constants.

## Files

| file | what it is |
|------|------------|
| `VisitReservations.tla` | visit requests: create, approve, reject, propose, accept, decline, cancel |
| `VisitAgreement.tla` | what a reservation is to its two parties (abstract) |
| `VisitReservationsProofs.tla` | its type invariant, three safety invariants, the refinement of `VisitAgreement` and, for calls that do not overlap, the two double-booking rules, proved |
| `MCVisitReservations.tla`, `VisitRace.cfg`, `VisitSerial.cfg`, `VisitDoubleBooking.cfg` | its runs |
| `NotificationDelivery.tla` | what the outbox promises of one notification (abstract) |
| `NotificationOutbox.tla` | the outbox worker: poll, claim, load, deliver, mark |
| `NotificationOutboxProofs.tla` | its safety invariants and the refinement, proved |
| `MCNotificationOutbox.tla`, `Outbox*.cfg` | its runs |
| `ReservationDeposit.tla` | the deposit of a visit: prepare, confirm, cancellation and refund, administrators' retry, webhooks, the provider |
| `DepositAccount.tla` | what a deposit is to the member who pays it (abstract) |
| `ReservationDepositProofs.tla` | its type invariant, six safety invariants and the refinement of `DepositAccount`, proved |
| `MCReservationDeposit.tla`, `Deposit*.cfg` | its runs |
| `ElectronicContract.tla` | the contract of a visit: create, safety recheck, start of signing, webhooks, the signing provider |
| `ElectronicContractProofs.tla` | its type invariant, six safety invariants and two action properties, proved |
| `MCElectronicContract.tla`, `Contract.cfg`, `ContractRegresses.cfg` | its runs |
| `Requests.tla` | the table of HTTP requests in flight, shared by the services below |
| `RoomLog.tla` | what a chat room promises its two parties (abstract) |
| `PropertyChat.tla`, `PropertyChatProofs.tla` | a chat room; its invariants and the refinement, proved |
| `UserAccounts.tla`, `UserAccountsProofs.tla` | login, token refresh, logout, password reset by code; its invariants, proved |
| `PropertyListing.tla`, `PropertyListingProofs.tla` | a listing, its images and the upload queue; its invariants and those of its reports, proved |
| `PropertyReports.tla` | the reports about a listing and their reviews, composed with `PropertyListing` |
| `Services.tla`, `ServicesProofs.tla` | chat, accounts, listing and reports as one program; what is proved of each holds of the whole |
| `MCServices.tla`, `Services.cfg` | its run |

`PROJECT.json` lists components, runs, mutants, the map from definitions to
source lines, findings, hazards and theorems.

## Inventory

Paths are under `src/apps/api/src`.

| component | state it keeps | operations | what is hard | what makes it correct |
|---|---|---|---|---|
| Visit reservations (`reservations/visit-reservations.service.ts`) | `visit_reservations`, history, outbox and audit rows | create, approve, reject, proposeAlternative, acceptAlternative, declineAlternative, cancel | conflict queries outside the transaction; a transition guarded only by the status read earlier | one active visit per member and listing; histories without gaps; confirmations agreed by both sides; no double booking |
| Notification outbox (`notifications/notification-outbox.worker.ts`) | `notification_outbox`, the memory of each drain | poll, claim, load, deliver, markSent, markSkipped, markFailed | several processes, expiring locks, death anywhere, slow drains, unknown effects | one holder; bounded attempts; final outcomes; never push and SMS; everything settles |
| Endpoints and providers (`notification-endpoints.service.ts`, `notification-provider.service.ts`) | `notification_endpoints` | registerPush, unregister, sendPush, sendSms | token replaced while a push is under way | only retired tokens are invalidated |
| Reservation deposits (`payments/reservation-deposit.service.ts`) | `reservation_deposits`, `payment_transactions` | prepare, confirm, queueReservationRefund, processPendingReservationRefund | unconditional updates after an awaited provider call | money captured for a cancelled visit is refunded; at most one refund; ledger agrees with provider |
| Payment webhooks (`payments/payment-webhook.service.ts`) | `payment_webhook_events` | handle, reconcile | duplicates, reordering, crash while RECEIVED | each transmission applied once; provider and database converge |
| Admin refunds (`payments/admin-payments.service.ts`) | a claim on the refund transaction | retryRefund | stale claim taken over, race with the first refund | one refund takes effect |
| Payment adapters (`payments/payment-provider.service.ts`) | none | capture, refund, lookup | timeout with unknown effect | idempotency |
| Electronic contracts (`contracts/electronic-contract.service.ts`) | `electronic_contracts`, history | create, startSigning | error path overwrites a newer status | terminal statuses stay |
| Contract webhooks (`contracts/contract-webhook.service.ts`) | `contract_webhook_events` | handle, process | transition judged on a stale read | no regression from a terminal status |
| Safety recheck (`contracts/contract-safety-recheck.service.ts`) | `contract_safety_rechecks` | run, ensurePassedForSigning | superseded runs finish late | signing only after a passed, unexpired check |
| Sessions (`auth/auth.service.ts`, guard) | sessions, refresh tokens, login counters | login, refresh, logout | rotation races logout; failures counted from a stale read | one working token per session; a revoked session stays revoked; failures lock the account |
| Verification (`auth/verification.service.ts`) | challenges | issue, consume, confirmPasswordReset | attempts checked before they are counted | a code is consumed once; attempts bounded; a reset ends the old sessions |
| Chat (`chat/property-chat.service.ts`) | rooms, messages, read marks | createRoom, sendMessage, markRead | concurrent sends, resends | distinct gapless sequence; marks never go back |
| Media (`properties/media-*.ts`) | uploads, media | requestUpload, upload, process, delete | redelivered jobs, limits, deletion | media created once; limits hold; a public listing keeps an image |
| Listings (`properties/properties.service.ts`) | `properties`, changes | create, update, submit, review, price, deal status | optimistic locking in some operations, none in `update()` | a listing on offer has a public image and an open deal; recorded changes happened |
| Watches, saved searches, comparisons, history (`properties/*`) | per-member lists | add, remove | counting before inserting | limits hold |
| Reports (`properties/property-reports.service.ts`) | `property_reports`, their histories | create, review | the duplicate is looked for before the insert; reviewers overlap; a review writes the listing | one unprocessed report per member; a history without gaps; what is taken off stays off |
| Broker registration and review, lease safety | one row each | guarded transitions, a score | little | reviewed once |
| Route planner, calendar, currency, feature policy | cache row at most | pure computations | fallback to a stale rate | agree with a reference definition |
| Dashboard, configuration, guards, infrastructure, web, mobile | none of their own | reads, wiring | nothing for a state model | |

How they interact. A reservation transaction writes the outbox row of the other
party, and a cancellation also queues the refund of a paid deposit, both in the
same transaction. After that transaction the cancelling call itself tries the
refund; an administrator's retry and provider webhooks may do it too. Deposits
and contracts hang off a CONFIRMED reservation. Contracts, payments, listings,
chat and reviews all enqueue outbox rows. The outbox worker is the only reader
of that table.

## VisitReservations

State: the clock, whether each listing is publicly ACTIVE, the reservation
rows, per reservation the sequence of history/outbox/audit entries
(`recordTransition()` writes the three together, so they are one entry of
`ledger`), a coarse deposit, and the calls in flight. A call is one record in a
`Request` slot, and each of its database round trips is one action:

| action | code |
|---|---|
| `ReceiveCreate` ... `ReceiveCancel` | the first read and every early return of the method |
| `CheckCreate`, `CheckRegistrant`, `CheckAcceptRegistrant`, `CheckAcceptRequester` | the conflict queries, outside any transaction |
| `CommitCreate` | the insert, with the partial unique index of the migration |
| `BrokerTransition`, `RequesterTransition` | the transaction: the guarded `updateMany`, the ledger and, for a cancellation, the refund queue |
| `Tick`, `ChangeListing`, `DepositPaid`, `Crash` | time, the property service, the payment service, a dying process |

A call that throws has written nothing and just frees its slot. In `create()`
the two queries are issued with one `Promise.all` and are one step; so are the
reads before them. Approve, propose and accept carry what they read
(`expected`, `window`, `stamp`) exactly as the code's local variables do.
Message texts, reservation numbers and the read-only lists are left out.

`VisitAgreement` is the reservation as its two parties know it, without
requests, queries or transactions: the visitor asks (for a listing of somebody
else, of which no visit of theirs stands), the host approves, rejects or
proposes, the visitor accepts, declines or cancels, and every act is told to
the other party with the status it left, the one it led to and the window it is
about. `ImplementsAgreement` is that specification with the tables as they are:
`visit` is what the rows say (`VisitOf`; a closed reservation holds no window)
and `story` is the ledger. It is stronger than the invariants in one direction
they cannot go, from a state to the next: each commit, made on a row read
several awaits before, is an act of the right party on the visit *as it then
is*, and the window the other party is told of is the one that stands. That a
member has one active visit per listing (`OneActiveVisitPerListing`) follows,
because only `Ask` makes a visit stand.

Runs. The constants keep the order of the code's limits (30 min and 3 h, 1 h, 2
h, 24 h, 90 days) and nothing else of them matters to any guard.

* `visit_race`: two calls in flight, two rows, two windows that overlap without
  being equal, one listing, three instants. Two calls suffice for every race of
  a read against a commit, because a call never depends on more than the last
  value of the rows it reads. Checks `TypeOK`, `LedgerIsUnbroken`,
  `ConfirmedByBothParties`, `ImplementsAgreement`. About 0.9 million states.
* `visit_serial`: one call at a time, two listings of two registrants, two
  visitors (one of whom is also a registrant). Shows that the conflict queries
  themselves are right: neither registrants nor visitors are double-booked, and
  the visitor's side holds although `approve()` never looks at it. About 1.2
  million states.
* `visit_double_booking` (violation): the same property with two calls in
  flight. Two approvals query before either commits; both commit. The document
  claims overlapping reservations are checked; the check is not in the
  transaction and, unlike the per-listing rule, has no index behind it. The
  visitor's side is exposed to the same race by two simultaneous `create()`.

## NotificationOutbox

State: the outbox rows, each worker's drain (`drain`) and its deliveries
(`job`), the endpoints and which of their tokens the provider has retired, and
three history variables (`reached`: what each channel accepted, `lost`: how
often a row's lock expired, `faulty`: rows for which something failed in a way
that leaves its effect unknown).

| action | code |
|---|---|
| `Poll` | `drainOnce()` to the candidate query: requeue of expired locks, selection of a batch |
| `Claim` | the `updateMany` under a fresh lock id |
| `Load` | the `findMany` by lock id, which also reads the recipients' endpoints |
| `Push`, `PushDone` | `tryPush()`, one provider call per step, and what `deliver()` makes of it |
| `Sms` | `sendSms()` |
| `MarkDelivered`, `MarkThrows`, `MarkFailed` | `markSent()`/`markSkipped()`, their failure, `markFailed()` |
| `Tick`, `Crash`, `RetireToken`, `RegisterPush`, `Unregister` | the environment |

Time is relative (`wait` until `nextAttemptAt`, `age` of a lock), so it needs
no bound. Requeue and candidate query are one step: the claim re-checks status
and lock, so what lies between them cannot be told apart. The candidates' order
is abstracted to any batch of `BatchSize` due rows. A provider answers success,
a retryable error (with or without having delivered), a retired token or any
other error. Endpoint rows exist from the start; creating another row later is
not modelled.

`NotificationDelivery` is the promise without workers, locks or time: an
outcome that never changes, SENT only if some channel accepted, and, as long as
nothing left a doubt, each endpoint at most once and an SMS only instead of
pushes. `ImplementsDelivery` is that specification under the mapping `outcome
<- Settled(row)`, `doubtful <- faulty`.

Runs.

* `outbox`: two workers, one row, two endpoints and the three kinds of
  fallback, one crash, one tick by which a live drain may outlive its lock, one
  change of an endpoint, two attempts. Three lock ids are enough for two drains
  and a dead lock. One row suffices because no action of one row reads another;
  batches are in the next run, and the theorems hold for any number. About 1.0
  million states.
* `outbox_settles`: two rows in one batch, one with an endpoint, one without, a
  crash and an overrun, under fairness. About 0.2 million states.
* `outbox_stale_token` (violation): a push to an old token is refused after the
  app has registered a new one in the same row; the row, with the live token in
  it, becomes INVALID.
* `outbox_backoff` (violation): the delay before a retry is enforced by the
  candidate query only, so a worker with an older candidate list retries at
  once.

Fairness is `WF(Tick)` and `WF(Drain(w))` for each worker: every process polls
with `setInterval` and runs nothing else that could block it, provider calls
time out, and a process that dies is restarted. Crashes and overruns have no
fairness and are bounded by `MaxCrash` and `MaxOverrun`: a worker that dies for
ever settles nothing, in the model as in the code.

## ReservationDeposit

The deposit of one reservation, its ledger and the provider behind it. All
three services (`reservation-deposit.service.ts`, `payment-webhook.service.ts`,
`admin-payments.service.ts`) read the rows, wait for the provider and then
write by primary key, mostly without looking again. So the module is about who
writes over whom. A call in flight is a record in a slot of `Call` with what it
has read (`read`), what the provider told it (`snapshot`) and where it is
(`phase`). Each database or provider round trip is one action.

State: the visit's status, the deposit row, the CAPTURE rows (one per
idempotency key, or per transmission when a webhook had to create one) with the
holder of the unique payment reference, the REFUND row of the cancellation, the
REFUND rows webhooks add, whether one of these was created after the
cancellation's (`superseded`), the webhook events, and the provider: whether it
captured, how much it returned, whether it executed the refund key.

| action | code |
|---|---|
| `ReceivePrepare`, `CommitPrepare` | `prepare()`: checks outside the transaction, then the insert |
| `ReceiveConfirm`, `CreateCapture`, `CallCapture`, `CommitConfirm`, `FailConfirm` | `confirm()`: early returns, the PENDING row, the provider, the transaction, the catch block |
| `BeginCancel`, `QueueRefund`, `CommitCancel` | the cancelling transaction: the visit is locked and the deposit read; `queueReservationRefund()` creates the REFUND row, unseen until the commit; the deposit is written on the old reading, and all is committed |
| `LoadRefund`, `CallRefund`, `CommitRefund`, `FailRefund` | `processPendingReservationRefund()`, which claims nothing |
| `ReceiveRetry`, `ClaimRefund`, and the same three | `retryRefund()`, which does nothing when the latest REFUND row succeeded; `ClaimExpires` is its ten-minute limit |
| `ReceiveWebhook`, `CreateEvent`, `ReopenEvent` | `handle()` |
| `VerifyWebhook`, `IgnoreWebhook`, `ReadDeposit`, `FailWebhook` | `process()` and the start of `reconcile()` |
| `CommitPaid`, `CommitCanceled`, `CommitAborted`, `CommitUnchanged` | the four outcomes of `reconcile()` |
| `CancelAtProvider`, `Crash` | a refund in the provider's back office, a dying process |

The provider executes or refuses, and in either case the service may see a
failure. It knows one payment per order number, and a repeated capture or
refund under a known key changes nothing. A transaction that violates a unique
constraint rolls back into the catch block. What is abstracted: the visit's
start time (it only disables calls), amounts other than the whole deposit for
the service's own refund (the code's rate is fixed at 100 %), and the identity
of a cancellation at the provider, which is the total returned after it.
Transmissions of `Abandoned` report an attempt that came to nothing, and the
others report the payment as the provider has it when asked. Rows of other
deposits never interact with this one's, so one deposit is enough. The visit's
earlier life is in `VisitReservations`, whose `deposit` is the coarse view of
this module.

What the model does *not* promise, because the code does not: a capture still
in flight when a refund is queued may write PAID over REFUND_PENDING, so
`RefundStaysOwed` excludes cancellations that overtook one (`overtaken`). A
cancellation's own refund attempt claims nothing and may run beside an
administrator's retry, and its failure frees the retry's claim (`loosed`). A
transmission whose handling failed may be handled by two calls at once
(`failed`). The invariants say exactly what remains true beside these.

A cancellation holds no lock on the deposit until it writes it. A webhook that
records a back-office refund between the cancellation's reading and its commit
(`crossed`) leaves a SUCCEEDED REFUND row, and the cancellation then writes
REFUND_PENDING over that result. `createdAt` is a clock reading and not the
order of commits, so either row may be the later one. When the webhook's is,
`retryRefund()`, which takes the latest REFUND row of any origin, returns
without trying, although src/README.md:346-350 says that a failed refund can be
processed again. `PendingRefundRetryable` says that this crossing is the only
way to such a deposit, and that even then the cancellation's own row is open
for its own attempt. That attempt is made once, after the commit; the process
may die before it.

`DepositAccount` is the deposit as the member who pays it knows it: charged
once; refunded by the service once, in full, only after a cancellation asked
for what was paid, and only if nothing else had gone back; less than that may
go back at the provider's back office, never more than was paid; and books that
are written at any time but say only what is so. `ImplementsAccount` is that
specification with `owed` for a REFUND row, `told` for what the deposit's
status says (`Said`) and `entries` for the totals its refund rows record. It
contains `RecordedMoneyIsReal` for the deposit's status and its refunds, and
adds what may happen at the provider and in which order.

Runs.

* `deposit`: two calls in flight, two idempotency keys of `confirm()`, two
  transmissions of which one is about an abandoned attempt, an amount of 2 so
  that partial refunds in the back office exist. Two calls already give every
  pair of a stale read and an overwrite, and the theorems cover any number. The
  constraint `Focus` tries a second key or a second transmission, not both in
  one behaviour: a charge is claimed by two rows when a second key made one
  before the first was settled, and webhooks compete with each other under one.
  Checks `TypeOK`, `RefundStaysOwed`, `PendingRefundRetryable`,
  `RetriesExcludeEachOther`, `HandledOnce`, `OnePayment`, `ImplementsAccount`.
  Deadlock is not checked: a refunded deposit with all events processed has
  nothing left to do.
* `deposit_after_cancel` (violation): prepare, cancel, confirm, one call at a
  time. The cancellation finds the deposit READY, queues no refund and leaves
  it payable. `confirm()` never looks at the visit. The deposit is PAID, the
  visit CANCELLED, no refund is requested, and `retryRefund()` refuses a
  deposit that is not REFUND_PENDING. The documents say the cancellation
  requests the full refund in its own transaction.

No liveness is stated: after the cancellation's single attempt a refund moves
only when an administrator or a webhook acts, and nothing in the code makes
either happen.

## ElectronicContract

The electronic contract of one confirmed visit, with its safety rechecks, its
webhook events and the signing provider. `startSigning()` reads the contract,
waits for a recheck, claims the contract with an `updateMany` on the status it
read, waits for the provider and then writes the outcome by primary key. A
webhook checks its transition against the status it read before its
transaction, and the transaction writes by primary key too. So once more the
question is who writes over whom; `raced` remembers that a status was written
while another call was about to write one, and the properties say what holds
without that.

State: the contract's status and whether its provider's id is stored (`bound`),
the two parties, the recheck rows by attempt, the webhook events, the clock,
the provider's session and what each transmission says, and the calls in
flight.

| action | code |
|---|---|
| `ReceiveCreate`, `CommitCreate` | `create()`; the unique `reservationId` turns a second contract into the first |
| `ReceiveSign`, `ReadContract` | `startSigning()`: the read and the early returns |
| `ReceiveRecheck` | `run()` as a participant asks for it |
| `CheckContract`, `ReadLatest`, `CreateAttempt`, `RecordRecheck` | `run()`: early returns, the latest attempt, the insert under the unique attempt, the row written by its id; `ensurePassedForSigning()` |
| `Claim`, `CallSession`, `BindSession`, `FailSession` | `startSigning()`: the compare-and-set, the provider, the success and the error path |
| `ReceiveWebhook`, `StoreEvent`, `RetakeEvent` | `handle()` |
| `Process`, `IgnoreEvent`, `RefuseEvent`, `ApplyEvent`, `LoseApply`, `ReleaseEvent` | `process()`, `updateParties()`, `canTransition()`, `failEvent()`, `processSafely()` |
| `ProviderReports`, `Tick`, `Crash` | the provider's session moves on and says so, the clock, a dying process |

The provider keeps one session per contract (the code's idempotency key is the
contract's id), starts it anew only when it had failed, and reports it in
messages that arrive any number of times and in any order. The visit is
confirmed and both parties are verified: otherwise `create()` is refused and
nothing below happens. A `VIEWED` report whose contract status is still
SIGNING_PENDING is ignored by `canTransition()`, in the model as in the code.

Runs.

* `contract`: two calls, two transmissions, five messages (one party signs and
  the other looks or declines, both sign with and without the document, the
  session fails), two rechecks, two instants. `Focus`: two transmissions on a
  listing that needs no recheck, one beside one recheck, none beside several;
  webhooks and rechecks meet only in the status. Checks `TypeOK`, `OneSession`,
  `PendingHasOwner`, `CheckedBeforeSigning`, `RunningRechecksApart`,
  `AppliedOnce`, `FinalReportSticks`, `PartiesOnlyForward`, `FinalUnlessRaced`.
  About 0.7 million states. Deadlock is not checked: a finished contract with
  all reports handled and no attempt left may stop.
* `contract_regresses` (violation): `FinalForGood`, the promise of the
  documents without the reservation about overlapping writers. A webhook that
  checked before another one committed SIGNED takes the contract back, and so
  does a restarted signing whose provider call fails.

No liveness is stated: a contract left SIGNING_PENDING by a dying process is
found by no webhook and by no retry (`PendingHasOwner` says when that happens).

## Chat, accounts, listings and reports

These services keep a table of requests in flight (`Requests`). `Services` is
the program they form over one database. Reports belong to the listing and move
together with it, and the chat reads the listing's row: `createRoom()` and
`sendMessage()` ask whether it is public. `PropertyChat` by itself lets that
answer change at any time (`ListingChanges`); in `Services` it is the listing's
own status (`Public`, `ListingIsSeen`), so that a listing which a report takes
off between two awaits of a send is seen off by the next. Nothing else is
shared.

`PropertyChat` is one room of a member and a registrant. `sendMessage()` looks
for the client's message id before its transaction (`LookUp`), again inside it
(`CheckInTransaction`), numbers the message by incrementing the room's counter
and falls back on the unique index (`CommitMessage`, `Recover`). `markRead()`
compares and sets (`ReadRoomForMark`, `CommitMark`). `LoseChat` is a request
whose answer is lost, after which clients send again. `RoomLog` is what it
promises: an append-only log in which nobody's id occurs twice, and read marks
that only advance and never point past the end; `ImplementsRoomLog` is that
specification with the messages in the order of their numbers as its log. A
message that was stored but whose answer was lost cannot be confirmed by a
retry once the listing is no longer ACTIVE: `assertWritable()` comes before the
search for the id, so the client gets a conflict. `ToldIsStored` holds all the
same, since it speaks of what a client was told.

`UserAccounts` is one user: the login counter and lock (`ReadUser`,
`RecordFailure`, `ClearFailures`, `OpenSession`), rotation (`ReadToken`,
`ConsumeToken`, `CommitRefresh`), logout and the revocation of a reused token
(`EndSession`, `ReadTokens`, `CommitEnd`), and the reset of the password by a
mailed code (`ReceiveIssue` to `Withdraw`, `ReadChallenge`, `CountMiss`,
`AcceptCode`, `CommitReset`). Rows are locked as PostgreSQL locks them: a
refresh holds its token and waits for the session, a logout holds the session
and waits for the tokens, and when both wait the database aborts one
(`AbortDeadlocked`). What the code does not promise, the properties leave out:
failed logins that overlap are counted once (`uncounted`), a successful login
that began before the lock clears it, a session that was being opened while a
reset committed outlives it (`overtaken`), and a code may be compared with as
many wrong guesses more as requests pass the check of the attempts together.

`PropertyListing` is one brokerage listing with its images: `update()`,
`submit()`, `review()`, `updatePrice()`, `updateDealStatus()`, `deleteMedia()`,
`requestUpload()` and the worker's job (`TakeJob`, `ReadUpload`,
`MarkProcessing`, `Convert`, `ReadForPublish`, `CommitPublish`,
`RemoveOutputs`, `CatchFailure`), with a queue that gives a job out again when
its worker stalls. `version` stands for `updatedAt`; two changes within one
millisecond would share it, which the model does not say. `update()` writes by
primary key after an awaited read, and a submission does not look at the images
again, so `PublicListingsAreSound` excepts listings on which one of them used a
stale read (`overtaken`). `UploadsAreWhole` excepts uploads whose job ran twice
or lost an answer (`disturbed`). An image keeps its number in `upload[u].image`
when `deleteMedia()` has removed it, because the keys of its files were read
before. `update()` replaces all images and does not count uploads under way, so
a listing may end with more images than the limit; no document rules it out and
no property speaks of it. In `requestUpload()` the `FOR UPDATE` on the property
conflicts with the lock that the insert of the processing worker takes for its
foreign key, so its two counts agree and are one step.

`PropertyReports` is what one member reports of that listing, and the
administrators' reviews. `create()` reads the listing, looks for an unprocessed
report and inserts, in three round trips and no transaction (`ReadReported`,
`CheckDuplicate`, `InsertReport`): two submissions that overlap are both
stored, although `src/docs/architecture.md:190` rules duplicates out, and
`doubled` records that this may have happened. `review()` reads the report and
writes it where it is as it was read (`ReadReport`, `CommitReview`); an upheld
report takes the listing off by `TakeDown`, which `PropertyListing` has as an
action of its own for whatever else may do so. `ReportsNext` is a step of the
listing or of a report, and `ReportsKeepListing` proves that the listing still
behaves as `PropertyListing` says. `CondemnedStaysOff` relates the two: the
review looks at the listing's status only in its update, so it takes nothing
off that a stale `update()` had made a draft meanwhile, and that listing can be
put on offer again; short of that, neither a review of the listing nor a change
of its deal nor a submission brings back what a resolved report took off.

Run `services` checks a part of `ServicesSpec`. Where services share no row
their steps commute, so `AloneNext` explores an account and a listing with its
reports each while the others are at rest; the chat moves beside a listing just
published, which a report then takes off, as both are what `Public` tells
apart. The constants: two requests, two message ids, two texts and two
messages; one session of three tokens, one reset, two challenges, an account
that locks after two failures; two prices, three deal statuses to ask for, one
upload tried twice, three images under a limit of two, five versions, two
reports. Two requests are every pair of a read and an overlapping commit; the
theorems cover any number. Three tokens let a token be reused after it was
rotated twice; two challenges let one replace another; two attempts are the
smallest number at which the last differs from the first. `AccountFocus`,
`ListingFocus` and `ReportFocus` keep apart what meets in one action only
(their comments say which). Checks `ServicesTypeOK` (the four type invariants);
`MessagesAreGapless`, `ToldIsStored`, `ImplementsRoomLog`; `SessionsStayEnded`,
`OldPasswordSessionsEnd`, `GuessesAreBounded`; `ChangesAreTrue`,
`PublicListingsAreSound`, `UploadsAreWhole`; `ReportsAreFollowed`,
`CondemnedStaysOff`. About 0.45 million states. Deadlock is not checked: a
locked or worn-out instance may stop at its bounds.

## What is proved

The theorems need only the named assumptions on the constants
(`ConstantAssumption`, `OutboxAssumption`, `DepositAssumption`,
`ContractAssumption`, `ChatAssumption`, `AccountAssumption`,
`ListingAssumption`); every run evaluates those of its module.

`VisitReservationsProofs`: `TypeCorrect`, `ActiveVisitsAreUnique`,
`HistoryIsFaithful`, `ConfirmationIsMutual`. The invariants are not inductive
alone: a commit writes what its call read long before. `IInv` adds
`CallsConsistent` (a call in flight agrees with its row on everything no other
call can change: parties, the requested window, the alternative once proposed)
and `RowsConsistent` (the last ledger entries of a REQUESTED or
ALTERNATIVE_PROPOSED row are the ones that made it so). The guarded
`updateMany` then ties the read to the row at commit.
`RegistrantsAreBookedOnce` and `VisitorsAreBookedOnce` have the form `Spec /\
[]OneCallAtATime => []P`: if no two calls overlap in time, nobody is
double-booked, for any number of listings, members and windows. `SerialInv`
adds to `IInv` that what a call's conflict query found free is still free when
it commits (`QueriesHold`) and that a visitor's open requests never overlap
(`VisitorsApart`), which is what protects the visitor from `approve()`.
`VisitsImplementAgreement` needs one invariant more, `AgreementInv`: as long as
a row has the status a call read, the window the call carries is the one that
stands. It is inductive because a status never returns (`Rank`, `RankGrows`): a
commit on the row leaves every call that had read it behind. `CreateAsks` and
`TransitionActs` then show of the two kinds of commits which act they are;
every other step leaves rows and ledger alone.

`NotificationOutboxProofs`: `TypeCorrect`, `HolderIsUnique`,
`AttemptsAreBounded`, `OutcomesAreFinal`, `OutboxImplementsDelivery`. `IInv`
says: lock ids of drains differ; a job either holds its row or the row's lock
was lost since; a PENDING row has an attempt left, counting lost locks; a row
with a lost lock is faulty; a row that is not faulty has reached nothing while
it is PENDING, and during a delivery only what its job has ticked off.
Refinement is proved action by action: a provider call that delivers is
`Accept`, a mark that changes the row is `Settle`, everything else stutters or
raises a doubt.

`ReservationDepositProofs`: `TypeCorrect`, `BooksAreTrue`,
`QueuedRefundsStayOwed`, `PendingRefundsAreRetryable`, `OneRetryAtATime`,
`TransmissionsAreHandledOnce`, `ChargeIsSettledOnce`,
`DepositImplementsAccount`. Each invariant says of the rows what holds between
two commits, and a commit writes what a call learned earlier, so each needs
what calls in flight still know. `MoneyInv`: a call about to record a charge or
a refund knows a fact of the provider that cannot be undone (charges and
returned totals only grow). `RefundInv`: once a cancellation that overtook
nothing has read PAID, no capture is in flight and none can start, because
confirmations need READY and webhooks READY or FAILED. From that reading on, a
later refund row of a webhook is one that crossed the cancellation: any other
webhook row was created before it. `RetryInv`: the row of a retry at work is
PROCESSING and not expired, or done, so no other can claim it. `HandledInv`:
only failed transmissions are reopened. `PaymentInv`: a call that records a
payment has a row of its own kind. The lemmas `ConfirmWrites`, `RefundWrites`
and `WebhookWrites` name the writers of each variable, so that each
preservation proof treats only these. For the refinement, `ProviderSteps` says
what one step can do at the provider, and `RefundIsQueued` that a REFUND row
stays and is made only for what was charged. `AccountInv` adds that what is to
be returned was paid and that, once the service's own refund was executed, all
of it is back; the books are a `Write` because `MoneyInv` and the totals keep
them true (`BooksAreWritten`).

`ElectronicContractProofs`: `TypeCorrect`, `OneSessionAtATime`,
`PendingContractsHaveOwners`, `SigningRestsOnAPass`, `RechecksRunApart`,
`TransmissionsApplyOnce`, `PartiesGoForward`, `FinalStatesLast`,
`FinalReportsStick`. `ClaimInv`: a call past its claim finds the contract out
of DRAFT, and while the id is missing it is the only one, since the claim needs
a status that a claim takes away. `RecheckInv`: a row that runs is owned by one
call, and a call about to make the next attempt has seen that the latest is not
under way. `HandlerInv`: a transmission of which no handling failed has one
handler at most and none once it is applied. `QuietInv`: the provider's end is
one and every report of an end agrees with it; without an overlap a writer
finds the status it read, and a report that is ignored found the contract where
it says. `StatusWriters`, `BoundWriters`, `RecheckWriters`, `PartyWriters` and
`EventWriters` name who writes what.

`PropertyChatProofs`: `ChatTypeCorrect`, `NumberingIsGapless`,
`AnswersAreTrue`, `ChatImplementsRoomLog`. `ChatInv` adds that a request in
flight holds all its fields and that ids are unique per sender; then the
numbers are exactly `1..last`, a commit appends to the log, a mark is `Read`,
and all else stutters.

`UserAccountsProofs`: `AccountTypeCorrect`, `ResetEndsOldSessions`,
`EndedSessionsStayEnded`, `GuessesStayBounded`. `PasswordInv` ties every open
session and every login past its check to the password it was opened with.
`SessionInv` says who holds which row: a token whose row a refresh holds is the
session's only working one, an open session's row has one holder, and a logout
that has read the session's tokens has seen every one that works. `CodeInv`
bounds attempts plus the requests about to count one by the limit plus the
number of requests, and `CountInv` ties the counter to the failures since the
last success.

`PropertyListingProofs`: `ListingTypeCorrect`, `HistoryIsTrue`,
`OffersAreSound`, `UploadsStayWhole`. `PriceInv`: while the version is the one
a request read, so is the price. `PublicInv`: a submission whose check is not
stale still has its public image, and a listing under review or on offer has
one unless overtaken. `UploadInv`: an undisturbed upload has one job at most,
and its files, its image and its status are where that job's phase says.

Of the reports, in the same module: `ReportsKeepListing`, `ReportsTypeCorrect`,
`ReportsStayFollowed`, `CondemnedListingsStayOff`. `FollowInv` adds that of the
requests that have found no other report, one at most is about to insert and
there is still none, unless two checks overlapped. `CondemnInv` adds that a
listing that is reported, or whose reader is about to report it, is on offer or
off for good unless it was overtaken; the listing's types hold by way of
`ReportsKeepListing`.

`ServicesProofs`: `ServicesKeepChat`, `ServicesKeepAccounts`,
`ServicesKeepReports`, `ServicesTypeCorrect`, `ServicesStaySafe`. The program
is a behaviour of each of its parts: a step of another service leaves a part's
variables alone, except that a step of the listing may change what the chat
sees, which is `ListingChanges`. The one invariant needed is `Seen`, that the
chat sees the listing's status. So the theorems about the parts, which hold for
every environment they allow, hold of the whole, and what the run explores by
turns is proved for all of `ServicesSpec`.

Only model-checked: `EverySettles` (liveness is outside the prover's reach).
Every other property of a passing run is a theorem, and so are
`OneActiveVisitPerListing` and `RecordedMoneyIsReal`, which the two refinements
subsume in the runs.

## Findings

Five runs show that the code does something else than a document says; each is
quoted with its lines in `PROJECT.json`.

* `deposit_after_cancel`: a deposit prepared before the cancellation can be
  paid after it, and nobody is asked to refund it.
* `visit_double_booking`: overlapping approvals double-book a registrant.
* `outbox_stale_token`: a refusal of an old token invalidates the row that by
  then holds a new one.
* `outbox_backoff`: a claim does not look at `nextAttemptAt`.
* `contract_regresses`: a completed contract can be taken back by a writer that
  looked before it was completed.

## Plan

Modelled: reservations, the outbox, deposits, contracts, chat, accounts, and a
listing with its media and its reports; every safety property checked is also
proved. Left, in this order:

1. Reservations composed with deposits, in place of the coarse `deposit` of
   `VisitReservations`.
2. Per-member limits (saved searches, comparisons, watches), with the limit as
   a bound that overlapping requests may exceed by their number less one.
3. The pure functions (route planner, currency fallback, feature policy, lease
   score) as operators checked against reference definitions.

## Not modelled

See `components` in `PROJECT.json`. About 100 000 of the 120 000 lines under
`src` are the generated database client (`src/apps/api/src/generated/prisma`):
types and delegates made from `schema.prisma`, with no logic of this program.
The models map the schema itself and the handwritten services instead, so the
share of mapped lines is small however much of the services is modelled. Still
open are the plan's last two items: the per-member lists, whose requests touch
rows of one member only (the documents promise 20 saved searches,
README.md:233, and 200 watches, README.md:242, which requests that overlap can
exceed), and the pure functions, which have no state. A broker's registration
is reviewed by a guarded transition in a single transaction, with nothing in
between for another request to meet. Within modelled components, what only
refuses more (expiry of sessions and tokens, blocked accounts, bad signatures,
changed bodies) is left out, and so are the reads that change nothing. Out of
scope for good are formatting and templates, cryptography, HTTP wiring, image
and video transcoding, the dashboard's queries and the user interfaces.
Induction over data and recursive operators stay with TLC; no proved module
declares one.
