------------------------- MODULE NotificationOutbox -------------------------
(***************************************************************************)
(* The notification outbox: src/apps/api/src/notifications/                *)
(* notification-outbox.worker.ts over the notification_outbox and          *)
(* notification_endpoints tables.                                          *)
(*                                                                         *)
(* Every API process runs one worker, driven by a timer.  A drain requeues *)
(* expired locks, claims a batch under a fresh lock id, loads the batch    *)
(* and delivers its items concurrently; nothing of this is in one database *)
(* transaction, so drains of different workers interleave at every await,  *)
(* a worker may die anywhere, and a slow one may outlive its lock.         *)
(*                                                                         *)
(* Time is kept relative: a row's `wait` is what is left until             *)
(* nextAttemptAt, and `age` is the time since lockedAt.                    *)
(***************************************************************************)
EXTENDS Integers, FiniteSets

CONSTANTS
    Notification,   \* outbox rows
    Worker,         \* API processes
    LockId,         \* ids createId() may return
    Endpoint,       \* push endpoints of the recipients
    Target,         \* Target[n]: the endpoints of n's recipient
    None,           \* SQL NULL
    MaxAttempts,    \* NOTIFICATION_WORKER_MAX_ATTEMPTS (6)
    BatchSize,      \* NOTIFICATION_WORKER_BATCH_SIZE (20)
    LockTtl,        \* NOTIFICATION_WORKER_LOCK_SECONDS (120 s)
    RetryBase,      \* NOTIFICATION_WORKER_RETRY_BASE_SECONDS (30 s)
    RetryCap,       \* 3600 s
    MaxToken,       \* bound: tokens an endpoint goes through
    MaxChange,      \* bound: changes to the endpoints and their tokens
    MaxCrash,       \* bound: process deaths
    MaxOverrun      \* bound: ticks by which live drains may outlive a lock

VARIABLES
    row,        \* notification_outbox
    drain,      \* drain[w]: the drainOnce() of worker w
    job,        \* job[w][n]: the deliver() of item n in that drain
    endpoint,   \* notification_endpoints
    dead,       \* dead[e]: the tokens up to this one the provider has retired
    reached,    \* history: how often each channel accepted a notification
    lost,       \* history: how often a row's lock was taken from its holder
    faulty,     \* history: something failed while a row was being delivered
    changes, crashes, overruns   \* how much of the bounds is used

history == <<reached, lost, faulty>>
bounds == <<changes, crashes, overruns>>
vars == <<row, drain, job, endpoint, dead, history, bounds>>

ASSUME OutboxAssumption ==
    /\ None \notin LockId
    /\ Target \in [Notification -> SUBSET Endpoint]
    /\ "sms" \notin Endpoint
    /\ {MaxAttempts, BatchSize, LockTtl, RetryBase, RetryCap} \subseteq Nat \ {0}
    /\ {MaxToken, MaxChange, MaxCrash, MaxOverrun} \subseteq Nat

-----------------------------------------------------------------------------

Final == {"SENT", "SKIPPED", "FAILED"}
Fallback == {"sms", "no phone", "push only"}
Channel == Endpoint \cup {"sms"}

NoJob == [phase |-> "none", attempts |-> 0, todo |-> {}, accepted |-> FALSE,
          transient |-> FALSE, retry |-> FALSE]

NoDrain == [phase |-> "idle", age |-> 0, picked |-> {}, lock |-> None]

Init ==
    /\ \E f \in [Notification -> Fallback] :
          row = [n \in Notification |->
                    [status |-> "PENDING", attempts |-> 0, wait |-> 0,
                     lock |-> None, age |-> 0, fallback |-> f[n]]]
    /\ drain = [w \in Worker |-> NoDrain]
    /\ job = [w \in Worker |-> [n \in Notification |-> NoJob]]
    /\ endpoint = [e \in Endpoint |-> [status |-> "ACTIVE", token |-> 1]]
    /\ dead = [e \in Endpoint |-> 0]
    /\ reached = [n \in Notification |-> [c \in Channel |-> 0]]
    /\ lost = [n \in Notification |-> 0]
    /\ faulty = {}
    /\ changes = 0
    /\ crashes = 0
    /\ overruns = 0

-----------------------------------------------------------------------------
(* claim() *)

ExpiredUnclaimed(x) == x.status = "PENDING" /\ x.age > LockTtl

Expired(x) == x.status = "PROCESSING" /\ x.age > LockTtl

\* The first statement of claim(): expired locks go back to PENDING.
Requeued(x) ==
    IF Expired(x)
    THEN [x EXCEPT !.status = "PENDING", !.lock = None, !.age = 0]
    ELSE x

Due(x) == x.status = "PENDING" /\ x.wait = 0 /\ x.lock = None

\* drainOnce() up to the candidate query.  The requeue and the candidate
\* query are one step: the claim re-checks whatever the query returned.
Poll(w) ==
    /\ drain[w].phase = "idle"
    /\ LET rows == [n \in Notification |-> Requeued(row[n])]
           due == {n \in Notification : Due(rows[n])}
       IN  /\ row' = rows
           /\ lost' = [n \in Notification |->
                          lost[n] + IF Expired(row[n]) THEN 1 ELSE 0]
           /\ faulty' = faulty \cup {n \in Notification : Expired(row[n])}
           /\ \E batch \in SUBSET due :
                 /\ Cardinality(batch) <= BatchSize
                 /\ batch # due => Cardinality(batch) = BatchSize
                 /\ drain' = [drain EXCEPT ![w] =
                       IF batch = {} THEN NoDrain
                       ELSE [NoDrain EXCEPT !.phase = "claim",
                                            !.picked = batch]]
    /\ UNCHANGED <<job, endpoint, dead, reached, bounds>>

Unused(l) ==
    /\ \A n \in Notification : row[n].lock # l
    /\ \A w \in Worker : drain[w].lock # l

ClaimableAnyLock(x) == x.status \in {"PENDING", "PROCESSING"}

\* The WHERE of the claiming updateMany.
Claimable(x) == x.status = "PENDING" /\ x.lock = None

Claim(w) ==
    /\ drain[w].phase = "claim"
    /\ \E l \in LockId :
          /\ Unused(l)
          /\ row' = [n \in Notification |->
                IF n \in drain[w].picked /\ Claimable(row[n])
                THEN [row[n] EXCEPT !.status = "PROCESSING", !.lock = l,
                                    !.age = drain[w].age,
                                    !.attempts = @ + 1]
                ELSE row[n]]
          /\ drain' = [drain EXCEPT ![w].phase = "load", ![w].lock = l]
    /\ UNCHANGED <<job, endpoint, dead, history, bounds>>

ActiveTokens(n) ==
    {<<e, endpoint[e].token>> :
        e \in {d \in Target[n] : endpoint[d].status = "ACTIVE"}}

\* claim()'s last query, which also snapshots the recipients' endpoints.
Load(w) ==
    /\ drain[w].phase = "load"
    /\ LET items == {n \in Notification : /\ row[n].lock = drain[w].lock
                                          /\ row[n].status = "PROCESSING"}
       IN  /\ job' = [job EXCEPT ![w] = [n \in Notification |->
                 IF n \in items
                 THEN [NoJob EXCEPT !.phase = "push",
                                    !.attempts = row[n].attempts,
                                    !.todo = ActiveTokens(n)]
                 ELSE NoJob]]
           /\ drain' = [drain EXCEPT ![w] =
                 IF items = {} THEN NoDrain
                 ELSE [@ EXCEPT !.phase = "deliver", !.picked = {}]]
    /\ UNCHANGED <<row, endpoint, dead, history, bounds>>

-----------------------------------------------------------------------------
(* deliver() *)

Step(w, n, next) ==
    /\ job' = [job EXCEPT ![w][n] = next]
    /\ UNCHANGED <<row, drain, lost, bounds>>

Throw(j, retry) ==
    [j EXCEPT !.phase = "failed", !.retry = retry, !.todo = {}]

Accept(n, c) == reached' = [reached EXCEPT ![n][c] = @ + 1]

\* One provider call of tryPush(): what the provider did and what it answered.
PushAccepted(w, n, t) ==
    /\ t[2] > dead[t[1]]
    /\ Accept(n, t[1])
    /\ Step(w, n, [job[w][n] EXCEPT !.todo = @ \ {t}, !.accepted = TRUE])
    /\ UNCHANGED <<endpoint, dead, faulty>>

\* A timeout or a 5xx; the push may have gone out all the same.
PushTransient(w, n, t) ==
    /\ \/ UNCHANGED <<reached, faulty>>
       \/ /\ t[2] > dead[t[1]]
          /\ Accept(n, t[1])
          /\ faulty' = faulty \cup {n}
    /\ Step(w, n, [job[w][n] EXCEPT !.todo = @ \ {t}, !.transient = TRUE])
    /\ UNCHANGED <<endpoint, dead>>

\* FCM_UNREGISTERED: the endpoint row is invalidated, whatever token it
\* holds by now.
PushUnregistered(w, n, t) ==
    /\ t[2] <= dead[t[1]]
    /\ endpoint' = [endpoint EXCEPT ![t[1]].status =
                       IF @ = "ACTIVE" THEN "INVALID" ELSE @]
    /\ Step(w, n, [job[w][n] EXCEPT !.todo = @ \ {t}])
    /\ UNCHANGED <<dead, reached, faulty>>

\* Any other error leaves tryPush(): a permanent refusal is not retried, an
\* unexpected one (say, a token that cannot be decrypted) is.
PushRefused(w, n, t) ==
    /\ \/ /\ Step(w, n, Throw(job[w][n], FALSE))
          /\ UNCHANGED faulty
       \/ /\ Step(w, n, Throw(job[w][n], TRUE))
          /\ faulty' = faulty \cup {n}
    /\ UNCHANGED <<endpoint, dead, reached>>

Push(w, n) ==
    /\ job[w][n].phase = "push"
    /\ \E t \in job[w][n].todo :
          \/ PushAccepted(w, n, t) \/ PushTransient(w, n, t)
          \/ PushUnregistered(w, n, t) \/ PushRefused(w, n, t)

SmsToo(j, x) ==
    IF j.transient /\ ~j.accepted
    THEN Throw(j, TRUE)
    ELSE IF x.fallback = "no phone"
         THEN Throw(j, FALSE)
         ELSE [j EXCEPT !.phase = IF x.fallback = "push only" THEN "skipped"
                                                              ELSE "sms"]

\* What deliver() does once every endpoint has been tried.
AfterPush(j, x) ==
    IF j.accepted
    THEN [j EXCEPT !.phase = "sent"]
    ELSE IF j.transient \/ x.fallback = "no phone"
         THEN Throw(j, j.transient)
         ELSE [j EXCEPT !.phase = IF x.fallback = "push only" THEN "skipped"
                                                              ELSE "sms"]

PushDone(w, n) ==
    /\ job[w][n].phase = "push"
    /\ job[w][n].todo = {}
    /\ Step(w, n, AfterPush(job[w][n], row[n]))
    /\ UNCHANGED <<endpoint, dead, reached, faulty>>

Sms(w, n) ==
    /\ job[w][n].phase = "sms"
    /\ \/ /\ Accept(n, "sms")
          /\ Step(w, n, [job[w][n] EXCEPT !.phase = "sent"])
          /\ UNCHANGED faulty
       \/ /\ Accept(n, "sms")     \* the answer is lost
          /\ Step(w, n, Throw(job[w][n], TRUE))
          /\ faulty' = faulty \cup {n}
       \/ /\ \E retry \in BOOLEAN : Step(w, n, Throw(job[w][n], retry))
          /\ UNCHANGED <<reached, faulty>>
    /\ UNCHANGED <<endpoint, dead>>

-----------------------------------------------------------------------------
(* Marking the row: only the holder of the lock may. *)

HoldsUnchecked(w, n) == TRUE

\* The WHERE of markSent(), markSkipped() and markFailed().
Holds(w, n) ==
    /\ row[n].lock = drain[w].lock
    /\ row[n].status = "PROCESSING"

Close(w, n) ==
    /\ job' = [job EXCEPT ![w][n] = NoJob]
    /\ drain' = [drain EXCEPT ![w] =
          IF \A m \in Notification \ {n} : job[w][m] = NoJob
          THEN NoDrain ELSE @]
    /\ UNCHANGED <<endpoint, dead, reached, lost, bounds>>

Mark(w, n, new) ==
    row' = [row EXCEPT ![n] = IF Holds(w, n) THEN new ELSE @]

ReleasedLocked(x, status) == [x EXCEPT !.status = status, !.age = 0]

Released(x, status) ==
    [x EXCEPT !.status = status, !.lock = None, !.age = 0]

MarkDelivered(w, n) ==
    /\ job[w][n].phase \in {"sent", "skipped"}
    /\ Mark(w, n, Released(row[n], IF job[w][n].phase = "sent"
                                   THEN "SENT" ELSE "SKIPPED"))
    /\ Close(w, n)
    /\ UNCHANGED faulty

\* The update of markSent() or markSkipped() throws: deliver() catches that
\* as an unexpected, retryable delivery error.
MarkThrows(w, n) ==
    /\ job[w][n].phase \in {"sent", "skipped"}
    /\ faulty' = faulty \cup {n}
    /\ Step(w, n, Throw(job[w][n], TRUE))
    /\ UNCHANGED <<endpoint, dead, reached>>

RetryAlways(j) == j.retry

\* markFailed(): retry while attempts remain.
MayRetry(j) == j.retry /\ j.attempts < MaxAttempts

\* backoffMs(): RetryBase doubled with each attempt, at most RetryCap.
Backoff(attempts) ==
    LET delay == RetryBase * 2 ^ (attempts - 1)
    IN  IF delay \in 1 .. RetryCap THEN delay ELSE RetryCap

MarkFailed(w, n) ==
    /\ job[w][n].phase = "failed"
    /\ Mark(w, n,
            IF MayRetry(job[w][n])
            THEN [Released(row[n], "PENDING") EXCEPT
                     !.wait = Backoff(job[w][n].attempts)]
            ELSE Released(row[n], "FAILED"))
    /\ Close(w, n)
    /\ UNCHANGED faulty

-----------------------------------------------------------------------------
(* The environment *)

\* A live drain that another tick would take past its lock's lifetime.
AboutToOverrun(w) == drain[w].phase # "idle" /\ drain[w].age = LockTtl

Older(age) == IF age > LockTtl THEN age ELSE age + 1

Tick ==
    /\ IF \E w \in Worker : AboutToOverrun(w)
       THEN overruns < MaxOverrun /\ overruns' = overruns + 1
       ELSE UNCHANGED overruns
    /\ row' = [n \in Notification |->
          [row[n] EXCEPT !.wait = IF @ > 0 THEN @ - 1 ELSE 0,
                         !.age = IF row[n].status = "PROCESSING"
                                 THEN Older(@) ELSE 0]]
    /\ drain' = [w \in Worker |->
          [drain[w] EXCEPT !.age = IF drain[w].phase = "idle" THEN 0
                                   ELSE Older(@)]]
    /\ UNCHANGED <<job, endpoint, dead, history, changes, crashes>>

\* The process dies, or a markFailed() that throws ends it as an unhandled
\* rejection; it is restarted with a new timer.
Crash(w) ==
    /\ drain[w].phase # "idle"
    /\ crashes < MaxCrash
    /\ crashes' = crashes + 1
    /\ drain' = [drain EXCEPT ![w] = NoDrain]
    /\ job' = [job EXCEPT ![w] = [n \in Notification |-> NoJob]]
    /\ UNCHANGED <<row, endpoint, dead, history, changes, overruns>>

Change ==
    /\ changes < MaxChange
    /\ changes' = changes + 1
    /\ UNCHANGED <<row, drain, job, history, crashes, overruns>>

\* The provider retires the current token of an endpoint.
RetireToken(e) ==
    /\ dead[e] < endpoint[e].token
    /\ dead' = [dead EXCEPT ![e] = endpoint[e].token]
    /\ Change
    /\ UNCHANGED endpoint

\* registerPush(): the app registers its current token again, or a new one.
\* A REVOKED row has lost its device: registering again makes another row.
RegisterPush(e) ==
    /\ endpoint[e].status # "REVOKED"
    /\ \E token \in {endpoint[e].token, endpoint[e].token + 1} :
          /\ token <= MaxToken
          /\ endpoint' = [endpoint EXCEPT ![e] = [status |-> "ACTIVE",
                                                  token |-> token]]
    /\ Change
    /\ UNCHANGED dead

\* unregister(), or registerPush() of the same token by another device.
Unregister(e) ==
    /\ endpoint' = [endpoint EXCEPT ![e].status = "REVOKED"]
    /\ Change
    /\ UNCHANGED dead

Deliver(w, n) ==
    \/ Push(w, n) \/ PushDone(w, n) \/ Sms(w, n)
    \/ MarkDelivered(w, n) \/ MarkThrows(w, n) \/ MarkFailed(w, n)

Drain(w) ==
    \/ Poll(w) \/ Claim(w) \/ Load(w)
    \/ \E n \in Notification : Deliver(w, n)

Next ==
    \/ \E w \in Worker : Drain(w) \/ Crash(w)
    \/ \E e \in Endpoint : RetireToken(e) \/ RegisterPush(e) \/ Unregister(e)
    \/ Tick

Spec == Init /\ [][Next]_vars

\* Each worker's timer keeps polling and its awaits return; time passes.
Fairness == WF_vars(Tick) /\ \A w \in Worker : WF_vars(Drain(w))

FairSpec == Spec /\ Fairness

-----------------------------------------------------------------------------
(* Properties *)

Row == [status : {"PENDING", "PROCESSING"} \cup Final, attempts : Nat,
        wait : Nat, lock : LockId \cup {None}, age : Nat, fallback : Fallback]

Phase == {"none", "push", "sms", "sent", "skipped", "failed"}

Job == [phase : Phase, attempts : Nat, todo : SUBSET (Endpoint \X Nat),
        accepted : BOOLEAN, transient : BOOLEAN, retry : BOOLEAN]

DrainState == [phase : {"idle", "claim", "load", "deliver"}, age : Nat,
               picked : SUBSET Notification, lock : LockId \cup {None}]

\* The tables and the workers' memory are well typed, and a row is locked
\* exactly while it is PROCESSING.
TypeOK ==
    /\ row \in [Notification -> Row]
    /\ drain \in [Worker -> DrainState]
    /\ job \in [Worker -> [Notification -> Job]]
    /\ endpoint \in [Endpoint -> [status : {"ACTIVE", "INVALID", "REVOKED"},
                                  token : Nat]]
    /\ dead \in [Endpoint -> Nat]
    /\ reached \in [Notification -> [Channel -> Nat]]
    /\ lost \in [Notification -> Nat]
    /\ faulty \subseteq Notification
    /\ {changes, crashes, overruns} \subseteq Nat
    /\ \A n \in Notification : row[n].status = "PROCESSING" <=>
                               row[n].lock # None

\* Of all the drains that work on a notification at most one still holds its
\* row, unless none does: what the lock id in markSent() and markFailed() is
\* for.  A second drain can be at work only if the first one lost its lock.
OneHolder ==
    \A n \in Notification :
       /\ \A v, w \in Worker :
             v # w /\ job[v][n] # NoJob /\ job[w][n] # NoJob
                => ~(Holds(v, n) /\ Holds(w, n))
       /\ \A w \in Worker :
             job[w][n] # NoJob /\ lost[n] = 0 => Holds(w, n)

\* A notification is attempted at most MaxAttempts times, and once more for
\* each time its lock ran out: requeueing an expired lock does not look at
\* the attempts, so a worker that keeps dying keeps retrying.
AttemptsBounded ==
    \A n \in Notification : row[n].attempts <= MaxAttempts + lost[n]

\* SENT, SKIPPED and FAILED are final, whatever a drain that outlived its
\* lock still does.
SettledForGood ==
    [][\A n \in Notification :
          row[n].status \in Final =>
             /\ row'[n].status = row[n].status
             /\ row'[n].attempts = row[n].attempts]_vars

\* A retry waits for its backoff to pass.
RetryWaits ==
    [][\A n \in Notification :
          row'[n].attempts > row[n].attempts => row[n].wait = 0]_vars

\* Every notification is eventually settled: retries end, and a lock whose
\* worker died is taken over.
EverySettles ==
    \A n \in Notification : <>(row[n].status \in Final)

Settled(x) == IF x.status \in Final THEN x.status ELSE "open"

Delivery ==
    INSTANCE NotificationDelivery WITH
        outcome <- [n \in Notification |-> Settled(row[n])],
        doubtful <- faulty,
        SmsChannel <- "sms"

\* The outbox keeps the promises of NotificationDelivery: whatever the
\* workers do to each other, a notification nothing failed for reaches each
\* endpoint at most once and never both a push and an SMS, and what is
\* marked SENT was accepted by some channel.
ImplementsDelivery == Delivery!Spec

\* An endpoint is INVALID only if the provider has retired the token in it.
InvalidMeansRetired ==
    \A e \in Endpoint :
       endpoint[e].status = "INVALID" => endpoint[e].token <= dead[e]

-----------------------------------------------------------------------------
(* The inductive invariant *)

Untouched(n) == \A c \in Channel : reached[n][c] = 0

\* A drain has a lock id once it has claimed, and jobs once it has loaded.
DrainConsistent(w) ==
    /\ drain[w].lock # None <=> drain[w].phase \in {"load", "deliver"}
    /\ drain[w].phase # "deliver" => \A n \in Notification : job[w][n] = NoJob

LocksAreUnique ==
    \A v, w \in Worker :
       v # w /\ drain[v].lock = drain[w].lock => drain[v].lock = None

\* The job of a drain that has not lost its lock works on the row as loaded.
JobConsistent(w, n) ==
    /\ job[w][n].phase = "none" => job[w][n] = NoJob
    /\ job[w][n] # NoJob => Holds(w, n) \/ lost[n] > 0
    /\ job[w][n] # NoJob /\ Holds(w, n) => job[w][n].attempts = row[n].attempts
    /\ job[w][n].accepted \/ job[w][n].phase = "sent" => ~Untouched(n)
    /\ \A t, u \in job[w][n].todo : t[1] = u[1] => t = u

AttemptsLeft(n) ==
    /\ row[n].attempts <= MaxAttempts + lost[n]
    /\ row[n].status = "PENDING" => row[n].attempts < MaxAttempts + lost[n]

\* What a notification that nothing failed for can have reached.
DeliveredOnce(n) ==
    /\ row[n].status = "PENDING" => Untouched(n)
    /\ \A w \in Worker :
          /\ Holds(w, n) /\ drain[w].phase = "load" => Untouched(n)
          /\ job[w][n].phase = "push" =>
                /\ reached[n]["sms"] = 0
                /\ \A t \in job[w][n].todo : reached[n][t[1]] = 0
                /\ ~job[w][n].accepted => Untouched(n)
          /\ job[w][n].phase = "sms" => Untouched(n)
          /\ job[w][n].phase = "failed" /\ job[w][n].retry => Untouched(n)

IInv ==
    /\ TypeOK
    /\ LocksAreUnique
    /\ \A w \in Worker : /\ DrainConsistent(w)
                         /\ \A n \in Notification : JobConsistent(w, n)
    /\ \A n \in Notification : /\ AttemptsLeft(n)
                               /\ lost[n] > 0 => n \in faulty
                               /\ n \in faulty \/ DeliveredOnce(n)

=============================================================================
