------------------------- MODULE ElectronicContract -------------------------
(***************************************************************************)
(* The electronic contract of one visit reservation: electronic-contract.  *)
(* service.ts, contract-safety-recheck.service.ts and contract-webhook.    *)
(* service.ts under src/apps/api/src/contracts/, with the signing provider *)
(* behind them.                                                            *)
(*                                                                         *)
(* startSigning() reads the contract, has the safety recheck passed, takes *)
(* the contract by a compare-and-set of its status, calls the provider and *)
(* writes the outcome without looking again.  A webhook checks its         *)
(* transition against a status read before its transaction.  A call in     *)
(* flight is a slot of Call; each of its round trips is one action.        *)
(*                                                                         *)
(* The provider keeps one session per contract (the idempotency key is the *)
(* contract's id) and reports it in messages it may repeat and reorder.    *)
(* The visit is confirmed and both parties are verified: without that      *)
(* create() is refused and nothing below happens.                          *)
(***************************************************************************)
EXTENDS Integers, FiniteSets

CONSTANTS
    Call,            \* slots for calls in flight
    Transmission,    \* transmission ids of webhooks
    Role,            \* the two parties
    Message,         \* what a transmission can say
    MaxAttempts,     \* bound: safety rechecks
    MaxTime,         \* bound: the clock
    RunningTimeout,  \* RUNNING_TIMEOUT_MS
    ValidFor,        \* RECHECK_VALID_MS
    None             \* SQL NULL

VARIABLES
    jeonse,          \* the listing is let by JEONSE, so rechecks are required
    status,          \* of the contract, "NONE" before it is created
    bound,           \* its providerContractId is stored
    party,           \* status of electronic_contract_parties by role
    recheck,         \* contract_safety_rechecks by attempt
    attempts,        \* the latest attempt
    event,           \* status of contract_webhook_events by transmission
    session,         \* provider: status of the signing session
    says,            \* provider: the body of each transmission
    now,             \* the clock
    call,            \* the calls in flight
    crashed,         \* history: a process died in the middle of a call
    raced,           \* history: a status was written under another writer
    failed,          \* history: transmissions whose handling failed
    applied,         \* history: transmissions applied to the contract
    reapplied,       \* history: those applied more than once
    unmatched        \* history: those that came before the id they name

books == <<status, bound, party>>
safety == <<recheck, attempts>>
provider == <<session, says>>
webhooks == <<event, failed, applied, reapplied, unmatched>>
vars == <<jeonse, books, safety, webhooks, provider, now, call, crashed, raced>>

-----------------------------------------------------------------------------

Terminal == {"SIGNED", "DECLINED", "CANCELLED", "EXPIRED"}
Reported == Terminal \cup {"SIGNING_PENDING", "PARTIALLY_SIGNED", "FAILED"}
PartyStatus == {"PENDING", "VIEWED", "SIGNED", "DECLINED"}

\* A party the body leaves out is PENDING in it: the code skips both alike.
Body == [status : Reported, parties : [Role -> PartyStatus],
         document : BOOLEAN]

ASSUME ContractAssumption ==
    /\ Message \subseteq Body
    /\ None \notin Transmission \cup Message
    /\ MaxAttempts \in Nat /\ MaxTime \in Nat
    /\ RunningTimeout \in Nat \ {0} /\ ValidFor \in Nat

Attempt == 1..MaxAttempts

NoRecheck == [status |-> "NONE", started |-> 0, expires |-> 0]

Idle == [op |-> "none", phase |-> "idle", read |-> "NONE", since |-> 0,
         attempt |-> 0, transmission |-> None]

Init ==
    /\ jeonse \in BOOLEAN
    /\ status = "NONE"
    /\ bound = FALSE
    /\ party = [r \in Role |-> "PENDING"]
    /\ recheck = [a \in Attempt |-> NoRecheck]
    /\ attempts = 0
    /\ event = [t \in Transmission |-> "NONE"]
    /\ session = "NONE"
    /\ says = [t \in Transmission |-> None]
    /\ now = 0
    /\ call = [c \in Call |-> Idle]
    /\ crashed = FALSE
    /\ raced = FALSE
    /\ failed = {}
    /\ applied = {}
    /\ reapplied = {}
    /\ unmatched = {}

-----------------------------------------------------------------------------

Start(c, op, phase) ==
    /\ call[c] = Idle
    /\ call' = [call EXCEPT ![c] = [Idle EXCEPT !.op = op, !.phase = phase]]

At(c, phase) == call[c].phase = phase

Goto(c, phase) == call' = [call EXCEPT ![c].phase = phase]

Return(c) == call' = [call EXCEPT ![c] = Idle]

\* Go on if the condition holds, otherwise return to the client.
Proceed(c, condition, phase) ==
    IF condition THEN Goto(c, phase) ELSE Return(c)

\* The calls that will write the status without reading it again: a webhook
\* past its check, a signing past its claim.
Writing == {c \in Call : call[c].phase \in {"apply", "session", "bind", "fail"}}

\* c writes the status; it matters to the others that are about to.
WriteStatus(c, s) ==
    /\ status' = s
    /\ raced' = (raced \/ (s # status /\ Writing \ {c} # {}))

-----------------------------------------------------------------------------
(* create() *)

ReceiveCreate(c) ==
    /\ status = "NONE"
    /\ Start(c, "sign", "create")
    /\ UNCHANGED <<jeonse, books, safety, webhooks, provider, now, crashed,
                   raced>>

\* The unique reservationId turns a second contract into the first one.
CommitCreate(c) ==
    /\ At(c, "create")
    /\ Proceed(c, status = "NONE", "read")
    /\ status' = IF status = "NONE" THEN "DRAFT" ELSE status
    /\ UNCHANGED <<jeonse, bound, party, safety, webhooks, provider, now,
                   crashed, raced>>

-----------------------------------------------------------------------------
(* startSigning() up to the safety recheck *)

StartableAgain(s) == s \in {"DRAFT", "FAILED", "SIGNING_PENDING"}
Startable(s) == s \in {"DRAFT", "FAILED"}

ReceiveSign(c) ==
    /\ status # "NONE"
    /\ Start(c, "sign", "read")
    /\ UNCHANGED <<jeonse, books, safety, webhooks, provider, now, crashed,
                   raced>>

ReadContract(c) ==
    /\ At(c, "read")
    /\ call' = [call EXCEPT ![c] =
                    IF Startable(status)
                    THEN [@ EXCEPT !.phase = "check", !.read = status]
                    ELSE Idle]
    /\ UNCHANGED <<jeonse, books, safety, webhooks, provider, now, crashed,
                   raced>>

-----------------------------------------------------------------------------
(* run() of the safety recheck *)

\* A participant asks for a recheck of his own, which reuses nothing.
ReceiveRecheck(c) ==
    /\ status # "NONE"
    /\ Start(c, "recheck", "check")
    /\ UNCHANGED <<jeonse, books, safety, webhooks, provider, now, crashed,
                   raced>>

\* Where a call goes that may sign; a forced recheck has only its answer.
Signs(c) == call[c].op = "sign"

CheckContract(c) ==
    /\ At(c, "check")
    /\ IF ~jeonse
       THEN Proceed(c, Signs(c), "claim")
       ELSE call' = [call EXCEPT ![c] =
                        IF Startable(status)
                        THEN [@ EXCEPT !.phase = "latest", !.since = now]
                        ELSE Idle]
    /\ UNCHANGED <<jeonse, books, safety, webhooks, provider, now, crashed,
                   raced>>

Reusable(row, time) == row.status = "PASSED" /\ row.expires > time

UnderWayNever(row, time) == FALSE
UnderWay(row, time) ==
    row.status = "RUNNING" /\ time - row.started < RunningTimeout

ReadLatest(c) ==
    LET row == IF attempts = 0 THEN NoRecheck ELSE recheck[attempts] IN
    /\ At(c, "latest")
    /\ call' = [call EXCEPT ![c] =
                    IF Signs(c) /\ Reusable(row, @.since)
                    THEN [@ EXCEPT !.phase = "claim", !.attempt = attempts]
                    ELSE IF UnderWay(row, @.since) THEN Idle
                    ELSE [@ EXCEPT !.phase = "attempt", !.attempt = attempts]]
    /\ UNCHANGED <<jeonse, books, safety, webhooks, provider, now, crashed,
                   raced>>

\* The attempt after the one read is unique: made meanwhile, it is a conflict.
CreateAttempt(c) ==
    LET next == call[c].attempt + 1 IN
    /\ At(c, "attempt")
    /\ next \in Attempt
    /\ IF attempts < next
       THEN /\ attempts' = next
            /\ recheck' = [recheck EXCEPT ![next] =
                              [status |-> "RUNNING", started |-> call[c].since,
                               expires |-> 0]]
            /\ call' = [call EXCEPT ![c] = [@ EXCEPT !.phase = "recheck",
                                                     !.attempt = next]]
       ELSE Return(c) /\ UNCHANGED safety
    /\ UNCHANGED <<jeonse, books, webhooks, provider, now, crashed, raced>>

\* ensurePassedForSigning() and the error thrown for a failed provider.
GoesOnAnyway(c, outcome) == Signs(c)
GoesOn(c, outcome) == Signs(c) /\ outcome = "PASSED"

\* A pass holds until the recheck or the registry extract behind it is too old.
ValidityTwice(c) == call[c].since .. call[c].since + ValidFor + ValidFor
Validity(c) == call[c].since .. call[c].since + ValidFor

\* The registry and the insurer answer, or do not; the row is written by its
\* id, superseded or not.
RecordRecheck(c) ==
    /\ At(c, "recheck")
    /\ \E outcome \in {"PASSED", "BLOCKED", "FAILED"},
          expires \in Validity(c) :
          /\ outcome # "PASSED" => expires = call[c].since
          /\ recheck' = [recheck EXCEPT ![call[c].attempt].status = outcome,
                                        ![call[c].attempt].expires = expires]
          /\ Proceed(c, GoesOn(c, outcome), "claim")
    /\ UNCHANGED <<jeonse, books, attempts, webhooks, provider, now, crashed,
                   raced>>

-----------------------------------------------------------------------------
(* startSigning() from the claim on *)

ClaimableUnread(c) == Startable(status) \/ status = "SIGNING_PENDING"
Claimable(c) == status = call[c].read

Claim(c) ==
    /\ At(c, "claim")
    /\ Proceed(c, Claimable(c), "session")
    /\ IF Claimable(c) THEN WriteStatus(c, "SIGNING_PENDING")
       ELSE UNCHANGED <<status, raced>>
    /\ UNCHANGED <<jeonse, bound, party, safety, webhooks, provider, now,
                   crashed>>

\* The provider opens the session, or returns the one it has; it may refuse,
\* and its answer may be lost after it acted.
CallSession(c) ==
    /\ At(c, "session")
    /\ \/ /\ session' = IF session \in {"NONE", "FAILED"}
                        THEN "SIGNING_PENDING" ELSE session
          /\ Goto(c, "bind") \/ Goto(c, "fail")
       \/ Goto(c, "fail") /\ UNCHANGED session
    /\ UNCHANGED <<jeonse, books, safety, webhooks, says, now, crashed, raced>>

BindSession(c) ==
    /\ At(c, "bind")
    /\ Return(c)
    /\ bound' = TRUE
    /\ UNCHANGED <<jeonse, status, party, safety, webhooks, provider, now,
                   crashed, raced>>

\* The error path does not ask what has become of the contract.
FailSession(c) ==
    /\ At(c, "fail")
    /\ Return(c)
    /\ WriteStatus(c, "FAILED")
    /\ UNCHANGED <<jeonse, bound, party, safety, webhooks, provider, now,
                   crashed>>

-----------------------------------------------------------------------------
(* contract webhooks *)

\* What a session can become and a transmission can report.
Successors(s) ==
    CASE s = "SIGNING_PENDING" -> Reported
      [] s = "PARTIALLY_SIGNED" -> Reported \ {"SIGNING_PENDING"}
      [] OTHER -> {s}

ProviderReports(t, m) ==
    /\ session # "NONE"
    /\ says[t] = None
    /\ m.status \in Successors(session)
    /\ session' = m.status
    /\ says' = [says EXCEPT ![t] = m]
    /\ UNCHANGED <<jeonse, books, safety, webhooks, now, call, crashed, raced>>

\* A transmission arrives, for the first time or again: one that is being
\* handled, was applied or was ignored changes nothing.
ReceiveWebhook(c, t) ==
    /\ says[t] # None
    /\ event[t] \in {"NONE", "FAILED"}
    /\ call[c] = Idle
    /\ call' = [call EXCEPT ![c] =
                   [Idle EXCEPT !.op = "webhook", !.transmission = t,
                        !.phase = IF event[t] = "NONE" THEN "store"
                                  ELSE "retake"]]
    /\ UNCHANGED <<jeonse, books, safety, webhooks, provider, now, crashed,
                   raced>>

EventUnchecked(c) == TRUE
EventIsNew(c) == event[call[c].transmission] = "NONE"

StoreEvent(c) ==
    LET t == call[c].transmission IN
    /\ At(c, "store")
    /\ Proceed(c, EventIsNew(c), "process")
    /\ event' = IF EventIsNew(c) THEN [event EXCEPT ![t] = "RECEIVED"] ELSE event
    /\ UNCHANGED <<jeonse, books, safety, failed, applied, reapplied, unmatched,
                   provider, now, crashed, raced>>

RetakeEvent(c) ==
    /\ At(c, "retake")
    /\ Goto(c, "process")
    /\ event' = [event EXCEPT ![call[c].transmission] = "RECEIVED"]
    /\ UNCHANGED <<jeonse, books, safety, failed, applied, reapplied, unmatched,
                   provider, now, crashed, raced>>

CanTransitionBack(current, next) == current # next /\ current # "DRAFT"
CanTransitionInOrder(current, next) ==
    /\ current # next
    /\ current \notin Terminal
    /\ next = "SIGNED" => current = "PARTIALLY_SIGNED"
CanTransition(current, next) ==
    /\ current # next
    /\ current \notin Terminal
    /\ IF next = "SIGNING_PENDING" THEN Startable(current)
       ELSE current # "DRAFT"

\* The contract is found by its provider's id.
Process(c) ==
    LET m == says[call[c].transmission] IN
    /\ At(c, "process")
    /\ call' = [call EXCEPT ![c] = [@ EXCEPT !.read = status, !.phase =
                    IF ~(bound /\ CanTransition(status, m.status)) THEN "ignore"
                    ELSE IF m.status = "SIGNED" /\ ~m.document THEN "refuse"
                    ELSE "apply"]]
    /\ unmatched' = IF bound THEN unmatched
                    ELSE unmatched \cup {call[c].transmission}
    /\ UNCHANGED <<jeonse, books, safety, event, failed, applied, reapplied,
                   provider, now, crashed, raced>>

IgnoreEvent(c) ==
    /\ At(c, "ignore")
    /\ Return(c)
    /\ event' = [event EXCEPT ![call[c].transmission] = "IGNORED"]
    /\ UNCHANGED <<jeonse, books, safety, failed, applied, reapplied, unmatched,
                   provider, now, crashed, raced>>

\* SIGNED without a document fails whatever the event has become.
RefuseEvent(c) ==
    LET t == call[c].transmission IN
    /\ At(c, "refuse")
    /\ Return(c)
    /\ event' = [event EXCEPT ![t] = "FAILED"]
    /\ failed' = failed \cup {t}
    /\ UNCHANGED <<jeonse, books, safety, applied, reapplied, unmatched, provider,
                   now, crashed, raced>>

PartyAfterAny(old, new) == IF new = "PENDING" THEN old ELSE new
PartyAfter(old, new) ==
    IF \/ new = "VIEWED" /\ old = "PENDING"
       \/ new \in {"SIGNED", "DECLINED"} /\ old \in {"PENDING", "VIEWED"}
    THEN new ELSE old

\* One transaction: contract, parties, history, event, notifications, audit.
ApplyEvent(c) ==
    LET t == call[c].transmission
        m == says[t] IN
    /\ At(c, "apply")
    /\ Return(c)
    /\ WriteStatus(c, m.status)
    /\ party' = [r \in Role |-> PartyAfter(party[r], m.parties[r])]
    /\ event' = [event EXCEPT ![t] = "PROCESSED"]
    /\ applied' = applied \cup {t}
    /\ reapplied' = IF t \in applied THEN reapplied \cup {t} ELSE reapplied
    /\ UNCHANGED <<jeonse, bound, safety, failed, unmatched, provider, now,
                   crashed>>

\* The transaction fails.
LoseApply(c) ==
    /\ At(c, "apply")
    /\ Goto(c, "release")
    /\ UNCHANGED <<jeonse, books, safety, webhooks, provider, now, crashed,
                   raced>>

\* processSafely() gives the event back.
ReleaseEvent(c) ==
    LET t == call[c].transmission IN
    /\ At(c, "release")
    /\ Return(c)
    /\ IF event[t] = "RECEIVED"
       THEN event' = [event EXCEPT ![t] = "FAILED"]
       ELSE UNCHANGED event
    /\ failed' = failed \cup {t}
    /\ UNCHANGED <<jeonse, books, safety, applied, reapplied, unmatched, provider,
                   now, crashed, raced>>

-----------------------------------------------------------------------------
(* environment *)

\* The process that serves the call dies.
Crash(c) ==
    /\ call[c] # Idle
    /\ Return(c)
    /\ crashed' = TRUE
    /\ UNCHANGED <<jeonse, books, safety, webhooks, provider, now, raced>>

Tick ==
    /\ now < MaxTime
    /\ now' = now + 1
    /\ UNCHANGED <<jeonse, books, safety, webhooks, provider, call, crashed,
                   raced>>

SignNext(c) ==
    \/ ReceiveCreate(c) \/ CommitCreate(c) \/ ReceiveSign(c) \/ ReadContract(c)
    \/ Claim(c) \/ CallSession(c) \/ BindSession(c) \/ FailSession(c)

RecheckNext(c) ==
    \/ ReceiveRecheck(c) \/ CheckContract(c) \/ ReadLatest(c)
    \/ CreateAttempt(c) \/ RecordRecheck(c)

WebhookNext(c) ==
    \/ \E t \in Transmission : ReceiveWebhook(c, t)
    \/ StoreEvent(c) \/ RetakeEvent(c) \/ Process(c)
    \/ IgnoreEvent(c) \/ RefuseEvent(c) \/ ApplyEvent(c)
    \/ LoseApply(c) \/ ReleaseEvent(c)

Next ==
    \/ \E c \in Call : SignNext(c) \/ RecheckNext(c) \/ WebhookNext(c) \/ Crash(c)
    \/ \E t \in Transmission, m \in Message : ProviderReports(t, m)
    \/ Tick

Spec == Init /\ [][Next]_vars

-----------------------------------------------------------------------------
(* What is checked *)

SigningPhase == {"session", "bind", "fail"}

Signing == {c \in Call : call[c].phase \in SigningPhase}

\* What a call in flight holds in each phase.
CallRecord ==
    [op : {"none", "sign", "recheck", "webhook"},
     phase : {"idle", "create", "read", "check", "latest", "attempt",
              "recheck", "claim", "store", "retake", "process", "ignore",
              "refuse", "apply", "release"} \cup SigningPhase,
     read : {"NONE", "DRAFT"} \cup Reported,
     since : 0..MaxTime, attempt : 0..MaxAttempts,
     transmission : Transmission \cup {None}]

RecheckRow ==
    [status : {"NONE", "RUNNING", "PASSED", "BLOCKED", "FAILED"},
     started : 0..MaxTime, expires : 0..(MaxTime + ValidFor)]

\* Type invariant: every column holds a value of its enum, every clock
\* reading and attempt is in range.
TypeOK ==
    /\ jeonse \in BOOLEAN /\ bound \in BOOLEAN
    /\ status \in {"NONE", "DRAFT"} \cup Reported
    /\ party \in [Role -> PartyStatus]
    /\ recheck \in [Attempt -> RecheckRow]
    /\ attempts \in 0..MaxAttempts
    /\ event \in [Transmission ->
                     {"NONE", "RECEIVED", "PROCESSED", "IGNORED", "FAILED"}]
    /\ session \in {"NONE"} \cup Reported
    /\ says \in [Transmission -> Message \cup {None}]
    /\ now \in 0..MaxTime
    /\ call \in [Call -> CallRecord]
    /\ crashed \in BOOLEAN /\ raced \in BOOLEAN
    /\ failed \subseteq Transmission /\ applied \subseteq Transmission
    /\ reapplied \subseteq Transmission /\ unmatched \subseteq Transmission

\* Until the provider's id is stored at most one call is past its claim and
\* may still bind or fail the contract: the compare-and-set of startSigning()
\* is the only lock there is.
OneSession ==
    ~bound => \A c, d \in Signing : c = d

\* Until the provider's id is stored the contract is SIGNING_PENDING exactly
\* while a call is about to bind or fail it.  No webhook finds such a contract
\* and no call may claim it, so only a process that died leaves one behind.
PendingHasOwner ==
    ~bound => /\ Signing # {} => status = "SIGNING_PENDING"
              /\ status = "SIGNING_PENDING" => Signing # {} \/ crashed

\* A JEONSE contract leaves DRAFT only after a safety recheck that passed, and
\* every call about to claim it or past its claim rests on a pass that was
\* still valid when the call's own check began.
CheckedBeforeSigning ==
    jeonse => /\ status \notin {"NONE", "DRAFT"} =>
                    \E a \in Attempt : recheck[a].status = "PASSED"
              /\ \A c \in Call : call[c].phase \in SigningPhase \cup {"claim"} =>
                    LET a == call[c].attempt IN
                    /\ a \in Attempt
                    /\ recheck[a].status = "PASSED"
                    /\ recheck[a].expires >= call[c].since

\* A recheck that is RUNNING is followed by another attempt only when it was
\* started at least RUNNING_TIMEOUT_MS before, however the calls interleave.
RunningRechecksApart ==
    \A a, b \in 1..attempts :
        b = a + 1 /\ recheck[a].status = "RUNNING" =>
            recheck[b].started - recheck[a].started >= RunningTimeout

\* A transmission changes the contract at most once, however often it is sent
\* and however its deliveries interleave, unless a handling of it failed.
AppliedOnce == reapplied \subseteq failed

\* A report of the outcome that was handled decides the contract, in whatever
\* order the reports came, unless it came before the provider's id was stored
\* or two writers of the status overlapped.
FinalReportSticks ==
    \A t \in Transmission :
        /\ event[t] \in {"PROCESSED", "IGNORED"}
        /\ says[t].status \in Terminal
        /\ t \notin unmatched
        /\ ~raced
        => status = says[t].status

\* A party goes from PENDING over VIEWED to SIGNED or DECLINED and never back,
\* in whatever order the webhooks are applied.
PartiesOnlyForward ==
    [][\A r \in Role :
          \/ party'[r] = party[r]
          \/ party[r] = "PENDING"
          \/ party[r] = "VIEWED" /\ party'[r] \in {"SIGNED", "DECLINED"}]_vars

\* A contract that is signed, declined, cancelled or expired stays so, unless
\* two writers of the status overlapped.
FinalUnlessRaced ==
    [][(~raced' /\ status \in Terminal) => status' = status]_vars

\* The same without the reservation, as the README promises it ("... only
\* after checking that a completed state does not go back").
FinalForGood == [][(status \in Terminal) => status' = status]_vars

-----------------------------------------------------------------------------
(* The inductive invariant *)

Handling == {"process", "ignore", "refuse", "apply", "release"}

\* A call that handles a webhook handles one the provider has sent.
WebhookOK ==
    \A c \in Call : call[c].phase \in Handling \cup {"store", "retake"} =>
        /\ call[c].transmission \in Transmission
        /\ says[call[c].transmission] \in Message

\* A call's phase fixes its operation and what it has read.
CallOK ==
    \A c \in Call :
        /\ call[c].phase \in {"check", "latest", "attempt", "recheck", "claim"}
           /\ Signs(c) => Startable(call[c].read)
        /\ call[c].phase \in {"claim"} \cup SigningPhase => Signs(c)
        /\ call[c].phase = "apply" =>
              LET m == says[call[c].transmission] IN
              bound /\ CanTransition(call[c].read, m.status)
        /\ call[c].phase \in SigningPhase => status \notin {"NONE", "DRAFT"}

\* Rows exist up to the latest attempt; a call that runs one owns it, and one
\* about to create the next has seen that the latest is not under way.
RecheckOK ==
    /\ \A a \in Attempt : a > attempts => recheck[a].status = "NONE"
    /\ \A c \in Call : call[c].phase = "recheck" =>
          LET a == call[c].attempt IN
          /\ a \in 1..attempts
          /\ recheck[a].status = "RUNNING"
          /\ \A d \in Call \ {c} : call[d].phase = "recheck" =>
                call[d].attempt # a
    /\ \A c \in Call : call[c].phase = "attempt" =>
          LET a == call[c].attempt IN
          /\ a <= attempts
          /\ a = attempts /\ a > 0 /\ recheck[a].status = "RUNNING" =>
                call[c].since - recheck[a].started >= RunningTimeout

\* A contract that has its provider's id was claimed; one that has not is
\* nowhere a webhook could have taken it.
BoundOK ==
    IF bound THEN status \notin {"NONE", "DRAFT"}
    ELSE status \in {"NONE", "DRAFT", "SIGNING_PENDING", "FAILED"}

\* A transmission none of whose handlings failed has at most one handler, and
\* none once it is applied.
HandlerOK ==
    /\ \A t \in Transmission : event[t] = "FAILED" => t \in failed
    /\ \A t \in Transmission \ failed :
          /\ t \in applied => event[t] # "NONE"
          /\ \A c \in Call : call[c].transmission = t =>
                /\ call[c].phase # "retake"
                /\ call[c].phase \in Handling =>
                      /\ event[t] = "RECEIVED"
                      /\ t \notin applied
                      /\ \A d \in Call \ {c} : call[d].transmission = t =>
                            call[d].phase \notin Handling

\* The provider's session ends once, and every report of an end agrees.
ProviderOK ==
    /\ \A t \in Transmission : event[t] # "NONE" => says[t] \in Message
    /\ \A t \in Transmission :
          says[t] # None /\ says[t].status \in Terminal =>
              session = says[t].status
    /\ status \in Terminal => session = status

\* As long as no two writers overlapped, a writer finds the status it read,
\* and a webhook that is ignored found nothing left to do.
QuietOK ==
    ~raced => \A c \in Call :
        /\ call[c].phase = "apply" => status = call[c].read
        /\ call[c].phase \in SigningPhase => status = "SIGNING_PENDING"
        /\ LET t == call[c].transmission IN
           call[c].phase = "ignore" /\ t \notin unmatched
           /\ says[t].status \in Terminal => status = says[t].status

IInv ==
    /\ TypeOK
    /\ WebhookOK
    /\ CallOK
    /\ RecheckOK
    /\ BoundOK
    /\ OneSession
    /\ PendingHasOwner
    /\ CheckedBeforeSigning
    /\ RunningRechecksApart
    /\ HandlerOK
    /\ AppliedOnce
    /\ ProviderOK
    /\ QuietOK
    /\ FinalReportSticks

=============================================================================
