---------------------- MODULE ElectronicContractProofs ----------------------
(***************************************************************************)
(* Safety of ElectronicContract for every set of calls, transmissions and  *)
(* messages, every number of rechecks and every timeout.                   *)
(***************************************************************************)
EXTENDS ElectronicContract, TLAPS

\* A step that moves one call leaves the others as they are.
LEMMA OneCallMoves ==
    ASSUME TypeOK, NEW c \in Call, NEW w, call' = [call EXCEPT ![c] = w]
    PROVE  /\ call'[c] = w
           /\ \A d \in Call \ {c} : call'[d] = call[d]
           /\ w \in CallRecord => call' \in [Call -> CallRecord]
  BY DEF TypeOK

LEMMA Naturals == 0 \in 0..MaxTime /\ 0 \in 0..MaxAttempts
                  /\ 0 \in 0..(MaxTime + ValidFor)
  BY ContractAssumption

LEMMA IdleType == Idle \in CallRecord
  BY Naturals DEF Idle, CallRecord

LEMMA MessageType ==
    ASSUME TypeOK, NEW t \in Transmission, says[t] # None
    PROVE  says[t] \in Message /\ says[t] \in Body /\ says[t].status \in Reported
           /\ says[t].parties \in [Role -> PartyStatus]
  BY ContractAssumption DEF TypeOK, Body

Phases == {"idle", "create", "read", "check", "latest", "attempt", "recheck",
           "claim", "store", "retake", "process", "ignore", "refuse", "apply",
           "release", "session", "bind", "fail"}

LEMMA MoveType ==
    ASSUME TypeOK, NEW c \in Call,
           Return(c) \/ \E p \in Phases : Goto(c, p)
    PROVE  call' \in [Call -> CallRecord]
  <1>1. call[c] \in CallRecord
    BY DEF TypeOK
  <1>2. CASE Return(c)
    BY <1>2, IdleType, OneCallMoves DEF Return
  <1>3. ASSUME NEW p \in Phases, Goto(c, p)
        PROVE  call' \in [Call -> CallRecord]
    <2>1. [call[c] EXCEPT !.phase = p] \in CallRecord
      BY <1>1 DEF CallRecord, Phases, SigningPhase
    <2>2. call' = [call EXCEPT ![c] = [call[c] EXCEPT !.phase = p]]
      BY <1>3 DEF Goto
    <2>3. QED
      BY <2>1, <2>2, OneCallMoves
  <1>4. QED
    BY <1>2, <1>3

-----------------------------------------------------------------------------
(* Type correctness *)

LEMMA InitType == Init => TypeOK
  <1> SUFFICES ASSUME Init PROVE TypeOK
    OBVIOUS
  <1>1. call \in [Call -> CallRecord]
    BY IdleType DEF Init
  <1>2. NoRecheck \in RecheckRow
    BY Naturals DEF NoRecheck, RecheckRow
  <1>3. QED
    BY <1>1, <1>2, Naturals DEF Init, TypeOK, PartyStatus, Reported

LEMMA StartType ==
    ASSUME TypeOK, NEW c \in Call, NEW op \in {"sign", "recheck"},
           NEW p \in Phases, Start(c, op, p)
    PROVE  call' \in [Call -> CallRecord]
  <1>1. [Idle EXCEPT !.op = op, !.phase = p] \in CallRecord
    BY IdleType DEF CallRecord, Phases, SigningPhase
  <1>2. QED
    BY <1>1, OneCallMoves DEF Start

LEMMA WriteStatusType ==
    ASSUME TypeOK, NEW c, NEW s \in Reported, WriteStatus(c, s)
    PROVE  status' \in {"NONE", "DRAFT"} \cup Reported /\ raced' \in BOOLEAN
  BY DEF WriteStatus, TypeOK

LEMMA SignType ==
    ASSUME TypeOK, NEW c \in Call, SignNext(c)
    PROVE  TypeOK'
  <1>0. call[c] \in CallRecord
    BY DEF TypeOK
  <1>1. CASE ReceiveCreate(c) \/ ReceiveSign(c)
    <2>1. call' \in [Call -> CallRecord]
      BY <1>1, StartType DEF ReceiveCreate, ReceiveSign, Phases
    <2>2. QED
      BY <1>1, <2>1 DEF ReceiveCreate, ReceiveSign, TypeOK, books, safety,
                        webhooks, provider
  <1>2. CASE CommitCreate(c)
    <2>1. call' \in [Call -> CallRecord]
      BY <1>2, MoveType DEF CommitCreate, Proceed, Phases
    <2>2. QED
      BY <1>2, <2>1 DEF CommitCreate, TypeOK, safety, webhooks, provider
  <1>3. CASE ReadContract(c)
    <2> DEFINE w == IF Startable(status)
                    THEN [call[c] EXCEPT !.phase = "check", !.read = status]
                    ELSE Idle
    <2>1. w \in CallRecord
      BY <1>0, IdleType DEF CallRecord, TypeOK
    <2>2. call' = [call EXCEPT ![c] = w]
      BY <1>3 DEF ReadContract
    <2>3. call' \in [Call -> CallRecord]
      BY <2>1, <2>2, OneCallMoves
    <2>4. QED
      BY <1>3, <2>3 DEF ReadContract, TypeOK, books, safety, webhooks, provider
  <1>4. CASE Claim(c)
    <2>1. call' \in [Call -> CallRecord]
      BY <1>4, MoveType DEF Claim, Proceed, Phases
    <2>2. status' \in {"NONE", "DRAFT"} \cup Reported /\ raced' \in BOOLEAN
      BY <1>4, WriteStatusType DEF Claim, Reported, TypeOK
    <2>3. QED
      BY <1>4, <2>1, <2>2 DEF Claim, TypeOK, safety, webhooks, provider
  <1>5. CASE CallSession(c)
    <2>1. call' \in [Call -> CallRecord]
      BY <1>5, MoveType DEF CallSession, Phases
    <2>2. session' \in {"NONE"} \cup Reported
      BY <1>5 DEF CallSession, TypeOK, Reported
    <2>3. QED
      BY <1>5, <2>1, <2>2 DEF CallSession, TypeOK, books, safety, webhooks
  <1>6. CASE BindSession(c)
    <2>1. call' \in [Call -> CallRecord]
      BY <1>6, MoveType DEF BindSession
    <2>2. QED
      BY <1>6, <2>1 DEF BindSession, TypeOK, safety, webhooks, provider
  <1>7. CASE FailSession(c)
    <2>1. call' \in [Call -> CallRecord]
      BY <1>7, MoveType DEF FailSession
    <2>2. status' \in {"NONE", "DRAFT"} \cup Reported /\ raced' \in BOOLEAN
      BY <1>7, WriteStatusType DEF FailSession, Reported
    <2>3. QED
      BY <1>7, <2>1, <2>2 DEF FailSession, TypeOK, safety, webhooks, provider
  <1>8. QED
    BY <1>1, <1>2, <1>3, <1>4, <1>5, <1>6, <1>7 DEF SignNext

LEMMA RecheckType ==
    ASSUME TypeOK, NEW c \in Call, RecheckNext(c)
    PROVE  TypeOK'
  <1>0. call[c] \in CallRecord
    BY DEF TypeOK
  <1>1. CASE ReceiveRecheck(c)
    <2>1. call' \in [Call -> CallRecord]
      BY <1>1, StartType DEF ReceiveRecheck, Phases
    <2>2. QED
      BY <1>1, <2>1 DEF ReceiveRecheck, TypeOK, books, safety, webhooks, provider
  <1>2. CASE CheckContract(c)
    <2> DEFINE w == IF Startable(status)
                    THEN [call[c] EXCEPT !.phase = "latest", !.since = now]
                    ELSE Idle
    <2>1. w \in CallRecord
      BY <1>0, IdleType DEF CallRecord, TypeOK
    <2>2. call' = [call EXCEPT ![c] = w] => call' \in [Call -> CallRecord]
      BY <2>1, OneCallMoves
    <2>3. Proceed(c, Signs(c), "claim") => call' \in [Call -> CallRecord]
      BY MoveType DEF Proceed, Phases
    <2>4. call' \in [Call -> CallRecord]
      BY <1>2, <2>2, <2>3 DEF CheckContract
    <2>5. QED
      BY <1>2, <2>4 DEF CheckContract, TypeOK, books, safety, webhooks, provider
  <1>3. CASE ReadLatest(c)
    <2>1. PICK w : /\ call' = [call EXCEPT ![c] = w]
                   /\ w \in {[call[c] EXCEPT !.phase = "claim",
                                             !.attempt = attempts],
                             Idle,
                             [call[c] EXCEPT !.phase = "attempt",
                                             !.attempt = attempts]}
      BY <1>3 DEF ReadLatest
    <2>2. w \in CallRecord
      BY <1>0, <2>1, IdleType DEF CallRecord, TypeOK
    <2>3. call' \in [Call -> CallRecord]
      BY <2>1, <2>2, OneCallMoves
    <2>4. QED
      BY <1>3, <2>3 DEF ReadLatest, TypeOK, books, safety, webhooks, provider
  <1>4. CASE CreateAttempt(c)
    <2> DEFINE next == call[c].attempt + 1
               w == [call[c] EXCEPT !.phase = "recheck", !.attempt = next]
    <2>1. next \in Attempt /\ next \in 0..MaxAttempts
      BY <1>4, ContractAssumption DEF CreateAttempt, Attempt
    <2>2. w \in CallRecord
      BY <1>0, <2>1 DEF CallRecord
    <2>3. call' = [call EXCEPT ![c] = w] => call' \in [Call -> CallRecord]
      BY <2>2, OneCallMoves
    <2>4. call' \in [Call -> CallRecord]
      BY <1>4, <2>3, MoveType DEF CreateAttempt
    <2>5. [status |-> "RUNNING", started |-> call[c].since, expires |-> 0]
             \in RecheckRow
      BY <1>0, Naturals DEF CallRecord, RecheckRow
    <2>6. recheck' \in [Attempt -> RecheckRow] /\ attempts' \in 0..MaxAttempts
      BY <1>4, <2>1, <2>5 DEF CreateAttempt, TypeOK, safety
    <2>7. QED
      BY <1>4, <2>4, <2>6 DEF CreateAttempt, TypeOK, books, webhooks, provider
  <1>5. CASE RecordRecheck(c)
    <2>1. PICK outcome \in {"PASSED", "BLOCKED", "FAILED"},
               expires \in Validity(c) :
             /\ recheck' = [recheck EXCEPT ![call[c].attempt].status = outcome,
                                           ![call[c].attempt].expires = expires]
             /\ Proceed(c, GoesOn(c, outcome), "claim")
      BY <1>5 DEF RecordRecheck
    <2>2. expires \in 0..(MaxTime + ValidFor)
      BY <1>0, ContractAssumption DEF CallRecord, Validity
    <2>3. recheck' \in [Attempt -> RecheckRow]
      BY ZenonT(40), <2>1, <2>2 DEF TypeOK, RecheckRow
    <2>4. call' \in [Call -> CallRecord]
      BY <2>1, MoveType DEF Proceed, Phases
    <2>5. QED
      BY <1>5, <2>3, <2>4 DEF RecordRecheck, TypeOK, books, webhooks, provider
  <1>6. QED
    BY <1>1, <1>2, <1>3, <1>4, <1>5 DEF RecheckNext

LEMMA WebhookType ==
    ASSUME TypeOK, WebhookOK, NEW c \in Call, WebhookNext(c)
    PROVE  TypeOK'
  <1>0. call[c] \in CallRecord
    BY DEF TypeOK
  <1>1. ASSUME NEW t \in Transmission, ReceiveWebhook(c, t)
        PROVE  TypeOK'
    <2> DEFINE w == [Idle EXCEPT !.op = "webhook", !.transmission = t,
                        !.phase = IF event[t] = "NONE" THEN "store"
                                  ELSE "retake"]
    <2>1. w \in CallRecord
      BY IdleType DEF CallRecord
    <2>2. call' \in [Call -> CallRecord]
      BY <1>1, <2>1, OneCallMoves DEF ReceiveWebhook
    <2>3. QED
      BY <1>1, <2>2 DEF ReceiveWebhook, TypeOK, books, safety, webhooks, provider
  <1>2. CASE StoreEvent(c) \/ RetakeEvent(c) \/ LoseApply(c)
    <2>1. call' \in [Call -> CallRecord]
      BY <1>2, MoveType DEF StoreEvent, RetakeEvent, LoseApply, Proceed, Phases
    <2>2. QED
      BY <1>2, <2>1 DEF StoreEvent, RetakeEvent, LoseApply, TypeOK, books,
                        safety, webhooks, provider
  <1>3. CASE Process(c)
    <2>1. PICK p \in {"ignore", "refuse", "apply"} :
             call' = [call EXCEPT ![c] = [call[c] EXCEPT !.read = status,
                                                         !.phase = p]]
      BY <1>3 DEF Process
    <2>2. [call[c] EXCEPT !.read = status, !.phase = p] \in CallRecord
      BY <1>0, <2>1 DEF CallRecord, TypeOK
    <2>3. call' \in [Call -> CallRecord]
      BY <2>1, <2>2, OneCallMoves
    <2>4. unmatched' \subseteq Transmission
      BY <1>3 DEF Process, TypeOK, WebhookOK, Handling, At
    <2>5. QED
      BY <1>3, <2>3, <2>4 DEF Process, TypeOK, books, safety, provider
  <1>4. CASE IgnoreEvent(c) \/ RefuseEvent(c) \/ ReleaseEvent(c)
    <2>1. call' \in [Call -> CallRecord]
      BY <1>4, MoveType DEF IgnoreEvent, RefuseEvent, ReleaseEvent
    <2>2. /\ event' \in [Transmission -> {"NONE", "RECEIVED", "PROCESSED",
                                          "IGNORED", "FAILED"}]
          /\ failed' \subseteq Transmission
      BY <1>4 DEF IgnoreEvent, RefuseEvent, ReleaseEvent, TypeOK, WebhookOK,
                  Handling, At
    <2>3. QED
      BY <1>4, <2>1, <2>2 DEF IgnoreEvent, RefuseEvent, ReleaseEvent, TypeOK,
                              books, safety, provider
  <1>5. CASE ApplyEvent(c)
    <2> DEFINE t == call[c].transmission
    <2>1. call' \in [Call -> CallRecord]
      BY <1>5, MoveType DEF ApplyEvent
    <2>2. t \in Transmission /\ says[t] \in Body
      BY <1>5, ContractAssumption DEF ApplyEvent, At, WebhookOK, Handling
    <2>3. status' \in {"NONE", "DRAFT"} \cup Reported /\ raced' \in BOOLEAN
      BY <1>5, <2>2, WriteStatusType DEF ApplyEvent, Body
    <2>4. party' \in [Role -> PartyStatus]
      BY <1>5, <2>2 DEF ApplyEvent, Body, PartyAfter, TypeOK
    <2>5. /\ event' \in [Transmission -> {"NONE", "RECEIVED", "PROCESSED",
                                          "IGNORED", "FAILED"}]
          /\ applied' \subseteq Transmission /\ reapplied' \subseteq Transmission
      BY <1>5, <2>2 DEF ApplyEvent, TypeOK
    <2>6. QED
      BY <1>5, <2>1, <2>3, <2>4, <2>5 DEF ApplyEvent, TypeOK, safety, provider
  <1>6. QED
    BY <1>1, <1>2, <1>3, <1>4, <1>5 DEF WebhookNext

LEMMA TypeStep == TypeOK /\ WebhookOK /\ [Next]_vars => TypeOK'
  <1> SUFFICES ASSUME TypeOK, WebhookOK, [Next]_vars PROVE TypeOK'
    OBVIOUS
  <1>1. ASSUME NEW c \in Call, Crash(c) PROVE TypeOK'
    <2>1. call' \in [Call -> CallRecord]
      BY <1>1, MoveType DEF Crash
    <2>2. QED
      BY <1>1, <2>1 DEF Crash, TypeOK, books, safety, webhooks, provider
  <1>2. ASSUME NEW t \in Transmission, NEW m \in Message, ProviderReports(t, m)
        PROVE  TypeOK'
    <2>1. m.status \in Reported
      BY ContractAssumption DEF Body
    <2>2. QED
      BY <1>2, <2>1 DEF ProviderReports, TypeOK, books, safety, webhooks
  <1>3. CASE Tick
    BY <1>3, ContractAssumption DEF Tick, TypeOK, books, safety, webhooks,
                                    provider
  <1>4. CASE UNCHANGED vars
    BY <1>4 DEF vars, TypeOK, books, safety, webhooks, provider
  <1>5. QED
    BY <1>1, <1>2, <1>3, <1>4, SignType, RecheckType, WebhookType DEF Next

-----------------------------------------------------------------------------
(* How a call moves *)

LEMMA ReturnMoves ==
    ASSUME TypeOK, NEW c \in Call, Return(c)
    PROVE  /\ \A d \in Call \ {c} : call'[d] = call[d]
           /\ call'[c].phase = "idle"
           /\ call'[c].transmission = None
  BY DEF Return, TypeOK, Idle

LEMMA GotoMoves ==
    ASSUME TypeOK, NEW c \in Call, NEW p, Goto(c, p)
    PROVE  /\ \A d \in Call \ {c} : call'[d] = call[d]
           /\ call'[c].phase = p
           /\ call'[c].op = call[c].op
           /\ call'[c].read = call[c].read
           /\ call'[c].since = call[c].since
           /\ call'[c].attempt = call[c].attempt
           /\ call'[c].transmission = call[c].transmission
  <1> DEFINE w == [call[c] EXCEPT !.phase = p]
  <1>1. call' = [call EXCEPT ![c] = w]
    BY DEF Goto
  <1>2. call'[c] = w /\ \A d \in Call \ {c} : call'[d] = call[d]
    BY <1>1, OneCallMoves
  <1>3. /\ w.phase = p /\ w.op = call[c].op /\ w.read = call[c].read
        /\ w.since = call[c].since /\ w.attempt = call[c].attempt
        /\ w.transmission = call[c].transmission
    BY DEF TypeOK, CallRecord
  <1>4. QED
    BY <1>2, <1>3

LEMMA StartMoves ==
    ASSUME TypeOK, NEW c \in Call, NEW op, NEW p, Start(c, op, p)
    PROVE  /\ \A d \in Call \ {c} : call'[d] = call[d]
           /\ call'[c].phase = p
           /\ call'[c].op = op
           /\ call'[c].transmission = None
  BY DEF Start, TypeOK, Idle

\* Where a step takes its call, and from where.
LEMMA SignMoves ==
    ASSUME TypeOK, NEW c \in Call, SignNext(c)
    PROVE  /\ \A d \in Call \ {c} : call'[d] = call[d]
           /\ \/ call'[c].phase \in {"idle", "create", "read"}
              \/ /\ call'[c].phase = "check"
                 /\ call[c].phase = "read" /\ Startable(status)
                 /\ call'[c].read = status
                 /\ call'[c].op = call[c].op
              \/ /\ call'[c].phase = "session"
                 /\ call[c].phase = "claim" /\ Claimable(c)
                 /\ call'[c].op = call[c].op
                 /\ call'[c].since = call[c].since
                 /\ call'[c].attempt = call[c].attempt
              \/ /\ call'[c].phase \in {"bind", "fail"}
                 /\ call[c].phase = "session"
                 /\ call'[c].op = call[c].op
                 /\ call'[c].since = call[c].since
                 /\ call'[c].attempt = call[c].attempt
  <1>1. CASE ReceiveCreate(c) \/ ReceiveSign(c)
    BY <1>1, StartMoves DEF ReceiveCreate, ReceiveSign
  <1>2. CASE CommitCreate(c)
    BY <1>2, GotoMoves, ReturnMoves DEF CommitCreate, Proceed
  <1>3. CASE ReadContract(c)
    <2>1. call[c] \in CallRecord
      BY DEF TypeOK
    <2>2. CASE Startable(status)
      <3>1. call' = [call EXCEPT ![c] = [call[c] EXCEPT !.phase = "check",
                                                        !.read = status]]
        BY <1>3, <2>2 DEF ReadContract
      <3>2. QED
        BY <1>3, <2>1, <2>2, <3>1, OneCallMoves DEF ReadContract, At, CallRecord
    <2>3. CASE ~Startable(status)
      <3>1. Return(c)
        BY <1>3, <2>3 DEF ReadContract, Return
      <3>2. QED
        BY <3>1, ReturnMoves
    <2>4. QED
      BY <2>2, <2>3
  <1>4. CASE Claim(c)
    BY <1>4, GotoMoves, ReturnMoves DEF Claim, Proceed, At
  <1>5. CASE CallSession(c)
    BY <1>5, GotoMoves DEF CallSession, At
  <1>6. CASE BindSession(c) \/ FailSession(c)
    BY <1>6, ReturnMoves DEF BindSession, FailSession
  <1>7. QED
    BY <1>1, <1>2, <1>3, <1>4, <1>5, <1>6 DEF SignNext

LEMMA RecheckMoves ==
    ASSUME TypeOK, NEW c \in Call, RecheckNext(c)
    PROVE  /\ \A d \in Call \ {c} : call'[d] = call[d]
           /\ \/ call'[c].phase = "idle"
              \/ call'[c].phase = "check" /\ call'[c].op = "recheck"
              \/ /\ call'[c].phase = "latest"
                 /\ call[c].phase = "check"
                 /\ call'[c].op = call[c].op
                 /\ call'[c].read = call[c].read
              \/ /\ call'[c].phase = "attempt"
                 /\ call[c].phase = "latest"
                 /\ call'[c].op = call[c].op
                 /\ call'[c].read = call[c].read
                 /\ call'[c].since = call[c].since
                 /\ call'[c].attempt = attempts
                 /\ attempts > 0 => ~UnderWay(recheck[attempts], call[c].since)
              \/ /\ call'[c].phase = "recheck"
                 /\ call[c].phase = "attempt"
                 /\ call'[c].op = call[c].op
                 /\ call'[c].read = call[c].read
                 /\ call'[c].since = call[c].since
                 /\ call'[c].attempt = call[c].attempt + 1
                 /\ attempts < call[c].attempt + 1
              \/ /\ call'[c].phase = "claim"
                 /\ call'[c].op = "sign" /\ call[c].op = "sign"
                 /\ call'[c].read = call[c].read
                 /\ call'[c].since = call[c].since
                 /\ \/ call[c].phase = "check" /\ ~jeonse
                    \/ /\ call[c].phase = "latest"
                       /\ call'[c].attempt = attempts
                       /\ attempts > 0
                       /\ Reusable(recheck[attempts], call[c].since)
                    \/ /\ call[c].phase = "recheck"
                       /\ call'[c].attempt = call[c].attempt
                       /\ call[c].attempt \in Attempt =>
                             GoesOn(c, recheck'[call[c].attempt].status)
  <1>0. call[c] \in CallRecord
    BY DEF TypeOK
  <1>1. CASE ReceiveRecheck(c)
    BY <1>1, StartMoves DEF ReceiveRecheck
  <1>2. CASE CheckContract(c)
    <2>1. CASE ~jeonse
      BY <1>2, <2>1, GotoMoves, ReturnMoves DEF CheckContract, Proceed, At, Signs
    <2>2. CASE jeonse /\ Startable(status)
      <3> DEFINE w == [call[c] EXCEPT !.phase = "latest", !.since = now]
      <3>1. call' = [call EXCEPT ![c] = w]
        BY <1>2, <2>2 DEF CheckContract
      <3>2. w.phase = "latest" /\ w.op = call[c].op /\ w.read = call[c].read
        BY <1>0 DEF CallRecord
      <3>3. QED
        BY <1>2, <3>1, <3>2, OneCallMoves DEF CheckContract, At
    <2>3. CASE jeonse /\ ~Startable(status)
      <3>1. Return(c)
        BY <1>2, <2>3 DEF CheckContract, Return
      <3>2. QED
        BY <3>1, ReturnMoves
    <2>4. QED
      BY <2>1, <2>2, <2>3
  <1>3. CASE ReadLatest(c)
    <2> DEFINE row == IF attempts = 0 THEN NoRecheck ELSE recheck[attempts]
    <2>1. CASE Signs(c) /\ Reusable(row, call[c].since)
      <3> DEFINE w == [call[c] EXCEPT !.phase = "claim", !.attempt = attempts]
      <3>1. call' = [call EXCEPT ![c] = w]
        BY <1>3, <2>1 DEF ReadLatest
      <3>2. attempts > 0 /\ row = recheck[attempts]
        BY <2>1 DEF Reusable, NoRecheck, TypeOK
      <3>3. /\ w.phase = "claim" /\ w.op = call[c].op /\ w.read = call[c].read
            /\ w.since = call[c].since /\ w.attempt = attempts
        BY <1>0 DEF CallRecord
      <3>4. call'[c] = w /\ \A d \in Call \ {c} : call'[d] = call[d]
        BY <3>1, OneCallMoves
      <3> HIDE DEF w
      <3>5. QED
        BY <1>3, <2>1, <3>2, <3>3, <3>4 DEF ReadLatest, At, Signs
    <2>2. CASE ~(Signs(c) /\ Reusable(row, call[c].since))
               /\ UnderWay(row, call[c].since)
      <3>1. Return(c)
        BY <1>3, <2>2 DEF ReadLatest, Return
      <3>2. QED
        BY <3>1, ReturnMoves
    <2>3. CASE ~(Signs(c) /\ Reusable(row, call[c].since))
               /\ ~UnderWay(row, call[c].since)
      <3> DEFINE w == [call[c] EXCEPT !.phase = "attempt", !.attempt = attempts]
      <3>1. call' = [call EXCEPT ![c] = w]
        BY <1>3, <2>3 DEF ReadLatest
      <3>2. attempts > 0 => ~UnderWay(recheck[attempts], call[c].since)
        BY <2>3 DEF TypeOK
      <3>3. /\ w.phase = "attempt" /\ w.op = call[c].op /\ w.read = call[c].read
            /\ w.since = call[c].since /\ w.attempt = attempts
        BY <1>0 DEF CallRecord
      <3>4. call'[c] = w /\ \A d \in Call \ {c} : call'[d] = call[d]
        BY <3>1, OneCallMoves
      <3> HIDE DEF w
      <3>5. QED
        BY <1>3, <3>2, <3>3, <3>4 DEF ReadLatest, At
    <2>4. QED
      BY <2>1, <2>2, <2>3
  <1>4. CASE CreateAttempt(c)
    <2>1. CASE attempts < call[c].attempt + 1
      <3> DEFINE n == call[c].attempt + 1
                 w == [call[c] EXCEPT !.phase = "recheck", !.attempt = n]
      <3>1. call' = [call EXCEPT ![c] = w]
        BY <1>4, <2>1 DEF CreateAttempt
      <3>2. /\ w.phase = "recheck" /\ w.op = call[c].op /\ w.read = call[c].read
            /\ w.since = call[c].since /\ w.attempt = n
        BY <1>0 DEF CallRecord
      <3>3. QED
        BY <1>4, <2>1, <3>1, <3>2, OneCallMoves DEF CreateAttempt, At
    <2>2. CASE ~(attempts < call[c].attempt + 1)
      BY <1>4, <2>2, ReturnMoves DEF CreateAttempt
    <2>3. QED
      BY <2>1, <2>2
  <1>5. CASE RecordRecheck(c)
    <2>1. PICK outcome \in {"PASSED", "BLOCKED", "FAILED"},
               expires \in Validity(c) :
             /\ recheck' = [recheck EXCEPT ![call[c].attempt].status = outcome,
                                           ![call[c].attempt].expires = expires]
             /\ Proceed(c, GoesOn(c, outcome), "claim")
      BY <1>5 DEF RecordRecheck
    <2>2. CASE GoesOn(c, outcome)
      <3>1. Goto(c, "claim") /\ Signs(c)
        BY <2>1, <2>2 DEF Proceed, GoesOn
      <3>2. call[c].attempt \in Attempt =>
               recheck'[call[c].attempt].status = outcome
        BY <2>1 DEF TypeOK, RecheckRow
      <3>3. call[c].attempt \in Attempt =>
               GoesOn(c, recheck'[call[c].attempt].status)
        BY <2>2, <3>2
      <3>4. QED
        BY <1>5, <3>1, <3>3, GotoMoves DEF RecordRecheck, At, Signs
    <2>3. CASE ~GoesOn(c, outcome)
      BY <2>1, <2>3, ReturnMoves DEF Proceed
    <2>4. QED
      BY <2>2, <2>3
  <1>6. QED
    BY <1>1, <1>2, <1>3, <1>4, <1>5 DEF RecheckNext

LEMMA WebhookMoves ==
    ASSUME TypeOK, NEW c \in Call, WebhookNext(c)
    PROVE  /\ \A d \in Call \ {c} : call'[d] = call[d]
           /\ \/ call'[c].phase = "idle"
              \/ /\ call'[c].phase \in {"store", "retake"}
                 /\ call'[c].transmission \in Transmission
                 /\ says[call'[c].transmission] # None
                 /\ call'[c].phase = "retake" =>
                       event[call'[c].transmission] = "FAILED"
              \/ /\ call'[c].transmission = call[c].transmission
                 /\ \/ /\ call'[c].phase = "process"
                       /\ \/ call[c].phase = "store" /\ EventIsNew(c)
                          \/ call[c].phase = "retake"
                    \/ /\ call'[c].phase \in {"ignore", "refuse", "apply"}
                       /\ call[c].phase = "process"
                       /\ call'[c].read = status
                       /\ call'[c].phase = "apply" =>
                             /\ bound
                             /\ CanTransition(status,
                                    says[call[c].transmission].status)
                       /\ call'[c].phase = "ignore" /\ bound =>
                             ~CanTransition(status,
                                    says[call[c].transmission].status)
                    \/ call'[c].phase = "release" /\ call[c].phase = "apply"
  <1>0. call[c] \in CallRecord
    BY DEF TypeOK
  <1>1. ASSUME NEW t \in Transmission, ReceiveWebhook(c, t)
        PROVE  /\ \A d \in Call \ {c} : call'[d] = call[d]
               /\ call'[c].phase \in {"store", "retake"}
               /\ call'[c].transmission = t
               /\ says[t] # None
               /\ call'[c].phase = "retake" => event[t] = "FAILED"
    <2> DEFINE w == [Idle EXCEPT !.op = "webhook", !.transmission = t,
                        !.phase = IF event[t] = "NONE" THEN "store"
                                  ELSE "retake"]
    <2>1. call' = [call EXCEPT ![c] = w]
      BY <1>1 DEF ReceiveWebhook
    <2>2. w.transmission = t /\ w.phase = IF event[t] = "NONE" THEN "store"
                                          ELSE "retake"
      BY DEF Idle
    <2> HIDE DEF w
    <2>3. QED
      <3>1. call'[c] = w /\ \A d \in Call \ {c} : call'[d] = call[d]
        BY <2>1, OneCallMoves
      <3>2. says[t] # None /\ event[t] \in {"NONE", "FAILED"}
        BY <1>1 DEF ReceiveWebhook
      <3>3. QED
        BY <2>2, <3>1, <3>2
  <1>2. CASE StoreEvent(c) \/ RetakeEvent(c) \/ LoseApply(c)
    BY <1>2, GotoMoves, ReturnMoves
       DEF StoreEvent, RetakeEvent, LoseApply, Proceed, At
  <1>3. CASE Process(c)
    <2> DEFINE m == says[call[c].transmission]
               p == IF ~(bound /\ CanTransition(status, m.status)) THEN "ignore"
                    ELSE IF m.status = "SIGNED" /\ ~m.document THEN "refuse"
                    ELSE "apply"
               w == [call[c] EXCEPT !.read = status, !.phase = p]
    <2>1. call' = [call EXCEPT ![c] = w]
      BY <1>3 DEF Process
    <2>2. w.phase = p /\ w.read = status
          /\ w.transmission = call[c].transmission
      BY <1>0 DEF CallRecord
    <2>3. /\ \A d \in Call \ {c} : call'[d] = call[d]
          /\ call'[c].phase = p /\ call'[c].read = status
          /\ call'[c].transmission = call[c].transmission
      BY <2>1, <2>2, OneCallMoves
    <2>4. QED
      BY <1>3, <2>3 DEF Process, At
  <1>4. CASE IgnoreEvent(c) \/ RefuseEvent(c) \/ ReleaseEvent(c) \/ ApplyEvent(c)
    BY <1>4, ReturnMoves DEF IgnoreEvent, RefuseEvent, ReleaseEvent, ApplyEvent
  <1>5. QED
    BY <1>1, <1>2, <1>3, <1>4 DEF WebhookNext

\* A step is a call's, the provider's or the clock's.
LEMMA NextSteps ==
    ASSUME [Next]_vars
    PROVE  \/ \E c \in Call : SignNext(c) \/ RecheckNext(c) \/ WebhookNext(c)
                              \/ Crash(c)
           \/ \E t \in Transmission, m \in Message : ProviderReports(t, m)
           \/ Tick \/ UNCHANGED vars
  BY DEF Next

LEMMA CrashMoves ==
    ASSUME TypeOK, NEW c \in Call, Crash(c)
    PROVE  /\ \A d \in Call \ {c} : call'[d] = call[d]
           /\ call'[c].phase = "idle"
  BY ReturnMoves DEF Crash

\* Nothing but a call moves a call.
LEMMA QuietMoves ==
    ASSUME \/ \E t \in Transmission, m \in Message : ProviderReports(t, m)
           \/ Tick \/ UNCHANGED vars
    PROVE  call' = call
  BY DEF ProviderReports, Tick, vars

\* What the provider has said it does not unsay.
LEMMA SaysStays ==
    ASSUME TypeOK, [Next]_vars, NEW t \in Transmission, says[t] # None
    PROVE  says'[t] = says[t]
  <1>1. ASSUME NEW u \in Transmission, NEW m \in Message, ProviderReports(u, m)
        PROVE  says'[t] = says[t]
    BY <1>1 DEF ProviderReports, TypeOK
  <1>2. ASSUME NEW c \in Call, SignNext(c) PROVE says'[t] = says[t]
    BY <1>2 DEF SignNext, ReceiveCreate, CommitCreate, ReceiveSign, ReadContract,
                Claim, CallSession, BindSession, FailSession, provider
  <1>3. ASSUME NEW c \in Call, RecheckNext(c) PROVE says'[t] = says[t]
    BY <1>3 DEF RecheckNext, ReceiveRecheck, CheckContract, ReadLatest,
                CreateAttempt, RecordRecheck, provider
  <1>4. ASSUME NEW c \in Call, WebhookNext(c) PROVE says'[t] = says[t]
    BY <1>4 DEF WebhookNext, ReceiveWebhook, StoreEvent, RetakeEvent, Process,
                IgnoreEvent, RefuseEvent, ApplyEvent, LoseApply, ReleaseEvent,
                provider
  <1>5. QED
    BY <1>1, <1>2, <1>3, <1>4, NextSteps DEF Crash, Tick, vars, provider

LEMMA WebhookStep == TypeOK /\ WebhookOK /\ [Next]_vars => WebhookOK'
  <1> SUFFICES ASSUME TypeOK, WebhookOK, [Next]_vars, NEW d \in Call,
                      call'[d].phase \in Handling \cup {"store", "retake"}
               PROVE  /\ call'[d].transmission \in Transmission
                      /\ says'[call'[d].transmission] \in Message
    BY DEF WebhookOK
  <1>1. CASE call'[d] = call[d]
    <2>1. /\ call[d].transmission \in Transmission
          /\ says[call[d].transmission] \in Message
      BY <1>1 DEF WebhookOK
    <2>2. says[call[d].transmission] # None
      BY <2>1, ContractAssumption
    <2>3. QED
      BY <1>1, <2>1, <2>2, SaysStays
  <1>2. ASSUME NEW c \in Call, WebhookNext(c), call'[c] # call[c], d = c
        PROVE  /\ call'[d].transmission \in Transmission
               /\ says[call'[d].transmission] \in Message
    <2>1. call[c].phase \in {"store", "retake", "process", "apply"} =>
             /\ call[c].transmission \in Transmission
             /\ says[call[c].transmission] \in Message
      BY DEF WebhookOK, Handling
    <2>2. \A t \in Transmission : says[t] # None => says[t] \in Message
      BY DEF TypeOK
    <2>3. QED
      BY <1>2, <2>1, <2>2, WebhookMoves DEF Handling
  <1>3. CASE call'[d] # call[d]
    <2>1. PICK c \in Call : SignNext(c) \/ RecheckNext(c) \/ WebhookNext(c)
                            \/ Crash(c)
      BY <1>3, NextSteps, QuietMoves
    <2>2. d = c
      BY <1>3, <2>1, SignMoves, RecheckMoves, WebhookMoves, CrashMoves
    <2>3. WebhookNext(c)
      BY <2>1, <2>2, SignMoves, RecheckMoves, CrashMoves DEF Handling
    <2>4. /\ call'[d].transmission \in Transmission
          /\ says[call'[d].transmission] \in Message
      BY <1>2, <1>3, <2>2, <2>3
    <2>5. QED
      BY <2>4, SaysStays, ContractAssumption
  <1>4. QED
    BY <1>1, <1>3

LEMMA InitWebhook == Init => WebhookOK
  BY DEF Init, WebhookOK, Idle, Handling

\* Every column holds a value of its enum.
THEOREM TypeCorrect == Spec => []TypeOK
  BY InitType, InitWebhook, TypeStep, WebhookStep, PTL DEF Spec

-----------------------------------------------------------------------------
(* Who may write the contract *)

\* The status is written by create(), a claim, a failing session and a webhook
\* that is applied.
LEMMA StatusWriters ==
    ASSUME [Next]_vars, status' # status
    PROVE  \E c \in Call :
              \/ CommitCreate(c) /\ status = "NONE" /\ status' = "DRAFT"
              \/ Claim(c) /\ Claimable(c) /\ WriteStatus(c, "SIGNING_PENDING")
              \/ FailSession(c) /\ WriteStatus(c, "FAILED")
              \/ ApplyEvent(c)
                 /\ WriteStatus(c, says[call[c].transmission].status)
  <1>1. ASSUME NEW c \in Call, SignNext(c)
        PROVE  \/ CommitCreate(c) /\ status = "NONE" /\ status' = "DRAFT"
               \/ Claim(c) /\ Claimable(c) /\ WriteStatus(c, "SIGNING_PENDING")
               \/ FailSession(c) /\ WriteStatus(c, "FAILED")
    BY <1>1 DEF SignNext, ReceiveCreate, CommitCreate, ReceiveSign,
       ReadContract, Claim, CallSession, BindSession, FailSession, books
  <1>2. ASSUME NEW c \in Call, RecheckNext(c) PROVE FALSE
    BY <1>2 DEF RecheckNext, ReceiveRecheck, CheckContract, ReadLatest,
                CreateAttempt, RecordRecheck, books
  <1>3. ASSUME NEW c \in Call, WebhookNext(c)
        PROVE  ApplyEvent(c)
               /\ WriteStatus(c, says[call[c].transmission].status)
    BY <1>3 DEF WebhookNext, ReceiveWebhook, StoreEvent, RetakeEvent, Process,
                IgnoreEvent, RefuseEvent, ApplyEvent, LoseApply, ReleaseEvent,
                books
  <1>4. QED
    BY <1>1, <1>2, <1>3, NextSteps DEF Crash, ProviderReports, Tick, vars, books

\* The provider's id is stored once and kept.
LEMMA BoundWriters ==
    ASSUME [Next]_vars
    PROVE  /\ \A c \in Call : BindSession(c) => bound'
           /\ bound' = bound \/ \E c \in Call : BindSession(c)
  <1>1. ASSUME NEW c \in Call, SignNext(c), ~BindSession(c)
        PROVE  bound' = bound
    BY <1>1 DEF SignNext, ReceiveCreate, CommitCreate, ReceiveSign,
       ReadContract, Claim, CallSession, FailSession, books
  <1>2. ASSUME NEW c \in Call, RecheckNext(c) \/ WebhookNext(c)
        PROVE  bound' = bound
    BY <1>2 DEF RecheckNext, ReceiveRecheck, CheckContract, ReadLatest,
       CreateAttempt, RecordRecheck, WebhookNext, ReceiveWebhook, StoreEvent,
       RetakeEvent, Process, IgnoreEvent, RefuseEvent, ApplyEvent, LoseApply,
       ReleaseEvent, books
  <1>3. CASE UNCHANGED books
    BY <1>3 DEF books, BindSession
  <1>4. \A c \in Call : BindSession(c) => bound'
    BY DEF BindSession
  <1>5. QED
    BY <1>1, <1>2, <1>3, <1>4, NextSteps DEF Crash, ProviderReports, Tick, vars

\* A call past its claim is in startSigning() until it returns.
LEMMA SigningOnly ==
    ASSUME NEW c \in Signing
    PROVE  ~RecheckNext(c) /\ ~WebhookNext(c)
  <1>1. call[c].phase \in SigningPhase /\ call[c] # Idle
    BY DEF Signing, SigningPhase, Idle
  <1>2. ~RecheckNext(c)
    BY <1>1 DEF RecheckNext, ReceiveRecheck, CheckContract, ReadLatest,
                CreateAttempt, RecordRecheck, Start, At, SigningPhase
  <1>3. \A t \in Transmission : ~ReceiveWebhook(c, t)
    BY <1>1 DEF ReceiveWebhook
  <1>4. QED
    BY <1>1, <1>2, <1>3
       DEF WebhookNext, StoreEvent, RetakeEvent, Process, IgnoreEvent,
           RefuseEvent, ApplyEvent, LoseApply, ReleaseEvent, At, SigningPhase

ClaimInv == CallOK /\ BoundOK /\ OneSession /\ PendingHasOwner

\* The calls past their claim: a step adds one only by claiming.
LEMMA SigningStep ==
    ASSUME TypeOK, [Next]_vars, NEW d \in Signing'
    PROVE  d \in Signing \/ (Claim(d) /\ Claimable(d))
  <1>0. d \in Call /\ call'[d].phase \in SigningPhase
    BY DEF Signing, SigningPhase
  <1>1. CASE call'[d] = call[d]
    BY <1>0, <1>1 DEF Signing
  <1>2. CASE call'[d] # call[d]
    <2>1. PICK c \in Call : SignNext(c) \/ RecheckNext(c) \/ WebhookNext(c)
                            \/ Crash(c)
      BY <1>2, NextSteps, QuietMoves
    <2>2. d = c
      BY <1>0, <1>2, <2>1, SignMoves, RecheckMoves, WebhookMoves, CrashMoves
    <2>3. SignNext(d)
      BY <1>0, <2>1, <2>2, RecheckMoves, WebhookMoves, CrashMoves
         DEF SigningPhase
    <2>4. CASE call'[d].phase \in {"bind", "fail"}
      <3>1. call[d].phase = "session"
        BY <1>0, <2>3, <2>4, SignMoves
      <3>2. QED
        BY <1>0, <3>1 DEF Signing, SigningPhase
    <2>5. CASE call'[d].phase = "session"
      <3>1. call[d].phase = "claim" /\ Claimable(d)
        BY <1>0, <2>3, <2>5, SignMoves
      <3>2. Claim(d)
        BY <2>3, <3>1 DEF SignNext, ReceiveCreate, CommitCreate, ReceiveSign,
           ReadContract, CallSession, BindSession, FailSession, Start, Idle, At
      <3>3. QED
        BY <3>1, <3>2
    <2>6. QED
      BY <1>0, <2>4, <2>5 DEF SigningPhase
  <1>3. QED
    BY <1>1, <1>2

CallFits(c) ==
    /\ call[c].phase \in {"check", "latest", "attempt", "recheck", "claim"}
       /\ Signs(c) => Startable(call[c].read)
    /\ call[c].phase \in {"claim"} \cup SigningPhase => Signs(c)
    /\ call[c].phase = "apply" =>
          LET m == says[call[c].transmission] IN
          bound /\ CanTransition(call[c].read, m.status)

LEMMA ClaimStep ==
    TypeOK /\ WebhookOK /\ ClaimInv /\ [Next]_vars => ClaimInv'
  <1> SUFFICES ASSUME TypeOK, WebhookOK, ClaimInv, [Next]_vars PROVE ClaimInv'
    OBVIOUS
  <1>0. \A c \in Call : Claim(c) /\ Claimable(c) =>
           /\ Startable(status)
           /\ status' = "SIGNING_PENDING"
    BY DEF Claim, Claimable, WriteStatus, ClaimInv, CallOK, At
  <1>1. \A c \in Call : ApplyEvent(c) => bound /\ status' \in Reported
    <2> SUFFICES ASSUME NEW c \in Call, ApplyEvent(c)
                 PROVE  bound /\ status' \in Reported
      OBVIOUS
    <2>1. bound
      BY DEF ApplyEvent, At, ClaimInv, CallOK
    <2>2. says[call[c].transmission] \in Body
      BY ContractAssumption DEF ApplyEvent, At, WebhookOK, Handling
    <2>3. QED
      BY <2>1, <2>2 DEF ApplyEvent, WriteStatus, Body
  <1>2. status \notin {"NONE", "DRAFT"} => status' \notin {"NONE", "DRAFT"}
    BY <1>0, <1>1, StatusWriters DEF WriteStatus, Reported, Terminal
  <1>3. \A d \in Signing' : status' \notin {"NONE", "DRAFT"}
    <2> SUFFICES ASSUME NEW d \in Signing' PROVE status' \notin {"NONE", "DRAFT"}
      OBVIOUS
    <2>1. d \in Signing => status \notin {"NONE", "DRAFT"}
      BY DEF ClaimInv, CallOK, Signing
    <2>2. QED
      BY <1>0, <1>2, <2>1, SigningStep DEF Signing
  <1>4. BoundOK'
    <2>1. \A c \in Call : BindSession(c) => bound' /\ c \in Signing
                                            /\ status' = status
      BY DEF BindSession, Signing, SigningPhase, At
    <2>2. CASE bound'
      <3>1. status \notin {"NONE", "DRAFT"}
        BY <2>1, <2>2, BoundWriters DEF ClaimInv, BoundOK, CallOK, Signing
      <3>2. QED
        BY <1>2, <2>2, <3>1 DEF BoundOK
    <2>3. CASE ~bound'
      <3>1. ~bound
        BY <2>3, BoundWriters
      <3>2. QED
        BY <1>0, <1>1, <2>3, <3>1, StatusWriters
           DEF WriteStatus, ClaimInv, BoundOK
    <2>4. QED
      BY <2>2, <2>3
  <1>5. OneSession'
    <2> SUFFICES ASSUME ~bound', NEW c \in Signing', NEW d \in Signing', c # d
                 PROVE  FALSE
      BY DEF OneSession
    <2>1. ~bound
      BY BoundWriters
    <2>2. \A e \in Signing : status = "SIGNING_PENDING"
      BY <2>1 DEF ClaimInv, PendingHasOwner
    <2>3. ~(c \in Signing /\ d \in Signing)
      BY <2>1 DEF ClaimInv, OneSession
    <2>4. ~(Claim(c) /\ Claimable(c) /\ d \in Signing)
          /\ ~(Claim(d) /\ Claimable(d) /\ c \in Signing)
      BY <1>0, <2>2 DEF Startable, Signing
    <2>5. ~(Claim(c) /\ Claimable(c) /\ Claim(d) /\ Claimable(d))
      <3>1. c \in Call /\ d \in Call
        BY DEF Signing
      <3>2. Claim(c) /\ Claimable(c) => call'[d] = call[d]
        BY <3>1, SignMoves DEF SignNext
      <3>3. Claim(d) /\ Claimable(d) => call'[d].phase = "session"
                                        /\ call[d].phase = "claim"
        BY <3>1, GotoMoves DEF Claim, Proceed, At
      <3>4. QED
        BY <3>2, <3>3
    <2>6. QED
      BY <2>3, <2>4, <2>5, SigningStep
  <1>6. PendingHasOwner'
    <2> SUFFICES ASSUME ~bound'
                 PROVE  /\ Signing' # {} => status' = "SIGNING_PENDING"
                        /\ status' = "SIGNING_PENDING" => Signing' # {} \/ crashed'
      BY DEF PendingHasOwner
    <2>1. ~bound /\ \A c \in Call : ~ApplyEvent(c)
      BY <1>1, BoundWriters DEF ApplyEvent
    <2>2. ASSUME NEW d \in Signing' PROVE status' = "SIGNING_PENDING"
      <3>1. CASE Claim(d) /\ Claimable(d)
        BY <1>0, <3>1 DEF Signing
      <3>2. CASE d \in Signing
        <4>1. status = "SIGNING_PENDING"
          BY <2>1, <3>2 DEF ClaimInv, PendingHasOwner
        <4>2. ASSUME NEW c \in Call, FailSession(c) PROVE FALSE
          <5>1. c \in Signing
            BY <4>2 DEF FailSession, Signing, SigningPhase, At
          <5>2. c = d
            BY <2>1, <3>2, <5>1 DEF ClaimInv, OneSession
          <5>3. call'[c].phase = "idle"
            BY <4>2, ReturnMoves DEF FailSession
          <5>4. QED
            BY <2>2, <5>2, <5>3 DEF Signing, SigningPhase
        <4>3. QED
          BY <1>0, <2>1, <4>1, <4>2, StatusWriters
      <3>3. QED
        BY <3>1, <3>2, SigningStep
    <2>3. ASSUME status' = "SIGNING_PENDING", Signing' = {}, ~crashed'
          PROVE  FALSE
      <3>1. CASE status = "SIGNING_PENDING"
        <4>1. ~crashed
          BY <2>3, NextSteps DEF SignNext, ReceiveCreate, CommitCreate,
             ReceiveSign, ReadContract, Claim, CallSession, BindSession,
             FailSession, RecheckNext, ReceiveRecheck, CheckContract, ReadLatest,
             CreateAttempt, RecordRecheck, WebhookNext, ReceiveWebhook,
             StoreEvent, RetakeEvent, Process, IgnoreEvent, RefuseEvent,
             ApplyEvent, LoseApply, ReleaseEvent, Crash, ProviderReports, Tick,
             vars
        <4>2. PICK e \in Call : e \in Signing
          BY <2>1, <3>1, <4>1 DEF ClaimInv, PendingHasOwner, Signing
        <4>3. call'[e] # call[e]
          BY <2>3, <4>2 DEF Signing
        <4>4. PICK c \in Call : SignNext(c) \/ RecheckNext(c) \/ WebhookNext(c)
                                \/ Crash(c)
          BY <4>3, NextSteps, QuietMoves
        <4>5. c = e
          BY <4>3, <4>4, SignMoves, RecheckMoves, WebhookMoves, CrashMoves
        <4>6. ~Crash(c)
          BY <2>3 DEF Crash
        <4>7. SignNext(e)
          BY <4>2, <4>4, <4>5, <4>6, SigningOnly
        <4>8. CallSession(e) \/ BindSession(e) \/ FailSession(e)
          BY <4>2, <4>7 DEF SignNext, ReceiveCreate, CommitCreate, ReceiveSign,
             ReadContract, Claim, Signing, SigningPhase, At, Start, Idle
        <4>9. ~CallSession(e)
          BY <2>3, GotoMoves DEF CallSession, Signing, SigningPhase
        <4>10. ~BindSession(e) /\ ~FailSession(e)
          BY <2>3 DEF BindSession, FailSession, WriteStatus
        <4>11. QED
          BY <4>8, <4>9, <4>10
      <3>2. CASE status # "SIGNING_PENDING"
        <4>1. PICK c \in Call : Claim(c) /\ Claimable(c)
          BY <2>1, <2>3, <3>2, StatusWriters DEF WriteStatus
        <4>2. call'[c].phase = "session"
          BY <4>1, GotoMoves DEF Claim, Proceed
        <4>3. QED
          BY <2>3, <4>2 DEF Signing, SigningPhase
      <3>3. QED
        BY <3>1, <3>2
    <2>4. QED
      BY <2>2, <2>3
  <1>7. CallOK'
    <2> SUFFICES ASSUME NEW d \in Call
                 PROVE  CallFits(d)'
      BY <1>3 DEF CallOK, CallFits, Signing
    <2>1. CallFits(d)
      BY DEF ClaimInv, CallOK, CallFits
    <2>2. CASE call'[d] = call[d]
      <3>1. bound => bound'
        BY BoundWriters
      <3>2. call[d].phase = "apply" =>
               /\ call[d].transmission \in Transmission
               /\ says[call[d].transmission] # None
        BY ContractAssumption DEF WebhookOK, Handling
      <3>3. QED
        BY <2>1, <2>2, <3>1, <3>2, SaysStays DEF CallFits, Signs
    <2>3. CASE call'[d] # call[d]
      <3>1. PICK c \in Call : SignNext(c) \/ RecheckNext(c) \/ WebhookNext(c)
                              \/ Crash(c)
        BY <2>3, NextSteps, QuietMoves
      <3>2. d = c
        BY <2>3, <3>1, SignMoves, RecheckMoves, WebhookMoves, CrashMoves
      <3>3. CASE SignNext(d)
        BY <2>1, <3>3, SignMoves DEF CallFits, Signs, SigningPhase
      <3>4. CASE RecheckNext(d)
        BY <2>1, <3>4, RecheckMoves DEF CallFits, Signs, SigningPhase
      <3>5. CASE WebhookNext(d)
        <4>1. CASE call'[d].phase = "apply"
          <5>1. /\ bound /\ call'[d].read = status
                /\ call'[d].transmission = call[d].transmission
                /\ CanTransition(status, says[call[d].transmission].status)
                /\ call[d].phase = "process"
            BY <3>5, <4>1, WebhookMoves
          <5>2. says'[call[d].transmission] = says[call[d].transmission]
            BY <5>1, SaysStays, ContractAssumption DEF WebhookOK, Handling
          <5>3. QED
            BY <4>1, <5>1, <5>2, BoundWriters DEF CallFits, SigningPhase
        <4>2. CASE call'[d].phase # "apply"
          BY <3>5, <4>2, WebhookMoves DEF CallFits, SigningPhase
        <4>3. QED
          BY <4>1, <4>2
      <3>6. CASE Crash(d)
        BY <3>6, CrashMoves DEF CallFits, SigningPhase
      <3>7. QED
        BY <3>1, <3>2, <3>3, <3>4, <3>5, <3>6
    <2>4. QED
      BY <2>2, <2>3
  <1>8. QED
    BY <1>4, <1>5, <1>6, <1>7 DEF ClaimInv

LEMMA InitClaim == Init => ClaimInv
  BY DEF Init, ClaimInv, CallOK, BoundOK, OneSession, PendingHasOwner, Signing,
         SigningPhase, Idle

\* What ClaimInv rests on, and it with it.
LEMMA ClaimInvariant == Spec => [](TypeOK /\ WebhookOK /\ ClaimInv)
  BY InitType, InitWebhook, InitClaim, TypeStep, WebhookStep, ClaimStep, PTL
     DEF Spec

\* While the provider's id is missing one call at most holds the contract.
THEOREM OneSessionAtATime == Spec => []OneSession
  <1>1. ClaimInv => OneSession
    BY DEF ClaimInv
  <1>2. QED
    BY <1>1, ClaimInvariant, PTL

\* A pending contract without the provider's id is being worked on, unless a
\* process died.
THEOREM PendingContractsHaveOwners == Spec => []PendingHasOwner
  <1>1. ClaimInv => PendingHasOwner
    BY DEF ClaimInv
  <1>2. QED
    BY <1>1, ClaimInvariant, PTL

-----------------------------------------------------------------------------
(* Safety rechecks *)

RecheckInv == RecheckOK /\ RunningRechecksApart /\ CheckedBeforeSigning

\* Two actions write rechecks: the one that makes a row and the one that ends it.
LEMMA RecheckWriters ==
    ASSUME [Next]_vars, ~UNCHANGED safety
    PROVE  \E c \in Call : CreateAttempt(c) \/ RecordRecheck(c)
  <1>1. ASSUME NEW c \in Call, SignNext(c) PROVE UNCHANGED safety
    BY <1>1 DEF SignNext, ReceiveCreate, CommitCreate, ReceiveSign,
       ReadContract, Claim, CallSession, BindSession, FailSession
  <1>2. ASSUME NEW c \in Call, WebhookNext(c) PROVE UNCHANGED safety
    BY <1>2 DEF WebhookNext, ReceiveWebhook, StoreEvent, RetakeEvent, Process,
                IgnoreEvent, RefuseEvent, ApplyEvent, LoseApply, ReleaseEvent
  <1>3. ASSUME NEW c \in Call, RecheckNext(c),
               ~CreateAttempt(c), ~RecordRecheck(c)
        PROVE  UNCHANGED safety
    BY <1>3 DEF RecheckNext, ReceiveRecheck, CheckContract, ReadLatest
  <1>4. QED
    BY <1>1, <1>2, <1>3, NextSteps DEF Crash, ProviderReports, Tick, vars

\* A row is made RUNNING at the number after the latest.
LEMMA RowMade ==
    ASSUME TypeOK, RecheckOK, NEW c \in Call, CreateAttempt(c),
           attempts < call[c].attempt + 1
    PROVE  /\ call[c].attempt = attempts
           /\ attempts' = attempts + 1 /\ attempts + 1 \in Attempt
           /\ recheck'[attempts + 1].status = "RUNNING"
           /\ recheck'[attempts + 1].started = call[c].since
           /\ \A a \in Attempt : a # attempts + 1 => recheck'[a] = recheck[a]
           /\ call'[c].phase = "recheck" /\ call'[c].attempt = attempts + 1
           /\ \A d \in Call \ {c} : call'[d] = call[d]
  <1>1. call[c] \in CallRecord /\ call[c].phase = "attempt"
    BY DEF TypeOK, CreateAttempt, At
  <1>2. call[c].attempt = attempts
    <2>1. call[c].attempt <= attempts
      BY <1>1 DEF RecheckOK
    <2>2. call[c].attempt \in Nat /\ attempts \in Nat
      BY <1>1, ContractAssumption DEF CallRecord, TypeOK
    <2>3. QED
      BY <2>1, <2>2
  <1>3. /\ attempts + 1 \in Attempt /\ attempts' = attempts + 1
        /\ recheck' = [recheck EXCEPT ![attempts + 1] =
                          [status |-> "RUNNING", started |-> call[c].since,
                           expires |-> 0]]
    BY <1>2 DEF CreateAttempt
  <1>4. /\ recheck'[attempts + 1].status = "RUNNING"
        /\ recheck'[attempts + 1].started = call[c].since
        /\ \A a \in Attempt : a # attempts + 1 => recheck'[a] = recheck[a]
    BY <1>3 DEF TypeOK
  <1> DEFINE w == [call[c] EXCEPT !.phase = "recheck", !.attempt = attempts + 1]
  <1>5. call' = [call EXCEPT ![c] = w]
    BY <1>2 DEF CreateAttempt
  <1>6. w.phase = "recheck" /\ w.attempt = attempts + 1
    BY <1>1 DEF CallRecord
  <1>7. call'[c] = w /\ \A d \in Call \ {c} : call'[d] = call[d]
    BY <1>5, OneCallMoves
  <1>8. QED
    BY <1>2, <1>3, <1>4, <1>6, <1>7

\* A row is ended by the call that runs it.
LEMMA RowEnded ==
    ASSUME TypeOK, RecheckOK, NEW c \in Call, RecordRecheck(c)
    PROVE  LET a == call[c].attempt IN
           /\ a \in 1..attempts /\ attempts' = attempts
           /\ recheck[a].status = "RUNNING"
           /\ recheck'[a].status \in {"PASSED", "BLOCKED", "FAILED"}
           /\ recheck'[a].started = recheck[a].started
           /\ recheck'[a].expires >= call[c].since
           /\ \A b \in Attempt : b # a => recheck'[b] = recheck[b]
           /\ call[c].phase = "recheck" /\ call'[c].phase # "recheck"
           /\ call'[c].phase # "attempt"
           /\ \A d \in Call \ {c} : call'[d] = call[d]
  <1> DEFINE a == call[c].attempt
  <1>1. call[c] \in CallRecord /\ call[c].phase = "recheck"
    BY DEF TypeOK, RecordRecheck, At
  <1>2. a \in 1..attempts /\ recheck[a].status = "RUNNING"
    BY <1>1 DEF RecheckOK
  <1>3. PICK outcome \in {"PASSED", "BLOCKED", "FAILED"},
             expires \in Validity(c) :
           /\ recheck' = [recheck EXCEPT ![a].status = outcome,
                                         ![a].expires = expires]
           /\ Proceed(c, GoesOn(c, outcome), "claim")
    BY DEF RecordRecheck
  <1>4. a \in Attempt /\ expires >= call[c].since
    BY <1>1, <1>2, <1>3, ContractAssumption DEF Attempt, TypeOK, CallRecord, Validity
  <1>5. /\ recheck'[a].status = outcome /\ recheck'[a].expires = expires
        /\ recheck'[a].started = recheck[a].started
        /\ \A b \in Attempt : b # a => recheck'[b] = recheck[b]
    BY <1>3, <1>4 DEF TypeOK, RecheckRow
  <1>6. call'[c].phase \in {"idle", "claim"}
        /\ \A d \in Call \ {c} : call'[d] = call[d]
    BY <1>3, GotoMoves, ReturnMoves DEF Proceed
  <1>7. attempts' = attempts
    BY DEF RecordRecheck
  <1>8. QED
    BY <1>1, <1>2, <1>3, <1>4, <1>5, <1>6, <1>7

\* A pass stays a pass.
LEMMA PassStays ==
    ASSUME TypeOK, RecheckOK, [Next]_vars, NEW a \in Attempt,
           recheck[a].status = "PASSED"
    PROVE  recheck'[a] = recheck[a]
  <1>1. a <= attempts
    BY DEF RecheckOK, TypeOK, Attempt
  <1>2. CASE UNCHANGED safety
    BY <1>2 DEF safety
  <1>3. ASSUME NEW c \in Call, CreateAttempt(c) PROVE recheck'[a] = recheck[a]
    <2>1. CASE attempts < call[c].attempt + 1
      BY <1>1, <1>3, <2>1, RowMade DEF TypeOK, Attempt
    <2>2. CASE ~(attempts < call[c].attempt + 1)
      BY <1>3, <2>2 DEF CreateAttempt, safety
    <2>3. QED
      BY <2>1, <2>2
  <1>4. ASSUME NEW c \in Call, RecordRecheck(c) PROVE recheck'[a] = recheck[a]
    BY <1>4, RowEnded
  <1>5. QED
    BY <1>2, <1>3, <1>4, RecheckWriters

RestsOnPass(c) ==
    call[c].phase \in SigningPhase \cup {"claim"} =>
        LET a == call[c].attempt IN
        /\ a \in Attempt
        /\ recheck[a].status = "PASSED"
        /\ recheck[a].expires >= call[c].since

LEMMA RecheckStep ==
    TypeOK /\ WebhookOK /\ ClaimInv /\ RecheckInv /\ [Next]_vars => RecheckInv'
  <1> SUFFICES ASSUME TypeOK, WebhookOK, ClaimInv, RecheckInv, [Next]_vars
               PROVE  RecheckInv'
    OBVIOUS
  <1>0. RecheckOK /\ RunningRechecksApart
    BY DEF RecheckInv
  <1>1. RecheckOK' /\ RunningRechecksApart'
    <2>1. CASE UNCHANGED safety
      <3>1. ASSUME NEW d \in Call, call'[d].phase = "recheck"
            PROVE  call'[d] = call[d]
        <4>1. CASE call'[d] # call[d]
          <5>1. PICK c \in Call : SignNext(c) \/ RecheckNext(c)
                                  \/ WebhookNext(c) \/ Crash(c)
            BY <4>1, NextSteps, QuietMoves
          <5>2. c = d
            BY <4>1, <5>1, SignMoves, RecheckMoves, WebhookMoves, CrashMoves
          <5>3. RecheckNext(d) /\ call[d].phase = "attempt"
                /\ attempts < call[d].attempt + 1
            BY <3>1, <5>1, <5>2, SignMoves, RecheckMoves, WebhookMoves, CrashMoves
          <5>4. CreateAttempt(d)
            BY <5>3 DEF RecheckNext, ReceiveRecheck, CheckContract, ReadLatest,
                        RecordRecheck, Start, Idle, At
          <5>5. attempts' = attempts + 1 /\ attempts' = attempts
            BY <1>0, <2>1, <5>3, <5>4, RowMade DEF safety
          <5>6. QED
            BY <5>5 DEF TypeOK
        <4>2. QED
          BY <4>1
      <3>2. ASSUME NEW d \in Call, call'[d].phase = "attempt"
            PROVE  LET a == call'[d].attempt IN
                   /\ a <= attempts
                   /\ a = attempts /\ a > 0 /\ recheck[a].status = "RUNNING" =>
                        call'[d].since - recheck[a].started >= RunningTimeout
        <4>1. CASE call'[d] = call[d]
          BY <1>0, <3>2, <4>1 DEF RecheckOK
        <4>2. CASE call'[d] # call[d]
          <5>1. PICK c \in Call : SignNext(c) \/ RecheckNext(c)
                                  \/ WebhookNext(c) \/ Crash(c)
            BY <4>2, NextSteps, QuietMoves
          <5>2. c = d
            BY <4>2, <5>1, SignMoves, RecheckMoves, WebhookMoves, CrashMoves
          <5>3. /\ call'[d].attempt = attempts /\ call'[d].since = call[d].since
                /\ attempts > 0 => ~UnderWay(recheck[attempts], call[d].since)
            BY <3>2, <5>1, <5>2, SignMoves, RecheckMoves, WebhookMoves, CrashMoves
          <5>4. attempts > 0 => /\ recheck[attempts].started \in Nat
                                /\ call[d].since \in Nat
            BY ContractAssumption DEF TypeOK, Attempt, RecheckRow, CallRecord
          <5>5. QED
            BY <5>3, <5>4, ContractAssumption DEF UnderWay, TypeOK
        <4>3. QED
          BY <4>1, <4>2
      <3>3. QED
        BY <1>0, <2>1, <3>1, <3>2 DEF safety, RecheckOK, RunningRechecksApart
    <2>2. ASSUME NEW c \in Call, CreateAttempt(c), attempts < call[c].attempt + 1
          PROVE  RecheckOK' /\ RunningRechecksApart'
      <3> DEFINE n == attempts + 1
      <3>1. /\ call[c].attempt = attempts
            /\ attempts' = n /\ n \in Attempt
            /\ recheck'[n].status = "RUNNING"
            /\ recheck'[n].started = call[c].since
            /\ \A a \in Attempt : a # n => recheck'[a] = recheck[a]
            /\ call'[c].phase = "recheck" /\ call'[c].attempt = n
            /\ \A d \in Call \ {c} : call'[d] = call[d]
        BY <1>0, <2>2, RowMade
      <3>2. call[c].phase = "attempt" /\ attempts \in Nat /\ Attempt \subseteq Nat
        BY <2>2 DEF CreateAttempt, At, TypeOK, Attempt
      <3>3. \A a \in Attempt : a > attempts' => recheck'[a].status = "NONE"
        BY <1>0, <3>1, <3>2 DEF RecheckOK
      <3>4. ASSUME NEW d \in Call, call'[d].phase = "recheck"
            PROVE  LET a == call'[d].attempt IN
                   /\ a \in 1..attempts' /\ recheck'[a].status = "RUNNING"
                   /\ \A e \in Call \ {d} : call'[e].phase = "recheck" =>
                         call'[e].attempt # a
        <4>1. \A e \in Call \ {c} : call'[e].phase = "recheck" =>
                 /\ call'[e].attempt \in 1..attempts
                 /\ recheck[call'[e].attempt].status = "RUNNING"
                 /\ \A f \in Call \ {e, c} : call'[f].phase = "recheck" =>
                       call'[f].attempt # call'[e].attempt
          BY <1>0, <3>1 DEF RecheckOK
        <4>2. 1..attempts \subseteq Attempt \ {n} /\ 1..attempts \subseteq 1..n
              /\ n \in 1..n
          BY <3>1, <3>2, ContractAssumption DEF Attempt
        <4>3. CASE d = c
          BY <3>1, <4>1, <4>2, <4>3
        <4>4. CASE d # c
          BY <3>1, <3>4, <4>1, <4>2, <4>4
        <4>5. QED
          BY <4>3, <4>4
      <3>5. ASSUME NEW d \in Call, call'[d].phase = "attempt"
            PROVE  call'[d].attempt <= attempts /\ call'[d].attempt # attempts'
        <4>1. d # c /\ call'[d] = call[d]
          BY <3>1, <3>5
        <4>2. call[d].attempt <= attempts /\ call[d].attempt \in Nat
          BY <1>0, <3>5, <4>1 DEF RecheckOK, TypeOK, CallRecord
        <4>3. QED
          BY <3>1, <3>2, <4>1, <4>2
      <3>6. ASSUME NEW a \in 1..attempts', NEW b \in 1..attempts', b = a + 1,
                   recheck'[a].status = "RUNNING"
            PROVE  recheck'[b].started - recheck'[a].started >= RunningTimeout
        <4>1. a \in Attempt /\ b \in Attempt /\ a # n /\ a \in 1..attempts
          BY <3>1, <3>2, <3>6, ContractAssumption DEF Attempt
        <4>2. CASE b = n
          BY <1>0, <3>1, <3>2, <3>6, <4>1, <4>2 DEF RecheckOK
        <4>3. CASE b # n
          BY <1>0, <3>1, <3>2, <3>6, <4>1, <4>3 DEF RunningRechecksApart
        <4>4. QED
          BY <4>2, <4>3
      <3>7. RunningRechecksApart'
        BY <3>6 DEF RunningRechecksApart
      <3>8. attempts <= attempts'
        BY <3>1, <3>2
      <3>9. \A d \in Call : call'[d].phase = "attempt" =>
               call'[d].attempt <= attempts' /\ call'[d].attempt # attempts'
        <4>1. \A d \in Call : call'[d].phase = "attempt" =>
                 call'[d].attempt \in Nat
          BY TypeStep DEF TypeOK, CallRecord
        <4>2. QED
          BY <3>1, <3>2, <3>5, <4>1
      <3>10. QED
        BY <3>3, <3>4, <3>7, <3>9 DEF RecheckOK
    <2>3. ASSUME NEW c \in Call, RecordRecheck(c)
          PROVE  RecheckOK' /\ RunningRechecksApart'
      <3> DEFINE r == call[c].attempt
      <3>1. /\ r \in 1..attempts /\ attempts' = attempts
            /\ recheck'[r].status \in {"PASSED", "BLOCKED", "FAILED"}
            /\ recheck'[r].started = recheck[r].started
            /\ \A b \in Attempt : b # r => recheck'[b] = recheck[b]
            /\ call[c].phase = "recheck" /\ call'[c].phase # "recheck"
            /\ call'[c].phase # "attempt"
            /\ \A d \in Call \ {c} : call'[d] = call[d]
        BY <1>0, <2>3, RowEnded
      <3> HIDE DEF r
      <3>2. 1..attempts \subseteq Attempt /\ attempts \in Nat
        BY ContractAssumption DEF Attempt, TypeOK
      <3>3. \A a \in Attempt : recheck'[a].status = "RUNNING" =>
               recheck'[a] = recheck[a]
        BY <3>1
      <3>4. \A a \in Attempt : recheck'[a].started = recheck[a].started
        BY <3>1
      <3>5. \A d \in Call : call'[d].phase = "recheck" =>
               d # c /\ call'[d] = call[d] /\ call[d].attempt # r
        BY <1>0, <3>1 DEF RecheckOK, r
      <3>6. \A d \in Call : call'[d].phase = "attempt" => call'[d] = call[d]
        BY <3>1
      <3>7. RunningRechecksApart'
        BY <1>0, <3>1, <3>2, <3>3, <3>4 DEF RunningRechecksApart
      <3>8. \A a \in Attempt : a > attempts' => recheck'[a].status = "NONE"
        BY <1>0, <3>1, <3>2 DEF RecheckOK, Attempt
      <3>9. \A d \in Call : call'[d].phase = "recheck" =>
               LET a == call'[d].attempt IN
               /\ a \in 1..attempts' /\ recheck'[a].status = "RUNNING"
               /\ \A e \in Call \ {d} : call'[e].phase = "recheck" =>
                     call'[e].attempt # a
        BY <1>0, <3>1, <3>2, <3>5 DEF RecheckOK
      <3>10. \A d \in Call : call'[d].phase = "attempt" =>
               LET a == call'[d].attempt IN
               /\ a <= attempts'
               /\ a = attempts' /\ a > 0 /\ recheck'[a].status = "RUNNING" =>
                    call'[d].since - recheck'[a].started >= RunningTimeout
        BY <1>0, <3>1, <3>2, <3>3, <3>6 DEF RecheckOK, Attempt
      <3>11. QED
        BY <3>7, <3>8, <3>9, <3>10 DEF RecheckOK
    <2>4. ASSUME NEW c \in Call, CreateAttempt(c), ~(attempts < call[c].attempt + 1)
          PROVE  UNCHANGED safety
      BY <2>4 DEF CreateAttempt
    <2>5. QED
      BY <2>1, <2>2, <2>3, <2>4, RecheckWriters
  <1>2. jeonse' = jeonse
    BY NextSteps DEF SignNext, ReceiveCreate, CommitCreate, ReceiveSign,
       ReadContract, Claim, CallSession, BindSession, FailSession, RecheckNext,
       ReceiveRecheck, CheckContract, ReadLatest, CreateAttempt, RecordRecheck,
       WebhookNext, ReceiveWebhook, StoreEvent, RetakeEvent, Process,
       IgnoreEvent, RefuseEvent, ApplyEvent, LoseApply, ReleaseEvent, Crash,
       ProviderReports, Tick, vars
  <1>3. CheckedBeforeSigning'
    <2> SUFFICES ASSUME jeonse
                 PROVE  /\ status' \notin {"NONE", "DRAFT"} =>
                             \E a \in Attempt : recheck'[a].status = "PASSED"
                        /\ \A d \in Call : RestsOnPass(d)'
      BY <1>2 DEF CheckedBeforeSigning, RestsOnPass
    <2>0. /\ status \notin {"NONE", "DRAFT"} =>
                \E a \in Attempt : recheck[a].status = "PASSED"
          /\ \A d \in Call : RestsOnPass(d)
      BY DEF RecheckInv, CheckedBeforeSigning, RestsOnPass
    <2>1. \A a \in Attempt :
             recheck[a].status = "PASSED" => recheck'[a] = recheck[a]
      BY <1>0, PassStays
    <2>2. ASSUME NEW d \in Call PROVE RestsOnPass(d)'
      <3>1. CASE call'[d] = call[d]
        BY <2>0, <2>1, <3>1 DEF RestsOnPass
      <3>2. CASE call'[d] # call[d]
        <4>1. PICK c \in Call : SignNext(c) \/ RecheckNext(c) \/ WebhookNext(c)
                                \/ Crash(c)
          BY <3>2, NextSteps, QuietMoves
        <4>2. d = c
          BY <3>2, <4>1, SignMoves, RecheckMoves, WebhookMoves, CrashMoves
        <4>3. CASE SignNext(d)
          <5>1. CASE call'[d].phase \in SigningPhase \cup {"claim"}
            <6>1. /\ call[d].phase \in {"claim", "session"}
                  /\ call'[d].since = call[d].since
                  /\ call'[d].attempt = call[d].attempt
              BY <4>3, <5>1, SignMoves DEF SigningPhase
            <6>2. QED
              BY <2>0, <2>1, <6>1 DEF RestsOnPass, SigningPhase
          <5>2. QED
            BY <5>1 DEF RestsOnPass
        <4>4. CASE RecheckNext(d)
          <5>1. CASE call'[d].phase = "claim" /\ call[d].phase = "latest"
            <6>1. /\ call'[d].attempt = attempts /\ attempts > 0
                  /\ call'[d].since = call[d].since
                  /\ Reusable(recheck[attempts], call[d].since)
              BY <4>4, <5>1, RecheckMoves
            <6>2. attempts \in Attempt
              BY <6>1, ContractAssumption DEF TypeOK, Attempt
            <6>3. recheck[attempts].expires \in Int /\ call[d].since \in Int
              BY <6>2, ContractAssumption DEF TypeOK, RecheckRow, CallRecord
            <6>4. recheck'[attempts] = recheck[attempts]
              BY <2>1, <6>1, <6>2 DEF Reusable
            <6>5. QED
              BY <6>1, <6>2, <6>3, <6>4 DEF RestsOnPass, Reusable
          <5>2. CASE call'[d].phase = "claim" /\ call[d].phase = "recheck"
            <6>1. RecordRecheck(d)
              <7>1. call[d] # Idle
                BY <5>2 DEF Idle
              <7>2. QED
                BY <4>4, <5>2, <7>1 DEF RecheckNext, ReceiveRecheck,
                   CheckContract, ReadLatest, CreateAttempt, Start, At
            <6>2. /\ call[d].attempt \in 1..attempts
                  /\ recheck'[call[d].attempt].expires >= call[d].since
              BY <1>0, <6>1, RowEnded
            <6>3. call[d].attempt \in Attempt
              BY <6>2, ContractAssumption DEF TypeOK, Attempt
            <6>4. /\ call'[d].attempt = call[d].attempt
                  /\ call'[d].since = call[d].since
                  /\ GoesOn(d, recheck'[call[d].attempt].status)
              BY <4>4, <5>2, <6>3, RecheckMoves
            <6>5. QED
              BY <6>2, <6>3, <6>4 DEF RestsOnPass, GoesOn
          <5>3. call'[d].phase = "claim" =>
                   call[d].phase \in {"latest", "recheck"}
            BY <4>4, RecheckMoves
          <5>4. call'[d].phase \notin SigningPhase
            BY <4>4, RecheckMoves DEF SigningPhase
          <5>5. QED
            BY <5>1, <5>2, <5>3, <5>4 DEF RestsOnPass
        <4>5. CASE WebhookNext(d) \/ Crash(d)
          BY <4>5, WebhookMoves, CrashMoves DEF RestsOnPass, SigningPhase
        <4>6. QED
          BY <4>1, <4>2, <4>3, <4>4, <4>5
      <3>3. QED
        BY <3>1, <3>2
    <2>3. ASSUME status' \notin {"NONE", "DRAFT"}
          PROVE  \E a \in Attempt : recheck'[a].status = "PASSED"
      <3>1. CASE status \notin {"NONE", "DRAFT"}
        BY <2>0, <2>1, <3>1
      <3>2. CASE status \in {"NONE", "DRAFT"}
        <4>1. PICK c \in Call : Claim(c) \/ FailSession(c) \/ ApplyEvent(c)
          BY <2>3, <3>2, StatusWriters
        <4>2. ~FailSession(c)
          BY <3>2 DEF FailSession, At, ClaimInv, CallOK, SigningPhase
        <4>3. ~ApplyEvent(c)
          BY <3>2 DEF ApplyEvent, At, ClaimInv, CallOK, BoundOK
        <4>4. call[c].phase = "claim"
          BY <4>1, <4>2, <4>3 DEF Claim, At
        <4>5. QED
          BY <2>0, <2>1, <4>4 DEF RestsOnPass
      <3>3. QED
        BY <3>1, <3>2
    <2>4. QED
      BY <2>2, <2>3
  <1>4. QED
    BY <1>1, <1>3 DEF RecheckInv

LEMMA InitRecheck == Init => RecheckInv
  <1> SUFFICES ASSUME Init PROVE RecheckInv
    OBVIOUS
  <1>1. \A c \in Call : call[c].phase = "idle"
    BY DEF Init, Idle
  <1>2. RecheckOK
    BY <1>1 DEF Init, RecheckOK, NoRecheck
  <1>3. RunningRechecksApart
    BY DEF Init, RunningRechecksApart
  <1>4. CheckedBeforeSigning
    BY <1>1 DEF Init, CheckedBeforeSigning, SigningPhase
  <1>5. QED
    BY <1>2, <1>3, <1>4 DEF RecheckInv

LEMMA RecheckInvariant == Spec => [](TypeOK /\ WebhookOK /\ ClaimInv /\ RecheckInv)
  BY InitType, InitWebhook, InitClaim, InitRecheck, TypeStep, WebhookStep,
     ClaimStep, RecheckStep, PTL DEF Spec

\* No JEONSE contract is signed without a recheck that passed.
THEOREM SigningRestsOnAPass == Spec => []CheckedBeforeSigning
  <1>1. RecheckInv => CheckedBeforeSigning
    BY DEF RecheckInv
  <1>2. QED
    BY <1>1, RecheckInvariant, PTL

\* Two rechecks run side by side only when the older one timed out.
THEOREM RechecksRunApart == Spec => []RunningRechecksApart
  <1>1. RecheckInv => RunningRechecksApart
    BY DEF RecheckInv
  <1>2. QED
    BY <1>1, RecheckInvariant, PTL

-----------------------------------------------------------------------------
(* The parties *)

\* Only a webhook that is applied writes the parties' rows.
LEMMA PartyWriters ==
    ASSUME [Next]_vars, party' # party
    PROVE  \E c \in Call : ApplyEvent(c)
  <1>1. ASSUME NEW c \in Call, SignNext(c) \/ RecheckNext(c)
        PROVE  party' = party
    BY <1>1 DEF SignNext, ReceiveCreate, CommitCreate, ReceiveSign,
       ReadContract, Claim, CallSession, BindSession, FailSession, RecheckNext,
       ReceiveRecheck, CheckContract, ReadLatest, CreateAttempt, RecordRecheck,
       books
  <1>2. ASSUME NEW c \in Call, WebhookNext(c), ~ApplyEvent(c)
        PROVE  party' = party
    BY <1>2 DEF WebhookNext, ReceiveWebhook, StoreEvent, RetakeEvent, Process,
       IgnoreEvent, RefuseEvent, LoseApply, ReleaseEvent, books
  <1>3. QED
    BY <1>1, <1>2, NextSteps DEF Crash, ProviderReports, Tick, vars, books

\* In whatever order reports are applied, nobody who has signed or declined is
\* taken back, and nobody who has looked goes back to not having looked.
THEOREM PartiesGoForward == Spec => PartiesOnlyForward
  <1>1. TypeOK /\ [Next]_vars =>
           [\A r \in Role :
               \/ party'[r] = party[r]
               \/ party[r] = "PENDING"
               \/ party[r] = "VIEWED" /\ party'[r] \in {"SIGNED", "DECLINED"}]_vars
    <2> SUFFICES ASSUME TypeOK, [Next]_vars, NEW r \in Role,
                        party'[r] # party[r], party[r] # "PENDING"
                 PROVE  /\ party[r] = "VIEWED"
                        /\ party'[r] \in {"SIGNED", "DECLINED"}
      OBVIOUS
    <2>1. PICK c \in Call : ApplyEvent(c)
      BY PartyWriters
    <2>2. PICK new : party'[r] = PartyAfter(party[r], new)
      BY <2>1 DEF ApplyEvent
    <2>3. QED
      BY <2>2 DEF PartyAfter
  <1>2. QED
    BY <1>1, TypeCorrect, PTL DEF Spec, PartiesOnlyForward

-----------------------------------------------------------------------------
(* Webhook events *)

HandlerInv == HandlerOK /\ AppliedOnce

\* A step that leaves the events alone and brings no call to a handling.
LEMMA HandlerStays ==
    ASSUME TypeOK, HandlerInv, NEW c \in Call,
           \A d \in Call \ {c} : call'[d] = call[d],
           call'[c].phase \in Handling =>
              /\ call[c].phase \in Handling
              /\ call'[c].transmission = call[c].transmission,
           call'[c].phase = "retake" => call'[c].transmission \in failed,
           UNCHANGED <<event, failed, applied, reapplied>>
    PROVE  HandlerInv'
  BY DEF HandlerInv, HandlerOK, AppliedOnce

\* A handling of t that ends: the event is settled, or t counts as failed.
LEMMA HandlerEnds ==
    ASSUME TypeOK, HandlerInv, NEW c \in Call, Return(c),
           NEW t \in Transmission, t = call[c].transmission,
           call[c].phase \in Handling,
           \A u \in Transmission \ {t} : event'[u] = event[u],
           \/ /\ failed' = failed
              /\ event'[t] \in {"PROCESSED", "IGNORED"}
           \/ failed' = failed \cup {t},
           applied' \subseteq applied \cup {t},
           reapplied' = reapplied
              \/ (t \in applied /\ reapplied' = reapplied \cup {t})
    PROVE  HandlerInv'
  <1>1. /\ \A d \in Call \ {c} : call'[d] = call[d]
        /\ call'[c].phase = "idle"
    BY ReturnMoves
  <1>2. t \notin failed =>
           /\ t \notin applied
           /\ \A d \in Call \ {c} :
                 call[d].transmission = t => call[d].phase \notin Handling
    BY DEF HandlerInv, HandlerOK
  <1>3. \A u \in Transmission : event'[u] = "FAILED" => u \in failed'
    BY DEF HandlerInv, HandlerOK
  <1>4. ASSUME NEW u \in Transmission \ failed', u # t
        PROVE  /\ u \in applied' => event'[u] # "NONE"
               /\ \A d \in Call : call'[d].transmission = u =>
                     /\ call'[d].phase # "retake"
                     /\ call'[d].phase \in Handling =>
                           /\ event'[u] = "RECEIVED"
                           /\ u \notin applied'
                           /\ \A e \in Call \ {d} : call'[e].transmission = u =>
                                 call'[e].phase \notin Handling
    BY <1>1, <1>4 DEF HandlerInv, HandlerOK, Handling
  <1>5. ASSUME t \notin failed'
        PROVE  /\ t \in applied' => event'[t] # "NONE"
               /\ \A d \in Call : call'[d].transmission = t =>
                     /\ call'[d].phase # "retake"
                     /\ call'[d].phase \notin Handling
    BY <1>1, <1>2, <1>5 DEF HandlerInv, HandlerOK, Handling
  <1>6. HandlerOK'
    BY <1>3, <1>4, <1>5 DEF HandlerOK
  <1>7. AppliedOnce'
    BY <1>2 DEF HandlerInv, AppliedOnce
  <1>8. QED
    BY <1>6, <1>7 DEF HandlerInv

LEMMA HandlerWebhook ==
    ASSUME TypeOK, WebhookOK, HandlerInv, NEW c \in Call, WebhookNext(c)
    PROVE  HandlerInv'
  <1>0. PICK t : t = call[c].transmission
    OBVIOUS
  <1>1. ASSUME NEW u \in Transmission, ReceiveWebhook(c, u)
        PROVE  HandlerInv'
    <2> DEFINE w == [Idle EXCEPT !.op = "webhook", !.transmission = u,
                        !.phase = IF event[u] = "NONE" THEN "store"
                                  ELSE "retake"]
    <2>1. /\ call' = [call EXCEPT ![c] = w]
          /\ event[u] # "NONE" => u \in failed
          /\ UNCHANGED <<event, failed, applied, reapplied>>
      BY <1>1 DEF ReceiveWebhook, webhooks, HandlerInv, HandlerOK
    <2>2. /\ w.transmission = u /\ w.phase \in {"store", "retake"}
          /\ w.phase = "retake" => event[u] # "NONE"
      BY DEF Idle
    <2> HIDE DEF w
    <2>3. call'[c] = w /\ \A d \in Call \ {c} : call'[d] = call[d]
      BY <2>1, OneCallMoves
    <2>4. QED
      BY <2>1, <2>2, <2>3, HandlerStays DEF Handling
  <1>2. CASE StoreEvent(c)
    <2>1. CASE ~EventIsNew(c)
      <3>1. Return(c) /\ UNCHANGED <<event, failed, applied, reapplied>>
        BY <1>2, <2>1 DEF StoreEvent, Proceed
      <3>2. QED
        BY <3>1, ReturnMoves, HandlerStays DEF Handling
    <2>2. CASE EventIsNew(c)
      <3>1. /\ t \in Transmission /\ event[t] = "NONE"
            /\ event' = [event EXCEPT ![t] = "RECEIVED"]
            /\ Goto(c, "process")
            /\ UNCHANGED <<failed, applied, reapplied>>
            /\ call[c].phase = "store"
        BY <1>0, <1>2, <2>2
        DEF StoreEvent, EventIsNew, Proceed, WebhookOK, At
      <3>2. /\ \A d \in Call \ {c} : call'[d] = call[d]
            /\ call'[c].phase = "process" /\ call'[c].transmission = t
        BY <1>0, <3>1, GotoMoves
      <3>3. /\ event'[t] = "RECEIVED"
            /\ \A u \in Transmission \ {t} : event'[u] = event[u]
        BY <3>1 DEF TypeOK
      <3>4. t \notin failed =>
               /\ t \notin applied
               /\ \A d \in Call : call[d].transmission = t =>
                     call[d].phase \notin Handling
        BY <3>1 DEF HandlerInv, HandlerOK
      <3>5. HandlerOK'
        BY <3>1, <3>2, <3>3, <3>4 DEF HandlerInv, HandlerOK
      <3>6. QED
        BY <3>1, <3>5 DEF HandlerInv, AppliedOnce
    <2>3. QED
      BY <2>1, <2>2
  <1>3. CASE RetakeEvent(c)
    <2>1. /\ t \in Transmission
          /\ event' = [event EXCEPT ![t] = "RECEIVED"]
          /\ Goto(c, "process")
          /\ UNCHANGED <<failed, applied, reapplied>>
          /\ call[c].phase = "retake"
      BY <1>0, <1>3 DEF RetakeEvent, WebhookOK, At
    <2>2. t \in failed
      BY <1>0, <2>1 DEF HandlerInv, HandlerOK
    <2>3. /\ \A d \in Call \ {c} : call'[d] = call[d]
          /\ call'[c].phase = "process" /\ call'[c].transmission = t
      BY <1>0, <2>1, GotoMoves
    <2>4. \A u \in Transmission \ {t} : event'[u] = event[u]
      BY <2>1 DEF TypeOK
    <2>5. HandlerOK'
      BY <2>1, <2>2, <2>3, <2>4 DEF HandlerInv, HandlerOK
    <2>6. QED
      BY <2>1, <2>5 DEF HandlerInv, AppliedOnce
  <1>4. CASE Process(c) \/ LoseApply(c)
    <2>1. UNCHANGED <<event, failed, applied, reapplied>>
      BY <1>4 DEF Process, LoseApply, webhooks
    <2>2. call[c].phase \in {"process", "apply"}
      BY <1>4 DEF Process, LoseApply, At
    <2>3. /\ call'[c].phase \in Handling
          /\ call'[c].transmission = call[c].transmission
          /\ \A d \in Call \ {c} : call'[d] = call[d]
      <3>1. CASE Process(c)
        <4> DEFINE p == IF ~(bound /\ CanTransition(status, says[t].status))
                        THEN "ignore"
                        ELSE IF says[t].status = "SIGNED" /\ ~says[t].document
                        THEN "refuse" ELSE "apply"
                   w == [call[c] EXCEPT !.read = status, !.phase = p]
        <4>1. call' = [call EXCEPT ![c] = w]
          BY <1>0, <3>1 DEF Process
        <4>2. w.phase \in Handling /\ w.transmission = call[c].transmission
          BY DEF TypeOK, CallRecord, Handling
        <4> HIDE DEF w
        <4>3. QED
          BY <4>1, <4>2, OneCallMoves
      <3>2. CASE LoseApply(c)
        BY <3>2, GotoMoves DEF LoseApply, Handling
      <3>3. QED
        BY <1>4, <3>1, <3>2
    <2>4. QED
      BY <2>1, <2>2, <2>3, HandlerStays DEF Handling
  <1>5. CASE IgnoreEvent(c) \/ RefuseEvent(c) \/ ReleaseEvent(c) \/ ApplyEvent(c)
    <2>1. t \in Transmission /\ call[c].phase \in Handling /\ Return(c)
      BY <1>0, <1>5
      DEF IgnoreEvent, RefuseEvent, ReleaseEvent, ApplyEvent, At, WebhookOK,
          Handling
    <2>2. CASE IgnoreEvent(c)
      <3>1. /\ event' = [event EXCEPT ![t] = "IGNORED"]
            /\ UNCHANGED <<failed, applied, reapplied>>
        BY <1>0, <2>2 DEF IgnoreEvent
      <3>2. /\ event'[t] = "IGNORED"
            /\ \A u \in Transmission \ {t} : event'[u] = event[u]
        BY <2>1, <3>1 DEF TypeOK
      <3>3. QED
        BY <1>0, <2>1, <3>1, <3>2, HandlerEnds
    <2>3. CASE RefuseEvent(c)
      <3>1. /\ event' = [event EXCEPT ![t] = "FAILED"]
            /\ failed' = failed \cup {t}
            /\ UNCHANGED <<applied, reapplied>>
        BY <1>0, <2>3 DEF RefuseEvent
      <3>2. \A u \in Transmission \ {t} : event'[u] = event[u]
        BY <2>1, <3>1 DEF TypeOK
      <3>3. QED
        BY <1>0, <2>1, <3>1, <3>2, HandlerEnds
    <2>4. CASE ReleaseEvent(c)
      <3>1. /\ event' = [event EXCEPT ![t] = "FAILED"] \/ event' = event
            /\ failed' = failed \cup {t}
            /\ UNCHANGED <<applied, reapplied>>
        BY <1>0, <2>4 DEF ReleaseEvent
      <3>2. \A u \in Transmission \ {t} : event'[u] = event[u]
        BY <2>1, <3>1 DEF TypeOK
      <3>3. QED
        BY <1>0, <2>1, <3>1, <3>2, HandlerEnds
    <2>5. CASE ApplyEvent(c)
      <3>1. /\ event' = [event EXCEPT ![t] = "PROCESSED"]
            /\ failed' = failed
            /\ applied' = applied \cup {t}
            /\ reapplied' = reapplied
                  \/ (t \in applied /\ reapplied' = reapplied \cup {t})
        BY <1>0, <2>5 DEF ApplyEvent
      <3>2. /\ event'[t] = "PROCESSED"
            /\ \A u \in Transmission \ {t} : event'[u] = event[u]
        BY <2>1, <3>1 DEF TypeOK
      <3>3. QED
        BY <1>0, <2>1, <3>1, <3>2, HandlerEnds
    <2>6. QED
      BY <1>5, <2>2, <2>3, <2>4, <2>5
  <1>6. QED
    BY <1>1, <1>2, <1>3, <1>4, <1>5 DEF WebhookNext

LEMMA HandlerStep ==
    TypeOK /\ WebhookOK /\ HandlerInv /\ [Next]_vars => HandlerInv'
  <1> SUFFICES ASSUME TypeOK, WebhookOK, HandlerInv, [Next]_vars
               PROVE  HandlerInv'
    OBVIOUS
  <1>1. ASSUME NEW c \in Call, SignNext(c) PROVE HandlerInv'
    <2>1. UNCHANGED <<event, failed, applied, reapplied>>
      BY <1>1 DEF SignNext, ReceiveCreate, CommitCreate, ReceiveSign,
         ReadContract, Claim, CallSession, BindSession, FailSession, webhooks
    <2>2. /\ \A d \in Call \ {c} : call'[d] = call[d]
          /\ call'[c].phase \notin Handling \cup {"retake"}
      BY <1>1, SignMoves DEF Handling
    <2>3. QED
      BY <2>1, <2>2, HandlerStays
  <1>2. ASSUME NEW c \in Call, RecheckNext(c) PROVE HandlerInv'
    <2>1. UNCHANGED <<event, failed, applied, reapplied>>
      BY <1>2 DEF RecheckNext, ReceiveRecheck, CheckContract, ReadLatest,
         CreateAttempt, RecordRecheck, webhooks
    <2>2. /\ \A d \in Call \ {c} : call'[d] = call[d]
          /\ call'[c].phase \notin Handling \cup {"retake"}
      BY <1>2, RecheckMoves DEF Handling
    <2>3. QED
      BY <2>1, <2>2, HandlerStays
  <1>3. ASSUME NEW c \in Call, Crash(c) PROVE HandlerInv'
    BY <1>3, CrashMoves, HandlerStays DEF Crash, webhooks, Handling
  <1>4. CASE \/ \E t \in Transmission, m \in Message : ProviderReports(t, m)
             \/ Tick \/ UNCHANGED vars
    <2>1. UNCHANGED <<event, failed, applied, reapplied, call>>
      BY <1>4 DEF ProviderReports, Tick, vars, webhooks
    <2>2. QED
      BY <2>1 DEF HandlerInv, HandlerOK, AppliedOnce
  <1>5. QED
    BY <1>1, <1>2, <1>3, <1>4, HandlerWebhook, NextSteps

LEMMA InitHandler == Init => HandlerInv
  BY DEF Init, HandlerInv, HandlerOK, AppliedOnce, Idle, Handling

LEMMA HandlerInvariant == Spec => [](TypeOK /\ WebhookOK /\ HandlerInv)
  BY InitType, InitWebhook, InitHandler, TypeStep, WebhookStep, HandlerStep, PTL
     DEF Spec

\* Any number of deliveries of a transmission lead to one change of the
\* contract, until a handling of it fails.
THEOREM TransmissionsApplyOnce == Spec => []AppliedOnce
  <1>1. HandlerInv => AppliedOnce
    BY DEF HandlerInv
  <1>2. QED
    BY <1>1, HandlerInvariant, PTL

-----------------------------------------------------------------------------
(* Final states *)

QuietInv == ProviderOK /\ QuietOK /\ FinalReportSticks

\* An overlap is remembered, and so is a report that came too early.
LEMMA HistoryStays ==
    ASSUME [Next]_vars
    PROVE  (raced => raced') /\ unmatched \subseteq unmatched'
  <1>1. ASSUME NEW c \in Call, SignNext(c) PROVE raced => raced'
    BY <1>1 DEF SignNext, ReceiveCreate, CommitCreate, ReceiveSign, ReadContract,
       Claim, CallSession, BindSession, FailSession, WriteStatus
  <1>2. ASSUME NEW c \in Call, SignNext(c) PROVE unmatched' = unmatched
    BY <1>2 DEF SignNext, ReceiveCreate, CommitCreate, ReceiveSign, ReadContract,
       Claim, CallSession, BindSession, FailSession, webhooks
  <1>3. ASSUME NEW c \in Call, RecheckNext(c)
        PROVE  raced' = raced /\ unmatched' = unmatched
    BY <1>3 DEF RecheckNext, ReceiveRecheck, CheckContract, ReadLatest,
       CreateAttempt, RecordRecheck, webhooks
  <1>4. ASSUME NEW c \in Call, WebhookNext(c)
        PROVE  (raced => raced') /\ unmatched \subseteq unmatched'
    <2>1. CASE ApplyEvent(c)
      BY <2>1 DEF ApplyEvent, WriteStatus
    <2>2. CASE ~ApplyEvent(c)
      <3>1. raced' = raced
        BY <1>4, <2>2 DEF WebhookNext, ReceiveWebhook, StoreEvent, RetakeEvent,
           Process, IgnoreEvent, RefuseEvent, LoseApply, ReleaseEvent
      <3>2. CASE Process(c)
        BY <3>1, <3>2 DEF Process
      <3>3. CASE ~Process(c)
        <4>1. unmatched' = unmatched
          BY <1>4, <2>2, <3>3 DEF WebhookNext, ReceiveWebhook, StoreEvent,
             RetakeEvent, IgnoreEvent, RefuseEvent, LoseApply, ReleaseEvent,
             webhooks
        <4>2. QED
          BY <3>1, <4>1
      <3>4. QED
        BY <3>2, <3>3
    <2>3. QED
      BY <2>1, <2>2
  <1>5. CASE \/ \E t \in Transmission, m \in Message : ProviderReports(t, m)
             \/ Tick \/ UNCHANGED vars \/ \E c \in Call : Crash(c)
    <2>1. raced' = raced /\ unmatched' = unmatched
      BY <1>5 DEF Crash, ProviderReports, Tick, vars, webhooks
    <2>2. QED
      BY <2>1
  <1>6. QED
    BY <1>1, <1>2, <1>3, <1>4, <1>5, NextSteps

\* The provider never leaves an end it has reached.
LEMMA SessionStays ==
    ASSUME [Next]_vars, session \in Terminal
    PROVE  session' = session
  <1>1. ASSUME NEW c \in Call, SignNext(c) PROVE session' = session
    BY <1>1 DEF SignNext, ReceiveCreate, CommitCreate, ReceiveSign, ReadContract,
       Claim, CallSession, BindSession, FailSession, provider, Terminal
  <1>2. ASSUME NEW c \in Call, RecheckNext(c) PROVE session' = session
    BY <1>2 DEF RecheckNext, ReceiveRecheck, CheckContract, ReadLatest,
       CreateAttempt, RecordRecheck, provider
  <1>3. ASSUME NEW c \in Call, WebhookNext(c) PROVE session' = session
    BY <1>3 DEF WebhookNext, ReceiveWebhook, StoreEvent, RetakeEvent, Process,
       IgnoreEvent, RefuseEvent, ApplyEvent, LoseApply, ReleaseEvent, provider
  <1>4. ASSUME NEW t \in Transmission, NEW m \in Message, ProviderReports(t, m)
        PROVE  session' = session
    <2>1. Successors(session) = {session}
      BY DEF Successors, Terminal
    <2>2. QED
      BY <1>4, <2>1 DEF ProviderReports
  <1>5. QED
    BY <1>1, <1>2, <1>3, <1>4, NextSteps DEF Crash, Tick, vars, provider

\* Who writes the status moves on.
LEMMA WritersMove ==
    ASSUME TypeOK, NEW c \in Call,
           \/ CommitCreate(c) /\ status = "NONE"
           \/ Claim(c) /\ Claimable(c)
           \/ FailSession(c) \/ ApplyEvent(c)
    PROVE  call'[c].phase # call[c].phase
  <1>1. CASE CommitCreate(c) /\ status = "NONE"
    BY <1>1, GotoMoves DEF CommitCreate, Proceed, At
  <1>2. CASE Claim(c) /\ Claimable(c)
    BY <1>2, GotoMoves DEF Claim, Proceed, At
  <1>3. CASE FailSession(c) \/ ApplyEvent(c)
    BY <1>3, ReturnMoves DEF FailSession, ApplyEvent, At
  <1>4. QED
    BY <1>1, <1>2, <1>3

\* An event is settled by the call that applies or ignores it, and touched by
\* nobody who does not handle it.
LEMMA EventWriters ==
    ASSUME TypeOK, WebhookOK, [Next]_vars,
           NEW t \in Transmission, event'[t] # event[t]
    PROVE  \E c \in Call :
              /\ t = call[c].transmission /\ says[t] \in Message
              /\ event'[t] = "PROCESSED" => ApplyEvent(c)
              /\ event'[t] = "IGNORED" => IgnoreEvent(c)
  <1>1. ASSUME NEW c \in Call, SignNext(c) PROVE event' = event
    BY <1>1 DEF SignNext, ReceiveCreate, CommitCreate, ReceiveSign, ReadContract,
       Claim, CallSession, BindSession, FailSession, webhooks
  <1>2. ASSUME NEW c \in Call, RecheckNext(c) PROVE event' = event
    BY <1>2 DEF RecheckNext, ReceiveRecheck, CheckContract, ReadLatest,
       CreateAttempt, RecordRecheck, webhooks
  <1>3. PICK c \in Call : WebhookNext(c)
    BY <1>1, <1>2, NextSteps DEF Crash, ProviderReports, Tick, vars, webhooks
  <1>4. CASE \/ \E u \in Transmission : ReceiveWebhook(c, u)
             \/ Process(c) \/ LoseApply(c)
    BY <1>4 DEF ReceiveWebhook, Process, LoseApply, webhooks
  <1>5. CASE StoreEvent(c) \/ RetakeEvent(c)
    <2>1. /\ call[c].transmission \in Transmission
          /\ says[call[c].transmission] \in Message
      BY <1>5 DEF StoreEvent, RetakeEvent, At, WebhookOK, Handling
    <2>2. \/ event' = event
          \/ event' = [event EXCEPT ![call[c].transmission] = "RECEIVED"]
      BY <1>5 DEF StoreEvent, RetakeEvent
    <2>3. t = call[c].transmission /\ event'[t] = "RECEIVED"
      BY <2>1, <2>2 DEF TypeOK
    <2>4. QED
      BY <2>1, <2>3
  <1>6. CASE RefuseEvent(c) \/ ReleaseEvent(c)
    <2>1. /\ call[c].transmission \in Transmission
          /\ says[call[c].transmission] \in Message
      BY <1>6 DEF RefuseEvent, ReleaseEvent, At, WebhookOK, Handling
    <2>2. \/ event' = event
          \/ event' = [event EXCEPT ![call[c].transmission] = "FAILED"]
      BY <1>6 DEF RefuseEvent, ReleaseEvent
    <2>3. t = call[c].transmission /\ event'[t] = "FAILED"
      BY <2>1, <2>2 DEF TypeOK
    <2>4. QED
      BY <2>1, <2>3
  <1>7. CASE IgnoreEvent(c)
    <2>1. /\ call[c].transmission \in Transmission
          /\ says[call[c].transmission] \in Message
      BY <1>7 DEF IgnoreEvent, At, WebhookOK, Handling
    <2>2. event' = [event EXCEPT ![call[c].transmission] = "IGNORED"]
      BY <1>7 DEF IgnoreEvent
    <2>3. t = call[c].transmission /\ event'[t] = "IGNORED"
      BY <2>1, <2>2 DEF TypeOK
    <2>4. QED
      BY <1>7, <2>1, <2>3
  <1>8. CASE ApplyEvent(c)
    <2>1. /\ call[c].transmission \in Transmission
          /\ says[call[c].transmission] \in Message
      BY <1>8 DEF ApplyEvent, At, WebhookOK, Handling
    <2>2. event' = [event EXCEPT ![call[c].transmission] = "PROCESSED"]
      BY <1>8 DEF ApplyEvent
    <2>3. t = call[c].transmission /\ event'[t] = "PROCESSED"
      BY <2>1, <2>2 DEF TypeOK
    <2>4. QED
      BY <1>8, <2>1, <2>3
  <1>9. QED
    BY <1>3, <1>4, <1>5, <1>6, <1>7, <1>8 DEF WebhookNext

\* The session's end and every report of an end stay in agreement.
LEMMA ProviderStep ==
    TypeOK /\ WebhookOK /\ ProviderOK /\ [Next]_vars => ProviderOK'
  <1> SUFFICES ASSUME TypeOK, WebhookOK, ProviderOK, [Next]_vars
               PROVE  ProviderOK'
    OBVIOUS
  <1>1. ASSUME NEW t \in Transmission, event'[t] # "NONE"
        PROVE  says'[t] \in Message
    <2>1. says[t] \in Message
      BY <1>1, EventWriters DEF ProviderOK
    <2>2. QED
      BY <2>1, SaysStays, ContractAssumption
  <1>2. ASSUME NEW t \in Transmission, says'[t] # None,
               says'[t].status \in Terminal
        PROVE  session' = says'[t].status
    <2>1. CASE says[t] # None
      BY <1>2, <2>1, SaysStays, SessionStays DEF ProviderOK
    <2>2. CASE says[t] = None
      <3>1. ASSUME NEW c \in Call, SignNext(c) PROVE says' = says
        BY <3>1 DEF SignNext, ReceiveCreate, CommitCreate, ReceiveSign,
           ReadContract, Claim, CallSession, BindSession, FailSession, provider
      <3>2. ASSUME NEW c \in Call, RecheckNext(c) PROVE says' = says
        BY <3>2 DEF RecheckNext, ReceiveRecheck, CheckContract, ReadLatest,
           CreateAttempt, RecordRecheck, provider
      <3>3. ASSUME NEW c \in Call, WebhookNext(c) PROVE says' = says
        BY <3>3 DEF WebhookNext, ReceiveWebhook, StoreEvent, RetakeEvent,
           Process, IgnoreEvent, RefuseEvent, ApplyEvent, LoseApply,
           ReleaseEvent, provider
      <3>4. PICK u \in Transmission, m \in Message : ProviderReports(u, m)
        BY <1>2, <2>2, <3>1, <3>2, <3>3, NextSteps
           DEF Crash, Tick, vars, provider
      <3>5. says' = [says EXCEPT ![u] = m] /\ session' = m.status
        BY <3>4 DEF ProviderReports
      <3>6. u = t
        BY <1>2, <2>2, <3>5 DEF TypeOK
      <3>7. QED
        BY <3>5, <3>6 DEF TypeOK
    <2>3. QED
      BY <2>1, <2>2
  <1>3. ASSUME status' \in Terminal PROVE session' = status'
    <2>1. CASE status' = status
      BY <1>3, <2>1, SessionStays DEF ProviderOK
    <2>2. CASE status' # status
      <3>1. PICK c \in Call :
               /\ ApplyEvent(c)
               /\ status' = says[call[c].transmission].status
        BY <1>3, <2>2, StatusWriters DEF Terminal, WriteStatus
      <3>2. /\ call[c].transmission \in Transmission
            /\ says[call[c].transmission] \in Message
        BY <3>1 DEF ApplyEvent, At, WebhookOK, Handling
      <3>3. session = status'
        BY <1>3, <3>1, <3>2, ContractAssumption DEF ProviderOK
      <3>4. QED
        BY <1>3, <3>3, SessionStays
    <2>3. QED
      BY <2>1, <2>2
  <1>4. QED
    BY <1>1, <1>2, <1>3 DEF ProviderOK

\* Without an overlap nobody writes over a final state: the writers that do
\* not look again had no final state before them when they did.
LEMMA FinalStays ==
    ASSUME TypeOK, ClaimInv, QuietOK, [Next]_vars, ~raced', status \in Terminal
    PROVE  status' = status
  <1> SUFFICES ASSUME status' # status PROVE FALSE
    OBVIOUS
  <1>1. ~raced
    BY HistoryStays
  <1>2. PICK c \in Call :
           \/ CommitCreate(c) /\ status = "NONE"
           \/ Claim(c) /\ Claimable(c)
           \/ FailSession(c)
           \/ ApplyEvent(c)
    BY StatusWriters
  <1>3. CASE CommitCreate(c) /\ status = "NONE"
    BY <1>3 DEF Terminal
  <1>4. CASE Claim(c) /\ Claimable(c)
    <2>1. Startable(call[c].read) /\ status = call[c].read
      BY <1>4 DEF Claim, Claimable, At, ClaimInv, CallOK
    <2>2. QED
      BY <2>1 DEF Startable, Terminal
  <1>5. CASE FailSession(c)
    <2>1. status = "SIGNING_PENDING"
      BY <1>1, <1>5 DEF FailSession, At, QuietOK, SigningPhase
    <2>2. QED
      BY <2>1 DEF Terminal
  <1>6. CASE ApplyEvent(c)
    <2>1. call[c].phase = "apply"
      BY <1>6 DEF ApplyEvent, At
    <2>2. status = call[c].read
      BY <1>1, <2>1 DEF QuietOK
    <2>3. CanTransition(call[c].read, says[call[c].transmission].status)
      BY <2>1 DEF ClaimInv, CallOK
    <2>4. QED
      BY <2>2, <2>3 DEF CanTransition
  <1>7. QED
    BY <1>2, <1>3, <1>4, <1>5, <1>6

QuietFor(d) ==
    /\ call[d].phase = "apply" => status = call[d].read
    /\ call[d].phase \in SigningPhase => status = "SIGNING_PENDING"
    /\ LET t == call[d].transmission IN
       call[d].phase = "ignore" /\ t \notin unmatched
       /\ says[t].status \in Terminal => status = says[t].status

\* A call that waits keeps what it has read: who writes under it races it.
LEMMA QuietWaits ==
    ASSUME TypeOK, WebhookOK, ClaimInv, QuietOK, [Next]_vars, ~raced',
           NEW d \in Call, call'[d] = call[d]
    PROVE  QuietFor(d)'
  <1>1. ~raced /\ unmatched \subseteq unmatched'
    BY HistoryStays
  <1>2. QuietFor(d)
    BY <1>1 DEF QuietOK, QuietFor
  <1>3. ASSUME call[d].phase \in {"apply"} \cup SigningPhase
        PROVE  status' = status
    <2> SUFFICES ASSUME status' # status PROVE FALSE
      OBVIOUS
    <2>1. status # "NONE"
      BY <1>3 DEF ClaimInv, CallOK, BoundOK
    <2>2. PICK c \in Call :
             /\ \/ Claim(c) /\ Claimable(c)
                \/ FailSession(c)
                \/ ApplyEvent(c)
             /\ \E s : WriteStatus(c, s)
      BY <2>1, StatusWriters
    <2>3. c # d
      BY <2>2, WritersMove
    <2>4. d \in Writing \ {c}
      BY <1>3, <2>3 DEF Writing, SigningPhase
    <2>5. QED
      BY <2>2, <2>4 DEF WriteStatus
  <1>4. ASSUME NEW t, t = call[d].transmission, call[d].phase = "ignore",
               t \notin unmatched', says'[t].status \in Terminal
        PROVE  status' = says'[t].status
    <2>1. t \in Transmission /\ says[t] \in Message
      BY <1>4 DEF WebhookOK, Handling
    <2>2. says'[t] = says[t]
      BY <2>1, SaysStays, ContractAssumption
    <2>3. status = says[t].status
      BY <1>1, <1>2, <1>4, <2>2 DEF QuietFor
    <2>4. QED
      BY <1>4, <2>2, <2>3, FinalStays
  <1>5. QED
    BY <1>2, <1>3, <1>4 DEF QuietFor

\* A call that moves on has just looked, or has just claimed the contract.
LEMMA QuietArrives ==
    ASSUME TypeOK, WebhookOK, ClaimInv, ProviderOK, QuietOK, [Next]_vars,
           ~raced', NEW d \in Call, call'[d] # call[d]
    PROVE  QuietFor(d)'
  <1>0. PICK c \in Call : SignNext(c) \/ RecheckNext(c) \/ WebhookNext(c)
                          \/ Crash(c)
    BY NextSteps, QuietMoves
  <1>1. d = c
    BY <1>0, SignMoves, RecheckMoves, WebhookMoves, CrashMoves
  <1>2. \A e \in Call \ {d} : call'[e] = call[e]
    BY <1>0, <1>1, SignMoves, RecheckMoves, WebhookMoves, CrashMoves
  <1>3. ~raced
    BY HistoryStays
  <1>4. ASSUME call[d].phase \notin {"create", "claim", "fail", "apply"}
        PROVE  status' = status
    <2> SUFFICES ASSUME status' # status PROVE FALSE
      OBVIOUS
    <2>1. PICK e \in Call : \/ CommitCreate(e) /\ status = "NONE"
                            \/ Claim(e) /\ Claimable(e)
                            \/ FailSession(e) \/ ApplyEvent(e)
      BY StatusWriters
    <2>2. e = d
      BY <1>2, <2>1, WritersMove
    <2>3. QED
      BY <1>4, <2>1, <2>2 DEF CommitCreate, Claim, FailSession, ApplyEvent, At
  <1>5. CASE call'[d].phase \notin {"apply", "ignore"} \cup SigningPhase
    BY <1>5 DEF QuietFor
  <1>6. CASE call'[d].phase \in SigningPhase
    <2>1. SignNext(d)
      BY <1>0, <1>1, <1>6, RecheckMoves, WebhookMoves, CrashMoves
         DEF SigningPhase
    <2>2. CASE call'[d].phase = "session"
      <3>1. Claim(d) /\ Claimable(d)
        <4>1. call[d].phase = "claim" /\ Claimable(d)
          BY <2>1, <2>2, SignMoves
        <4>2. QED
          BY <2>1, <4>1 DEF SignNext, ReceiveCreate, CommitCreate, ReceiveSign,
             ReadContract, CallSession, BindSession, FailSession, Start, Idle, At
      <3>2. status' = "SIGNING_PENDING"
        BY <3>1 DEF Claim, WriteStatus
      <3>3. QED
        BY <2>2, <3>2 DEF QuietFor, SigningPhase
    <2>3. CASE call'[d].phase \in {"bind", "fail"}
      <3>1. call[d].phase = "session"
        BY <2>1, <2>3, SignMoves
      <3>2. status = "SIGNING_PENDING"
        BY <1>3, <3>1 DEF QuietOK, SigningPhase
      <3>3. QED
        BY <1>4, <2>3, <3>1, <3>2 DEF QuietFor, SigningPhase
    <2>4. QED
      BY <1>6, <2>2, <2>3 DEF SigningPhase
  <1>7. CASE call'[d].phase \in {"apply", "ignore"}
    <2>1. WebhookNext(d)
      BY <1>0, <1>1, <1>7, SignMoves, RecheckMoves, CrashMoves
    <2>2. /\ call[d].phase = "process"
          /\ call'[d].transmission = call[d].transmission
          /\ call'[d].read = status
          /\ call'[d].phase = "ignore" /\ bound =>
                ~CanTransition(status, says[call[d].transmission].status)
      BY <1>7, <2>1, WebhookMoves
    <2>3. status' = status
      BY <1>4, <2>2
    <2>4. CASE call'[d].phase = "apply"
      BY <2>2, <2>3, <2>4 DEF QuietFor, SigningPhase
    <2>5. CASE call'[d].phase = "ignore"
      <3> SUFFICES ASSUME NEW t, t = call'[d].transmission, t \notin unmatched',
                          says'[t].status \in Terminal
                   PROVE  status' = says'[t].status
        BY <2>5 DEF QuietFor, SigningPhase
      <3>1. t \in Transmission /\ says[t] \in Message
        BY <2>2 DEF WebhookOK, Handling
      <3>2. says'[t] = says[t]
        BY <3>1, SaysStays, ContractAssumption
      <3>3. Process(d)
        <4>1. \A u \in Transmission : ~ReceiveWebhook(d, u)
          BY <2>2 DEF ReceiveWebhook, Idle
        <4>2. QED
          BY <2>1, <2>2, <4>1 DEF WebhookNext, StoreEvent, RetakeEvent,
             IgnoreEvent, RefuseEvent, ApplyEvent, LoseApply, ReleaseEvent, At
      <3>4. bound
        BY <2>2, <3>3 DEF Process
      <3>5. ~CanTransition(status, says[t].status) /\ status # "DRAFT"
        BY <2>2, <2>5, <3>4 DEF ClaimInv, BoundOK
      <3>6. status = says[t].status \/ status \in Terminal
        BY <3>2, <3>5 DEF CanTransition, Terminal
      <3>7. session = says[t].status
        BY <3>1, <3>2, ContractAssumption DEF ProviderOK
      <3>8. status = says[t].status
        BY <3>6, <3>7 DEF ProviderOK
      <3>9. QED
        BY <2>3, <3>2, <3>8
    <2>6. QED
      BY <1>7, <2>4, <2>5
  <1>8. QED
    BY <1>5, <1>6, <1>7

LEMMA QuietStep ==
    TypeOK /\ WebhookOK /\ ClaimInv /\ QuietInv /\ [Next]_vars => QuietInv'
  <1> SUFFICES ASSUME TypeOK, WebhookOK, ClaimInv, QuietInv, [Next]_vars
               PROVE  QuietInv'
    OBVIOUS
  <1>1. ProviderOK'
    BY ProviderStep DEF QuietInv
  <1>2. QuietOK'
    <2>1. ASSUME ~raced', NEW d \in Call PROVE QuietFor(d)'
      BY <2>1, QuietWaits, QuietArrives DEF QuietInv
    <2>2. QED
      BY <2>1 DEF QuietOK, QuietFor
  <1>3. FinalReportSticks'
    <2> SUFFICES ASSUME NEW t \in Transmission,
                        event'[t] \in {"PROCESSED", "IGNORED"},
                        says'[t].status \in Terminal,
                        t \notin unmatched', ~raced'
                 PROVE  status' = says'[t].status
      BY DEF FinalReportSticks
    <2>1. ~raced /\ t \notin unmatched
      BY HistoryStays
    <2>2. CASE event'[t] = event[t]
      <3>1. says'[t] = says[t]
        BY <2>2, SaysStays, ContractAssumption DEF QuietInv, ProviderOK
      <3>2. status = says[t].status
        BY <2>1, <2>2, <3>1 DEF QuietInv, FinalReportSticks
      <3>3. QED
        BY <3>1, <3>2, FinalStays DEF QuietInv
    <2>3. CASE event'[t] # event[t]
      <3>1. PICK c \in Call :
               /\ t = call[c].transmission /\ says[t] \in Message
               /\ event'[t] = "PROCESSED" => ApplyEvent(c)
               /\ event'[t] = "IGNORED" => IgnoreEvent(c)
        BY <2>3, EventWriters
      <3>2. says'[t] = says[t]
        BY <3>1, SaysStays, ContractAssumption
      <3>3. CASE ApplyEvent(c)
        BY <3>1, <3>2, <3>3 DEF ApplyEvent, WriteStatus
      <3>4. CASE IgnoreEvent(c)
        <4>1. call[c].phase = "ignore" /\ status' = status
          BY <3>4 DEF IgnoreEvent, At, books
        <4>2. status = says[t].status
          BY <2>1, <3>1, <3>2, <4>1 DEF QuietInv, QuietOK
        <4>3. QED
          BY <3>2, <4>1, <4>2
      <3>5. QED
        BY <3>1, <3>3, <3>4
    <2>4. QED
      BY <2>2, <2>3
  <1>4. QED
    BY <1>1, <1>2, <1>3 DEF QuietInv

LEMMA InitQuiet == Init => QuietInv
  BY ContractAssumption
     DEF Init, QuietInv, ProviderOK, QuietOK, FinalReportSticks, Idle, Terminal,
         SigningPhase

LEMMA QuietInvariant == Spec => [](TypeOK /\ WebhookOK /\ ClaimInv /\ QuietInv)
  BY InitType, InitWebhook, InitClaim, InitQuiet, TypeStep, WebhookStep,
     ClaimStep, QuietStep, PTL DEF Spec

\* A contract that has come to its end stays there, as long as no two writers
\* of its status overlapped.
THEOREM FinalStatesLast == Spec => FinalUnlessRaced
  <1>1. TypeOK /\ ClaimInv /\ QuietInv /\ [Next]_vars =>
           [(~raced' /\ status \in Terminal) => status' = status]_vars
    BY FinalStays DEF QuietInv
  <1>2. QED
    BY <1>1, QuietInvariant, PTL DEF Spec, FinalUnlessRaced

\* What a handled report says of the end is what the contract says, in
\* whatever order the reports came and however often.
THEOREM FinalReportsStick == Spec => []FinalReportSticks
  <1>1. QuietInv => FinalReportSticks
    BY DEF QuietInv
  <1>2. QED
    BY <1>1, QuietInvariant, PTL

=============================================================================
