---------------------- MODULE ReservationDepositProofs ----------------------
(***************************************************************************)
(* Safety of ReservationDeposit for every set of calls, idempotency keys   *)
(* and transmissions, and every amount.                                    *)
(***************************************************************************)
EXTENDS ReservationDeposit, TLAPS

\* A step that moves one call leaves the others as they are.
LEMMA OneCallMoves ==
    ASSUME TypeOK, NEW c \in Call, NEW w, call' = [call EXCEPT ![c] = w]
    PROVE  /\ call'[c] = w
           /\ \A d \in Call \ {c} : call'[d] = call[d]
           /\ w \in CallState => call' \in [Call -> CallState]
  BY DEF TypeOK

LEMMA AmountBounds == 0 \in 0..Amount /\ Amount \in 0..Amount
  BY DepositAssumption

\* Updating two fields of a call is one update of the call.
LEMMA LoadedCall ==
    ASSUME TypeOK, NEW c \in Call, NEW r,
           call' = [call EXCEPT ![c].phase = "refund", ![c].read.retained = r]
    PROVE  call' = [call EXCEPT ![c] = [call[c] EXCEPT !.phase = "refund",
                                                       !.read.retained = r]]
  BY ZenonT(40) DEF TypeOK

LEMMA IdleType == Idle \in CallState
  BY DepositAssumption DEF Idle, NoRead, NoSnapshot, CallState, DepositStatus,
                           RefundStatus, CaptureRow

-----------------------------------------------------------------------------
(* Type correctness *)

LEMMA InitType == Init => TypeOK
  <1> SUFFICES ASSUME Init PROVE TypeOK
    OBVIOUS
  <1> USE DEF Init
  <1>1. call \in [Call -> CallState]
    BY IdleType
  <1>2. /\ returned \in 0..Amount
        /\ 0 \in 0..Amount
    BY DepositAssumption
  <1>3. /\ deposit \in [status : DepositStatus, reference : BOOLEAN,
                        refunded : 0..Amount, retained : 0..Amount]
        /\ refund \in [status : RefundStatus, reference : 0..Amount,
                       stale : BOOLEAN]
        /\ extra \in [Transmission -> 0..Amount]
    BY <1>2 DEF DepositStatus, RefundStatus
  <1>4. QED
    BY <1>1, <1>2, <1>3 DEF TypeOK

LEMMA MoveType ==
    ASSUME TypeOK, NEW c \in Call,
           \/ Return(c)
           \/ \E p \in {"capture", "commit", "failed", "verify", "load",
                        "refund", "refunded"} : Goto(c, p)
    PROVE  call' \in [Call -> CallState]
  <1>1. call[c] \in CallState
    BY DEF TypeOK
  <1>2. CASE Return(c)
    BY <1>2, IdleType, OneCallMoves DEF Return
  <1>3. ASSUME NEW p \in {"capture", "commit", "failed", "verify", "load",
                          "refund", "refunded"}, Goto(c, p)
        PROVE  call' \in [Call -> CallState]
    <2>1. [call[c] EXCEPT !.phase = p] \in CallState
      BY <1>1 DEF CallState
    <2>2. call' = [call EXCEPT ![c] = [call[c] EXCEPT !.phase = p]]
      BY <1>3 DEF Goto
    <2>3. QED
      BY <2>1, <2>2, OneCallMoves
  <1>4. QED
    BY <1>2, <1>3

LEMMA ConfirmType ==
    ASSUME TypeOK, NEW c \in Call, ConfirmNext(c)
    PROVE  TypeOK'
  <1>0. call[c] \in CallState
    BY DEF TypeOK
  <1>1. CASE ReceivePrepare(c)
    <2>1. [Idle EXCEPT !.op = "prepare", !.phase = "commit", !.id = None]
             \in CallState
      BY IdleType DEF CallState
    <2>2. call' \in [Call -> CallState]
      BY <1>1, <2>1, OneCallMoves DEF ReceivePrepare, Start
    <2>3. QED
      BY <1>1, <2>2 DEF ReceivePrepare, TypeOK, books, provider, history
  <1>2. CASE CommitPrepare(c)
    BY <1>2, MoveType DEF CommitPrepare, TypeOK, DepositStatus, provider,
                          history
  <1>3. ASSUME NEW k \in Key, ReceiveConfirm(c, k)
        PROVE  TypeOK'
    <2> DEFINE p == IF capture[k] = "NONE" THEN "create" ELSE "capture"
    <2>1. [Idle EXCEPT !.op = "confirm", !.phase = p, !.id = k] \in CallState
      BY IdleType DEF CallState, CaptureRow
    <2>2. call' \in [Call -> CallState]
      BY <1>3, <2>1, OneCallMoves DEF ReceiveConfirm, Start
    <2>3. QED
      BY <1>3, <2>2 DEF ReceiveConfirm, TypeOK, books, provider, history
  <1>4. CASE CreateCapture(c)
    <2>1. call' \in [Call -> CallState]
      BY <1>4, MoveType DEF CreateCapture, Proceed
    <2>2. call[c].id \in CaptureRow \cup {None}
      BY <1>0 DEF CallState
    <2>3. /\ capture' \in [CaptureRow -> {"NONE", "PENDING", "SUCCEEDED",
                                          "FAILED"}]
          /\ lastCapture' \in CaptureRow \cup {None}
      BY <1>4, <2>2 DEF CreateCapture, TypeOK
    <2>4. UNCHANGED <<visit, deposit, captureRef, refund, extra, superseded,
                      event, provider, history>>
      BY <1>4 DEF CreateCapture
    <2>5. QED
      BY <2>1, <2>3, <2>4 DEF TypeOK, provider, history
  <1>5. CASE CallCapture(c)
    <2>1. call' \in [Call -> CallState]
      BY <1>5, MoveType DEF CallCapture
    <2>2. charged' \in BOOLEAN
      BY <1>5 DEF CallCapture, TypeOK
    <2>3. UNCHANGED <<visit, books, event, returned, executed, history>>
      BY <1>5 DEF CallCapture
    <2>4. QED
      BY <2>1, <2>2, <2>3 DEF TypeOK, books, history
  <1>6. CASE CommitConfirm(c)
    <2>1. call' \in [Call -> CallState]
      BY <1>6, MoveType DEF CommitConfirm
    <2>2. deposit' = deposit \/ deposit' = Paid(deposit)
      BY <1>6 DEF CommitConfirm
    <2>3. deposit' \in [status : DepositStatus, reference : BOOLEAN,
                        refunded : 0..Amount, retained : 0..Amount]
      BY <2>2 DEF TypeOK, Paid, DepositStatus
    <2>4. /\ capture' \in [CaptureRow -> {"NONE", "PENDING", "SUCCEEDED",
                                          "FAILED"}]
          /\ captureRef' \in CaptureRow \cup {None}
      BY <1>0, <1>6 DEF CommitConfirm, TypeOK, CallState
    <2>5. QED
      BY <1>6, <2>1, <2>3, <2>4 DEF CommitConfirm, TypeOK, provider, history
  <1>7. CASE FailConfirm(c)
    <2>1. call' \in [Call -> CallState]
      BY <1>7, MoveType DEF FailConfirm
    <2>2. capture' \in [CaptureRow -> {"NONE", "PENDING", "SUCCEEDED",
                                       "FAILED"}]
      BY <1>7 DEF FailConfirm, TypeOK
    <2>3. QED
      BY <1>7, <2>1, <2>2 DEF FailConfirm, TypeOK, provider, history
  <1>8. QED
    BY <1>1, <1>2, <1>3, <1>4, <1>5, <1>6, <1>7 DEF ConfirmNext

LEMMA RefundType ==
    ASSUME TypeOK, NEW c \in Call, RefundNext(c)
    PROVE  TypeOK'
  <1>0. call[c] \in CallState
    BY DEF TypeOK
  <1>1. CASE BeginCancel(c)
    <2>1. [Idle EXCEPT !.op = "cancel", !.phase = "queue",
                       !.read.status = deposit.status] \in CallState
      BY IdleType DEF CallState, TypeOK
    <2>2. call' \in [Call -> CallState]
      BY <1>1, <2>1, OneCallMoves DEF BeginCancel
    <2>3. overtaken' \in BOOLEAN
      BY <1>1 DEF BeginCancel, CaptureInFlight
    <2>4. QED
      BY <1>1, <2>2, <2>3 DEF BeginCancel, TypeOK, provider
  <1>2. CASE CommitCancel(c)
    <2>1. call' \in [Call -> CallState]
      BY <1>2, MoveType DEF CommitCancel
    <2>2. deposit' \in [status : DepositStatus, reference : BOOLEAN,
                        refunded : 0..Amount, retained : 0..Amount]
      <3>1. deposit' \in {deposit, [deposit EXCEPT !.status = "REFUND_PENDING",
                                                    !.refunded = Amount,
                                                    !.retained = 0]}
        BY <1>2 DEF CommitCancel
      <3>2. QED
        BY <3>1, AmountBounds DEF TypeOK, DepositStatus
    <2>3. refund' \in [status : RefundStatus, reference : 0..Amount,
                       stale : BOOLEAN]
      BY <1>2 DEF CommitCancel, TypeOK, RefundStatus
    <2>4. QED
      BY <1>2, <2>1, <2>2, <2>3 DEF CommitCancel, TypeOK, provider, history
  <1>3. CASE LoadRefund(c)
    <2>1. [call[c] EXCEPT !.phase = "refund",
                          !.read.retained = deposit.retained] \in CallState
      BY <1>0 DEF CallState, TypeOK
    <2>2. CASE call' = [call EXCEPT ![c].phase = "refund",
                                    ![c].read.retained = deposit.retained]
      <3>1. call' = [call EXCEPT ![c] =
                        [call[c] EXCEPT !.phase = "refund",
                                        !.read.retained = deposit.retained]]
        BY <2>2, LoadedCall
      <3>2. QED
        BY <1>3, <2>1, <3>1, OneCallMoves
           DEF LoadRefund, TypeOK, books, provider, history
    <2>3. CASE Return(c)
      BY <1>3, <2>3, MoveType DEF LoadRefund, TypeOK, books, provider, history
    <2>4. QED
      BY <1>3, <2>2, <2>3 DEF LoadRefund
  <1>4. CASE ReceiveRetry(c)
    <2>1. [Idle EXCEPT !.op = "retry", !.phase = "claim",
                       !.read.retained = deposit.retained] \in CallState
      BY IdleType DEF CallState, TypeOK
    <2>2. call' \in [Call -> CallState]
      BY <1>4, <2>1, OneCallMoves DEF ReceiveRetry
    <2>3. QED
      BY <1>4, <2>2 DEF ReceiveRetry, TypeOK, books, provider, history
  <1>5. CASE ClaimRefund(c)
    <2>1. call' \in [Call -> CallState]
      BY <1>5, MoveType DEF ClaimRefund, Proceed
    <2>2. refund' \in [status : RefundStatus, reference : 0..Amount,
                       stale : BOOLEAN]
      BY <1>5 DEF ClaimRefund, TypeOK, RefundStatus
    <2>3. QED
      BY <1>5, <2>1, <2>2 DEF ClaimRefund, TypeOK, provider, history
  <1>6. CASE CallRefund(c)
    <2>1. call' \in [Call -> CallState]
      BY <1>6, MoveType DEF CallRefund
    <2>2. returned' \in 0..Amount /\ executed' \in BOOLEAN
      BY <1>6, AmountBounds DEF CallRefund, TypeOK
    <2>3. QED
      BY <1>6, <2>1, <2>2 DEF CallRefund, TypeOK, books, history
  <1>7. CASE CommitRefund(c)
    <2>1. call' \in [Call -> CallState]
      BY <1>7, MoveType DEF CommitRefund
    <2>2. deposit' \in [status : DepositStatus, reference : BOOLEAN,
                        refunded : 0..Amount, retained : 0..Amount]
      <3>1. deposit' \in {deposit, [deposit EXCEPT !.status = "REFUNDED"],
                           [deposit EXCEPT !.status = "PARTIALLY_REFUNDED"]}
        BY <1>7 DEF CommitRefund
      <3>2. QED
        BY <3>1 DEF TypeOK, DepositStatus
    <2>3. refund' \in [status : RefundStatus, reference : 0..Amount,
                       stale : BOOLEAN]
      BY <1>7, AmountBounds DEF CommitRefund, TypeOK, RefundStatus
    <2>4. QED
      BY <1>7, <2>1, <2>2, <2>3 DEF CommitRefund, TypeOK, provider, history
  <1>8. CASE FailRefund(c)
    <2>1. call' \in [Call -> CallState]
      BY <1>8, MoveType DEF FailRefund
    <2>2. refund' \in [status : RefundStatus, reference : 0..Amount,
                       stale : BOOLEAN]
      BY <1>8 DEF FailRefund, TypeOK, RefundStatus
    <2>3. loosed' \in BOOLEAN
      BY <1>8 DEF FailRefund
    <2>4. QED
      BY <1>8, <2>1, <2>2, <2>3 DEF FailRefund, TypeOK, provider
  <1>9. CASE QueueRefund(c)
    <2>1. call' \in [Call -> CallState]
      BY <1>9, MoveType DEF QueueRefund
    <2>2. superseded' \in BOOLEAN
      BY <1>9 DEF QueueRefund, TypeOK
    <2>3. QED
      BY <1>9, <2>1, <2>2 DEF QueueRefund, TypeOK, provider, history
  <1>10. QED
    BY <1>1, <1>2, <1>3, <1>4, <1>5, <1>6, <1>7, <1>8, <1>9 DEF RefundNext

\* What the provider says is well formed.
LEMMA SnapshotType ==
    ASSUME TypeOK, NEW t
    PROVE  Snapshot(t) \in [status : {"NONE", "PENDING", "DONE", "CANCELED",
                                      "ABORTED"},
                            amount : 0..Amount]
  BY DepositAssumption DEF Snapshot, TypeOK

LEMMA WebhookType ==
    ASSUME TypeOK, NEW c \in Call, WebhookNext(c)
    PROVE  TypeOK'
  <1>0. call[c] \in CallState
    BY DEF TypeOK
  <1>1. ASSUME NEW t \in Transmission, ReceiveWebhook(c, t)
        PROVE  TypeOK'
    <2> DEFINE p == IF event[t] = "NONE" THEN "create" ELSE "reopen"
    <2>1. [Idle EXCEPT !.op = "webhook", !.phase = p, !.id = t] \in CallState
      BY IdleType DEF CallState, CaptureRow
    <2>2. call' \in [Call -> CallState]
      BY <1>1, <2>1, OneCallMoves DEF ReceiveWebhook, Start
    <2>3. QED
      BY <1>1, <2>2 DEF ReceiveWebhook, TypeOK, books, provider, history
  <1>2. CASE CreateEvent(c) \/ ReopenEvent(c)
    <2>1. call' \in [Call -> CallState]
      BY <1>2, MoveType DEF CreateEvent, ReopenEvent, Proceed
    <2>2. event' \in [Transmission -> {"NONE", "RECEIVED", "PROCESSED",
                                       "FAILED"}]
      BY <1>2 DEF CreateEvent, ReopenEvent, TypeOK
    <2>3. QED
      BY <1>2, <2>1, <2>2 DEF CreateEvent, ReopenEvent, TypeOK, books, provider,
                              history
  <1>3. CASE VerifyWebhook(c)
    <2> DEFINE w == [call[c] EXCEPT !.phase = "read",
                                    !.snapshot = Snapshot(call[c].id)]
    <2>1. w \in CallState
      BY <1>0, SnapshotType DEF CallState
    <2>2. CASE call' = [call EXCEPT ![c].phase = "read",
                                    ![c].snapshot = Snapshot(call[c].id)]
      <3>1. call' = [call EXCEPT ![c] = w]
        BY <2>2 DEF TypeOK
      <3>2. QED
        BY <1>3, <2>1, <3>1, OneCallMoves
           DEF VerifyWebhook, TypeOK, books, provider, history
    <2>3. CASE Goto(c, "failed")
      BY <1>3, <2>3, MoveType DEF VerifyWebhook, TypeOK, books, provider, history
    <2>4. QED
      BY <1>3, <2>2, <2>3 DEF VerifyWebhook
  <1>4. CASE ReadDeposit(c)
    <2> DEFINE r == [status |-> deposit.status, refunded |-> deposit.refunded,
                     retained |-> deposit.retained, refund |-> refund.status,
                     capture |-> lastCapture]
               w == [call[c] EXCEPT !.phase = "commit", !.read = r]
    <2>1. w \in CallState
      BY <1>0 DEF CallState, TypeOK
    <2>2. CASE call' = [call EXCEPT ![c].phase = "commit", ![c].read = r]
      <3>1. call' = [call EXCEPT ![c] = w]
        BY <2>2 DEF TypeOK
      <3>2. QED
        BY <1>4, <2>1, <3>1, OneCallMoves
           DEF ReadDeposit, TypeOK, books, provider, history
    <2>3. CASE Goto(c, "failed")
      BY <1>4, <2>3, MoveType DEF ReadDeposit, TypeOK, books, provider, history
    <2>4. QED
      BY <1>4, <2>2, <2>3 DEF ReadDeposit
  <1>5. CASE CommitPaid(c) \/ CommitCanceled(c) \/ CommitAborted(c)
             \/ CommitUnchanged(c) \/ IgnoreWebhook(c)
    <2>1. call' \in [Call -> CallState]
      BY <1>5, MoveType DEF CommitPaid, CommitCanceled, CommitAborted,
                            CommitUnchanged, IgnoreWebhook, Complete, RollBack
    <2>2. event' \in [Transmission -> {"NONE", "RECEIVED", "PROCESSED",
                                       "FAILED"}]
      BY <1>5 DEF CommitPaid, CommitCanceled, CommitAborted, CommitUnchanged,
                  IgnoreWebhook, Complete, RollBack, TypeOK
    <2>3. CASE CommitPaid(c)
      <3>1. deposit' = deposit \/ deposit' = Paid(deposit)
        BY <2>3 DEF CommitPaid, RollBack, books
      <3>2. deposit' \in [status : DepositStatus, reference : BOOLEAN,
                          refunded : 0..Amount, retained : 0..Amount]
        BY <3>1 DEF TypeOK, Paid, DepositStatus
      <3>3. PICK k \in CaptureRow \cup {None} :
               /\ capture' \in {capture, [capture EXCEPT ![k] = "SUCCEEDED"]}
               /\ captureRef' \in {captureRef, k}
               /\ lastCapture' \in {lastCapture, k}
        <4>1. call[c].id \in CaptureRow \cup {None}
              /\ call[c].read.capture \in CaptureRow \cup {None}
          BY <1>0 DEF CallState
        <4>2. QED
          BY <2>3, <4>1 DEF CommitPaid, RollBack, books
      <3>4. /\ capture' \in [CaptureRow -> {"NONE", "PENDING", "SUCCEEDED",
                                            "FAILED"}]
            /\ captureRef' \in CaptureRow \cup {None}
            /\ lastCapture' \in CaptureRow \cup {None}
        BY <3>3 DEF TypeOK
      <3>5. UNCHANGED <<refund, extra, superseded>>
        BY <2>3 DEF CommitPaid, RollBack, books
      <3>6. QED
        BY <2>1, <2>2, <2>3, <3>2, <3>4, <3>5
           DEF CommitPaid, TypeOK, provider, history
    <2>4. CASE CommitCanceled(c)
      <3> DEFINE a == call[c].snapshot.amount
      <3>1. a \in 0..Amount /\ Retained(call[c]) \in 0..Amount
        BY <1>0, DepositAssumption DEF CallState, Retained
      <3>2. deposit' \in {deposit,
                          [status |-> FinalStatus(a), reference |-> TRUE,
                           refunded |-> a, retained |-> Retained(call[c])]}
        BY <2>4 DEF CommitCanceled, RollBack, books
      <3>3. deposit' \in [status : DepositStatus, reference : BOOLEAN,
                          refunded : 0..Amount, retained : 0..Amount]
        <4>1. FinalStatus(a) \in DepositStatus
          BY DEF FinalStatus, DepositStatus
        <4>2. CASE deposit' = deposit
          BY <4>2 DEF TypeOK
        <4>3. CASE deposit' = [status |-> FinalStatus(a), reference |-> TRUE,
                               refunded |-> a, retained |-> Retained(call[c])]
          BY <3>1, <4>1, <4>3
        <4>4. QED
          BY <3>2, <4>2, <4>3
      <3>4. /\ refund' \in {refund, [refund EXCEPT !.status = "SUCCEEDED",
                                                   !.reference = a]}
            /\ extra' \in {extra, [extra EXCEPT ![call[c].id] = a]}
        BY <2>4 DEF CommitCanceled, RollBack, books
      <3>5. refund' \in [status : RefundStatus, reference : 0..Amount,
                         stale : BOOLEAN]
        BY <3>1, <3>4 DEF TypeOK, RefundStatus
      <3>6. extra' \in [Transmission -> 0..Amount]
        BY <3>1, <3>4 DEF TypeOK
      <3>7. UNCHANGED <<capture, captureRef, lastCapture>>
        BY <2>4 DEF CommitCanceled, RollBack, books
      <3>8. superseded' \in BOOLEAN /\ crossed' \in BOOLEAN
        BY <2>4 DEF CommitCanceled, RollBack, books, TypeOK
      <3>9. QED
        BY <2>1, <2>2, <2>4, <3>3, <3>5, <3>6, <3>7, <3>8
           DEF CommitCanceled, TypeOK, provider
    <2>5. CASE CommitAborted(c)
      <3>1. deposit' \in [status : DepositStatus, reference : BOOLEAN,
                          refunded : 0..Amount, retained : 0..Amount]
        BY <2>5 DEF CommitAborted, TypeOK, DepositStatus
      <3>2. QED
        BY <2>1, <2>2, <2>5, <3>1 DEF CommitAborted, TypeOK, provider, history
    <2>6. CASE CommitUnchanged(c) \/ IgnoreWebhook(c)
      BY <2>1, <2>2, <2>6 DEF CommitUnchanged, IgnoreWebhook, TypeOK, books,
                              provider, history
    <2>7. QED
      BY <1>5, <2>3, <2>4, <2>5, <2>6
  <1>6. CASE FailWebhook(c)
    <2>1. call' \in [Call -> CallState]
      BY <1>6, MoveType DEF FailWebhook
    <2>2. /\ event' \in [Transmission -> {"NONE", "RECEIVED", "PROCESSED",
                                          "FAILED"}]
      BY <1>6 DEF FailWebhook, TypeOK
    <2>3. QED
      BY <1>6, <2>1, <2>2 DEF FailWebhook, TypeOK, books, provider
  <1>7. QED
    BY <1>1, <1>2, <1>3, <1>4, <1>5, <1>6 DEF WebhookNext

LEMMA TypeStep == TypeOK /\ [Next]_vars => TypeOK'
  <1> SUFFICES ASSUME TypeOK, [Next]_vars PROVE TypeOK'
    OBVIOUS
  <1>1. ASSUME NEW c \in Call, Crash(c)
        PROVE  TypeOK'
    BY <1>1, MoveType DEF Crash, TypeOK, books, provider, history
  <1>2. ASSUME NEW a \in Cancellation, CancelAtProvider(a)
        PROVE  TypeOK'
    <2>1. returned' \in 0..Amount
      BY <1>2, DepositAssumption DEF CancelAtProvider, TypeOK
    <2>2. QED
      BY <1>2, <2>1 DEF CancelAtProvider, TypeOK, books, history
  <1>3. CASE ClaimExpires
    <2>1. refund' \in [status : RefundStatus, reference : 0..Amount,
                       stale : BOOLEAN]
      BY <1>3 DEF ClaimExpires, TypeOK
    <2>2. QED
      BY <1>3, <2>1 DEF ClaimExpires, TypeOK, provider
  <1>4. CASE UNCHANGED vars
    BY <1>4 DEF vars, books, provider, history, TypeOK
  <1>5. QED
    BY <1>1, <1>2, <1>3, <1>4, ConfirmType, RefundType, WebhookType DEF Next

\* The books, the provider's state and the calls in flight stay well typed.
THEOREM TypeCorrect == Spec => []TypeOK
  BY InitType, TypeStep, PTL DEF Spec

-----------------------------------------------------------------------------
(* Which actions write what.  Each lemma names the writers of a variable;  *)
(* every other step leaves it alone.                                       *)

LEMMA ConfirmWrites ==
    ASSUME NEW c \in Call, ConfirmNext(c)
    PROVE  /\ UNCHANGED <<visit, refund, extra, superseded, event, returned,
                          executed, history>>
           /\ UNCHANGED deposit \/ CommitPrepare(c) \/ CommitConfirm(c)
           /\ \/ UNCHANGED <<capture, captureRef, lastCapture>>
              \/ CreateCapture(c) \/ CommitConfirm(c) \/ FailConfirm(c)
           /\ UNCHANGED charged \/ CallCapture(c)
  BY DEF ConfirmNext, ReceivePrepare, CommitPrepare, ReceiveConfirm,
         CreateCapture, CallCapture, CommitConfirm, FailConfirm, books,
         provider

LEMMA RefundWrites ==
    ASSUME NEW c \in Call, RefundNext(c)
    PROVE  /\ UNCHANGED <<capture, captureRef, lastCapture, extra, event,
                          charged, crossed, failed>>
           /\ UNCHANGED superseded \/ BeginCancel(c) \/ QueueRefund(c)
           /\ UNCHANGED visit \/ CommitCancel(c)
           /\ UNCHANGED deposit \/ CommitCancel(c) \/ CommitRefund(c)
           /\ \/ UNCHANGED refund
              \/ CommitCancel(c) \/ ClaimRefund(c) \/ CommitRefund(c)
              \/ FailRefund(c)
           /\ UNCHANGED returned \/ CallRefund(c)
           /\ UNCHANGED overtaken \/ BeginCancel(c)
           /\ UNCHANGED loosed \/ FailRefund(c)
  BY DEF RefundNext, BeginCancel, QueueRefund, CommitCancel, LoadRefund,
         ReceiveRetry, ClaimRefund, CallRefund, CommitRefund, FailRefund, books,
         provider, history

LEMMA WebhookWrites ==
    ASSUME NEW c \in Call, WebhookNext(c)
    PROVE  /\ UNCHANGED <<visit, provider, overtaken, loosed>>
           /\ \/ UNCHANGED deposit
              \/ CommitPaid(c) \/ CommitCanceled(c) \/ CommitAborted(c)
           /\ UNCHANGED <<capture, captureRef, lastCapture>> \/ CommitPaid(c)
           /\ UNCHANGED <<refund, extra, superseded, crossed>>
              \/ CommitCanceled(c)
           /\ \/ UNCHANGED event
              \/ CreateEvent(c) \/ ReopenEvent(c) \/ FailWebhook(c)
              \/ Complete(c) /\ Handling(c)
           /\ UNCHANGED failed \/ FailWebhook(c)
  BY DEF WebhookNext, ReceiveWebhook, CreateEvent, ReopenEvent, VerifyWebhook,
         ReadDeposit, CommitPaid, CommitCanceled, CommitAborted,
         CommitUnchanged, IgnoreWebhook, FailWebhook, Complete, RollBack, At,
         Handling, books, history

\* A webhook's refund is written whole, or rolled back.
LEMMA CanceledWrites ==
    ASSUME NEW c \in Call, CommitCanceled(c)
    PROVE  \/ /\ UNCHANGED <<deposit, capture, captureRef, lastCapture>>
              /\ UNCHANGED <<refund, extra, superseded>>
           \/ /\ \/ refund' = refund
                 \/ /\ call[c].read.refund # "NONE"
                    /\ refund' = [refund EXCEPT
                                     !.status = "SUCCEEDED",
                                     !.reference = call[c].snapshot.amount]
              /\ \/ extra' = extra
                 \/ extra' = [extra EXCEPT ![call[c].id] =
                                               call[c].snapshot.amount]
              /\ deposit'.status = FinalStatus(call[c].snapshot.amount)
              /\ deposit'.reference
              /\ UNCHANGED <<capture, captureRef, lastCapture>>
  <1> DEFINE w == call[c]
             amount == w.snapshot.amount
             open == w.read.refund \notin {"NONE", "SUCCEEDED"}
             added == ~open /\ amount > w.read.refunded
             free == /\ open => CancellationFree(amount, refund.reference)
                     /\ added => /\ extra[w.id] = 0
                                 /\ CancellationFree(amount, 0)
                                 /\ refund.reference # amount
  <1>1. CASE ~free
    BY <1>1 DEF CommitCanceled, RollBack, books
  <1>2. CASE free
    <2>1. /\ refund' = IF open THEN [refund EXCEPT !.status = "SUCCEEDED",
                                                   !.reference = amount]
                       ELSE refund
          /\ extra' = IF added THEN [extra EXCEPT ![w.id] = amount] ELSE extra
          /\ deposit' = [status |-> FinalStatus(amount), reference |-> TRUE,
                         refunded |-> amount, retained |-> Retained(w)]
          /\ UNCHANGED <<capture, captureRef, lastCapture>>
      BY <1>2, Zenon DEF CommitCanceled
    <2>2. deposit'.status = FinalStatus(amount) /\ deposit'.reference
      BY <2>1
    <2>3. QED
      BY <2>1, <2>2
  <1>3. QED
    BY <1>1, <1>2

\* A webhook that adds a row within a cancellation is remembered.
LEMMA CanceledCrosses ==
    ASSUME NEW c \in Call, CommitCanceled(c)
    PROVE  /\ crossed => crossed'
           /\ \/ UNCHANGED superseded
              \/ CancellationUnderWay => crossed'
  BY ZenonT(40) DEF CommitCanceled, RollBack, books

-----------------------------------------------------------------------------
(* How a call comes to be where it is *)

LEMMA MoveFacts ==
    ASSUME TypeOK, NEW c \in Call, NEW p, Goto(c, p) \/ Return(c)
    PROVE  /\ \A d \in Call \ {c} : call'[d] = call[d]
           /\ Return(c) => call'[c] = Idle
           /\ Goto(c, p) => /\ call'[c].op = call[c].op
                            /\ call'[c].id = call[c].id
                            /\ call'[c].phase = p
                            /\ call'[c].read = call[c].read
                            /\ call'[c].snapshot = call[c].snapshot
  <1>1. call[c] \in CallState
    BY DEF TypeOK
  <1>2. CASE Return(c)
    <2>1. Return(c) => call' = [call EXCEPT ![c] = Idle]
      BY DEF Return
    <2>2. Goto(c, p) => call'[c] = [call[c] EXCEPT !.phase = p]
      BY DEF Goto, TypeOK
    <2>3. QED
      BY <1>1, <1>2, <2>1, <2>2, OneCallMoves DEF CallState
  <1>3. CASE Goto(c, p)
    <2>1. Return(c) => call' = [call EXCEPT ![c] = Idle]
      BY DEF Return
    <2>2. call' = [call EXCEPT ![c] = [call[c] EXCEPT !.phase = p]]
      BY <1>3 DEF Goto
    <2>3. call'[c] = [call[c] EXCEPT !.phase = p]
          /\ \A d \in Call \ {c} : call'[d] = call[d]
      BY <2>2, OneCallMoves
    <2>4. QED
      BY <1>1, <2>1, <2>3, OneCallMoves DEF CallState
  <1>4. QED
    BY <1>2, <1>3

LEMMA StartFacts ==
    ASSUME TypeOK, NEW c \in Call, NEW o, NEW p, NEW i, Start(c, o, p, i)
    PROVE  /\ \A d \in Call \ {c} : call'[d] = call[d]
           /\ call[c] = Idle
           /\ call'[c].op = o
           /\ call'[c].phase = p
           /\ call'[c].id = i
           /\ call'[c].read = NoRead
           /\ call'[c].snapshot = NoSnapshot
  <1>1. call'[c] = [Idle EXCEPT !.op = o, !.phase = p, !.id = i]
        /\ \A d \in Call \ {c} : call'[d] = call[d]
    BY OneCallMoves DEF Start
  <1> DEFINE w == [Idle EXCEPT !.op = o, !.phase = p, !.id = i]
  <1>2. /\ w.op = o /\ w.phase = p /\ w.id = i
        /\ w.read = NoRead /\ w.snapshot = NoSnapshot
    BY DEF Idle
  <1>3. call[c] = Idle
    BY DEF Start
  <1>4. QED
    BY <1>1, <1>2, <1>3

LEMMA ConfirmMoves ==
    ASSUME TypeOK, NEW c \in Call, ConfirmNext(c)
    PROVE  /\ \A d \in Call \ {c} : call'[d] = call[d]
           /\ call'[c].op \in {"none", "prepare", "confirm"}
           /\ call'[c].op = "confirm" =>
                 \/ call[c].op = "confirm" /\ call'[c].id = call[c].id
                 \/ call'[c].id \in Key /\ deposit.status = "READY"
           /\ At(c, "confirm", "commit")' => charged'
  <1>1. CASE ReceivePrepare(c)
    <2>1. Start(c, "prepare", "commit", None)
      BY <1>1 DEF ReceivePrepare
    <2>2. QED
      BY <2>1, StartFacts DEF At
  <1>2. CASE CommitPrepare(c)
    BY <1>2, MoveFacts DEF CommitPrepare, Idle, At
  <1>3. ASSUME NEW k \in Key, ReceiveConfirm(c, k)
        PROVE  /\ \A d \in Call \ {c} : call'[d] = call[d]
               /\ call'[c].op = "confirm"
               /\ call'[c].phase \in {"create", "capture"}
               /\ call'[c].id \in Key /\ deposit.status = "READY"
    BY <1>3, StartFacts DEF ReceiveConfirm
  <1>4. CASE CreateCapture(c)
    <2>1. call[c].op = "confirm" /\ (Goto(c, "capture") \/ Return(c))
      BY <1>4 DEF CreateCapture, Proceed, At
    <2>2. QED
      BY <2>1, MoveFacts DEF Idle, At
  <1>5. CASE CallCapture(c)
    BY <1>5, MoveFacts DEF CallCapture, Idle, At
  <1>6. CASE CommitConfirm(c)
    BY <1>6, MoveFacts DEF CommitConfirm, Idle, At
  <1>7. CASE FailConfirm(c)
    BY <1>7, MoveFacts DEF FailConfirm, Idle, At
  <1>8. QED
    BY <1>1, <1>2, <1>3, <1>4, <1>5, <1>6, <1>7 DEF ConfirmNext, At

LEMMA RefundMoves ==
    ASSUME TypeOK, NEW c \in Call, RefundNext(c)
    PROVE  /\ \A d \in Call \ {c} : call'[d] = call[d]
           /\ call'[c].op \in {"none", "cancel", "retry"}
           /\ Cancelling(c)' =>
                 \/ BeginCancel(c) /\ call'[c].read.status = deposit.status
                 \/ Cancelling(c) /\ call'[c].read = call[c].read
           /\ call'[c].op = "retry" =>
                 call[c].op = "retry" \/ refund.status # "NONE"
           /\ call'[c].op = "cancel"
              /\ call'[c].phase \in {"refund", "refunded", "failed"} =>
                 \/ call[c].op = "cancel"
                    /\ call[c].phase \in {"refund", "refunded", "failed"}
                 \/ refund.status # "NONE"
           /\ call'[c].phase = "refunded" => charged /\ returned' = Amount
           /\ Retrying(c)' => \/ Retrying(c)
                              \/ ClaimRefund(c) /\ Claimable
  <1>1. CASE BeginCancel(c)
    <2> DEFINE w == [Idle EXCEPT !.op = "cancel", !.phase = "queue",
                                 !.read.status = deposit.status]
    <2>1. call'[c] = w /\ \A d \in Call \ {c} : call'[d] = call[d]
      BY <1>1, OneCallMoves DEF BeginCancel
    <2>2. w.op = "cancel" /\ w.phase = "queue"
          /\ w.read.status = deposit.status
      BY DEF Idle, NoRead
    <2>3. QED
      BY <1>1, <2>1, <2>2 DEF Cancelling, Retrying
  <1>2. CASE CommitCancel(c)
    <2>1. call[c].op = "cancel" /\ Goto(c, "load")
      BY <1>2 DEF CommitCancel, At
    <2>2. QED
      BY <2>1, MoveFacts DEF Cancelling, Retrying
  <1>3. CASE LoadRefund(c)
    <2>1. CASE Return(c)
      BY <2>1, MoveFacts DEF Idle, Cancelling, Retrying
    <2>2. ASSUME refund.status # "NONE",
                 call' = [call EXCEPT ![c].phase = "refund",
                                      ![c].read.retained = deposit.retained]
          PROVE  /\ \A d \in Call \ {c} : call'[d] = call[d]
                 /\ call'[c].op = "cancel" /\ call'[c].phase = "refund"
      <3> DEFINE w == [call[c] EXCEPT !.phase = "refund",
                                      !.read.retained = deposit.retained]
      <3>1. call' = [call EXCEPT ![c] = w]
        BY <2>2, LoadedCall
      <3>2. w.op = call[c].op /\ w.phase = "refund"
        BY DEF TypeOK, CallState
      <3>3. call[c].op = "cancel"
        BY <1>3 DEF LoadRefund, At
      <3>4. call'[c] = w /\ \A d \in Call \ {c} : call'[d] = call[d]
        BY <3>1, OneCallMoves
      <3>5. QED
        BY <3>2, <3>3, <3>4
    <2>3. QED
      BY <1>3, <2>1, <2>2 DEF LoadRefund, Cancelling, Retrying
  <1>4. CASE ReceiveRetry(c)
    <2> DEFINE w == [Idle EXCEPT !.op = "retry", !.phase = "claim",
                                 !.read.retained = deposit.retained]
    <2>1. call'[c] = w /\ \A d \in Call \ {c} : call'[d] = call[d]
      BY <1>4, OneCallMoves DEF ReceiveRetry
    <2>2. w.op = "retry" /\ w.phase = "claim"
      BY DEF Idle
    <2>3. refund.status # "NONE"
      BY <1>4 DEF ReceiveRetry
    <2>4. QED
      BY <2>1, <2>2, <2>3 DEF Cancelling, Retrying
  <1>5. CASE ClaimRefund(c)
    <2>1. /\ call[c].op = "retry"
          /\ (Claimable /\ Goto(c, "refund")) \/ Return(c)
      BY <1>5 DEF ClaimRefund, Proceed, At
    <2>2. QED
      BY <1>5, <2>1, MoveFacts DEF Idle, Cancelling, Retrying
  <1>6. CASE CallRefund(c)
    <2>1. /\ call[c].op \in {"cancel", "retry"} /\ call[c].phase = "refund"
          /\ \/ Goto(c, "refunded") /\ charged /\ returned' = Amount
             \/ Goto(c, "failed")
      BY <1>6 DEF CallRefund
    <2>2. QED
      BY <2>1, MoveFacts DEF Cancelling, Retrying
  <1>7. CASE CommitRefund(c)
    <2>1. /\ call[c].op \in {"cancel", "retry"} /\ call[c].phase = "refunded"
          /\ Return(c) \/ Goto(c, "failed")
      BY <1>7 DEF CommitRefund
    <2>2. QED
      BY <2>1, MoveFacts DEF Idle, Cancelling, Retrying
  <1>8. CASE FailRefund(c)
    <2>1. Return(c)
      BY <1>8 DEF FailRefund
    <2>2. QED
      BY <2>1, MoveFacts DEF Idle, Cancelling, Retrying
  <1>9. CASE QueueRefund(c)
    <2>1. /\ call[c].op = "cancel" /\ call[c].phase = "queue"
          /\ Goto(c, "commit")
      BY <1>9 DEF QueueRefund, At
    <2>2. QED
      BY <2>1, MoveFacts DEF Cancelling, Retrying
  <1>10. QED
    BY <1>1, <1>2, <1>3, <1>4, <1>5, <1>6, <1>7, <1>8, <1>9 DEF RefundNext

LEMMA WebhookMoves ==
    ASSUME TypeOK, NEW c \in Call, WebhookNext(c)
    PROVE  /\ \A d \in Call \ {c} : call'[d] = call[d]
           /\ call'[c].op \in {"none", "webhook"}
           /\ call'[c].op = "webhook" =>
                 \/ call[c].op = "webhook" /\ call'[c].id = call[c].id
                 \/ call'[c].id \in Transmission
           /\ At(c, "webhook", "reopen")' => event[call'[c].id] = "FAILED"
           /\ Handling(c)' =>
                 /\ call[c].op = "webhook" /\ call'[c].id = call[c].id
                 /\ \/ Handling(c)
                    \/ CreateEvent(c) /\ EventIsNew(call[c].id)
                    \/ ReopenEvent(c) /\ At(c, "webhook", "reopen")
           /\ call'[c].op = "webhook" /\ call'[c].phase \in {"read", "commit"} =>
                 \/ call'[c].snapshot = Snapshot(call[c].id)
                 \/ /\ call[c].op = "webhook" /\ call[c].phase = "read"
                    /\ call'[c].snapshot = call[c].snapshot
           /\ At(c, "webhook", "commit")' =>
                 call'[c].read.refund = refund.status
           /\ \/ call'[c].read.status = "NONE"
              \/ call'[c].read = call[c].read /\ call[c].op = "webhook"
              \/ call'[c].read.status = deposit.status
  <1>1. ASSUME NEW t \in Transmission, ReceiveWebhook(c, t)
        PROVE  /\ \A d \in Call \ {c} : call'[d] = call[d]
               /\ call'[c].op = "webhook"
               /\ call'[c].phase \in {"create", "reopen"}
               /\ call'[c].id \in Transmission
               /\ call'[c].phase = "reopen" => event[call'[c].id] = "FAILED"
               /\ call'[c].read.status = "NONE"
    <2> DEFINE p == IF event[t] = "NONE" THEN "create" ELSE "reopen"
    <2>1. Start(c, "webhook", p, t) /\ event[t] \in {"NONE", "FAILED"}
      BY <1>1 DEF ReceiveWebhook
    <2>2. QED
      BY <2>1, StartFacts DEF NoRead
  <1>2. CASE CreateEvent(c)
    <2>1. /\ call[c].op = "webhook"
          /\ (Goto(c, "verify") /\ EventIsNew(call[c].id)) \/ Return(c)
      BY <1>2 DEF CreateEvent, Proceed, At
    <2>2. QED
      BY <1>2, <2>1, MoveFacts DEF Idle, NoRead, At, Handling
  <1>3. CASE ReopenEvent(c)
    <2>1. At(c, "webhook", "reopen") /\ Goto(c, "verify")
      BY <1>3 DEF ReopenEvent
    <2>2. QED
      BY <1>3, <2>1, MoveFacts DEF At, Handling
  <1>4. CASE VerifyWebhook(c)
    <2>0. call[c].op = "webhook" /\ call[c].phase = "verify"
      BY <1>4 DEF VerifyWebhook, At
    <2>1. CASE Goto(c, "failed")
      BY <2>0, <2>1, MoveFacts DEF At, Handling
    <2>2. CASE call' = [call EXCEPT ![c].phase = "read",
                                    ![c].snapshot = Snapshot(call[c].id)]
      <3> DEFINE w == [call[c] EXCEPT !.phase = "read",
                                      !.snapshot = Snapshot(call[c].id)]
      <3>1. call' = [call EXCEPT ![c] = w]
        BY <2>2 DEF TypeOK
      <3>2. /\ w.op = call[c].op /\ w.phase = "read" /\ w.id = call[c].id
            /\ w.read = call[c].read /\ w.snapshot = Snapshot(call[c].id)
        BY DEF TypeOK, CallState
      <3>3. call'[c] = w /\ \A d \in Call \ {c} : call'[d] = call[d]
        BY <3>1, OneCallMoves
      <3> HIDE DEF w
      <3>4. QED
        BY <2>0, <3>2, <3>3 DEF At, Handling
    <2>3. QED
      BY <1>4, <2>1, <2>2 DEF VerifyWebhook
  <1>5. CASE ReadDeposit(c)
    <2> DEFINE r == [status |-> deposit.status, refunded |-> deposit.refunded,
                     retained |-> deposit.retained, refund |-> refund.status,
                     capture |-> lastCapture]
               w == [call[c] EXCEPT !.phase = "commit", !.read = r]
    <2>0. call[c].op = "webhook" /\ call[c].phase = "read"
      BY <1>5 DEF ReadDeposit, At
    <2>1. CASE Goto(c, "failed")
      BY <2>0, <2>1, MoveFacts DEF At, Handling
    <2>2. CASE call' = [call EXCEPT ![c].phase = "commit", ![c].read = r]
      <3>1. call' = [call EXCEPT ![c] = w]
        BY <2>2 DEF TypeOK
      <3>2. /\ w.op = call[c].op /\ w.phase = "commit" /\ w.id = call[c].id
            /\ w.read.status = deposit.status
            /\ w.read.refund = refund.status
            /\ w.snapshot = call[c].snapshot
        BY DEF TypeOK, CallState
      <3>3. call'[c] = w /\ \A d \in Call \ {c} : call'[d] = call[d]
        BY <3>1, OneCallMoves
      <3> HIDE DEF w
      <3>4. QED
        BY <2>0, <3>2, <3>3 DEF At, Handling
    <2>3. QED
      BY <1>5, <2>1, <2>2 DEF ReadDeposit
  <1>6. CASE CommitPaid(c) \/ CommitCanceled(c) \/ CommitAborted(c)
             \/ CommitUnchanged(c) \/ IgnoreWebhook(c) \/ FailWebhook(c)
    <2>1. /\ call[c].op = "webhook"
          /\ call[c].phase \in {"verify", "commit", "failed"}
          /\ Return(c) \/ Goto(c, "failed")
      BY <1>6 DEF CommitPaid, CommitCanceled, CommitAborted, CommitUnchanged,
                  IgnoreWebhook, FailWebhook, Complete, RollBack, At
    <2>2. QED
      BY <2>1, MoveFacts DEF Idle, NoRead, At, Handling
  <1>7. QED
    BY <1>1, <1>2, <1>3, <1>4, <1>5, <1>6 DEF WebhookNext, At, Handling

\* The steps of Next, and what those outside the service write.
LEMMA NextSteps ==
    ASSUME TypeOK, [Next]_vars
    PROVE  \/ \E c \in Call : ConfirmNext(c) \/ RefundNext(c) \/ WebhookNext(c)
           \/ /\ UNCHANGED <<visit, books, event, charged, returned, history>>
              /\ \/ UNCHANGED call
                 \/ \E c \in Call : /\ call'[c] = Idle
                                    /\ \A d \in Call \ {c} : call'[d] = call[d]
           \/ \E a \in Cancellation : CancelAtProvider(a)
           \/ ClaimExpires
  <1>1. ASSUME NEW c \in Call, Crash(c)
        PROVE  /\ UNCHANGED <<visit, books, event, charged, returned, history>>
               /\ call'[c] = Idle
               /\ \A d \in Call \ {c} : call'[d] = call[d]
    BY <1>1, MoveFacts DEF Crash, provider
  <1>2. CASE UNCHANGED vars
    BY <1>2 DEF vars, provider
  <1>3. QED
    BY <1>1, <1>2 DEF Next

-----------------------------------------------------------------------------
(* One charge, one row *)

LEMMA PaymentStep == TypeOK /\ PaymentInv /\ [Next]_vars => PaymentInv'
  <1> SUFFICES ASSUME TypeOK, PaymentInv, [Next]_vars PROVE PaymentInv'
    OBVIOUS
  <1> DEFINE Owned(w) == /\ w.op = "confirm" => w.id \in Key
                         /\ w.op = "webhook" => w.id \in Transmission
  <1>0. Owned(Idle)
    BY DEF Idle
  <1>1. \A c \in Call : Owned(call[c])
    BY DEF PaymentInv
  <1>2. ASSUME UNCHANGED <<capture, captureRef>>,
               deposit'.status = "PAID" => deposit.status = "PAID",
               \A c \in Call : Owned(call'[c])
        PROVE  PaymentInv'
    BY <1>2 DEF PaymentInv, OnePayment
  <1>3. ASSUME NEW c \in Call, ConfirmNext(c)
        PROVE  PaymentInv'
    <2>1. \A d \in Call : Owned(call'[d])
      BY <1>1, <1>3, ConfirmMoves
    <2>2. CASE CommitPrepare(c) \/ CreateCapture(c) \/ FailConfirm(c)
      <3>1. OnePayment'
        BY <2>2 DEF CommitPrepare, CreateCapture, FailConfirm, OnePayment,
                    PaymentInv, TypeOK
      <3>2. QED
        BY <2>1, <3>1 DEF PaymentInv
    <2>3. CASE CommitConfirm(c)
      <3>1. CASE ~ReferenceFree(call[c].id)
        BY <1>2, <2>1, <2>3, <3>1 DEF CommitConfirm
      <3>2. CASE ReferenceFree(call[c].id)
        <4>1. call[c].id \in Key
          BY <1>1, <2>3 DEF CommitConfirm, At
        <4>2. \A k \in CaptureRow : capture[k] = "SUCCEEDED" =>
                 k = call[c].id
          BY <3>2, DepositAssumption DEF ReferenceFree, PaymentInv, OnePayment,
                                         CaptureRow
        <4>3. /\ capture' = [capture EXCEPT ![call[c].id] = "SUCCEEDED"]
              /\ captureRef' = call[c].id
          BY <2>3, <3>2 DEF CommitConfirm
        <4>4. OnePayment'
          BY <4>1, <4>2, <4>3, DepositAssumption DEF OnePayment, TypeOK
        <4>5. QED
          BY <2>1, <4>4 DEF PaymentInv
      <3>3. QED
        BY <3>1, <3>2
    <2>4. QED
      BY <1>2, <1>3, <2>1, <2>2, <2>3, ConfirmWrites
  <1>4. ASSUME NEW c \in Call, RefundNext(c)
        PROVE  PaymentInv'
    <2>1. \A d \in Call : Owned(call'[d])
      BY <1>1, <1>4, RefundMoves
    <2>2. deposit'.status = "PAID" => deposit.status = "PAID"
      BY <1>4, RefundWrites DEF CommitCancel, CommitRefund, TypeOK
    <2>3. QED
      BY <1>2, <1>4, <2>1, <2>2, RefundWrites
  <1>5. ASSUME NEW c \in Call, WebhookNext(c)
        PROVE  PaymentInv'
    <2>1. \A d \in Call : Owned(call'[d])
      BY <1>1, <1>5, WebhookMoves
    <2>2. CASE CommitPaid(c)
      <3> DEFINE k == IF call[c].read.capture = None THEN call[c].id
                      ELSE call[c].read.capture
      <3>1. k \in CaptureRow
        BY <1>1, <2>2 DEF CommitPaid, At, TypeOK, CallState, CaptureRow
      <3>2. \/ UNCHANGED books
            \/ /\ ReferenceFree(k)
               /\ capture' = [capture EXCEPT ![k] = "SUCCEEDED"]
               /\ captureRef' = k
        BY <2>2 DEF CommitPaid, RollBack
      <3> HIDE DEF k
      <3>3. CASE UNCHANGED books
        BY <1>2, <2>1, <3>3 DEF books
      <3>4. CASE /\ ReferenceFree(k)
                 /\ capture' = [capture EXCEPT ![k] = "SUCCEEDED"]
                 /\ captureRef' = k
        <4>1. \A j \in CaptureRow : capture[j] = "SUCCEEDED" => j = k
          BY <3>4, DepositAssumption DEF ReferenceFree, PaymentInv, OnePayment,
                                         CaptureRow
        <4>2. OnePayment'
          BY <3>1, <3>4, <4>1, DepositAssumption
             DEF OnePayment, TypeOK, CaptureRow
        <4>3. QED
          BY <2>1, <4>2 DEF PaymentInv
      <3>5. QED
        BY <3>2, <3>3, <3>4
    <2>3. CASE CommitCanceled(c)
      <3>1. deposit'.status = "PAID" => deposit.status = "PAID"
        BY <2>3, CanceledWrites DEF FinalStatus
      <3>2. QED
        BY <1>2, <2>1, <2>3, <3>1, CanceledWrites
    <2>4. CASE CommitAborted(c)
      <3>1. deposit'.status # "PAID"
        BY <2>4 DEF CommitAborted, TypeOK
      <3>2. QED
        BY <1>2, <2>1, <2>4, <3>1 DEF CommitAborted
    <2>5. QED
      BY <1>2, <1>5, <2>1, <2>2, <2>3, <2>4, WebhookWrites
  <1>6. CASE /\ UNCHANGED <<visit, books, event, charged, returned, history>>
             /\ \/ UNCHANGED call
                \/ \E c \in Call : /\ call'[c] = Idle
                                   /\ \A d \in Call \ {c} : call'[d] = call[d]
    BY <1>0, <1>1, <1>2, <1>6 DEF books
  <1>7. CASE ClaimExpires \/ \E a \in Cancellation : CancelAtProvider(a)
    BY <1>1, <1>2, <1>7 DEF ClaimExpires, CancelAtProvider, books
  <1>8. QED
    BY <1>3, <1>4, <1>5, <1>6, <1>7, NextSteps

LEMMA InitPayment == Init => PaymentInv
  BY DEF Init, PaymentInv, OnePayment, Idle

\* One charge is settled on one capture row, whichever of a confirmation and
\* a webhook learns of it first.
THEOREM ChargeIsSettledOnce == Spec => []OnePayment
  <1>1. PaymentInv => OnePayment
    BY DEF PaymentInv
  <1>2. QED
    BY <1>1, InitType, TypeStep, InitPayment, PaymentStep, PTL DEF Spec

-----------------------------------------------------------------------------
(* One handling of a transmission *)

LEMMA HandledStep == TypeOK /\ HandledInv /\ [Next]_vars => HandledInv'
  <1> SUFFICES ASSUME TypeOK, HandledInv, [Next]_vars PROVE HandledInv'
    OBVIOUS
  <1> DEFINE Waits(w) == /\ w.op = "webhook" => w.id \in Transmission
                         /\ w.op = "webhook" /\ w.phase = "reopen" =>
                               w.id \in failed
  <1>0. Idle.op # "webhook"
    BY DEF Idle
  <1>1. \A c \in Call : Waits(call[c])
    BY DEF HandledInv, At
  \* A call that leaves the webhooks, or never was among them.
  <1>2. ASSUME UNCHANGED <<event, failed>>,
               \A c \in Call : call'[c] = call[c] \/ call'[c].op # "webhook"
        PROVE  HandledInv'
    BY <1>2 DEF HandledInv, HandledOnce, Handling, At
  <1>3. ASSUME NEW c \in Call, ConfirmNext(c) \/ RefundNext(c)
        PROVE  HandledInv'
    <2>1. UNCHANGED <<event, failed>>
      BY <1>3, ConfirmWrites, RefundWrites DEF history
    <2>2. \A d \in Call : call'[d] = call[d] \/ call'[d].op # "webhook"
      BY <1>3, ConfirmMoves, RefundMoves
    <2>3. QED
      BY <1>2, <2>1, <2>2
  <1>4. ASSUME NEW c \in Call, WebhookNext(c)
        PROVE  HandledInv'
    <2> DEFINE t == call[c].id
    <2>0. /\ \A d \in Call \ {c} : call'[d] = call[d]
          /\ call[c].op = "webhook" => t \in Transmission
          /\ failed \subseteq failed'
      BY <1>1, <1>4, WebhookMoves, WebhookWrites DEF FailWebhook
    <2>1. \A s \in Transmission : event'[s] = "FAILED" => s \in failed'
      <3>1. CASE FailWebhook(c)
        BY <3>1 DEF FailWebhook, HandledInv, TypeOK
      <3>2. CASE ~FailWebhook(c)
        <4>1. \A s \in Transmission :
                 event'[s] \in {event[s], "RECEIVED", "PROCESSED"}
          BY <1>4, <3>2, WebhookWrites
             DEF CreateEvent, ReopenEvent, Complete, TypeOK
        <4>2. QED
          BY <2>0, <4>1 DEF HandledInv
      <3>3. QED
        BY <3>1, <3>2
    <2>2. \A d \in Call : /\ call'[d].op = "webhook" =>
                                call'[d].id \in Transmission
                          /\ At(d, "webhook", "reopen")' =>
                                call'[d].id \in failed'
      <3>1. call'[c].op = "webhook" => call'[c].id \in Transmission
        BY <1>4, <2>0, WebhookMoves
      <3>2. At(c, "webhook", "reopen")' => call'[c].id \in failed'
        BY <1>4, <2>0, <3>1, WebhookMoves DEF HandledInv, At
      <3>3. QED
        BY <1>1, <2>0, <3>1, <3>2 DEF At
    <2>3. ASSUME NEW d \in Call, Handling(d)', call'[d].id \notin failed'
          PROVE  /\ event'[call'[d].id] = "RECEIVED"
                 /\ \A e \in Call \ {d} : Handling(e)' =>
                                             call'[e].id # call'[d].id
      <3>0. /\ d # c => Handling(d) /\ call'[d].id = call[d].id
            /\ call'[d].id \notin failed
        BY <2>0, <2>3 DEF Handling
      <3>1. CASE CreateEvent(c) /\ EventIsNew(t)
        <4>1. \A e \in Call : Handling(e) /\ call[e].id \notin failed =>
                 call[e].id # t
          BY <3>1 DEF EventIsNew, HandledInv, HandledOnce
        <4>2. /\ event' = [event EXCEPT ![t] = "RECEIVED"]
              /\ t \in Transmission
          BY <2>0, <3>1 DEF CreateEvent, At
        <4>3. Handling(c)' => call'[c].id = t
          BY <1>4, WebhookMoves
        <4>4. CASE d = c
          <5>1. \A e \in Call \ {c} : Handling(e)' =>
                   Handling(e) /\ call'[e].id = call[e].id
            BY <2>0 DEF Handling
          <5>2. QED
            BY <2>3, <3>0, <4>1, <4>2, <4>3, <4>4, <5>1 DEF TypeOK
        <4>5. CASE d # c
          <5>1. \A e \in Call \ {d} : Handling(e) => call[e].id # call[d].id
            BY <3>0, <4>5 DEF HandledInv, HandledOnce
          <5>2. \A e \in Call \ {d} : Handling(e)' =>
                   call'[e].id # call[d].id
            BY <2>0, <3>0, <4>1, <4>3, <4>5, <5>1 DEF Handling
          <5>3. event[call[d].id] = "RECEIVED"
            BY <3>0, <4>5 DEF HandledInv, HandledOnce
          <5>4. QED
            BY <3>0, <4>2, <4>5, <5>2, <5>3 DEF TypeOK
        <4>6. QED
          BY <4>4, <4>5
      <3>2. CASE ~(CreateEvent(c) /\ EventIsNew(t))
        <4>1. Handling(c)' =>
                 /\ call'[c].id = t
                 /\ t \notin failed => Handling(c)
          BY <1>1, <1>4, <3>2, WebhookMoves DEF At
        <4>2. Handling(d) /\ call'[d].id = call[d].id
          BY <2>3, <3>0, <4>1
        <4>3. \A e \in Call \ {d} : Handling(e) => call[e].id # call[d].id
          BY <3>0, <4>2 DEF HandledInv, HandledOnce
        <4>4. \A e \in Call \ {d} : Handling(e)' => call'[e].id # call[d].id
          BY <2>0, <3>0, <4>1, <4>2, <4>3 DEF Handling
        <4>5. event[call[d].id] = "RECEIVED" /\ call[d].id \in Transmission
          BY <1>1, <3>0, <4>2 DEF HandledInv, HandledOnce, Handling
        <4>6. event'[call[d].id] = "RECEIVED"
          <5>1. CASE UNCHANGED event
            BY <4>5, <5>1
          <5>2. CASE CreateEvent(c) \/ ReopenEvent(c)
            BY <4>5, <5>2 DEF CreateEvent, ReopenEvent, TypeOK
          <5>3. CASE \/ FailWebhook(c)
                     \/ Complete(c) /\ Handling(c)
            <6>1. call'[c] = Idle
              BY <5>3, MoveFacts DEF FailWebhook, Complete
            <6>2. d # c
              BY <1>0, <2>3, <6>1 DEF Handling
            <6>3. \A s \in Transmission \ {t} : event'[s] = event[s]
              BY <5>3 DEF FailWebhook, Complete, TypeOK
            <6>4. call[d].id # t
              <7>1. Handling(c)
                BY <5>3 DEF FailWebhook, At, Handling
              <7>2. QED
                BY <4>3, <6>2, <7>1
            <6>5. QED
              BY <4>5, <6>3, <6>4
          <5>4. QED
            BY <1>4, <5>1, <5>2, <5>3, WebhookWrites
        <4>7. QED
          BY <4>2, <4>4, <4>6
      <3>3. QED
        BY <3>1, <3>2
    <2>4. HandledOnce'
      BY <2>3 DEF HandledOnce
    <2>5. QED
      BY <2>1, <2>2, <2>4 DEF HandledInv
  <1>5. CASE /\ UNCHANGED <<visit, books, event, charged, returned, history>>
             /\ \/ UNCHANGED call
                \/ \E c \in Call : /\ call'[c] = Idle
                                   /\ \A d \in Call \ {c} : call'[d] = call[d]
    BY <1>0, <1>2, <1>5 DEF history
  <1>6. CASE ClaimExpires \/ \E a \in Cancellation : CancelAtProvider(a)
    BY <1>2, <1>6 DEF ClaimExpires, CancelAtProvider, history
  <1>7. QED
    BY <1>3, <1>4, <1>5, <1>6, NextSteps

LEMMA InitHandled == Init => HandledInv
  BY DEF Init, HandledInv, HandledOnce, Handling, At, Idle

\* A transmission is handled by one call, once, unless its handling failed.
THEOREM TransmissionsAreHandledOnce == Spec => []HandledOnce
  <1>1. HandledInv => HandledOnce
    BY DEF HandledInv
  <1>2. QED
    BY <1>1, InitType, TypeStep, InitHandled, HandledStep, PTL DEF Spec

-----------------------------------------------------------------------------
(* Retries exclude each other *)

LEMMA RetryStep == TypeOK /\ RetryInv /\ [Next]_vars => RetryInv'
  <1> SUFFICES ASSUME TypeOK, RetryInv, [Next]_vars PROVE RetryInv'
    OBVIOUS
  <1> DEFINE Firm(r) == r.status \in {"PROCESSING", "SUCCEEDED"} /\ ~r.stale
  <1>0. Idle.op # "retry"
    BY DEF Idle
  \* A step that keeps a firm claim and lets no call in.
  <1>1. ASSUME ~loosed' => ~loosed,
               \A c \in Call : Retrying(c)' => Retrying(c),
               ~loosed' /\ Firm(refund) =>
                  Firm(refund') \/ \A c \in Call : ~Retrying(c)'
        PROVE  RetryInv'
    BY <1>1 DEF RetryInv, RetriesExcludeEachOther
  <1>2. ASSUME NEW c \in Call, ConfirmNext(c)
        PROVE  RetryInv'
    <2>1. UNCHANGED <<refund, loosed>>
      BY <1>2, ConfirmWrites DEF history
    <2>2. \A d \in Call : Retrying(d)' => Retrying(d)
      BY <1>2, ConfirmMoves DEF Retrying
    <2>3. QED
      BY <1>1, <2>1, <2>2
  <1>3. ASSUME NEW c \in Call, WebhookNext(c)
        PROVE  RetryInv'
    <2>1. UNCHANGED loosed
      BY <1>3, WebhookWrites
    <2>2. \A d \in Call : Retrying(d)' => Retrying(d)
      BY <1>3, WebhookMoves DEF Retrying
    <2>3. Firm(refund) => Firm(refund')
      <3>1. CASE UNCHANGED refund
        BY <3>1
      <3>2. CASE CommitCanceled(c)
        <4>1. \/ refund' = refund
              \/ refund' = [refund EXCEPT !.status = "SUCCEEDED",
                                          !.reference = call[c].snapshot.amount]
          BY <3>2 DEF CommitCanceled, RollBack, books
        <4>2. QED
          BY <4>1 DEF TypeOK
      <3>3. QED
        BY <1>3, <3>1, <3>2, WebhookWrites
    <2>4. QED
      BY <1>1, <2>1, <2>2, <2>3
  <1>4. ASSUME NEW c \in Call, RefundNext(c)
        PROVE  RetryInv'
    <2>1. \A d \in Call \ {c} : Retrying(d)' => Retrying(d)
      BY <1>4, RefundMoves DEF Retrying
    <2>2. Retrying(c)' => Retrying(c) \/ (ClaimRefund(c) /\ Claimable)
      BY <1>4, RefundMoves
    <2>3. ~loosed' => ~loosed
      BY <1>4, RefundWrites DEF FailRefund
    <2>4. CASE ClaimRefund(c) /\ Claimable
      <3>1. /\ refund' = [refund EXCEPT !.status = "PROCESSING", !.stale = FALSE]
            /\ UNCHANGED loosed
        BY <2>4 DEF ClaimRefund, history
      <3>2. ~Firm(refund)
        BY <2>4 DEF Claimable
      <3>3. ~loosed => \A d \in Call : ~Retrying(d)
        BY <3>2 DEF RetryInv
      <3>4. Firm(refund')
        BY <3>1 DEF TypeOK
      <3>5. QED
        BY <2>1, <3>1, <3>3, <3>4 DEF RetryInv, RetriesExcludeEachOther
    <2>5. CASE FailRefund(c)
      <3>1. ~Retrying(c)'
        BY <1>0, <2>5, MoveFacts DEF FailRefund, Retrying
      <3>2. ~loosed' /\ Firm(refund) => \A d \in Call \ {c} : ~Retrying(d)
        BY <2>5 DEF FailRefund, Retrying, RetryInv, RetriesExcludeEachOther
      <3>3. QED
        BY <1>1, <2>1, <2>3, <3>1, <3>2
    <2>6. CASE ~(ClaimRefund(c) /\ Claimable) /\ ~FailRefund(c)
      <3>1. CASE CommitCancel(c)
        <4>1. refund' = refund \/ refund.status = "NONE"
          BY <3>1 DEF CommitCancel
        <4>2. QED
          BY <1>1, <2>1, <2>2, <2>3, <2>6, <4>1
      <3>2. CASE CommitRefund(c)
        <4>1. \/ refund' = refund
              \/ refund' = [refund EXCEPT !.status = "SUCCEEDED",
                                          !.reference = Amount]
          BY <3>2 DEF CommitRefund
        <4>2. Firm(refund) => Firm(refund')
          BY <4>1 DEF TypeOK
        <4>3. QED
          BY <1>1, <2>1, <2>2, <2>3, <2>6, <4>2
      <3>3. CASE UNCHANGED refund
        BY <1>1, <2>1, <2>2, <2>3, <2>6, <3>3
      <3>4. CASE ClaimRefund(c)
        <4>1. UNCHANGED refund
          BY <2>6, <3>4 DEF ClaimRefund
        <4>2. QED
          BY <3>3, <4>1
      <3>5. QED
        BY <1>4, <2>6, <3>1, <3>2, <3>3, <3>4, RefundWrites
    <2>7. QED
      BY <2>4, <2>5, <2>6
  <1>5. CASE /\ UNCHANGED <<visit, books, event, charged, returned, history>>
             /\ \/ UNCHANGED call
                \/ \E c \in Call : /\ call'[c] = Idle
                                   /\ \A d \in Call \ {c} : call'[d] = call[d]
    <2>1. UNCHANGED <<refund, loosed>>
      BY <1>5 DEF books, history
    <2>2. \A d \in Call : Retrying(d)' => Retrying(d)
      BY <1>0, <1>5 DEF Retrying
    <2>3. QED
      BY <1>1, <2>1, <2>2
  <1>6. CASE \E a \in Cancellation : CancelAtProvider(a)
    BY <1>1, <1>6 DEF CancelAtProvider, books, history, Retrying
  <1>7. CASE ClaimExpires
    BY <1>7 DEF ClaimExpires, RetryInv, RetriesExcludeEachOther
  <1>8. QED
    BY <1>2, <1>3, <1>4, <1>5, <1>6, <1>7, NextSteps

LEMMA InitRetry == Init => RetryInv
  BY DEF Init, RetryInv, RetriesExcludeEachOther, Retrying, Idle

\* At most one administrator's retry of the refund is at work, as long as no
\* claim has expired and no cancellation's own attempt has failed over one.
THEOREM OneRetryAtATime == Spec => []RetriesExcludeEachOther
  <1>1. RetryInv => RetriesExcludeEachOther
    BY DEF RetryInv
  <1>2. QED
    BY <1>1, InitType, TypeStep, InitRetry, RetryStep, PTL DEF Spec

-----------------------------------------------------------------------------
(* The books and the money *)

\* The provider never takes a charge or a cancellation back.
LEMMA MoneyGrows ==
    ASSUME TypeOK, [Next]_vars
    PROVE  (charged => charged') /\ returned <= returned'
  <1>1. ASSUME NEW c \in Call, ConfirmNext(c)
        PROVE  (charged => charged') /\ returned <= returned'
    <2>1. UNCHANGED returned /\ (UNCHANGED charged \/ CallCapture(c))
      BY <1>1, ConfirmWrites
    <2>2. charged => charged'
      BY <2>1 DEF CallCapture
    <2>3. QED
      BY <2>1, <2>2 DEF TypeOK
  <1>2. ASSUME NEW c \in Call, RefundNext(c)
        PROVE  (charged => charged') /\ returned <= returned'
    <2>1. returned' = returned \/ returned' = Amount
      BY <1>2, RefundWrites DEF CallRefund
    <2>2. UNCHANGED charged
      BY <1>2, RefundWrites
    <2>3. QED
      BY <2>1, <2>2, DepositAssumption DEF TypeOK
  <1>3. ASSUME NEW c \in Call, WebhookNext(c)
        PROVE  (charged => charged') /\ returned <= returned'
    BY <1>3, WebhookWrites DEF provider, TypeOK
  <1>4. ASSUME NEW a \in Cancellation, CancelAtProvider(a)
        PROVE  (charged => charged') /\ returned <= returned'
    BY <1>4, DepositAssumption DEF CancelAtProvider, TypeOK
  <1>5. CASE ClaimExpires
    BY <1>5 DEF ClaimExpires, provider, TypeOK
  <1>6. QED
    BY <1>1, <1>2, <1>3, <1>4, <1>5, NextSteps DEF TypeOK

\* A snapshot is true, and stays so.
SnapshotTrue(s) ==
    /\ s.amount <= returned
    /\ s.status = "DONE" => charged
    /\ s.status = "CANCELED" => charged /\ s.amount > 0

LEMMA SnapshotIsTrue ==
    ASSUME TypeOK, NEW t
    PROVE  SnapshotTrue(Snapshot(t))
  BY DEF TypeOK, SnapshotTrue, Snapshot

\* What a call at the point of recording money knows.
MoneyCall(w) ==
    /\ w.op = "confirm" /\ w.phase = "commit" => charged
    /\ w.op = "cancel" /\ w.phase \in {"queue", "commit"}
          /\ w.read.status = "PAID" => charged
    /\ w.op \in {"cancel", "retry"} /\ w.phase = "refunded" =>
          charged /\ returned = Amount
    /\ w.op = "webhook" /\ w.phase \in {"read", "commit"} =>
          SnapshotTrue(w.snapshot)

LEMMA MoneyCallsDef ==
    MoneyInv <=> RecordedMoneyIsReal /\ \A c \in Call : MoneyCall(call[c])
  BY DEF MoneyInv, MoneyCall, SnapshotTrue, Cancelling, At

\* A call that does not move still knows it.
LEMMA MoneyCallStays ==
    ASSUME TypeOK, [Next]_vars, NEW w \in CallState, MoneyCall(w)
    PROVE  MoneyCall(w)'
  <1>1. /\ charged => charged'
        /\ returned <= returned'
        /\ returned \in 0..Amount /\ returned' \in 0..Amount
    BY MoneyGrows, TypeStep DEF TypeOK
  <1>2. w.snapshot.amount \in 0..Amount
    BY DEF CallState
  <1>3. QED
    BY <1>1, <1>2, DepositAssumption DEF MoneyCall, SnapshotTrue

LEMMA MoneyCallsStep ==
    ASSUME TypeOK, MoneyInv, [Next]_vars, NEW d \in Call
    PROVE  MoneyCall(call[d])'
  <1>0. \A w \in CallState : MoneyCall(w) => MoneyCall(w)'
    BY MoneyCallStays
  <1>1. \A c \in Call : MoneyCall(call[c]) /\ call[c] \in CallState
    BY MoneyCallsDef DEF TypeOK
  <1>2. CASE call'[d] = call[d]
    <2>1. PICK w \in CallState : w = call[d] /\ w = call'[d]
      BY <1>1, <1>2
    <2>2. MoneyCall(w)'
      BY <1>0, <1>1, <2>1
    <2>3. QED
      BY <2>1, <2>2 DEF MoneyCall, SnapshotTrue
  <1>3. CASE call'[d] = Idle
    BY <1>3 DEF MoneyCall, Idle
  <1>4. CASE ConfirmNext(d)
    <2>1. /\ call'[d].op \in {"none", "prepare", "confirm"}
          /\ call'[d].op = "confirm" /\ call'[d].phase = "commit" => charged'
      BY <1>4, ConfirmMoves DEF At
    <2>2. QED
      BY <2>1 DEF MoneyCall
  <1>5. CASE RefundNext(d)
    <2>1. /\ call'[d].op \in {"none", "cancel", "retry"}
          /\ call'[d].op = "cancel" /\ call'[d].phase \in {"queue", "commit"} =>
                \/ call'[d].read.status = deposit.status
                \/ /\ call[d].op = "cancel"
                   /\ call[d].phase \in {"queue", "commit"}
                   /\ call'[d].read = call[d].read
          /\ call'[d].phase = "refunded" => charged /\ returned' = Amount
          /\ UNCHANGED charged
      BY <1>5, RefundMoves, RefundWrites DEF Cancelling
    <2>2. deposit.status = "PAID" => charged
      BY DEF MoneyInv, RecordedMoneyIsReal
    <2>3. call[d].op = "cancel" /\ call[d].phase \in {"queue", "commit"}
             /\ call[d].read.status = "PAID" => charged
      BY <1>1 DEF MoneyCall
    <2>4. QED
      BY <2>1, <2>2, <2>3 DEF MoneyCall
  <1>6. CASE WebhookNext(d)
    <2>1. /\ call'[d].op \in {"none", "webhook"}
          /\ call'[d].op = "webhook" /\ call'[d].phase \in {"read", "commit"} =>
                \/ call'[d].snapshot = Snapshot(call[d].id)
                \/ /\ call[d].op = "webhook" /\ call[d].phase = "read"
                   /\ call'[d].snapshot = call[d].snapshot
      BY <1>6, WebhookMoves
    <2>2. UNCHANGED <<charged, returned>>
      BY <1>6, WebhookWrites DEF provider
    <2>3. SnapshotTrue(Snapshot(call[d].id))
      BY SnapshotIsTrue
    <2>4. call[d].op = "webhook" /\ call[d].phase = "read" =>
             SnapshotTrue(call[d].snapshot)
      BY <1>1 DEF MoneyCall
    <2>5. QED
      BY <2>1, <2>2, <2>3, <2>4 DEF MoneyCall, SnapshotTrue
  <1>7. CASE ClaimExpires \/ \E a \in Cancellation : CancelAtProvider(a)
    BY <1>2, <1>7 DEF ClaimExpires, CancelAtProvider
  <1>8. QED
    BY <1>2, <1>3, <1>4, <1>5, <1>6, <1>7, NextSteps, ConfirmMoves, RefundMoves,
       WebhookMoves

\* A status of the deposit that tells the truth.
StatusReal(s) ==
    /\ s \in {"PAID", "REFUND_PENDING"} => charged
    /\ s = "REFUNDED" => charged /\ returned = Amount
    /\ s = "PARTIALLY_REFUNDED" => charged /\ returned > 0

LEMMA FinalStatusReal ==
    ASSUME TypeOK, NEW a \in 0..Amount, charged, a > 0, a <= returned
    PROVE  StatusReal(FinalStatus(a))
  BY DepositAssumption DEF StatusReal, FinalStatus, TypeOK

\* What a step writes to the deposit is already true.
LEMMA StatusWritten ==
    ASSUME TypeOK, MoneyInv, [Next]_vars
    PROVE  StatusReal(deposit'.status)
  <1>0. /\ StatusReal(deposit.status)
        /\ \A c \in Call : MoneyCall(call[c]) /\ call[c] \in CallState
        /\ \A s \in {"READY", "FAILED"} : StatusReal(s)
        /\ charged => StatusReal("PAID") /\ StatusReal("REFUND_PENDING")
    BY MoneyCallsDef DEF MoneyInv, RecordedMoneyIsReal, StatusReal, TypeOK
  <1>1. ASSUME UNCHANGED deposit
        PROVE  StatusReal(deposit'.status)
    BY <1>0, <1>1
  <1>2. ASSUME NEW c \in Call, CommitPrepare(c)
        PROVE  StatusReal(deposit'.status)
    <2>1. deposit'.status \in {deposit.status, "READY"}
      BY <1>2 DEF CommitPrepare, TypeOK
    <2>2. QED
      BY <1>0, <2>1
  <1>3. ASSUME NEW c \in Call, CommitConfirm(c)
        PROVE  StatusReal(deposit'.status)
    <2>1. charged
      BY <1>0, <1>3 DEF CommitConfirm, At, MoneyCall
    <2>2. deposit'.status \in {deposit.status, "PAID"}
      BY <1>3 DEF CommitConfirm, Paid, TypeOK
    <2>3. QED
      BY <1>0, <2>1, <2>2
  <1>4. ASSUME NEW c \in Call, CommitCancel(c)
        PROVE  StatusReal(deposit'.status)
    <2>1. CASE RefundDue(call[c].read.status)
      <3>1. charged
        BY <1>0, <1>4, <2>1 DEF CommitCancel, RefundDue, At, MoneyCall
      <3>2. deposit'.status = "REFUND_PENDING"
        BY <1>4, <2>1 DEF CommitCancel, TypeOK
      <3>3. QED
        BY <1>0, <3>1, <3>2
    <2>2. CASE ~RefundDue(call[c].read.status)
      BY <1>1, <1>4, <2>2 DEF CommitCancel
    <2>3. QED
      BY <2>1, <2>2
  <1>5. ASSUME NEW c \in Call, CommitRefund(c)
        PROVE  StatusReal(deposit'.status)
    <2>1. charged /\ returned = Amount
      BY <1>0, <1>5 DEF CommitRefund, MoneyCall
    <2>2. deposit'.status \in {deposit.status, "REFUNDED",
                               "PARTIALLY_REFUNDED"}
      BY <1>5 DEF CommitRefund, TypeOK
    <2>3. StatusReal("REFUNDED") /\ StatusReal("PARTIALLY_REFUNDED")
      BY <2>1, DepositAssumption DEF StatusReal
    <2>4. QED
      BY <1>0, <2>2, <2>3
  <1>6. ASSUME NEW c \in Call, CommitPaid(c)
        PROVE  StatusReal(deposit'.status)
    <2>1. charged
      BY <1>0, <1>6 DEF CommitPaid, Captures, At, MoneyCall, SnapshotTrue
    <2>2. deposit'.status \in {deposit.status, "PAID"}
      BY <1>6 DEF CommitPaid, RollBack, books, Paid, TypeOK
    <2>3. QED
      BY <1>0, <2>1, <2>2
  <1>7. ASSUME NEW c \in Call, CommitCanceled(c)
        PROVE  StatusReal(deposit'.status)
    <2> DEFINE a == call[c].snapshot.amount
    <2>1. charged /\ a \in 0..Amount /\ a > 0 /\ a <= returned
      BY <1>0, <1>7 DEF CommitCanceled, Refunds, At, MoneyCall, SnapshotTrue,
                        CallState
    <2>2. deposit'.status \in {deposit.status, FinalStatus(a)}
      BY <1>7, CanceledWrites
    <2>3. QED
      BY <1>0, <2>1, <2>2, FinalStatusReal
  <1>8. ASSUME NEW c \in Call, CommitAborted(c)
        PROVE  StatusReal(deposit'.status)
    BY <1>0, <1>8 DEF CommitAborted, TypeOK
  <1>9. CASE ClaimExpires \/ \E a \in Cancellation : CancelAtProvider(a)
    BY <1>1, <1>9 DEF ClaimExpires, CancelAtProvider, books
  <1>10. QED
    BY <1>1, <1>2, <1>3, <1>4, <1>5, <1>6, <1>7, <1>8, <1>9, NextSteps,
       ConfirmWrites, RefundWrites, WebhookWrites DEF books

\* What a step writes to the refund rows is already returned.
LEMMA RowsWritten ==
    ASSUME TypeOK, MoneyInv, [Next]_vars
    PROVE  /\ refund'.reference <= returned
           /\ \A t \in Transmission : extra'[t] <= returned
  <1>0. /\ refund.reference <= returned
        /\ \A t \in Transmission : extra[t] <= returned
        /\ \A c \in Call : MoneyCall(call[c]) /\ call[c] \in CallState
    BY MoneyCallsDef DEF MoneyInv, RecordedMoneyIsReal, TypeOK
  <1>1. ASSUME refund'.reference = refund.reference, UNCHANGED extra
        PROVE  /\ refund'.reference <= returned
               /\ \A t \in Transmission : extra'[t] <= returned
    BY <1>0, <1>1
  <1>2. ASSUME NEW c \in Call, RefundNext(c)
        PROVE  /\ refund'.reference <= returned
               /\ \A t \in Transmission : extra'[t] <= returned
    <2>1. CASE CommitRefund(c)
      <3>1. returned = Amount
        BY <1>0, <2>1 DEF CommitRefund, MoneyCall
      <3>2. refund'.reference \in {refund.reference, Amount}
        BY <2>1 DEF CommitRefund, TypeOK
      <3>3. UNCHANGED extra
        BY <1>2, RefundWrites
      <3>4. QED
        BY <1>0, <3>1, <3>2, <3>3, DepositAssumption
    <2>2. CASE CommitCancel(c) \/ ClaimRefund(c) \/ FailRefund(c)
      <3>1. refund'.reference = refund.reference
        BY <2>2 DEF CommitCancel, ClaimRefund, FailRefund, TypeOK
      <3>2. QED
        BY <1>1, <1>2, <3>1, RefundWrites
    <2>3. QED
      BY <1>1, <1>2, <2>1, <2>2, RefundWrites
  <1>3. ASSUME NEW c \in Call, CommitCanceled(c)
        PROVE  /\ refund'.reference <= returned
               /\ \A t \in Transmission : extra'[t] <= returned
    <2> DEFINE a == call[c].snapshot.amount
    <2>1. a <= returned
      BY <1>0, <1>3 DEF CommitCanceled, At, MoneyCall, SnapshotTrue
    <2>2. /\ refund'.reference \in {refund.reference, a}
          /\ extra' = extra \/ extra' = [extra EXCEPT ![call[c].id] = a]
      BY <1>3, CanceledWrites DEF TypeOK
    <2>3. QED
      BY <1>0, <2>1, <2>2 DEF TypeOK
  <1>4. CASE ClaimExpires \/ \E a \in Cancellation : CancelAtProvider(a)
    BY <1>1, <1>4 DEF ClaimExpires, CancelAtProvider, books, TypeOK
  <1>5. QED
    BY <1>1, <1>2, <1>3, <1>4, NextSteps, ConfirmWrites, WebhookWrites DEF books

LEMMA MoneyStep == TypeOK /\ MoneyInv /\ [Next]_vars => MoneyInv'
  <1> SUFFICES ASSUME TypeOK, MoneyInv, [Next]_vars PROVE MoneyInv'
    OBVIOUS
  <1>1. /\ charged => charged'
        /\ returned <= returned'
        /\ returned \in 0..Amount /\ returned' \in 0..Amount
        /\ Amount \in Nat /\ Amount > 0
        /\ refund'.reference \in 0..Amount
        /\ \A t \in Transmission : extra'[t] \in 0..Amount
    BY MoneyGrows, TypeStep, DepositAssumption DEF TypeOK
  <1>2. \A c \in Call : MoneyCall(call[c])'
    BY MoneyCallsStep
  <1>3. RecordedMoneyIsReal'
    BY <1>1, StatusWritten, RowsWritten DEF RecordedMoneyIsReal, StatusReal
  <1>4. QED
    BY <1>2, <1>3 DEF MoneyInv, MoneyCall, SnapshotTrue, Cancelling, At

LEMMA InitMoney == Init => MoneyInv
  BY DEF Init, MoneyInv, RecordedMoneyIsReal, Cancelling, At, Idle

\* The books never claim a payment or a refund that the provider did not make.
THEOREM BooksAreTrue == Spec => []RecordedMoneyIsReal
  <1>1. MoneyInv => RecordedMoneyIsReal
    BY DEF MoneyInv
  <1>2. QED
    BY <1>1, InitType, TypeStep, InitMoney, MoneyStep, PTL DEF Spec

-----------------------------------------------------------------------------
(* A queued refund stays owed *)

\* A capture comes under way only on a deposit that is READY or FAILED.
LEMMA NoNewCapture ==
    ASSUME TypeOK, [Next]_vars, CaptureInFlight', ~CaptureInFlight
    PROVE  deposit.status \in {"READY", "FAILED"}
  <1> DEFINE Captor(w) == \/ w.op = "confirm"
                          \/ /\ w.op = "webhook"
                             /\ w.read.status \in {"READY", "FAILED"}
  <1>0. ~Captor(Idle)
    BY DEF Idle
  <1>1. \A d \in Call : ~Captor(call[d])
    BY DEF CaptureInFlight
  <1>2. PICK d \in Call : Captor(call'[d])
    BY DEF CaptureInFlight
  <1>3. call'[d] # call[d] /\ call'[d] # Idle
    BY <1>0, <1>1, <1>2
  <1>4. CASE ConfirmNext(d)
    BY <1>1, <1>2, <1>4, ConfirmMoves
  <1>5. CASE RefundNext(d)
    BY <1>2, <1>5, RefundMoves
  <1>6. CASE WebhookNext(d)
    BY <1>1, <1>2, <1>6, WebhookMoves
  <1>7. CASE ClaimExpires \/ \E a \in Cancellation : CancelAtProvider(a)
    BY <1>3, <1>7 DEF ClaimExpires, CancelAtProvider
  <1>8. QED
    BY <1>3, <1>4, <1>5, <1>6, <1>7, NextSteps, ConfirmMoves, RefundMoves,
       WebhookMoves

\* The steps that write the deposit.
LEMMA DepositWriters ==
    ASSUME TypeOK, [Next]_vars
    PROVE  \/ deposit' = deposit
           \/ \E c \in Call :
                 \/ CommitPrepare(c) \/ CommitConfirm(c) \/ CommitCancel(c)
                 \/ CommitRefund(c) \/ CommitPaid(c) \/ CommitCanceled(c)
                 \/ CommitAborted(c)
  <1>1. CASE ClaimExpires \/ \E a \in Cancellation : CancelAtProvider(a)
    BY <1>1 DEF ClaimExpires, CancelAtProvider, books
  <1>2. QED
    BY <1>1, NextSteps, ConfirmWrites, RefundWrites, WebhookWrites DEF books

\* The steps that write the refund.
LEMMA RefundWriters ==
    ASSUME TypeOK, [Next]_vars
    PROVE  \/ refund' = refund
           \/ \E c \in Call :
                 \/ CommitCancel(c) \/ ClaimRefund(c) \/ CommitRefund(c)
                 \/ FailRefund(c) \/ CommitCanceled(c)
           \/ ClaimExpires
  <1>1. ASSUME NEW a \in Cancellation, CancelAtProvider(a)
        PROVE  refund' = refund
    BY <1>1 DEF CancelAtProvider, books
  <1>2. QED
    BY <1>1, NextSteps, ConfirmWrites, RefundWrites, WebhookWrites DEF books

\* What is written to the deposit.
LEMMA DepositChange ==
    ASSUME TypeOK, [Next]_vars
    PROVE  /\ deposit.reference => deposit'.reference
           /\ deposit'.status = "PAID" => deposit.status = "PAID"
                                          \/ deposit'.reference
           /\ deposit.status \in Standing \cup {"PAID"} /\ ~CaptureInFlight =>
                 deposit'.status \in Standing \cup {deposit.status}
           /\ deposit'.status = "REFUND_PENDING" =>
                 \/ deposit'.status = deposit.status
                 \/ \E c \in Call : CommitCancel(c)
                                    /\ call[c].read.status = "PAID"
  <1> DEFINE Goal ==
        /\ deposit.reference => deposit'.reference
        /\ deposit'.status = "PAID" => deposit.status = "PAID"
                                       \/ deposit'.reference
        /\ deposit.status \in Standing \cup {"PAID"} /\ ~CaptureInFlight =>
              deposit'.status \in Standing \cup {deposit.status}
        /\ deposit'.status = "REFUND_PENDING" =>
              \/ deposit'.status = deposit.status
              \/ \E c \in Call : CommitCancel(c)
                                 /\ call[c].read.status = "PAID"
  <1>1. CASE deposit' = deposit
    BY <1>1
  <1>2. ASSUME NEW c \in Call, CommitPrepare(c)
        PROVE  Goal
    BY <1>2 DEF CommitPrepare, Standing, TypeOK
  <1>3. ASSUME NEW c \in Call, CommitConfirm(c)
        PROVE  Goal
    <2>1. CaptureInFlight
      BY <1>3 DEF CommitConfirm, At, CaptureInFlight
    <2>2. deposit' = deposit \/ deposit' = Paid(deposit)
      BY <1>3 DEF CommitConfirm
    <2>3. QED
      BY <2>1, <2>2 DEF Paid, TypeOK
  <1>4. ASSUME NEW c \in Call, CommitCancel(c)
        PROVE  Goal
    <2>1. \/ deposit' = deposit
          \/ /\ call[c].read.status = "PAID"
             /\ deposit' = [deposit EXCEPT !.status = "REFUND_PENDING",
                                           !.refunded = Amount, !.retained = 0]
      BY <1>4 DEF CommitCancel, RefundDue
    <2>2. QED
      BY <1>4, <2>1 DEF Standing, TypeOK
  <1>5. ASSUME NEW c \in Call, CommitRefund(c)
        PROVE  Goal
    <2>1. deposit' \in {deposit, [deposit EXCEPT !.status = "REFUNDED"],
                        [deposit EXCEPT !.status = "PARTIALLY_REFUNDED"]}
      BY <1>5 DEF CommitRefund
    <2>2. QED
      BY <2>1 DEF Standing, TypeOK
  <1>6. ASSUME NEW c \in Call, CommitPaid(c)
        PROVE  Goal
    <2>1. CaptureInFlight
      BY <1>6 DEF CommitPaid, Captures, At, CaptureInFlight
    <2>2. deposit' = deposit \/ deposit' = Paid(deposit)
      BY <1>6 DEF CommitPaid, RollBack, books
    <2>3. QED
      BY <2>1, <2>2 DEF Paid, TypeOK
  <1>7. ASSUME NEW c \in Call, CommitCanceled(c)
        PROVE  Goal
    <2>1. \/ deposit' = deposit
          \/ /\ deposit'.reference
             /\ deposit'.status \in {"REFUNDED", "PARTIALLY_REFUNDED"}
      BY <1>7, CanceledWrites DEF FinalStatus
    <2>2. QED
      BY <2>1 DEF Standing
  <1>8. ASSUME NEW c \in Call, CommitAborted(c)
        PROVE  Goal
    <2>1. CaptureInFlight
      BY <1>8 DEF CommitAborted, Aborts, At, CaptureInFlight
    <2>2. QED
      BY <1>8, <2>1 DEF CommitAborted, TypeOK
  <1>9. QED
    BY <1>1, <1>2, <1>3, <1>4, <1>5, <1>6, <1>7, <1>8, DepositWriters

\* What is written to the refund.
LEMMA RefundChange ==
    ASSUME TypeOK, RefundInv, [Next]_vars
    PROVE  /\ refund.status # "NONE" => refund'.status # "NONE"
           /\ refund'.status # "NONE" =>
                 \/ refund.status # "NONE"
                 \/ \E c \in Call : CommitCancel(c)
                                    /\ call[c].read.status = "PAID"
           /\ refund.status \in {"PENDING", "PROCESSING", "FAILED"} =>
                 \/ refund'.status \in {"PENDING", "PROCESSING", "FAILED"}
                 \/ deposit'.status # "REFUND_PENDING"
  <1> DEFINE Open == {"PENDING", "PROCESSING", "FAILED"}
             Goal == /\ refund.status # "NONE" => refund'.status # "NONE"
                     /\ refund'.status # "NONE" =>
                           \/ refund.status # "NONE"
                           \/ \E c \in Call : CommitCancel(c)
                                              /\ call[c].read.status = "PAID"
                     /\ refund.status \in Open =>
                           \/ refund'.status \in Open
                           \/ deposit'.status # "REFUND_PENDING"
  <1>1. CASE refund' = refund
    BY <1>1
  <1>2. ASSUME NEW c \in Call, CommitCancel(c)
        PROVE  Goal
    <2>1. \/ refund' = refund
          \/ /\ call[c].read.status = "PAID"
             /\ refund.status = "NONE"
             /\ refund'.status = "PENDING"
      BY <1>2 DEF CommitCancel, RefundDue, TypeOK
    <2>2. QED
      BY <1>2, <2>1
  <1>3. ASSUME NEW c \in Call, ClaimRefund(c)
        PROVE  Goal
    BY <1>3 DEF ClaimRefund, Claimable, TypeOK
  <1>4. ASSUME NEW c \in Call, CommitRefund(c)
        PROVE  Goal
    <2>1. refund.status # "NONE"
      BY <1>4 DEF CommitRefund, RefundInv
    <2>2. \/ refund' = refund
          \/ /\ refund' = [refund EXCEPT !.status = "SUCCEEDED",
                                         !.reference = Amount]
             /\ deposit' \in {[deposit EXCEPT !.status = "REFUNDED"],
                              [deposit EXCEPT !.status = "PARTIALLY_REFUNDED"]}
      BY <1>4 DEF CommitRefund
    <2>3. QED
      BY <2>1, <2>2 DEF TypeOK
  <1>5. ASSUME NEW c \in Call, FailRefund(c)
        PROVE  Goal
    <2>1. refund.status # "NONE"
      BY <1>5 DEF FailRefund, RefundInv
    <2>2. refund'.status = "FAILED"
      BY <1>5 DEF FailRefund, TypeOK
    <2>3. QED
      BY <2>1, <2>2
  <1>6. ASSUME NEW c \in Call, CommitCanceled(c)
        PROVE  Goal
    <2>1. \/ refund' = refund
          \/ /\ call[c].read.refund # "NONE"
             /\ refund' = [refund EXCEPT !.status = "SUCCEEDED",
                                         !.reference = call[c].snapshot.amount]
             /\ deposit'.status \in {"REFUNDED", "PARTIALLY_REFUNDED"}
      BY <1>6, CanceledWrites DEF FinalStatus
    <2>2. call[c].read.refund # "NONE" => refund.status # "NONE"
      BY <1>6 DEF CommitCanceled, RefundInv
    <2>3. QED
      BY <2>1, <2>2 DEF TypeOK
  <1>7. CASE ClaimExpires
    BY <1>7 DEF ClaimExpires, TypeOK
  <1>8. QED
    BY <1>1, <1>2, <1>3, <1>4, <1>5, <1>6, <1>7, RefundWriters

\* The visit changes only when a cancellation commits, and whether a capture
\* was overtaken is recorded only when one begins.
LEMMA VisitWriters ==
    ASSUME TypeOK, [Next]_vars
    PROVE  /\ visit' = visit \/ \E c \in Call : CommitCancel(c)
           /\ overtaken' = overtaken \/ \E c \in Call : BeginCancel(c)
  <1>1. CASE ClaimExpires \/ \E a \in Cancellation : CancelAtProvider(a)
    BY <1>1 DEF ClaimExpires, CancelAtProvider, history
  <1>2. QED
    BY <1>1, NextSteps, ConfirmWrites, RefundWrites, WebhookWrites DEF history

\* The cancellation's row stops being the latest only when a webhook refunds,
\* which is recorded when a cancellation is under way.
LEMMA SupersededChange ==
    ASSUME TypeOK, [Next]_vars
    PROVE  /\ crossed => crossed'
           /\ superseded' /\ ~superseded =>
                 /\ deposit'.status \in {"REFUNDED", "PARTIALLY_REFUNDED"}
                 /\ CancellationUnderWay => crossed'
  <1> DEFINE Goal ==
        /\ crossed => crossed'
        /\ superseded' /\ ~superseded =>
              /\ deposit'.status \in {"REFUNDED", "PARTIALLY_REFUNDED"}
              /\ CancellationUnderWay => crossed'
  <1>1. CASE UNCHANGED <<superseded, crossed>>
    BY <1>1
  <1>2. ASSUME NEW c \in Call, RefundNext(c)
        PROVE  Goal
    <2>1. UNCHANGED crossed /\ (superseded' => superseded)
      BY <1>2, RefundWrites DEF BeginCancel, QueueRefund
    <2>2. QED
      BY <2>1
  <1>3. ASSUME NEW c \in Call, CommitCanceled(c)
        PROVE  Goal
    <2>1. \/ UNCHANGED superseded
          \/ deposit'.status \in {"REFUNDED", "PARTIALLY_REFUNDED"}
      BY <1>3, CanceledWrites DEF FinalStatus
    <2>2. QED
      BY <1>3, <2>1, CanceledCrosses, Zenon
  <1>4. CASE ClaimExpires \/ \E a \in Cancellation : CancelAtProvider(a)
    BY <1>1, <1>4 DEF ClaimExpires, CancelAtProvider, books, history
  <1>5. QED
    BY <1>1, <1>2, <1>3, <1>4, NextSteps, ConfirmWrites, WebhookWrites
    DEF books, history

\* The state in which a cancellation commits.
LEMMA AtCommitCancel ==
    ASSUME RefundInv, NEW c \in Call, CommitCancel(c)
    PROVE  /\ visit = "CONFIRMED" /\ visit' = "CANCELLED"
           /\ refund.status = "NONE"
           /\ UNCHANGED <<overtaken, superseded, crossed>>
           /\ call[c].read.status = "PAID" =>
                 /\ deposit.reference
                 /\ superseded => crossed
                 /\ ~overtaken => /\ ~CaptureInFlight
                                  /\ deposit.status \in Standing \cup {"PAID"}
  BY DEF CommitCancel, RefundInv, Cancelling, At, history

LEMMA CancelCallStep ==
    ASSUME TypeOK, RefundInv, [Next]_vars, NEW c \in Call, Cancelling(c)'
    PROVE  /\ visit' = "CONFIRMED"
           /\ \A d \in Call : Cancelling(d)' => d = c
           /\ call'[c].read.status = "PAID" =>
                 /\ deposit'.reference
                 /\ superseded' => crossed'
                 /\ ~overtaken' => /\ ~CaptureInFlight'
                                   /\ deposit'.status \in Standing \cup {"PAID"}
  <1>1. \A d \in Call : Cancelling(d)' =>
           \/ Cancelling(d) /\ call'[d].read = call[d].read
           \/ BeginCancel(d) /\ call'[d].read.status = deposit.status
    <2> SUFFICES ASSUME NEW d \in Call, Cancelling(d)'
                 PROVE  \/ Cancelling(d) /\ call'[d].read = call[d].read
                        \/ /\ BeginCancel(d)
                           /\ call'[d].read.status = deposit.status
      OBVIOUS
    <2>1. call'[d] = call[d] => Cancelling(d)
      BY DEF Cancelling
    <2>2. call'[d] # Idle
      BY DEF Cancelling, Idle
    <2>3. CASE ConfirmNext(d)
      BY <2>3, ConfirmMoves DEF Cancelling
    <2>4. CASE RefundNext(d)
      BY <2>4, RefundMoves
    <2>5. CASE WebhookNext(d)
      BY <2>5, WebhookMoves DEF Cancelling
    <2>6. CASE ClaimExpires \/ \E a \in Cancellation : CancelAtProvider(a)
      BY <2>1, <2>6 DEF ClaimExpires, CancelAtProvider
    <2>7. QED
      BY <2>1, <2>2, <2>3, <2>4, <2>5, <2>6, NextSteps, ConfirmMoves,
         RefundMoves, WebhookMoves
  <1>2. CASE BeginCancel(c) /\ call'[c].read.status = deposit.status
    <2>1. /\ visit' = "CONFIRMED"
          /\ overtaken' = CaptureInFlight
          /\ ~superseded'
          /\ deposit' = deposit
          /\ \A d \in Call : ~Cancelling(d)
          /\ \A d \in Call \ {c} : call'[d] = call[d]
      BY <1>2, OneCallMoves DEF BeginCancel
    <2>2. \A d \in Call : Cancelling(d)' => d = c
      BY <2>1 DEF Cancelling
    <2>3. deposit.status = "PAID" => deposit.reference
      BY DEF RefundInv
    <2>4. QED
      BY <1>2, <2>1, <2>2, <2>3, NoNewCapture
  <1>3. CASE Cancelling(c) /\ call'[c].read = call[c].read
    <2>1. /\ visit = "CONFIRMED"
          /\ \A d \in Call : Cancelling(d) => d = c
          /\ call[c].read.status = "PAID" =>
                /\ deposit.reference
                /\ superseded => crossed
                /\ ~overtaken => /\ ~CaptureInFlight
                                 /\ deposit.status \in Standing \cup {"PAID"}
      BY <1>3 DEF RefundInv
    <2>2. \A d \in Call : ~BeginCancel(d)
      BY <1>3 DEF BeginCancel
    <2>3. \A d \in Call : ~CommitCancel(d)
      <3>1. ASSUME NEW d \in Call, CommitCancel(d) PROVE FALSE
        <4>1. d = c
          BY <2>1, <3>1 DEF CommitCancel, Cancelling, At
        <4>2. Goto(c, "load")
          BY <3>1, <4>1 DEF CommitCancel
        <4>3. call'[c].phase = "load"
          BY <4>2, MoveFacts
        <4>4. QED
          BY <4>3 DEF Cancelling
      <3>2. QED
        BY <3>1
    <2>4. visit' = visit /\ overtaken' = overtaken
      BY <2>2, <2>3, VisitWriters
    <2>5. \A d \in Call : Cancelling(d)' => d = c
      BY <1>1, <2>1, <2>2
    <2>6. ~CaptureInFlight /\ deposit.status \in Standing \cup {"PAID"} =>
             ~CaptureInFlight' /\ deposit'.status \in Standing \cup {"PAID"}
      BY NoNewCapture, DepositChange DEF Standing
    <2>7. call[c].read.status = "PAID" => (superseded' => crossed')
      <3>1. call[c].read.status = "PAID" => CancellationUnderWay
        BY <1>3 DEF CancellationUnderWay, RefundDue
      <3>2. QED
        BY <2>1, <3>1, SupersededChange
    <2>8. QED
      BY <1>3, <2>1, <2>4, <2>5, <2>6, <2>7, DepositChange
  <1>4. QED
    BY <1>1, <1>2, <1>3

LEMMA OtherCallsStep ==
    ASSUME TypeOK, RefundInv, [Next]_vars, NEW c \in Call,
           \/ call'[c].op = "retry"
           \/ /\ call'[c].op = "cancel"
              /\ call'[c].phase \in {"refund", "refunded", "failed"}
           \/ At(c, "webhook", "commit")' /\ call'[c].read.refund # "NONE"
    PROVE  refund'.status # "NONE"
  <1>1. refund.status # "NONE" => refund'.status # "NONE"
    BY RefundChange
  <1>2. CASE call'[c] = call[c]
    BY <1>1, <1>2 DEF RefundInv, At
  <1>3. call'[c] # Idle
    BY DEF Idle, At
  <1>4. CASE ConfirmNext(c)
    BY <1>4, ConfirmMoves DEF At
  <1>5. CASE RefundNext(c)
    <2>1. call'[c].op \in {"cancel", "retry"}
      BY <1>5, RefundMoves DEF At
    <2>2. call'[c].op = "retry" =>
             call[c].op = "retry" \/ refund.status # "NONE"
      BY <1>5, RefundMoves
    <2>3. call'[c].op = "cancel"
          /\ call'[c].phase \in {"refund", "refunded", "failed"} =>
             \/ call[c].op = "cancel"
                /\ call[c].phase \in {"refund", "refunded", "failed"}
             \/ refund.status # "NONE"
      BY <1>5, RefundMoves
    <2>4. QED
      BY <1>1, <2>1, <2>2, <2>3 DEF RefundInv, At
  <1>6. CASE WebhookNext(c)
    BY <1>1, <1>6, WebhookMoves DEF At
  <1>7. CASE ClaimExpires \/ \E a \in Cancellation : CancelAtProvider(a)
    BY <1>2, <1>7 DEF ClaimExpires, CancelAtProvider
  <1>8. QED
    BY <1>2, <1>3, <1>4, <1>5, <1>6, <1>7, NextSteps, ConfirmMoves, RefundMoves,
       WebhookMoves

LEMMA RefundStep == TypeOK /\ RefundInv /\ [Next]_vars => RefundInv'
  <1> SUFFICES ASSUME TypeOK, RefundInv, [Next]_vars PROVE RefundInv'
    OBVIOUS
  <1>1. refund'.status # "NONE" => visit' = "CANCELLED"
    <2>1. refund.status # "NONE" => visit = "CANCELLED"
      BY DEF RefundInv
    <2>2. \A c \in Call : CommitCancel(c) => visit' = "CANCELLED"
      BY DEF CommitCancel
    <2>3. QED
      BY <2>1, <2>2, RefundChange, VisitWriters
  <1>2. ASSUME refund'.status # "NONE", ~overtaken'
        PROVE  deposit'.status \in Standing /\ ~CaptureInFlight'
    <2>1. ASSUME NEW c \in Call, CommitCancel(c), call[c].read.status = "PAID"
          PROVE  deposit'.status \in Standing /\ ~CaptureInFlight'
      <3>1. ~CaptureInFlight /\ deposit.status \in Standing \cup {"PAID"}
        BY <1>2, <2>1, AtCommitCancel
      <3>2. deposit'.status = "REFUND_PENDING"
        BY <2>1 DEF CommitCancel, RefundDue, TypeOK
      <3>3. QED
        BY <3>1, <3>2, NoNewCapture DEF Standing
    <2>2. CASE refund.status # "NONE"
      <3>1. visit = "CANCELLED"
        BY <2>2 DEF RefundInv
      <3>2. overtaken' = overtaken
        BY <3>1, VisitWriters DEF BeginCancel
      <3>3. deposit.status \in Standing /\ ~CaptureInFlight
        BY <1>2, <2>2, <3>2 DEF RefundInv, RefundStaysOwed
      <3>4. QED
        BY <3>3, NoNewCapture, DepositChange DEF Standing
    <2>3. QED
      BY <1>2, <2>1, <2>2, RefundChange
  <1>3. PendingRefundRetryable'
    <2> SUFFICES ASSUME deposit'.status = "REFUND_PENDING"
                 PROVE  /\ deposit'.reference
                        /\ refund'.status \in {"PENDING", "PROCESSING",
                                               "FAILED"}
                        /\ superseded' => crossed'
      BY DEF PendingRefundRetryable
    <2>1. CASE deposit'.status = deposit.status
      BY <2>1, RefundChange, DepositChange, SupersededChange
      DEF RefundInv, PendingRefundRetryable
    <2>2. ASSUME NEW c \in Call, CommitCancel(c), call[c].read.status = "PAID"
          PROVE  /\ deposit'.reference
                 /\ refund'.status \in {"PENDING", "PROCESSING", "FAILED"}
                 /\ superseded' => crossed'
      <3>1. /\ deposit.reference /\ refund.status = "NONE"
            /\ superseded' => crossed'
        BY <2>2, AtCommitCancel
      <3>2. refund'.status = "PENDING"
        BY <2>2, <3>1 DEF CommitCancel, RefundDue, TypeOK
      <3>3. QED
        BY <3>1, <3>2, DepositChange
    <2>3. QED
      BY <2>1, <2>2, DepositChange
  <1>4. deposit'.status = "PAID" => deposit'.reference
    BY DepositChange DEF RefundInv
  <1>5. QED
    BY <1>1, <1>2, <1>3, <1>4, CancelCallStep, OtherCallsStep
       DEF RefundInv, RefundStaysOwed

LEMMA InitRefund == Init => RefundInv
  BY DEF Init, RefundInv, RefundStaysOwed, PendingRefundRetryable, Cancelling,
         At, Idle

LEMMA RefundInvariant == Spec => []RefundInv
  BY InitType, TypeStep, InitRefund, RefundStep, PTL DEF Spec

\* A queued refund stays owed or made, unless the cancellation that queued it
\* overtook a capture.
THEOREM QueuedRefundsStayOwed == Spec => []RefundStaysOwed
  <1>1. RefundInv => RefundStaysOwed
    BY DEF RefundInv
  <1>2. QED
    BY <1>1, RefundInvariant, PTL

\* A pending refund always has what another attempt needs; an administrator's
\* retry finds its row, unless a webhook added one within the cancellation.
THEOREM PendingRefundsAreRetryable == Spec => []PendingRefundRetryable
  <1>1. RefundInv => PendingRefundRetryable
    BY DEF RefundInv
  <1>2. QED
    BY <1>1, RefundInvariant, PTL

-----------------------------------------------------------------------------
(* The deposit is an account *)

\* What the steps do at the provider.
LEMMA ProviderSteps ==
    ASSUME TypeOK, [Next]_vars
    PROVE  \/ UNCHANGED <<charged, returned, executed>>
           \/ \E c \in Call : CallCapture(c) \/ CallRefund(c)
           \/ \E a \in Cancellation : CancelAtProvider(a)
  <1>1. ASSUME NEW c \in Call, ConfirmNext(c)
        PROVE  UNCHANGED <<charged, returned, executed>> \/ CallCapture(c)
    BY <1>1, ConfirmWrites
  <1>2. ASSUME NEW c \in Call, RefundNext(c)
        PROVE  UNCHANGED <<charged, returned, executed>> \/ CallRefund(c)
    BY <1>2 DEF RefundNext, BeginCancel, QueueRefund, CommitCancel, LoadRefund,
                ReceiveRetry, ClaimRefund, CommitRefund, FailRefund, provider
  <1>3. ASSUME NEW c \in Call, WebhookNext(c)
        PROVE  UNCHANGED <<charged, returned, executed>>
    BY <1>3, WebhookWrites DEF provider
  <1>4. CASE ClaimExpires \/ (\E c \in Call : Crash(c)) \/ UNCHANGED vars
    BY <1>4 DEF ClaimExpires, Crash, provider, vars
  <1>5. QED
    BY <1>1, <1>2, <1>3, <1>4 DEF Next

\* The provider is asked for a refund only when one is queued.
LEMMA RefundIsQueued ==
    ASSUME RefundInv, NEW c \in Call, CallRefund(c)
    PROVE  refund.status # "NONE"
  BY DEF CallRefund, RefundInv

LEMMA AccountStep ==
    TypeOK /\ MoneyInv /\ RefundInv /\ AccountInv /\ [Next]_vars => AccountInv'
  <1> SUFFICES ASSUME TypeOK, MoneyInv, RefundInv, AccountInv, [Next]_vars
               PROVE  AccountInv'
    OBVIOUS
  <1>1. charged => charged'
    BY MoneyGrows
  <1>2. refund'.status # "NONE" => charged'
    <2>1. ASSUME NEW c \in Call, CommitCancel(c), call[c].read.status = "PAID"
          PROVE  charged
      BY <2>1 DEF CommitCancel, MoneyInv, Cancelling, At
    <2>2. QED
      BY <1>1, <2>1, RefundChange DEF AccountInv
  <1>3. executed' => charged' /\ returned' = Amount
    <2>1. CASE UNCHANGED <<charged, returned, executed>>
      BY <2>1 DEF AccountInv
    <2>2. ASSUME NEW c \in Call, CallCapture(c)
          PROVE  executed' => charged' /\ returned' = Amount
      BY <1>1, <2>2 DEF CallCapture, AccountInv
    <2>3. ASSUME NEW c \in Call, CallRefund(c)
          PROVE  executed' => charged' /\ returned' = Amount
      BY <1>1, <2>3 DEF CallRefund, AccountInv
    <2>4. ASSUME NEW a \in Cancellation, CancelAtProvider(a)
          PROVE  executed' => charged' /\ returned' = Amount
      BY <1>1, <2>4, DepositAssumption DEF CancelAtProvider, AccountInv
    <2>5. QED
      BY <2>1, <2>2, <2>3, <2>4, ProviderSteps
  <1>4. QED
    BY <1>2, <1>3 DEF AccountInv

LEMMA InitAccount == Init => AccountInv
  BY DEF Init, AccountInv

LEMMA BooksAreWritten ==
    ASSUME TypeOK, TypeOK', RefundInv, AccountInv, AccountInv', [Next]_vars,
           RecordedMoneyIsReal', PendingRefundRetryable',
           UNCHANGED <<charged, returned, executed>>
    PROVE  Account!Write
  <1>1. refund.status # "NONE" => refund'.status # "NONE"
    BY RefundChange
  <1>2. refund'.status # "NONE" => charged
    BY DEF AccountInv
  <1>3. /\ Said(deposit'.status) \in Account!Claim
        /\ Account!IsSo(Said(deposit'.status), refund'.status # "NONE")
    BY DEF TypeOK, DepositStatus, Said, Account!Claim, Account!IsSo,
           RecordedMoneyIsReal, PendingRefundRetryable
  <1>4. Entries' \subseteq 1..returned
    BY DepositAssumption DEF TypeOK, Entries, RecordedMoneyIsReal
  <1>5. QED
    BY <1>1, <1>2, <1>3, <1>4 DEF Account!Write

LEMMA AccountRefinement ==
    TypeOK /\ TypeOK' /\ MoneyInv' /\ RefundInv /\ RefundInv'
        /\ AccountInv /\ AccountInv' /\ [Next]_vars
    => [Account!Next]_Account!vars
  <1> SUFFICES ASSUME TypeOK, TypeOK', MoneyInv', RefundInv, RefundInv',
                      AccountInv, AccountInv', [Next]_vars
               PROVE  [Account!Next]_Account!vars
    OBVIOUS
  <1>1. CASE UNCHANGED <<charged, returned, executed>>
    BY <1>1, BooksAreWritten DEF MoneyInv, RefundInv, Account!Next
  <1>2. ASSUME NEW c \in Call, CallCapture(c)
        PROVE  [Account!Next]_Account!vars
    <2>1. /\ UNCHANGED <<books, returned, executed>>
          /\ charged' = TRUE \/ UNCHANGED charged
      BY <1>2 DEF CallCapture
    <2>2. UNCHANGED <<Said(deposit.status), refund.status # "NONE", Entries>>
      BY <2>1 DEF books, Entries, Said
    <2>3. CASE ~charged /\ charged' = TRUE
      BY <2>1, <2>2, <2>3 DEF Account!Charge, Account!Next
    <2>4. CASE charged' = charged
      BY <2>1, <2>2, <2>4 DEF Account!vars
    <2>5. QED
      BY <2>1, <2>3, <2>4 DEF TypeOK
  <1>3. ASSUME NEW c \in Call, CallRefund(c)
        PROVE  [Account!Next]_Account!vars
    <2>1. UNCHANGED <<books, charged>>
      BY <1>3 DEF CallRefund
    <2>2. UNCHANGED <<Said(deposit.status), refund.status # "NONE", Entries>>
      BY <2>1 DEF books, Entries, Said
    <2>3. CASE UNCHANGED <<returned, executed>>
      BY <2>1, <2>2, <2>3 DEF Account!vars
    <2>4. CASE ~executed /\ returned = 0 /\ charged /\ executed' = TRUE
               /\ returned' = Amount
      BY <1>3, <2>1, <2>2, <2>4, RefundIsQueued
      DEF Account!Refund, Account!Next
    <2>5. QED
      BY <1>3, <2>3, <2>4 DEF CallRefund, AccountInv, TypeOK
  <1>4. ASSUME NEW a \in Cancellation, CancelAtProvider(a)
        PROVE  [Account!Next]_Account!vars
    <2>1. UNCHANGED <<books, charged, executed>>
      BY <1>4 DEF CancelAtProvider
    <2>2. UNCHANGED <<Said(deposit.status), refund.status # "NONE", Entries>>
      BY <2>1 DEF books, Entries, Said
    <2>3. a \in 1..Amount
      BY DepositAssumption
    <2>4. Account!Return(a)
      BY <1>4, <2>1, <2>2 DEF CancelAtProvider, Account!Return
    <2>5. QED
      BY <2>3, <2>4 DEF Account!Next
  <1>5. QED
    BY <1>1, <1>2, <1>3, <1>4, ProviderSteps

LEMMA AccountInvariant == Spec => []AccountInv
  BY InitType, TypeStep, InitMoney, MoneyStep, InitRefund, RefundStep,
     InitAccount, AccountStep, PTL DEF Spec

\* The service charges the member once and pays back once, nothing that was
\* not paid and asked back, and its books never say what is not so.
THEOREM DepositImplementsAccount == Spec => ImplementsAccount
  <1>1. Init => Account!Init
    BY DepositAssumption DEF Init, Account!Init, Said, Entries
  <1>2. QED
    BY <1>1, InitType, TypeStep, InitMoney, MoneyStep, RefundInvariant,
       AccountInvariant, AccountRefinement, PTL
    DEF Spec, ImplementsAccount, Account!Spec

=============================================================================
