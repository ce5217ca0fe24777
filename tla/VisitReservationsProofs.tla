---------------------- MODULE VisitReservationsProofs ----------------------
(***************************************************************************)
(* Safety of VisitReservations for every set of members, listings, windows *)
(* and concurrent calls.                                                   *)
(***************************************************************************)
EXTENDS VisitReservations, TLAPS

\* A call in flight is never mistaken for a free slot.
LEMMA CallIsNotIdle ==
    ASSUME NEW c \in CallInFlight
    PROVE  c # Idle
  BY DEF CallInFlight, Idle, Op, Outcome

\* A row's held window is one of the row's windows.
LEMMA HeldWindowType ==
    ASSUME NEW x \in Row
    PROVE  HeldWindow(x) \in AnyWindow
  BY DEF HeldWindow, Row

\* The answer deadline of a proposal that passed visitWindow().
LEMMA ResponseExpiryType ==
    ASSUME NEW w \in AnyWindow, NEW t \in Nat, w.start >= ResponseLead
    PROVE  ResponseExpiry(w, t) \in Nat
  BY ConstantAssumption DEF ResponseExpiry, AnyWindow

\* What visitWindow() accepts starts late enough for a proposal to be answered.
LEMMA ValidWindowLead ==
    ASSUME NEW w \in Window, NEW t \in Nat, ValidWindow(w, t)
    PROVE  w \in AnyWindow /\ w.start >= ResponseLead
  BY ConstantAssumption DEF ValidWindow, AnyWindow

\* Outcome is total on the operations and yields statuses of a live row.
LEMMA OutcomeType ==
    ASSUME NEW op \in Op
    PROVE  Outcome[op] \in Status \ {"NONE"}
  BY DEF Outcome, Op, Status, ActiveStatus, FinalStatus

-----------------------------------------------------------------------------

LEMMA InitIInv == Init => IInv
  <1> SUFFICES ASSUME Init PROVE IInv
    OBVIOUS
  <1> USE DEF Init
  <1>1. NoRow \in Row /\ NoRow.status = "NONE"
    BY DEF NoRow, Row, Status, NoWindow, AnyWindow
  <1>2. TypeOK
    BY <1>1 DEF TypeOK
  <1>3. CallsConsistent
    BY DEF CallsConsistent
  <1>4. RowsConsistent
    BY <1>1 DEF RowsConsistent, RowConsistent
  <1>5. OneActiveVisitPerListing
    BY <1>1 DEF OneActiveVisitPerListing, ActiveStatus
  <1>6. LedgerIsUnbroken
    BY <1>1 DEF LedgerIsUnbroken
  <1>7. ConfirmedByBothParties
    BY <1>1 DEF ConfirmedByBothParties
  <1>8. QED
    BY <1>2, <1>3, <1>4, <1>5, <1>6, <1>7 DEF IInv

-----------------------------------------------------------------------------
(* Steps that touch neither a reservation nor its ledger.                   *)

LEMMA UntouchedRows ==
    ASSUME IInv, UNCHANGED <<row, ledger>>
    PROVE  /\ RowsConsistent'
           /\ OneActiveVisitPerListing'
           /\ LedgerIsUnbroken'
           /\ ConfirmedByBothParties'
  BY DEF IInv, RowsConsistent, RowConsistent, OneActiveVisitPerListing,
         LedgerIsUnbroken, ConfirmedByBothParties

\* A step that only changes slot q, to Idle or to a consistent call.
LEMMA SlotStep ==
    ASSUME IInv, NEW q \in Request, NEW call,
           \/ call = Idle
           \/ call \in CallInFlight /\ CallConsistent(call),
           request' = [request EXCEPT ![q] = call],
           UNCHANGED <<now, listed, row, ledger, deposit>>
    PROVE  IInv'
  <1>1. TypeOK'
    BY DEF IInv, TypeOK
  <1>2. CallsConsistent'
    <2> SUFFICES ASSUME NEW p \in Request, (request[p] # Idle)'
                 PROVE  CallConsistent(request[p])'
      BY DEF CallsConsistent
    <2>1. PICK c : c = request'[p]
      OBVIOUS
    <2>2. c = request[p] \/ c = call
      BY <2>1 DEF IInv, TypeOK
    <2>3. CallConsistent(c)
      BY <2>1, <2>2 DEF IInv, CallsConsistent
    <2>4. QED
      BY <2>1, <2>3 DEF CallConsistent
  <1>3. QED
    BY <1>1, <1>2, UntouchedRows DEF IInv

\* The windows and the parties of a live row are typed.
LEMMA LiveRow ==
    ASSUME IInv, NEW r \in Reservation, row[r].status # "NONE"
    PROVE  /\ row[r] \in Row
           /\ row[r].requester \in User
           /\ row[r].broker \in User
           /\ row[r].property \in Property
           /\ row[r].requested \in AnyWindow
           /\ row[r].alternative \in AnyWindow
  BY DEF IInv, TypeOK, RowsConsistent, RowConsistent, Row

-----------------------------------------------------------------------------
(* Receiving a call and running its conflict queries.                       *)

\* A call on reservation r that has just read its row.
LEMMA CallOnRow ==
    ASSUME IInv, NEW r \in Reservation, row[r].status # "NONE",
           NEW op \in Op \ {"create"}, NEW phase \in Phase,
           NEW u \in User, NEW w \in AnyWindow,
           op \in {"approve", "reject", "propose"} =>
              row[r].status = "REQUESTED" /\ u = row[r].broker,
           op \in {"accept", "decline"} =>
              row[r].status = "ALTERNATIVE_PROPOSED",
           op \in {"accept", "decline", "cancel"} => u = row[r].requester,
           op = "cancel" => row[r].status \in ActiveStatus,
           op = "approve" => w = row[r].requested,
           op = "accept" => w = row[r].alternative,
           op = "propose" => w.start >= ResponseLead,
           NEW q \in Request, Start(q, Call(op, phase, u, r, w))
    PROVE  IInv'
  <1> DEFINE c == Call(op, phase, u, r, w)
  <1>1. /\ c \in CallInFlight
        /\ c.op = op /\ c.actor = u /\ c.target = r
        /\ c.window = w /\ c.expected = row[r].status
    BY DEF IInv, TypeOK, Call, Idle, CallInFlight, Row
  <1> HIDE DEF c
  <1>2. CallConsistent(c)
    BY <1>1 DEF CallConsistent
  <1>3. request' = [request EXCEPT ![q] = c]
        /\ UNCHANGED <<now, listed, row, ledger, deposit>>
    BY DEF Start, c
  <1>4. QED
    BY <1>1, <1>2, <1>3, SlotStep

LEMMA ReceiveStep ==
    ASSUME IInv, NEW q \in Request, Receive(q)
    PROVE  IInv'
  <1> DEFINE Fresh(c) == c \in CallInFlight /\ CallConsistent(c)
  <1>0. now \in Nat /\ \A w \in Window : w \in AnyWindow
    BY ConstantAssumption DEF IInv, TypeOK, AnyWindow
  <1>1. ASSUME NEW u \in User, NEW p \in Property, NEW w \in Window,
               ReceiveCreate(q, u, p, w)
        PROVE  IInv'
    <2> DEFINE c == [Idle EXCEPT !.op = "create", !.phase = "check",
                                 !.actor = u, !.property = p, !.window = w]
    <2>1. Fresh(c)
      BY <1>0 DEF Idle, CallInFlight, CallConsistent, Op, Outcome, Phase,
                  Status
    <2>2. QED
      BY <1>1, <2>1, SlotStep DEF ReceiveCreate, Start
  <1>2. ASSUME NEW r \in Reservation, ReceiveApprove(q, r)
        PROVE  IInv'
    <2>1. row[r].status = "REQUESTED"
      BY <1>2 DEF ReceiveApprove
    <2>2. QED
      BY <1>2, <2>1, LiveRow, CallOnRow DEF ReceiveApprove, Op, Phase
  <1>3. ASSUME NEW r \in Reservation, ReceiveReject(q, r)
        PROVE  IInv'
    <2>1. row[r].status = "REQUESTED"
      BY <1>3 DEF ReceiveReject
    <2>2. QED
      BY <1>3, <2>1, LiveRow, CallOnRow DEF ReceiveReject, Op, Phase
  <1>4. ASSUME NEW r \in Reservation, NEW w \in Window,
               ReceivePropose(q, r, w)
        PROVE  IInv'
    <2>1. row[r].status = "REQUESTED"
      BY <1>4 DEF ReceivePropose
    <2>2. w \in AnyWindow /\ w.start >= ResponseLead
      BY <1>0, <1>4, ValidWindowLead DEF ReceivePropose
    <2>3. QED
      BY <1>4, <2>1, <2>2, LiveRow, CallOnRow DEF ReceivePropose, Op, Phase
  <1>5. ASSUME NEW r \in Reservation, ReceiveAccept(q, r)
        PROVE  IInv'
    <2>1. row[r].status = "ALTERNATIVE_PROPOSED"
      BY <1>5 DEF ReceiveAccept
    <2>2. QED
      BY <1>5, <2>1, LiveRow, CallOnRow DEF ReceiveAccept, Op, Phase
  <1>6. ASSUME NEW r \in Reservation, ReceiveDecline(q, r)
        PROVE  IInv'
    <2>1. row[r].status = "ALTERNATIVE_PROPOSED"
      BY <1>6 DEF ReceiveDecline
    <2>2. QED
      BY <1>6, <2>1, LiveRow, CallOnRow DEF ReceiveDecline, Op, Phase
  <1>7. ASSUME NEW r \in Reservation, ReceiveCancel(q, r)
        PROVE  IInv'
    <2>1. row[r].status # "NONE"
      BY <1>7 DEF ReceiveCancel, ActiveStatus
    <2>2. HeldWindow(row[r]) \in AnyWindow
      BY <2>1, LiveRow, HeldWindowType
    <2>3. QED
      BY <1>7, <2>1, <2>2, LiveRow, CallOnRow DEF ReceiveCancel, Op, Phase
  <1>8. QED
    BY <1>1, <1>2, <1>3, <1>4, <1>5, <1>6, <1>7 DEF Receive

\* The call that occupies a slot.
LEMMA CallInSlot ==
    ASSUME IInv, NEW q \in Request, request[q].op # "none"
    PROVE  /\ request[q] \in CallInFlight
           /\ CallConsistent(request[q])
  BY DEF IInv, TypeOK, CallsConsistent, Idle

LEMMA CheckStep ==
    ASSUME IInv, NEW q \in Request,
           \/ CheckCreate(q) \/ CheckRegistrant(q)
           \/ CheckAcceptRegistrant(q) \/ CheckAcceptRequester(q)
    PROVE  IInv'
  <1> DEFINE c == request[q]
             deadline == IF c.op = "propose"
                         THEN ResponseExpiry(c.window, now) ELSE 0
  <1>1. c \in CallInFlight /\ CallConsistent(c) /\ now \in Nat
    BY CallInSlot DEF CheckCreate, CheckRegistrant, CheckAcceptRegistrant,
                      CheckAcceptRequester, IInv, TypeOK
  <1>2. deadline \in Nat
    BY <1>1, ResponseExpiryType DEF CallConsistent, CallInFlight
  <1>3. PICK d \in {[c EXCEPT !.phase = "commit"],
                    [c EXCEPT !.phase = "commit", !.stamp = deadline],
                    [c EXCEPT !.phase = "recheck"],
                    [c EXCEPT !.phase = "commit", !.stamp = now],
                    Idle} :
            /\ request' = [request EXCEPT ![q] = d]
            /\ UNCHANGED <<now, listed, row, ledger, deposit>>
    BY DEF CheckCreate, CheckRegistrant, CheckAcceptRegistrant,
           CheckAcceptRequester, Advance
  <1>4. d # Idle => d \in CallInFlight
    BY <1>1, <1>2, <1>3 DEF CallInFlight, Phase
  <1>5. d # Idle => CallConsistent(d)
    BY ZenonT(40), <1>1, <1>3 DEF CallConsistent, CallInFlight
  <1>6. QED
    BY <1>3, <1>4, <1>5, SlotStep

-----------------------------------------------------------------------------
(* Transactions *)

\* Appending to a typed sequence.
LEMMA AppendFacts ==
    ASSUME NEW S, NEW l \in Seq(S), NEW e \in S
    PROVE  /\ Append(l, e) \in Seq(S)
           /\ Len(Append(l, e)) = Len(l) + 1
           /\ Append(l, e)[Len(l) + 1] = e
           /\ \A i \in 1..Len(l) : Append(l, e)[i] = l[i]
           /\ Len(l) \in Nat
           /\ Append(l, e) # << >>
           /\ l = << >> <=> Len(l) = 0
  OBVIOUS

\* The ledger row of a call, written with the status the call had read.
LEMMA EntryType ==
    ASSUME NEW c \in CallInFlight, NEW other \in User, c.actor \in User
    PROVE  /\ Entry(c, other) \in LedgerEntry
           /\ Entry(c, other).previous = c.expected
           /\ Entry(c, other).next = Outcome[c.op]
           /\ Entry(c, other).action = c.op
           /\ Entry(c, other).actor = c.actor
           /\ Entry(c, other).window = c.window
  <1>1. Outcome[c.op] \in Status
    BY OutcomeType DEF CallInFlight
  <1>2. QED
    BY <1>1 DEF Entry, LedgerEntry, CallInFlight

\* A transition whose WHERE clause found the status the call had read.
LEMMA TransitionStep ==
    ASSUME IInv, NEW q \in Request, request[q].op # "none",
           request[q].op # "create",
           row[request[q].target].status = request[q].expected,
           NEW other \in User,
           Transition(request[q], other),
           request' = [request EXCEPT ![q] = Idle],
           UNCHANGED <<now, listed>>,
           deposit' \in [Reservation -> {"NONE", "PAID", "REFUND_QUEUED"}]
    PROVE  IInv'
  <1> DEFINE c == request[q]
             r == c.target
             e == Entry(c, other)
             n == Len(ledger[r])
  <1>1. /\ c \in CallInFlight /\ CallConsistent(c) /\ c.op # "create"
        /\ r \in Reservation
        /\ row[r].status = c.expected
    BY CallInSlot DEF CallConsistent
  <1>2. c.expected \in ActiveStatus
    BY <1>1 DEF CallConsistent, CallInFlight, Op, ActiveStatus
  <1>3. row[r].status # "NONE"
    BY <1>1, <1>2 DEF ActiveStatus
  <1>4. /\ e \in LedgerEntry /\ e.previous = c.expected
        /\ e.next = Outcome[c.op] /\ e.action = c.op
        /\ e.actor = c.actor /\ e.window = c.window
    BY <1>1, EntryType DEF CallInFlight
  <1>5. /\ row \in [Reservation -> Row]
        /\ ledger \in [Reservation -> Seq(LedgerEntry)]
        /\ row' = [row EXCEPT ![r] = Updated(@, c)]
        /\ ledger' = [ledger EXCEPT ![r] = Append(@, e)]
    BY DEF IInv, TypeOK, Transition
  <1>6. /\ row'[r] \in Row
        /\ row'[r].status = Outcome[c.op]
        /\ row'[r].property = row[r].property
        /\ row'[r].requester = row[r].requester
        /\ row'[r].broker = row[r].broker
        /\ row'[r].requested = row[r].requested
        /\ c.op = "propose" => row'[r].alternative = c.window
        /\ c.op # "propose" => row'[r].alternative = row[r].alternative
        /\ c.op \in {"approve", "accept"} => row'[r].confirmed = c.window
    <2>1. Updated(row[r], c) \in Row
      <3>1. Outcome[c.op] \in Status
        BY <1>1, OutcomeType DEF CallInFlight
      <3>2. c.window \in AnyWindow /\ c.stamp \in Nat /\ row[r] \in Row
        BY <1>1, <1>5 DEF CallInFlight
      <3> HIDE DEF c, r
      <3>3. QED
        BY <3>1, <3>2 DEF Updated, Row
    <2>2. QED
      BY <1>1, <1>5, <2>1 DEF Updated, Row
  <1>7. /\ ledger'[r] \in Seq(LedgerEntry)
        /\ n \in Nat
        /\ ledger'[r] # << >>
        /\ Len(ledger'[r]) = n + 1
        /\ ledger'[r][n + 1] = e
        /\ \A i \in 1..n : ledger'[r][i] = ledger[r][i]
    <2>1. ledger[r] \in Seq(LedgerEntry) /\ ledger'[r] = Append(ledger[r], e)
      BY <1>1, <1>5
    <2> HIDE DEF e, r
    <2>2. QED
      BY <1>4, <2>1, AppendFacts
  <1>8. \A s \in Reservation \ {r} :
            row'[s] = row[s] /\ ledger'[s] = ledger[s]
    BY <1>5
  <1>9. /\ ledger[r] # << >> /\ n >= 1
        /\ ledger[r][1].previous = "NONE"
        /\ ledger[r][n].next = c.expected
    BY <1>1, <1>3, <1>5, AppendFacts DEF IInv, LedgerIsUnbroken
  <1> HIDE DEF e, n
  <1>10. TypeOK'
    BY <1>1, <1>5, <1>6, <1>7, <1>8 DEF IInv, TypeOK
  <1>11. CallsConsistent'
    <2> SUFFICES ASSUME NEW p \in Request, (request[p] # Idle)'
                 PROVE  CallConsistent(request[p])'
      BY DEF CallsConsistent
    <2>1. PICK d : d = request'[p]
      OBVIOUS
    <2>2. d = request[p] /\ d \in CallInFlight /\ CallConsistent(d)
      BY <2>1 DEF IInv, TypeOK, CallsConsistent
    <2>3. CASE d.op = "create" \/ d.target # r
      BY <1>8, <2>1, <2>2, <2>3 DEF CallConsistent
    <2>4. CASE d.op # "create" /\ d.target = r
      <3>1. row'[r].status \notin {"NONE", "REQUESTED"}
        BY <1>1, <1>6 DEF CallInFlight, Op, Outcome
      <3>2. d.op = "accept" => row'[r].alternative = row[r].alternative
        BY <1>1, <1>6, <2>2, <2>4 DEF CallConsistent
      <3>3. QED
        BY <1>6, <2>1, <2>2, <2>4, <3>1, <3>2 DEF CallConsistent
    <2>5. QED
      BY <2>3, <2>4
  <1>12. RowsConsistent'
    <2> SUFFICES ASSUME NEW s \in Reservation
                 PROVE  RowConsistent(s)'
      BY DEF RowsConsistent
    <2>1. CASE s # r
      BY <1>8, <2>1 DEF IInv, RowsConsistent, RowConsistent
    <2>2. CASE s = r
      <3>1. row'[r].status \notin {"NONE", "REQUESTED"}
        BY <1>1, <1>6 DEF CallInFlight, Op, Outcome
      <3>2. row'[r].status = "ALTERNATIVE_PROPOSED" => c.op = "propose"
        BY <1>1, <1>6 DEF CallInFlight, Op, Outcome
      <3>3. c.op = "propose" => c.actor = row[r].broker
        BY <1>1 DEF CallConsistent
      <3>4. QED
        BY <1>1, <1>3, <1>4, <1>6, <1>7, <2>2, <3>1, <3>2, <3>3, LiveRow
           DEF RowConsistent
    <2>3. QED
      BY <2>1, <2>2
  <1>13. OneActiveVisitPerListing'
    BY <1>1, <1>2, <1>6, <1>8 DEF IInv, OneActiveVisitPerListing
  <1>14. LedgerIsUnbroken'
    <2> SUFFICES ASSUME NEW s \in Reservation
                 PROVE
        /\ row'[s].status = "NONE" <=> ledger'[s] = << >>
        /\ ledger'[s] # << >> =>
              /\ ledger'[s][1].previous = "NONE"
              /\ ledger'[s][Len(ledger'[s])].next = row'[s].status
        /\ \A i \in 1..(Len(ledger'[s]) - 1) :
              /\ ledger'[s][i].next = ledger'[s][i + 1].previous
              /\ ledger'[s][i].next \notin FinalStatus
      BY DEF LedgerIsUnbroken
    <2>1. CASE s # r
      BY <1>8, <2>1 DEF IInv, LedgerIsUnbroken
    <2>2. CASE s = r
      <3>1. row'[r].status # "NONE"
        BY <1>1, <1>6 DEF CallInFlight, Op, Outcome
      <3>2. \A i \in 1..(n - 1) :
                /\ ledger[r][i].next = ledger[r][i + 1].previous
                /\ ledger[r][i].next \notin FinalStatus
        BY <1>1 DEF IInv, LedgerIsUnbroken, n
      <3>3. c.expected \notin FinalStatus
        BY <1>2 DEF ActiveStatus, FinalStatus
      <3>4. \A i \in 1..n :
                /\ ledger'[r][i].next = ledger'[r][i + 1].previous
                /\ ledger'[r][i].next \notin FinalStatus
        <4> SUFFICES ASSUME NEW i \in 1..n
                     PROVE  /\ ledger'[r][i].next = ledger'[r][i + 1].previous
                            /\ ledger'[r][i].next \notin FinalStatus
          OBVIOUS
        <4>1. CASE i = n
          BY <1>4, <1>7, <1>9, <3>3, <4>1
        <4>2. CASE i < n
          <5>1. i \in 1..(n - 1) /\ i + 1 \in 1..n
            BY <1>7, <4>2
          <5>2. ledger'[r][i] = ledger[r][i]
                /\ ledger'[r][i + 1] = ledger[r][i + 1]
            BY <1>7, <5>1
          <5>3. QED
            BY <3>2, <5>1, <5>2
        <4>3. QED
          BY <1>7, <4>1, <4>2
      <3>5. ledger'[r][1].previous = "NONE"
        BY <1>7, <1>9
      <3>6. Len(ledger'[r]) - 1 = n
        BY <1>7
      <3>7. ledger'[r][Len(ledger'[r])].next = row'[r].status
        BY <1>4, <1>6, <1>7
      <3>8. /\ row'[r].status = "NONE" <=> ledger'[r] = << >>
            /\ \A i \in 1..(Len(ledger'[r]) - 1) :
                  /\ ledger'[r][i].next = ledger'[r][i + 1].previous
                  /\ ledger'[r][i].next \notin FinalStatus
        BY <1>7, <3>1, <3>4, <3>6
      <3>9. QED
        BY <2>2, <3>5, <3>7, <3>8
    <2>3. QED
      BY <2>1, <2>2
  <1>15. ConfirmedByBothParties'
    <2> SUFFICES ASSUME NEW s \in Reservation,
                        (row[s].status = "CONFIRMED")'
                 PROVE  (LET m == Len(ledger[s]) IN
            /\ m >= 2
            /\ ledger[s][m].window = row[s].confirmed
            /\ ledger[s][m - 1].window = row[s].confirmed
            /\ \/ /\ ledger[s][m].action = "approve"
                  /\ ledger[s][m].actor = row[s].broker
                  /\ ledger[s][m - 1].action = "create"
                  /\ ledger[s][m - 1].actor = row[s].requester
               \/ /\ ledger[s][m].action = "accept"
                  /\ ledger[s][m].actor = row[s].requester
                  /\ ledger[s][m - 1].action = "propose"
                  /\ ledger[s][m - 1].actor = row[s].broker)'
      BY DEF ConfirmedByBothParties
    <2>1. CASE s # r
      BY <1>8, <2>1 DEF IInv, ConfirmedByBothParties
    <2>2. CASE s = r
      <3>1. c.op \in {"approve", "accept"}
        BY <1>1, <1>6, <2>2 DEF CallInFlight, Op, Outcome
      <3>2. ledger'[r][n] = ledger[r][n]
        BY <1>7, <1>9
      <3>3. CASE c.op = "approve"
        <4>1. /\ row[r].status = "REQUESTED" /\ c.actor = row[r].broker
              /\ c.window = row[r].requested
          BY <1>1, <3>3 DEF CallConsistent
        <4>2. /\ n = 1 /\ ledger[r][1].action = "create"
              /\ ledger[r][1].actor = row[r].requester
              /\ ledger[r][1].window = row[r].requested
          BY <1>1, <4>1 DEF IInv, RowsConsistent, RowConsistent, n
        <4>3. /\ Len(ledger'[r]) = 2 /\ ledger'[r][2] = e
              /\ ledger'[r][1] = ledger[r][1] /\ 2 - 1 = 1 /\ 2 >= 2
          BY <1>7, <3>2, <4>2
        <4>4. QED
          BY <1>4, <1>6, <2>2, <3>3, <4>1, <4>2, <4>3
      <3>4. CASE c.op = "accept"
        <4>1. /\ row[r].status = "ALTERNATIVE_PROPOSED"
              /\ c.actor = row[r].requester
              /\ c.window = row[r].alternative
          BY <1>1, <3>4 DEF CallConsistent
        <4>2. /\ ledger[r][n].action = "propose"
              /\ ledger[r][n].actor = row[r].broker
              /\ ledger[r][n].window = row[r].alternative
          BY <1>1, <4>1 DEF IInv, RowsConsistent, RowConsistent, n
        <4>3. QED
          BY <1>4, <1>6, <1>7, <1>9, <2>2, <3>2, <3>4, <4>1, <4>2
      <3>5. QED
        BY <3>1, <3>3, <3>4
    <2>3. QED
      BY <2>1, <2>2
  <1>16. QED
    BY <1>10, <1>11, <1>12, <1>13, <1>14, <1>15 DEF IInv

LEMMA CommitCreateStep ==
    ASSUME IInv, NEW q \in Request, CommitCreate(q)
    PROVE  IInv'
  <1> DEFINE c == request[q]
  <1>1. /\ c \in CallInFlight /\ CallConsistent(c) /\ c.op = "create"
        /\ c.property \in Property /\ c.expected = "NONE" /\ c.actor \in User
    BY CallInSlot DEF CommitCreate, CallConsistent, CallInFlight
  <1>2. CASE UNCHANGED <<row, ledger>>
    BY <1>2, SlotStep DEF CommitCreate
  <1>3. ASSUME NEW r \in Reservation, row[r] = NoRow,
               UniqueIndexAdmits(c.property, c.actor),
               row' = [row EXCEPT ![r] =
                      [NoRow EXCEPT !.status = "REQUESTED",
                                    !.property = c.property,
                                    !.requester = c.actor,
                                    !.broker = Registrant[c.property],
                                    !.requested = c.window]],
               ledger' = [ledger EXCEPT ![r] = Append(@,
                      Entry(c, Registrant[c.property]))]
        PROVE  IInv'
    <2> DEFINE e == Entry(c, Registrant[c.property])
    <2>1. /\ request' = [request EXCEPT ![q] = Idle]
          /\ UNCHANGED <<now, listed, deposit>>
      BY DEF CommitCreate
    <2>2. /\ row'[r].status = "REQUESTED" /\ row'[r].property = c.property
          /\ row'[r].requester = c.actor
          /\ row'[r].broker = Registrant[c.property]
          /\ row'[r].requested = c.window
          /\ row'[r] \in Row
      BY <1>1, <1>3, ConstantAssumption
         DEF IInv, TypeOK, NoRow, Row, Status, ActiveStatus, CallInFlight,
             AnyWindow, NoWindow
    <2>3. \A s \in Reservation \ {r} :
              row'[s] = row[s] /\ ledger'[s] = ledger[s]
      BY <1>3 DEF IInv, TypeOK
    <2>4. row[r].status = "NONE" /\ ledger[r] = << >>
      BY <1>3 DEF IInv, LedgerIsUnbroken, NoRow
    <2>5. /\ e \in LedgerEntry /\ e.previous = "NONE"
          /\ e.next = "REQUESTED" /\ e.action = "create"
          /\ e.actor = c.actor /\ e.window = c.window
      BY <1>1, EntryType, ConstantAssumption DEF Outcome
    <2>6. /\ ledger'[r] \in Seq(LedgerEntry)
          /\ Len(ledger'[r]) = 1 /\ ledger'[r][1] = e
          /\ ledger'[r] # << >>
      <3>1. ledger[r] \in Seq(LedgerEntry)
            /\ ledger'[r] = Append(ledger[r], e)
        BY <1>3 DEF IInv, TypeOK
      <3> HIDE DEF e
      <3>2. QED
        BY <2>4, <2>5, <3>1, AppendFacts
    <2> HIDE DEF e
    <2>7. TypeOK'
      BY <1>3, <2>1, <2>2, <2>3, <2>6 DEF IInv, TypeOK
    <2>8. CallsConsistent'
      <3> SUFFICES ASSUME NEW p \in Request, (request[p] # Idle)'
                   PROVE  CallConsistent(request[p])'
        BY DEF CallsConsistent
      <3>1. PICK d : d = request'[p]
        OBVIOUS
      <3>2. d \in CallInFlight /\ CallConsistent(d)
        BY <2>1, <3>1 DEF IInv, TypeOK, CallsConsistent
      <3>3. d.op # "create" => d.target # r
        BY <2>4, <3>2 DEF CallConsistent
      <3>4. QED
        BY <2>3, <3>1, <3>2, <3>3 DEF CallConsistent
    <2>9. RowsConsistent'
      <3> SUFFICES ASSUME NEW s \in Reservation
                   PROVE  RowConsistent(s)'
        BY DEF RowsConsistent
      <3>1. CASE s # r
        BY <2>3, <3>1 DEF IInv, RowsConsistent, RowConsistent
      <3>2. CASE s = r
        BY <1>1, <2>2, <2>5, <2>6, <3>2, ConstantAssumption
           DEF RowConsistent
      <3>3. QED
        BY <3>1, <3>2
    <2>10. OneActiveVisitPerListing'
      BY <1>1, <1>3, <2>2, <2>3
         DEF IInv, OneActiveVisitPerListing, UniqueIndexAdmits, ActiveKeyTaken
    <2>11. LedgerIsUnbroken'
      <3>1. \A s \in Reservation \ {r} :
                /\ row'[s].status = "NONE" <=> ledger'[s] = << >>
                /\ ledger'[s] # << >> =>
                      /\ ledger'[s][1].previous = "NONE"
                      /\ ledger'[s][Len(ledger'[s])].next = row'[s].status
                /\ \A i \in 1..(Len(ledger'[s]) - 1) :
                      /\ ledger'[s][i].next = ledger'[s][i + 1].previous
                      /\ ledger'[s][i].next \notin FinalStatus
        BY <2>3 DEF IInv, LedgerIsUnbroken
      <3>2. 1..(Len(ledger'[r]) - 1) = {}
        BY <2>6
      <3>3. QED
        BY <2>2, <2>5, <2>6, <3>1, <3>2 DEF LedgerIsUnbroken
    <2>12. ConfirmedByBothParties'
      BY SMTT(30), <2>2, <2>3 DEF IInv, ConfirmedByBothParties
    <2>13. QED
      BY <2>7, <2>8, <2>9, <2>10, <2>11, <2>12 DEF IInv
  <1>4. QED
    BY <1>2, <1>3 DEF CommitCreate

LEMMA BrokerTransitionStep ==
    ASSUME IInv, NEW q \in Request, BrokerTransition(q)
    PROVE  IInv'
  <1> DEFINE c == request[q]
  <1>1. c \in CallInFlight /\ CallConsistent(c)
        /\ c.op \in {"approve", "reject", "propose"}
    BY CallInSlot DEF BrokerTransition
  <1>2. CASE ~RegistrantRowMatches(c)
    BY <1>2, SlotStep DEF BrokerTransition
  <1>3. CASE RegistrantRowMatches(c)
    <2>1. c.target \in Reservation /\ row[c.target].requester \in User
      BY <1>1, LiveRow DEF CallConsistent
    <2>2. QED
      BY <1>1, <1>3, <2>1, TransitionStep
         DEF BrokerTransition, RegistrantRowMatches, IInv, TypeOK
  <1>4. QED
    BY <1>2, <1>3

LEMMA RequesterTransitionStep ==
    ASSUME IInv, NEW q \in Request, RequesterTransition(q)
    PROVE  IInv'
  <1> DEFINE c == request[q]
  <1>1. c \in CallInFlight /\ CallConsistent(c)
        /\ c.op \in {"accept", "decline", "cancel"}
    BY CallInSlot DEF RequesterTransition
  <1>2. CASE ~RequesterRowMatches(c)
    BY <1>2, SlotStep DEF RequesterTransition
  <1>3. CASE RequesterRowMatches(c)
    <2>1. c.target \in Reservation /\ row[c.target].broker \in User
      BY <1>1, LiveRow DEF CallConsistent
    <2>2. deposit' \in [Reservation -> {"NONE", "PAID", "REFUND_QUEUED"}]
      BY <1>3, <2>1 DEF RequesterTransition, QueueRefund, IInv, TypeOK
    <2>3. QED
      BY <1>1, <1>3, <2>1, <2>2, TransitionStep
         DEF RequesterTransition, RequesterRowMatches
  <1>4. QED
    BY <1>2, <1>3

-----------------------------------------------------------------------------

\* The clock, the listing and the deposit services leave rows and calls alone.
LEMMA EnvironmentStep ==
    ASSUME IInv,
           \/ Tick
           \/ \E p \in Property : ChangeListing(p)
           \/ \E r \in Reservation : DepositPaid(r)
           \/ UNCHANGED vars
    PROVE  IInv'
  <1>1. UNCHANGED <<row, ledger, request>>
    BY DEF Tick, ChangeListing, DepositPaid, vars
  <1>2. TypeOK'
    <2>1. ASSUME Tick PROVE TypeOK'
      BY <2>1 DEF IInv, TypeOK, Tick
    <2>2. ASSUME NEW p \in Property, ChangeListing(p) PROVE TypeOK'
      BY <2>2 DEF IInv, TypeOK, ChangeListing
    <2>3. ASSUME NEW r \in Reservation, DepositPaid(r) PROVE TypeOK'
      BY <2>3 DEF IInv, TypeOK, DepositPaid
    <2>4. ASSUME UNCHANGED vars PROVE TypeOK'
      BY <2>4 DEF IInv, TypeOK, vars
    <2>5. QED
      BY <2>1, <2>2, <2>3, <2>4
  <1>3. CallsConsistent'
    BY <1>1 DEF IInv, CallsConsistent, CallConsistent
  <1>4. QED
    BY <1>1, <1>2, <1>3, UntouchedRows DEF IInv

LEMMA NextIInv == IInv /\ [Next]_vars => IInv'
  <1> SUFFICES ASSUME IInv, [Next]_vars PROVE IInv'
    OBVIOUS
  <1>1. ASSUME NEW q \in Request, Crash(q) PROVE IInv'
    BY <1>1, SlotStep DEF Crash
  <1>2. QED
    BY <1>1, ReceiveStep, CheckStep, CommitCreateStep, BrokerTransitionStep,
       RequesterTransitionStep, EnvironmentStep DEF Next

\* The reservation tables are well typed in every reachable state, the answer
\* deadlines that are subtracted from a window's start among them.
THEOREM TypeCorrect == Spec => []TypeOK
  <1>1. IInv => TypeOK
    BY DEF IInv
  <1>2. QED
    BY <1>1, InitIInv, NextIInv, PTL DEF Spec

\* create() can race with itself any number of times without a member ending
\* up with two active visits to one listing.
THEOREM ActiveVisitsAreUnique == Spec => []OneActiveVisitPerListing
  <1>1. IInv => OneActiveVisitPerListing
    BY DEF IInv
  <1>2. QED
    BY <1>1, InitIInv, NextIInv, PTL DEF Spec

\* The recorded history of every reservation is the path its status took.
THEOREM HistoryIsFaithful == Spec => []LedgerIsUnbroken
  <1>1. IInv => LedgerIsUnbroken
    BY DEF IInv
  <1>2. QED
    BY <1>1, InitIInv, NextIInv, PTL DEF Spec

\* No interleaving of the registrant's and the visitor's calls confirms a
\* window that one of them has not put forward or accepted.
THEOREM ConfirmationIsMutual == Spec => []ConfirmedByBothParties
  <1>1. IInv => ConfirmedByBothParties
    BY DEF IInv
  <1>2. QED
    BY <1>1, InitIInv, NextIInv, PTL DEF Spec

-----------------------------------------------------------------------------
(* Calls that do not overlap in time *)

\* No call is received while another is in flight.
OneCallAtATime ==
    \A p, q \in Request : request[p] # Idle /\ request[q] # Idle => p = q

\* A call past its conflict queries would still pass them.
QueriesHold(c) ==
    /\ c.op = "create" /\ c.phase = "commit" =>
          ~RequesterConflict(c.actor, c.window, {})
    /\ c.op = "accept" /\ c.phase = "commit" =>
          ~RequesterConflict(c.actor, c.window, {c.target})
    /\ c.op = "approve" /\ c.phase = "commit" =>
          ~BrokerConflict(c.actor, c.window, {c.target})
    /\ c.op = "accept" /\ c.phase \in {"recheck", "commit"} =>
          ~BrokerConflict(row[c.target].broker, c.window, {c.target})

\* What a visitor has asked for or agreed to never overlaps; an alternative he
\* has not answered may overlap anything.
VisitorsApart ==
    \A r, s \in Reservation :
        /\ r # s
        /\ row[r].status \in {"REQUESTED", "CONFIRMED"}
        /\ row[s].status \in {"REQUESTED", "CONFIRMED"}
        /\ row[r].requester = row[s].requester
        => ~Overlap(HeldWindow(row[r]), HeldWindow(row[s]))

SerialInv ==
    /\ NoRegistrantDoubleBooking
    /\ VisitorsApart
    /\ \A q \in Request : QueriesHold(request[q])

LEMMA OverlapIsMutual ==
    ASSUME NEW v \in AnyWindow, NEW w \in AnyWindow, Overlap(v, w)
    PROVE  Overlap(w, v)
  BY DEF Overlap, AnyWindow

LEMMA IdleHolds == QueriesHold(Idle)
  BY DEF QueriesHold, Idle

LEMMA InitSerial == Init => SerialInv
  <1> SUFFICES ASSUME Init PROVE SerialInv
    OBVIOUS
  <1>1. \A r \in Reservation : row[r].status = "NONE"
    BY DEF Init, NoRow
  <1>2. \A q \in Request : QueriesHold(request[q])
    BY IdleHolds DEF Init
  <1>3. QED
    BY <1>1, <1>2 DEF SerialInv, NoRegistrantDoubleBooking, VisitorsApart

\* A step that only changes slot q leaves the bookings as they are.
LEMMA SerialSlot ==
    ASSUME IInv, SerialInv, NEW q \in Request, NEW d, QueriesHold(d),
           request' = [request EXCEPT ![q] = d], UNCHANGED row
    PROVE  SerialInv'
  <1>1. NoRegistrantDoubleBooking' /\ VisitorsApart'
    BY DEF SerialInv, NoRegistrantDoubleBooking, VisitorsApart
  <1>2. ASSUME NEW p \in Request
        PROVE  QueriesHold(request[p])'
    <2>1. PICK c : c = request'[p]
      OBVIOUS
    <2>2. QueriesHold(c)
      BY <2>1 DEF SerialInv, IInv, TypeOK
    <2>3. QED
      BY <2>1, <2>2 DEF QueriesHold, RequesterConflict, BrokerConflict
  <1>3. QED
    BY <1>1, <1>2 DEF SerialInv

\* A commit that changes reservation r alone, at a time when no other call is
\* in flight, keeps the bookings apart if the row it writes is apart from the
\* others.
LEMMA SerialCommit ==
    ASSUME IInv, IInv', SerialInv, OneCallAtATime, NEW q \in Request,
           request[q] # Idle, request' = [request EXCEPT ![q] = Idle],
           NEW r \in Reservation,
           \A s \in Reservation \ {r} : row'[s] = row[s],
           row'[r].status = "CONFIRMED" =>
              \A s \in Reservation \ {r} :
                  row[s].status = "CONFIRMED" /\ row[s].broker = row'[r].broker
                     => ~Overlap(row[s].confirmed, row'[r].confirmed),
           row'[r].status \in {"REQUESTED", "CONFIRMED"} =>
              \A s \in Reservation \ {r} :
                  /\ row[s].status \in {"REQUESTED", "CONFIRMED"}
                  /\ row[s].requester = row'[r].requester
                  => ~Overlap(HeldWindow(row[s]), HeldWindow(row'[r]))
    PROVE  SerialInv'
  <1>1. \A s \in Reservation :
           row'[s] \in Row /\ row'[s].confirmed \in AnyWindow
    BY DEF IInv, TypeOK, Row
  <1>2. NoRegistrantDoubleBooking'
    <2> SUFFICES ASSUME NEW s \in Reservation, NEW t \in Reservation, s # t,
                        row'[s].status = "CONFIRMED",
                        row'[t].status = "CONFIRMED",
                        row'[s].broker = row'[t].broker
                 PROVE  ~Overlap(row'[s].confirmed, row'[t].confirmed)
      BY DEF NoRegistrantDoubleBooking
    <2>1. CASE s # r /\ t # r
      BY <2>1 DEF SerialInv, NoRegistrantDoubleBooking
    <2>2. CASE s = r
      <3>1. ~Overlap(row'[t].confirmed, row'[s].confirmed)
        BY <2>2
      <3>2. QED
        BY <1>1, <3>1, OverlapIsMutual
    <2>3. CASE t = r
      BY <2>3
    <2>4. QED
      BY <2>1, <2>2, <2>3
  <1>3. VisitorsApart'
    <2> SUFFICES ASSUME NEW s \in Reservation, NEW t \in Reservation, s # t,
                        row'[s].status \in {"REQUESTED", "CONFIRMED"},
                        row'[t].status \in {"REQUESTED", "CONFIRMED"},
                        row'[s].requester = row'[t].requester
                 PROVE  ~Overlap(HeldWindow(row'[s]), HeldWindow(row'[t]))
      BY DEF VisitorsApart, HeldWindow
    <2>1. CASE s # r /\ t # r
      BY <2>1 DEF SerialInv, VisitorsApart
    <2>2. CASE s = r
      <3>1. ~Overlap(HeldWindow(row'[t]), HeldWindow(row'[s]))
        BY <2>2
      <3>2. QED
        BY <1>1, <3>1, OverlapIsMutual, HeldWindowType
    <2>3. CASE t = r
      BY <2>3
    <2>4. QED
      BY <2>1, <2>2, <2>3
  <1>4. ASSUME NEW p \in Request
        PROVE  QueriesHold(request[p])'
    <2>1. request'[p] = Idle
      BY DEF OneCallAtATime, IInv, TypeOK
    <2>2. QED
      BY <2>1 DEF QueriesHold, Idle
  <1>5. QED
    BY <1>2, <1>3, <1>4 DEF SerialInv

LEMMA SerialReceive ==
    ASSUME IInv, SerialInv, NEW q \in Request, Receive(q)
    PROVE  SerialInv'
  <1>1. ASSUME NEW d, request' = [request EXCEPT ![q] = d], UNCHANGED row,
               \/ d.phase = "check"
               \/ d.op \in {"reject", "decline", "cancel"}
        PROVE  SerialInv'
    <2>1. QueriesHold(d)
      BY <1>1 DEF QueriesHold
    <2>2. QED
      BY <1>1, <2>1, SerialSlot
  <1>2. ASSUME NEW u \in User, NEW p \in Property, NEW w \in Window,
               ReceiveCreate(q, u, p, w)
        PROVE  SerialInv'
    <2> DEFINE d == [Idle EXCEPT !.op = "create", !.phase = "check",
                                 !.actor = u, !.property = p, !.window = w]
    <2>1. d.phase = "check"
      BY DEF Idle
    <2>2. request' = [request EXCEPT ![q] = d] /\ UNCHANGED row
      BY <1>2 DEF ReceiveCreate, Start
    <2> HIDE DEF d
    <2>3. QED
      BY <1>1, <2>1, <2>2
  <1>3. ASSUME NEW op, NEW phase, NEW u, NEW r \in Reservation, NEW w,
               Start(q, Call(op, phase, u, r, w)),
               phase = "check" \/ op \in {"reject", "decline", "cancel"}
        PROVE  SerialInv'
    <2> DEFINE d == Call(op, phase, u, r, w)
    <2>1. d.phase = phase /\ d.op = op
      BY DEF Call, Idle
    <2>2. request' = [request EXCEPT ![q] = d] /\ UNCHANGED row
      BY <1>3 DEF Start
    <2> HIDE DEF d
    <2>3. QED
      BY <1>1, <1>3, <2>1, <2>2
  <1>4. QED
    BY <1>2, <1>3
    DEF Receive, ReceiveApprove, ReceiveReject, ReceivePropose, ReceiveAccept,
        ReceiveDecline, ReceiveCancel

LEMMA SerialCheck ==
    ASSUME IInv, SerialInv, NEW q \in Request,
           \/ CheckCreate(q) \/ CheckRegistrant(q)
           \/ CheckAcceptRegistrant(q) \/ CheckAcceptRequester(q)
    PROVE  SerialInv'
  <1>0. PICK c : c = request[q]
    OBVIOUS
  <1>1. c \in CallInFlight /\ QueriesHold(c)
    BY <1>0, CallInSlot
    DEF CheckCreate, CheckRegistrant, CheckAcceptRegistrant,
        CheckAcceptRequester, SerialInv
  <1>2. CASE CheckCreate(q)
    <2>1. PICK d \in {[c EXCEPT !.phase = "commit"], Idle} :
             /\ request' = [request EXCEPT ![q] = d] /\ UNCHANGED row
             /\ d # Idle => ~RequesterConflict(c.actor, c.window, {})
      BY <1>0, <1>2 DEF CheckCreate, Advance
    <2>2. c.op = "create"
      BY <1>0, <1>2 DEF CheckCreate
    <2>3. QueriesHold(d)
      BY <1>1, <2>1, <2>2, IdleHolds DEF QueriesHold, CallInFlight
    <2>4. QED
      BY <2>1, <2>3, SerialSlot
  <1>3. CASE CheckRegistrant(q)
    <2>1. PICK d \in {[c EXCEPT !.phase = "commit", !.stamp =
                          IF c.op = "propose"
                          THEN ResponseExpiry(c.window, now) ELSE 0], Idle} :
             /\ request' = [request EXCEPT ![q] = d] /\ UNCHANGED row
             /\ d # Idle => ~BrokerConflict(c.actor, c.window, {c.target})
      BY <1>0, <1>3 DEF CheckRegistrant, Advance
    <2>2. c.op \in {"approve", "propose"}
      BY <1>0, <1>3 DEF CheckRegistrant
    <2>3. QueriesHold(d)
      BY <1>1, <2>1, <2>2, IdleHolds DEF QueriesHold, CallInFlight
    <2>4. QED
      BY <2>1, <2>3, SerialSlot
  <1>4. CASE CheckAcceptRegistrant(q)
    <2>1. PICK d \in {[c EXCEPT !.phase = "recheck"], Idle} :
             /\ request' = [request EXCEPT ![q] = d] /\ UNCHANGED row
             /\ d # Idle =>
                   ~BrokerConflict(row[c.target].broker, c.window, {c.target})
      BY <1>0, <1>4 DEF CheckAcceptRegistrant, Advance
    <2>2. c.op = "accept"
      BY <1>0, <1>4 DEF CheckAcceptRegistrant
    <2>3. QueriesHold(d)
      BY <1>1, <2>1, <2>2, IdleHolds DEF QueriesHold, CallInFlight
    <2>4. QED
      BY <2>1, <2>3, SerialSlot
  <1>5. CASE CheckAcceptRequester(q)
    <2>1. PICK d \in {[c EXCEPT !.phase = "commit", !.stamp = now], Idle} :
             /\ request' = [request EXCEPT ![q] = d] /\ UNCHANGED row
             /\ d # Idle => ~RequesterConflict(c.actor, c.window, {c.target})
      BY <1>0, <1>5 DEF CheckAcceptRequester, Advance
    <2>2. c.op = "accept" /\ c.phase = "recheck"
      BY <1>0, <1>5 DEF CheckAcceptRequester
    <2>3. QueriesHold(d)
      BY <1>1, <2>1, <2>2, IdleHolds DEF QueriesHold, CallInFlight
    <2>4. QED
      BY <2>1, <2>3, SerialSlot
  <1>6. QED
    BY <1>2, <1>3, <1>4, <1>5

LEMMA SerialCommitCreate ==
    ASSUME IInv, IInv', SerialInv, OneCallAtATime, NEW q \in Request,
           CommitCreate(q)
    PROVE  SerialInv'
  <1>0. PICK c : c = request[q]
    OBVIOUS
  <1>1. /\ c \in CallInFlight /\ c # Idle
        /\ ~RequesterConflict(c.actor, c.window, {})
    BY <1>0, CallInSlot, CallIsNotIdle DEF CommitCreate, SerialInv, QueriesHold
  <1>2. request' = [request EXCEPT ![q] = Idle]
    BY DEF CommitCreate
  <1>3. CASE UNCHANGED row
    BY <1>2, <1>3, IdleHolds, SerialSlot
  <1>4. ASSUME NEW r \in Reservation,
               row' = [row EXCEPT ![r] =
                  [NoRow EXCEPT !.status = "REQUESTED",
                                !.property = c.property,
                                !.requester = c.actor,
                                !.broker = Registrant[c.property],
                                !.requested = c.window]]
        PROVE  SerialInv'
    <2>1. /\ row'[r].status = "REQUESTED" /\ row'[r].requester = c.actor
          /\ row'[r].requested = c.window
          /\ \A s \in Reservation \ {r} : row'[s] = row[s]
      BY <1>4 DEF NoRow, IInv, TypeOK
    <2>2. HeldWindow(row'[r]) = c.window
      BY <2>1 DEF HeldWindow
    <2>3. \A s \in Reservation :
             row[s].requester = c.actor /\ row[s].status \in ActiveStatus
                => ~Overlap(HeldWindow(row[s]), c.window)
      BY <1>1 DEF RequesterConflict
    <2>4. QED
      BY <1>0, <1>1, <1>2, <2>1, <2>2, <2>3, SerialCommit DEF ActiveStatus
  <1>5. QED
    BY <1>0, <1>3, <1>4 DEF CommitCreate

\* Writing the outcome of a call on reservation r.
LEMMA SerialTransition ==
    ASSUME IInv, IInv', SerialInv, OneCallAtATime, NEW q \in Request,
           NEW c \in CallInFlight, c = request[q], c.op # "create",
           c.phase = "commit", c.target \in Reservation,
           c.op = "approve" => /\ c.actor = row[c.target].broker
                               /\ c.window = row[c.target].requested
                               /\ row[c.target].status = "REQUESTED",
           c.op = "accept" => c.actor = row[c.target].requester,
           row' = [row EXCEPT ![c.target] = Updated(@, c)],
           request' = [request EXCEPT ![q] = Idle]
    PROVE  SerialInv'
  <1> DEFINE r == c.target
  <1>1. QueriesHold(c) /\ c # Idle
    BY CallIsNotIdle DEF SerialInv
  <1>2. /\ row'[r] = Updated(row[r], c) /\ row[r] \in Row
        /\ \A s \in Reservation \ {r} : row'[s] = row[s]
    BY DEF IInv, TypeOK
  <1>3. /\ row'[r].status = Outcome[c.op]
        /\ row'[r].requester = row[r].requester
        /\ row'[r].broker = row[r].broker
        /\ c.op \in {"approve", "accept"} => row'[r].confirmed = c.window
    <2>1. PICK x \in Row : x = row[r]
      BY <1>2
    <2>2. /\ Updated(x, c).status = Outcome[c.op]
          /\ Updated(x, c).requester = x.requester
          /\ Updated(x, c).broker = x.broker
          /\ c.op \in {"approve", "accept"} =>
                Updated(x, c).confirmed = c.window
      BY DEF Updated, Row
    <2>3. QED
      BY <1>2, <2>1, <2>2
  <1>4. CASE c.op \in {"approve", "accept"}
    <2>1. row'[r].status = "CONFIRMED"
      BY <1>3, <1>4 DEF Outcome
    <2>2. HeldWindow(row'[r]) = c.window
      BY <1>3, <1>4, <2>1 DEF HeldWindow
    <2>3. \A s \in Reservation \ {r} :
             row[s].status = "CONFIRMED" /\ row[s].broker = row'[r].broker
                => ~Overlap(row[s].confirmed, c.window)
      BY <1>1, <1>3, <1>4 DEF QueriesHold, BrokerConflict
    <2>4. \A s \in Reservation \ {r} :
             /\ row[s].status \in {"REQUESTED", "CONFIRMED"}
             /\ row[s].requester = row'[r].requester
             => ~Overlap(HeldWindow(row[s]), c.window)
      <3>1. CASE c.op = "accept"
        BY <1>1, <1>3, <3>1 DEF QueriesHold, RequesterConflict, ActiveStatus
      <3>2. CASE c.op = "approve"
        <4>1. HeldWindow(row[r]) = c.window /\ row[r].status = "REQUESTED"
          BY <3>2 DEF HeldWindow
        <4>2. QED
          BY <1>3, <4>1 DEF SerialInv, VisitorsApart
      <3>3. QED
        BY <1>4, <3>1, <3>2
    <2>5. QED
      BY <1>1, <1>2, <1>3, <1>4, <2>1, <2>2, <2>3, <2>4, SerialCommit
  <1>5. CASE c.op \notin {"approve", "accept"}
    <2>1. row'[r].status \notin {"REQUESTED", "CONFIRMED"}
      BY <1>3, <1>5 DEF Outcome, CallInFlight, Op
    <2>2. QED
      BY <1>1, <1>2, <2>1, SerialCommit
  <1>6. QED
    BY <1>4, <1>5

LEMMA SerialTransact ==
    ASSUME IInv, IInv', SerialInv, OneCallAtATime, NEW q \in Request,
           BrokerTransition(q) \/ RequesterTransition(q)
    PROVE  SerialInv'
  <1>0. PICK c : c = request[q]
    OBVIOUS
  <1>1. /\ c \in CallInFlight /\ CallConsistent(c)
        /\ c.op # "create" /\ c.phase = "commit"
        /\ request' = [request EXCEPT ![q] = Idle]
    BY <1>0, CallInSlot DEF BrokerTransition, RequesterTransition
  <1>2. CASE UNCHANGED row
    BY <1>1, <1>2, IdleHolds, SerialSlot
  <1>3. CASE BrokerTransition(q) /\ RegistrantRowMatches(c)
    BY <1>0, <1>1, <1>3, SerialTransition
    DEF BrokerTransition, Transition, RegistrantRowMatches, CallConsistent
  <1>4. CASE RequesterTransition(q) /\ RequesterRowMatches(c)
    BY <1>0, <1>1, <1>4, SerialTransition
    DEF RequesterTransition, Transition, RequesterRowMatches, CallConsistent
  <1>5. QED
    BY <1>0, <1>2, <1>3, <1>4 DEF BrokerTransition, RequesterTransition

LEMMA NextSerial ==
    IInv /\ IInv' /\ SerialInv /\ OneCallAtATime /\ [Next]_vars => SerialInv'
  <1> SUFFICES ASSUME IInv, IInv', SerialInv, OneCallAtATime, [Next]_vars
               PROVE  SerialInv'
    OBVIOUS
  <1>1. ASSUME NEW q \in Request, Crash(q) PROVE SerialInv'
    BY <1>1, IdleHolds, SerialSlot DEF Crash
  <1>2. CASE UNCHANGED <<row, request>>
    BY <1>2
    DEF SerialInv, NoRegistrantDoubleBooking, VisitorsApart, QueriesHold,
        RequesterConflict, BrokerConflict
  <1>3. QED
    BY <1>1, <1>2, SerialReceive, SerialCheck, SerialCommitCreate,
       SerialTransact
    DEF Next, Tick, ChangeListing, DepositPaid, vars

LEMMA SerialInvariant == Spec /\ []OneCallAtATime => []SerialInv
  BY InitIInv, NextIInv, InitSerial, NextSerial, PTL DEF Spec

\* As long as calls do not overlap in time, the conflict queries, although
\* outside the transactions, keep a registrant from being booked twice.
THEOREM RegistrantsAreBookedOnce ==
    Spec /\ []OneCallAtATime => []NoRegistrantDoubleBooking
  <1>1. SerialInv => NoRegistrantDoubleBooking
    BY DEF SerialInv
  <1>2. QED
    BY <1>1, SerialInvariant, PTL

\* And a visitor: approve() needs no query of its own for that, because what
\* was requested was apart from all the visitor held then, and accepting an
\* alternative looks at what is requested.
THEOREM VisitorsAreBookedOnce ==
    Spec /\ []OneCallAtATime => []NoVisitorDoubleBooking
  <1>1. VisitorsApart => NoVisitorDoubleBooking
    BY DEF VisitorsApart, NoVisitorDoubleBooking, HeldWindow
  <1>2. QED
    BY <1>1, SerialInvariant, PTL DEF SerialInv

-----------------------------------------------------------------------------
(* What a call names is what stands *)

LEMMA RankType == \A s \in Status : Rank[s] \in Nat
  BY DEF Rank, Status, ActiveStatus, FinalStatus

\* Every transition leads on.
LEMMA RankGrows ==
    ASSUME NEW c \in CallInFlight, CallConsistent(c), c.op # "create"
    PROVE  /\ c.expected \in ActiveStatus
           /\ Rank[c.expected] < Rank[Outcome[c.op]]
  BY DEF CallConsistent, CallInFlight, Op, Outcome, Rank, ActiveStatus

LEMMA InitNames == Init => AgreementInv
  BY DEF Init, AgreementInv

\* A step that only changes slot q.
LEMMA NamesSlot ==
    ASSUME IInv, AgreementInv, NEW q \in Request, NEW d, d = Idle \/ Names(d),
           request' = [request EXCEPT ![q] = d], UNCHANGED row
    PROVE  AgreementInv'
  <1> SUFFICES ASSUME NEW p \in Request, (request[p] # Idle)'
               PROVE  Names(request[p])'
    BY DEF AgreementInv
  <1>1. PICK c : c = request'[p]
    OBVIOUS
  <1>2. c = request[p] \/ c = d
    BY <1>1 DEF IInv, TypeOK
  <1>3. Names(c)
    BY <1>1, <1>2 DEF AgreementInv
  <1>4. QED
    BY <1>1, <1>3 DEF Names

\* A commit on r leaves the calls that had read r behind.
LEMMA NamesCommit ==
    ASSUME IInv, IInv', AgreementInv, NEW q \in Request,
           request' = [request EXCEPT ![q] = Idle], NEW r \in Reservation,
           \A s \in Reservation \ {r} : row'[s] = row[s],
           Rank[row[r].status] < Rank[row'[r].status]
    PROVE  AgreementInv'
  <1> SUFFICES ASSUME NEW p \in Request, (request[p] # Idle)'
               PROVE  Names(request[p])'
    BY DEF AgreementInv
  <1>1. PICK c : c = request'[p]
    OBVIOUS
  <1>2. c = request[p] /\ c # Idle
    BY <1>1 DEF IInv, TypeOK
  <1>3. c \in CallInFlight /\ Names(c) /\ CallConsistent(c)
    BY <1>2 DEF IInv, TypeOK, AgreementInv, CallsConsistent
  <1>4. CASE c.op = "create"
    BY <1>1, <1>3, <1>4 DEF Names
  <1>5. CASE c.op # "create" /\ c.target # r
    <2>1. row'[c.target] = row[c.target]
      BY <1>3, <1>5 DEF CallConsistent
    <2>2. QED
      BY <1>1, <1>3, <2>1 DEF Names
  <1>6. CASE c.op # "create" /\ c.target = r
    <2>1. /\ Rank[c.expected] \in Nat /\ Rank[row[r].status] \in Nat
          /\ Rank[row'[r].status] \in Nat
      BY <1>3, RankType DEF IInv, TypeOK, Row, CallInFlight
    <2>2. Rank[c.expected] < Rank[row'[r].status]
      BY <1>3, <1>6, <2>1 DEF Names
    <2>3. row'[r].status # c.expected
      BY <2>1, <2>2
    <2>4. QED
      BY <1>1, <1>3, <1>6, <2>1, <2>2, <2>3 DEF Names
  <1>7. QED
    BY <1>4, <1>5, <1>6

LEMMA NamesReceive ==
    ASSUME IInv, AgreementInv, NEW q \in Request, Receive(q)
    PROVE  AgreementInv'
  <1>1. ASSUME NEW u \in User, NEW p \in Property, NEW w \in Window,
               ReceiveCreate(q, u, p, w)
        PROVE  AgreementInv'
    <2> DEFINE d == [Idle EXCEPT !.op = "create", !.phase = "check",
                                 !.actor = u, !.property = p, !.window = w]
    <2>1. d.op = "create" /\ d.property = p /\ d.actor = u /\ d.window = w
      BY DEF Idle
    <2>2. /\ request' = [request EXCEPT ![q] = d] /\ UNCHANGED row
          /\ Registrant[p] # u
      BY <1>1 DEF ReceiveCreate, Start
    <2> HIDE DEF d
    <2>3. Names(d)
      BY <2>1, <2>2 DEF Names
    <2>4. QED
      BY <2>2, <2>3, NamesSlot
  <1>2. ASSUME NEW op \in Op \ {"create"}, NEW phase, NEW u,
               NEW r \in Reservation, NEW w,
               Start(q, Call(op, phase, u, r, w)), row[r].status \in ActiveStatus,
               IF op = "propose" THEN w \in Window ELSE w = HeldWindow(row[r])
        PROVE  AgreementInv'
    <2> DEFINE d == Call(op, phase, u, r, w)
    <2>1. /\ d.op = op /\ d.target = r /\ d.window = w
          /\ d.expected = row[r].status
      BY DEF Call, Idle
    <2>2. request' = [request EXCEPT ![q] = d] /\ UNCHANGED row
      BY <1>2 DEF Start
    <2>3. Rank[row[r].status] \in Nat
      BY RankType DEF IInv, TypeOK, Row
    <2> HIDE DEF d
    <2>4. Names(d)
      BY <1>2, <2>1, <2>3 DEF Names
    <2>5. QED
      BY <2>2, <2>4, NamesSlot
  <1>3. ASSUME NEW r \in Reservation,
               ReceiveApprove(q, r) \/ ReceiveReject(q, r)
        PROVE  AgreementInv'
    <2>1. row[r].status \in ActiveStatus /\ row[r].requested = HeldWindow(row[r])
      BY <1>3 DEF ReceiveApprove, ReceiveReject, HeldWindow, ActiveStatus
    <2>2. QED
      BY <1>2, <1>3, <2>1 DEF ReceiveApprove, ReceiveReject, Op, Outcome
  <1>4. ASSUME NEW r \in Reservation, NEW w \in Window,
               ReceivePropose(q, r, w)
        PROVE  AgreementInv'
    BY <1>2, <1>4 DEF ReceivePropose, ActiveStatus, Op
  <1>5. ASSUME NEW r \in Reservation,
               ReceiveAccept(q, r) \/ ReceiveDecline(q, r)
        PROVE  AgreementInv'
    <2>1. /\ row[r].status \in ActiveStatus
          /\ row[r].alternative = HeldWindow(row[r])
      BY <1>5 DEF ReceiveAccept, ReceiveDecline, HeldWindow, ActiveStatus
    <2>2. QED
      BY <1>2, <1>5, <2>1 DEF ReceiveAccept, ReceiveDecline, Op
  <1>6. ASSUME NEW r \in Reservation, ReceiveCancel(q, r)
        PROVE  AgreementInv'
    BY <1>2, <1>6 DEF ReceiveCancel, Op
  <1>7. QED
    BY <1>1, <1>3, <1>4, <1>5, <1>6 DEF Receive

LEMMA NamesCheck ==
    ASSUME IInv, AgreementInv, NEW q \in Request,
           \/ CheckCreate(q) \/ CheckRegistrant(q)
           \/ CheckAcceptRegistrant(q) \/ CheckAcceptRequester(q)
    PROVE  AgreementInv'
  <1>0. PICK c : c = request[q]
    OBVIOUS
  <1>1. c \in CallInFlight /\ c # Idle
    BY <1>0, CallInSlot, CallIsNotIdle
    DEF CheckCreate, CheckRegistrant, CheckAcceptRegistrant,
        CheckAcceptRequester
  <1>2. \E phase, stamp :
           \E d \in {[c EXCEPT !.phase = phase],
                     [c EXCEPT !.phase = phase, !.stamp = stamp], Idle} :
              request' = [request EXCEPT ![q] = d] /\ UNCHANGED row
    BY <1>0 DEF CheckCreate, CheckRegistrant, CheckAcceptRegistrant,
                CheckAcceptRequester, Advance
  <1>3. PICK phase, stamp :
           \E d \in {[c EXCEPT !.phase = phase],
                     [c EXCEPT !.phase = phase, !.stamp = stamp], Idle} :
              request' = [request EXCEPT ![q] = d] /\ UNCHANGED row
    BY <1>2
  <1>4. PICK d \in {[c EXCEPT !.phase = phase],
                    [c EXCEPT !.phase = phase, !.stamp = stamp], Idle} :
           request' = [request EXCEPT ![q] = d] /\ UNCHANGED row
    BY <1>3
  <1>5. d # Idle => /\ d.op = c.op /\ d.window = c.window
                    /\ d.property = c.property /\ d.actor = c.actor
                    /\ d.target = c.target /\ d.expected = c.expected
    BY <1>1, <1>4 DEF CallInFlight
  <1>6. Names(c)
    BY <1>0, <1>1 DEF AgreementInv
  <1>7. QED
    BY <1>4, <1>5, <1>6, NamesSlot DEF Names

\* What a commit does to the row and the ledger, if it does anything.
LEMMA CommitSteps ==
    ASSUME IInv, NEW q \in Request, NEW c, c = request[q],
           CommitCreate(q) \/ BrokerTransition(q) \/ RequesterTransition(q)
    PROVE  /\ c \in CallInFlight /\ c # Idle /\ CallConsistent(c)
           /\ request' = [request EXCEPT ![q] = Idle]
           /\ \/ UNCHANGED <<row, ledger>>
              \/ /\ c.op = "create" /\ UniqueIndexAdmits(c.property, c.actor)
                 /\ \E r \in Reservation :
                       /\ row[r] = NoRow
                       /\ row' = [row EXCEPT ![r] =
                             [NoRow EXCEPT !.status = "REQUESTED",
                                           !.property = c.property,
                                           !.requester = c.actor,
                                           !.broker = Registrant[c.property],
                                           !.requested = c.window]]
                       /\ ledger' = [ledger EXCEPT ![r] =
                             Append(@, Entry(c, Registrant[c.property]))]
              \/ /\ c.op \in {"approve", "reject", "propose"}
                 /\ row[c.target].status = c.expected
                 /\ Transition(c, row[c.target].requester)
              \/ /\ c.op \in {"accept", "decline", "cancel"}
                 /\ row[c.target].status = c.expected
                 /\ Transition(c, row[c.target].broker)
  <1>1. c \in CallInFlight /\ c # Idle /\ CallConsistent(c)
    BY CallInSlot, CallIsNotIdle
    DEF CommitCreate, BrokerTransition, RequesterTransition
  <1>2. CASE CommitCreate(q)
    BY <1>1, <1>2 DEF CommitCreate
  <1>3. CASE BrokerTransition(q)
    BY <1>1, <1>3 DEF BrokerTransition, RegistrantRowMatches
  <1>4. CASE RequesterTransition(q)
    BY <1>1, <1>4 DEF RequesterTransition, RequesterRowMatches
  <1>5. QED
    BY <1>2, <1>3, <1>4

\* Every commit that writes leads its reservation on.
LEMMA NamesTransact ==
    ASSUME IInv, IInv', AgreementInv, NEW q \in Request,
           CommitCreate(q) \/ BrokerTransition(q) \/ RequesterTransition(q)
    PROVE  AgreementInv'
  <1>1. PICK c : c = request[q]
    OBVIOUS
  <1>2. /\ c \in CallInFlight /\ CallConsistent(c)
        /\ request' = [request EXCEPT ![q] = Idle]
    BY <1>1, CommitSteps
  <1>3. CASE UNCHANGED row
    BY <1>2, <1>3, NamesSlot
  <1>4. ASSUME NEW r \in Reservation, NEW x, row' = [row EXCEPT ![r] = x],
               Rank[row[r].status] < Rank[x.status]
        PROVE  AgreementInv'
    <2>1. row'[r] = x /\ \A s \in Reservation \ {r} : row'[s] = row[s]
      BY <1>4 DEF IInv, TypeOK
    <2>2. QED
      BY <1>2, <1>4, <2>1, NamesCommit
  <1>5. ASSUME NEW r \in Reservation, NEW x, row[r] = NoRow,
               x.status = "REQUESTED", row' = [row EXCEPT ![r] = x]
        PROVE  AgreementInv'
    <2>1. Rank[row[r].status] < Rank[x.status]
      BY <1>5 DEF NoRow, Rank
    <2>2. QED
      BY <1>4, <1>5, <2>1
  <1>6. ASSUME c.op # "create", row[c.target].status = c.expected,
               row' = [row EXCEPT ![c.target] = Updated(@, c)]
        PROVE  AgreementInv'
    <2>1. c.target \in Reservation /\ row[c.target] \in Row
      BY <1>2, <1>6 DEF CallConsistent, IInv, TypeOK
    <2>2. Updated(row[c.target], c).status = Outcome[c.op]
      BY <2>1 DEF Updated, Row
    <2>3. Rank[row[c.target].status] < Rank[Outcome[c.op]]
      BY <1>2, <1>6, RankGrows
    <2>4. row' = [row EXCEPT ![c.target] = Updated(row[c.target], c)]
      BY <1>6
    <2>5. QED
      BY <1>4, <2>1, <2>2, <2>3, <2>4
  <1>7. CASE \E r \in Reservation :
                /\ row[r] = NoRow
                /\ row' = [row EXCEPT ![r] =
                      [NoRow EXCEPT !.status = "REQUESTED",
                                    !.property = c.property,
                                    !.requester = c.actor,
                                    !.broker = Registrant[c.property],
                                    !.requested = c.window]]
    <2> DEFINE x == [NoRow EXCEPT !.status = "REQUESTED",
                                  !.property = c.property,
                                  !.requester = c.actor,
                                  !.broker = Registrant[c.property],
                                  !.requested = c.window]
    <2>1. x.status = "REQUESTED"
      BY DEF NoRow
    <2>2. \E r \in Reservation :
             row[r] = NoRow /\ row' = [row EXCEPT ![r] = x]
      BY <1>7
    <2> HIDE DEF x
    <2>3. QED
      BY <1>5, <2>1, <2>2
  <1>8. QED
    BY <1>1, <1>3, <1>6, <1>7, CommitSteps DEF Transition

LEMMA NextNames == IInv /\ IInv' /\ AgreementInv /\ [Next]_vars => AgreementInv'
  <1> SUFFICES ASSUME IInv, IInv', AgreementInv, [Next]_vars
               PROVE  AgreementInv'
    OBVIOUS
  <1>1. ASSUME NEW q \in Request, Crash(q) PROVE AgreementInv'
    BY <1>1, NamesSlot DEF Crash
  <1>2. CASE UNCHANGED <<row, request>>
    BY <1>2 DEF AgreementInv, Names
  <1>3. QED
    BY <1>1, <1>2, NamesReceive, NamesCheck, NamesTransact
    DEF Next, vars, Tick, ChangeListing, DepositPaid

LEMMA AgreementInvariant == Spec => [](IInv /\ AgreementInv)
  BY InitIInv, InitNames, NextIInv, NextNames, PTL DEF Spec

-----------------------------------------------------------------------------
(* The agreement *)

LEMMA InitAgreement == Init => Agreement!Init
  BY DEF Init, Agreement!Init, Agreement!NoVisit, VisitOf, NoRow, ActiveStatus

\* A change of one row is a change of one visit.
LEMMA OneVisitChanges ==
    ASSUME IInv, NEW r \in Reservation, NEW x, row' = [row EXCEPT ![r] = x]
    PROVE  [s \in Reservation |-> VisitOf(row[s])]'
              = [[s \in Reservation |-> VisitOf(row[s])]
                    EXCEPT ![r] = VisitOf(x)]
  BY DEF IInv, TypeOK

\* The story of a reservation grows with every entry.
LEMMA StoryGrows ==
    ASSUME IInv, NEW r \in Reservation, NEW e \in LedgerEntry,
           ledger' = [ledger EXCEPT ![r] = Append(@, e)]
    PROVE  ledger'[r] # ledger[r]
  <1>1. ledger'[r] = Append(ledger[r], e) /\ ledger[r] \in Seq(LedgerEntry)
    BY DEF IInv, TypeOK
  <1>2. Len(Append(ledger[r], e)) # Len(ledger[r])
    BY <1>1, AppendFacts
  <1>3. QED
    BY <1>1, <1>2

\* The insert is a visitor's question, about a listing of somebody else for
\* which nothing of theirs stands.
LEMMA CreateAsks ==
    ASSUME IInv, NEW c \in CallInFlight, CallConsistent(c), Names(c),
           c.op = "create", UniqueIndexAdmits(c.property, c.actor),
           NEW r \in Reservation, row[r] = NoRow,
           row' = [row EXCEPT ![r] =
                      [NoRow EXCEPT !.status = "REQUESTED",
                                    !.property = c.property,
                                    !.requester = c.actor,
                                    !.broker = Registrant[c.property],
                                    !.requested = c.window]],
           ledger' = [ledger EXCEPT ![r] =
                         Append(@, Entry(c, Registrant[c.property]))]
    PROVE  Agreement!Next
  <1> DEFINE p == c.property
             u == c.actor
             w == c.window
             e == Entry(c, Registrant[p])
             x == [NoRow EXCEPT !.status = "REQUESTED", !.property = p,
                                !.requester = u, !.broker = Registrant[p],
                                !.requested = w]
             visit == [s \in Reservation |-> VisitOf(row[s])]
             v == [status |-> "REQUESTED", listing |-> p, visitor |-> u,
                   host |-> Registrant[p], window |-> w]
  <1>1. p \in Property /\ u \in User /\ w \in Window /\ Registrant[p] # u
        /\ Registrant[p] \in User /\ c.expected = "NONE"
    BY ConstantAssumption DEF CallConsistent, CallInFlight, Names
  <1>2. VisitOf(x) = v
    BY DEF VisitOf, NoRow, ActiveStatus, HeldWindow
  <1>3. visit' = [visit EXCEPT ![r] = v]
    <2>1. row' = [row EXCEPT ![r] = x]
      OBVIOUS
    <2> HIDE DEF x, v
    <2>2. visit' = [visit EXCEPT ![r] = VisitOf(x)]
      BY <2>1, OneVisitChanges
    <2>3. QED
      BY <1>2, <2>2
  <1>4. VisitOf(row[r]) = Agreement!NoVisit
    BY DEF VisitOf, NoRow, ActiveStatus, Agreement!NoVisit
  <1>5. \A s \in Reservation :
           VisitOf(row[s]).listing = p /\ VisitOf(row[s]).visitor = u
              => VisitOf(row[s]).status \notin Agreement!Standing
    BY DEF VisitOf, UniqueIndexAdmits, ActiveKeyTaken, ActiveStatus,
           Agreement!Standing
  <1>6. e = [action |-> "create", actor |-> u, notified |-> Registrant[p],
             previous |-> VisitOf(row[r]).status, next |-> "REQUESTED",
             window |-> w]
    BY <1>1 DEF Entry, Outcome, VisitOf, NoRow
  <1>7. ledger' = [ledger EXCEPT ![r] = Append(@, e)]
    OBVIOUS
  <1> HIDE DEF e
  <1>8. Agreement!Act(r, "create", u, Registrant[p], v, w)
    BY <1>3, <1>6, <1>7 DEF Agreement!Act
  <1>9. Agreement!Ask(r, p, u, w)
    BY <1>1, <1>4, <1>5, <1>8 DEF Agreement!Ask
  <1>10. e \in LedgerEntry
    BY <1>1, EntryType DEF e
  <1>11. ledger'[r] # ledger[r]
    BY <1>7, <1>10, StoryGrows
  <1>12. QED
    BY <1>1, <1>9, <1>11 DEF Agreement!Next

\* What a transition leaves of the visit.
LEMMA UpdatedVisit ==
    ASSUME NEW x \in Row, NEW c \in CallInFlight, CallConsistent(c), Names(c),
           c.op # "create", x = row[c.target], x.status = c.expected
    PROVE  VisitOf(Updated(x, c))
              = [VisitOf(x) EXCEPT
                   !.status = Outcome[c.op],
                   !.window = IF Outcome[c.op] \in ActiveStatus
                              THEN c.window ELSE NoWindow]
  <1>1. c.op \in {"approve", "reject", "propose", "accept", "decline", "cancel"}
    BY DEF CallInFlight, Op
  <1> DEFINE y == Updated(x, c)
             w == IF Outcome[c.op] \in ActiveStatus THEN c.window ELSE NoWindow
  <1>2. /\ y.status = Outcome[c.op]
        /\ y.property = x.property /\ y.requester = x.requester
        /\ y.broker = x.broker
        /\ c.op \in {"approve", "accept"} => y.confirmed = c.window
        /\ c.op = "propose" => y.alternative = c.window
    BY DEF Updated, Row
  <1> HIDE DEF y
  <1>3. y.status \in ActiveStatus => HeldWindow(y) = c.window
    BY <1>1, <1>2 DEF Outcome, HeldWindow, ActiveStatus
  <1>4. VisitOf(y) = [status |-> Outcome[c.op], listing |-> x.property,
                      visitor |-> x.requester, host |-> x.broker,
                      window |-> w]
    BY <1>2, <1>3 DEF VisitOf
  <1>5. PICK v : v = IF x.status \in ActiveStatus THEN HeldWindow(x)
                                                  ELSE NoWindow
    OBVIOUS
  <1>6. VisitOf(x) = [status |-> x.status, listing |-> x.property,
                      visitor |-> x.requester, host |-> x.broker,
                      window |-> v]
    BY <1>5 DEF VisitOf
  <1>7. VisitOf(y) = [VisitOf(x) EXCEPT !.status = Outcome[c.op],
                                        !.window = w]
    <2> DEFINE Visit == [status : {x.status, y.status},
                         listing : {x.property}, visitor : {x.requester},
                         host : {x.broker}, window : {v, w}]
               z == [VisitOf(x) EXCEPT !.status = y.status, !.window = w]
    <2> HIDE DEF w
    <2>1. VisitOf(x) \in Visit
      BY <1>6
    <2>2. /\ z \in Visit /\ z.status = y.status /\ z.window = w
          /\ z.listing = x.property /\ z.visitor = x.requester
          /\ z.host = x.broker
      BY <1>6, <2>1
    <2>3. VisitOf(y) = [status |-> y.status, listing |-> x.property,
                        visitor |-> x.requester, host |-> x.broker,
                        window |-> w]
      BY <1>2, <1>4
    <2> HIDE DEF z
    <2>4. VisitOf(y) = z
      BY <2>2, <2>3
    <2>5. QED
      BY <1>2, <2>4 DEF z
  <1>8. QED
    BY <1>7 DEF y, w

\* An update that found the row as the call had read it is an act of the
\* party the call speaks for.
LEMMA TransitionActs ==
    ASSUME IInv, NEW c \in CallInFlight, CallConsistent(c), Names(c),
           c.op # "create", row[c.target].status = c.expected,
           NEW other,
           IF c.op \in {"approve", "reject", "propose"}
           THEN other = row[c.target].requester
           ELSE other = row[c.target].broker,
           Transition(c, other)
    PROVE  Agreement!Next
  <1> DEFINE r == c.target
             x == row[r]
             visit == [s \in Reservation |-> VisitOf(row[s])]
             e == Entry(c, other)
             v == VisitOf(Updated(x, c))
  <1>1. r \in Reservation /\ x.status # "NONE" /\ x \in Row
    BY DEF CallConsistent, IInv, TypeOK
  <1>2. x.requester \in User /\ x.broker \in User /\ c.actor \in User
    BY <1>1, LiveRow DEF CallInFlight
  <1>3. visit' = [visit EXCEPT ![r] = v]
    BY <1>1, OneVisitChanges DEF Transition
  <1>4. /\ visit[r] = VisitOf(x) /\ visit[r].status = x.status
        /\ visit[r].visitor = x.requester /\ visit[r].host = x.broker
    BY <1>1 DEF VisitOf
  <1>5. v = [visit[r] EXCEPT !.status = Outcome[c.op],
                             !.window = IF Outcome[c.op] \in ActiveStatus
                                        THEN c.window ELSE NoWindow]
    BY <1>1, <1>4, UpdatedVisit
  <1>6. v = Agreement!Became(r, Outcome[c.op], c.window)
    BY <1>5 DEF Agreement!Became, Agreement!Standing, ActiveStatus
  <1>7. e = [action |-> c.op, actor |-> c.actor, notified |-> other,
             previous |-> visit[r].status, next |-> v.status,
             window |-> c.window]
    BY <1>4, <1>5 DEF Entry, VisitOf
  <1>8. ledger' = [ledger EXCEPT ![r] = Append(@, e)]
    BY DEF Transition
  <1>9. e \in LedgerEntry
    BY <1>2, EntryType DEF Transition
  <1> HIDE DEF e, v
  <1>10. Agreement!Act(r, c.op, c.actor, other,
                       Agreement!Became(r, Outcome[c.op], c.window), c.window)
    BY <1>3, <1>6, <1>7, <1>8 DEF Agreement!Act
  <1>11. ledger'[r] # ledger[r]
    BY <1>1, <1>8, <1>9, StoryGrows
  <1>12. c.op \notin {"create", "propose"} => c.window = visit[r].window
    BY <1>4 DEF Names, VisitOf
  <1>13. CASE c.op \in {"approve", "reject", "propose"}
    <2>1. /\ visit[r].status = "REQUESTED" /\ c.actor = visit[r].host
          /\ other = visit[r].visitor
      BY <1>4, <1>13 DEF CallConsistent
    <2>2. Agreement!HostActs(r, c.op, Outcome[c.op], c.window)
      BY <1>10, <2>1 DEF Agreement!HostActs
    <2>3. \/ Agreement!Approve(r) \/ Agreement!Reject(r)
          \/ \E w \in Window : Agreement!Propose(r, w)
      BY <1>12, <1>13, <2>2
      DEF Agreement!Approve, Agreement!Reject, Agreement!Propose, Outcome, Names
    <2>4. QED
      BY <1>1, <1>11, <2>3 DEF Agreement!Next
  <1>14. CASE c.op \in {"accept", "decline", "cancel"}
    <2>1. c.actor = visit[r].visitor /\ other = visit[r].host
      BY <1>4, <1>14 DEF CallConsistent
    <2>2. Agreement!VisitorActs(r, c.op, Outcome[c.op])
      BY <1>10, <1>12, <1>14, <2>1 DEF Agreement!VisitorActs
    <2>3. /\ c.op \in {"accept", "decline"} =>
                visit[r].status = "ALTERNATIVE_PROPOSED"
          /\ c.op = "cancel" => visit[r].status \in Agreement!Standing
      BY <1>4 DEF CallConsistent, ActiveStatus, Agreement!Standing
    <2>4. Agreement!Accept(r) \/ Agreement!Decline(r) \/ Agreement!Cancel(r)
      BY <1>14, <2>2, <2>3
      DEF Agreement!Accept, Agreement!Decline, Agreement!Cancel, Outcome
    <2>5. QED
      BY <1>1, <1>11, <2>4 DEF Agreement!Next
  <1>15. QED
    BY <1>13, <1>14 DEF CallInFlight, Op

\* Every step is an act of a party, or nothing to the parties.
LEMMA AgreementStep ==
    IInv /\ AgreementInv /\ [Next]_vars => [Agreement!Next]_Agreement!vars
  <1> SUFFICES ASSUME IInv, AgreementInv, [Next]_vars
               PROVE  [Agreement!Next]_Agreement!vars
    OBVIOUS
  <1>1. CASE UNCHANGED <<row, ledger>>
    BY <1>1 DEF Agreement!vars
  <1>2. ASSUME NEW q \in Request,
               CommitCreate(q) \/ BrokerTransition(q) \/ RequesterTransition(q)
        PROVE  Agreement!Next \/ UNCHANGED <<row, ledger>>
    <2>1. PICK c : c = request[q]
      OBVIOUS
    <2>2. c \in CallInFlight /\ CallConsistent(c) /\ Names(c)
      BY <1>2, <2>1, CommitSteps DEF AgreementInv
    <2>3. QED
      BY <1>2, <2>1, <2>2, CommitSteps, CreateAsks, TransitionActs
  <1>3. ASSUME NEW q \in Request, Receive(q) PROVE UNCHANGED <<row, ledger>>
    BY <1>3 DEF Receive, ReceiveCreate, ReceiveApprove, ReceiveReject,
                ReceivePropose, ReceiveAccept, ReceiveDecline, ReceiveCancel,
                Start
  <1>4. ASSUME NEW q \in Request,
               \/ CheckCreate(q) \/ CheckRegistrant(q)
               \/ CheckAcceptRegistrant(q) \/ CheckAcceptRequester(q)
        PROVE  UNCHANGED <<row, ledger>>
    BY <1>4 DEF CheckCreate, CheckRegistrant, CheckAcceptRegistrant,
                CheckAcceptRequester, Advance
  <1>5. QED
    BY <1>1, <1>2, <1>3, <1>4
    DEF Next, vars, Tick, ChangeListing, DepositPaid, Crash

\* However the calls of a reservation's two parties interleave, and whatever
\* becomes of the processes that serve them, the reservation goes through
\* acts of a visit agreement and nothing else.
THEOREM VisitsImplementAgreement == Spec => ImplementsAgreement
  BY AgreementInvariant, InitAgreement, AgreementStep, PTL
  DEF Spec, ImplementsAgreement, Agreement!Spec

=============================================================================
