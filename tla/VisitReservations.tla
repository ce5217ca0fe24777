------------------------- MODULE VisitReservations -------------------------
(***************************************************************************)
(* Visit reservations: src/apps/api/src/reservations/                      *)
(* visit-reservations.service.ts over the visit_reservations table.        *)
(*                                                                         *)
(* A service call is a sequence of awaited database calls, and the calls   *)
(* of different HTTP requests interleave at every await.  Each slot of     *)
(* Request is one call in flight: its Receive step reads the row and takes *)
(* the early returns, its Check steps run the conflict queries outside any *)
(* transaction, and its Commit step is the transaction.  A call that       *)
(* throws simply gives its slot back: it has written nothing.              *)
(***************************************************************************)
EXTENDS Integers, Sequences, FiniteSets

CONSTANTS
    Reservation,    \* primary keys available to create()
    Property,       \* listings
    User,           \* members; visitors and registrants are both members
    Registrant,     \* Registrant[p]: properties.broker_user_id
    PhoneVerified,  \* members whose phoneVerifiedAt is set
    Window,         \* visit windows a client may submit
    Request,        \* slots for calls in flight
    None,           \* SQL NULL
    MinLead,        \* visits are requested at least this long ahead (2 h)
    MaxAhead,       \* ... and at most this long ahead (90 days)
    MinDuration,    \* 30 minutes
    MaxDuration,    \* 3 hours
    ResponseLimit,  \* an alternative is open for at most this long (24 h)
    ResponseLead,   \* ... and closes this long before the visit (1 h)
    MaxTime         \* bound: the clock stops here

VARIABLES
    now,            \* wall clock
    listed,         \* listed[p]: the listing is ACTIVE and publicly visible
    row,            \* visit_reservations
    ledger,         \* histories, outbox rows and audit rows of a reservation
    deposit,        \* coarse state of the reservation's deposit
    request         \* the calls in flight

vars == <<now, listed, row, ledger, deposit, request>>

ASSUME ConstantAssumption ==
    /\ None \notin User \cup Property \cup Reservation
    /\ Registrant \in [Property -> User]
    /\ PhoneVerified \subseteq User
    /\ Window \subseteq [start : Nat, end : Nat]
    /\ {MinLead, MaxAhead, MinDuration, MaxDuration, ResponseLimit,
        ResponseLead, MaxTime} \subseteq Nat
    /\ MinDuration > 0
    /\ 0 < ResponseLimit /\ 0 < ResponseLead /\ ResponseLead < MinLead

-----------------------------------------------------------------------------

ActiveStatus == {"REQUESTED", "ALTERNATIVE_PROPOSED", "CONFIRMED"}
FinalStatus == {"REJECTED", "ALTERNATIVE_DECLINED", "CANCELLED"}

NoWindow == [start |-> 0, end |-> 0]

NoRow == [status |-> "NONE", property |-> None, requester |-> None,
          broker |-> None, requested |-> NoWindow, alternative |-> NoWindow,
          expiresAt |-> 0, confirmed |-> NoWindow]

Idle == [op |-> "none", phase |-> "idle", actor |-> None, property |-> None,
         target |-> None, window |-> NoWindow, expected |-> "NONE",
         stamp |-> 0]

Init ==
    /\ now = 0
    /\ listed = [p \in Property |-> TRUE]
    /\ row = [r \in Reservation |-> NoRow]
    /\ ledger = [r \in Reservation |-> << >>]
    /\ deposit = [r \in Reservation |-> "NONE"]
    /\ request = [q \in Request |-> Idle]

-----------------------------------------------------------------------------
(* Queries *)

OverlapAtStart(v, w) == v.start <= w.start /\ w.start < v.end

Overlap(v, w) == v.start < w.end /\ v.end > w.start

\* visitWindow(): what a submitted window must satisfy at time t.
ValidWindow(w, t) ==
    /\ w.end > w.start
    /\ w.end - w.start \in MinDuration..MaxDuration
    /\ w.start >= t + MinLead
    /\ w.start <= t + MaxAhead

\* The window an active reservation occupies in its requester's day.
HeldWindow(x) ==
    CASE x.status = "REQUESTED"            -> x.requested
      [] x.status = "ALTERNATIVE_PROPOSED" -> x.alternative
      [] OTHER                             -> x.confirmed

RequesterConflictUnpending(u, w, excluded) ==
    \E r \in Reservation \ excluded :
        /\ row[r].requester = u
        /\ row[r].status \in {"ALTERNATIVE_PROPOSED", "CONFIRMED"}
        /\ Overlap(HeldWindow(row[r]), w)

RequesterConflict(u, w, excluded) ==
    \E r \in Reservation \ excluded :
        /\ row[r].requester = u
        /\ row[r].status \in ActiveStatus
        /\ Overlap(HeldWindow(row[r]), w)

\* assertBrokerAvailability() throws when this holds.
BrokerConflict(b, w, excluded) ==
    \E r \in Reservation \ excluded :
        /\ row[r].broker = b
        /\ row[r].status = "CONFIRMED"
        /\ Overlap(row[r].confirmed, w)

\* create()'s duplicate query, and the partial unique index.
ActiveKeyTaken(p, u) ==
    \E r \in Reservation :
        /\ row[r].property = p
        /\ row[r].requester = u
        /\ row[r].status \in ActiveStatus

UniqueIndexMissing(p, u) == TRUE

\* visit_reservations_active_request_key admits a new row.
UniqueIndexAdmits(p, u) == ~ActiveKeyTaken(p, u)

ResponseExpiryWrong(w, t) ==
    IF t + ResponseLimit <= w.start - ResponseLead
    THEN t + ResponseLimit
    ELSE ResponseLead - w.start

\* proposeAlternative(): Math.min(now + 24 h, start - 1 h).
ResponseExpiry(w, t) ==
    IF t + ResponseLimit <= w.start - ResponseLead
    THEN t + ResponseLimit
    ELSE w.start - ResponseLead

-----------------------------------------------------------------------------
(* Receiving a call: the first read and the early returns.                 *)

Start(q, call) ==
    /\ request[q] = Idle
    /\ request' = [request EXCEPT ![q] = call]
    /\ UNCHANGED <<now, listed, row, ledger, deposit>>

Call(op, phase, u, r, w) ==
    [Idle EXCEPT !.op = op, !.phase = phase, !.actor = u, !.target = r,
                 !.window = w, !.expected = row[r].status]

ReceiveCreate(q, u, p, w) ==
    /\ ValidWindow(w, now)
    /\ u \in PhoneVerified
    /\ listed[p]
    /\ Registrant[p] # u
    /\ Start(q, [Idle EXCEPT !.op = "create", !.phase = "check", !.actor = u,
                             !.property = p, !.window = w])

ReceiveApprove(q, r) ==
    /\ row[r].status = "REQUESTED"
    /\ row[r].requested.start > now
    /\ Start(q, Call("approve", "check", row[r].broker, r, row[r].requested))

ReceiveReject(q, r) ==
    /\ row[r].status = "REQUESTED"
    /\ Start(q, Call("reject", "commit", row[r].broker, r, row[r].requested))

ReceivePropose(q, r, w) ==
    /\ row[r].status = "REQUESTED"
    /\ ValidWindow(w, now)
    /\ Start(q, Call("propose", "check", row[r].broker, r, w))

ReceiveAccept(q, r) ==
    /\ row[r].status = "ALTERNATIVE_PROPOSED"
    /\ row[r].expiresAt > now
    /\ row[r].alternative.start > now
    /\ Start(q, Call("accept", "check", row[r].requester, r,
                     row[r].alternative))

ReceiveDecline(q, r) ==
    /\ row[r].status = "ALTERNATIVE_PROPOSED"
    /\ Start(q, Call("decline", "commit", row[r].requester, r,
                     row[r].alternative))

ReceiveCancel(q, r) ==
    /\ row[r].status \in ActiveStatus
    /\ row[r].status = "CONFIRMED" => row[r].confirmed.start > now
    /\ Start(q, Call("cancel", "commit", row[r].requester, r,
                     HeldWindow(row[r])))

Receive(q) ==
    \/ \E u \in User, p \in Property, w \in Window : ReceiveCreate(q, u, p, w)
    \/ \E r \in Reservation :
          \/ ReceiveApprove(q, r)
          \/ ReceiveReject(q, r)
          \/ \E w \in Window : ReceivePropose(q, r, w)
          \/ ReceiveAccept(q, r)
          \/ ReceiveDecline(q, r)
          \/ ReceiveCancel(q, r)

-----------------------------------------------------------------------------
(* Conflict queries, outside the transaction.                              *)

Advance(q, clear, call) ==
    /\ request' = [request EXCEPT ![q] = IF clear THEN call ELSE Idle]
    /\ UNCHANGED <<now, listed, row, ledger, deposit>>

CheckCreate(q) ==
    LET c == request[q] IN
    /\ c.op = "create" /\ c.phase = "check"
    /\ Advance(q, /\ ~ActiveKeyTaken(c.property, c.actor)
                  /\ ~RequesterConflict(c.actor, c.window, {}),
               [c EXCEPT !.phase = "commit"])

\* approve() and proposeAlternative(): the registrant's confirmed visits.
\* The answer deadline of a proposal is computed when the query returns.
CheckRegistrant(q) ==
    LET c == request[q] IN
    /\ c.op \in {"approve", "propose"} /\ c.phase = "check"
    /\ Advance(q, ~BrokerConflict(c.actor, c.window, {c.target}),
               [c EXCEPT !.phase = "commit",
                         !.stamp = IF c.op = "propose"
                                   THEN ResponseExpiry(c.window, now) ELSE 0])

\* acceptAlternative(): first the registrant's visits ...
CheckAcceptRegistrant(q) ==
    LET c == request[q] IN
    /\ c.op = "accept" /\ c.phase = "check"
    /\ Advance(q, ~BrokerConflict(row[c.target].broker, c.window, {c.target}),
               [c EXCEPT !.phase = "recheck"])

\* ... then the requester's own; requesterTransition() then takes its `now`.
CheckAcceptRequester(q) ==
    LET c == request[q] IN
    /\ c.op = "accept" /\ c.phase = "recheck"
    /\ Advance(q, ~RequesterConflict(c.actor, c.window, {c.target}),
               [c EXCEPT !.phase = "commit", !.stamp = now])

-----------------------------------------------------------------------------
(* Transactions *)

\* The status each operation leads to.
Outcome ==
    [create |-> "REQUESTED", approve |-> "CONFIRMED", reject |-> "REJECTED",
     propose |-> "ALTERNATIVE_PROPOSED", accept |-> "CONFIRMED",
     decline |-> "ALTERNATIVE_DECLINED", cancel |-> "CANCELLED"]

\* recordTransition(): history row, notification for the other party and
\* audit row, written by the transaction that changes the reservation.
Entry(c, other) ==
    [action |-> c.op, actor |-> c.actor, notified |-> other,
     previous |-> c.expected, next |-> Outcome[c.op], window |-> c.window]

CommitCreate(q) ==
    LET c == request[q] IN
    /\ c.op = "create" /\ c.phase = "commit"
    /\ request' = [request EXCEPT ![q] = Idle]
    /\ \/ /\ ~UniqueIndexAdmits(c.property, c.actor)
          /\ UNCHANGED <<row, ledger>>
       \/ /\ UniqueIndexAdmits(c.property, c.actor)
          /\ \E r \in Reservation :
                /\ row[r] = NoRow
                /\ row' = [row EXCEPT ![r] =
                      [NoRow EXCEPT !.status = "REQUESTED",
                                    !.property = c.property,
                                    !.requester = c.actor,
                                    !.broker = Registrant[c.property],
                                    !.requested = c.window]]
                /\ ledger' = [ledger EXCEPT ![r] = Append(@,
                      Entry(c, Registrant[c.property]))]
    /\ UNCHANGED <<now, listed, deposit>>

RegistrantRowUnchecked(c) == row[c.target].broker = c.actor

\* The WHERE of brokerTransition()'s updateMany.
RegistrantRowMatches(c) ==
    /\ row[c.target].broker = c.actor
    /\ row[c.target].status = c.expected

RequesterRowUnchecked(c) == row[c.target].requester = c.actor

\* The WHERE of requesterTransition()'s updateMany.
RequesterRowMatches(c) ==
    /\ row[c.target].requester = c.actor
    /\ row[c.target].status = c.expected
    /\ c.op = "accept" => row[c.target].expiresAt > c.stamp

\* The columns a transition writes.
Updated(x, c) ==
    [x EXCEPT !.status = Outcome[c.op],
              !.confirmed = IF c.op \in {"approve", "accept"}
                            THEN c.window ELSE @,
              !.alternative = IF c.op = "propose" THEN c.window ELSE @,
              !.expiresAt = IF c.op = "propose" THEN c.stamp ELSE @]

Transition(c, other) ==
    /\ row' = [row EXCEPT ![c.target] = Updated(@, c)]
    /\ ledger' = [ledger EXCEPT ![c.target] =
                     Append(@, Entry(c, other))]

BrokerTransition(q) ==
    LET c == request[q] IN
    /\ c.op \in {"approve", "reject", "propose"} /\ c.phase = "commit"
    /\ request' = [request EXCEPT ![q] = Idle]
    /\ IF RegistrantRowMatches(c)
       THEN Transition(c, row[c.target].requester)
       ELSE UNCHANGED <<row, ledger>>
    /\ UNCHANGED <<now, listed, deposit>>

\* queueReservationRefund(), in the transaction of the cancellation; the
\* deposit's own life is module ReservationDeposit.
QueueRefund(c) ==
    deposit' = [deposit EXCEPT ![c.target] =
                   IF c.op = "cancel" /\ @ = "PAID" THEN "REFUND_QUEUED"
                   ELSE @]

RequesterTransition(q) ==
    LET c == request[q] IN
    /\ c.op \in {"accept", "decline", "cancel"} /\ c.phase = "commit"
    /\ request' = [request EXCEPT ![q] = Idle]
    /\ IF RequesterRowMatches(c)
       THEN /\ Transition(c, row[c.target].broker)
            /\ QueueRefund(c)
       ELSE UNCHANGED <<row, ledger, deposit>>
    /\ UNCHANGED <<now, listed>>

-----------------------------------------------------------------------------
(* The environment: the clock, the property service, the payment service   *)
(* and the death of the process that serves a call.                        *)

Tick ==
    /\ now < MaxTime
    /\ now' = now + 1
    /\ UNCHANGED <<listed, row, ledger, deposit, request>>

ChangeListing(p) ==
    /\ listed' = [listed EXCEPT ![p] = ~@]
    /\ UNCHANGED <<now, row, ledger, deposit, request>>

\* A deposit is prepared for a CONFIRMED visit only; its capture completes
\* at any later time.
DepositPaid(r) ==
    /\ deposit[r] = "NONE"
    /\ \E i \in DOMAIN ledger[r] : ledger[r][i].next = "CONFIRMED"
    /\ deposit' = [deposit EXCEPT ![r] = "PAID"]
    /\ UNCHANGED <<now, listed, row, ledger, request>>

Crash(q) ==
    /\ request[q] # Idle
    /\ request' = [request EXCEPT ![q] = Idle]
    /\ UNCHANGED <<now, listed, row, ledger, deposit>>

Next ==
    \/ Tick
    \/ \E p \in Property : ChangeListing(p)
    \/ \E r \in Reservation : DepositPaid(r)
    \/ \E q \in Request :
          \/ Receive(q)
          \/ CheckCreate(q) \/ CheckRegistrant(q)
          \/ CheckAcceptRegistrant(q) \/ CheckAcceptRequester(q)
          \/ CommitCreate(q) \/ BrokerTransition(q) \/ RequesterTransition(q)
          \/ Crash(q)

Spec == Init /\ [][Next]_vars

-----------------------------------------------------------------------------
(* Properties *)

Status == ActiveStatus \cup FinalStatus \cup {"NONE"}
Op == {"create", "approve", "reject", "propose", "accept", "decline", "cancel"}
Phase == {"check", "recheck", "commit"}
AnyWindow == [start : Nat, end : Nat]

Row ==
    [status : Status, property : Property \cup {None},
     requester : User \cup {None}, broker : User \cup {None},
     requested : AnyWindow, alternative : AnyWindow, expiresAt : Nat,
     confirmed : AnyWindow]

LedgerEntry ==
    [action : Op, actor : User, notified : User, previous : Status,
     next : Status, window : AnyWindow]

CallInFlight ==
    [op : Op, phase : Phase, actor : User, property : Property \cup {None},
     target : Reservation \cup {None}, window : AnyWindow, expected : Status,
     stamp : Nat]

\* Types of the tables and of the calls in flight; the answer deadline of a
\* proposal, which is subtracted from the start of its window, is a time.
TypeOK ==
    /\ now \in Nat
    /\ listed \in [Property -> BOOLEAN]
    /\ row \in [Reservation -> Row]
    /\ ledger \in [Reservation -> Seq(LedgerEntry)]
    /\ deposit \in [Reservation -> {"NONE", "PAID", "REFUND_QUEUED"}]
    /\ request \in [Request -> CallInFlight \cup {Idle}]

\* However many create() calls race past the duplicate query, a member has at
\* most one requested, proposed or confirmed visit per listing.
OneActiveVisitPerListing ==
    \A r, s \in Reservation :
        /\ row[r].status \in ActiveStatus
        /\ row[s].status \in ActiveStatus
        /\ row[r].property = row[s].property
        /\ row[r].requester = row[s].requester
        => r = s

\* The history of a reservation is an unbroken chain that ends in its current
\* status: although every entry's previousStatus is the status the call read
\* before its transaction, no transition is ever recorded against a status
\* another call had already left.
LedgerIsUnbroken ==
    \A r \in Reservation :
        /\ row[r].status = "NONE" <=> ledger[r] = << >>
        /\ ledger[r] # << >> =>
              /\ ledger[r][1].previous = "NONE"
              /\ ledger[r][Len(ledger[r])].next = row[r].status
        /\ \A i \in 1..(Len(ledger[r]) - 1) :
              /\ ledger[r][i].next = ledger[r][i + 1].previous
              /\ ledger[r][i].next \notin FinalStatus

\* Nothing is confirmed by one side alone: the confirmed window is the very
\* window one party put forward and the other accepted.  Either the visitor
\* requested it and the registrant approved, or the registrant proposed it
\* and the visitor accepted.
ConfirmedByBothParties ==
    \A r \in Reservation :
        row[r].status = "CONFIRMED" =>
            LET n == Len(ledger[r]) IN
            /\ n >= 2
            /\ ledger[r][n].window = row[r].confirmed
            /\ ledger[r][n - 1].window = row[r].confirmed
            /\ \/ /\ ledger[r][n].action = "approve"
                  /\ ledger[r][n].actor = row[r].broker
                  /\ ledger[r][n - 1].action = "create"
                  /\ ledger[r][n - 1].actor = row[r].requester
               \/ /\ ledger[r][n].action = "accept"
                  /\ ledger[r][n].actor = row[r].requester
                  /\ ledger[r][n - 1].action = "propose"
                  /\ ledger[r][n - 1].actor = row[r].broker

\* A registrant has no two confirmed visits at overlapping times.
NoRegistrantDoubleBooking ==
    \A r, s \in Reservation :
        /\ r # s
        /\ row[r].status = "CONFIRMED"
        /\ row[s].status = "CONFIRMED"
        /\ row[r].broker = row[s].broker
        => ~Overlap(row[r].confirmed, row[s].confirmed)

\* A visitor has no two confirmed visits at overlapping times, although
\* approve() never looks at the visitor's other visits: what create() and
\* acceptAlternative() check is enough.
NoVisitorDoubleBooking ==
    \A r, s \in Reservation :
        /\ r # s
        /\ row[r].status = "CONFIRMED"
        /\ row[s].status = "CONFIRMED"
        /\ row[r].requester = row[s].requester
        => ~Overlap(row[r].confirmed, row[s].confirmed)

-----------------------------------------------------------------------------
(* The reservation as an agreement *)

\* What a row says of the visit; a closed reservation holds no window.
VisitOf(x) ==
    [status |-> x.status, listing |-> x.property, visitor |-> x.requester,
     host |-> x.broker,
     window |-> IF x.status \in ActiveStatus THEN HeldWindow(x) ELSE NoWindow]

Agreement ==
    INSTANCE VisitAgreement WITH
        visit <- [r \in Reservation |-> VisitOf(row[r])],
        story <- ledger

\* The calls keep the rules of VisitAgreement, although they act on a row they
\* read several awaits before they write it: every transition that commits is
\* an act of the right party on the visit as it then is, and the other party
\* is told of the window the act is about.
ImplementsAgreement == Agreement!Spec

-----------------------------------------------------------------------------
(* What makes those inductive: a call in flight agrees with the row it read *)
(* on everything that no other call can change.                             *)

CallConsistent(c) ==
    /\ c.op = "create" => c.property \in Property /\ c.expected = "NONE"
    /\ c.op # "create" =>
          c.target \in Reservation /\ row[c.target].status # "NONE"
    /\ c.op \in {"approve", "reject", "propose"} =>
          c.expected = "REQUESTED" /\ c.actor = row[c.target].broker
    /\ c.op \in {"accept", "decline", "cancel"} =>
          c.actor = row[c.target].requester
    /\ c.op \in {"accept", "decline"} =>
          /\ c.expected = "ALTERNATIVE_PROPOSED"
          /\ row[c.target].status # "REQUESTED"
    /\ c.op = "cancel" => c.expected \in ActiveStatus
    /\ c.op = "approve" => c.window = row[c.target].requested
    /\ c.op = "accept" => c.window = row[c.target].alternative
    /\ c.op = "propose" => c.window.start >= ResponseLead

CallsConsistent ==
    \A q \in Request : request[q] # Idle => CallConsistent(request[q])

RowConsistent(r) ==
    /\ row[r].status = "NONE" => row[r] = NoRow
    /\ row[r].status # "NONE" =>
          /\ row[r].property \in Property
          /\ row[r].requester \in User
          /\ row[r].broker \in User
    /\ row[r].status = "REQUESTED" =>
          /\ Len(ledger[r]) = 1
          /\ ledger[r][1].action = "create"
          /\ ledger[r][1].actor = row[r].requester
          /\ ledger[r][1].window = row[r].requested
    /\ row[r].status = "ALTERNATIVE_PROPOSED" =>
          LET n == Len(ledger[r]) IN
          /\ n >= 1
          /\ ledger[r][n].action = "propose"
          /\ ledger[r][n].actor = row[r].broker
          /\ ledger[r][n].window = row[r].alternative

RowsConsistent == \A r \in Reservation : RowConsistent(r)

\* The inductive invariant of the reservation tables: the calls in flight and
\* the rows they read stay consistent under every interleaving.
IInv ==
    /\ TypeOK
    /\ CallsConsistent
    /\ RowsConsistent
    /\ OneActiveVisitPerListing
    /\ LedgerIsUnbroken
    /\ ConfirmedByBothParties

\* How far a reservation has come; no transition leads back.
Rank == [NONE |-> 0, REQUESTED |-> 1, ALTERNATIVE_PROPOSED |-> 2,
         CONFIRMED |-> 3, REJECTED |-> 4, ALTERNATIVE_DECLINED |-> 4,
         CANCELLED |-> 4]

\* What a call names is what stands, as long as the status is the one it read.
Names(c) ==
    /\ c.op \in {"create", "propose"} => c.window \in Window
    /\ c.op = "create" => Registrant[c.property] # c.actor
    /\ c.op # "create" => Rank[c.expected] <= Rank[row[c.target].status]
    /\ c.op \notin {"create", "propose"} =>
          /\ c.expected \in ActiveStatus
          /\ row[c.target].status = c.expected =>
                c.window = HeldWindow(row[c.target])

AgreementInv ==
    \A q \in Request : request[q] # Idle => Names(request[q])

=============================================================================
