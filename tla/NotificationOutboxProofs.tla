---------------------- MODULE NotificationOutboxProofs ----------------------
(***************************************************************************)
(* Safety of NotificationOutbox for every number of workers, rows,         *)
(* endpoints, crashes and overruns.                                        *)
(***************************************************************************)
EXTENDS NotificationOutbox, TLAPS

LEMMA NoJobType == NoJob \in Job /\ NoJob.phase = "none" /\ ~NoJob.accepted
                   /\ NoJob.todo = {}
  BY DEF NoJob, Job, Phase

LEMMA BackoffType ==
    ASSUME NEW k \in Nat
    PROVE  Backoff(k) \in Nat
  <1> DEFINE delay == RetryBase * 2 ^ (k - 1)
  <1>1. delay \in 1 .. RetryCap \/ delay \notin 1 .. RetryCap
    OBVIOUS
  <1>2. ASSUME delay \in 1 .. RetryCap PROVE delay \in Nat
    <2> HIDE DEF delay
    <2>1. QED
      BY <1>2, OutboxAssumption
  <1>3. Backoff(k) = IF delay \in 1 .. RetryCap THEN delay ELSE RetryCap
    BY DEF Backoff
  <1>4. RetryCap \in Nat
    BY OutboxAssumption
  <1> HIDE DEF delay
  <1>5. QED
    BY <1>1, <1>2, <1>3, <1>4

LEMMA InitIInv == Init => IInv
  <1> SUFFICES ASSUME Init PROVE IInv
    OBVIOUS
  <1> USE DEF Init
  <1>1. TypeOK
    <2>1. row \in [Notification -> Row]
          /\ \A n \in Notification : /\ row[n].status = "PENDING"
                                     /\ row[n].lock = None
                                     /\ row[n].attempts = 0
      <3>1. PICK f \in [Notification -> Fallback] :
               row = [n \in Notification |->
                         [status |-> "PENDING", attempts |-> 0, wait |-> 0,
                          lock |-> None, age |-> 0, fallback |-> f[n]]]
        OBVIOUS
      <3>2. ASSUME NEW n \in Notification
            PROVE  [status |-> "PENDING", attempts |-> 0, wait |-> 0,
                    lock |-> None, age |-> 0, fallback |-> f[n]] \in Row
        BY DEF Row
      <3>3. QED
        BY <3>1, <3>2
    <2>2. drain \in [Worker -> DrainState]
      BY DEF DrainState, NoDrain
    <2>3. job \in [Worker -> [Notification -> Job]]
      BY NoJobType
    <2>4. QED
      BY <2>1, <2>2, <2>3 DEF TypeOK
  <1>2. LocksAreUnique
    BY DEF LocksAreUnique, NoDrain
  <1>3. ASSUME NEW w \in Worker PROVE DrainConsistent(w)
    BY DEF DrainConsistent, NoDrain
  <1>4. ASSUME NEW w \in Worker, NEW n \in Notification
        PROVE  JobConsistent(w, n)
    BY NoJobType DEF JobConsistent
  <1>5. ASSUME NEW n \in Notification
        PROVE  AttemptsLeft(n) /\ lost[n] = 0 /\ DeliveredOnce(n)
    BY NoJobType, OutboxAssumption
    DEF AttemptsLeft, DeliveredOnce, Untouched, Holds, NoDrain, NoJob
  <1>6. QED
    BY <1>1, <1>2, <1>3, <1>4, <1>5 DEF IInv

-----------------------------------------------------------------------------
(* claim() *)

\* What requeueing expired locks does to one row.
LEMMA RequeuedRow ==
    ASSUME NEW x \in Row, x.status = "PROCESSING" <=> x.lock # None
    PROVE  /\ Requeued(x) \in Row
           /\ Requeued(x).status = "PROCESSING" <=> Requeued(x).lock # None
           /\ Requeued(x).attempts = x.attempts
           /\ ~Expired(x) => Requeued(x) = x
           /\ Expired(x) => Requeued(x).status = "PENDING"
  BY OutboxAssumption DEF Requeued, Expired, Row

LEMMA PollStep ==
    ASSUME IInv, NEW w \in Worker, Poll(w)
    PROVE  IInv'
  <1> USE DEF Poll
  <1>1. PICK batch \in SUBSET Notification :
           drain' = [drain EXCEPT ![w] =
                        IF batch = {} THEN NoDrain
                        ELSE [NoDrain EXCEPT !.phase = "claim",
                                             !.picked = batch]]
    OBVIOUS
  <1>2. row' = [n \in Notification |-> Requeued(row[n])]
    OBVIOUS
  <1>3. lost' = [n \in Notification |->
                    lost[n] + IF Expired(row[n]) THEN 1 ELSE 0]
    OBVIOUS
  <1>4. faulty' = faulty \cup {n \in Notification : Expired(row[n])}
    OBVIOUS
  <1>5. UNCHANGED <<job, endpoint, dead, reached, bounds>>
    OBVIOUS
  <1>6. drain[w].phase = "idle" /\ drain[w].lock = None
    BY DEF IInv, DrainConsistent
  <1> HIDE DEF Poll
  <1>7. drain \in [Worker -> DrainState]
    BY DEF IInv, TypeOK
  <1>8. /\ drain'[w] \in DrainState
        /\ drain'[w].lock = None
        /\ drain'[w].phase \in {"idle", "claim"}
        /\ \A v \in Worker \ {w} : drain'[v] = drain[v]
        /\ drain' \in [Worker -> DrainState]
    BY <1>1, <1>7 DEF NoDrain, DrainState
  <1>9. \A n \in Notification :
           /\ row[n] \in Row
           /\ row[n].status = "PROCESSING" <=> row[n].lock # None
           /\ lost[n] \in Nat
    BY DEF IInv, TypeOK
  <1>10. TypeOK'
    <2>1. row' \in [Notification -> Row]
          /\ \A n \in Notification :
                row'[n].status = "PROCESSING" <=> row'[n].lock # None
      BY <1>2, <1>9, RequeuedRow
    <2>2. lost' \in [Notification -> Nat]
      BY <1>3, <1>9
    <2>3. QED
      BY <2>1, <2>2, <1>4, <1>5, <1>8 DEF IInv, TypeOK, bounds
  <1>11. LocksAreUnique'
    BY <1>8, <1>6 DEF IInv, LocksAreUnique
  <1>12. ASSUME NEW v \in Worker PROVE DrainConsistent(v)'
    BY <1>5, <1>6, <1>8 DEF IInv, DrainConsistent
  <1>13. ASSUME NEW v \in Worker, NEW n \in Notification
         PROVE  JobConsistent(v, n)'
    <2>1. JobConsistent(v, n) /\ DrainConsistent(v)
      BY DEF IInv
    <2>2. CASE Expired(row[n])
      <3>1. lost'[n] > 0 /\ row'[n].status = "PENDING"
        BY <2>2, <1>2, <1>3, <1>9, RequeuedRow
      <3>2. QED
        BY <2>1, <3>1, <1>5 DEF JobConsistent, Holds, Untouched
    <2>3. CASE ~Expired(row[n])
      <3>1. row'[n] = row[n] /\ lost'[n] = lost[n]
        BY <2>3, <1>2, <1>3, <1>9, RequeuedRow
      <3>2. CASE v = w
        <4>1. job[w][n] = NoJob
          BY <1>6, <2>1, <3>2 DEF DrainConsistent
        <4>2. QED
          BY <4>1, <3>2, <1>5, NoJobType DEF JobConsistent
      <3>3. CASE v # w
        BY <2>1, <3>1, <3>3, <1>5, <1>8 DEF JobConsistent, Holds, Untouched
      <3>4. QED
        BY <3>2, <3>3
    <2>4. QED
      BY <2>2, <2>3
  <1>14. ASSUME NEW n \in Notification
         PROVE  /\ AttemptsLeft(n)'
                /\ lost'[n] > 0 => n \in faulty'
                /\ n \in faulty' \/ DeliveredOnce(n)'
    <2>1. /\ AttemptsLeft(n)
          /\ lost[n] > 0 => n \in faulty
          /\ n \in faulty \/ DeliveredOnce(n)
      BY DEF IInv
    <2>2. CASE Expired(row[n])
      <3>1. /\ lost'[n] = lost[n] + 1
            /\ row'[n].attempts = row[n].attempts
            /\ n \in faulty'
        BY <2>2, <1>2, <1>3, <1>4, <1>9, RequeuedRow
      <3>2. QED
        BY <2>1, <3>1, <1>9, OutboxAssumption DEF AttemptsLeft, Row
    <2>3. CASE ~Expired(row[n])
      <3>1. row'[n] = row[n] /\ lost'[n] = lost[n]
            /\ (n \in faulty' <=> n \in faulty)
        BY <2>3, <1>2, <1>3, <1>4, <1>9, RequeuedRow
      <3>2. \A v \in Worker : Holds(v, n)' /\ drain'[v].phase = "load"
                                 => Holds(v, n) /\ drain[v].phase = "load"
        BY <3>1, <1>8 DEF Holds
      <3>3. QED
        BY <2>1, <3>1, <3>2, <1>5 DEF AttemptsLeft, DeliveredOnce, Untouched
    <2>4. QED
      BY <2>2, <2>3
  <1>15. QED
    BY <1>10, <1>11, <1>12, <1>13, <1>14 DEF IInv

LEMMA ClaimStep ==
    ASSUME IInv, NEW w \in Worker, Claim(w)
    PROVE  IInv'
  <1>1. PICK l \in LockId :
           /\ Unused(l)
           /\ row' = [n \in Notification |->
                IF n \in drain[w].picked /\ Claimable(row[n])
                THEN [row[n] EXCEPT !.status = "PROCESSING", !.lock = l,
                                    !.age = drain[w].age,
                                    !.attempts = @ + 1]
                ELSE row[n]]
           /\ drain' = [drain EXCEPT ![w].phase = "load", ![w].lock = l]
    BY DEF Claim
  <1>2. /\ drain[w].phase = "claim"
        /\ UNCHANGED <<job, endpoint, dead, reached, lost, faulty, bounds>>
    BY DEF Claim, history
  <1>3. /\ l # None
        /\ \A n \in Notification : row[n].lock # l
        /\ \A v \in Worker : drain[v].lock # l
    BY <1>1, OutboxAssumption DEF Unused
  <1>4. /\ drain \in [Worker -> DrainState]
        /\ \A n \in Notification :
              /\ row[n] \in Row
              /\ row[n].status = "PROCESSING" <=> row[n].lock # None
        /\ drain[w].lock = None
        /\ \A n \in Notification : job[w][n] = NoJob
    BY <1>2 DEF IInv, TypeOK, DrainConsistent
  <1>5. /\ drain' \in [Worker -> DrainState]
        /\ drain'[w].lock = l /\ drain'[w].phase = "load"
        /\ \A v \in Worker \ {w} : drain'[v] = drain[v]
    BY ZenonT(40), <1>1, <1>4 DEF DrainState
  <1> DEFINE Taken(n) == n \in drain[w].picked /\ Claimable(row[n])
  <1>6. ASSUME NEW n \in Notification, Taken(n)
        PROVE  /\ row[n].status = "PENDING"
               /\ row'[n].status = "PROCESSING" /\ row'[n].lock = l
               /\ row'[n].attempts = row[n].attempts + 1
               /\ row'[n] \in Row
    <2>1. drain[w].age \in Nat
      BY <1>4 DEF DrainState
    <2>2. row'[n] = [row[n] EXCEPT !.status = "PROCESSING", !.lock = l,
                                   !.age = drain[w].age, !.attempts = @ + 1]
      BY <1>1, <1>6
    <2>3. row[n] \in Row /\ row[n].status = "PENDING"
      BY <1>4, <1>6 DEF Claimable
    <2>4. row[n].attempts + 1 \in Nat
      BY <2>3 DEF Row
    <2>5. row'[n] = [status |-> "PROCESSING", attempts |-> row[n].attempts + 1,
                     wait |-> row[n].wait, lock |-> l, age |-> drain[w].age,
                     fallback |-> row[n].fallback]
      BY <2>2, <2>3 DEF Row
    <2>6. QED
      BY <2>1, <2>3, <2>4, <2>5 DEF Row
  <1>7. ASSUME NEW n \in Notification, ~Taken(n)
        PROVE  row'[n] = row[n]
    BY <1>1, <1>7
  <1>8. TypeOK'
    <2>1. row' \in [Notification -> Row]
      BY <1>1, <1>4, <1>6, <1>7
    <2>2. \A n \in Notification :
             row'[n].status = "PROCESSING" <=> row'[n].lock # None
      BY <1>3, <1>4, <1>6, <1>7
    <2>3. QED
      BY <2>1, <2>2, <1>2, <1>5 DEF IInv, TypeOK, bounds
  <1>9. LocksAreUnique'
    BY <1>3, <1>5 DEF IInv, LocksAreUnique
  <1>10. ASSUME NEW v \in Worker PROVE DrainConsistent(v)'
    BY <1>2, <1>3, <1>4, <1>5 DEF IInv, DrainConsistent
  <1>11. ASSUME NEW v \in Worker, NEW n \in Notification
         PROVE  JobConsistent(v, n)'
    <2>1. JobConsistent(v, n)
      BY DEF IInv
    <2>2. CASE job[v][n] = NoJob
      BY <2>2, <1>2, NoJobType DEF JobConsistent
    <2>3. CASE job[v][n] # NoJob
      <3>1. v # w
        BY <1>4, <2>3
      <3>2. CASE Taken(n)
        <4>1. lost[n] > 0 /\ ~Holds(v, n)'
          BY <3>1, <3>2, <2>1, <2>3, <1>3, <1>5, <1>6
          DEF JobConsistent, Holds
        <4>2. QED
          BY <4>1, <2>1, <1>2 DEF JobConsistent, Untouched
      <3>3. CASE ~Taken(n)
        BY <3>1, <3>3, <2>1, <1>2, <1>5, <1>7
        DEF JobConsistent, Holds, Untouched
      <3>4. QED
        BY <3>2, <3>3
    <2>4. QED
      BY <2>2, <2>3
  <1>12. ASSUME NEW n \in Notification
         PROVE  /\ AttemptsLeft(n)'
                /\ lost'[n] > 0 => n \in faulty'
                /\ n \in faulty' \/ DeliveredOnce(n)'
    <2>1. /\ AttemptsLeft(n)
          /\ lost[n] > 0 => n \in faulty
          /\ n \in faulty \/ DeliveredOnce(n)
          /\ lost[n] \in Nat
      BY DEF IInv, TypeOK
    <2>2. AttemptsLeft(n)'
      BY <2>1, <1>2, <1>4, <1>6, <1>7, OutboxAssumption
      DEF AttemptsLeft, Row
    <2>3. ASSUME n \notin faulty PROVE DeliveredOnce(n)'
      <3>1. DeliveredOnce(n)
        BY <2>1, <2>3
      <3>2. row'[n].status = "PENDING" => row[n].status = "PENDING"
        BY <1>6, <1>7
      <3>3. ASSUME NEW v \in Worker, Holds(v, n)', drain'[v].phase = "load"
            PROVE  Untouched(n)
        <4>1. CASE v = w
          <5>1. row'[n].lock = l
            BY <4>1, <3>3, <1>5 DEF Holds
          <5>2. Taken(n)
            BY <5>1, <1>3, <1>7
          <5>3. QED
            BY <5>2, <1>6, <3>1 DEF DeliveredOnce
        <4>2. CASE v # w
          <5>1. drain'[v] = drain[v] /\ row'[n].lock # l
            BY <4>2, <3>3, <1>3, <1>5 DEF Holds
          <5>2. row'[n] = row[n]
            BY <5>1, <1>6, <1>7
          <5>3. QED
            BY <5>1, <5>2, <3>1, <3>3 DEF Holds, DeliveredOnce
        <4>3. QED
          BY <4>1, <4>2
      <3>4. QED
        BY <3>1, <3>2, <3>3, <1>2 DEF DeliveredOnce, Untouched
    <2>4. QED
      BY <2>1, <2>2, <2>3, <1>2
  <1>13. QED
    BY <1>8, <1>9, <1>10, <1>11, <1>12 DEF IInv

LEMMA LoadStep ==
    ASSUME IInv, NEW w \in Worker, Load(w)
    PROVE  IInv'
  <1> DEFINE items == {n \in Notification : /\ row[n].lock = drain[w].lock
                                            /\ row[n].status = "PROCESSING"}
             loaded(n) == [NoJob EXCEPT !.phase = "push",
                                        !.attempts = row[n].attempts,
                                        !.todo = ActiveTokens(n)]
  <1>1. /\ drain[w].phase = "load"
        /\ job' = [job EXCEPT ![w] = [n \in Notification |->
                      IF n \in items THEN loaded(n) ELSE NoJob]]
        /\ drain' = [drain EXCEPT ![w] =
                        IF items = {} THEN NoDrain
                        ELSE [@ EXCEPT !.phase = "deliver", !.picked = {}]]
        /\ UNCHANGED <<row, endpoint, dead, reached, lost, faulty, bounds>>
    BY DEF Load, history
  <1>2. /\ drain \in [Worker -> DrainState]
        /\ job \in [Worker -> [Notification -> Job]]
        /\ \A n \in Notification : row[n] \in Row
        /\ drain[w].lock # None
        /\ \A n \in Notification : job[w][n] = NoJob
    BY <1>1 DEF IInv, TypeOK, DrainConsistent
  <1>3. /\ drain' \in [Worker -> DrainState]
        /\ \A v \in Worker \ {w} : drain'[v] = drain[v]
        /\ items = {} => drain'[w].lock = None /\ drain'[w].phase = "idle"
        /\ items # {} => /\ drain'[w].lock = drain[w].lock
                         /\ drain'[w].phase = "deliver"
    BY ZenonT(40), <1>1, <1>2 DEF DrainState, NoDrain
  <1>4. ASSUME NEW n \in Notification
        PROVE  /\ loaded(n) \in Job
               /\ loaded(n).phase = "push" /\ ~loaded(n).accepted
               /\ loaded(n).attempts = row[n].attempts
               /\ loaded(n).todo = ActiveTokens(n)
    <2>1. ActiveTokens(n) \in SUBSET (Endpoint \X Nat)
      BY OutboxAssumption DEF ActiveTokens, IInv, TypeOK
    <2>2. row[n].attempts \in Nat
      BY <1>2 DEF Row
    <2>3. QED
      BY <2>1, <2>2 DEF NoJob, Job, Phase
  <1>5. ASSUME NEW n \in Notification
        PROVE  \A t, u \in ActiveTokens(n) : t[1] = u[1] => t = u
    BY DEF ActiveTokens
  <1> HIDE DEF loaded
  <1>6. /\ \A v \in Worker \ {w} : job'[v] = job[v]
        /\ \A n \in Notification :
              job'[w][n] = IF n \in items THEN loaded(n) ELSE NoJob
        /\ job' \in [Worker -> [Notification -> Job]]
    BY <1>1, <1>2, <1>4, NoJobType
  <1>7. TypeOK'
    BY <1>1, <1>3, <1>6 DEF IInv, TypeOK, bounds
  <1>8. LocksAreUnique'
    BY <1>3 DEF IInv, LocksAreUnique
  <1>9. ASSUME NEW v \in Worker PROVE DrainConsistent(v)'
    BY <1>2, <1>3, <1>6 DEF IInv, DrainConsistent
  <1>10. ASSUME NEW v \in Worker, NEW n \in Notification
         PROVE  JobConsistent(v, n)'
    <2>1. JobConsistent(v, n)
      BY DEF IInv
    <2>2. CASE v # w
      BY <2>1, <2>2, <1>1, <1>3, <1>6 DEF JobConsistent, Holds, Untouched
    <2>3. CASE v = w /\ n \notin items
      <3>1. job'[v][n] = NoJob
        BY <2>3, <1>6
      <3>2. QED
        BY <3>1, NoJobType DEF JobConsistent
    <2>4. CASE v = w /\ n \in items
      <3>1. job'[v][n] = loaded(n) /\ Holds(v, n)'
        BY <2>4, <1>1, <1>3, <1>6 DEF Holds
      <3>2. QED
        BY <3>1, <1>1, <1>4, <1>5 DEF JobConsistent
    <2>5. QED
      BY <2>2, <2>3, <2>4
  <1>11. ASSUME NEW n \in Notification
         PROVE  /\ AttemptsLeft(n)'
                /\ lost'[n] > 0 => n \in faulty'
                /\ n \in faulty' \/ DeliveredOnce(n)'
    <2>1. /\ AttemptsLeft(n)
          /\ lost[n] > 0 => n \in faulty
          /\ n \in faulty \/ DeliveredOnce(n)
      BY DEF IInv
    <2>2. ASSUME DeliveredOnce(n) PROVE DeliveredOnce(n)'
      <3>1. ASSUME NEW v \in Worker
            PROVE  /\ Holds(v, n)' /\ drain'[v].phase = "load" => Untouched(n)
                   /\ job'[v][n].phase = "push" =>
                         \/ job'[v][n] = job[v][n]
                         \/ Untouched(n) /\ job'[v][n].todo = ActiveTokens(n)
                   /\ job'[v][n].phase \notin {"push", "none"} =>
                         job'[v][n] = job[v][n]
        <4>1. CASE v # w
          BY <4>1, <2>2, <1>1, <1>3, <1>6 DEF Holds, DeliveredOnce
        <4>2. CASE v = w /\ n \in items
          <5>1. Untouched(n)
            BY <4>2, <2>2, <1>1 DEF DeliveredOnce, Holds
          <5>2. QED
            BY <5>1, <4>2, <1>3, <1>4, <1>6
        <4>3. CASE v = w /\ n \notin items
          BY <4>3, <1>3, <1>6, NoJobType
        <4>4. QED
          BY <4>1, <4>2, <4>3
      <3>2. \A t \in ActiveTokens(n) : t[1] \in Channel
        BY OutboxAssumption DEF ActiveTokens, Channel
      <3>3. QED
        BY <3>1, <3>2, <2>2, <1>1 DEF DeliveredOnce, Untouched, Channel
    <2>3. QED
      BY <2>1, <2>2, <1>1 DEF AttemptsLeft
  <1>12. QED
    BY <1>7, <1>8, <1>9, <1>10, <1>11 DEF IInv

-----------------------------------------------------------------------------
(* deliver(): steps that leave every row alone                              *)

\* What is known of a job at work on a notification nothing failed for.
LEMMA SoleHolder ==
    ASSUME IInv, NEW w \in Worker, NEW n \in Notification,
           job[w][n] # NoJob, n \notin faulty
    PROVE  /\ Holds(w, n)
           /\ drain[w].phase = "deliver"
           /\ DeliveredOnce(n)
           /\ \A v \in Worker \ {w} : job[v][n] = NoJob /\ ~Holds(v, n)
  <1>1. \A v \in Worker : job[v][n] # NoJob => Holds(v, n)
    <2>1. lost[n] = 0
      BY DEF IInv, TypeOK
    <2>2. QED
      BY <2>1 DEF IInv, JobConsistent
  <1>2. row[n].lock # None
    BY <1>1 DEF IInv, TypeOK, Holds
  <1>3. \A v \in Worker \ {w} : ~Holds(v, n)
    BY <1>1, <1>2 DEF IInv, LocksAreUnique, Holds
  <1>4. QED
    BY <1>1, <1>3 DEF IInv, DrainConsistent

\* A channel's acceptance only adds to what n has reached.
LEMMA AcceptType ==
    ASSUME reached \in [Notification -> [Channel -> Nat]],
           NEW n \in Notification, NEW c \in Channel, Accept(n, c)
    PROVE  /\ reached' \in [Notification -> [Channel -> Nat]]
           /\ \A m \in Notification : m # n => reached'[m] = reached[m]
           /\ reached'[n][c] = reached[n][c] + 1
           /\ \A d \in Channel : d # c => reached'[n][d] = reached[n][d]
           /\ \A d \in Channel : reached'[n][d] >= reached[n][d]
           /\ ~Untouched(n)'
  <1>1. reached[n] \in [Channel -> Nat] /\ reached[n][c] \in Nat
    OBVIOUS
  <1>2. reached' = [reached EXCEPT ![n] = [reached[n] EXCEPT ![c] = @ + 1]]
    BY DEF Accept
  <1>3. /\ reached'[n] = [reached[n] EXCEPT ![c] = @ + 1]
        /\ \A m \in Notification : m # n => reached'[m] = reached[m]
    BY <1>2
  <1>4. [reached[n] EXCEPT ![c] = @ + 1] \in [Channel -> Nat]
    BY <1>1
  <1>5. reached' \in [Notification -> [Channel -> Nat]]
    BY <1>2, <1>4
  <1>6. QED
    BY <1>1, <1>3, <1>5 DEF Untouched

\* A step of job n of drain w, from j to k, in which n may reach a channel.
LEMMA JobStep ==
    ASSUME IInv, NEW w \in Worker, NEW n \in Notification, NEW k \in Job,
           job[w][n] # NoJob, k.phase # "none",
           k.attempts = job[w][n].attempts,
           k.todo \subseteq job[w][n].todo,
           job' = [job EXCEPT ![w][n] = k],
           UNCHANGED <<row, drain, lost, bounds>>,
           endpoint' \in [Endpoint -> [status : {"ACTIVE", "INVALID", "REVOKED"},
                                       token : Nat]],
           dead' \in [Endpoint -> Nat],
           \/ UNCHANGED reached
           \/ \E c \in Channel : Accept(n, c),
           faulty' \in {faulty, faulty \cup {n}},
           k.accepted \/ k.phase = "sent" => ~Untouched(n)',
           \/ n \in faulty'
           \/ /\ k.phase = "push" =>
                    /\ reached'[n]["sms"] = 0
                    /\ \A t \in k.todo : reached'[n][t[1]] = 0
                    /\ ~k.accepted => Untouched(n)'
              /\ k.phase = "sms" => Untouched(n)'
              /\ k.phase = "failed" /\ k.retry => Untouched(n)'
    PROVE  IInv'
  <1>1. /\ job \in [Worker -> [Notification -> Job]]
        /\ reached \in [Notification -> [Channel -> Nat]]
    BY DEF IInv, TypeOK
  <1>2. /\ job' \in [Worker -> [Notification -> Job]]
        /\ job'[w][n] = k
        /\ \A v \in Worker, m \in Notification :
              v # w \/ m # n => job'[v][m] = job[v][m]
    BY <1>1
  <1>3. /\ reached' \in [Notification -> [Channel -> Nat]]
        /\ \A m \in Notification : m # n => reached'[m] = reached[m]
        /\ \A c \in Channel : reached'[n][c] >= reached[n][c]
    <2>1. CASE UNCHANGED reached
      BY <2>1, <1>1
    <2>2. CASE \E c \in Channel : Accept(n, c)
      BY <2>2, AcceptType, <1>1
    <2>3. QED
      BY <2>1, <2>2
  <1>4. k # NoJob
    BY NoJobType
  <1>5. TypeOK'
    BY <1>2, <1>3 DEF IInv, TypeOK, bounds
  <1>6. LocksAreUnique'
    BY DEF IInv, LocksAreUnique
  <1>7. ASSUME NEW v \in Worker PROVE DrainConsistent(v)'
    BY <1>2 DEF IInv, DrainConsistent
  <1>8. ASSUME NEW m \in Notification, ~Untouched(m)
        PROVE  ~Untouched(m)'
    <2>1. PICK c \in Channel : reached[m][c] # 0
      BY <1>8 DEF Untouched
    <2>2. reached'[m][c] # 0
      BY <2>1, <1>1, <1>3
    <2>3. QED
      BY <2>2 DEF Untouched
  <1>9. ASSUME NEW v \in Worker, NEW m \in Notification
        PROVE  JobConsistent(v, m)'
    <2>1. JobConsistent(v, m)
      BY DEF IInv
    <2>2. CASE v # w \/ m # n
      BY <2>1, <2>2, <1>2, <1>8 DEF JobConsistent, Holds
    <2>3. CASE v = w /\ m = n
      BY <2>1, <2>3, <1>2, <1>4 DEF JobConsistent, Holds
    <2>4. QED
      BY <2>2, <2>3
  <1>10. ASSUME NEW m \in Notification, m \notin faulty'
         PROVE  DeliveredOnce(m)'
    <2>1. DeliveredOnce(m) /\ m \notin faulty
      BY <1>10 DEF IInv
    <2>2. CASE m # n
      BY <2>1, <2>2, <1>2, <1>3 DEF DeliveredOnce, Holds, Untouched
    <2>3. CASE m = n
      <3>1. /\ Holds(w, n) /\ drain[w].phase = "deliver"
            /\ \A v \in Worker \ {w} : job[v][n] = NoJob /\ ~Holds(v, n)
        BY <2>1, <2>3, SoleHolder
      <3>2. row'[n].status # "PENDING"
        BY <3>1 DEF Holds
      <3>3. \A v \in Worker : ~(Holds(v, n)' /\ drain'[v].phase = "load")
        BY <3>1 DEF Holds
      <3>4. \A v \in Worker \ {w} : job'[v][n].phase = "none"
        BY <3>1, <1>2, NoJobType
      <3>5. QED
        BY <3>2, <3>3, <3>4, <2>3, <1>2, <1>10 DEF DeliveredOnce
    <2>4. QED
      BY <2>2, <2>3
  <1>11. ASSUME NEW m \in Notification
         PROVE  /\ AttemptsLeft(m)'
                /\ lost'[m] > 0 => m \in faulty'
                /\ m \in faulty' \/ DeliveredOnce(m)'
    BY <1>10 DEF IInv, AttemptsLeft
  <1>12. QED
    BY <1>5, <1>6, <1>7, <1>9, <1>11 DEF IInv

LEMMA PushStep ==
    ASSUME IInv, NEW w \in Worker, NEW n \in Notification, Push(w, n)
    PROVE  IInv'
  <1>1. PICK t \in job[w][n].todo :
           \/ PushAccepted(w, n, t) \/ PushTransient(w, n, t)
           \/ PushUnregistered(w, n, t) \/ PushRefused(w, n, t)
    BY DEF Push
  <1> DEFINE j == job[w][n]
  <1>2. /\ j.phase = "push" /\ j # NoJob
        /\ j \in Job
        /\ reached \in [Notification -> [Channel -> Nat]]
        /\ endpoint \in [Endpoint ->
              [status : {"ACTIVE", "INVALID", "REVOKED"}, token : Nat]]
        /\ dead \in [Endpoint -> Nat]
        /\ JobConsistent(w, n)
    BY NoJobType DEF Push, IInv, TypeOK
  <1>3. t[1] \in Endpoint /\ t[1] \in Channel /\ t[1] # "sms"
        /\ "sms" \in Channel
    BY <1>2, OutboxAssumption DEF Job, Channel
  <1>4. n \in faulty \/ DeliveredOnce(n)
    BY DEF IInv
  <1>5. CASE PushAccepted(w, n, t)
    <2> DEFINE k == [j EXCEPT !.todo = @ \ {t}, !.accepted = TRUE]
    <2>1. /\ k \in Job /\ k.phase = "push" /\ k.accepted
          /\ k.todo = j.todo \ {t} /\ k.attempts = j.attempts
      BY <1>2 DEF Job
    <2>2. job' = [job EXCEPT ![w][n] = k] /\ Accept(n, t[1])
          /\ UNCHANGED <<row, drain, lost, bounds, endpoint, dead, faulty>>
      BY <1>5 DEF PushAccepted, Step
    <2>3. /\ ~Untouched(n)'
          /\ \A d \in Channel : d # t[1] => reached'[n][d] = reached[n][d]
      BY <1>2, <1>3, <2>2, AcceptType
    <2>4. n \in faulty \/ ( /\ reached'[n]["sms"] = 0
                            /\ \A u \in k.todo : reached'[n][u[1]] = 0)
      <3>1. ASSUME NEW u \in k.todo
            PROVE  u[1] # t[1] /\ u[1] \in Channel /\ u \in j.todo
        BY <1>2, <2>1 DEF JobConsistent, Job, Channel
      <3>2. QED
        BY <1>2, <1>3, <1>4, <2>3, <3>1 DEF DeliveredOnce
    <2> HIDE DEF k
    <2>5. QED
      BY <1>2, <1>3, <2>1, <2>2, <2>3, <2>4, JobStep
  <1>6. CASE PushTransient(w, n, t)
    <2> DEFINE k == [j EXCEPT !.todo = @ \ {t}, !.transient = TRUE]
    <2>1. /\ k \in Job /\ k.phase = "push" /\ k.accepted = j.accepted
          /\ k.todo = j.todo \ {t} /\ k.attempts = j.attempts
      BY <1>2 DEF Job
    <2>2. /\ job' = [job EXCEPT ![w][n] = k]
          /\ UNCHANGED <<row, drain, lost, bounds, endpoint, dead>>
          /\ \/ UNCHANGED <<reached, faulty>>
             \/ Accept(n, t[1]) /\ faulty' = faulty \cup {n}
      BY <1>6 DEF PushTransient, Step
    <2> HIDE DEF k
    <2>3. CASE UNCHANGED <<reached, faulty>>
      <3>1. k.accepted => ~Untouched(n)'
        BY <1>2, <2>1, <2>3 DEF JobConsistent, Untouched
      <3>2. n \in faulty \/ ( /\ reached'[n]["sms"] = 0
                              /\ \A u \in k.todo : reached'[n][u[1]] = 0
                              /\ ~k.accepted => Untouched(n)')
        BY <1>2, <1>4, <2>1, <2>3 DEF DeliveredOnce, Untouched
      <3>3. QED
        BY <1>2, <2>1, <2>2, <2>3, <3>1, <3>2, JobStep
    <2>4. CASE Accept(n, t[1]) /\ faulty' = faulty \cup {n}
      BY <1>2, <1>3, <2>1, <2>2, <2>4, AcceptType, JobStep
    <2>5. QED
      BY <2>2, <2>3, <2>4
  <1>7. CASE PushUnregistered(w, n, t)
    <2> DEFINE k == [j EXCEPT !.todo = @ \ {t}]
    <2>1. /\ k \in Job /\ k.phase = "push" /\ k.accepted = j.accepted
          /\ k.todo = j.todo \ {t} /\ k.attempts = j.attempts
      BY <1>2 DEF Job
    <2>2. /\ job' = [job EXCEPT ![w][n] = k]
          /\ UNCHANGED <<row, drain, lost, bounds, dead, reached, faulty>>
          /\ endpoint' = [endpoint EXCEPT ![t[1]].status =
                             IF @ = "ACTIVE" THEN "INVALID" ELSE @]
      BY <1>7 DEF PushUnregistered, Step
    <2>3. endpoint' \in [Endpoint ->
             [status : {"ACTIVE", "INVALID", "REVOKED"}, token : Nat]]
      BY <1>2, <1>3, <2>2
    <2> HIDE DEF k
    <2>4. k.accepted => ~Untouched(n)'
      BY <1>2, <2>1, <2>2 DEF JobConsistent, Untouched
    <2>5. n \in faulty \/ ( /\ reached'[n]["sms"] = 0
                            /\ \A u \in k.todo : reached'[n][u[1]] = 0
                            /\ ~k.accepted => Untouched(n)')
      BY <1>2, <1>4, <2>1, <2>2 DEF DeliveredOnce, Untouched
    <2>6. QED
      BY ZenonT(40), <1>2, <2>1, <2>2, <2>3, <2>4, <2>5, JobStep
  <1>8. CASE PushRefused(w, n, t)
    <2>1. PICK retry \in BOOLEAN :
             /\ job' = [job EXCEPT ![w][n] = Throw(j, retry)]
             /\ IF retry THEN faulty' = faulty \cup {n} ELSE UNCHANGED faulty
             /\ UNCHANGED <<row, drain, lost, bounds, endpoint, dead, reached>>
      BY <1>8 DEF PushRefused, Step
    <2> DEFINE k == Throw(j, retry)
    <2>2. /\ k \in Job /\ k.phase = "failed" /\ k.accepted = j.accepted
          /\ k.todo = {} /\ k.attempts = j.attempts /\ k.retry = retry
      BY <1>2 DEF Job, Throw, Phase
    <2>3. job' = [job EXCEPT ![w][n] = k]
      BY <2>1
    <2> HIDE DEF k
    <2>4. k.accepted => ~Untouched(n)'
      BY <1>2, <2>1, <2>2 DEF JobConsistent, Untouched
    <2>5. QED
      BY <1>2, <2>1, <2>2, <2>3, <2>4, JobStep
  <1>9. QED
    BY <1>1, <1>5, <1>6, <1>7, <1>8

\* Throwing, and moving on to another phase, keep what a job has done so far.
LEMMA ThrowType ==
    ASSUME NEW j \in Job, NEW retry \in BOOLEAN
    PROVE  /\ Throw(j, retry) \in Job
           /\ Throw(j, retry).phase = "failed"
           /\ Throw(j, retry).attempts = j.attempts
           /\ Throw(j, retry).accepted = j.accepted
           /\ Throw(j, retry).todo = {}
  BY DEF Throw, Job, Phase

\* deliver() calls markSent() at once exactly when an endpoint accepted.
LEMMA AfterPushType ==
    ASSUME NEW j \in Job, NEW x
    PROVE  /\ AfterPush(j, x) \in Job
           /\ AfterPush(j, x).phase \in {"sent", "skipped", "sms", "failed"}
           /\ AfterPush(j, x).phase = "sent" <=> j.accepted
           /\ AfterPush(j, x).attempts = j.attempts
           /\ AfterPush(j, x).accepted = j.accepted
           /\ AfterPush(j, x).todo \subseteq j.todo
  <1>1. CASE j.accepted
    <2>1. AfterPush(j, x) = [j EXCEPT !.phase = "sent"]
      BY <1>1 DEF AfterPush
    <2>2. QED
      BY <1>1, <2>1 DEF Phase, Job
  <1>2. CASE ~j.accepted
    <2>1. \/ AfterPush(j, x) = Throw(j, j.transient)
          \/ AfterPush(j, x) = [j EXCEPT !.phase = "skipped"]
          \/ AfterPush(j, x) = [j EXCEPT !.phase = "sms"]
      BY <1>2 DEF AfterPush
    <2>2. j.transient \in BOOLEAN
      BY DEF Job
    <2>3. CASE AfterPush(j, x) = Throw(j, j.transient)
      BY <1>2, <2>2, <2>3, ThrowType
    <2>4. CASE AfterPush(j, x) = [j EXCEPT !.phase = "skipped"]
      BY <1>2, <2>4 DEF Phase, Job
    <2>5. CASE AfterPush(j, x) = [j EXCEPT !.phase = "sms"]
      BY <1>2, <2>5 DEF Phase, Job
    <2>6. QED
      BY <2>1, <2>3, <2>4, <2>5
  <1>3. QED
    BY <1>1, <1>2

LEMMA PushDoneStep ==
    ASSUME IInv, NEW w \in Worker, NEW n \in Notification, PushDone(w, n)
    PROVE  IInv'
  <1> DEFINE j == job[w][n]
             k == AfterPush(j, row[n])
  <1>1. /\ j.phase = "push" /\ j # NoJob /\ j \in Job
        /\ JobConsistent(w, n)
        /\ endpoint \in [Endpoint ->
              [status : {"ACTIVE", "INVALID", "REVOKED"}, token : Nat]]
        /\ dead \in [Endpoint -> Nat]
        /\ n \in faulty \/ DeliveredOnce(n)
    BY NoJobType DEF PushDone, IInv, TypeOK
  <1>2. /\ job' = [job EXCEPT ![w][n] = k]
        /\ UNCHANGED <<row, drain, lost, bounds, endpoint, dead, reached,
                       faulty>>
    BY DEF PushDone, Step
  <1>3. /\ k \in Job /\ k.phase \in {"sent", "skipped", "sms", "failed"}
        /\ k.attempts = j.attempts /\ k.accepted = j.accepted
        /\ k.todo \subseteq j.todo
        /\ k.phase = "sent" <=> j.accepted
    BY <1>1, AfterPushType
  <1> HIDE DEF k
  <1>4. k.accepted \/ k.phase = "sent" => ~Untouched(n)'
    BY <1>1, <1>2, <1>3 DEF JobConsistent, Untouched
  <1>5. n \in faulty \/ (k.phase # "sent" => Untouched(n)')
    BY <1>1, <1>2, <1>3 DEF DeliveredOnce, Untouched
  <1>6. QED
    BY <1>1, <1>2, <1>3, <1>4, <1>5, JobStep

LEMMA SmsStep ==
    ASSUME IInv, NEW w \in Worker, NEW n \in Notification, Sms(w, n)
    PROVE  IInv'
  <1> DEFINE j == job[w][n]
  <1>1. /\ j.phase = "sms" /\ j # NoJob /\ j \in Job
        /\ JobConsistent(w, n)
        /\ reached \in [Notification -> [Channel -> Nat]]
        /\ endpoint \in [Endpoint ->
              [status : {"ACTIVE", "INVALID", "REVOKED"}, token : Nat]]
        /\ dead \in [Endpoint -> Nat]
        /\ n \in faulty \/ DeliveredOnce(n)
        /\ "sms" \in Channel
    BY ZenonT(40), NoJobType DEF Sms, IInv, TypeOK, Channel
  <1>2. PICK k \in {[j EXCEPT !.phase = "sent"], Throw(j, TRUE),
                    Throw(j, FALSE)} :
           /\ job' = [job EXCEPT ![w][n] = k]
           /\ UNCHANGED <<row, drain, lost, bounds, endpoint, dead>>
           /\ \/ Accept(n, "sms") /\ k.phase = "sent" /\ UNCHANGED faulty
              \/ Accept(n, "sms") /\ faulty' = faulty \cup {n}
              \/ k.phase = "failed" /\ UNCHANGED <<reached, faulty>>
    <2>1. CASE /\ Accept(n, "sms")
               /\ Step(w, n, [job[w][n] EXCEPT !.phase = "sent"])
               /\ UNCHANGED <<faulty, endpoint, dead>>
      <3>1. [j EXCEPT !.phase = "sent"].phase = "sent"
        BY <1>1 DEF Job
      <3>2. QED
        BY <2>1, <3>1 DEF Step
    <2>2. CASE /\ Accept(n, "sms")
               /\ Step(w, n, Throw(job[w][n], TRUE))
               /\ faulty' = faulty \cup {n}
               /\ UNCHANGED <<endpoint, dead>>
      BY <2>2 DEF Step
    <2>3. CASE /\ \E retry \in BOOLEAN : Step(w, n, Throw(job[w][n], retry))
               /\ UNCHANGED <<reached, faulty, endpoint, dead>>
      <3>1. PICK retry \in BOOLEAN : Step(w, n, Throw(j, retry))
        BY <2>3
      <3>2. Throw(j, retry).phase = "failed"
        BY <1>1, ThrowType
      <3>3. QED
        BY <2>3, <3>1, <3>2 DEF Step
    <2>4. QED
      BY <2>1, <2>2, <2>3 DEF Sms
  <1>3. /\ k \in Job /\ k.phase \in {"sent", "failed"}
        /\ k.attempts = j.attempts /\ k.accepted = j.accepted
        /\ k.todo \subseteq j.todo
    <2>1. CASE k = [j EXCEPT !.phase = "sent"]
      BY <1>1, <2>1 DEF Job, Phase
    <2>2. ASSUME NEW retry \in BOOLEAN, k = Throw(j, retry)
          PROVE  /\ k \in Job /\ k.phase = "failed"
                 /\ k.attempts = j.attempts /\ k.accepted = j.accepted
                 /\ k.todo = {}
      <3>1. j \in Job
        BY <1>1
      <3> HIDE DEF j
      <3>2. QED
        BY <2>2, <3>1, ThrowType
    <2>3. QED
      BY <1>2, <2>1, <2>2
  <1>4. CASE Accept(n, "sms")
    <2>1. ~Untouched(n)' /\ (k.phase = "sent" \/ n \in faulty')
      BY <1>1, <1>2, <1>4, AcceptType
    <2>2. QED
      BY <1>1, <1>2, <1>3, <1>4, <2>1, JobStep
  <1>5. CASE k.phase = "failed" /\ UNCHANGED <<reached, faulty>>
    <2>1. k.accepted => ~Untouched(n)'
      BY <1>1, <1>3, <1>5 DEF JobConsistent, Untouched
    <2>2. n \in faulty \/ Untouched(n)'
      BY <1>1, <1>5 DEF DeliveredOnce, Untouched
    <2>3. QED
      BY <1>1, <1>2, <1>3, <1>5, <2>1, <2>2, JobStep
  <1>6. QED
    BY <1>2, <1>4, <1>5

LEMMA MarkThrowsStep ==
    ASSUME IInv, NEW w \in Worker, NEW n \in Notification, MarkThrows(w, n)
    PROVE  IInv'
  <1> DEFINE j == job[w][n]
             k == Throw(j, TRUE)
  <1>1. /\ j.phase \in {"sent", "skipped"} /\ j # NoJob /\ j \in Job
        /\ JobConsistent(w, n)
        /\ endpoint \in [Endpoint ->
              [status : {"ACTIVE", "INVALID", "REVOKED"}, token : Nat]]
        /\ dead \in [Endpoint -> Nat]
    BY NoJobType DEF MarkThrows, IInv, TypeOK
  <1>2. /\ job' = [job EXCEPT ![w][n] = k]
        /\ UNCHANGED <<row, drain, lost, bounds, endpoint, dead, reached>>
        /\ faulty' = faulty \cup {n}
    BY DEF MarkThrows, Step
  <1>3. /\ k \in Job /\ k.phase = "failed" /\ k.attempts = j.attempts
        /\ k.accepted = j.accepted /\ k.todo \subseteq j.todo
    BY <1>1, ThrowType
  <1> HIDE DEF k
  <1>4. k.accepted => ~Untouched(n)'
    BY <1>1, <1>2, <1>3 DEF JobConsistent, Untouched
  <1>5. QED
    BY <1>1, <1>2, <1>3, <1>4, JobStep

-----------------------------------------------------------------------------
(* Marking the row                                                          *)

\* Job n of drain w ends; if it still holds the row, the row becomes x.
LEMMA CloseStep ==
    ASSUME IInv, NEW w \in Worker, NEW n \in Notification, NEW x,
           job[w][n] # NoJob, Mark(w, n, x), Close(w, n), UNCHANGED faulty,
           Holds(w, n) =>
              /\ x \in Row /\ x.status # "PROCESSING" /\ x.lock = None
              /\ x.attempts = row[n].attempts
              /\ x.status = "PENDING" =>
                    /\ x.attempts < MaxAttempts
                    /\ n \in faulty \/ Untouched(n)
    PROVE  IInv'
  <1>1. /\ row' = [row EXCEPT ![n] = IF Holds(w, n) THEN x ELSE @]
        /\ job' = [job EXCEPT ![w][n] = NoJob]
        /\ drain' \in {drain, [drain EXCEPT ![w] = NoDrain]}
        /\ drain' # drain =>
              \A m \in Notification \ {n} : job[w][m] = NoJob
        /\ UNCHANGED <<endpoint, dead, reached, lost, bounds, faulty>>
    BY DEF Mark, Close, IInv, TypeOK
  <1>2. /\ row \in [Notification -> Row]
        /\ drain \in [Worker -> DrainState]
        /\ job \in [Worker -> [Notification -> Job]]
        /\ drain[w].phase = "deliver" /\ drain[w].lock # None
        /\ lost \in [Notification -> Nat]
    BY DEF IInv, TypeOK, DrainConsistent
  <1>3. /\ \A m \in Notification : m # n => row'[m] = row[m]
        /\ Holds(w, n) => row'[n] = x
        /\ ~Holds(w, n) => row'[n] = row[n]
        /\ row' \in [Notification -> Row]
    BY <1>1, <1>2
  <1>4. /\ job' \in [Worker -> [Notification -> Job]]
        /\ job'[w][n] = NoJob
        /\ \A v \in Worker, m \in Notification :
              v # w \/ m # n => job'[v][m] = job[v][m]
    BY <1>1, <1>2, NoJobType
  <1>5. /\ drain' \in [Worker -> DrainState]
        /\ \A v \in Worker \ {w} : drain'[v] = drain[v]
        /\ \/ drain'[w] = drain[w]
           \/ /\ drain'[w] = NoDrain
              /\ \A m \in Notification : job'[w][m] = NoJob
    <2>1. NoDrain \in DrainState
      BY DEF NoDrain, DrainState
    <2>2. CASE drain' = drain
      BY <2>2, <1>2
    <2>3. CASE drain' # drain
      <3>1. drain' = [drain EXCEPT ![w] = NoDrain]
        BY <2>3, <1>1
      <3>2. \A m \in Notification : job'[w][m] = NoJob
        BY <2>3, <1>1, <1>4
      <3>3. QED
        BY <2>1, <3>1, <3>2, <1>2
    <2>4. QED
      BY <2>2, <2>3
  <1>6. TypeOK'
    <2>1. \A m \in Notification :
             row'[m].status = "PROCESSING" <=> row'[m].lock # None
      BY <1>3 DEF IInv, TypeOK
    <2>2. QED
      BY <2>1, <1>1, <1>3, <1>4, <1>5 DEF IInv, TypeOK, bounds
  <1>7. LocksAreUnique'
    BY <1>5 DEF IInv, LocksAreUnique, NoDrain
  <1>8. ASSUME NEW v \in Worker PROVE DrainConsistent(v)'
    BY <1>2, <1>4, <1>5 DEF IInv, DrainConsistent, NoDrain
  <1>9. \A v \in Worker \ {w} : Holds(w, n) => ~Holds(v, n)
    BY <1>2 DEF IInv, LocksAreUnique, Holds
  <1>10. ASSUME NEW v \in Worker, NEW m \in Notification
         PROVE  JobConsistent(v, m)'
    <2>1. JobConsistent(v, m)
      BY DEF IInv
    <2>2. CASE job'[v][m] = NoJob
      BY <2>2, NoJobType DEF JobConsistent
    <2>3. CASE job'[v][m] # NoJob
      <3>1. /\ job'[v][m] = job[v][m]
            /\ v # w \/ m # n
            /\ drain'[v] = drain[v]
        BY <2>3, <1>4, <1>5
      <3>2. CASE row'[m] = row[m]
        BY <2>1, <3>1, <3>2, <1>1 DEF JobConsistent, Holds, Untouched
      <3>3. CASE row'[m] # row[m]
        <4>1. m = n /\ Holds(w, n) /\ v # w /\ ~Holds(v, m)
          BY <3>1, <3>3, <1>3, <1>4, <1>9, <2>3
        <4>2. lost[m] > 0 /\ ~Holds(v, m)'
          BY <4>1, <2>1, <2>3, <3>1, <1>3 DEF JobConsistent, Holds
        <4>3. QED
          BY <4>2, <2>1, <3>1, <1>1 DEF JobConsistent, Untouched
      <3>4. QED
        BY <3>2, <3>3
    <2>4. QED
      BY <2>2, <2>3
  <1>11. ASSUME NEW m \in Notification
         PROVE  /\ AttemptsLeft(m)'
                /\ lost'[m] > 0 => m \in faulty'
                /\ m \in faulty' \/ DeliveredOnce(m)'
    <2>1. /\ AttemptsLeft(m)
          /\ lost[m] > 0 => m \in faulty
          /\ m \in faulty \/ DeliveredOnce(m)
          /\ lost[m] \in Nat
      BY <1>2 DEF IInv
    <2>2. AttemptsLeft(m)'
      <3>1. row'[m] = row[m] \/ (m = n /\ Holds(w, n) /\ row'[m] = x)
        BY <1>3
      <3>2. x.attempts \in Nat \/ row'[m] = row[m]
        BY <3>1 DEF Row
      <3>3. QED
        BY <2>1, <3>1, <3>2, <1>1, OutboxAssumption DEF AttemptsLeft
    <2>3. ASSUME m \notin faulty PROVE DeliveredOnce(m)'
      <3>1. DeliveredOnce(m)
        BY <2>1, <2>3
      <3>2. row'[m].status = "PENDING" => Untouched(m)
        BY <3>1, <2>3, <1>3 DEF DeliveredOnce
      <3>3. ASSUME NEW v \in Worker, Holds(v, m)', drain'[v].phase = "load"
            PROVE  Untouched(m)
        <4>1. row'[m] = row[m]
          BY <3>3, <1>3 DEF Holds
        <4>2. drain'[v] = drain[v]
          BY <3>3, <1>5 DEF NoDrain
        <4>3. QED
          BY <4>1, <4>2, <3>1, <3>3 DEF DeliveredOnce, Holds
      <3>4. \A v \in Worker : job'[v][m] = job[v][m]
                              \/ job'[v][m].phase = "none"
        BY <1>4, NoJobType
      <3>5. QED
        BY <3>1, <3>2, <3>3, <3>4, <1>1 DEF DeliveredOnce, Untouched
    <2>4. QED
      BY <2>1, <2>2, <2>3, <1>1
  <1>12. QED
    BY <1>6, <1>7, <1>8, <1>10, <1>11 DEF IInv

\* Releasing a lock keeps the attempts.
LEMMA ReleasedType ==
    ASSUME NEW x \in Row, NEW status \in {"PENDING"} \cup Final, NEW k \in Nat
    PROVE  /\ Released(x, status) \in Row
           /\ Released(x, status).status = status
           /\ Released(x, status).lock = None
           /\ Released(x, status).attempts = x.attempts
           /\ [Released(x, status) EXCEPT !.wait = k] \in Row
           /\ [Released(x, status) EXCEPT !.wait = k].status = status
           /\ [Released(x, status) EXCEPT !.wait = k].lock = None
           /\ [Released(x, status) EXCEPT !.wait = k].attempts = x.attempts
  BY DEF Released, Row

LEMMA MarkDeliveredStep ==
    ASSUME IInv, NEW w \in Worker, NEW n \in Notification, MarkDelivered(w, n)
    PROVE  IInv'
  <1> DEFINE status == IF job[w][n].phase = "sent" THEN "SENT" ELSE "SKIPPED"
             x == Released(row[n], status)
  <1>1. /\ job[w][n] # NoJob /\ Mark(w, n, x) /\ Close(w, n)
        /\ UNCHANGED faulty
    BY NoJobType DEF MarkDelivered
  <1>2. row[n] \in Row /\ status \in Final
    BY DEF IInv, TypeOK, Final
  <1> HIDE DEF status
  <1>3. /\ x \in Row /\ x.status = status /\ x.lock = None
        /\ x.attempts = row[n].attempts
    BY <1>2, ReleasedType
  <1> HIDE DEF x
  <1>4. x.status \notin {"PROCESSING", "PENDING"}
    BY <1>2, <1>3 DEF Final
  <1>5. QED
    BY <1>1, <1>3, <1>4, CloseStep

LEMMA MarkFailedStep ==
    ASSUME IInv, NEW w \in Worker, NEW n \in Notification, MarkFailed(w, n)
    PROVE  IInv'
  <1> DEFINE j == job[w][n]
             again == [Released(row[n], "PENDING") EXCEPT
                          !.wait = Backoff(j.attempts)]
             x == IF MayRetry(j) THEN again ELSE Released(row[n], "FAILED")
  <1>1. /\ j.phase = "failed" /\ j # NoJob /\ j \in Job
        /\ Mark(w, n, x) /\ Close(w, n) /\ UNCHANGED faulty
    BY NoJobType DEF MarkFailed, IInv, TypeOK
  <1>2. row[n] \in Row /\ Backoff(j.attempts) \in Nat
    BY <1>1, BackoffType DEF IInv, TypeOK, Job
  <1>3. CASE MayRetry(j)
    <2>1. /\ again \in Row /\ again.status = "PENDING" /\ again.lock = None
          /\ again.attempts = row[n].attempts
      BY <1>2, ReleasedType
    <2>2. x = again
      BY <1>3
    <2>3. Holds(w, n) => row[n].attempts < MaxAttempts
      BY <1>1, <1>3 DEF IInv, JobConsistent, MayRetry
    <2>4. n \in faulty \/ Untouched(n)
      BY <1>1, <1>3 DEF IInv, DeliveredOnce, MayRetry
    <2> HIDE DEF x, again
    <2>5. QED
      BY <1>1, <2>1, <2>2, <2>3, <2>4, CloseStep
  <1>4. CASE ~MayRetry(j)
    <2>1. /\ x = Released(row[n], "FAILED")
          /\ "FAILED" \in Final
      BY <1>4 DEF Final
    <2> HIDE DEF x
    <2>2. /\ x \in Row /\ x.status = "FAILED" /\ x.lock = None
          /\ x.attempts = row[n].attempts
      BY <1>2, <2>1, ReleasedType
    <2>3. QED
      BY <1>1, <2>2, CloseStep
  <1>5. QED
    BY <1>3, <1>4

-----------------------------------------------------------------------------
(* The environment                                                          *)

LEMMA TickStep ==
    ASSUME IInv, Tick
    PROVE  IInv'
  <1>1. /\ row' = [n \in Notification |->
              [row[n] EXCEPT !.wait = IF @ > 0 THEN @ - 1 ELSE 0,
                             !.age = IF row[n].status = "PROCESSING"
                                     THEN Older(@) ELSE 0]]
        /\ drain' = [w \in Worker |->
              [drain[w] EXCEPT !.age = IF drain[w].phase = "idle" THEN 0
                                       ELSE Older(@)]]
        /\ overruns' \in {overruns, overruns + 1}
        /\ UNCHANGED <<job, endpoint, dead, reached, lost, faulty, changes,
                       crashes>>
    BY DEF Tick, history
  <1>2. /\ \A n \in Notification : row[n] \in Row
        /\ \A w \in Worker : drain[w] \in DrainState
        /\ overruns \in Nat
    BY DEF IInv, TypeOK
  <1>3. ASSUME NEW n \in Notification
        PROVE  /\ row'[n] \in Row
               /\ row'[n].status = row[n].status
               /\ row'[n].lock = row[n].lock
               /\ row'[n].attempts = row[n].attempts
    <2>1. \A a \in Nat : Older(a) \in Nat
      BY OutboxAssumption DEF Older
    <2> DEFINE wait == IF row[n].wait > 0 THEN row[n].wait - 1 ELSE 0
               age == IF row[n].status = "PROCESSING"
                      THEN Older(row[n].age) ELSE 0
    <2>2. row[n] \in Row /\ row[n].wait \in Nat /\ row[n].age \in Nat
      BY <1>2 DEF Row
    <2>3. wait \in Nat
      BY <2>2
    <2>4. age \in Nat
      BY <2>1, <2>2
    <2>5. row'[n] = [row[n] EXCEPT !.wait = wait, !.age = age]
      BY <1>1
    <2> HIDE DEF wait, age
    <2>6. QED
      BY <2>2, <2>3, <2>4, <2>5 DEF Row
  <1>4. ASSUME NEW w \in Worker
        PROVE  /\ drain'[w] \in DrainState
               /\ drain'[w].phase = drain[w].phase
               /\ drain'[w].lock = drain[w].lock
    <2>1. \A a \in Nat : Older(a) \in Nat
      BY OutboxAssumption DEF Older
    <2>2. PICK age \in Nat : drain'[w] = [drain[w] EXCEPT !.age = age]
      BY <1>1, <1>2, <2>1 DEF DrainState
    <2>3. QED
      BY <1>2, <2>2 DEF DrainState
  <1>5. TypeOK'
    <2>1. row' \in [Notification -> Row]
      BY <1>1, <1>3
    <2>2. drain' \in [Worker -> DrainState]
      BY <1>1, <1>4
    <2>3. \A n \in Notification :
             row'[n].status = "PROCESSING" <=> row'[n].lock # None
      BY <1>3 DEF IInv, TypeOK
    <2>4. overruns' \in Nat
      <3>1. overruns' = overruns \/ overruns' = overruns + 1
        BY <1>1
      <3>2. QED
        BY <1>2, <3>1
    <2>5. QED
      BY <1>1, <2>1, <2>2, <2>3, <2>4 DEF IInv, TypeOK
  <1>6. LocksAreUnique'
    BY <1>4 DEF IInv, LocksAreUnique
  <1>7. ASSUME NEW w \in Worker
        PROVE  /\ DrainConsistent(w)'
               /\ \A n \in Notification : JobConsistent(w, n)'
    <2>1. DrainConsistent(w)'
      BY <1>1, <1>4 DEF IInv, DrainConsistent
    <2>2. ASSUME NEW n \in Notification PROVE JobConsistent(w, n)'
      <3>1. JobConsistent(w, n) /\ (Holds(w, n)' <=> Holds(w, n))
        BY <1>3, <1>4 DEF IInv, Holds
      <3>2. Untouched(n)' <=> Untouched(n)
        BY <1>1 DEF Untouched
      <3>3. QED
        BY <1>1, <1>3, <3>1, <3>2 DEF JobConsistent
    <2>3. QED
      BY <2>1, <2>2
  <1>8. ASSUME NEW n \in Notification
        PROVE  /\ AttemptsLeft(n)'
               /\ lost'[n] > 0 => n \in faulty'
               /\ n \in faulty' \/ DeliveredOnce(n)'
    <2>1. AttemptsLeft(n)'
      BY <1>1, <1>3 DEF IInv, AttemptsLeft
    <2>2. ASSUME DeliveredOnce(n) PROVE DeliveredOnce(n)'
      <3>1. \A w \in Worker : Holds(w, n)' <=> Holds(w, n)
        BY <1>3, <1>4 DEF Holds
      <3>2. UNCHANGED <<job, reached>> /\ (Untouched(n)' <=> Untouched(n))
        BY <1>1 DEF Untouched
      <3>3. QED
        BY <1>3, <1>4, <2>2, <3>1, <3>2 DEF DeliveredOnce
    <2>3. QED
      BY <1>1, <2>1, <2>2 DEF IInv
  <1>9. QED
    BY <1>5, <1>6, <1>7, <1>8 DEF IInv

LEMMA CrashStep ==
    ASSUME IInv, NEW w \in Worker, Crash(w)
    PROVE  IInv'
  <1>1. /\ drain' = [drain EXCEPT ![w] = NoDrain]
        /\ job' = [job EXCEPT ![w] = [n \in Notification |-> NoJob]]
        /\ crashes' = crashes + 1
        /\ UNCHANGED <<row, endpoint, dead, reached, lost, faulty, changes,
                       overruns>>
    BY DEF Crash, history
  <1>2. /\ drain \in [Worker -> DrainState]
        /\ job \in [Worker -> [Notification -> Job]]
    BY DEF IInv, TypeOK
  <1>3. /\ \A v \in Worker \ {w} : drain'[v] = drain[v] /\ job'[v] = job[v]
        /\ drain'[w].lock = None /\ drain'[w].phase = "idle"
        /\ \A n \in Notification : job'[w][n] = NoJob
        /\ drain' \in [Worker -> DrainState]
        /\ job' \in [Worker -> [Notification -> Job]]
    BY <1>1, <1>2, NoJobType DEF NoDrain, DrainState
  <1>4. TypeOK'
    BY <1>1, <1>3 DEF IInv, TypeOK
  <1>5. LocksAreUnique'
    BY <1>3 DEF IInv, LocksAreUnique
  <1>6. ASSUME NEW v \in Worker
        PROVE  DrainConsistent(v)'
    BY <1>3 DEF IInv, DrainConsistent
  <1>7. ASSUME NEW v \in Worker, NEW n \in Notification
        PROVE  JobConsistent(v, n)'
    <2>1. CASE v = w
      <3>1. job'[v][n] = NoJob
        BY <2>1, <1>3
      <3>2. QED
        BY <3>1, NoJobType DEF JobConsistent
    <2>2. CASE v # w
      BY <2>2, <1>1, <1>3 DEF IInv, JobConsistent, Holds, Untouched
    <2>3. QED
      BY <2>1, <2>2
  <1>8. ASSUME NEW n \in Notification
        PROVE  /\ AttemptsLeft(n)'
               /\ lost'[n] > 0 => n \in faulty'
               /\ n \in faulty' \/ DeliveredOnce(n)'
    <2>1. ASSUME DeliveredOnce(n) PROVE DeliveredOnce(n)'
      <3>1. ASSUME NEW v \in Worker
            PROVE  /\ Holds(v, n)' /\ drain'[v].phase = "load" => Untouched(n)
                   /\ job'[v][n] = job[v][n] \/ job'[v][n].phase = "none"
        BY <2>1, <1>1, <1>3, NoJobType DEF DeliveredOnce, Holds
      <3>2. QED
        BY <2>1, <3>1, <1>1 DEF DeliveredOnce, Untouched
    <2>2. QED
      BY <2>1, <1>1 DEF IInv, AttemptsLeft
  <1>9. QED
    BY <1>4, <1>5, <1>6, <1>7, <1>8 DEF IInv

LEMMA ChangeStep ==
    ASSUME IInv, NEW e \in Endpoint,
           RetireToken(e) \/ RegisterPush(e) \/ Unregister(e)
    PROVE  IInv'
  <1>1. /\ UNCHANGED <<row, drain, job, reached, lost, faulty, crashes,
                       overruns>>
        /\ changes' = changes + 1
    BY DEF RetireToken, RegisterPush, Unregister, Change, history
  <1>2. /\ endpoint' \in [Endpoint ->
              [status : {"ACTIVE", "INVALID", "REVOKED"}, token : Nat]]
        /\ dead' \in [Endpoint -> Nat]
    <2>1. /\ endpoint \in [Endpoint ->
                [status : {"ACTIVE", "INVALID", "REVOKED"}, token : Nat]]
          /\ dead \in [Endpoint -> Nat]
      BY DEF IInv, TypeOK
    <2>2. CASE RetireToken(e)
      BY <2>1, <2>2 DEF RetireToken
    <2>3. CASE RegisterPush(e)
      BY <2>1, <2>3 DEF RegisterPush
    <2>4. CASE Unregister(e)
      BY <2>1, <2>4 DEF Unregister
    <2>5. QED
      BY <2>2, <2>3, <2>4
  <1>3. TypeOK'
    BY <1>1, <1>2 DEF IInv, TypeOK
  <1>4. QED
    BY <1>1, <1>3
    DEF IInv, LocksAreUnique, DrainConsistent, JobConsistent, AttemptsLeft,
        DeliveredOnce, Holds, Untouched

LEMMA NextIInv == IInv /\ [Next]_vars => IInv'
  <1> SUFFICES ASSUME IInv, [Next]_vars PROVE IInv'
    OBVIOUS
  <1>1. ASSUME NEW w \in Worker, Drain(w) PROVE IInv'
    BY <1>1, PollStep, ClaimStep, LoadStep, PushStep, PushDoneStep, SmsStep,
       MarkDeliveredStep, MarkThrowsStep, MarkFailedStep DEF Drain, Deliver
  <1>2. CASE UNCHANGED vars
    BY <1>2
    DEF vars, history, bounds, IInv, TypeOK, LocksAreUnique, DrainConsistent,
        JobConsistent, AttemptsLeft, DeliveredOnce, Holds, Untouched
  <1>3. QED
    BY <1>1, <1>2, CrashStep, ChangeStep, TickStep DEF Next

LEMMA Invariance == Spec => []IInv
  BY InitIInv, NextIInv, PTL DEF Spec

-----------------------------------------------------------------------------
(* The theorems                                                             *)

\* The tables and the workers' memory stay well typed, and rows are locked
\* exactly while PROCESSING.
THEOREM TypeCorrect == Spec => []TypeOK
  <1>1. IInv => TypeOK
    BY DEF IInv
  <1>2. QED
    BY <1>1, Invariance, PTL

\* However many workers poll, claim, stall and die, at most one of the
\* drains at work on a row holds it.
THEOREM HolderIsUnique == Spec => []OneHolder
  <1>1. IInv => OneHolder
    <2> SUFFICES ASSUME IInv, NEW n \in Notification
                 PROVE  /\ \A v, w \in Worker :
                              v # w /\ job[v][n] # NoJob /\ job[w][n] # NoJob
                                 => ~(Holds(v, n) /\ Holds(w, n))
                        /\ \A w \in Worker :
                              job[w][n] # NoJob /\ lost[n] = 0 => Holds(w, n)
      BY DEF OneHolder
    <2>1. ASSUME NEW v \in Worker, NEW w \in Worker, v # w,
                 Holds(v, n), Holds(w, n)
          PROVE  FALSE
      BY <2>1 DEF IInv, TypeOK, LocksAreUnique, Holds
    <2>2. ASSUME NEW w \in Worker, job[w][n] # NoJob, lost[n] = 0
          PROVE  Holds(w, n)
      BY <2>2 DEF IInv, JobConsistent
    <2>3. QED
      BY <2>1, <2>2
  <1>2. QED
    BY <1>1, Invariance, PTL

\* Beyond MaxAttempts a notification is attempted only as often as its lock
\* was lost.
THEOREM AttemptsAreBounded == Spec => []AttemptsBounded
  <1>1. IInv => AttemptsBounded
    BY DEF IInv, AttemptsLeft, AttemptsBounded
  <1>2. QED
    BY <1>1, Invariance, PTL

LEMMA RowStep ==
    ASSUME IInv, [Next]_vars, NEW n \in Notification, row[n].status \in Final
    PROVE  row'[n].status = row[n].status /\ row'[n].attempts = row[n].attempts
  <1>1. /\ row \in [Notification -> Row]
        /\ row[n].status \notin {"PENDING", "PROCESSING"}
    BY DEF IInv, TypeOK, Final
  <1>2. ASSUME NEW w \in Worker, Poll(w) PROVE row'[n] = row[n]
    BY <1>1, <1>2 DEF Poll, Requeued, Expired
  <1>3. ASSUME NEW w \in Worker, Claim(w) PROVE row'[n] = row[n]
    BY <1>1, <1>3 DEF Claim, Claimable
  <1>4. ASSUME NEW w \in Worker, NEW m \in Notification, NEW x, Mark(w, m, x)
        PROVE  row'[n] = row[n]
    BY <1>1, <1>4 DEF Mark, Holds
  <1>5. CASE Tick
    <2>1. row'[n] = [row[n] EXCEPT
             !.wait = IF @ > 0 THEN @ - 1 ELSE 0,
             !.age = IF row[n].status = "PROCESSING" THEN Older(@) ELSE 0]
      BY <1>5 DEF Tick
    <2>2. QED
      BY <1>1, <2>1 DEF Row
  <1>6. ASSUME NEW w \in Worker, NEW m \in Notification, Deliver(w, m)
        PROVE  row'[n] = row[n]
    <2>1. CASE Push(w, m) \/ PushDone(w, m) \/ Sms(w, m) \/ MarkThrows(w, m)
      BY <2>1
      DEF Push, PushAccepted, PushTransient, PushUnregistered, PushRefused,
          PushDone, Sms, MarkThrows, Step
    <2>2. CASE MarkDelivered(w, m) \/ MarkFailed(w, m)
      BY <1>4, <2>2 DEF MarkDelivered, MarkFailed
    <2>3. QED
      BY <1>6, <2>1, <2>2 DEF Deliver
  <1>7. QED
    BY <1>2, <1>3, <1>5, <1>6
    DEF Next, Drain, Load, Crash, RetireToken, RegisterPush, Unregister,
        Change, vars

\* No drain, however late, changes a SENT, SKIPPED or FAILED row.
THEOREM OutcomesAreFinal == Spec => SettledForGood
  <1>1. IInv /\ [Next]_vars =>
           [\A n \in Notification :
               row[n].status \in Final =>
                  /\ row'[n].status = row[n].status
                  /\ row'[n].attempts = row[n].attempts]_vars
    BY RowStep
  <1>2. QED
    BY <1>1, Invariance, PTL DEF Spec, SettledForGood

-----------------------------------------------------------------------------
(* Refinement                                                               *)

LEMMA InitImplements == Init => Delivery!Init
  <1> SUFFICES ASSUME Init PROVE Delivery!Init
    OBVIOUS
  <1>1. \A n \in Notification : row[n].status = "PENDING"
    BY DEF Init
  <1>2. QED
    BY <1>1
    DEF Init, Delivery!Init, Settled, Final, Channel, Delivery!Channel

\* Steps that settle nothing, reach nothing and at most add doubts.
LEMMA DoubtStep ==
    ASSUME IInv, [Next]_vars,
           \A n \in Notification : Settled(row'[n]) = Settled(row[n]),
           UNCHANGED reached, faulty \subseteq faulty'
    PROVE  Delivery!Next
  <1>1. IInv'
    BY NextIInv
  <1>2. faulty' \in SUBSET Notification
    BY <1>1 DEF IInv, TypeOK
  <1>3. Delivery!Doubt
    BY <1>2 DEF Delivery!Doubt
  <1>4. QED
    BY <1>3 DEF Delivery!Next

\* A channel that accepts a notification nothing failed for is the first
\* one, or an endpoint that has not accepted it and no SMS was sent.
LEMMA AcceptStep ==
    ASSUME IInv, NEW n \in Notification, NEW c \in Channel, UNCHANGED row,
           Accept(n, c), faulty' \in {faulty, faulty \cup {n}},
           \/ n \in faulty
           \/ /\ row[n].status \notin Final
              /\ reached[n][c] = 0
              /\ reached[n]["sms"] = 0
              /\ c = "sms" => Untouched(n)
    PROVE  Delivery!Next
  <1>1. Delivery!Untouched(n) <=> Untouched(n)
    BY DEF Delivery!Untouched, Untouched, Delivery!Channel, Channel
  <1>2. Delivery!Accept(n, c)
    BY <1>1 DEF Delivery!Accept, Accept, Settled
  <1>3. QED
    BY <1>2 DEF Delivery!Next, Delivery!Channel, Channel

\* A holder settles its row; SENT only if some channel accepted it.
LEMMA SettleStep ==
    ASSUME IInv, NEW n \in Notification, NEW x, NEW o \in Final,
           row' = [row EXCEPT ![n] = x], x.status = o,
           row[n].status = "PROCESSING", UNCHANGED <<reached, faulty>>,
           o = "SENT" => ~Untouched(n)
    PROVE  Delivery!Next
  <1>1. Delivery!Untouched(n) <=> Untouched(n)
    BY DEF Delivery!Untouched, Untouched, Delivery!Channel, Channel
  <1>2. /\ Settled(row[n]) = "open"
        /\ Settled(row'[n]) = o
        /\ \A m \in Notification : m # n => row'[m] = row[m]
    BY DEF IInv, TypeOK, Settled, Final
  <1>3. [m \in Notification |-> Settled(row'[m])] =
        [[m \in Notification |-> Settled(row[m])] EXCEPT ![n] = o]
    <2> DEFINE f == [m \in Notification |-> Settled(row[m])]
               g == [m \in Notification |-> Settled(row'[m])]
    <2>1. \A m \in Notification : g[m] = IF m = n THEN o ELSE f[m]
      BY <1>2
    <2>2. g = [m \in Notification |-> g[m]]
      OBVIOUS
    <2> HIDE DEF g
    <2>3. g = [m \in Notification |-> IF m = n THEN o ELSE f[m]]
      BY <2>1, <2>2
    <2>4. QED
      BY <2>3 DEF g
  <1>4. Delivery!Settle(n, o)
    BY <1>1, <1>2, <1>3 DEF Delivery!Settle
  <1>5. QED
    BY <1>4 DEF Delivery!Next, Delivery!Outcome, Final

LEMMA PushImplements ==
    ASSUME IInv, NEW w \in Worker, NEW n \in Notification, Push(w, n)
    PROVE  Delivery!Next
  <1>1. PICK t \in job[w][n].todo :
           \/ PushAccepted(w, n, t) \/ PushTransient(w, n, t)
           \/ PushUnregistered(w, n, t) \/ PushRefused(w, n, t)
    BY DEF Push
  <1>2. /\ job[w][n].phase = "push" /\ job[w][n] # NoJob
        /\ job[w][n] \in Job
    BY NoJobType DEF Push, IInv, TypeOK
  <1>3. t[1] \in Channel /\ t[1] # "sms"
    BY <1>2, OutboxAssumption DEF Job, Channel
  <1>4. [Next]_vars /\ UNCHANGED row
    BY DEF Next, Drain, Deliver, Push, PushAccepted, PushTransient,
           PushUnregistered, PushRefused, Step
  <1>5. \/ n \in faulty
        \/ /\ row[n].status \notin Final
           /\ reached[n][t[1]] = 0
           /\ reached[n]["sms"] = 0
    BY <1>2, SoleHolder DEF DeliveredOnce, Holds, Final
  <1>6. \/ /\ Accept(n, t[1])
           /\ faulty' \in {faulty, faulty \cup {n}}
        \/ /\ UNCHANGED reached
           /\ faulty \subseteq faulty'
    BY <1>1 DEF PushAccepted, PushTransient, PushUnregistered, PushRefused
  <1>7. QED
    BY <1>3, <1>4, <1>5, <1>6, AcceptStep, DoubtStep

LEMMA SmsImplements ==
    ASSUME IInv, NEW w \in Worker, NEW n \in Notification, Sms(w, n)
    PROVE  Delivery!Next
  <1>1. job[w][n].phase = "sms" /\ job[w][n] # NoJob /\ "sms" \in Channel
    BY NoJobType DEF Sms, Channel
  <1>2. [Next]_vars /\ UNCHANGED row
    BY DEF Next, Drain, Deliver, Sms, Step
  <1>3. \/ n \in faulty
        \/ row[n].status \notin Final /\ Untouched(n)
    BY <1>1, SoleHolder DEF DeliveredOnce, Holds, Final
  <1>4. \/ /\ Accept(n, "sms")
           /\ faulty' \in {faulty, faulty \cup {n}}
        \/ UNCHANGED <<reached, faulty>>
    BY DEF Sms
  <1>5. QED
    BY <1>1, <1>2, <1>3, <1>4, AcceptStep, DoubtStep DEF Untouched

LEMMA MarkImplements ==
    ASSUME IInv, NEW w \in Worker, NEW n \in Notification,
           MarkDelivered(w, n) \/ MarkFailed(w, n)
    PROVE  Delivery!Next
  <1>1. [Next]_vars /\ UNCHANGED <<reached, faulty>>
    BY DEF Next, Drain, Deliver, MarkDelivered, MarkFailed, Close
  <1>2. row[n] \in Row /\ job[w][n] \in Job /\ row \in [Notification -> Row]
    BY DEF IInv, TypeOK
  <1>3. CASE ~Holds(w, n)
    <2>1. \A m \in Notification : row'[m] = row[m]
      BY <1>2, <1>3 DEF MarkDelivered, MarkFailed, Mark
    <2>2. QED
      BY <1>1, <2>1, DoubtStep
  <1>4. CASE Holds(w, n) /\ MarkDelivered(w, n)
    <2> DEFINE o == IF job[w][n].phase = "sent" THEN "SENT" ELSE "SKIPPED"
               x == Released(row[n], o)
    <2>1. row' = [row EXCEPT ![n] = x]
      BY <1>4 DEF MarkDelivered, Mark
    <2>2. o \in Final /\ (o = "SENT" => ~Untouched(n))
      BY DEF IInv, JobConsistent, Final
    <2>3. row[n].status = "PROCESSING"
      BY <1>4 DEF Holds
    <2> HIDE DEF o
    <2>4. x.status = o
      BY <1>2, <2>2, ReleasedType
    <2> HIDE DEF x
    <2>5. QED
      BY <1>1, <2>1, <2>2, <2>3, <2>4, SettleStep
  <1>5. CASE Holds(w, n) /\ MarkFailed(w, n)
    <2>1. row[n].status = "PROCESSING"
      BY <1>5 DEF Holds
    <2>2. CASE MayRetry(job[w][n])
      <3> DEFINE x == [Released(row[n], "PENDING") EXCEPT
                          !.wait = Backoff(job[w][n].attempts)]
      <3>1. row' = [row EXCEPT ![n] = x]
        BY <1>5, <2>2 DEF MarkFailed, Mark
      <3>2. x.status = "PENDING"
        BY <1>2 DEF Released, Row
      <3> HIDE DEF x
      <3>3. \A m \in Notification : Settled(row'[m]) = Settled(row[m])
        BY <1>2, <2>1, <3>1, <3>2 DEF Settled, Final
      <3>4. QED
        BY <1>1, <3>3, DoubtStep
    <2>3. CASE ~MayRetry(job[w][n])
      <3> DEFINE x == Released(row[n], "FAILED")
      <3>1. row' = [row EXCEPT ![n] = x]
        BY <1>5, <2>3 DEF MarkFailed, Mark
      <3>2. x.status = "FAILED" /\ "FAILED" \in Final
        BY <1>2, ReleasedType DEF Final
      <3> HIDE DEF x
      <3>3. QED
        BY <1>1, <2>1, <3>1, <3>2, SettleStep
    <2>4. QED
      BY <2>2, <2>3
  <1>6. QED
    BY <1>3, <1>4, <1>5

LEMMA NextImplements ==
    ASSUME IInv, [Next]_vars
    PROVE  [Delivery!Next]_(Delivery!vars)
  <1>1. row \in [Notification -> Row]
    BY DEF IInv, TypeOK
  <1>2. ASSUME NEW w \in Worker, Poll(w) PROVE Delivery!Next
    <2>1. ASSUME NEW n \in Notification
          PROVE  Settled(row'[n]) = Settled(row[n])
      <3>1. row'[n] = Requeued(row[n]) /\ row[n] \in Row
        BY <1>1, <1>2 DEF Poll
      <3>2. CASE Expired(row[n])
        <4>1. row[n].status = "PROCESSING" /\ row'[n].status = "PENDING"
          BY <3>1, <3>2 DEF Requeued, Expired, Row
        <4>2. QED
          BY <4>1 DEF Settled, Final
      <3>3. CASE ~Expired(row[n])
        BY <3>1, <3>3 DEF Requeued
      <3>4. QED
        BY <3>2, <3>3
    <2>2. UNCHANGED reached /\ faulty \subseteq faulty'
      BY <1>2 DEF Poll
    <2>3. QED
      BY <2>1, <2>2, DoubtStep
  <1>3. ASSUME NEW w \in Worker, Claim(w) PROVE Delivery!Next
    <2>1. ASSUME NEW n \in Notification
          PROVE  Settled(row'[n]) = Settled(row[n])
      <3>1. CASE Claimable(row[n])
        <4>1. row[n].status = "PENDING"
              /\ row'[n].status \in {"PENDING", "PROCESSING"}
          BY <1>1, <1>3, <3>1 DEF Claim, Claimable, Row
        <4>2. QED
          BY <4>1 DEF Settled, Final
      <3>2. CASE ~Claimable(row[n])
        BY <1>3, <3>2 DEF Claim
      <3>3. QED
        BY <3>1, <3>2
    <2>2. UNCHANGED <<reached, faulty>>
      BY <1>3 DEF Claim, history
    <2>3. QED
      BY <2>1, <2>2, DoubtStep
  <1>4. CASE Tick
    <2>1. \A n \in Notification : row'[n].status = row[n].status
      BY <1>1, <1>4 DEF Tick, Row
    <2>2. UNCHANGED <<reached, faulty>>
      BY <1>4 DEF Tick, history
    <2>3. QED
      BY <2>1, <2>2, DoubtStep DEF Settled
  <1>5. ASSUME UNCHANGED <<row, reached>>, faulty \subseteq faulty'
        PROVE  Delivery!Next
    BY <1>5, DoubtStep
  <1>6. ASSUME NEW w \in Worker, NEW n \in Notification, Deliver(w, n)
        PROVE  Delivery!Next
    <2>1. CASE PushDone(w, n) \/ MarkThrows(w, n)
      BY <2>1, <1>5 DEF PushDone, MarkThrows, Step
    <2>2. QED
      BY <1>6, <2>1, PushImplements, SmsImplements, MarkImplements DEF Deliver
  <1>7. CASE \/ \E w \in Worker : Load(w) \/ Crash(w)
             \/ \E e \in Endpoint :
                   RetireToken(e) \/ RegisterPush(e) \/ Unregister(e)
             \/ UNCHANGED vars
    BY <1>5, <1>7
    DEF Load, Crash, RetireToken, RegisterPush, Unregister, Change, history,
        vars
  <1>8. QED
    BY <1>2, <1>3, <1>4, <1>6, <1>7 DEF Next, Drain

\* The outbox keeps the promises of NotificationDelivery: at most one
\* acceptance per channel and never push and SMS both unless something
\* failed, SENT only after an acceptance, and one outcome for good.
THEOREM OutboxImplementsDelivery == Spec => ImplementsDelivery
  BY InitImplements, NextImplements, Invariance, PTL
  DEF Spec, ImplementsDelivery, Delivery!Spec

=============================================================================
