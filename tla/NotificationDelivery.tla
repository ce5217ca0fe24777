------------------------ MODULE NotificationDelivery ------------------------
(***************************************************************************)
(* What the outbox promises of each notification, without workers, locks,  *)
(* attempts or time: it ends in one outcome that never changes, SENT means *)
(* that some channel accepted it, and as long as nothing failed in a way   *)
(* that leaves its effect unknown every push endpoint accepts it at most   *)
(* once and an SMS is sent instead of the pushes, never as well.           *)
(***************************************************************************)
EXTENDS Naturals

CONSTANTS Notification, Endpoint, SmsChannel

VARIABLES
    outcome,    \* outcome[n]: "open", or how n was settled
    reached,    \* reached[n][c]: how often channel c accepted n
    doubtful    \* notifications for which a failure left the effect unknown

vars == <<outcome, reached, doubtful>>

Channel == Endpoint \cup {SmsChannel}
Outcome == {"SENT", "SKIPPED", "FAILED"}

Init ==
    /\ outcome = [n \in Notification |-> "open"]
    /\ reached = [n \in Notification |-> [c \in Channel |-> 0]]
    /\ doubtful = {}

Untouched(n) == \A c \in Channel : reached[n][c] = 0

\* A channel accepts n.  Without a doubt n is open, c has not accepted it
\* yet, and the SMS is the only delivery if it is one.
Accept(n, c) ==
    /\ n \in doubtful \/ /\ outcome[n] = "open"
                         /\ reached[n][c] = 0
                         /\ reached[n][SmsChannel] = 0
                         /\ c = SmsChannel => Untouched(n)
    /\ reached' = [reached EXCEPT ![n][c] = @ + 1]
    /\ doubtful' \in {doubtful, doubtful \cup {n}}
    /\ UNCHANGED outcome

\* Something fails: a worker dies or stalls, an answer or an update is lost.
Doubt ==
    /\ doubtful' \in SUBSET Notification
    /\ doubtful \subseteq doubtful'
    /\ UNCHANGED <<outcome, reached>>

Settle(n, o) ==
    /\ outcome[n] = "open"
    /\ o = "SENT" => ~Untouched(n)
    /\ outcome' = [outcome EXCEPT ![n] = o]
    /\ UNCHANGED <<reached, doubtful>>

Next ==
    \/ \E n \in Notification :
          \/ \E c \in Channel : Accept(n, c)
          \/ \E o \in Outcome : Settle(n, o)
    \/ Doubt

Spec == Init /\ [][Next]_vars

=============================================================================
