------------------------ MODULE MCNotificationOutbox ------------------------
(* Values of the constants of NotificationOutbox for model checking. *)
EXTENDS NotificationOutbox, TLC

CONSTANTS n1, n2, e1, e2

\* Every recipient has all endpoints; or n1's has one and n2's has none.
OneTarget == (n1 :> {e1}) @@ (n2 :> {})
AllTargets == [n \in Notification |-> Endpoint]

Symmetry == Permutations(Worker) \cup Permutations(LockId)
               \cup Permutations(Endpoint)
=============================================================================
