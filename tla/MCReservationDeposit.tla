------------------------ MODULE MCReservationDeposit ------------------------
(* Small instances of ReservationDeposit. *)
EXTENDS ReservationDeposit, TLC

\* Calls are interchangeable, and so are idempotency keys.
Symmetry == Permutations(Call) \cup Permutations(Key)

\* The idempotency keys and transmissions that have been used.
Used == {k \in Key : capture[k] # "NONE"} \cup
        {t \in Transmission : event[t] # "NONE"} \cup
        {call[c].id : c \in Call}

\* A second key or a second transmission, not both.
Focus == ~(Key \cup Transmission \subseteq Used)

=============================================================================
