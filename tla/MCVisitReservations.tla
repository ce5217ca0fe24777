------------------------ MODULE MCVisitReservations ------------------------
(* Values of the constants of VisitReservations for model checking.  The   *)
(* code's limits (2 h lead, 30 min to 3 h, 90 days, 24 h to answer, 30 min *)
(* before the visit) are scaled to the smallest integers in the same order. *)
EXTENDS VisitReservations, TLC

CONSTANTS r1, r2, p1, p2, ann, bob, cho

\* One listing of bob's; or one of bob's and one of cho's.
RegistrantOne == (p1 :> bob)
RegistrantTwo == (p1 :> bob) @@ (p2 :> cho)

\* Two windows that overlap without being equal.
W(s, e) == [start |-> s, end |-> e]
TwoWindows == {W(2, 4), W(3, 5)}

RaceSymmetry == Permutations(Request) \cup Permutations(Reservation)
SerialSymmetry == Permutations(Reservation)
=============================================================================
