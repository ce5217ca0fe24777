------------------------------ MODULE Requests ------------------------------
(***************************************************************************)
(* The HTTP requests an API process has in flight.  A service keeps a      *)
(* table of them: one record per slot, whose field "phase" says which      *)
(* round trip to the database or to a provider comes next.                 *)
(***************************************************************************)
CONSTANTS
    Request,    \* slots for requests in flight
    None        \* SQL NULL

At(table, r, phase) == table[r].phase = phase

\* The table once request r has come to its next round trip.
Moved(table, r, phase) == [table EXCEPT ![r].phase = phase]
=============================================================================
