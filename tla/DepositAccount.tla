--------------------------- MODULE DepositAccount ---------------------------
(***************************************************************************)
(* What a deposit is to the member who pays it, without calls, rows,       *)
(* webhooks or retries: a charge that is made once; a refund the service   *)
(* makes once, of the whole, and only when a cancellation of something     *)
(* paid has asked for it; money the provider's back office returns; and    *)
(* books that say nothing that is not so.                                  *)
(***************************************************************************)
EXTENDS Integers

CONSTANT Amount

VARIABLES
    charged,    \* the member has paid
    returned,   \* the money that went back
    refunded,   \* the service made its refund
    owed,       \* a refund was asked for
    told,       \* what the books say of the deposit
    entries     \* the amounts they record as returned

vars == <<charged, returned, refunded, owed, told, entries>>

Claim == {"NOTHING", "PAID", "RETURNING", "PARTLY", "RETURNED"}

Init ==
    /\ charged = FALSE /\ returned = 0 /\ refunded = FALSE
    /\ owed = FALSE
    /\ told = "NOTHING" /\ entries = {}

Charge ==
    /\ ~charged
    /\ charged' = TRUE
    /\ UNCHANGED <<returned, refunded, owed, told, entries>>

Refund ==
    /\ charged /\ owed /\ ~refunded /\ returned = 0
    /\ returned' = Amount
    /\ refunded' = TRUE
    /\ UNCHANGED <<charged, owed, told, entries>>

\* The back office returns money on its own.
Return(amount) ==
    /\ charged /\ returned + amount <= Amount
    /\ returned' = returned + amount
    /\ UNCHANGED <<charged, refunded, owed, told, entries>>

\* What may be said of the money there is, when a refund is due or not.
IsSo(claim, due) ==
    /\ claim # "NOTHING" => charged
    /\ claim = "RETURNING" => due
    /\ claim = "PARTLY" => returned > 0
    /\ claim = "RETURNED" => returned = Amount

\* The books are written.  What was asked for stays so, and only what was
\* paid is asked back.
Write ==
    /\ owed' \in {due \in BOOLEAN : (owed => due) /\ (due => charged)}
    /\ told' \in {claim \in Claim : IsSo(claim, owed')}
    /\ entries' \in SUBSET (1..returned)
    /\ UNCHANGED <<charged, returned, refunded>>

Next == Charge \/ Refund \/ (\E amount \in 1..Amount : Return(amount)) \/ Write

Spec == Init /\ [][Next]_vars

=============================================================================
