----------------------- MODULE MCElectronicContract -----------------------
(* What the provider of ElectronicContract says in the small instances.    *)
EXTENDS ElectronicContract, TLC

M(s, member, registrant, doc) ==
    [status |-> s, document |-> doc,
     parties |-> ("MEMBER" :> member @@ "REGISTRANT" :> registrant)]

\* One party signs and the other looks or declines; both sign, with and
\* without the document; the session ends by itself.
Messages ==
    { M("PARTIALLY_SIGNED", "SIGNED", "VIEWED", FALSE),
      M("SIGNED", "SIGNED", "SIGNED", TRUE),
      M("SIGNED", "SIGNED", "SIGNED", FALSE),
      M("DECLINED", "SIGNED", "DECLINED", FALSE),
      M("FAILED", "PENDING", "PENDING", FALSE) }

\* Webhooks and rechecks meet only in the contract's status: two
\* transmissions are tried on a listing that needs no recheck, one beside a
\* recheck, none beside several.
Reports == Cardinality({t \in Transmission : says[t] # None})

Focus ==
    CASE Reports = 2 -> ~jeonse /\ now = 0
      [] Reports = 1 -> attempts <= 1
      [] OTHER -> TRUE

Symmetry == Permutations(Call) \cup Permutations(Transmission)

=============================================================================
