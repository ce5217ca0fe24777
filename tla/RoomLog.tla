------------------------------- MODULE RoomLog -------------------------------
(***************************************************************************)
(* What a chat room promises its two parties: an append-only log of        *)
(* messages in which nobody's message id occurs twice, and for each party  *)
(* a read mark that only advances and never points past the log.           *)
(***************************************************************************)
EXTENDS Integers, Sequences

CONSTANTS Party, MessageId, Text

VARIABLES
    log,     \* the messages in their order
    mark     \* how far each party has read

Entry == [by : Party, id : MessageId, body : Text]

Init == log = <<>> /\ mark = [p \in Party |-> 0]

\* Who writes a message has read everything before it.
Write(m) ==
    /\ \A i \in DOMAIN log : log[i].by # m.by \/ log[i].id # m.id
    /\ log' = Append(log, m)
    /\ mark' = [mark EXCEPT ![m.by] = Len(log) + 1]

Read(p, n) ==
    /\ mark[p] < n /\ n <= Len(log)
    /\ mark' = [mark EXCEPT ![p] = n]
    /\ UNCHANGED log

Next ==
    \/ \E m \in Entry : Write(m)
    \/ \E p \in Party, n \in 1..Len(log) : Read(p, n)

Spec == Init /\ [][Next]_<<log, mark>>
=============================================================================
