--------------------------- MODULE VisitAgreement ---------------------------
(***************************************************************************)
(* A visit as its two parties agree on it, without requests, queries or    *)
(* transactions: the visitor asks for a window, the host approves, rejects *)
(* or puts forward another, which the visitor accepts or declines, and the *)
(* visitor may cancel as long as the visit stands.  Each act is done and   *)
(* told to the other party in one step, on the visit as it then is.        *)
(***************************************************************************)
EXTENDS Sequences

CONSTANTS
    Reservation, Property, User, Window,
    Registrant,     \* Registrant[p]: who offers p
    None, NoWindow

VARIABLES
    visit,      \* the visit each reservation stands for
    story       \* the acts that brought it there

vars == <<visit, story>>

Standing == {"REQUESTED", "ALTERNATIVE_PROPOSED", "CONFIRMED"}

NoVisit == [status |-> "NONE", listing |-> None, visitor |-> None,
            host |-> None, window |-> NoWindow]

Init ==
    /\ visit = [r \in Reservation |-> NoVisit]
    /\ story = [r \in Reservation |-> << >>]

\* The act leads r to v and is told as what it is.
Act(r, action, by, other, v, w) ==
    /\ story' = [story EXCEPT ![r] = Append(@,
          [action |-> action, actor |-> by, notified |-> other,
           previous |-> visit[r].status, next |-> v.status, window |-> w])]
    /\ visit' = [visit EXCEPT ![r] = v]

\* A member visits listings of others, and asks once at a time for each.
Ask(r, p, u, w) ==
    /\ visit[r] = NoVisit
    /\ Registrant[p] # u
    /\ \A s \in Reservation :
          visit[s].listing = p /\ visit[s].visitor = u
             => visit[s].status \notin Standing
    /\ Act(r, "create", u, Registrant[p],
           [status |-> "REQUESTED", listing |-> p, visitor |-> u,
            host |-> Registrant[p], window |-> w], w)

Became(r, status, w) ==
    [visit[r] EXCEPT !.status = status,
                     !.window = IF status \in Standing THEN w ELSE NoWindow]

HostActs(r, action, status, w) ==
    /\ visit[r].status = "REQUESTED"
    /\ Act(r, action, visit[r].host, visit[r].visitor,
           Became(r, status, w), w)

VisitorActs(r, action, status) ==
    Act(r, action, visit[r].visitor, visit[r].host,
        Became(r, status, visit[r].window), visit[r].window)

Approve(r) == HostActs(r, "approve", "CONFIRMED", visit[r].window)

Reject(r) == HostActs(r, "reject", "REJECTED", visit[r].window)

Propose(r, w) == HostActs(r, "propose", "ALTERNATIVE_PROPOSED", w)

Accept(r) ==
    /\ visit[r].status = "ALTERNATIVE_PROPOSED"
    /\ VisitorActs(r, "accept", "CONFIRMED")

Decline(r) ==
    /\ visit[r].status = "ALTERNATIVE_PROPOSED"
    /\ VisitorActs(r, "decline", "ALTERNATIVE_DECLINED")

Cancel(r) ==
    /\ visit[r].status \in Standing
    /\ VisitorActs(r, "cancel", "CANCELLED")

\* An act on r adds to its story.
Next ==
    \E r \in Reservation :
        /\ story'[r] # story[r]
        /\ \/ \E p \in Property, u \in User, w \in Window : Ask(r, p, u, w)
           \/ Approve(r) \/ Reject(r) \/ \E w \in Window : Propose(r, w)
           \/ Accept(r) \/ Decline(r) \/ Cancel(r)

Spec == Init /\ [][Next]_vars

=============================================================================
