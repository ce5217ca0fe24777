----------------------------- MODULE MCServices -----------------------------
(***************************************************************************)
(* The services in one small instance.  Where they share no row their      *)
(* steps commute, so each is explored while the others are at rest; the    *)
(* chat, while a listing just published is reported and taken off.         *)
(***************************************************************************)
EXTENDS Services, TLC

\* The listing as it was published, but for what a report may take off.
JustPublished ==
    /\ images = {1} /\ shown = {1} /\ stored = 1 /\ deal = "AVAILABLE"
    /\ upload = [u \in Upload |-> NoUpload]
    /\ work = [r \in Request |-> NoWork]
    /\ ~overtaken /\ ~doubled

First == CHOOSE i \in Report : TRUE

\* The first report of it is about to take it off, or has.
Concluding ==
    /\ JustPublished
    /\ \A i \in Report \ {First} : report[i] = "NONE"
    /\ \/ /\ status = "ACTIVE" /\ version = 3 /\ trail[First] = <<>>
          /\ \E r \in Request : /\ moderation[r].phase = "decide"
                               /\ moderation[r].down
                               /\ \A q \in Request \ {r} :
                                      moderation[q] = NoCase
       \/ /\ status = "INACTIVE" /\ version = 4 /\ Len(trail[First]) = 1
          /\ \A r \in Request : moderation[r] = NoCase
          /\ \E r \in Request : chats[r] # NoChat

AloneNext ==
    \/ /\ AccountInit /\ Concluding
       /\ \E r \in Request : ChatMoves(r)
    \/ /\ ChatInit /\ ReportsInit
       /\ AccountMoves
    \/ /\ AccountInit /\ ChatInit
       /\ ListingOrReportMoves
    \/ /\ AccountInit /\ Concluding
       /\ \E r \in Request : CommitReview(r)
       /\ ListingIsSeen
       /\ UNCHANGED accountVars

AloneSpec == ServicesInit /\ [][AloneNext]_servicesVars

-----------------------------------------------------------------------------

\* Sessions meet challenges only in CommitReset, and failed logins both only
\* in their being cleared: a second challenge is tried without sessions and
\* failures, a second token without challenges.
Issued == Cardinality({h \in Challenge : challenge[h].state # "none"})

Issuing ==
    \E r \in Request : auth[r].phase \in {"cooldown", "supersede", "issue"}

Opened == \E s \in Session : session[s].state # "none"

HasToken(n) == \E s \in Session : token[s][n] # "none"

AccountFocus ==
    /\ Opened => /\ Issued <= 1 /\ streak = 0
                 /\ \A h \in Challenge : challenge[h].attempts = 0
    /\ HasToken(2) => Issued = 0 /\ ~Issuing
    /\ HasToken(3) => failures = 0
    /\ Issued >= 1 => streak <= 1 /\ failures <= 1
    /\ Issued = 2 => password = 0 /\ streak = 0 /\ failures = 0
    /\ (Issued = 1 /\ Issuing) => ~Opened /\ streak = 0

\* An upload meets the rest of the listing in its images and its status: it is
\* tried on a draft and on a listing just published, while the price and the
\* deal stand still.  A job that runs twice is tried on a draft.
Uploading ==
    \E u \in Upload : \/ upload[u].status # "NONE"
                      \/ \E r \in Request : work[r].upload = u

ListingFocus ==
    /\ stored <= 2
    /\ disturbed # {} => version = 1
    /\ Uploading =>
          /\ version <= 3
          /\ \A r \in Request : work[r].version = 0 /\ work[r].price = None

\* A report meets the listing in its status alone: it is tried on one that was
\* put on offer as it was created, with at most one update or submission still
\* under way.  Beside that one, or once there are two reports, one request at a
\* time creates or reviews.
Reporting == \E r \in Request : moderation[r] # NoCase

Reported == \E i \in Report : report[i] # "NONE"

Again == \A i \in Report : report[i] # "NONE"

ReportFocus ==
    (Reporting \/ Reported) =>
        /\ ~Uploading /\ deal = "AVAILABLE" /\ stored = 1
        /\ version \in {3, 4, 5} /\ status \in {"ACTIVE", "INACTIVE"}
        /\ \A r \in Request : work[r].phase \in {"idle", "rewrite", "submit"}
        /\ \E r \in Request : work[r] = NoWork
        /\ Again \/ (\E r \in Request : work[r] # NoWork)
               => \E r \in Request : moderation[r] = NoCase

Focus == AccountFocus /\ ListingFocus /\ ReportFocus

Symmetry ==
    UNION {Permutations(S) : S \in {Request, MessageId, Text, Price}}

=============================================================================
