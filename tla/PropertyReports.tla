--------------------------- MODULE PropertyReports ---------------------------
(***************************************************************************)
(* What one member reports of a listing, and what the administrators make  *)
(* of it: src/apps/api/src/properties/property-reports.service.ts, over    *)
(* the listing of PropertyListing.                                         *)
(*                                                                         *)
(* create() looks for an unprocessed report and then inserts, outside a    *)
(* transaction.  review() reads the report and then, in one transaction,   *)
(* writes it where it is as it was read, adds to its history and takes the *)
(* listing off if the administrator says so.                               *)
(***************************************************************************)
EXTENDS PropertyListing, Sequences

CONSTANT Report     \* ids of the member's reports

ReportStatus == {"NONE", "OPEN", "UNDER_REVIEW", "RESOLVED", "REJECTED"}
Unprocessed == {"OPEN", "UNDER_REVIEW"}
Verdict == ReportStatus \ {"NONE", "OPEN"}

VARIABLES
    report,        \* property_reports: the status of each row
    trail,         \* property_report_histories of each report
    moderation,    \* requests under way
    doubled,       \* history: two submissions had both found no other report
    condemned      \* history: a review that takes the listing off committed

reportVars == <<report, trail, moderation, doubled, condemned>>

NoCase == [phase |-> "idle", report |-> None, found |-> "NONE",
           verdict |-> "NONE", down |-> FALSE]

ReportsInit ==
    /\ ListingInit
    /\ report = [i \in Report |-> "NONE"]
    /\ trail = [i \in Report |-> <<>>]
    /\ moderation = [r \in Request |-> NoCase]
    /\ doubled = FALSE
    /\ condemned = FALSE

-----------------------------------------------------------------------------

TakeUp(r, request) ==
    /\ moderation[r] = NoCase
    /\ moderation' = [moderation EXCEPT ![r] = request]

SetAside(r) == moderation' = [moderation EXCEPT ![r] = NoCase]

GoOn(r, condition, phase) ==
    IF condition THEN moderation' = Moved(moderation, r, phase) ELSE SetAside(r)

-----------------------------------------------------------------------------
(* create() *)

ReceiveReport(r) ==
    /\ TakeUp(r, [NoCase EXCEPT !.phase = "look"])
    /\ UNCHANGED <<report, trail, doubled, condemned, listingVars>>

\* Only what is on offer can be reported.
ReadReported(r) ==
    /\ At(moderation, r, "look")
    /\ GoOn(r, status = "ACTIVE", "search")
    /\ UNCHANGED <<report, trail, doubled, condemned, listingVars>>

NoneUnprocessed == \A i \in Report : report[i] \notin Unprocessed

CheckDuplicate(r) ==
    /\ At(moderation, r, "search")
    /\ GoOn(r, NoneUnprocessed, "insert")
    /\ doubled' = (doubled \/ (NoneUnprocessed /\ \E q \in Request \ {r} :
                                                    At(moderation, q, "insert")))
    /\ UNCHANGED <<report, trail, condemned, listingVars>>

InsertReport(r, i) ==
    /\ At(moderation, r, "insert")
    /\ report[i] = "NONE"
    /\ report' = [report EXCEPT ![i] = "OPEN"]
    /\ SetAside(r)
    /\ UNCHANGED <<trail, doubled, condemned, listingVars>>

-----------------------------------------------------------------------------
(* review() *)

\* Only a report that is resolved can take the listing off.
ReceiveReview(r, i, verdict, down) ==
    /\ report[i] # "NONE"
    /\ down => verdict = "RESOLVED"
    /\ TakeUp(r, [NoCase EXCEPT !.phase = "read", !.report = i,
                              !.verdict = verdict, !.down = down])
    /\ UNCHANGED <<report, trail, doubled, condemned, listingVars>>

\* A concluded report stays; one under review is not taken up again.
ReadReport(r) ==
    /\ At(moderation, r, "read")
    /\ LET now == report[moderation[r].report]
       IN  IF now \in Unprocessed /\ now # moderation[r].verdict
           THEN moderation' = [moderation EXCEPT ![r].phase = "decide",
                                                 ![r].found = now]
           ELSE SetAside(r)
    /\ UNCHANGED <<report, trail, doubled, condemned, listingVars>>

AsFoundAny(r) == TRUE

\* updateMany where the status is the one that was read
AsFound(r) == report[moderation[r].report] = moderation[r].found

CommitReview(r) ==
    /\ At(moderation, r, "decide")
    /\ LET w == moderation[r]
       IN  IF AsFound(r)
           THEN /\ report' = [report EXCEPT ![w.report] = w.verdict]
                /\ trail' = [trail EXCEPT ![w.report] =
                       Append(@, [from |-> w.found, to |-> w.verdict])]
                /\ IF w.down /\ status = "ACTIVE"
                   THEN TakeDown ELSE UNCHANGED listingVars
                /\ condemned' = (condemned \/ w.down)
           ELSE UNCHANGED <<report, trail, condemned, listingVars>>
    /\ SetAside(r)
    /\ UNCHANGED doubled

\* The process dies or the connection drops: an open transaction rolls back.
LoseCase(r) ==
    /\ moderation[r] # NoCase
    /\ SetAside(r)
    /\ UNCHANGED <<report, trail, doubled, condemned, listingVars>>

-----------------------------------------------------------------------------

ReportStep(r) ==
    \/ ReceiveReport(r) \/ ReadReported(r) \/ CheckDuplicate(r)
    \/ \E i \in Report : InsertReport(r, i)
    \/ \E i \in Report, verdict \in Verdict, down \in BOOLEAN :
           ReceiveReview(r, i, verdict, down)
    \/ ReadReport(r) \/ CommitReview(r) \/ LoseCase(r)

ReportsNext ==
    \/ ListingMoves /\ UNCHANGED reportVars
    \/ \E r \in Request : ReportStep(r)

ReportsSpec == ReportsInit /\ [][ReportsNext]_<<reportVars, listingVars>>

-----------------------------------------------------------------------------
(* Properties *)

ModerationCase ==
    [phase : {"idle", "look", "search", "insert", "read", "decide"},
     report : Report \cup {None}, found : {"NONE"} \cup Unprocessed,
     verdict : {"NONE"} \cup Verdict, down : BOOLEAN]

Entry == [from : Unprocessed, to : Verdict]

\* Every variable has its type.
ReportTypeOK ==
    /\ report \in [Report -> ReportStatus]
    /\ trail \in [Report -> Seq(Entry)]
    /\ moderation \in [Request -> ModerationCase]
    /\ doubled \in BOOLEAN /\ condemned \in BOOLEAN

\* The history of a report tells how it came to be as it is, entry by entry.
Told(i) ==
    LET t == trail[i]
    IN  /\ \A k \in 1..Len(t) :
               t[k].from = IF k = 1 THEN "OPEN" ELSE t[k - 1].to
        /\ report[i] \in {"NONE", "OPEN"} <=> t = <<>>
        /\ t # <<>> => report[i] = t[Len(t)].to

\* However reviewers overlap, a report's history leads without a gap from its
\* submission to its status, never out of a conclusion; and the member has one
\* unprocessed report at most, unless two submissions were both checked before
\* either was stored.
ReportsAreFollowed ==
    /\ \A i \in Report : Told(i)
    /\ ~doubled => \A i, j \in Report :
                       report[i] \in Unprocessed /\ report[j] \in Unprocessed
                           => i = j

\* Once a resolved report is to take the listing off, it is not on offer,
\* then or later; the way back is an update or a submission that commits on
\* what it read before.
CondemnedStaysOff == (condemned /\ ~overtaken) => status # "ACTIVE"

=============================================================================
