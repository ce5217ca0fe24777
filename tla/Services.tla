------------------------------ MODULE Services ------------------------------
(***************************************************************************)
(* The chat room, the account and the listing with its reports as parts of *)
(* one program over one database.  The rows they write are apart, save one *)
(* that two of them read: the chat asks the listing's own row whether it   *)
(* is public, where PropertyChat lets the answer change by itself.         *)
(***************************************************************************)
EXTENDS PropertyChat, UserAccounts, PropertyReports

servicesVars == <<chatVars, accountVars, reportVars, listingVars>>

\* The listing is public: what createRoom() and sendMessage() ask of its row.
Public == status = "ACTIVE"

ServicesInit ==
    /\ ChatInit /\ AccountInit /\ ReportsInit
    /\ listed = Public

\* The row of the listing is the one the chat reads.
ListingIsSeen ==
    /\ listed' = Public'
    /\ UNCHANGED <<room, last, messages, lastRead, told, chats>>

ChatMoves(r) ==
    /\ ChatStep(r)
    /\ UNCHANGED <<accountVars, reportVars, listingVars>>

AccountMoves ==
    /\ AccountNext
    /\ UNCHANGED <<chatVars, reportVars, listingVars>>

ListingOrReportMoves ==
    /\ ReportsNext
    /\ ListingIsSeen
    /\ UNCHANGED accountVars

ServicesNext ==
    \/ \E r \in Request : ChatMoves(r)
    \/ AccountMoves
    \/ ListingOrReportMoves

ServicesSpec == ServicesInit /\ [][ServicesNext]_servicesVars

-----------------------------------------------------------------------------
(* Properties *)

\* Every variable has its type.
ServicesTypeOK == ChatTypeOK /\ AccountTypeOK /\ ListingTypeOK /\ ReportTypeOK

=============================================================================
