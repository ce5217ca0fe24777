---------------------------- MODULE ServicesProofs ----------------------------
(***************************************************************************)
(* What the chat, the accounts and the listings keep each for itself they  *)
(* keep together: every behaviour of Services is a behaviour of each.      *)
(***************************************************************************)
EXTENDS Services, PropertyChatProofs, UserAccountsProofs, PropertyListingProofs

Seen == listed = Public

LEMMA ChatLeavesListed ==
    ASSUME NEW r \in Request, ChatStep(r)
    PROVE  UNCHANGED listed
  BY DEF ChatStep, ReceiveCreateRoom, ReadListing, CommitRoom, ReceiveSend,
         ReadRoomForSend, LookUp, CheckInTransaction, CommitMessage, Recover,
         ReceiveMark, ReadRoomForMark, CommitMark, LoseChat

LEMMA SeenNext == Seen /\ [ServicesNext]_servicesVars => Seen'
  <1> SUFFICES ASSUME Seen, [ServicesNext]_servicesVars
               PROVE  Seen'
    OBVIOUS
  <1> USE DEF Seen
  <1>1. ASSUME NEW r \in Request, ChatMoves(r)
        PROVE  UNCHANGED <<listed, status>>
    BY <1>1, ChatLeavesListed DEF ChatMoves, listingVars, row
  <1>2. CASE AccountMoves
    BY <1>2 DEF AccountMoves, chatVars, listingVars, row, Public
  <1>3. CASE ListingOrReportMoves
    BY <1>3 DEF ListingOrReportMoves, ListingIsSeen
  <1>4. CASE UNCHANGED servicesVars
    BY <1>4 DEF servicesVars, chatVars, listingVars, row, Public
  <1>5. QED
    BY <1>1, <1>2, <1>3, <1>4 DEF ServicesNext, Public

\* The chat sees the listing leave and come back, and nothing else that
\* PropertyChat does not let it see.
THEOREM ServicesKeepChat == ServicesSpec => ChatSpec
  <1>1. ServicesInit => ChatInit /\ Seen
    BY DEF ServicesInit, Seen
  <1>2. Seen /\ [ServicesNext]_servicesVars => [ChatNext]_chatVars
    <2> SUFFICES ASSUME Seen, [ServicesNext]_servicesVars
                 PROVE  [ChatNext]_chatVars
      OBVIOUS
    <2>1. CASE \E r \in Request : ChatMoves(r)
      BY <2>1 DEF ChatMoves, ChatNext
    <2>2. CASE AccountMoves
      BY <2>2 DEF AccountMoves
    <2>3. CASE ListingOrReportMoves
      <3>1. listed \in BOOLEAN /\ listed' \in BOOLEAN
        BY <2>3 DEF ListingOrReportMoves, ListingIsSeen, Public, Seen
      <3>2. CASE listed' = listed
        BY <2>3, <3>2 DEF ListingOrReportMoves, ListingIsSeen, chatVars
      <3>3. CASE listed' = ~listed
        BY <2>3, <3>3
        DEF ListingOrReportMoves, ListingIsSeen, ChatNext, ListingChanges
      <3>4. QED
        BY <3>1, <3>2, <3>3
    <2>4. CASE UNCHANGED servicesVars
      BY <2>4 DEF servicesVars
    <2>5. QED
      BY <2>1, <2>2, <2>3, <2>4 DEF ServicesNext
  <1>3. QED
    BY <1>1, <1>2, SeenNext, PTL DEF ServicesSpec, ChatSpec

\* Neither the chat nor a listing touches an account.
THEOREM ServicesKeepAccounts == ServicesSpec => AccountSpec
  <1>1. ServicesInit => AccountInit
    BY DEF ServicesInit
  <1>2. [ServicesNext]_servicesVars => [AccountNext]_accountVars
    BY DEF ServicesNext, servicesVars, ChatMoves, AccountMoves,
           ListingOrReportMoves
  <1>3. QED
    BY <1>1, <1>2, PTL DEF ServicesSpec, AccountSpec

\* Neither the chat nor an account touches a listing or a report.
THEOREM ServicesKeepReports == ServicesSpec => ReportsSpec
  <1>1. ServicesInit => ReportsInit
    BY DEF ServicesInit
  <1>2. [ServicesNext]_servicesVars => [ReportsNext]_<<reportVars, listingVars>>
    BY DEF ServicesNext, servicesVars, ChatMoves, AccountMoves,
           ListingOrReportMoves
  <1>3. QED
    BY <1>1, <1>2, PTL DEF ServicesSpec, ReportsSpec

-----------------------------------------------------------------------------

\* Type correctness of the services together.
THEOREM ServicesTypeCorrect == ServicesSpec => []ServicesTypeOK
  <1>1. ServicesSpec => []ChatTypeOK
    BY ServicesKeepChat, ChatTypeCorrect
  <1>2. ServicesSpec => []AccountTypeOK
    BY ServicesKeepAccounts, AccountTypeCorrect
  <1>3. ServicesSpec => []ListingTypeOK /\ []ReportTypeOK
    BY ServicesKeepReports, ReportsKeepListing, ListingTypeCorrect,
       ReportsTypeCorrect
  <1>4. ServicesTypeOK <=> /\ ChatTypeOK /\ AccountTypeOK
                           /\ ListingTypeOK /\ ReportTypeOK
    BY DEF ServicesTypeOK
  <1>5. QED
    BY <1>1, <1>2, <1>3, <1>4, PTL

ServicesSafe ==
    /\ MessagesAreGapless /\ ToldIsStored
    /\ SessionsStayEnded /\ OldPasswordSessionsEnd /\ GuessesAreBounded
    /\ ChangesAreTrue /\ PublicListingsAreSound /\ UploadsAreWhole
    /\ ReportsAreFollowed /\ CondemnedStaysOff

\* Every invariant of the chat, of the accounts, of the listings and of their
\* reports holds while all of them run, and the room is the log it promises
\* to be although the listing comes and goes by its own rules.
THEOREM ServicesStaySafe == ServicesSpec => []ServicesSafe /\ ImplementsRoomLog
  <1>1. ServicesSpec => []MessagesAreGapless /\ []ToldIsStored
    BY ServicesKeepChat, NumberingIsGapless, AnswersAreTrue
  <1>2. ServicesSpec => /\ []SessionsStayEnded /\ []OldPasswordSessionsEnd
                        /\ []GuessesAreBounded
    BY ServicesKeepAccounts, EndedSessionsStayEnded, ResetEndsOldSessions,
       GuessesStayBounded
  <1>3. ServicesSpec => /\ []ChangesAreTrue /\ []PublicListingsAreSound
                        /\ []UploadsAreWhole
    BY ServicesKeepReports, ReportsKeepListing, HistoryIsTrue,
       OffersAreSound, UploadsStayWhole
  <1>4. ServicesSpec => []ReportsAreFollowed /\ []CondemnedStaysOff
    BY ServicesKeepReports, ReportsStayFollowed, CondemnedListingsStayOff
  <1>5. ServicesSpec => ImplementsRoomLog
    BY ServicesKeepChat, ChatImplementsRoomLog
  <1>6. ServicesSafe <=>
            /\ MessagesAreGapless /\ ToldIsStored
            /\ SessionsStayEnded /\ OldPasswordSessionsEnd /\ GuessesAreBounded
            /\ ChangesAreTrue /\ PublicListingsAreSound /\ UploadsAreWhole
            /\ ReportsAreFollowed /\ CondemnedStaysOff
    BY DEF ServicesSafe
  <1>7. QED
    BY <1>1, <1>2, <1>3, <1>4, <1>5, <1>6, PTL

=============================================================================
