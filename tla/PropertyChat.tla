---------------------------- MODULE PropertyChat ----------------------------
(***************************************************************************)
(* The chat room of one member about one listing: property-chat.service.ts *)
(* under src/apps/api/src/chat/.                                           *)
(*                                                                         *)
(* A client repeats a message it got no answer for under the same          *)
(* clientMessageId.  sendMessage() looks for that id before its            *)
(* transaction and again inside it, and falls back on the unique index; it *)
(* numbers a message by incrementing the room's counter, whose row lock is *)
(* held to the end of the transaction.  markRead() compares and sets.      *)
(***************************************************************************)
EXTENDS Requests, Integers, FiniteSets, Sequences

CONSTANTS
    MessageId,      \* clientMessageIds
    Text,           \* bodies
    MaxMessages     \* bound: messages of the room

ASSUME ChatAssumption == MaxMessages \in Nat

VARIABLES
    listed,      \* the listing is ACTIVE
    room,        \* the room exists
    last,        \* lastMessageSequence
    messages,    \* chat_messages of the room
    lastRead,    \* member- and registrantLastReadSequence
    told,        \* history: messages a client was told are stored
    chats        \* requests in flight

chatVars == <<listed, room, last, messages, lastRead, told, chats>>

Party == {"MEMBER", "REGISTRANT"}

Sequence == 1..MaxMessages

ChatMessage == [by : Party, id : MessageId, body : Text, sequence : Sequence]

NoChat == [phase |-> "idle", by |-> None, id |-> None, body |-> None,
           through |-> 0]

ChatInit ==
    /\ listed \in BOOLEAN
    /\ room = FALSE
    /\ last = 0
    /\ messages = {}
    /\ lastRead = [p \in Party |-> 0]
    /\ told = {}
    /\ chats = [r \in Request |-> NoChat]

-----------------------------------------------------------------------------

ChatStart(r, request) ==
    /\ chats[r] = NoChat
    /\ chats' = [chats EXCEPT ![r] = request]

ChatReturn(r) == chats' = [chats EXCEPT ![r] = NoChat]

\* Go on if the condition holds, otherwise refuse the request.
ChatProceed(r, condition, phase) ==
    IF condition THEN chats' = Moved(chats, r, phase) ELSE ChatReturn(r)

\* The property leaves the public listings or comes back to them.
ListingChanges ==
    /\ listed' = ~listed
    /\ UNCHANGED <<room, last, messages, lastRead, told, chats>>

-----------------------------------------------------------------------------
(* createRoom() *)

ReceiveCreateRoom(r) ==
    /\ ChatStart(r, [NoChat EXCEPT !.phase = "room", !.by = "MEMBER"])
    /\ UNCHANGED <<listed, room, last, messages, lastRead, told>>

ReadListing(r) ==
    /\ At(chats, r, "room")
    /\ ChatProceed(r, listed, "open")
    /\ UNCHANGED <<listed, room, last, messages, lastRead, told>>

\* The unique (propertyId, memberUserId) turns a second room into the first.
CommitRoom(r) ==
    /\ At(chats, r, "open")
    /\ room' = TRUE
    /\ ChatReturn(r)
    /\ UNCHANGED <<listed, last, messages, lastRead, told>>

-----------------------------------------------------------------------------
(* sendMessage() *)

Stored(by, id) == {m \in messages : m.by = by /\ m.id = id}

ReceiveSend(r, p, i, b) ==
    /\ room
    /\ ChatStart(r, [NoChat EXCEPT !.phase = "send", !.by = p, !.id = i,
                                   !.body = b])
    /\ UNCHANGED <<listed, room, last, messages, lastRead, told>>

ReadRoomForSend(r) ==
    /\ At(chats, r, "send")
    /\ ChatProceed(r, listed, "lookup")
    /\ UNCHANGED <<listed, room, last, messages, lastRead, told>>

SameMessageAny(r, m) == TRUE

\* assertSameMessage()
SameMessage(r, m) == m.body = chats[r].body

\* The answer repeats what was stored under the request's message id, unless
\* that has another body.
AnswerStored(r) ==
    /\ \E m \in Stored(chats[r].by, chats[r].id) :
          told' = IF SameMessage(r, m)
                  THEN told \cup {[m EXCEPT !.body = chats[r].body]} ELSE told
    /\ ChatReturn(r)

LookUp(r) ==
    /\ At(chats, r, "lookup")
    /\ IF Stored(chats[r].by, chats[r].id) = {}
       THEN chats' = Moved(chats, r, "check") /\ UNCHANGED told
       ELSE AnswerStored(r)
    /\ UNCHANGED <<listed, room, last, messages, lastRead>>

\* The transaction's own reads of the listing and of the message id.
CheckInTransaction(r) ==
    /\ At(chats, r, "check")
    /\ IF ~listed
       THEN ChatReturn(r) /\ UNCHANGED told
       ELSE IF Stored(chats[r].by, chats[r].id) = {}
            THEN chats' = Moved(chats, r, "commit") /\ UNCHANGED told
            ELSE AnswerStored(r)
    /\ UNCHANGED <<listed, room, last, messages, lastRead>>

\* The unique (chatRoomId, senderUserId, clientMessageId).
MessageIdFree(r) == Stored(chats[r].by, chats[r].id) = {}

\* lastMessageSequence: { increment: 1 }
NextSequence == last + 1

CounterKept == NextSequence

\* A refused insert rolls the increment back.
CounterRolledBack == last

\* From the increment, which locks the room's row, to the commit.
CommitMessage(r) ==
    /\ At(chats, r, "commit")
    /\ last < MaxMessages
    /\ LET m == [by |-> chats[r].by, id |-> chats[r].id,
                 body |-> chats[r].body, sequence |-> NextSequence]
       IN  IF MessageIdFree(r)
           THEN /\ last' = NextSequence
                /\ messages' = messages \cup {m}
                /\ lastRead' = [lastRead EXCEPT ![m.by] = NextSequence]
                /\ told' = told \cup {m}
                /\ ChatReturn(r)
           ELSE /\ last' = CounterRolledBack
                /\ chats' = Moved(chats, r, "recover")
                /\ UNCHANGED <<messages, lastRead, told>>
    /\ UNCHANGED <<listed, room>>

\* The unique index refused the message: answer with the one that won.
Recover(r) ==
    /\ At(chats, r, "recover")
    /\ IF Stored(chats[r].by, chats[r].id) = {}
       THEN ChatReturn(r) /\ UNCHANGED told
       ELSE AnswerStored(r)
    /\ UNCHANGED <<listed, room, last, messages, lastRead>>

-----------------------------------------------------------------------------
(* markRead() *)

ReceiveMark(r, p, n) ==
    /\ room
    /\ ChatStart(r, [NoChat EXCEPT !.phase = "seen", !.by = p, !.through = n])
    /\ UNCHANGED <<listed, room, last, messages, lastRead, told>>

MarkableAny(r) == TRUE

\* The mark is within the room and ahead of the party's own.
Markable(r) ==
    chats[r].through <= last /\ lastRead[chats[r].by] < chats[r].through

ReadRoomForMark(r) ==
    /\ At(chats, r, "seen")
    /\ ChatProceed(r, Markable(r), "mark")
    /\ UNCHANGED <<listed, room, last, messages, lastRead, told>>

MarkAheadUnchecked(r) == TRUE

\* updateMany where lastReadSequence < throughSequence
MarkAhead(r) == lastRead[chats[r].by] < chats[r].through

CommitMark(r) ==
    /\ At(chats, r, "mark")
    /\ lastRead' = IF MarkAhead(r)
                   THEN [lastRead EXCEPT ![chats[r].by] = chats[r].through]
                   ELSE lastRead
    /\ ChatReturn(r)
    /\ UNCHANGED <<listed, room, last, messages, told>>

\* The process dies or the connection drops: an open transaction rolls back,
\* a committed one stands, and the client knows nothing of either.
LoseChat(r) ==
    /\ chats[r] # NoChat
    /\ ChatReturn(r)
    /\ UNCHANGED <<listed, room, last, messages, lastRead, told>>

-----------------------------------------------------------------------------

ChatStep(r) ==
    \/ ReceiveCreateRoom(r) \/ ReadListing(r) \/ CommitRoom(r)
    \/ \E p \in Party, i \in MessageId, b \in Text : ReceiveSend(r, p, i, b)
    \/ ReadRoomForSend(r) \/ LookUp(r) \/ CheckInTransaction(r)
    \/ CommitMessage(r) \/ Recover(r)
    \/ \E p \in Party, n \in 1..(MaxMessages + 1) : ReceiveMark(r, p, n)
    \/ ReadRoomForMark(r) \/ CommitMark(r)
    \/ LoseChat(r)

ChatNext == ListingChanges \/ \E r \in Request : ChatStep(r)

ChatSpec == ChatInit /\ [][ChatNext]_chatVars

-----------------------------------------------------------------------------
(* Properties *)

ChatRequest ==
    [phase : {"idle", "room", "open", "send", "lookup", "check", "commit",
              "recover", "seen", "mark"},
     by : Party \cup {None}, id : MessageId \cup {None},
     body : Text \cup {None}, through : Nat]

\* Every variable has its type.
ChatTypeOK ==
    /\ listed \in BOOLEAN /\ room \in BOOLEAN
    /\ last \in 0..MaxMessages
    /\ messages \subseteq ChatMessage
    /\ lastRead \in [Party -> 0..MaxMessages]
    /\ told \subseteq ChatMessage
    /\ chats \in [Request -> ChatRequest]

\* However sends overlap, fail and are repeated, the room's messages are
\* numbered 1, 2, ... last without a gap or a tie: paging (listMessages) and
\* unread counts (last less the read mark) rest on it.
MessagesAreGapless ==
    /\ {m.sequence : m \in messages} = 1..last
    /\ \A m, n \in messages : m.sequence = n.sequence => m = n

\* What a sender is told has been stored is in the room, under that number and
\* with the body this very request carried, and one message id is never
\* answered with two messages: however often a client repeats a request.
ToldIsStored ==
    /\ told \subseteq messages
    /\ \A m, n \in told : m.by = n.by /\ m.id = n.id => m = n

-----------------------------------------------------------------------------
(* The room as an append-only log *)

Numbered(n) == CHOOSE m \in messages : m.sequence = n

Entries ==
    [n \in 1..last |-> [by |-> Numbered(n).by, id |-> Numbered(n).id,
                        body |-> Numbered(n).body]]

Room == INSTANCE RoomLog WITH log <- Entries, mark <- lastRead

\* To its two parties the chat room is an append-only log with read marks that
\* only advance (RoomLog), although sendMessage() and markRead() act on reads
\* of the room that are stale by the time they write.
ImplementsRoomLog == Room!Spec

=============================================================================
