------------------------- MODULE PropertyChatProofs -------------------------
(***************************************************************************)
(* Safety of PropertyChat for every set of requests, message ids and       *)
(* bodies and every length of the conversation, and its refinement of      *)
(* RoomLog.                                                                *)
(***************************************************************************)
EXTENDS PropertyChat, SequenceTheorems, TLAPS

Sending == {"send", "lookup", "check", "commit", "recover"}

\* What a request carries that has got to its phase, in a room of n messages.
Filled(w, n) ==
    /\ w.phase \in Sending => w.by \in Party /\ w.id \in MessageId
                              /\ w.body \in Text
    /\ w.phase = "seen" => w.by \in Party /\ w.through \in Nat \ {0}
    /\ w.phase = "mark" => w.by \in Party /\ w.through \in 1..n

RequestsAreFilled == \A r \in Request : Filled(chats[r], last)

\* The unique (chatRoomId, senderUserId, clientMessageId) holds.
IdsAreUnique ==
    \A m, n \in messages : m.by = n.by /\ m.id = n.id => m = n

ChatInv ==
    /\ ChatTypeOK
    /\ RequestsAreFilled
    /\ MessagesAreGapless
    /\ IdsAreUnique
    /\ told \subseteq messages

-----------------------------------------------------------------------------
(* Requests *)

LEMMA NoChatType == NoChat \in ChatRequest /\ \A n \in Nat : Filled(NoChat, n)
  BY DEF NoChat, ChatRequest, Filled, Sending

\* A step that moves one request to a well-formed record keeps them all so.
LEMMA OneChatMoves ==
    ASSUME ChatTypeOK, RequestsAreFilled,
           last' \in Nat, last <= last',
           NEW r \in Request, NEW w \in ChatRequest, Filled(w, last'),
           chats' = [chats EXCEPT ![r] = w]
    PROVE  chats' \in [Request -> ChatRequest] /\ RequestsAreFilled'
  <1>1. chats' \in [Request -> ChatRequest]
    BY DEF ChatTypeOK
  <1>2. ASSUME NEW q \in Request
        PROVE  Filled(chats'[q], last')
    <2>1. CASE q = r
      BY <2>1 DEF ChatTypeOK
    <2>2. CASE q # r
      <3>1. chats'[q] = chats[q] /\ chats[q] \in ChatRequest
        BY <2>2 DEF ChatTypeOK
      <3>2. Filled(chats[q], last) /\ last \in Nat
        BY ChatAssumption DEF RequestsAreFilled, ChatTypeOK
      <3>3. QED
        BY <3>1, <3>2 DEF Filled, ChatRequest
    <2>3. QED
      BY <2>1, <2>2
  <1>3. QED
    BY <1>1, <1>2 DEF RequestsAreFilled

LEMMA ReturnMoves ==
    ASSUME ChatTypeOK, RequestsAreFilled, last' \in Nat, last <= last',
           NEW r \in Request, ChatReturn(r)
    PROVE  chats' \in [Request -> ChatRequest] /\ RequestsAreFilled'
  BY NoChatType, OneChatMoves DEF ChatReturn

\* A phase that asks for no more than the phase before it.
LEMMA PhaseMoves ==
    ASSUME ChatTypeOK, RequestsAreFilled, last' \in Nat, last <= last',
           NEW r \in Request, NEW p,
           \/ p \in Sending /\ chats[r].phase \in Sending
           \/ p = "open"
           \/ p = "mark" /\ chats[r].phase = "seen" /\ chats[r].through <= last,
           chats' = Moved(chats, r, p)
    PROVE  chats' \in [Request -> ChatRequest] /\ RequestsAreFilled'
  <1> DEFINE w == [chats[r] EXCEPT !.phase = p]
  <1>1. chats[r] \in ChatRequest /\ Filled(chats[r], last) /\ last \in Nat
    BY ChatAssumption DEF ChatTypeOK, RequestsAreFilled
  <1>2. w \in ChatRequest
    BY <1>1 DEF ChatRequest, Sending
  <1>3. Filled(w, last')
    BY <1>1 DEF Filled, Sending, ChatRequest
  <1>4. chats' = [chats EXCEPT ![r] = w]
    BY DEF Moved
  <1>5. QED
    BY <1>2, <1>3, <1>4, OneChatMoves

-----------------------------------------------------------------------------
(* One step keeps the invariant *)

\* A step that only moves a request.
LEMMA QuietStep ==
    ASSUME ChatInv, chats' \in [Request -> ChatRequest], RequestsAreFilled',
           listed' \in BOOLEAN, room' \in BOOLEAN,
           UNCHANGED <<last, messages, lastRead, told>>
    PROVE  ChatInv'
  BY DEF ChatInv, ChatTypeOK, MessagesAreGapless, IdsAreUnique

\* The answer to a repeated message is the message that is stored.
LEMMA AnswerIsStored ==
    ASSUME ChatInv, NEW r \in Request, AnswerStored(r),
           UNCHANGED <<listed, room, last, messages, lastRead>>
    PROVE  ChatInv'
  <1>1. last' \in Nat /\ last <= last'
    BY ChatAssumption DEF ChatInv, ChatTypeOK
  <1>2. chats' \in [Request -> ChatRequest] /\ RequestsAreFilled'
    BY <1>1, ReturnMoves DEF AnswerStored, ChatInv
  <1>3. PICK m \in Stored(chats[r].by, chats[r].id) :
            told' = IF SameMessage(r, m)
                    THEN told \cup {[m EXCEPT !.body = chats[r].body]}
                    ELSE told
    BY DEF AnswerStored
  <1>4. m \in messages /\ m \in ChatMessage
    BY DEF Stored, ChatInv, ChatTypeOK
  <1>5. SameMessage(r, m) => [m EXCEPT !.body = chats[r].body] = m
    BY <1>4 DEF SameMessage, ChatMessage
  <1>6. told' \subseteq messages'
    BY <1>3, <1>4, <1>5 DEF ChatInv
  <1>7. QED
    BY <1>2, <1>6 DEF ChatInv, ChatTypeOK, MessagesAreGapless, IdsAreUnique

LEMMA CommitKeepsInv ==
    ASSUME ChatInv, NEW r \in Request, CommitMessage(r)
    PROVE  ChatInv'
  <1> DEFINE m == [by |-> chats[r].by, id |-> chats[r].id,
                   body |-> chats[r].body, sequence |-> last + 1]
  <1>1. chats[r] \in ChatRequest /\ Filled(chats[r], last)
        /\ chats[r].phase = "commit" /\ last \in Nat /\ MaxMessages \in Nat
        /\ last < MaxMessages /\ last + 1 \in Sequence
    BY ChatAssumption
    DEF ChatInv, ChatTypeOK, RequestsAreFilled, CommitMessage, At, Sequence
  <1>2. m \in ChatMessage
    BY <1>1 DEF Filled, Sending, ChatMessage
  <1>3. CASE MessageIdFree(r)
    <2>1. /\ last' = last + 1 /\ messages' = messages \cup {m}
          /\ lastRead' = [lastRead EXCEPT ![m.by] = last + 1]
          /\ told' = told \cup {m} /\ ChatReturn(r)
          /\ UNCHANGED <<listed, room>>
      BY <1>3 DEF CommitMessage, NextSequence
    <2>2. chats' \in [Request -> ChatRequest] /\ RequestsAreFilled'
      BY <1>1, <2>1, ReturnMoves DEF ChatInv
    <2>3. ChatTypeOK'
      <3>1. last' \in 0..MaxMessages /\ lastRead' \in [Party -> 0..MaxMessages]
        <4>1. m.by \in Party
          BY <1>2 DEF ChatMessage
        <4>2. last + 1 \in 0..MaxMessages
          BY <1>1
        <4>3. lastRead \in [Party -> 0..MaxMessages]
          BY DEF ChatInv, ChatTypeOK
        <4> HIDE DEF m
        <4>4. QED
          BY <2>1, <4>1, <4>2, <4>3
      <3>2. messages' \subseteq ChatMessage /\ told' \subseteq ChatMessage
        BY <1>2, <2>1 DEF ChatInv, ChatTypeOK
      <3>3. QED
        BY <2>1, <2>2, <3>1, <3>2 DEF ChatInv, ChatTypeOK
    <2>4. \A n \in messages : n.sequence \in 1..last
      BY DEF ChatInv, MessagesAreGapless
    <2>5. MessagesAreGapless'
      <3>1. {n.sequence : n \in messages'} = {n.sequence : n \in messages}
                                             \cup {last + 1}
        <4>1. m.sequence = last + 1
          OBVIOUS
        <4> HIDE DEF m
        <4>2. QED
          BY <2>1, <4>1, Z3
      <3>2. {n.sequence : n \in messages'} = 1..last'
        BY <1>1, <2>1, <3>1 DEF ChatInv, MessagesAreGapless
      <3>3. \A n, k \in messages' : n.sequence = k.sequence => n = k
        BY <1>1, <2>1, <2>4 DEF ChatInv, MessagesAreGapless
      <3>4. QED
        BY <3>2, <3>3 DEF MessagesAreGapless
    <2>6. IdsAreUnique'
      BY <1>3, <2>1 DEF ChatInv, IdsAreUnique, MessageIdFree, Stored
    <2>7. QED
      BY <2>1, <2>2, <2>3, <2>5, <2>6 DEF ChatInv
  <1>4. CASE ~MessageIdFree(r)
    <2>1. /\ chats' = Moved(chats, r, "recover")
          /\ UNCHANGED <<listed, room, last, messages, lastRead, told>>
      BY <1>4 DEF CommitMessage, CounterRolledBack
    <2>2. chats' \in [Request -> ChatRequest] /\ RequestsAreFilled'
      BY <1>1, <2>1, PhaseMoves DEF ChatInv, Sending
    <2>3. QED
      BY <2>1, <2>2, QuietStep DEF ChatInv, ChatTypeOK
  <1>5. QED
    BY <1>3, <1>4

LEMMA MarkKeepsInv ==
    ASSUME ChatInv, NEW r \in Request, CommitMark(r)
    PROVE  ChatInv'
  <1>1. chats[r] \in ChatRequest /\ Filled(chats[r], last)
        /\ chats[r].phase = "mark" /\ last \in 0..MaxMessages
        /\ MaxMessages \in Nat
    BY ChatAssumption
    DEF ChatInv, ChatTypeOK, RequestsAreFilled, CommitMark, At
  <1>2. chats[r].by \in Party /\ chats[r].through \in 0..MaxMessages
    BY <1>1 DEF Filled
  <1>3. lastRead' \in [Party -> 0..MaxMessages]
    BY <1>2 DEF CommitMark, ChatInv, ChatTypeOK
  <1>4. chats' \in [Request -> ChatRequest] /\ RequestsAreFilled'
    BY <1>1, ReturnMoves DEF CommitMark, ChatInv
  <1>5. QED
    BY <1>3, <1>4 DEF CommitMark, ChatInv, ChatTypeOK, MessagesAreGapless,
                      IdsAreUnique

LEMMA StartMoves ==
    ASSUME ChatInv, NEW r \in Request,
           \/ ReceiveCreateRoom(r)
           \/ \E p \in Party, i \in MessageId, b \in Text : ReceiveSend(r, p, i, b)
           \/ \E p \in Party, n \in 1..(MaxMessages + 1) : ReceiveMark(r, p, n)
    PROVE  ChatInv'
  <1>0. last' \in Nat /\ last <= last'
    <2>1. last' = last
      BY DEF ReceiveCreateRoom, ReceiveSend, ReceiveMark
    <2>2. last \in Nat
      BY ChatAssumption DEF ChatInv, ChatTypeOK
    <2>3. QED
      BY <2>1, <2>2
  <1>1. CASE ReceiveCreateRoom(r)
    <2> DEFINE w == [NoChat EXCEPT !.phase = "room", !.by = "MEMBER"]
    <2>1. w \in ChatRequest /\ Filled(w, last')
      BY DEF NoChat, ChatRequest, Filled, Sending, Party
    <2>2. chats' = [chats EXCEPT ![r] = w]
          /\ UNCHANGED <<listed, room, last, messages, lastRead, told>>
      BY <1>1 DEF ReceiveCreateRoom, ChatStart
    <2>3. QED
      BY <1>0, <2>1, <2>2, OneChatMoves, QuietStep DEF ChatInv, ChatTypeOK
  <1>2. ASSUME NEW p \in Party, NEW i \in MessageId, NEW b \in Text,
               ReceiveSend(r, p, i, b)
        PROVE  ChatInv'
    <2> DEFINE w == [NoChat EXCEPT !.phase = "send", !.by = p, !.id = i,
                                   !.body = b]
    <2>1. w \in ChatRequest /\ Filled(w, last')
      BY DEF NoChat, ChatRequest, Filled, Sending
    <2>2. chats' = [chats EXCEPT ![r] = w]
          /\ UNCHANGED <<listed, room, last, messages, lastRead, told>>
      BY <1>2 DEF ReceiveSend, ChatStart
    <2>3. QED
      BY <1>0, <2>1, <2>2, OneChatMoves, QuietStep DEF ChatInv, ChatTypeOK
  <1>3. ASSUME NEW p \in Party, NEW n \in 1..(MaxMessages + 1),
               ReceiveMark(r, p, n)
        PROVE  ChatInv'
    <2> DEFINE w == [NoChat EXCEPT !.phase = "seen", !.by = p, !.through = n]
    <2>1. w \in ChatRequest /\ Filled(w, last')
      <3>1. n \in Nat \ {0}
        BY ChatAssumption
      <3>2. QED
        BY <3>1 DEF NoChat, ChatRequest, Filled, Sending
    <2>2. chats' = [chats EXCEPT ![r] = w]
          /\ UNCHANGED <<listed, room, last, messages, lastRead, told>>
      BY <1>3 DEF ReceiveMark, ChatStart
    <2>3. QED
      BY <1>0, <2>1, <2>2, OneChatMoves, QuietStep DEF ChatInv, ChatTypeOK
  <1>4. QED
    BY <1>1, <1>2, <1>3

LEMMA ReadMoves ==
    ASSUME ChatInv, NEW r \in Request,
           \/ ReadListing(r) \/ CommitRoom(r) \/ ReadRoomForSend(r)
           \/ ReadRoomForMark(r) \/ LoseChat(r)
    PROVE  ChatInv'
  <1>1. last' \in Nat /\ last <= last' /\ UNCHANGED <<last, messages, lastRead, told>>
        /\ listed' \in BOOLEAN /\ room' \in BOOLEAN
    <2>1. UNCHANGED <<last, messages, lastRead, told, listed>>
          /\ (room' = room \/ room' = TRUE)
      BY DEF ReadListing, CommitRoom, ReadRoomForSend, ReadRoomForMark, LoseChat
    <2>2. last \in 0..MaxMessages /\ listed \in BOOLEAN /\ room \in BOOLEAN
      BY DEF ChatInv, ChatTypeOK
    <2>3. last \in Nat
      BY <2>2, ChatAssumption
    <2>4. listed' \in BOOLEAN /\ room' \in BOOLEAN
      BY <2>1, <2>2
    <2>5. QED
      BY <2>1, <2>3, <2>4
  <1>2. CASE ChatReturn(r)
    BY <1>1, <1>2, ReturnMoves, QuietStep DEF ChatInv
  <1>3. CASE ReadListing(r) /\ chats' = Moved(chats, r, "open")
    BY <1>1, <1>3, PhaseMoves, QuietStep DEF ChatInv
  <1>4. CASE ReadRoomForSend(r) /\ chats' = Moved(chats, r, "lookup")
    BY <1>1, <1>4, PhaseMoves, QuietStep DEF ChatInv, ReadRoomForSend, At, Sending
  <1>5. CASE ReadRoomForMark(r) /\ Markable(r) /\ chats' = Moved(chats, r, "mark")
    BY <1>1, <1>5, PhaseMoves, QuietStep DEF ChatInv, ReadRoomForMark, At, Markable
  <1>6. QED
    BY <1>2, <1>3, <1>4, <1>5
    DEF ReadListing, CommitRoom, ReadRoomForSend, ReadRoomForMark, LoseChat,
        ChatProceed

LEMMA LookUpKeepsInv ==
    ASSUME ChatInv, NEW r \in Request,
           LookUp(r) \/ CheckInTransaction(r) \/ Recover(r)
    PROVE  ChatInv'
  <1>1. last' \in Nat /\ last <= last' /\ listed' \in BOOLEAN /\ room' \in BOOLEAN
        /\ UNCHANGED <<listed, room, last, messages, lastRead>>
        /\ chats[r].phase \in Sending
    BY ChatAssumption
    DEF ChatInv, ChatTypeOK, LookUp, CheckInTransaction, Recover, At, Sending
  <1>2. CASE AnswerStored(r)
    BY <1>1, <1>2, AnswerIsStored
  <1>3. CASE ChatReturn(r) /\ UNCHANGED told
    BY <1>1, <1>3, ReturnMoves, QuietStep DEF ChatInv
  <1>4. ASSUME NEW p \in Sending, chats' = Moved(chats, r, p), UNCHANGED told
        PROVE  ChatInv'
    BY <1>1, <1>4, PhaseMoves, QuietStep DEF ChatInv
  <1>5. QED
    BY <1>2, <1>3, <1>4 DEF LookUp, CheckInTransaction, Recover, Sending

LEMMA InitInv == ChatInit => ChatInv
  <1> SUFFICES ASSUME ChatInit PROVE ChatInv
    OBVIOUS
  <1>1. ChatTypeOK
    <2>1. 0 \in 0..MaxMessages
      BY ChatAssumption
    <2>2. chats \in [Request -> ChatRequest]
      BY NoChatType DEF ChatInit
    <2>3. QED
      BY <2>1, <2>2 DEF ChatInit, ChatTypeOK
  <1>2. RequestsAreFilled
    BY NoChatType DEF ChatInit, RequestsAreFilled
  <1>3. MessagesAreGapless
    BY DEF ChatInit, MessagesAreGapless
  <1>4. QED
    BY <1>1, <1>2, <1>3 DEF ChatInit, ChatInv, IdsAreUnique

LEMMA NextInv == ChatInv /\ [ChatNext]_chatVars => ChatInv'
  <1> SUFFICES ASSUME ChatInv, [ChatNext]_chatVars PROVE ChatInv'
    OBVIOUS
  <1>1. CASE ListingChanges
    BY <1>1, QuietStep DEF ListingChanges, ChatInv, ChatTypeOK, RequestsAreFilled
  <1>2. ASSUME NEW r \in Request, ChatStep(r)
        PROVE  ChatInv'
    BY <1>2, StartMoves, ReadMoves, LookUpKeepsInv, CommitKeepsInv,
       MarkKeepsInv DEF ChatStep
  <1>3. CASE UNCHANGED chatVars
    BY <1>3 DEF chatVars, ChatInv, ChatTypeOK, RequestsAreFilled, Filled,
                MessagesAreGapless, IdsAreUnique
  <1>4. QED
    BY <1>1, <1>2, <1>3 DEF ChatNext

LEMMA Invariance == ChatSpec => []ChatInv
  BY InitInv, NextInv, PTL DEF ChatSpec

\* The room, its messages and the requests in flight stay well typed; a read
\* mark, in particular, never passes the bound of the room.
THEOREM ChatTypeCorrect == ChatSpec => []ChatTypeOK
  BY Invariance, PTL DEF ChatInv

\* However many sends overlap, fail and are repeated, the room's messages are
\* numbered from 1 without a gap or a tie.
THEOREM NumberingIsGapless == ChatSpec => []MessagesAreGapless
  BY Invariance, PTL DEF ChatInv

\* What any sender was told is stored is in the room as told, and no message id
\* is answered with two messages.
THEOREM AnswersAreTrue == ChatSpec => []ToldIsStored
  <1>1. ChatInv => ToldIsStored
    BY DEF ChatInv, ToldIsStored, IdsAreUnique
  <1>2. QED
    BY <1>1, Invariance, PTL

-----------------------------------------------------------------------------
(* The room implements the log *)

\* The entry a stored message stands for.
EntryOf(m) == [by |-> m.by, id |-> m.id, body |-> m.body]

LEMMA NumberedIsTheMessage ==
    ASSUME ChatInv, NEW m \in messages
    PROVE  Numbered(m.sequence) = m /\ m.sequence \in 1..last
  <1>1. m.sequence \in 1..last
    BY DEF ChatInv, MessagesAreGapless
  <1>2. Numbered(m.sequence) \in messages
        /\ Numbered(m.sequence).sequence = m.sequence
    BY DEF Numbered
  <1>3. QED
    BY <1>1, <1>2 DEF ChatInv, MessagesAreGapless

LEMMA NumberedIsStored ==
    ASSUME ChatInv, NEW n \in 1..last
    PROVE  Numbered(n) \in messages /\ Numbered(n).sequence = n
  <1>1. PICK m \in messages : m.sequence = n
    BY DEF ChatInv, MessagesAreGapless
  <1>2. QED
    BY <1>1, NumberedIsTheMessage

LEMMA EntriesAreALog ==
    ASSUME ChatInv
    PROVE  /\ Entries \in Seq(Room!Entry)
           /\ Len(Entries) = last
           /\ DOMAIN Entries = 1..last
           /\ \A n \in 1..last : Entries[n] = EntryOf(Numbered(n))
  <1>1. last \in Nat
    BY ChatAssumption DEF ChatInv, ChatTypeOK
  <1>2. \A n \in 1..last : EntryOf(Numbered(n)) \in Room!Entry
    BY NumberedIsStored DEF ChatInv, ChatTypeOK, ChatMessage, EntryOf, Room!Entry
  <1>3. Entries = [n \in 1..last |-> EntryOf(Numbered(n))]
    BY DEF Entries, EntryOf
  <1> HIDE DEF Entries
  <1>4. Entries \in [1..last -> Room!Entry]
    BY <1>2, <1>3
  <1>5. Entries \in Seq(Room!Entry)
    BY <1>1, <1>4, SeqDef
  <1>6. QED
    BY <1>1, <1>3, <1>5, LenProperties

LEMMA EntriesKept ==
    ASSUME UNCHANGED <<last, messages>>
    PROVE  Entries' = Entries
  BY DEF Entries, Numbered

LEMMA InitImplements == ChatInit => Room!Init
  <1> SUFFICES ASSUME ChatInit PROVE Room!Init
    OBVIOUS
  <1>1. Entries = << >>
    <2>1. ChatInv /\ last = 0
      BY InitInv DEF ChatInit
    <2>2. QED
      BY <2>1, EntriesAreALog, EmptySeq
  <1>2. QED
    BY <1>1 DEF ChatInit, Room!Init

\* The commit of a message is a Write; the refusal of one changes nothing.
LEMMA CommitWrites ==
    ASSUME ChatInv, ChatInv', NEW r \in Request, CommitMessage(r)
    PROVE  (\E m \in Room!Entry : Room!Write(m))
           \/ UNCHANGED <<Entries, lastRead>>
  <1>1. CASE ~MessageIdFree(r)
    BY <1>1, EntriesKept DEF CommitMessage, CounterRolledBack
  <1>2. CASE MessageIdFree(r)
    <2> DEFINE m == [by |-> chats[r].by, id |-> chats[r].id,
                     body |-> chats[r].body, sequence |-> last + 1]
               e == EntryOf(m)
    <2>1. last' = last + 1 /\ messages' = messages \cup {m}
          /\ lastRead' = [lastRead EXCEPT ![chats[r].by] = last + 1]
      BY <1>2 DEF CommitMessage, NextSequence
    <2>2. last \in Nat
      BY ChatAssumption DEF ChatInv, ChatTypeOK
    <2>3. m \in messages' /\ m.sequence = last + 1
      BY <2>1
    <2>4. e \in Room!Entry
      <3>1. m \in ChatMessage
        BY <2>3 DEF ChatInv, ChatTypeOK
      <3>2. QED
        BY <3>1 DEF EntryOf, ChatMessage, Room!Entry
    <2>5. e.by = chats[r].by /\ e.id = chats[r].id
      BY DEF EntryOf
    <2>6. \A n \in DOMAIN Entries : Entries[n].by # e.by \/ Entries[n].id # e.id
      <3>1. ASSUME NEW n \in 1..last
            PROVE  Entries[n].by # e.by \/ Entries[n].id # e.id
        <4>1. Entries[n] = EntryOf(Numbered(n)) /\ Numbered(n) \in messages
          BY EntriesAreALog, NumberedIsStored
        <4>2. Entries[n].by = Numbered(n).by /\ Entries[n].id = Numbered(n).id
          BY <4>1 DEF EntryOf
        <4>3. QED
          BY <1>2, <2>5, <4>1, <4>2 DEF MessageIdFree, Stored
      <3>2. QED
        BY <3>1, EntriesAreALog
    <2>7. \A n \in 1..last' : Numbered(n)' = IF n = last + 1 THEN m ELSE Numbered(n)
      <3>1. ASSUME NEW n, n = last + 1
            PROVE  Numbered(n)' = m
        <4>1. \A k \in messages' : k.sequence = n => k = m
          BY <2>3, <3>1 DEF ChatInv, MessagesAreGapless
        <4> HIDE DEF m
        <4>2. (CHOOSE k \in messages' : k.sequence = n) = m
          BY <2>3, <3>1, <4>1
        <4>3. QED
          BY <4>2 DEF Numbered
      <3>2. ASSUME NEW n \in 1..last
            PROVE  Numbered(n)' = Numbered(n)
        <4>1. Numbered(n) \in messages /\ Numbered(n).sequence = n
          BY NumberedIsStored
        <4>2. Numbered(n) \in messages'
          BY <2>1, <4>1
        <4>3. \A k \in messages' : k.sequence = n => k = Numbered(n)
          BY <4>1, <4>2 DEF ChatInv, MessagesAreGapless
        <4>4. (CHOOSE k \in messages' : k.sequence = n) = Numbered(n)
          BY <4>1, <4>2, <4>3
        <4>5. QED
          BY <4>4 DEF Numbered
      <3>3. QED
        BY <2>1, <2>2, <3>1, <3>2
    <2>8. Entries' = Append(Entries, e)
      <3>1. /\ Entries' \in Seq(Room!Entry) /\ Len(Entries') = last + 1
            /\ \A n \in 1..(last + 1) : Entries'[n] = EntryOf(Numbered(n)')
        <4>1. /\ Entries' = [n \in 1..last' |-> EntryOf(Numbered(n)')]
              /\ \A n \in 1..last' : Numbered(n)' \in messages'
          <5>1. Entries' = [n \in 1..last' |-> EntryOf(Numbered(n)')]
            BY DEF Entries, EntryOf
          <5>2. \A n \in 1..last' : Numbered(n)' \in messages'
            BY <2>1, <2>2, <2>3, <2>7, NumberedIsStored
          <5>3. QED
            BY <5>1, <5>2
        <4>2. \A n \in 1..last' : EntryOf(Numbered(n)') \in Room!Entry
          BY <4>1 DEF ChatInv, ChatTypeOK, ChatMessage, EntryOf, Room!Entry
        <4>3. Entries' \in [1..(last + 1) -> Room!Entry]
          BY <2>1, <4>1, <4>2
        <4>4. Entries' \in Seq(Room!Entry)
          BY <2>2, <4>3, SeqDef
        <4>5. QED
          BY <2>1, <2>2, <4>1, <4>3, <4>4, LenProperties
      <3>2. /\ Append(Entries, e) \in Seq(Room!Entry)
            /\ Len(Append(Entries, e)) = last + 1
            /\ \A n \in 1..(last + 1) :
                  Append(Entries, e)[n] = IF n = last + 1 THEN e ELSE Entries[n]
        <4>1. Entries \in Seq(Room!Entry) /\ Len(Entries) = last
          BY EntriesAreALog
        <4> HIDE DEF e
        <4>2. QED
          BY <2>2, <2>4, <4>1
      <3>3. \A n \in 1..(last + 1) : Entries'[n] = Append(Entries, e)[n]
        <4>1. ASSUME NEW n \in 1..(last + 1)
              PROVE  Entries'[n] = Append(Entries, e)[n]
          <5>1. CASE n = last + 1
            BY <2>1, <2>7, <3>1, <3>2, <5>1
          <5>2. CASE n # last + 1
            <6>1. n \in 1..last
              BY <2>2, <5>2
            <6>2. Entries[n] = EntryOf(Numbered(n))
              BY <6>1, EntriesAreALog
            <6>3. QED
              BY <2>1, <2>7, <3>1, <3>2, <5>2, <6>2
          <5>3. QED
            BY <5>1, <5>2
        <4>2. QED
          BY <4>1
      <3>4. QED
        BY <3>1, <3>2, <3>3, SeqEqual
    <2>9. lastRead' = [lastRead EXCEPT ![e.by] = Len(Entries) + 1]
      BY <2>1, <2>5, EntriesAreALog
    <2>10. Room!Write(e)
      BY <2>6, <2>8, <2>9 DEF Room!Write
    <2>11. QED
      BY <2>4, <2>10
  <1>3. QED
    BY <1>1, <1>2

\* A mark that is set is a Read: it was within the room when it was checked.
LEMMA MarkReads ==
    ASSUME ChatInv, NEW r \in Request, CommitMark(r)
    PROVE  (\E p \in Party, n \in 1..Len(Entries) : Room!Read(p, n))
           \/ UNCHANGED <<Entries, lastRead>>
  <1>1. Entries' = Entries
    BY EntriesKept DEF CommitMark
  <1>2. chats[r].by \in Party /\ chats[r].through \in 1..Len(Entries)
        /\ last \in Nat /\ Len(Entries) = last
    BY EntriesAreALog, ChatAssumption
    DEF ChatInv, ChatTypeOK, RequestsAreFilled, Filled, CommitMark, At
  <1>3. CASE MarkAhead(r)
    <2>1. Room!Read(chats[r].by, chats[r].through)
      BY <1>1, <1>2, <1>3 DEF CommitMark, MarkAhead, Room!Read
    <2>2. QED
      BY <1>2, <2>1
  <1>4. CASE ~MarkAhead(r)
    BY <1>1, <1>4 DEF CommitMark
  <1>5. QED
    BY <1>3, <1>4

LEMMA NextImplements ==
    ChatInv /\ ChatInv' /\ [ChatNext]_chatVars
        => [Room!Next]_<<Entries, lastRead>>
  <1> SUFFICES ASSUME ChatInv, ChatInv', [ChatNext]_chatVars
               PROVE  [Room!Next]_<<Entries, lastRead>>
    OBVIOUS
  <1>1. CASE UNCHANGED <<last, messages, lastRead>>
    BY <1>1, EntriesKept
  <1>2. ASSUME NEW r \in Request, CommitMessage(r)
        PROVE  [Room!Next]_<<Entries, lastRead>>
    BY <1>2, CommitWrites DEF Room!Next
  <1>3. ASSUME NEW r \in Request, CommitMark(r)
        PROVE  [Room!Next]_<<Entries, lastRead>>
    BY <1>3, MarkReads DEF Room!Next
  <1>4. ASSUME NEW r \in Request, ChatStep(r),
               ~CommitMessage(r), ~CommitMark(r)
        PROVE  UNCHANGED <<last, messages, lastRead>>
    BY <1>4
    DEF ChatStep, ReceiveCreateRoom, ReadListing, CommitRoom, ReceiveSend,
        ReadRoomForSend, LookUp, CheckInTransaction, Recover, ReceiveMark,
        ReadRoomForMark, LoseChat
  <1>5. QED
    BY <1>1, <1>2, <1>3, <1>4 DEF ChatNext, chatVars, ListingChanges

\* For every set of requests, message ids and bodies the chat room implements
\* RoomLog: an append-only log in which no message id occurs twice, with read
\* marks that only advance and stay within it.
THEOREM ChatImplementsRoomLog == ChatSpec => ImplementsRoomLog
  BY InitImplements, NextImplements, Invariance, PTL
  DEF ChatSpec, ImplementsRoomLog, Room!Spec

=============================================================================
