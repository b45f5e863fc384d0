---------------------------- MODULE RoomPageProofs ----------------------------
(***************************************************************************)
(* Theorems about RoomPage, for any number of states, messages, losses,    *)
(* reloads and answers on their way.                                       *)
(***************************************************************************)
EXTENDS RoomPage, SequenceFacts, FiniteSetTheorems

-----------------------------------------------------------------------------
(***************************************************************************)
(* The inductive invariant.                                                *)
(***************************************************************************)

IsState(e) == e.kind = "room_state"

\* The server's newest state v is on the wire w, behind any older one.
Coming(w, v) ==
  \E i \in 1..Len(w) : /\ IsState(w[i]) /\ w[i].value = v
                       /\ \A j \in (i + 1)..Len(w) : ~IsState(w[j])

NoStateComes(w) == \A i \in 1..Len(w) : ~IsState(w[i])

\* An open stream brings the newest state, or it has brought it.
StreamIsHonest ==
  stream = "open" /\ ~deleted => Coming(wire, version) \/ (NoStateComes(wire) /\ UpToDate)

\* Nothing the page has or is about to get is newer than the server.
NothingIsAhead ==
  /\ seen <= version
  /\ \A i \in 1..Len(wire) : IsState(wire[i]) => wire[i].value <= version
  /\ \A a \in answers :
       a.to \in {"room", "command"} /\ a.value # NoRoom => a.value <= version

SendAnswer(id) == [to |-> "send", value |-> id]

\* The answer to a post is applied once: until then the message is listed once.
SentOnce ==
  /\ own \subseteq 1..posted
  /\ \A a \in answers : a.to = "send" => a.value \in own
  /\ \A id \in 1..MaxPosted :
       /\ Times(id) <= 2
       /\ id \notin own \/ SendAnswer(id) \in answers => Times(id) <= 1

PageInv == PageTypeOK /\ StreamIsHonest /\ NothingIsAhead /\ SentOnce

-----------------------------------------------------------------------------
(***************************************************************************)
(* How often a message is listed.                                          *)
(***************************************************************************)

Places(q, id) == {i \in DOMAIN q : q[i] = id}

LEMMA PlacesAreFinite ==
  ASSUME NEW S, NEW q \in Seq(S), NEW id
  PROVE  IsFiniteSet(Places(q, id)) /\ Cardinality(Places(q, id)) \in Nat
<1>1. Places(q, id) \subseteq 1..Len(q) /\ Len(q) \in Nat
  BY ElementFacts DEF Places
<1>2. IsFiniteSet(1..Len(q))
  BY <1>1, FS_Interval
<1> QED
  BY <1>1, <1>2, FS_Subset, FS_CardinalityType

\* Appending a message adds one place, to its own.
LEMMA PlacesAppend ==
  ASSUME NEW S, NEW q \in Seq(S), NEW x \in S, NEW id
  PROVE  Cardinality(Places(Append(q, x), id)) =
           Cardinality(Places(q, id)) + (IF x = id THEN 1 ELSE 0)
<1>1. /\ Append(q, x) \in Seq(S) /\ Len(Append(q, x)) = Len(q) + 1
      /\ \A i \in 1..Len(q) : Append(q, x)[i] = q[i]
      /\ Append(q, x)[Len(q) + 1] = x
  BY AppendFacts
<1>2. /\ Len(q) \in Nat /\ DOMAIN q = 1..Len(q)
      /\ DOMAIN Append(q, x) = 1..(Len(q) + 1)
  BY <1>1, ElementFacts
<1>3. CASE x = id
  <2>1. Places(Append(q, x), id) = Places(q, id) \cup {Len(q) + 1}
    BY <1>1, <1>2, <1>3 DEF Places
  <2>2. Len(q) + 1 \notin Places(q, id)
    BY <1>2 DEF Places
  <2> QED
    BY <1>3, <2>1, <2>2, PlacesAreFinite, FS_AddElement
<1>4. CASE x # id
  <2>1. Places(Append(q, x), id) = Places(q, id)
    BY <1>1, <1>2, <1>4 DEF Places
  <2>2. Cardinality(Places(q, id)) \in Nat
    BY PlacesAreFinite
  <2> QED
    BY <1>4, <2>1, <2>2
<1> QED
  BY <1>3, <1>4

\* A message that is not listed has no place.
LEMMA PlacesUnlisted ==
  ASSUME NEW q, NEW id, id \notin Range(q)
  PROVE  Cardinality(Places(q, id)) = 0
<1>1. Places(q, id) = {}
  BY DEF Places, Range
<1> QED
  BY <1>1, FS_EmptySet

\* The list of the server has every message once.
LEMMA PlacesListed ==
  ASSUME NEW n \in Nat, NEW id
  PROVE  Cardinality(Places([i \in 1..n |-> i], id)) <= 1
<1>1. Places([i \in 1..n |-> i], id) \subseteq {id}
  BY DEF Places
<1>2. IsFiniteSet({id}) /\ Cardinality({id}) = 1
  BY FS_Singleton
<1> QED
  BY <1>1, <1>2, FS_Subset

LEMMA TimesIs ==
  \A id : Times(id) = Cardinality(Places(chat, id))
BY DEF Times, Places

-----------------------------------------------------------------------------
(***************************************************************************)
(* What is on the wire.                                                    *)
(***************************************************************************)

LEMMA EventFacts ==
  /\ \A v \in 0..MaxVersion : [kind |-> "room_state", value |-> v] \in Event
  /\ \A m \in 1..MaxPosted : [kind |-> "room_message", value |-> m] \in Event
  /\ \A e \in Event : /\ IsState(e) => e.value \in 0..MaxVersion
                      /\ ~IsState(e) => e.kind = "room_message" /\ e.value \in 1..MaxPosted
BY DEF Event, IsState

\* A state behind everything is the last one.
LEMMA StateAppended ==
  ASSUME NEW w \in Seq(Event), NEW v \in 0..MaxVersion
  PROVE  Coming(Append(w, [kind |-> "room_state", value |-> v]), v)
<1> DEFINE e == [kind |-> "room_state", value |-> v]
<1>1. e \in Event /\ IsState(e) /\ e.value = v
  BY EventFacts DEF IsState
<1> HIDE DEF e
<1>2. /\ Len(Append(w, e)) = Len(w) + 1 /\ Append(w, e)[Len(w) + 1] = e
      /\ Len(w) \in Nat
  BY <1>1, AppendFacts, ElementFacts
<1>3. Len(w) + 1 \in 1..Len(Append(w, e))
  BY <1>2
<1>4. \A j \in (Len(w) + 1 + 1)..Len(Append(w, e)) : FALSE
  BY <1>2
<1>5. Coming(Append(w, e), v)
  BY <1>1, <1>2, <1>3, <1>4 DEF Coming
<1> QED
  BY <1>5 DEF e

\* A message behind it changes nothing.
LEMMA MessageAppended ==
  ASSUME NEW w \in Seq(Event), NEW m \in 1..MaxPosted, NEW v
  PROVE  /\ Coming(w, v) =>
              Coming(Append(w, [kind |-> "room_message", value |-> m]), v)
         /\ NoStateComes(w) =>
              NoStateComes(Append(w, [kind |-> "room_message", value |-> m]))
<1> DEFINE e == [kind |-> "room_message", value |-> m]
<1>1. e \in Event /\ ~IsState(e)
  BY EventFacts DEF IsState
<1> HIDE DEF e
<1>2. /\ Len(Append(w, e)) = Len(w) + 1 /\ Append(w, e)[Len(w) + 1] = e
      /\ \A i \in 1..Len(w) : Append(w, e)[i] = w[i]
      /\ Len(w) \in Nat
  BY <1>1, AppendFacts, ElementFacts
<1>3. Coming(w, v) => Coming(Append(w, e), v)
  <2> SUFFICES ASSUME NEW i \in 1..Len(w), IsState(w[i]), w[i].value = v,
                      \A j \in (i + 1)..Len(w) : ~IsState(w[j])
               PROVE  Coming(Append(w, e), v)
    BY DEF Coming
  <2>1. i \in 1..Len(Append(w, e)) /\ Append(w, e)[i] = w[i]
    BY <1>2
  <2>2. \A j \in (i + 1)..Len(Append(w, e)) : ~IsState(Append(w, e)[j])
    BY <1>1, <1>2
  <2> QED
    BY <2>1, <2>2 DEF Coming
<1>4. NoStateComes(w) => NoStateComes(Append(w, e))
  BY <1>1, <1>2 DEF NoStateComes
<1> QED
  BY <1>3, <1>4 DEF e

\* What the wire says when its first event is received.
LEMMA HeadReceived ==
  ASSUME NEW w \in Seq(Event), w # <<>>, NEW v
  PROVE  /\ NoStateComes(w) => ~IsState(Head(w)) /\ NoStateComes(Tail(w))
         /\ Coming(w, v) =>
              \/ Coming(Tail(w), v)
              \/ IsState(Head(w)) /\ Head(w).value = v /\ NoStateComes(Tail(w))
<1>1. /\ Len(w) \in Nat \ {0} /\ Len(Tail(w)) = Len(w) - 1
      /\ \A i \in 1..(Len(w) - 1) : Tail(w)[i] = w[i + 1]
      /\ Head(w) = w[1]
  BY TailFacts
<1>2. NoStateComes(w) => ~IsState(Head(w)) /\ NoStateComes(Tail(w))
  BY <1>1 DEF NoStateComes
<1>3. ASSUME NEW i \in 1..Len(w), IsState(w[i]), w[i].value = v,
             \A j \in (i + 1)..Len(w) : ~IsState(w[j])
      PROVE  \/ Coming(Tail(w), v)
             \/ IsState(Head(w)) /\ Head(w).value = v /\ NoStateComes(Tail(w))
  <2>1. CASE i = 1
    <3>1. \A j \in 1..Len(Tail(w)) : Tail(w)[j] = w[j + 1] /\ j + 1 \in (i + 1)..Len(w)
      BY <1>1, <2>1
    <3>2. NoStateComes(Tail(w))
      BY <1>3, <3>1 DEF NoStateComes
    <3> QED
      BY <1>1, <1>3, <2>1, <3>2
  <2>2. CASE i # 1
    <3>1. i - 1 \in 1..Len(Tail(w)) /\ Tail(w)[i - 1] = w[i]
      BY <1>1, <2>2
    <3>2. \A j \in ((i - 1) + 1)..Len(Tail(w)) :
            Tail(w)[j] = w[j + 1] /\ j + 1 \in (i + 1)..Len(w)
      BY <1>1, <2>2
    <3>3. \A j \in ((i - 1) + 1)..Len(Tail(w)) : ~IsState(Tail(w)[j])
      BY <1>3, <3>2
    <3> QED
      BY <1>3, <3>1, <3>3 DEF Coming
  <2> QED
    BY <2>1, <2>2
<1> QED
  BY <1>2, <1>3 DEF Coming

-----------------------------------------------------------------------------
(***************************************************************************)
(* Preservation, one part of the invariant at a time.                      *)
(***************************************************************************)

LEMMA PageNumbers ==
  ASSUME PageTypeOK
  PROVE  /\ MaxVersion \in Nat /\ MaxPosted \in Nat /\ MaxDrops \in Nat /\ MaxLoads \in Nat
         /\ version \in Nat /\ posted \in Nat /\ seen \in Int
         /\ NoRoom \notin 0..MaxVersion
BY RoomPageBounds, FaultBounds, NoRoomIsNoVersion DEF PageTypeOK

LEMMA AnswerFacts ==
  /\ \A v \in 0..MaxVersion \cup {NoRoom} :
       [to |-> "room", value |-> v] \in Answer /\ [to |-> "command", value |-> v] \in Answer
  /\ \A m \in 1..MaxPosted : [to |-> "send", value |-> m] \in Answer
  /\ \A m \in 0..MaxPosted : [to |-> "list", value |-> m] \in Answer
  /\ \A a \in Answer :
       /\ a.to \in {"room", "command"} => a.value \in 0..MaxVersion \cup {NoRoom}
       /\ a.to = "send" => a.value \in 1..MaxPosted /\ a = SendAnswer(a.value)
       /\ a.to = "list" => a.value \in 0..MaxPosted
BY DEF Answer, SendAnswer

\* What is published is on the wire of an open stream.
LEMMA SentFacts ==
  ASSUME PageTypeOK
  PROVE  /\ \A v \in 0..MaxVersion : Sent("room_state", v) \in Seq(Event)
         /\ \A m \in 1..MaxPosted : Sent("room_message", m) \in Seq(Event)
<1>1. wire \in Seq(Event)
  BY DEF PageTypeOK
<1> QED
  BY <1>1, EventFacts, AppendFacts DEF Sent

LEMMA PageTypeStep ==
  ASSUME PageTypeOK, PageNext
  PROVE  PageTypeOK'
<1> USE DEF PageTypeOK
<1>0. Rooms \in 0..MaxVersion \cup {NoRoom}
  BY DEF Rooms
<1>1. CASE OthersCommand \/ SendCommand
  <2>1. version + 1 \in 0..MaxVersion /\ version' = version + 1
    BY <1>1, PageNumbers DEF OthersCommand, SendCommand
  <2>2. wire' \in Seq(Event)
    BY <1>1, <2>1, SentFacts DEF OthersCommand, SendCommand
  <2>3. answers' \subseteq Answer
    <3>1. [to |-> "command", value |-> version + 1] \in Answer
      BY <2>1, AnswerFacts
    <3> QED
      BY <1>1, <3>1 DEF OthersCommand, SendCommand
  <2> QED
    BY <1>1, <2>1, <2>2, <2>3
    DEF OthersCommand, SendCommand, roomVars, historyVars, connectionVars
<1>2. CASE OthersPost \/ SendMessage
  <2>1. posted + 1 \in 1..MaxPosted /\ posted + 1 \in 0..MaxPosted /\ posted' = posted + 1
    BY <1>2, PageNumbers DEF OthersPost, SendMessage
  <2>2. wire' \in Seq(Event)
    BY <1>2, <2>1, SentFacts DEF OthersPost, SendMessage
  <2>3. answers' \subseteq Answer /\ own' \subseteq 1..MaxPosted
    <3>1. [to |-> "send", value |-> posted + 1] \in Answer
      BY <2>1, AnswerFacts
    <3> QED
      BY <1>2, <2>1, <3>1 DEF OthersPost, SendMessage
  <2> QED
    BY <1>2, <2>1, <2>2, <2>3
    DEF OthersPost, SendMessage, roomVars, historyVars, connectionVars
<1>3. CASE LoadRoom \/ LoadChat
  <2>1. loads' \in 0..MaxLoads
    BY <1>3, PageNumbers, SMTT(30) DEF LoadRoom, LoadChat
  <2>2. answers' \subseteq Answer
    <3>1. [to |-> "room", value |-> Rooms] \in Answer
      BY <1>0, AnswerFacts
    <3>2. [to |-> "list", value |-> posted] \in Answer
      BY AnswerFacts
    <3> QED
      BY <1>3, <3>1, <3>2 DEF LoadRoom, LoadChat
  <2> QED
    BY <1>3, <2>1, <2>2 DEF LoadRoom, LoadChat, serverVars, roomVars, connectionVars
<1>4. CASE DeleteRoom
  BY <1>4 DEF DeleteRoom, roomVars, historyVars, connectionVars
<1>5. CASE StreamError
  <2>1. drops' \in 0..MaxDrops
    BY <1>5, PageNumbers DEF StreamError
  <2> QED
    BY <1>5, <2>1 DEF StreamError, serverVars, roomVars
<1>6. CASE Connecting
  <2>1. <<[kind |-> "room_state", value |-> version]>> \in Seq(Event)
    BY EventFacts
  <2> QED
    BY <1>6, <2>1 DEF Connecting, Connect, ConnectFails, BackoffEnds, serverVars, roomVars,
                      historyVars
<1>7. ASSUME NEW v \in 0..MaxVersion, NEW streamed \in BOOLEAN, Show(v, streamed)
      PROVE  /\ shown' \in 0..MaxVersion \cup {NoRoom} /\ seen' \in -1..MaxVersion
             /\ byEvent' \in BOOLEAN
  BY <1>7 DEF Show
<1>8. CASE ReceiveState
  <2>1. Head(wire) \in Event /\ Tail(wire) \in Seq(Event)
    BY <1>8, TailFacts DEF ReceiveState
  <2>2. Head(wire).value \in 0..MaxVersion
    BY <1>8, <2>1, EventFacts DEF ReceiveState, IsState
  <2>3. answers' \subseteq Answer
    <3>1. [to |-> "room", value |-> Rooms] \in Answer
      BY <1>0, AnswerFacts
    <3> QED
      BY <1>8, <3>1 DEF ReceiveState
  <2> QED
    BY <1>7, <1>8, <2>1, <2>2, <2>3
    DEF ReceiveState, serverVars, connectionVars, historyVars
<1>9. CASE ReceiveMessage
  <2>1. Head(wire) \in Event /\ Tail(wire) \in Seq(Event)
    BY <1>9, TailFacts DEF ReceiveMessage
  <2>2. Head(wire).value \in 1..MaxPosted
    BY <1>9, <2>1, EventFacts DEF ReceiveMessage, IsState
  <2>3. chat' \in Seq(1..MaxPosted)
    BY <1>9, <2>2, AppendFacts DEF ReceiveMessage, With
  <2> QED
    BY <1>9, <2>1, <2>3
    DEF ReceiveMessage, serverVars, connectionVars, historyVars, roomVars
<1>10. ASSUME NEW a \in answers,
              ApplyRoom(a) \/ ApplyGone(a) \/ ApplySent(a) \/ ApplyList(a)
       PROVE  PageTypeOK'
  <2>1. a \in Answer /\ answers' \subseteq Answer
    BY <1>10 DEF ApplyRoom, ApplyGone, ApplySent, ApplyList
  <2>2. CASE ApplyRoom(a)
    <3>1. a.value \in 0..MaxVersion
      BY <2>1, <2>2, AnswerFacts DEF ApplyRoom
    <3> QED
      BY <1>7, <2>1, <2>2, <3>1 DEF ApplyRoom, serverVars, connectionVars, historyVars
  <2>3. CASE ApplyGone(a)
    <3>1. <<>> \in Seq(1..MaxPosted)
      OBVIOUS
    <3> QED
      BY <2>1, <2>3, <3>1 DEF ApplyGone, serverVars, connectionVars, historyVars
  <2>4. CASE ApplySent(a)
    <3>1. a.value \in 1..MaxPosted
      BY <2>1, <2>4, AnswerFacts DEF ApplySent
    <3>2. chat' \in Seq(1..MaxPosted)
      BY <2>4, <3>1, AppendFacts DEF ApplySent
    <3> QED
      BY <2>1, <2>4, <3>2 DEF ApplySent, serverVars, connectionVars, historyVars, roomVars
  <2>5. CASE ApplyList(a)
    <3>1. a.value \in 0..MaxPosted /\ MaxPosted \in Nat
      BY <2>1, <2>5, AnswerFacts, PageNumbers DEF ApplyList
    <3>2. a.value \in Nat /\ chat' \in [1..a.value -> 1..MaxPosted]
      BY <2>5, <3>1 DEF ApplyList
    <3>3. chat' \in Seq(1..MaxPosted)
      BY <3>2, ListFacts
    <3> QED
      BY <2>1, <2>5, <3>3 DEF ApplyList, serverVars, connectionVars, historyVars, roomVars
  <2> QED
    BY <1>10, <2>2, <2>3, <2>4, <2>5
<1> QED
  BY <1>1, <1>2, <1>3, <1>4, <1>5, <1>6, <1>8, <1>9, <1>10
  DEF PageNext, PageMoves, Delivery, Arrival

\* Nothing overtakes the server.
LEMMA AheadStep ==
  ASSUME PageInv, PageNext
  PROVE  NothingIsAhead'
<1> USE DEF NothingIsAhead, IsState
<1>0. PageTypeOK /\ NothingIsAhead /\ wire \in Seq(Event)
  BY DEF PageInv, PageTypeOK
<1>1. /\ version \in Nat /\ seen \in Int
      /\ Len(wire) \in Nat /\ \A i \in 1..Len(wire) : wire[i] \in Event
  BY <1>0, PageNumbers, ElementFacts
<1>2. Rooms # NoRoom => Rooms = version
  BY DEF Rooms
<1>3. ASSUME NEW e \in Event, wire' = (IF stream = "open" THEN Append(wire, e) ELSE wire),
             version <= version', version' \in Nat, IsState(e) => e.value <= version'
      PROVE  \A i \in 1..Len(wire') : IsState(wire'[i]) => wire'[i].value <= version'
  <2>1. /\ Len(Append(wire, e)) = Len(wire) + 1 /\ Append(wire, e)[Len(wire) + 1] = e
        /\ \A i \in 1..Len(wire) : Append(wire, e)[i] = wire[i]
    BY <1>0, AppendFacts
  <2>2. \A i \in 1..Len(wire) : IsState(wire[i]) => wire[i].value <= version'
    <3> SUFFICES ASSUME NEW i \in 1..Len(wire), IsState(wire[i])
                 PROVE  wire[i].value <= version'
      OBVIOUS
    <3>1. wire[i].value \in 0..MaxVersion /\ wire[i].value <= version
      BY <1>0, <1>1, EventFacts
    <3>2. MaxVersion \in Nat
      BY <1>0, PageNumbers
    <3> QED
      BY <1>1, <1>3, <3>1, <3>2
  <2>3. CASE stream = "open"
    <3>1. wire' = Append(wire, e)
      BY <1>3, <2>3
    <3> QED
      BY <1>1, <1>3, <2>1, <2>2, <3>1
  <2>4. CASE stream # "open"
    BY <1>3, <2>2, <2>4
  <2> QED
    BY <2>3, <2>4
<1>4. CASE OthersCommand \/ SendCommand
  <2>1. version' = version + 1 /\ wire' = Sent("room_state", version + 1)
    BY <1>4 DEF OthersCommand, SendCommand
  <2>2. version + 1 \in 0..MaxVersion
    BY <1>0, <1>4, PageNumbers DEF OthersCommand, SendCommand, PageTypeOK
  <2>3. \A i \in 1..Len(wire') : IsState(wire'[i]) => wire'[i].value <= version'
    BY <1>1, <1>3, <2>1, <2>2, EventFacts DEF Sent
  <2>4. \A a \in answers' :
          a.to \in {"room", "command"} /\ a.value # NoRoom => a.value <= version'
    <3> SUFFICES ASSUME NEW a \in answers', a.to \in {"room", "command"}, a.value # NoRoom
                 PROVE  a.value <= version'
      OBVIOUS
    <3>1. CASE a \in answers
      <4>1. a.value \in 0..MaxVersion /\ MaxVersion \in Nat /\ a.value <= version
        BY <1>0, <3>1, AnswerFacts, PageNumbers DEF PageTypeOK
      <4> QED
        BY <1>1, <2>1, <4>1
    <3>2. CASE a \notin answers
      <4>1. a.value = version + 1
        BY <1>4, <3>2 DEF OthersCommand, SendCommand
      <4> QED
        BY <1>1, <2>1, <4>1
    <3> QED
      BY <3>1, <3>2
  <2>5. seen' = seen
    BY <1>4 DEF OthersCommand, SendCommand, roomVars
  <2> QED
    BY <1>0, <1>1, <2>1, <2>3, <2>4, <2>5
<1>5. CASE OthersPost \/ SendMessage
  <2>1. posted + 1 \in 1..MaxPosted /\ wire' = Sent("room_message", posted + 1)
    BY <1>0, <1>5, PageNumbers DEF OthersPost, SendMessage, PageTypeOK
  <2>2. version' = version /\ seen' = seen
    BY <1>5 DEF OthersPost, SendMessage, roomVars
  <2>3. \A i \in 1..Len(wire') : IsState(wire'[i]) => wire'[i].value <= version'
    BY <1>1, <1>3, <2>1, <2>2, EventFacts DEF Sent
  <2>4. \A a \in answers' : a.to \in {"room", "command"} => a \in answers
    BY <1>5 DEF OthersPost, SendMessage
  <2> QED
    BY <1>0, <2>2, <2>3, <2>4
<1>6. CASE LoadRoom \/ LoadChat
  BY <1>0, <1>1, <1>2, <1>6 DEF LoadRoom, LoadChat, serverVars, roomVars
<1>7. CASE DeleteRoom
  BY <1>0, <1>7 DEF DeleteRoom, roomVars
<1>8. CASE StreamError \/ ConnectFails \/ BackoffEnds
  BY <1>0, <1>8 DEF StreamError, ConnectFails, BackoffEnds, serverVars, roomVars
<1>9. CASE Connect
  <2>1. /\ Len(wire') = 1 /\ wire'[1].value = version
        /\ UNCHANGED <<version, answers, seen>>
    BY <1>9 DEF Connect, serverVars, roomVars
  <2> QED
    BY <1>0, <1>1, <2>1
<1>10. ASSUME NEW v \in 0..MaxVersion, NEW streamed, Show(v, streamed), v <= version,
              version' = version
       PROVE  seen' <= version'
  BY <1>0, <1>1, <1>10 DEF Show
<1>11. CASE Delivery
  <2>0. wire # <<>> /\ wire' = Tail(wire) /\ version' = version
    BY <1>11 DEF Delivery, ReceiveState, ReceiveMessage, serverVars
  <2>1. /\ Len(Tail(wire)) = Len(wire) - 1
        /\ \A i \in 1..(Len(wire) - 1) : Tail(wire)[i] = wire[i + 1]
        /\ Head(wire) = wire[1] /\ Head(wire) \in Event /\ Len(wire) >= 1
    BY <1>0, <1>1, <2>0, TailFacts
  <2>2. \A i \in 1..Len(wire') : IsState(wire'[i]) => wire'[i].value <= version'
    BY <1>0, <1>1, <2>0, <2>1
  <2>3. CASE ReceiveState
    <3>1. Head(wire).value \in 0..MaxVersion /\ Head(wire).value <= version
      BY <1>0, <1>1, <2>1, <2>3, EventFacts DEF ReceiveState
    <3>2. seen' <= version'
      BY <1>10, <2>0, <2>3, <3>1 DEF ReceiveState
    <3>3. \A a \in answers' :
            a.to \in {"room", "command"} /\ a.value # NoRoom => a.value <= version'
      BY <1>0, <1>1, <1>2, <2>0, <2>3 DEF ReceiveState
    <3> QED
      BY <2>2, <3>2, <3>3
  <2>4. CASE ReceiveMessage
    BY <1>0, <2>0, <2>2, <2>4 DEF ReceiveMessage, roomVars
  <2> QED
    BY <1>11, <2>3, <2>4 DEF Delivery
<1>12. ASSUME NEW a \in answers, ApplyRoom(a)
       PROVE  NothingIsAhead'
  <2>1. a.value \in 0..MaxVersion /\ a.value <= version
    BY <1>0, <1>12, AnswerFacts DEF ApplyRoom, PageTypeOK
  <2>2. seen' <= version'
    BY <1>10, <1>12, <2>1 DEF ApplyRoom, serverVars
  <2> QED
    BY <1>0, <1>12, <2>2 DEF ApplyRoom, serverVars
<1>13. ASSUME NEW a \in answers, ApplyGone(a) \/ ApplySent(a) \/ ApplyList(a)
       PROVE  NothingIsAhead'
  BY <1>0, <1>13 DEF ApplyGone, ApplySent, ApplyList, serverVars, roomVars
<1> QED
  BY <1>4, <1>5, <1>6, <1>7, <1>8, <1>9, <1>11, <1>12, <1>13
  DEF PageNext, PageMoves, Arrival, Connecting

\* The newest state is never behind what the page has of an open stream.
LEMMA HonestStep ==
  ASSUME PageInv, PageNext
  PROVE  StreamIsHonest'
<1> USE DEF StreamIsHonest, UpToDate
<1>0. PageTypeOK /\ StreamIsHonest /\ wire \in Seq(Event) /\ seen <= version
  BY DEF PageInv, PageTypeOK, NothingIsAhead
<1>1. version \in Nat /\ seen \in Int /\ MaxVersion \in Nat
  BY <1>0, PageNumbers
<1>2. CASE OthersCommand \/ SendCommand
  <2>1. version' = version + 1 /\ wire' = Sent("room_state", version + 1) /\ stream' = stream
    BY <1>2 DEF OthersCommand, SendCommand, connectionVars
  <2>2. version + 1 \in 0..MaxVersion
    BY <1>0, <1>2, PageNumbers DEF OthersCommand, SendCommand, PageTypeOK
  <2>3. Coming(Append(wire, [kind |-> "room_state", value |-> version + 1]), version + 1)
    BY <1>0, <2>2, StateAppended
  <2> QED
    BY <2>1, <2>3 DEF Sent
<1>3. CASE OthersPost \/ SendMessage
  <2>1. posted + 1 \in 1..MaxPosted /\ wire' = Sent("room_message", posted + 1)
    BY <1>0, <1>3, PageNumbers DEF OthersPost, SendMessage, PageTypeOK
  <2>2. UNCHANGED <<version, deleted, stream, shown, seen, byEvent>>
    BY <1>3 DEF OthersPost, SendMessage, roomVars, connectionVars
  <2>3. LET w == Append(wire, [kind |-> "room_message", value |-> posted + 1])
        IN  (Coming(wire, version) => Coming(w, version))
              /\ (NoStateComes(wire) => NoStateComes(w))
    BY <1>0, <2>1, MessageAppended
  <2> QED
    BY <1>0, <2>1, <2>2, <2>3 DEF Sent
<1>4. CASE LoadRoom \/ LoadChat
  BY <1>0, <1>4 DEF LoadRoom, LoadChat, serverVars, roomVars, connectionVars
<1>5. CASE DeleteRoom
  BY <1>5 DEF DeleteRoom
<1>6. CASE StreamError \/ ConnectFails \/ BackoffEnds
  BY <1>6 DEF StreamError, ConnectFails, BackoffEnds
<1>7. CASE Connect
  <2>1. version \in 0..MaxVersion /\ version' = version
    BY <1>0, <1>7 DEF PageTypeOK, Connect, serverVars
  <2>2. <<>> \in Seq(Event) /\ Append(<<>>, [kind |-> "room_state", value |-> version])
                                 = <<[kind |-> "room_state", value |-> version]>>
    OBVIOUS
  <2>3. Coming(<<[kind |-> "room_state", value |-> version]>>, version)
    <3>1. Coming(Append(<<>>, [kind |-> "room_state", value |-> version]), version)
      BY <2>1, <2>2, StateAppended
    <3> QED
      BY <2>2, <3>1
  <2> QED
    BY <1>7, <2>1, <2>3 DEF Connect
<1>8. CASE Delivery
  <2>1. wire # <<>> /\ wire' = Tail(wire) /\ UNCHANGED <<version, deleted, stream>>
    BY <1>8 DEF Delivery, ReceiveState, ReceiveMessage, serverVars, connectionVars
  <2>2. /\ NoStateComes(wire) => ~IsState(Head(wire)) /\ NoStateComes(Tail(wire))
        /\ Coming(wire, version) =>
             \/ Coming(Tail(wire), version)
             \/ IsState(Head(wire)) /\ Head(wire).value = version /\ NoStateComes(Tail(wire))
    BY <1>0, <2>1, HeadReceived
  <2>3. CASE ReceiveState
    <3>1. IsState(Head(wire)) /\ Show(Head(wire).value, TRUE)
      BY <2>3 DEF ReceiveState, IsState
    <3>2. Head(wire).value = version => UpToDate'
      BY <1>0, <1>1, <2>1, <3>1 DEF Show
    <3> QED
      BY <1>0, <2>1, <2>2, <3>1, <3>2
  <2>4. CASE ReceiveMessage
    <3>1. ~IsState(Head(wire)) /\ UNCHANGED <<shown, seen, byEvent>>
      BY <2>4 DEF ReceiveMessage, IsState, roomVars
    <3> QED
      BY <1>0, <2>1, <2>2, <3>1
  <2> QED
    BY <1>8, <2>3, <2>4 DEF Delivery
<1>9. ASSUME NEW a \in answers, ApplyRoom(a)
      PROVE  StreamIsHonest'
  <2>1. a.value \in 0..MaxVersion /\ a.value <= version
    BY <1>9, AnswerFacts DEF ApplyRoom, PageInv, PageTypeOK, NothingIsAhead
  <2>2. seen = version => seen' = version
    BY <1>1, <1>9, <2>1 DEF ApplyRoom, Show
  <2>3. byEvent' = FALSE /\ UNCHANGED <<version, deleted, stream, wire>>
    BY <1>9 DEF ApplyRoom, Show, serverVars, connectionVars
  <2> QED
    BY <1>0, <2>2, <2>3
<1>10. ASSUME NEW a \in answers, ApplyGone(a) \/ ApplySent(a) \/ ApplyList(a)
       PROVE  StreamIsHonest'
  BY <1>0, <1>10 DEF ApplyGone, ApplySent, ApplyList, serverVars, roomVars, connectionVars
<1> QED
  BY <1>2, <1>3, <1>4, <1>5, <1>6, <1>7, <1>8, <1>9, <1>10
  DEF PageNext, PageMoves, Arrival, Connecting

\* Appending a message lists it once more.
LEMMA TimesAppended ==
  ASSUME PageTypeOK, NEW m \in 1..MaxPosted, chat' = Append(chat, m)
  PROVE  \A id : Times(id)' = Times(id) + (IF m = id THEN 1 ELSE 0)
<1> DEFINE Ids == 1..MaxPosted
<1>1. chat \in Seq(Ids) /\ m \in Ids
  BY DEF PageTypeOK
<1> HIDE DEF Ids
<1>2. \A id : Cardinality(Places(Append(chat, m), id)) =
                Cardinality(Places(chat, id)) + (IF m = id THEN 1 ELSE 0)
  BY <1>1, PlacesAppend
<1>3. \A id : Times(id)' = Cardinality(Places(Append(chat, m), id))
  BY DEF Times, Places
<1> QED
  BY <1>2, <1>3, TimesIs

\* A message is listed again only for the answer to its post.
LEMMA SentStep ==
  ASSUME PageInv, PageNext
  PROVE  SentOnce'
<1> USE DEF SentOnce, SendAnswer
<1>0. PageTypeOK /\ SentOnce /\ chat \in Seq(1..MaxPosted) /\ answers \subseteq Answer
  BY DEF PageInv, PageTypeOK
<1>1. posted \in Nat /\ MaxPosted \in Nat
  BY <1>0, PageNumbers
<1>2. \A id : Times(id) \in Nat
  BY <1>0, TimesIs, PlacesAreFinite
<1>3. ASSUME chat' = chat
      PROVE  \A id : Times(id)' = Times(id)
  BY <1>3 DEF Times
<1>4. CASE SendMessage
  <2>1. posted' = posted + 1 /\ own' = own \cup {posted + 1} /\ chat' = chat
    BY <1>4 DEF SendMessage
  <2>2. answers' = answers \cup {[to |-> "send", value |-> posted + 1]}
    BY <1>4 DEF SendMessage
  <2>3. own' \subseteq 1..posted' /\ posted + 1 \notin own
    BY <1>0, <1>1, <2>1
  <2>4. \A a \in answers' : a.to = "send" => a.value \in own'
    BY <1>0, <2>1, <2>2
  <2>5. ASSUME NEW id \in 1..MaxPosted
        PROVE  /\ Times(id)' <= 2
               /\ id \notin own' \/ SendAnswer(id) \in answers' => Times(id)' <= 1
    <3>1. id # posted + 1 /\ SendAnswer(id) \in answers' => SendAnswer(id) \in answers
      BY <2>2
    <3> QED
      BY <1>0, <1>3, <2>1, <2>3, <3>1
  <2> QED
    BY <2>3, <2>4, <2>5
<1>5. ASSUME UNCHANGED <<own, chat>>, posted' \in {posted, posted + 1},
             \A a \in answers' : a.to = "send" => a \in answers
      PROVE  SentOnce'
  <2>1. own' \subseteq 1..posted'
    BY <1>0, <1>1, <1>5
  <2>2. \A id : SendAnswer(id) \in answers' => SendAnswer(id) \in answers
    BY <1>5
  <2> QED
    BY <1>0, <1>3, <1>5, <2>1, <2>2
<1>6. CASE OthersCommand \/ SendCommand \/ OthersPost \/ LoadRoom \/ LoadChat \/ DeleteRoom
             \/ StreamError \/ Connecting \/ ReceiveState
  <2>1. UNCHANGED <<own, chat>> /\ posted' \in {posted, posted + 1}
    BY <1>6
    DEF OthersCommand, SendCommand, OthersPost, LoadRoom, LoadChat, DeleteRoom, StreamError,
        Connecting, Connect, ConnectFails, BackoffEnds, ReceiveState, serverVars
  <2>2. \E v : \E to \in {"room", "command", "list"} :
          answers' \subseteq answers \cup {[to |-> to, value |-> v]}
    BY <1>6
    DEF OthersCommand, SendCommand, OthersPost, LoadRoom, LoadChat, DeleteRoom, StreamError,
        Connecting, Connect, ConnectFails, BackoffEnds, ReceiveState
  <2>3. \A a \in answers' : a.to = "send" => a \in answers
    BY <2>2
  <2> QED
    BY <1>5, <2>1, <2>3
<1>7. CASE ReceiveMessage
  <2> DEFINE m == Head(wire).value
  <2>1. Head(wire) \in Event
    BY <1>0, <1>7, TailFacts DEF ReceiveMessage, PageTypeOK
  <2>2. m \in 1..MaxPosted
    BY <1>7, <2>1, EventFacts DEF ReceiveMessage, IsState
  <2>3. chat' = With(m) /\ UNCHANGED <<posted, own, answers>>
    BY <1>7 DEF ReceiveMessage, serverVars
  <2> HIDE DEF m
  <2>4. CASE m \in Range(chat)
    BY <1>5, <2>3, <2>4 DEF With
  <2>5. CASE m \notin Range(chat)
    <3>1. chat' = Append(chat, m)
      BY <2>3, <2>5 DEF With
    <3>2. Times(m) = 0
      BY <2>5, TimesIs, PlacesUnlisted
    <3>3. \A id : Times(id)' = Times(id) + (IF m = id THEN 1 ELSE 0)
      BY <1>0, <2>2, <3>1, TimesAppended
    <3>4. ASSUME NEW id \in 1..MaxPosted
          PROVE  /\ Times(id)' <= 2
                 /\ id \notin own \/ SendAnswer(id) \in answers => Times(id)' <= 1
      <4>1. CASE id = m
        <5>1. Times(id)' = 1
          BY <3>2, <3>3, <4>1
        <5> QED
          BY <5>1
      <4>2. CASE id # m
        <5>1. Times(id)' = Times(id)
          BY <1>2, <3>3, <4>2
        <5> QED
          BY <1>0, <5>1
      <4> QED
        BY <4>1, <4>2
    <3> QED
      BY <1>0, <2>3, <3>4
  <2> QED
    BY <2>4, <2>5
<1>8. ASSUME NEW a \in answers, ApplyRoom(a)
      PROVE  SentOnce'
  BY <1>5, <1>8 DEF ApplyRoom, serverVars
<1>9. ASSUME NEW a \in answers, ApplyGone(a)
      PROVE  SentOnce'
  <2>1. \A id : Times(id)' = 0
    <3>1. \A id : Times(id)' = Cardinality(Places(<<>>, id)) /\ id \notin Range(<<>>)
      BY <1>9 DEF ApplyGone, Times, Places, Range
    <3> QED
      BY <3>1, PlacesUnlisted
  <2>2. answers' \subseteq answers /\ UNCHANGED <<posted, own>>
    BY <1>9 DEF ApplyGone, serverVars
  <2> QED
    BY <1>0, <2>1, <2>2
<1>10. ASSUME NEW a \in answers, ApplySent(a)
       PROVE  SentOnce'
  <2> DEFINE m == a.value
  <2>1. m \in 1..MaxPosted /\ a = SendAnswer(m)
    BY <1>0, <1>10, AnswerFacts DEF ApplySent
  <2>2. chat' = Append(chat, m) /\ answers' = answers \ {SendAnswer(m)}
        /\ UNCHANGED <<posted, own>>
    BY <1>10, <2>1 DEF ApplySent, serverVars
  <2>3. m \in own /\ Times(m) <= 1
    BY <1>0, <1>10, <2>1 DEF ApplySent
  <2> HIDE DEF m
  <2>4. \A id : Times(id)' = Times(id) + (IF m = id THEN 1 ELSE 0)
    BY <1>0, <2>1, <2>2, TimesAppended DEF m
  <2>5. ASSUME NEW id \in 1..MaxPosted
        PROVE  /\ Times(id)' <= 2
               /\ id \notin own' \/ SendAnswer(id) \in answers' => Times(id)' <= 1
    <3>1. CASE id = m
      <4>1. id \in own' /\ SendAnswer(id) \notin answers'
        BY <2>2, <2>3, <3>1
      <4>2. Times(id)' <= 2
        BY <1>2, <2>3, <2>4, <3>1
      <4> QED
        BY <4>1, <4>2
    <3>2. CASE id # m
      <4>1. Times(id)' = Times(id)
        BY <1>2, <2>4, <3>2
      <4> QED
        BY <1>0, <2>2, <4>1
    <3> QED
      BY <3>1, <3>2
  <2>6. \A b \in answers' : b.to = "send" => b.value \in own'
    BY <1>0, <2>2
  <2>7. own' \subseteq 1..posted'
    BY <1>0, <2>2
  <2> QED
    BY <2>5, <2>6, <2>7
<1>11. ASSUME NEW a \in answers, ApplyList(a)
       PROVE  SentOnce'
  <2>1. a.value \in Nat
    BY <1>0, <1>1, <1>11, AnswerFacts DEF ApplyList
  <2>2. \A id : Times(id)' = Cardinality(Places([i \in 1..a.value |-> i], id))
    BY <1>11 DEF ApplyList, Times, Places
  <2>3. \A id : Times(id)' <= 1 /\ Times(id)' \in Nat
    <3>1. [i \in 1..a.value |-> i] \in Seq(Nat)
      BY <2>1
    <3> QED
      BY <2>1, <2>2, <3>1, PlacesListed, PlacesAreFinite
  <2>4. answers' \subseteq answers /\ UNCHANGED <<posted, own>>
    BY <1>11 DEF ApplyList, serverVars
  <2> QED
    BY <1>0, <2>3, <2>4
<1> QED
  BY <1>4, <1>6, <1>7, <1>8, <1>9, <1>10, <1>11 DEF PageNext, PageMoves, Delivery, Arrival

-----------------------------------------------------------------------------
(***************************************************************************)
(* Theorems.                                                               *)
(***************************************************************************)

LEMMA PageInitInv == PageInit => PageInv
<1> SUFFICES ASSUME PageInit PROVE PageInv
  OBVIOUS
<1>1. MaxVersion \in Nat /\ MaxPosted \in Nat /\ MaxDrops \in Nat /\ MaxLoads \in Nat
  BY RoomPageBounds, FaultBounds
<1>2. posted \in 0..MaxPosted /\ posted \in Nat
  BY <1>1 DEF PageInit
<1>3. answers \subseteq Answer
  <2>1. 0 \in 0..MaxVersion
    BY <1>1
  <2>2. [to |-> "room", value |-> 0] \in Answer /\ [to |-> "list", value |-> posted] \in Answer
    BY <1>2, <2>1, AnswerFacts
  <2> QED
    BY <2>2 DEF PageInit
<1>4. PageTypeOK
  <2>1. <<>> \in Seq(Event) /\ <<>> \in Seq(1..MaxPosted)
    OBVIOUS
  <2>2. 0 \in 0..MaxVersion /\ -1 \in -1..MaxVersion /\ 0 \in 0..MaxDrops /\ 0 \in 0..MaxLoads
    BY <1>1
  <2> QED
    BY <1>2, <1>3, <2>1, <2>2 DEF PageInit, PageTypeOK
<1>5. StreamIsHonest
  BY DEF PageInit, StreamIsHonest
<1>6. NothingIsAhead
  BY <1>1 DEF PageInit, NothingIsAhead
<1>7. \A id : Times(id) = 0
  <2>1. \A id : id \notin Range(<<>>)
    BY DEF Range
  <2> QED
    BY <2>1, PlacesUnlisted, TimesIs DEF PageInit
<1>8. SentOnce
  BY <1>2, <1>7 DEF PageInit, SentOnce, SendAnswer
<1> QED
  BY <1>4, <1>5, <1>6, <1>8 DEF PageInv

LEMMA PageNextInv == PageInv /\ [PageNext]_pageVars => PageInv'
<1> SUFFICES ASSUME PageInv, [PageNext]_pageVars PROVE PageInv'
  OBVIOUS
<1>1. CASE PageNext
  BY <1>1, PageTypeStep, HonestStep, AheadStep, SentStep DEF PageInv
<1>2. CASE UNCHANGED pageVars
  BY <1>2 DEF pageVars, PageInv, PageTypeOK, StreamIsHonest, UpToDate, NothingIsAhead,
              SentOnce, Times
<1> QED
  BY <1>1, <1>2

\* The inductive invariant holds in every reachable state.
THEOREM PageInvariance == PageSpec => []PageInv
<1> QED
  BY PageInitInv, PageNextInv, PTL DEF PageSpec

LEMMA PageIsHonest == PageInv => ThePageIsHonest
<1> SUFFICES ASSUME PageInv PROVE ThePageIsHonest
  OBVIOUS
<1>1. BehindOnlyIfOvertaken
  <2> SUFFICES ASSUME Quiet, ~deleted PROVE UpToDate
    BY DEF BehindOnlyIfOvertaken
  <2>1. stream = "open" /\ Len(wire) = 0
    BY DEF Quiet
  <2>2. ~Coming(wire, version)
    BY <2>1 DEF Coming
  <2> QED
    BY <2>1, <2>2 DEF PageInv, StreamIsHonest
<1>2. OnlyOwnMessagesRepeat
  BY DEF PageInv, SentOnce, OnlyOwnMessagesRepeat
<1> QED
  BY <1>1, <1>2 DEF ThePageIsHonest

\* However many commands, posts, losses, reloads and late answers mix: a page
\* that is connected and has nothing on its way has shown the newest state, and
\* still does unless an answer came last; and no message is listed twice but
\* the page's own, which are listed at most twice (onRoomState, onRoomMessage,
\* load, loadRoomChat, handleSendRoomChatMessage).
THEOREM PagesAreHonest == PageSpec => []ThePageIsHonest
  BY PageIsHonest, PageInvariance, PTL

================================================================================
