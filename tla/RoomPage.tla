------------------------------- MODULE RoomPage -------------------------------
(***************************************************************************)
(* One page of a watch room in the browser: src/pages/WatchRoomPage.tsx    *)
(* with its event stream, src/lib/useRoomEventStream.ts.                   *)
(*                                                                         *)
(* The page learns of the room on two ways that are not ordered with each  *)
(* other: the stream, first in first out, and the answers to its own       *)
(* requests, in any order.  The server serves a request when it is sent    *)
(* (a later arrival is a later sending) and its answer travels.  A room    *)
(* state is the number of its PUT, a message its message_id.  RoomEvents   *)
(* has the stream from the server's side.                                  *)
(***************************************************************************)
EXTENDS Integers, Sequences, FiniteSets, SequencesExt

CONSTANTS
  NoRoom,        \* room === null: nothing is loaded, or the room is gone
  MaxVersion,    \* bound: state PUTs, by anybody
  MaxPosted,     \* bound: chat messages, by anybody
  MaxDrops,      \* bound: losses of the stream
  MaxAnswers,    \* bound: answers on their way when the page asks for another
  MaxLoads       \* bound: calls of load and loadRoomChat after the page opened

ASSUME RoomPageBounds == MaxVersion \in Nat /\ MaxPosted \in Nat
ASSUME FaultBounds == MaxDrops \in Nat /\ MaxLoads \in Nat /\ MaxAnswers \in Nat
ASSUME NoRoomIsNoVersion == NoRoom \notin 0..MaxVersion

VARIABLES
  version,      \* the room's state at the server
  deleted,      \* the cleanup deleted the room
  posted,       \* room_messages are 1..posted
  own,          \* those this page posted
  stream,       \* "connecting", "open", or "waiting" for the backoff timer
  wire,         \* events on their way, oldest first
  answers,      \* answers on their way: [to, value]
  shown,        \* room
  chat,         \* roomMessages, as message ids
  drops,        \* losses so far
  loads,        \* such calls so far
  seen,         \* history: the newest state the page ever showed, -1 for none
  byEvent,      \* history: what the page shows came by the stream
  whole         \* history: nothing was missing or on its way when the stream broke

pageVars == <<version, deleted, posted, own, stream, wire, answers, shown, chat,
              drops, loads, seen, byEvent, whole>>
serverVars == <<version, deleted, posted, own>>
roomVars == <<shown, seen, byEvent>>
connectionVars == <<stream, drops>>
historyVars == <<loads, whole>>

Event == [kind : {"room_state"}, value : 0..MaxVersion]
           \cup [kind : {"room_message"}, value : 1..MaxPosted]

\* "room": GET of the room by load; "command": a state PUT; both carry the room,
\* or NoRoom for 404.  "send": POST of a message; "list": GET of the messages.
Answer == [to : {"room", "command"}, value : 0..MaxVersion \cup {NoRoom}]
            \cup [to : {"send"}, value : 1..MaxPosted]
            \cup [to : {"list"}, value : 0..MaxPosted]

Rooms == IF deleted THEN NoRoom ELSE version

Sent(kind, value) ==
  IF stream = "open" THEN Append(wire, [kind |-> kind, value |-> value]) ELSE wire

-----------------------------------------------------------------------------
(***************************************************************************)
(* The server, and what the page asks of it.                               *)
(***************************************************************************)

\* The bound on what is on its way.
MayAsk == Cardinality(answers) < MaxAnswers

\* PUT /state by somebody else.
OthersCommand ==
  /\ ~deleted /\ version < MaxVersion
  /\ version' = version + 1
  /\ wire' = Sent("room_state", version + 1)
  /\ UNCHANGED <<deleted, posted, own, connectionVars, answers, chat, historyVars, roomVars>>

\* sendRoomCommand, refreshPlaybackUrl, handleSwitchAsset: nothing keeps the
\* page from sending the next one before the answer.
SendCommand ==
  /\ shown # NoRoom /\ ~deleted /\ version < MaxVersion /\ MayAsk
  /\ version' = version + 1
  /\ wire' = Sent("room_state", version + 1)
  /\ answers' = answers \cup {[to |-> "command", value |-> version + 1]}
  /\ UNCHANGED <<deleted, posted, own, connectionVars, chat, historyVars, roomVars>>

OthersPost ==
  /\ ~deleted /\ posted < MaxPosted
  /\ posted' = posted + 1
  /\ wire' = Sent("room_message", posted + 1)
  /\ UNCHANGED <<version, deleted, own, connectionVars, answers, chat, historyVars, roomVars>>

\* handleSendRoomChatMessage; the button is off until the answer.
SendMessage ==
  /\ shown # NoRoom /\ ~deleted /\ posted < MaxPosted
  /\ MayAsk /\ \A a \in answers : a.to # "send"
  /\ posted' = posted + 1
  /\ own' = own \cup {posted + 1}
  /\ wire' = Sent("room_message", posted + 1)
  /\ answers' = answers \cup {[to |-> "send", value |-> posted + 1]}
  /\ UNCHANGED <<version, deleted, connectionVars, chat, historyVars, roomVars>>

\* load, again: the user signs in, or prepares HLS.
LoadRoom ==
  /\ loads < MaxLoads /\ MayAsk
  /\ loads' = loads + 1
  /\ answers' = answers \cup {[to |-> "room", value |-> Rooms]}
  /\ UNCHANGED <<serverVars, connectionVars, wire, chat, whole, roomVars>>

\* loadRoomChat, again.
LoadChat ==
  /\ ~deleted /\ loads < MaxLoads /\ MayAsk
  /\ loads' = loads + 1
  /\ answers' = answers \cup {[to |-> "list", value |-> posted]}
  /\ UNCHANGED <<serverVars, connectionVars, wire, chat, whole, roomVars>>

\* cleanup_inactive_rooms: nothing is published.
DeleteRoom ==
  /\ ~deleted
  /\ deleted' = TRUE
  /\ UNCHANGED <<version, posted, own, connectionVars, wire, answers, chat, historyVars, roomVars>>

-----------------------------------------------------------------------------
(***************************************************************************)
(* The stream.                                                             *)
(***************************************************************************)

\* A bug the checks must notice: the stream starts without a snapshot.
ConnectBare ==
  /\ stream = "connecting" /\ ~deleted
  /\ stream' = "open" /\ wire' = <<>>
  /\ UNCHANGED <<serverVars, drops, answers, chat, historyVars, roomVars>>

\* The endpoint answers: the snapshot first, then what happens from here on.
Connect ==
  /\ stream = "connecting" /\ ~deleted
  /\ stream' = "open"
  /\ wire' = <<[kind |-> "room_state", value |-> version]>>
  /\ UNCHANGED <<serverVars, drops, answers, chat, historyVars, roomVars>>

\* A bug the checks must notice: an error leaves the stream closed for good.
StreamErrorForGood ==
  /\ stream = "open" /\ drops < MaxDrops
  /\ drops' = drops + 1
  /\ stream' = "closed" /\ wire' = <<>>
  /\ UNCHANGED <<serverVars, answers, chat, historyVars, roomVars>>

\* onerror of an open stream: close it, try again after the backoff.
StreamError ==
  /\ stream = "open" /\ drops < MaxDrops
  /\ drops' = drops + 1
  /\ stream' = "waiting" /\ wire' = <<>>
  /\ whole' = (Range(chat) = 1..posted /\ wire = <<>> /\ answers = {})
  /\ UNCHANGED <<serverVars, answers, chat, loads, roomVars>>

\* A connection that is refused, as with 404 for a room that is gone.
ConnectFails ==
  /\ stream = "connecting" /\ deleted
  /\ stream' = "waiting"
  /\ UNCHANGED <<serverVars, drops, wire, answers, chat, historyVars, roomVars>>

BackoffEnds ==
  /\ stream = "waiting"
  /\ stream' = "connecting"
  /\ UNCHANGED <<serverVars, drops, wire, answers, chat, historyVars, roomVars>>

Show(v, streamed) ==
  /\ shown' = v
  /\ seen' = IF v > seen THEN v ELSE seen
  /\ byEvent' = streamed

\* onRoomState; another media file makes the page load the room again (which
\* states share a file is left open).
ReceiveState ==
  /\ wire # <<>> /\ Head(wire).kind = "room_state"
  /\ Show(Head(wire).value, TRUE)
  /\ wire' = Tail(wire)
  /\ \/ /\ shown # Head(wire).value
        /\ answers' = answers \cup {[to |-> "room", value |-> Rooms]}
     \/ /\ shown # NoRoom
        /\ UNCHANGED answers
  /\ UNCHANGED <<serverVars, connectionVars, chat, historyVars>>

\* A bug the checks must notice: a message the page has is appended again.
WithoutLookup(id) == Append(chat, id)

With(id) == IF id \in Range(chat) THEN chat ELSE Append(chat, id)

\* onRoomMessage.
ReceiveMessage ==
  /\ wire # <<>> /\ Head(wire).kind = "room_message"
  /\ chat' = With(Head(wire).value)
  /\ wire' = Tail(wire)
  /\ UNCHANGED <<serverVars, connectionVars, answers, historyVars, roomVars>>

-----------------------------------------------------------------------------
(***************************************************************************)
(* Answers.                                                                *)
(***************************************************************************)

\* setRoom with the answer of load or of a command, whatever came meanwhile.
ApplyRoom(a) ==
  /\ a \in answers /\ a.to \in {"room", "command"} /\ a.value # NoRoom
  /\ Show(a.value, FALSE)
  /\ answers' = answers \ {a}
  /\ UNCHANGED <<serverVars, connectionVars, wire, chat, historyVars>>

\* load answered by 404 clears the page.  (A command answered so is a hint.)
ApplyGone(a) ==
  /\ a \in answers /\ a.to = "room" /\ a.value = NoRoom
  /\ shown' = NoRoom
  /\ byEvent' = FALSE
  /\ chat' = <<>>
  /\ answers' = answers \ {a}
  /\ UNCHANGED <<serverVars, connectionVars, wire, seen, historyVars>>

\* The message the page sent is appended without a look at the list.
ApplySent(a) ==
  /\ a \in answers /\ a.to = "send"
  /\ chat' = Append(chat, a.value)
  /\ answers' = answers \ {a}
  /\ UNCHANGED <<serverVars, connectionVars, wire, historyVars, roomVars>>

\* setRoomMessages replaces the list, messages that came meanwhile included.
ApplyList(a) ==
  /\ a \in answers /\ a.to = "list"
  /\ chat' = [i \in 1..a.value |-> i]
  /\ answers' = answers \ {a}
  /\ UNCHANGED <<serverVars, connectionVars, wire, historyVars, roomVars>>

\* The page opens, perhaps on a room with a message already: load and
\* loadRoomChat are under way.
PageInit ==
  /\ version = 0 /\ deleted = FALSE /\ posted \in 0..1 /\ posted <= MaxPosted /\ own = {}
  /\ stream = "connecting" /\ wire = <<>> /\ drops = 0
  /\ loads = 0
  /\ answers = {[to |-> "room", value |-> 0], [to |-> "list", value |-> posted]}
  /\ shown = NoRoom /\ chat = <<>>
  /\ seen = -1 /\ byEvent = FALSE /\ whole = FALSE

Delivery == ReceiveState \/ ReceiveMessage
Arrival == \E a \in answers : ApplyRoom(a) \/ ApplyGone(a) \/ ApplySent(a) \/ ApplyList(a)
Connecting == Connect \/ ConnectFails \/ BackoffEnds

\* What the browser does by itself: its event loop and its timers run on, and
\* events and answers arrive.
PageMoves == Delivery \/ Arrival \/ Connecting

PageNext ==
  \/ OthersCommand \/ SendCommand \/ OthersPost \/ SendMessage \/ DeleteRoom
  \/ LoadRoom \/ LoadChat
  \/ StreamError \/ PageMoves

PageFairness == WF_pageVars(PageMoves)

PageSpec == PageInit /\ [][PageNext]_pageVars /\ PageFairness

-----------------------------------------------------------------------------
(***************************************************************************)
(* Properties.                                                             *)
(***************************************************************************)

PageTypeOK ==
  /\ version \in 0..MaxVersion /\ posted \in 0..MaxPosted /\ own \subseteq 1..MaxPosted
  /\ deleted \in BOOLEAN /\ byEvent \in BOOLEAN /\ whole \in BOOLEAN /\ seen \in -1..MaxVersion
  /\ stream \in {"connecting", "open", "waiting"}
  /\ wire \in Seq(Event) /\ answers \subseteq Answer
  /\ shown \in 0..MaxVersion \cup {NoRoom}
  /\ chat \in Seq(1..MaxPosted) /\ drops \in 0..MaxDrops
  /\ loads \in 0..MaxLoads

Quiet == stream = "open" /\ wire = <<>> /\ answers = {}

UpToDate == seen = version /\ (byEvent => shown = version)

\* A page that is connected and has nothing on its way has shown the room as
\* it is, however commands, reconnections and reloads mixed; and it still
\* does unless the last thing it applied is the answer to a request, which a
\* newer event may have overtaken: setRoom takes what comes.
BehindOnlyIfOvertaken == Quiet /\ ~deleted => UpToDate

Times(id) == Cardinality({i \in DOMAIN chat : chat[i] = id})

\* Nobody else's message is ever listed twice and the page's own at most
\* twice: the stream's copy is looked up, the answer's is not.
OnlyOwnMessagesRepeat ==
  \A id \in 1..MaxPosted : Times(id) <= IF id \in own THEN 2 ELSE 1

\* What a page shows once everything has arrived is honest.
ThePageIsHonest == BehindOnlyIfOvertaken /\ OnlyOwnMessagesRepeat

\* When people stop, every page has shown the room as it is in the end, and
\* still does unless an overtaken answer came last: a lost stream comes back,
\* and its snapshot replaces what was missed.
PagesCatchUp == <>[](deleted \/ UpToDate)

\* The claim of useRoomEventStream.ts that losing the socket and reconnecting
\* behaves like a full refresh: a page that showed everything when its stream
\* broke shows everything again once it is back and all has arrived.
ReconnectingIsAFullRefresh ==
  whole /\ Quiet /\ ~deleted /\ byEvent =>
    shown = version /\ Range(chat) = 1..posted

================================================================================
