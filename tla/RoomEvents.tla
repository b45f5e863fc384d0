------------------------------ MODULE RoomEvents ------------------------------
(***************************************************************************)
(* The event streams of one watch room: the hub of                         *)
(* app/services/room_events.py, the two handlers that publish to it, and   *)
(* the Server-Sent-Events endpoint of app/routers/watch_rooms.py.  Rooms   *)
(* share nothing in the hub, so one room is enough.                        *)
(*                                                                         *)
(* Everything runs on one event loop.  publish_threadsafe does not publish: *)
(* it creates a task, and so does Starlette for the body of a stream; the   *)
(* loop runs new tasks in the order of their creation.  `ready` is that     *)
(* queue.  The hub's lock is never held across an await, so each operation  *)
(* of the hub is one step; the stream's generator is interrupted wherever   *)
(* it awaits, and its steps are separate actions.                          *)
(***************************************************************************)
EXTENDS Naturals, Sequences

CONSTANTS
  Streams,    \* connections to the endpoint; a page reconnects on a new one
  MaxDepth,   \* _MAX_QUEUE_DEPTH
  MaxEvents   \* bound: events a behaviour may publish

ASSUME DepthIsPositive == MaxDepth \in Nat \ {0}
ASSUME EventsAreBounded == MaxEvents \in Nat

\* Events are numbered in the order the handlers posted them.  A room_state
\* event carries the whole room; its number stands for that version.
Event == [type : {"room_state", "room_message"}, n : 1..MaxEvents]
Task  == [type : {"room_state", "room_message"}, n : 1..MaxEvents]
           \cup [type : {"start"}, stream : Streams]

Phases == {"closed", "starting", "greeted", "checking", "waiting"}

VARIABLES
  exists,       \* the room's row is in watch_rooms
  state,        \* the version of that row: the event of its last PUT, or 0
  posted,       \* how many events the handlers posted
  ready,        \* tasks created and not yet run
  published,    \* history: the last event a publish() task fanned out, or 0
  subscribers,  \* the hub's queues of this room: the streams that have one
  queue,        \* those queues
  phase,        \* where the generator of each stream stands
  snapshot,     \* the room it read before it began to stream
  open,         \* the browser still holds its end
  shown,        \* the version of the room the stream made the page show
  joined        \* history: how many events were out when it subscribed

hub == <<subscribers, queue>>
connection == <<phase, snapshot, open, shown, joined>>
room == <<exists, state, posted>>
vars == <<room, ready, published, hub, connection>>

IsPublish(t) == t.type # "start"

-----------------------------------------------------------------------------
(***************************************************************************)
(* The handlers that publish, and the end of the room.                     *)
(***************************************************************************)

\* A bug the checks must notice: the newest task runs first.
ScheduleFirst(task) == ready' = <<task>> \o ready

\* publish_threadsafe: a task for publish(), behind every task there is.
Schedule(task) == ready' = Append(ready, task)

\* A bug the checks must notice: the event carries the room before the write.
PostStale(type) ==
  /\ exists
  /\ posted < MaxEvents
  /\ posted' = posted + 1
  /\ Schedule([type |-> type, n |-> posted])
  /\ UNCHANGED <<exists, published, hub, connection>>

\* A handler posts one more event.
Post(type) ==
  /\ exists
  /\ posted < MaxEvents
  /\ posted' = posted + 1
  /\ Schedule([type |-> type, n |-> posted + 1])
  /\ UNCHANGED <<exists, published, hub, connection>>

\* update_room_state writes the row and posts the room it wrote.
UpdateRoomState == Post("room_state") /\ state' = posted + 1

\* send_room_message.
SendRoomMessage == Post("room_message") /\ UNCHANGED state

\* cleanup_inactive_rooms deletes the room.  Nothing is published.
DeleteRoom ==
  /\ exists
  /\ exists' = FALSE
  /\ UNCHANGED <<state, posted, ready, published, hub, connection>>

-----------------------------------------------------------------------------
(***************************************************************************)
(* The hub.                                                                *)
(***************************************************************************)

\* Bugs the checks must notice: the newest event is the one a full queue
\* refuses; the whole queue is thrown away when it is full; the queue grows.
PutDroppingNewest(q, message) ==
  IF Len(q) < MaxDepth THEN Append(q, message) ELSE q
PutDroppingAll(q, message) ==
  IF Len(q) < MaxDepth THEN Append(q, message) ELSE <<message>>
PutUnbounded(q, message) == Append(q, message)

\* put_nowait, or after QueueFull get_nowait and put_nowait.
Put(q, message) ==
  IF Len(q) < MaxDepth THEN Append(q, message) ELSE Append(Tail(q), message)

\* A publish() task runs: every subscriber there is now gets the event.
Publish ==
  /\ ready # <<>>
  /\ IsPublish(Head(ready))
  /\ ready' = Tail(ready)
  /\ published' = Head(ready).n
  /\ queue' = [s \in Streams |->
                 IF s \in subscribers THEN Put(queue[s], Head(ready)) ELSE queue[s]]
  /\ UNCHANGED <<room, subscribers, connection>>

-----------------------------------------------------------------------------
(***************************************************************************)
(* The stream: watch_room_events and its event_generator.                  *)
(***************************************************************************)

\* GET /{room_id}/events: get_room, then a StreamingResponse, whose body is a
\* task of its own.
Connect(s) ==
  /\ phase[s] = "closed"
  /\ exists
  /\ phase' = [phase EXCEPT ![s] = "starting"]
  /\ snapshot' = [snapshot EXCEPT ![s] = state]
  /\ open' = [open EXCEPT ![s] = TRUE]
  /\ Schedule([type |-> "start", stream |-> s])
  /\ UNCHANGED <<room, published, hub, shown, joined>>

\* The first yield: the room as get_room found it.
Greet(s) ==
  /\ ready # <<>>
  /\ Head(ready) = [type |-> "start", stream |-> s]
  /\ ready' = Tail(ready)
  /\ phase' = [phase EXCEPT ![s] = "greeted"]
  /\ shown' = [shown EXCEPT ![s] = IF open[s] THEN snapshot[s] ELSE @]
  /\ UNCHANGED <<room, published, hub, snapshot, open, joined>>

\* subscription(): a new queue for this stream.
Subscribe(s) ==
  /\ phase[s] = "greeted"
  /\ phase' = [phase EXCEPT ![s] = "checking"]
  /\ subscribers' = subscribers \cup {s}
  /\ queue' = [queue EXCEPT ![s] = <<>>]
  /\ joined' = [joined EXCEPT ![s] = published]
  /\ UNCHANGED <<room, ready, published, snapshot, open, shown>>

\* The end of the generator: _unsubscribe, and the connection is closed.
Finish(s) ==
  /\ phase' = [phase EXCEPT ![s] = "closed"]
  /\ open' = [open EXCEPT ![s] = FALSE]
  /\ subscribers' = subscribers \ {s}
  /\ queue' = [queue EXCEPT ![s] = <<>>]
  /\ UNCHANGED <<room, ready, published, snapshot, shown, joined>>

\* The top of the loop: is_disconnected().
CheckConnected(s) ==
  /\ phase[s] = "checking"
  /\ open[s]
  /\ phase' = [phase EXCEPT ![s] = "waiting"]
  /\ UNCHANGED <<room, ready, published, hub, snapshot, open, shown, joined>>

LeaveLoop(s) ==
  /\ phase[s] = "checking"
  /\ ~open[s]
  /\ Finish(s)

\* A bug the checks must notice: the event stays in the queue.
DeliverPeeking(s) ==
  /\ phase[s] = "waiting"
  /\ queue[s] # <<>>
  /\ phase' = [phase EXCEPT ![s] = "checking"]
  /\ shown' = [shown EXCEPT ![s] =
                 IF open[s] /\ Head(queue[s]).type = "room_state"
                   THEN Head(queue[s]).n ELSE @]
  /\ UNCHANGED <<room, ready, published, hub, snapshot, open, joined>>

\* queue.get() returns an event and it is written to the socket; the page,
\* if it is still there, shows the room a room_state event carries.
Deliver(s) ==
  /\ phase[s] = "waiting"
  /\ queue[s] # <<>>
  /\ phase' = [phase EXCEPT ![s] = "checking"]
  /\ queue' = [queue EXCEPT ![s] = Tail(@)]
  /\ shown' = [shown EXCEPT ![s] =
                 IF open[s] /\ Head(queue[s]).type = "room_state"
                   THEN Head(queue[s]).n ELSE @]
  /\ UNCHANGED <<room, ready, published, subscribers, snapshot, open, joined>>

\* A bug the checks must notice: a keepalive does not look at the connection.
KeepaliveOnly(s) ==
  /\ phase[s] = "waiting" /\ queue[s] = <<>>
  /\ UNCHANGED vars

\* wait_for() times out after 20 s without an event: a keepalive is sent.
Keepalive(s) ==
  /\ phase[s] = "waiting"
  /\ queue[s] = <<>>
  /\ phase' = [phase EXCEPT ![s] = "checking"]
  /\ UNCHANGED <<room, ready, published, hub, snapshot, open, shown, joined>>

\* The browser goes away: a closed tab, a lost connection.
Disconnect(s) ==
  /\ open[s]
  /\ open' = [open EXCEPT ![s] = FALSE]
  /\ UNCHANGED <<room, ready, published, hub, phase, snapshot, shown, joined>>

\* Starlette may hear of it first and cancel the generator where it awaits;
\* the context manager still unsubscribes.
Cancel(s) ==
  /\ phase[s] \in {"greeted", "checking", "waiting"}
  /\ ~open[s]
  /\ Finish(s)

-----------------------------------------------------------------------------
Init ==
  /\ exists = TRUE
  /\ state = 0
  /\ posted = 0
  /\ ready = <<>>
  /\ published = 0
  /\ subscribers = {}
  /\ queue = [s \in Streams |-> <<>>]
  /\ phase = [s \in Streams |-> "closed"]
  /\ snapshot = [s \in Streams |-> 0]
  /\ open = [s \in Streams |-> FALSE]
  /\ shown = [s \in Streams |-> 0]
  /\ joined = [s \in Streams |-> 0]

\* What the loop does by itself with one stream.
Loop(s) ==
  Subscribe(s) \/ CheckConnected(s) \/ LeaveLoop(s) \/ Deliver(s) \/ Keepalive(s)

Next ==
  \/ UpdateRoomState
  \/ SendRoomMessage
  \/ DeleteRoom
  \/ Publish
  \/ \E s \in Streams : Greet(s)
  \/ \E s \in Streams : Connect(s)
  \/ \E s \in Streams : Subscribe(s)
  \/ \E s \in Streams : CheckConnected(s)
  \/ \E s \in Streams : LeaveLoop(s)
  \/ \E s \in Streams : Deliver(s)
  \/ \E s \in Streams : Keepalive(s)
  \/ \E s \in Streams : Disconnect(s)
  \/ \E s \in Streams : Cancel(s)

Spec == Init /\ [][Next]_vars

\* The loop runs every task that is ready, wakes a generator whose await is
\* over, and its timers fire.
FairSpec ==
  /\ Spec
  /\ WF_vars(Publish \/ \E s \in Streams : Greet(s))
  /\ \A s \in Streams : WF_vars(Loop(s))

-----------------------------------------------------------------------------
(***************************************************************************)
(* Properties.                                                             *)
(***************************************************************************)

TypeOK ==
  /\ exists \in BOOLEAN
  /\ state \in 0..MaxEvents
  /\ posted \in 0..MaxEvents
  /\ ready \in Seq(Task)
  /\ published \in 0..MaxEvents
  /\ subscribers \subseteq Streams
  /\ queue \in [Streams -> Seq(Event)]
  /\ phase \in [Streams -> Phases]
  /\ snapshot \in [Streams -> 0..MaxEvents]
  /\ open \in [Streams -> BOOLEAN]
  /\ shown \in [Streams -> 0..MaxEvents]
  /\ joined \in [Streams -> 0..MaxEvents]

\* A stalled page costs the server at most MaxDepth events, and a generator
\* that is not in its loop holds no queue at all.
QueuesAreBounded ==
  /\ \A s \in Streams : Len(queue[s]) <= MaxDepth
  /\ \A s \in Streams : s \in subscribers <=> phase[s] \in {"checking", "waiting"}

\* The newest state of the room, once published to a page that was subscribed,
\* is shown or still queued, unless a flood of MaxDepth later events (chat
\* messages share the queue) pushed it out.
StateLostOnlyToAFlood ==
  \A s \in subscribers :
    open[s] /\ joined[s] < state /\ state <= published =>
      \/ shown[s] = state
      \/ \E i \in DOMAIN queue[s] : queue[s][i].n = state
      \/ published - state >= MaxDepth

\* While a connection lasts its page never goes back to an older room: neither
\* the snapshot nor an event undoes a newer one, whatever order the requests,
\* the publish tasks and the stream's task are in.
PagesNeverGoBack ==
  [][\A s \in Streams :
       phase[s] \notin {"closed", "starting"} => shown[s] <= shown'[s]]_vars

\* The hub forgets a browser that went away, even if the room stays silent.
LostStreamsAreForgotten ==
  \A s \in Streams : s \in subscribers /\ ~open[s] ~> s \notin subscribers

\* An open stream gets through its queue: an event is delivered, or pushed out
\* by later ones, or its browser leaves.
QueuedEventsAreDelivered ==
  \A s \in Streams, n \in 1..MaxEvents :
    (\E i \in DOMAIN queue[s] : queue[s][i].n = n)
      ~> ~(\E i \in DOMAIN queue[s] : queue[s][i].n = n)

-----------------------------------------------------------------------------
(***************************************************************************)
(* The hub implements the feed it promises.                                *)
(***************************************************************************)
NotReading == MaxEvents + 1

\* The last event a subscriber was handed or has missed.
Position ==
  [s \in Streams |->
     IF s \notin subscribers THEN NotReading
     ELSE IF queue[s] = <<>> THEN published
     ELSE Head(queue[s]).n - 1]

Feed == INSTANCE RoomFeed WITH
  Absent <- NotReading,
  Depth <- MaxDepth,
  Events <- MaxEvents,
  published <- published,
  reader <- Position

\* Whatever the interleaving, a subscribed stream is handed every event in
\* order from the moment it subscribed, and misses only the oldest ones when
\* it is MaxDepth behind.
ImplementsFeed == Feed!Spec
=============================================================================
