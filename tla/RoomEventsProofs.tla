--------------------------- MODULE RoomEventsProofs ---------------------------
(***************************************************************************)
(* Theorems about RoomEvents, for any streams, any queue depth and any     *)
(* number of events: its types, the bound of its queues, that the hub      *)
(* implements RoomFeed, and what the pages show.                           *)
(***************************************************************************)
EXTENDS RoomEvents, SequenceFacts, TLAPS

-----------------------------------------------------------------------------
(***************************************************************************)
(* Types.                                                                  *)
(***************************************************************************)

\* A task that is not a start is an event, and the other way round.
LEMMA PublishTasksAreEvents ==
  ASSUME NEW t \in Task
  PROVE  IsPublish(t) => t \in Event
  BY DEF Task, Event, IsPublish

\* One event more in a queue: it stays a queue of events, within its bound,
\* and holds the newest of them at its end.
LEMMA PutFacts ==
  ASSUME NEW q \in Seq(Event), NEW e \in Event, Len(q) <= MaxDepth
  PROVE  /\ Put(q, e) \in Seq(Event)
         /\ Len(Put(q, e)) = IF Len(q) < MaxDepth THEN Len(q) + 1 ELSE MaxDepth
         /\ \A i \in 1..Len(Put(q, e)) :
              Put(q, e)[i] = IF i = Len(Put(q, e)) THEN e
                             ELSE IF Len(q) < MaxDepth THEN q[i] ELSE q[i + 1]
<1>1. CASE Len(q) < MaxDepth
  BY <1>1, AppendFacts DEF Put
<1>2. CASE ~(Len(q) < MaxDepth)
  <2>1. Len(q) = MaxDepth /\ q # <<>>
    BY <1>2, ElementFacts, DepthIsPositive
  <2>2. /\ Tail(q) \in Seq(Event)
        /\ Len(Tail(q)) = MaxDepth - 1
        /\ \A i \in 1..(MaxDepth - 1) : Tail(q)[i] = q[i + 1]
    BY <2>1, TailFacts
  <2>3. /\ Append(Tail(q), e) \in Seq(Event)
        /\ Len(Append(Tail(q), e)) = Len(Tail(q)) + 1
        /\ \A i \in 1..Len(Tail(q)) : Append(Tail(q), e)[i] = Tail(q)[i]
        /\ Append(Tail(q), e)[Len(Tail(q)) + 1] = e
    BY <2>2, AppendFacts
  <2> QED
    BY <1>2, <2>2, <2>3, DepthIsPositive DEF Put
<1> QED
  BY <1>1, <1>2

-----------------------------------------------------------------------------
(***************************************************************************)
(* The inductive invariant.                                                *)
(***************************************************************************)

\* The start tasks belong to streams that are starting, one task each.
StartsAreStarting ==
  /\ \A i \in DOMAIN ready :
       ~IsPublish(ready[i]) => phase[ready[i].stream] = "starting"
  /\ \A i, j \in DOMAIN ready :
       i < j /\ ~IsPublish(ready[i]) /\ ~IsPublish(ready[j])
         => ready[i].stream # ready[j].stream

\* The publish tasks are the events posted and not yet published, in order.
ReadyIsTheRest ==
  /\ published <= posted
  /\ \A i \in DOMAIN ready :
       IsPublish(ready[i]) => published < ready[i].n /\ ready[i].n <= posted
  /\ \A i, j \in DOMAIN ready :
       i < j /\ IsPublish(ready[i]) /\ IsPublish(ready[j])
         => ready[i].n < ready[j].n
  /\ \A k \in 1..MaxEvents :
       published < k /\ k <= posted =>
         \E i \in DOMAIN ready : IsPublish(ready[i]) /\ ready[i].n = k

\* A subscriber's queue is the last events published, without a gap.
QueuesHoldTheLatest ==
  \A s \in subscribers : \A i \in DOMAIN queue[s] :
    queue[s][i].n = published - Len(queue[s]) + i

Inv ==
  /\ TypeOK
  /\ QueuesAreBounded
  /\ StartsAreStarting
  /\ ReadyIsTheRest
  /\ QueuesHoldTheLatest

\* The stream whose start task is next is starting.
LEMMA NextToGreet ==
  ASSUME TypeOK, StartsAreStarting, NEW s \in Streams, Greet(s)
  PROVE  phase[s] = "starting"
<1>1. Head(ready) = ready[1] /\ 1 \in DOMAIN ready
  BY TailFacts, ElementFacts DEF Greet, TypeOK
<1>2. ready[1] = [type |-> "start", stream |-> s]
  BY <1>1 DEF Greet
<1>3. ~IsPublish(ready[1]) /\ ready[1].stream = s
  BY <1>2 DEF IsPublish
<1> QED
  BY <1>1, <1>3 DEF StartsAreStarting

\* The next event to be published is the one after the last.
LEMMA NextToPublish ==
  ASSUME TypeOK, ReadyIsTheRest, Publish
  PROVE  /\ Head(ready).n = published + 1
         /\ published + 1 \in 1..posted
<1>1. /\ ready \in Seq(Task) /\ ready # <<>> /\ DOMAIN ready = 1..Len(ready)
      /\ Head(ready) = ready[1] /\ 1 \in DOMAIN ready /\ Len(ready) \in Nat
      /\ posted \in 0..MaxEvents /\ published \in 0..MaxEvents
  BY TailFacts, ElementFacts DEF Publish, TypeOK
<1>2. IsPublish(ready[1]) /\ ready[1] \in Event
  BY <1>1, ElementFacts, PublishTasksAreEvents DEF Publish
<1>3. published < ready[1].n /\ ready[1].n <= posted /\ ready[1].n \in 1..MaxEvents
  BY <1>1, <1>2 DEF ReadyIsTheRest, Event
<1>4. PICK i \in DOMAIN ready : IsPublish(ready[i]) /\ ready[i].n = published + 1
  <2>1. published + 1 \in 1..MaxEvents /\ published + 1 <= posted
    BY <1>1, <1>3, EventsAreBounded
  <2> QED
    BY <1>1, <2>1, EventsAreBounded DEF ReadyIsTheRest
<1>5. i # 1 => ready[1].n < ready[i].n
  BY <1>1, <1>2, <1>4 DEF ReadyIsTheRest
<1>6. ready[1].n = published + 1
  BY <1>1, <1>3, <1>4, <1>5, EventsAreBounded
<1> QED
  BY <1>1, <1>3, <1>6, EventsAreBounded

\* Every step keeps the types and the bound of the queues.
LEMMA TypedInductive == Inv /\ [Next]_vars => (TypeOK /\ QueuesAreBounded)'
<1> DEFINE Typed == TypeOK /\ QueuesAreBounded
<1> SUFFICES ASSUME Inv, [Next]_vars PROVE Typed'
  OBVIOUS
<1> USE DEF Inv, TypeOK, QueuesAreBounded, room, hub, connection, Phases
<1>1. CASE UpdateRoomState
  <2>1. [type |-> "room_state", n |-> posted + 1] \in Task
    BY <1>1, EventsAreBounded DEF UpdateRoomState, Post, Task
  <2> QED
    BY <1>1, <2>1, AppendFacts, EventsAreBounded DEF UpdateRoomState, Post, Schedule
<1>2. CASE SendRoomMessage
  <2>1. [type |-> "room_message", n |-> posted + 1] \in Task
    BY <1>2, EventsAreBounded DEF SendRoomMessage, Post, Task
  <2> QED
    BY <1>2, <2>1, AppendFacts, EventsAreBounded DEF SendRoomMessage, Post, Schedule
<1>3. CASE DeleteRoom
  BY <1>3 DEF DeleteRoom
<1>4. CASE Publish
  <2>1. /\ Head(ready) \in Event
        /\ ready' \in Seq(Task)
    BY <1>4, TailFacts, PublishTasksAreEvents DEF Publish
  <2>2. published' \in 0..MaxEvents
    BY <1>4, <2>1, EventsAreBounded DEF Publish, Event
  <2>3. \A s \in Streams : queue'[s] \in Seq(Event) /\ Len(queue'[s]) <= MaxDepth
    BY <1>4, <2>1, PutFacts, DepthIsPositive DEF Publish
  <2>4. queue' \in [Streams -> Seq(Event)]
    BY <1>4, <2>3 DEF Publish
  <2> QED
    BY <1>4, <2>1, <2>2, <2>3, <2>4 DEF Publish
<1>5. ASSUME NEW s \in Streams, Greet(s) PROVE Typed'
  <2>1. ready' \in Seq(Task)
    BY <1>5, TailFacts DEF Greet
  <2>2. phase[s] = "starting"
    BY <1>5, NextToGreet
  <2> QED
    BY <1>5, <2>1, <2>2 DEF Greet
<1>6. ASSUME NEW s \in Streams, Connect(s) PROVE Typed'
  <2>1. [type |-> "start", stream |-> s] \in Task
    BY DEF Task
  <2> QED
    BY <1>6, <2>1, AppendFacts DEF Connect, Schedule
<1>7. ASSUME NEW s \in Streams, Subscribe(s) PROVE Typed'
  <2>1. queue' \in [Streams -> Seq(Event)]
    BY <1>7 DEF Subscribe
  <2>2. \A t \in Streams : Len(queue'[t]) <= MaxDepth
    BY <1>7, DepthIsPositive DEF Subscribe
  <2>3. /\ phase' \in [Streams -> Phases]
        /\ subscribers' \subseteq Streams
        /\ \A t \in Streams :
             t \in subscribers' <=> phase'[t] \in {"checking", "waiting"}
    BY <1>7 DEF Subscribe
  <2> QED
    BY <1>7, <2>1, <2>2, <2>3 DEF Subscribe
<1>8. ASSUME NEW s \in Streams, Finish(s) PROVE Typed'
  <2>1. queue' \in [Streams -> Seq(Event)]
    BY <1>8 DEF Finish
  <2>2. \A t \in Streams : Len(queue'[t]) <= MaxDepth
    BY <1>8, DepthIsPositive DEF Finish
  <2>3. /\ phase' \in [Streams -> Phases]
        /\ subscribers' \subseteq Streams
        /\ \A t \in Streams :
             t \in subscribers' <=> phase'[t] \in {"checking", "waiting"}
    BY <1>8 DEF Finish
  <2> QED
    BY <1>8, <2>1, <2>2, <2>3 DEF Finish
<1>9. ASSUME NEW s \in Streams, CheckConnected(s) \/ Keepalive(s) PROVE Typed'
  BY <1>9 DEF CheckConnected, Keepalive
<1>10. ASSUME NEW s \in Streams, Deliver(s) PROVE Typed'
  <2>1. queue[s] \in Seq(Event) /\ queue[s] # <<>>
    BY <1>10 DEF Deliver
  <2>2. /\ Tail(queue[s]) \in Seq(Event)
        /\ Len(Tail(queue[s])) <= MaxDepth
        /\ Head(queue[s]) \in Event
    BY <2>1, TailFacts, DepthIsPositive
  <2>3. Head(queue[s]).n \in 0..MaxEvents
    BY <2>2, EventsAreBounded DEF Event
  <2> QED
    BY <1>10, <2>2, <2>3 DEF Deliver
<1>11. ASSUME NEW s \in Streams, Disconnect(s) PROVE Typed'
  BY <1>11 DEF Disconnect
<1>12. CASE UNCHANGED vars
  BY <1>12 DEF vars
<1> QED
  BY <1>1, <1>2, <1>3, <1>4, <1>5, <1>6, <1>7, <1>8, <1>9, <1>10, <1>11, <1>12
  DEF Next, LeaveLoop, Cancel

\* The start tasks stay those of the starting streams: a stream starts once,
\* when its connection opens, and leaves that phase when its task runs.
LEMMA StartsStep == Inv /\ [Next]_vars => StartsAreStarting'
<1> SUFFICES ASSUME Inv, [Next]_vars PROVE StartsAreStarting'
  OBVIOUS
<1>0. /\ ready \in Seq(Task) /\ StartsAreStarting
      /\ DOMAIN ready = 1..Len(ready) /\ Len(ready) \in Nat
  BY ElementFacts DEF Inv, TypeOK
<1>1. ASSUME NEW t \in Task, IsPublish(t), Schedule(t), phase' = phase
      PROVE  StartsAreStarting'
  <2>1. /\ ready' \in Seq(Task) /\ DOMAIN ready' = 1..(Len(ready) + 1)
        /\ \A i \in 1..Len(ready) : ready'[i] = ready[i]
        /\ ready'[Len(ready) + 1] = t
    BY <1>0, <1>1, AppendFacts, ElementFacts DEF Schedule
  <2> QED
    BY <1>0, <1>1, <2>1 DEF StartsAreStarting
<1>2. CASE UpdateRoomState \/ SendRoomMessage
  <2>1. PICK type \in {"room_state", "room_message"} :
          Post(type) /\ posted + 1 \in 1..MaxEvents
    BY <1>2, EventsAreBounded DEF UpdateRoomState, SendRoomMessage, Post, Inv, TypeOK
  <2>2. /\ [type |-> type, n |-> posted + 1] \in Task
        /\ IsPublish([type |-> type, n |-> posted + 1])
    BY <2>1 DEF Task, IsPublish
  <2> QED
    BY <1>1, <2>1, <2>2 DEF Post, connection
<1>3. ASSUME NEW s \in Streams, Connect(s) PROVE StartsAreStarting'
  <2> DEFINE t == [type |-> "start", stream |-> s]
  <2>1. t \in Task /\ ~IsPublish(t) /\ t.stream = s
    BY DEF Task, IsPublish
  <2>2. /\ DOMAIN ready' = 1..(Len(ready) + 1)
        /\ \A i \in 1..Len(ready) : ready'[i] = ready[i]
        /\ ready'[Len(ready) + 1] = t
    BY <1>0, <1>3, <2>1, AppendFacts, ElementFacts DEF Connect, Schedule
  <2>3. /\ phase[s] = "closed" /\ phase'[s] = "starting"
        /\ \A r : r # s => phase'[r] = phase[r]
    BY <1>3 DEF Connect, Inv, TypeOK
  <2>4. \A i \in 1..Len(ready) : ~IsPublish(ready[i]) => ready[i].stream # s
    BY <1>0, <2>3 DEF StartsAreStarting
  <2> HIDE DEF t
  <2> QED
    BY <1>0, <2>1, <2>2, <2>3, <2>4 DEF StartsAreStarting
<1>4. ASSUME ready # <<>>, ready' = Tail(ready)
      PROVE  /\ DOMAIN ready' = 1..(Len(ready) - 1)
             /\ \A i \in DOMAIN ready' : ready'[i] = ready[i + 1]
             /\ \A i \in DOMAIN ready' : i + 1 \in DOMAIN ready
             /\ Head(ready) = ready[1] /\ 1 \in DOMAIN ready
  BY <1>0, <1>4, TailFacts, ElementFacts
<1>5. CASE Publish
  BY <1>0, <1>4, <1>5 DEF Publish, StartsAreStarting, connection
<1>6. ASSUME NEW s \in Streams, Greet(s) PROVE StartsAreStarting'
  <2>1. ready[1] = [type |-> "start", stream |-> s]
    BY <1>4, <1>6 DEF Greet
  <2>2. ~IsPublish(ready[1]) /\ ready[1].stream = s
    BY <2>1 DEF IsPublish
  <2>3. \A i \in DOMAIN ready' : ~IsPublish(ready'[i]) => ready'[i].stream # s
    BY <1>0, <1>4, <1>6, <2>2 DEF Greet, StartsAreStarting
  <2>4. \A r : r # s => phase'[r] = phase[r]
    BY <1>6 DEF Greet, Inv, TypeOK
  <2> QED
    BY <1>0, <1>4, <1>6, <2>3, <2>4 DEF Greet, StartsAreStarting
<1>7. ASSUME NEW s \in Streams, phase[s] # "starting", UNCHANGED ready,
             \A r : r # s => phase'[r] = phase[r]
      PROVE  StartsAreStarting'
  BY <1>0, <1>7 DEF StartsAreStarting
<1>8. ASSUME NEW s \in Streams,
             Subscribe(s) \/ LeaveLoop(s) \/ Cancel(s) \/ CheckConnected(s)
               \/ Deliver(s) \/ Keepalive(s)
      PROVE  StartsAreStarting'
  <2>1. phase[s] # "starting" /\ UNCHANGED ready
    BY <1>8
    DEF Subscribe, LeaveLoop, Cancel, Finish, CheckConnected, Deliver, Keepalive
  <2>2. PICK p : phase' = [phase EXCEPT ![s] = p]
    BY <1>8
    DEF Subscribe, LeaveLoop, Cancel, Finish, CheckConnected, Deliver, Keepalive
  <2>3. \A r : r # s => phase'[r] = phase[r]
    BY <2>2 DEF Inv, TypeOK
  <2> QED
    BY <1>7, <2>1, <2>3
<1>9. CASE UNCHANGED <<ready, phase>>
  BY <1>0, <1>9 DEF StartsAreStarting
<1>10. ASSUME NEW s \in Streams, Disconnect(s) PROVE UNCHANGED <<ready, phase>>
  BY <1>10 DEF Disconnect
<1> QED
  BY <1>2, <1>3, <1>5, <1>6, <1>8, <1>9, <1>10
  DEF Next, DeleteRoom, connection, vars

\* The publish tasks stay exactly the events that were posted and not yet
\* published, in the order they were posted.
LEMMA RestStep == Inv /\ [Next]_vars => ReadyIsTheRest'
<1> SUFFICES ASSUME Inv, [Next]_vars PROVE ReadyIsTheRest'
  OBVIOUS
<1>0. /\ ready \in Seq(Task) /\ ReadyIsTheRest
      /\ DOMAIN ready = 1..Len(ready) /\ Len(ready) \in Nat
      /\ posted \in 0..MaxEvents /\ published \in 0..MaxEvents
      /\ posted \in Nat /\ published \in Nat
  BY ElementFacts, EventsAreBounded DEF Inv, TypeOK
<1>1. CASE UpdateRoomState \/ SendRoomMessage
  <2>1. PICK type \in {"room_state", "room_message"} : Post(type)
    BY <1>1 DEF UpdateRoomState, SendRoomMessage
  <2> DEFINE t == [type |-> type, n |-> posted + 1]
  <2>2. t \in Task /\ IsPublish(t) /\ t.n = posted + 1
    BY <1>0, <2>1, EventsAreBounded DEF Post, Task, IsPublish
  <2>3. /\ posted' = posted + 1 /\ published' = published
        /\ ready' = Append(ready, t)
    BY <2>1 DEF Post, Schedule
  <2> HIDE DEF t
  <2>4. /\ DOMAIN ready' = 1..(Len(ready) + 1)
        /\ \A i \in 1..Len(ready) : ready'[i] = ready[i]
        /\ ready'[Len(ready) + 1] = t
    BY <1>0, <2>2, <2>3, AppendFacts, ElementFacts
  <2>5. \A k \in 1..MaxEvents : published < k /\ k <= posted + 1 =>
          \E i \in DOMAIN ready' : IsPublish(ready'[i]) /\ ready'[i].n = k
    <3> SUFFICES ASSUME NEW k \in 1..MaxEvents, published < k, k <= posted + 1
                 PROVE  \E i \in DOMAIN ready' : IsPublish(ready'[i]) /\ ready'[i].n = k
      OBVIOUS
    <3>1. CASE k = posted + 1
      BY <1>0, <2>2, <2>4, <3>1
    <3>2. CASE k # posted + 1
      <4>1. PICK i \in DOMAIN ready : IsPublish(ready[i]) /\ ready[i].n = k
        BY <1>0, <3>2 DEF ReadyIsTheRest
      <4> QED
        BY <1>0, <2>4, <4>1
    <3> QED
      BY <3>1, <3>2
  <2>6. \A i \in DOMAIN ready' :
          IsPublish(ready'[i]) => published < ready'[i].n /\ ready'[i].n <= posted + 1
    <3> SUFFICES ASSUME NEW i \in 1..(Len(ready) + 1), IsPublish(ready'[i])
                 PROVE  published < ready'[i].n /\ ready'[i].n <= posted + 1
      BY <2>4
    <3>1. CASE i = Len(ready) + 1
      BY <1>0, <2>2, <2>4, <3>1 DEF ReadyIsTheRest
    <3>2. CASE i # Len(ready) + 1
      <4>1. i \in 1..Len(ready) /\ ready'[i] = ready[i] /\ IsPublish(ready[i])
        BY <1>0, <2>4, <3>2
      <4>2. ready[i].n \in 1..MaxEvents
        BY <1>0, <4>1, ElementFacts, PublishTasksAreEvents DEF Event
      <4> QED
        BY <1>0, <4>1, <4>2, EventsAreBounded DEF ReadyIsTheRest
    <3> QED
      BY <3>1, <3>2
  <2>7. \A i, j \in DOMAIN ready' :
          i < j /\ IsPublish(ready'[i]) /\ IsPublish(ready'[j])
            => ready'[i].n < ready'[j].n
    <3> SUFFICES ASSUME NEW i \in 1..(Len(ready) + 1), NEW j \in 1..(Len(ready) + 1),
                        i < j, IsPublish(ready'[i]), IsPublish(ready'[j])
                 PROVE  ready'[i].n < ready'[j].n
      BY <2>4
    <3>1. i \in 1..Len(ready) /\ ready'[i] = ready[i]
      BY <1>0, <2>4
    <3>2. ready[i].n <= posted /\ ready[i].n \in 1..MaxEvents
      BY <1>0, <3>1, ElementFacts, PublishTasksAreEvents DEF ReadyIsTheRest, Event
    <3>3. CASE j = Len(ready) + 1
      BY <1>0, <2>2, <2>4, <3>1, <3>2, <3>3, EventsAreBounded
    <3>4. CASE j # Len(ready) + 1
      <4>1. j \in 1..Len(ready) /\ ready'[j] = ready[j]
        BY <1>0, <2>4, <3>4
      <4> QED
        BY <1>0, <3>1, <4>1 DEF ReadyIsTheRest
    <3> QED
      BY <3>3, <3>4
  <2> QED
    BY <1>0, <2>3, <2>5, <2>6, <2>7, SMTT(30) DEF ReadyIsTheRest
<1>2. ASSUME NEW s \in Streams, Connect(s) PROVE ReadyIsTheRest'
  <2> DEFINE t == [type |-> "start", stream |-> s]
  <2>1. t \in Task /\ ~IsPublish(t)
    BY DEF Task, IsPublish
  <2>2. ready' = Append(ready, t) /\ UNCHANGED <<posted, published>>
    BY <1>2 DEF Connect, Schedule, room
  <2> HIDE DEF t
  <2>3. /\ DOMAIN ready' = 1..(Len(ready) + 1)
        /\ \A i \in 1..Len(ready) : ready'[i] = ready[i]
        /\ ready'[Len(ready) + 1] = t
    BY <1>0, <2>1, <2>2, AppendFacts, ElementFacts
  <2>4. \A i \in DOMAIN ready' :
          IsPublish(ready'[i]) => i \in DOMAIN ready /\ ready'[i] = ready[i]
    BY <1>0, <2>1, <2>3
  <2> QED
    BY <1>0, <2>2, <2>3, <2>4 DEF ReadyIsTheRest
<1>3. ASSUME ready # <<>>, ready' = Tail(ready)
      PROVE  /\ DOMAIN ready' = 1..(Len(ready) - 1)
             /\ \A i \in DOMAIN ready' : ready'[i] = ready[i + 1]
             /\ \A i \in DOMAIN ready' : i + 1 \in DOMAIN ready
             /\ \A i \in DOMAIN ready \ {1} : i - 1 \in DOMAIN ready'
             /\ \A i \in DOMAIN ready \ {1} : ready'[i - 1] = ready[i]
             /\ Head(ready) = ready[1] /\ 1 \in DOMAIN ready
  BY <1>0, <1>3, TailFacts, ElementFacts
<1>4. CASE Publish
  <2>1. /\ ready # <<>> /\ ready' = Tail(ready) /\ IsPublish(Head(ready))
        /\ posted' = posted /\ published' = published + 1
        /\ ready[1].n = published + 1 /\ published + 1 <= posted
    BY <1>0, <1>3, <1>4, NextToPublish DEF Publish, room, Inv
  <2>2. \A i \in DOMAIN ready' :
          IsPublish(ready'[i]) => published + 1 < ready'[i].n /\ ready'[i].n <= posted
    <3> SUFFICES ASSUME NEW i \in DOMAIN ready', IsPublish(ready'[i])
                 PROVE  published + 1 < ready'[i].n /\ ready'[i].n <= posted
      OBVIOUS
    <3>1. /\ 1 \in DOMAIN ready /\ i + 1 \in DOMAIN ready /\ 1 < i + 1
          /\ ready'[i] = ready[i + 1] /\ IsPublish(ready[1]) /\ IsPublish(ready[i + 1])
      BY <1>0, <1>3, <2>1
    <3>2. ready[1].n < ready[i + 1].n /\ ready[i + 1].n <= posted
      BY <1>0, <3>1 DEF ReadyIsTheRest
    <3> QED
      BY <2>1, <3>1, <3>2
  <2>3. \A i, j \in DOMAIN ready' :
          i < j /\ IsPublish(ready'[i]) /\ IsPublish(ready'[j])
            => ready'[i].n < ready'[j].n
    BY <1>0, <1>3, <2>1 DEF ReadyIsTheRest
  <2>4. ASSUME NEW k \in 1..MaxEvents, published + 1 < k, k <= posted
        PROVE  \E i \in DOMAIN ready' : IsPublish(ready'[i]) /\ ready'[i].n = k
    <3>1. PICK i \in DOMAIN ready : IsPublish(ready[i]) /\ ready[i].n = k
      BY <1>0, <2>4 DEF ReadyIsTheRest
    <3>2. i # 1
      BY <1>0, <2>1, <2>4, <3>1
    <3> QED
      BY <1>3, <2>1, <3>1, <3>2
  <2> QED
    BY <1>0, <2>1, <2>2, <2>3, <2>4 DEF ReadyIsTheRest
<1>5. ASSUME NEW s \in Streams, Greet(s) PROVE ReadyIsTheRest'
  <2>1. /\ ready # <<>> /\ ready' = Tail(ready)
        /\ posted' = posted /\ published' = published
        /\ ready[1] = [type |-> "start", stream |-> s]
    BY <1>3, <1>5 DEF Greet, room
  <2>2. ~IsPublish(ready[1])
    BY <2>1 DEF IsPublish
  <2>3. \A k \in 1..MaxEvents : published < k /\ k <= posted =>
          \E i \in DOMAIN ready' : IsPublish(ready'[i]) /\ ready'[i].n = k
    BY <1>0, <1>3, <2>1, <2>2 DEF ReadyIsTheRest
  <2>4. /\ \A i \in DOMAIN ready' :
             IsPublish(ready'[i]) => published < ready'[i].n /\ ready'[i].n <= posted
        /\ \A i, j \in DOMAIN ready' :
             i < j /\ IsPublish(ready'[i]) /\ IsPublish(ready'[j])
               => ready'[i].n < ready'[j].n
    BY <1>0, <1>3, <2>1, SMTT(30) DEF ReadyIsTheRest
  <2> QED
    BY <1>0, <2>1, <2>3, <2>4 DEF ReadyIsTheRest
<1>6. CASE UNCHANGED <<ready, posted, published>>
  BY <1>0, <1>6 DEF ReadyIsTheRest
<1>7. ASSUME NEW s \in Streams,
             Subscribe(s) \/ LeaveLoop(s) \/ Cancel(s) \/ CheckConnected(s)
               \/ Deliver(s) \/ Keepalive(s) \/ Disconnect(s)
      PROVE  UNCHANGED <<ready, posted, published>>
  BY <1>7 DEF Subscribe, LeaveLoop, Cancel, Finish, CheckConnected, Deliver,
              Keepalive, Disconnect, room
<1> QED
  BY <1>1, <1>2, <1>4, <1>5, <1>6, <1>7 DEF Next, DeleteRoom, vars, room

\* The queues stay the last events published: publishing appends the next one
\* and drops only the first, delivering takes the first, joining starts empty.
LEMMA QueuesStep == Inv /\ [Next]_vars => QueuesHoldTheLatest'
<1> SUFFICES ASSUME Inv, [Next]_vars PROVE QueuesHoldTheLatest'
  OBVIOUS
<1>0. /\ queue \in [Streams -> Seq(Event)] /\ subscribers \subseteq Streams
      /\ QueuesHoldTheLatest /\ published \in Nat
      /\ \A s \in Streams : /\ DOMAIN queue[s] = 1..Len(queue[s])
                            /\ Len(queue[s]) \in Nat /\ Len(queue[s]) <= MaxDepth
      /\ MaxDepth \in Nat \ {0}
  BY ElementFacts, DepthIsPositive, EventsAreBounded DEF Inv, TypeOK, QueuesAreBounded
<1>1. CASE Publish
  <2> DEFINE e == Head(ready)
  <2>1. e \in Event /\ e.n = published + 1 /\ published' = published + 1
    BY <1>1, NextToPublish, TailFacts, PublishTasksAreEvents DEF Publish, Inv, TypeOK
  <2>2. /\ subscribers' = subscribers
        /\ \A s \in subscribers : queue'[s] = Put(queue[s], e)
    BY <1>0, <1>1 DEF Publish
  <2> HIDE DEF e
  <2> SUFFICES ASSUME NEW s \in subscribers, NEW i \in DOMAIN queue'[s]
               PROVE  queue'[s][i].n = published' - Len(queue'[s]) + i
    BY <2>2 DEF QueuesHoldTheLatest
  <2>3. /\ queue'[s] \in Seq(Event)
        /\ Len(queue'[s]) = IF Len(queue[s]) < MaxDepth THEN Len(queue[s]) + 1 ELSE MaxDepth
        /\ \A j \in 1..Len(queue'[s]) :
             queue'[s][j] = IF j = Len(queue'[s]) THEN e
                            ELSE IF Len(queue[s]) < MaxDepth THEN queue[s][j]
                            ELSE queue[s][j + 1]
    <3>1. queue[s] \in Seq(Event) /\ Len(queue[s]) <= MaxDepth
      BY <1>0
    <3>2. /\ Put(queue[s], e) \in Seq(Event)
          /\ Len(Put(queue[s], e)) =
               IF Len(queue[s]) < MaxDepth THEN Len(queue[s]) + 1 ELSE MaxDepth
          /\ \A j \in 1..Len(Put(queue[s], e)) :
               Put(queue[s], e)[j] = IF j = Len(Put(queue[s], e)) THEN e
                                     ELSE IF Len(queue[s]) < MaxDepth THEN queue[s][j]
                                     ELSE queue[s][j + 1]
      BY <2>1, <3>1, PutFacts
    <3>3. queue'[s] = Put(queue[s], e)
      BY <2>2
    <3> QED
      BY <3>2, <3>3
  <2>4. i \in 1..Len(queue'[s])
    BY <2>3, ElementFacts
  <2>5. CASE i = Len(queue'[s])
    BY <1>0, <2>1, <2>3, <2>4, <2>5
  <2>6. CASE i # Len(queue'[s]) /\ Len(queue[s]) < MaxDepth
    <3>1. /\ i \in DOMAIN queue[s] /\ queue'[s][i] = queue[s][i]
          /\ Len(queue'[s]) = Len(queue[s]) + 1
      BY <1>0, <2>3, <2>4, <2>6
    <3>2. queue[s][i].n = published - Len(queue[s]) + i
      BY <1>0, <3>1 DEF QueuesHoldTheLatest
    <3>3. published \in Nat /\ Len(queue[s]) \in Nat /\ i \in Nat
      BY <1>0, <2>4
    <3> QED
      BY <2>1, <3>1, <3>2, <3>3
  <2>7. CASE i # Len(queue'[s]) /\ Len(queue[s]) = MaxDepth
    <3>1. i + 1 \in DOMAIN queue[s] /\ queue'[s][i] = queue[s][i + 1]
      BY <1>0, <2>3, <2>4, <2>7
    <3>2. queue[s][i + 1].n = published - MaxDepth + (i + 1)
      BY <1>0, <2>7, <3>1 DEF QueuesHoldTheLatest
    <3> QED
      BY <1>0, <2>1, <2>3, <2>4, <2>7, <3>1, <3>2
  <2> QED
    BY <1>0, <2>5, <2>6, <2>7
<1>2. ASSUME NEW s \in Streams, Deliver(s) PROVE QueuesHoldTheLatest'
  <2>1. /\ queue[s] # <<>> /\ queue'[s] = Tail(queue[s])
        /\ \A r \in Streams : r # s => queue'[r] = queue[r]
        /\ UNCHANGED <<subscribers, published>>
    BY <1>0, <1>2 DEF Deliver
  <2>2. /\ Len(queue'[s]) = Len(queue[s]) - 1
        /\ DOMAIN queue'[s] = 1..(Len(queue[s]) - 1)
        /\ \A i \in 1..(Len(queue[s]) - 1) : queue'[s][i] = queue[s][i + 1]
    BY <1>0, <2>1, TailFacts, ElementFacts
  <2>3. s \in subscribers => \A i \in DOMAIN queue'[s] :
          queue'[s][i].n = published - Len(queue'[s]) + i
    <3> SUFFICES ASSUME s \in subscribers, NEW i \in DOMAIN queue'[s]
                 PROVE  queue'[s][i].n = published - Len(queue'[s]) + i
      OBVIOUS
    <3>1. i + 1 \in DOMAIN queue[s] /\ queue'[s][i] = queue[s][i + 1]
      BY <1>0, <2>2
    <3>2. queue[s][i + 1].n = published - Len(queue[s]) + (i + 1)
      BY <1>0, <3>1 DEF QueuesHoldTheLatest
    <3> QED
      BY <1>0, <2>2, <3>1, <3>2
  <2> QED
    <3>1. ASSUME NEW r \in subscribers', r # s, NEW i \in DOMAIN queue'[r]
          PROVE  queue'[r][i].n = published' - Len(queue'[r]) + i
      BY <1>0, <2>1, <3>1 DEF QueuesHoldTheLatest
    <3>2. s \in subscribers' => \A i \in DOMAIN queue'[s] :
            queue'[s][i].n = published' - Len(queue'[s]) + i
      BY <2>1, <2>3
    <3> QED
      BY <3>1, <3>2 DEF QueuesHoldTheLatest
<1>3. ASSUME NEW s \in Streams, Subscribe(s) \/ LeaveLoop(s) \/ Cancel(s)
      PROVE  QueuesHoldTheLatest'
  <2>1. /\ queue' = [queue EXCEPT ![s] = <<>>] /\ published' = published
        /\ \A r \in subscribers' : r = s \/ r \in subscribers
    BY <1>3 DEF Subscribe, LeaveLoop, Cancel, Finish
  <2>2. DOMAIN queue'[s] = {}
    BY <1>0, <2>1
  <2>3. \A r \in Streams : r # s => queue'[r] = queue[r]
    BY <1>0, <2>1
  <2> QED
    BY <1>0, <2>1, <2>2, <2>3 DEF QueuesHoldTheLatest
<1>4. CASE UNCHANGED <<subscribers, queue, published>>
  BY <1>0, <1>4 DEF QueuesHoldTheLatest
<1>5. CASE UpdateRoomState \/ SendRoomMessage \/ DeleteRoom
  BY <1>4, <1>5 DEF UpdateRoomState, SendRoomMessage, Post, DeleteRoom, hub
<1>6. ASSUME NEW s \in Streams,
             Connect(s) \/ Greet(s) \/ CheckConnected(s) \/ Keepalive(s) \/ Disconnect(s)
      PROVE  QueuesHoldTheLatest'
  BY <1>4, <1>6 DEF Connect, Greet, CheckConnected, Keepalive, Disconnect, hub
<1> QED
  BY <1>1, <1>2, <1>3, <1>4, <1>5, <1>6 DEF Next, vars, hub

\* The initial state satisfies the invariant.
LEMMA InvInitially == Init => Inv
  BY DepthIsPositive, EventsAreBounded
  DEF Init, Inv, TypeOK, QueuesAreBounded, Phases, StartsAreStarting,
      ReadyIsTheRest, QueuesHoldTheLatest

\* The invariant is inductive, so it holds in every behaviour.
LEMMA InvAlways == Spec => []Inv
<1>1. Inv /\ [Next]_vars => Inv'
  BY TypedInductive, StartsStep, RestStep, QueuesStep DEF Inv
<1> QED
  BY <1>1, InvInitially, PTL DEF Spec

-----------------------------------------------------------------------------
\* The hub and the streams never hold anything of a wrong type.
THEOREM TypeCorrect == Spec => []TypeOK
<1>1. Inv => TypeOK
  BY DEF Inv
<1> QED
  BY <1>1, InvAlways, PTL

\* A stalled page costs at most MaxDepth events, whatever MaxDepth is, and
\* only the generators inside their loop own a queue.
THEOREM StalledPagesAreCheap == Spec => []QueuesAreBounded
<1>1. Inv => QueuesAreBounded
  BY DEF Inv
<1> QED
  BY <1>1, InvAlways, PTL

-----------------------------------------------------------------------------
(***************************************************************************)
(* The refinement.                                                         *)
(***************************************************************************)

\* The head of a subscriber's queue is as far behind as the queue is long.
PositionsAreLags ==
  /\ published \in 0..MaxEvents
  /\ \A s \in subscribers : /\ s \in Streams
                           /\ Position[s] = published - Len(queue[s])
                           /\ Len(queue[s]) \in 0..MaxDepth
                           /\ Position[s] \in 0..MaxEvents
  /\ \A s \in Streams \ subscribers : Position[s] = MaxEvents + 1

\* It follows from the invariant.
LEMMA PositionOfASubscriber == Inv => PositionsAreLags
<1> SUFFICES ASSUME Inv PROVE PositionsAreLags
  OBVIOUS
<1>1. /\ published \in 0..MaxEvents /\ MaxEvents \in Nat /\ MaxDepth \in Nat
      /\ \A s \in subscribers : s \in Streams /\ queue[s] \in Seq(Event)
  BY EventsAreBounded, DepthIsPositive DEF Inv, TypeOK
<1>2. ASSUME NEW s \in subscribers
      PROVE  /\ Position[s] = published - Len(queue[s])
             /\ Len(queue[s]) \in 0..MaxDepth
             /\ Position[s] \in 0..MaxEvents
  <2>1. /\ Len(queue[s]) \in Nat /\ Len(queue[s]) <= MaxDepth
        /\ DOMAIN queue[s] = 1..Len(queue[s])
        /\ queue[s] = <<>> <=> Len(queue[s]) = 0
    BY <1>1, ElementFacts DEF Inv, QueuesAreBounded
  <2>2. CASE queue[s] = <<>>
    BY <1>1, <2>1, <2>2 DEF Position
  <2>3. CASE queue[s] # <<>>
    <3>1. Head(queue[s]) = queue[s][1] /\ queue[s][1] \in Event /\ 1 \in DOMAIN queue[s]
      BY <1>1, <2>1, <2>3, TailFacts
    <3>2. queue[s][1].n = published - Len(queue[s]) + 1
      BY <3>1 DEF Inv, QueuesHoldTheLatest
    <3>3. queue[s][1].n \in 1..MaxEvents
      BY <3>1 DEF Event
    <3>4. Position[s] = queue[s][1].n - 1
      BY <1>1, <2>3, <3>1 DEF Position
    <3>5. ASSUME NEW n \in 1..MaxEvents, NEW len \in Nat, len <= MaxDepth,
                 n = published - len + 1
          PROVE  /\ n - 1 = published - len
                 /\ len \in 0..MaxDepth
                 /\ n - 1 \in 0..MaxEvents
      BY <1>1, <3>5
    <3> QED
      BY <2>1, <3>2, <3>3, <3>4, <3>5
  <2> QED
    BY <2>2, <2>3
<1> QED
  BY <1>1, <1>2 DEF Position, NotReading, PositionsAreLags

\* The initial state of the hub is that of the feed.
LEMMA FeedInitially == Init => Feed!Init
  BY DEF Init, Feed!Init, Position

\* Every step of the hub is a step of the feed or leaves it alone.
LEMMA FeedSteps == Inv /\ Inv' /\ [Next]_vars => [Feed!Next]_(Feed!feedVars)
<1> SUFFICES ASSUME Inv, Inv', [Next]_vars PROVE [Feed!Next]_(Feed!feedVars)
  OBVIOUS
<1>0. PositionsAreLags /\ PositionsAreLags'
  BY PositionOfASubscriber, PTL
<1>1. /\ MaxEvents \in Nat /\ MaxDepth \in Nat \ {0}
      /\ published \in 0..MaxEvents /\ published' \in 0..MaxEvents
      /\ subscribers \subseteq Streams
      /\ queue \in [Streams -> Seq(Event)]
      /\ DOMAIN Position = Streams
      /\ DOMAIN Position' = Streams
      /\ Feed!Readers = subscribers
  <2>1. Feed!Readers = subscribers
    BY <1>0, EventsAreBounded
    DEF Feed!Readers, PositionsAreLags, NotReading, Inv, TypeOK
  <2> QED
    BY <1>0, <2>1, EventsAreBounded, DepthIsPositive
    DEF PositionsAreLags, Inv, TypeOK, Position
<1>2. CASE Publish
  <2>1. /\ published' = published + 1 /\ subscribers' = subscribers
        /\ published < MaxEvents
    BY <1>1, <1>2, NextToPublish, EventsAreBounded DEF Publish, Inv, TypeOK
  <2>2. ASSUME NEW s \in Streams
        PROVE  Position'[s] = IF s \in Feed!Readers /\ Feed!Lag(s) = MaxDepth
                                THEN Position[s] + 1 ELSE Position[s]
    <3>1. CASE s \notin subscribers
      BY <1>0, <1>1, <2>1, <3>1 DEF PositionsAreLags
    <3>2. CASE s \in subscribers
      <4>1. Head(ready) \in Event
        BY <1>2, TailFacts, PublishTasksAreEvents DEF Publish, Inv, TypeOK
      <4>2. queue[s] \in Seq(Event) /\ Len(queue[s]) <= MaxDepth /\ Len(queue[s]) \in Nat
        BY <1>1, ElementFacts DEF Inv, QueuesAreBounded
      <4>3. queue'[s] = Put(queue[s], Head(ready))
        BY <1>2, <3>2 DEF Publish
      <4>4. Len(queue'[s]) = IF Len(queue[s]) < MaxDepth THEN Len(queue[s]) + 1
                             ELSE MaxDepth
        BY <4>1, <4>2, <4>3, PutFacts
      <4>5. /\ Position[s] = published - Len(queue[s])
            /\ Position'[s] = published + 1 - Len(queue'[s])
        <5>1. s \in subscribers' /\ published' = published + 1
          BY <2>1, <3>2
        <5>2. Position'[s] = published' - Len(queue'[s])
          BY <1>0, <5>1 DEF PositionsAreLags
        <5>3. Position[s] = published - Len(queue[s])
          BY <1>0, <3>2 DEF PositionsAreLags
        <5> QED
          BY <1>1, <4>2, <4>4, <5>1, <5>2, <5>3
      <4>6. Feed!Lag(s) = Len(queue[s])
        <5>1. \A n, m \in Nat : n - (n - m) = m
          OBVIOUS
        <5>2. published \in Nat
          BY <1>1
        <5> QED
          BY <4>2, <4>5, <5>1, <5>2 DEF Feed!Lag
      <4> QED
        BY <1>1, <3>2, <4>2, <4>4, <4>5, <4>6
    <3> QED
      BY <3>1, <3>2
  <2>3. Position' = [s \in Streams |->
                       IF s \in Feed!Readers /\ Feed!Lag(s) = MaxDepth
                         THEN Position[s] + 1 ELSE Position[s]]
    BY <2>2 DEF Position
  <2> QED
    BY <2>1, <2>3 DEF Feed!Next, Feed!Publish
<1>3. ASSUME NEW s \in Streams, Subscribe(s) PROVE Feed!Join(s)
  <2>1. s \notin subscribers
    BY <1>3 DEF Subscribe, Inv, QueuesAreBounded
  <2>2. Position' = [Position EXCEPT ![s] = published]
    BY <1>1, <1>3 DEF Subscribe, Position
  <2> QED
    BY <1>1, <1>3, <2>1, <2>2 DEF Feed!Join, Subscribe
<1>4. ASSUME NEW s \in Streams, Deliver(s) PROVE Feed!Read(s)
  <2>1. s \in subscribers /\ queue[s] # <<>> /\ queue[s] \in Seq(Event)
    BY <1>1, <1>4 DEF Deliver, Inv, QueuesAreBounded
  <2>2. Len(queue[s]) \in Nat \ {0} /\ Len(queue'[s]) = Len(queue[s]) - 1
    BY <1>1, <1>4, <2>1, TailFacts DEF Deliver
  <2>3. published' = published /\ subscribers' = subscribers
    BY <1>4 DEF Deliver
  <2>4. /\ Position[s] = published - Len(queue[s])
        /\ Position'[s] = published - Len(queue'[s])
    BY <1>0, <2>1, <2>3 DEF PositionsAreLags
  <2>5. Position'[s] = Position[s] + 1 /\ Position[s] < published
    BY <1>1, <2>2, <2>4
  <2>6. \A r \in Streams : r # s => Position'[r] = Position[r]
    BY <1>1, <1>4, <2>3 DEF Deliver, Position
  <2>7. Position' = [Position EXCEPT ![s] = @ + 1]
    BY <1>1, <2>5, <2>6 DEF Position
  <2> QED
    BY <1>1, <2>1, <2>3, <2>5, <2>7 DEF Feed!Read
<1>5. ASSUME NEW s \in Streams, Finish(s) PROVE [Feed!Next]_(Feed!feedVars)
  <2>1. published' = published /\ Position' = [Position EXCEPT ![s] = NotReading]
    BY <1>1, <1>5 DEF Finish, Position
  <2>2. CASE s \in subscribers
    BY <1>1, <2>1, <2>2 DEF Feed!Next, Feed!Leave
  <2>3. CASE s \notin subscribers
    <3>1. Position[s] = NotReading
      BY <2>3 DEF Position
    <3>2. Position' = Position
      BY <1>1, <2>1, <3>1 DEF Position
    <3> QED
      BY <2>1, <3>2 DEF Feed!feedVars
  <2> QED
    BY <2>2, <2>3
<1>6. CASE UNCHANGED <<published, subscribers, queue>>
  BY <1>6 DEF Position, Feed!feedVars
<1>7. CASE UpdateRoomState \/ SendRoomMessage \/ DeleteRoom
  BY <1>6, <1>7 DEF UpdateRoomState, SendRoomMessage, Post, DeleteRoom, hub
<1>8. ASSUME NEW s \in Streams,
             Connect(s) \/ Greet(s) \/ CheckConnected(s) \/ Keepalive(s) \/ Disconnect(s)
      PROVE  [Feed!Next]_(Feed!feedVars)
  BY <1>6, <1>8 DEF Connect, Greet, CheckConnected, Keepalive, Disconnect, hub
<1> QED
  BY <1>2, <1>3, <1>4, <1>5, <1>6, <1>7, <1>8
  DEF Next, vars, hub, LeaveLoop, Cancel, Feed!Next

\* The hub keeps the promise of RoomFeed for any streams, depth and events: in
\* order, at most once, without a gap unless the stream is a full queue behind.
THEOREM HubImplementsFeed == Spec => ImplementsFeed
<1>1. Spec => []Inv
  BY InvAlways
<1> QED
  BY <1>1, FeedInitially, FeedSteps, PTL DEF Spec, ImplementsFeed, Feed!Spec

-----------------------------------------------------------------------------
(***************************************************************************)
(* What a page shows.                                                      *)
(*                                                                         *)
(* The invariant above says nothing of what the events carry.  What does:  *)
(* the last state is the newest event of its kind wherever it is on its    *)
(* way; a snapshot is older than every event that will be published once   *)
(* the stream has begun; so the page is always behind its queue; and the   *)
(* newest state has left the queue only to be shown, or in a flood.        *)
(***************************************************************************)

\* An event on its way agrees with the row about which state is the newest.
Agrees(e, latest) ==
  /\ e.type = "room_state" => e.n <= latest
  /\ e.n = latest => e.type = "room_state"

NewestIsAState ==
  /\ state <= posted
  /\ \A i \in DOMAIN ready : IsPublish(ready[i]) => Agrees(ready[i], state)
  /\ \A s \in subscribers : \A i \in DOMAIN queue[s] : Agrees(queue[s][i], state)

SnapshotsAreBehind ==
  /\ \A s \in Streams : snapshot[s] <= posted
  /\ \A i, j \in DOMAIN ready :
       i < j /\ ~IsPublish(ready[i]) /\ IsPublish(ready[j])
         => snapshot[ready[i].stream] < ready[j].n

PagesAreBehind ==
  /\ \A s \in Streams : phase[s] = "greeted" /\ open[s] => shown[s] <= published
  /\ \A s \in subscribers : open[s] => shown[s] <= published - Len(queue[s])

DeliveredStatesAreShown ==
  \A s \in subscribers :
    open[s] /\ joined[s] < state /\ state <= published - Len(queue[s])
      => shown[s] = state \/ published - state >= MaxDepth

ShownInv ==
  NewestIsAState /\ SnapshotsAreBehind /\ PagesAreBehind /\ DeliveredStatesAreShown

\* The types of what follows, in the form the arithmetic needs.
LEMMA Numbers ==
  ASSUME Inv
  PROVE  /\ MaxEvents \in Nat /\ MaxDepth \in Nat /\ MaxDepth > 0
         /\ state \in Nat /\ posted \in Nat /\ published \in Nat /\ published <= posted
         /\ ready \in Seq(Task) /\ DOMAIN ready = 1..Len(ready) /\ Len(ready) \in Nat
         /\ subscribers \subseteq Streams
         /\ \A s \in Streams :
              /\ snapshot[s] \in Nat /\ shown[s] \in Nat /\ joined[s] \in Nat
              /\ queue[s] \in Seq(Event) /\ Len(queue[s]) \in Nat /\ Len(queue[s]) <= MaxDepth
              /\ DOMAIN queue[s] = 1..Len(queue[s])
<1>1. MaxEvents \in Nat /\ MaxDepth \in Nat /\ MaxDepth > 0
  BY EventsAreBounded, DepthIsPositive
<1>2. /\ TypeOK /\ QueuesAreBounded /\ published <= posted
  BY DEF Inv, ReadyIsTheRest
<1>3. \A n \in 0..MaxEvents : n \in Nat
  BY <1>1
<1> QED
  BY <1>1, <1>2, <1>3, ElementFacts DEF TypeOK, QueuesAreBounded

\* The events of a queue, by their numbers.
LEMMA QueueNumbers ==
  ASSUME Inv, NEW s \in subscribers
  PROVE  \A i \in 1..Len(queue[s]) :
           /\ queue[s][i] \in Event
           /\ queue[s][i].n = published - Len(queue[s]) + i
BY Numbers, ElementFacts DEF Inv, QueuesHoldTheLatest

\* A task more behind those there are.
LEMMA ScheduleFacts ==
  ASSUME Inv, NEW t \in Task, Schedule(t)
  PROVE  /\ DOMAIN ready' = 1..(Len(ready) + 1)
         /\ \A i \in 1..Len(ready) : ready'[i] = ready[i]
         /\ ready'[Len(ready) + 1] = t
BY Numbers, AppendFacts, ElementFacts DEF Schedule

\* The first task runs.
LEMMA RunFacts ==
  ASSUME Inv, ready # <<>>, ready' = Tail(ready)
  PROVE  /\ DOMAIN ready' = 1..(Len(ready) - 1)
         /\ \A i \in DOMAIN ready' : ready'[i] = ready[i + 1] /\ i + 1 \in DOMAIN ready
         /\ Head(ready) = ready[1] /\ 1 \in DOMAIN ready
BY Numbers, TailFacts, ElementFacts

\* What posting does: the event is the newest, and no task knows a newer one.
LEMMA PostFacts ==
  ASSUME Inv, NEW type \in {"room_state", "room_message"}, Post(type)
  PROVE  /\ posted' = posted + 1 /\ posted + 1 \in 1..MaxEvents
         /\ DOMAIN ready' = 1..(Len(ready) + 1)
         /\ \A i \in 1..Len(ready) : ready'[i] = ready[i]
         /\ ready'[Len(ready) + 1] = [type |-> type, n |-> posted + 1]
         /\ IsPublish(ready'[Len(ready) + 1])
         /\ UNCHANGED <<published, subscribers, queue, phase, snapshot, open, shown, joined>>
<1>1. posted + 1 \in 1..MaxEvents /\ posted' = posted + 1
  BY Numbers DEF Post, Inv, TypeOK
<1>2. [type |-> type, n |-> posted + 1] \in Task
  BY <1>1 DEF Task
<1>3. Schedule([type |-> type, n |-> posted + 1])
  BY DEF Post
<1>4. IsPublish([type |-> type, n |-> posted + 1])
  BY DEF IsPublish
<1>5. UNCHANGED <<published, subscribers, queue, phase, snapshot, open, shown, joined>>
  BY DEF Post, hub, connection
<1> QED
  BY <1>1, <1>2, <1>3, <1>4, <1>5, ScheduleFacts

\* Posting keeps it: the new event is behind everything, and a new state is
\* newer than all the events there are.
LEMMA PostKeepsShown ==
  ASSUME Inv, ShownInv, UpdateRoomState \/ SendRoomMessage
  PROVE  ShownInv'
<1>1. PICK type \in {"room_state", "room_message"} :
        /\ Post(type)
        /\ state' = IF type = "room_state" THEN posted + 1 ELSE state
  BY DEF UpdateRoomState, SendRoomMessage
<1> DEFINE e == [type |-> type, n |-> posted + 1]
<1>2. e.type = type /\ e.n = posted + 1
  OBVIOUS
<1>3. /\ posted' = posted + 1 /\ DOMAIN ready' = 1..(Len(ready) + 1)
      /\ \A i \in 1..Len(ready) : ready'[i] = ready[i]
      /\ ready'[Len(ready) + 1] = e /\ IsPublish(ready'[Len(ready) + 1])
      /\ UNCHANGED <<published, subscribers, queue, phase, snapshot, open, shown, joined>>
  BY <1>1, PostFacts
<1> HIDE DEF e
<1>4. state <= posted
  BY DEF ShownInv, NewestIsAState
<1>5. \A i \in 1..Len(ready) :
        IsPublish(ready[i]) => ready[i].n <= posted /\ ready[i].n \in Nat
  <2>1. ASSUME NEW i \in 1..Len(ready), IsPublish(ready[i])
        PROVE  ready[i].n <= posted /\ ready[i].n \in Nat
    <3>1. i \in DOMAIN ready /\ ready[i] \in Event
      BY <2>1, Numbers, ElementFacts, PublishTasksAreEvents
    <3> QED
      BY <2>1, <3>1 DEF Event, Inv, ReadyIsTheRest
  <2> QED
    BY <2>1
<1>6. ASSUME NEW s \in subscribers, NEW i \in DOMAIN queue[s]
      PROVE  queue[s][i].n <= posted /\ queue[s][i].n \in Nat
  <2>1. i \in 1..Len(queue[s]) /\ queue[s][i] \in Event /\ Len(queue[s]) \in Nat
    BY Numbers, QueueNumbers
  <2>2. queue[s][i].n = published - Len(queue[s]) + i
    BY <2>1, QueueNumbers
  <2> QED
    <3>1. posted \in Nat /\ published \in Nat /\ published <= posted
      BY Numbers
    <3>2. queue[s][i].n \in Nat
      BY <2>1 DEF Event
    <3> QED
      BY <2>1, <2>2, <3>1, <3>2
<1>7. \A d : Agrees(d, state) /\ d.n \in Nat /\ d.n <= posted => Agrees(d, state')
  BY <1>1, <1>4, Numbers DEF Agrees
<1>8. NewestIsAState'
  <2>1. state' <= posted'
    BY <1>1, <1>3, <1>4, Numbers
  <2>2. Agrees(e, state')
    BY <1>1, <1>2, <1>4, Numbers DEF Agrees
  <2>3. \A i \in DOMAIN ready' : IsPublish(ready'[i]) => Agrees(ready'[i], state')
    BY <1>3, <1>5, <1>7, <2>2, Numbers DEF ShownInv, NewestIsAState
  <2>4. \A s \in subscribers' : \A i \in DOMAIN queue'[s] : Agrees(queue'[s][i], state')
    BY <1>3, <1>6, <1>7 DEF ShownInv, NewestIsAState
  <2> QED
    BY <2>1, <2>3, <2>4 DEF NewestIsAState
<1>9. SnapshotsAreBehind'
  <2>1. \A s \in Streams : snapshot[s] <= posted /\ snapshot[s] \in Nat
    BY Numbers DEF ShownInv, SnapshotsAreBehind
  <2>2. \A s \in Streams : snapshot'[s] <= posted'
    BY <1>3, <2>1, Numbers
  <2>3. ASSUME NEW i \in DOMAIN ready', NEW j \in DOMAIN ready',
               i < j, ~IsPublish(ready'[i]), IsPublish(ready'[j])
        PROVE  snapshot'[ready'[i].stream] < ready'[j].n
    <3>1. i \in 1..Len(ready) /\ ready'[i] = ready[i] /\ i \in DOMAIN ready
      BY <1>3, <2>3, Numbers
    <3>2. ready[i].stream \in Streams
      BY <2>3, <3>1, Numbers, ElementFacts DEF Task, IsPublish
    <3>3. CASE j = Len(ready) + 1
      BY <1>2, <1>3, <2>1, <3>1, <3>2, <3>3, Numbers
    <3>4. CASE j \in 1..Len(ready)
      BY <1>3, <2>3, <3>1, <3>4, Numbers DEF ShownInv, SnapshotsAreBehind
    <3> QED
      BY <1>3, <3>3, <3>4, Numbers
  <2> QED
    BY <2>2, <2>3 DEF SnapshotsAreBehind
<1>10. PagesAreBehind'
  BY <1>3 DEF ShownInv, PagesAreBehind
<1>11. DeliveredStatesAreShown'
  <2>1. CASE type = "room_state"
    <3>1. \A s \in subscribers' : ~(state' <= published' - Len(queue'[s]))
      BY <1>1, <1>3, <2>1, Numbers
    <3> QED
      BY <3>1 DEF DeliveredStatesAreShown
  <2>2. CASE type # "room_state"
    BY <1>1, <1>3, <2>2 DEF ShownInv, DeliveredStatesAreShown
  <2> QED
    BY <2>1, <2>2
<1> QED
  BY <1>8, <1>9, <1>10, <1>11 DEF ShownInv

\* Publishing keeps it: the event goes to the end of every queue, and where it
\* pushes one out, that one was a flood behind.
LEMMA PublishKeepsShown ==
  ASSUME Inv, ShownInv, Publish
  PROVE  ShownInv'
<1> DEFINE e == Head(ready)
<1>1. /\ ready # <<>> /\ ready' = Tail(ready) /\ IsPublish(e)
      /\ published' = e.n
      /\ \A s \in subscribers : queue'[s] = Put(queue[s], e)
      /\ UNCHANGED <<state, posted, subscribers, phase, snapshot, open, shown, joined>>
  BY Numbers DEF Publish, room, connection
<1>2. /\ DOMAIN ready' = 1..(Len(ready) - 1)
      /\ \A i \in DOMAIN ready' : ready'[i] = ready[i + 1] /\ i + 1 \in DOMAIN ready
      /\ e = ready[1] /\ 1 \in DOMAIN ready
  BY <1>1, RunFacts
<1>3. e \in Event /\ e.n = published + 1 /\ published + 1 <= posted
  BY <1>1, <1>2, Numbers, ElementFacts, PublishTasksAreEvents, NextToPublish DEF Inv
<1>4. Agrees(e, state)
  BY <1>1, <1>2 DEF ShownInv, NewestIsAState
<1> HIDE DEF e
<1>5. ASSUME NEW s \in subscribers
      PROVE  /\ Len(queue'[s]) = IF Len(queue[s]) < MaxDepth THEN Len(queue[s]) + 1 ELSE MaxDepth
             /\ DOMAIN queue'[s] = 1..Len(queue'[s])
             /\ \A i \in 1..Len(queue'[s]) :
                  \/ queue'[s][i] = e
                  \/ \E k \in DOMAIN queue[s] : queue'[s][i] = queue[s][k]
  <2>1. queue[s] \in Seq(Event) /\ Len(queue[s]) <= MaxDepth /\ queue'[s] = Put(queue[s], e)
    BY <1>1, Numbers
  <2>2. /\ queue'[s] \in Seq(Event)
        /\ Len(queue'[s]) = IF Len(queue[s]) < MaxDepth THEN Len(queue[s]) + 1 ELSE MaxDepth
        /\ \A i \in 1..Len(queue'[s]) :
             queue'[s][i] = IF i = Len(queue'[s]) THEN e
                            ELSE IF Len(queue[s]) < MaxDepth THEN queue[s][i]
                            ELSE queue[s][i + 1]
    <3>1. /\ Put(queue[s], e) \in Seq(Event)
          /\ Len(Put(queue[s], e)) =
               IF Len(queue[s]) < MaxDepth THEN Len(queue[s]) + 1 ELSE MaxDepth
          /\ \A i \in 1..Len(Put(queue[s], e)) :
               Put(queue[s], e)[i] = IF i = Len(Put(queue[s], e)) THEN e
                                     ELSE IF Len(queue[s]) < MaxDepth THEN queue[s][i]
                                     ELSE queue[s][i + 1]
      BY <1>3, <2>1, PutFacts
    <3> QED
      BY <2>1, <3>1
  <2>3. ASSUME NEW i \in 1..Len(queue'[s]), i # Len(queue'[s])
        PROVE  \E k \in DOMAIN queue[s] : queue'[s][i] = queue[s][k]
    <3>1. CASE Len(queue[s]) < MaxDepth
      <4>1. i \in DOMAIN queue[s]
        BY <2>2, <2>3, <3>1, Numbers
      <4> QED
        BY <2>2, <2>3, <3>1, <4>1
    <3>2. CASE ~(Len(queue[s]) < MaxDepth)
      <4>1. i + 1 \in DOMAIN queue[s]
        BY <2>2, <2>3, <3>2, Numbers
      <4> QED
        BY <2>2, <2>3, <3>2, <4>1
    <3> QED
      BY <3>1, <3>2
  <2> QED
    BY <2>2, <2>3, ElementFacts
<1>6. NewestIsAState'
  <2>1. \A i \in DOMAIN ready' : IsPublish(ready'[i]) => Agrees(ready'[i], state')
    BY <1>1, <1>2 DEF ShownInv, NewestIsAState
  <2>2. \A s \in subscribers' : \A i \in DOMAIN queue'[s] : Agrees(queue'[s][i], state')
    BY <1>1, <1>4, <1>5 DEF ShownInv, NewestIsAState
  <2> QED
    BY <1>1, <2>1, <2>2 DEF ShownInv, NewestIsAState
<1>7. SnapshotsAreBehind'
  <2>1. ASSUME NEW i \in DOMAIN ready', NEW j \in DOMAIN ready',
               i < j, ~IsPublish(ready'[i]), IsPublish(ready'[j])
        PROVE  snapshot'[ready'[i].stream] < ready'[j].n
    <3>1. i + 1 \in DOMAIN ready /\ j + 1 \in DOMAIN ready /\ i + 1 < j + 1
      BY <1>2, <2>1, Numbers
    <3> QED
      BY <1>1, <1>2, <2>1, <3>1 DEF ShownInv, SnapshotsAreBehind
  <2> QED
    BY <1>1, <2>1 DEF ShownInv, SnapshotsAreBehind
<1>8. PagesAreBehind'
  <2>1. \A s \in Streams : phase'[s] = "greeted" /\ open'[s] => shown'[s] <= published'
    BY <1>1, <1>3, Numbers DEF ShownInv, PagesAreBehind
  <2>2. ASSUME NEW s \in subscribers', open'[s]
        PROVE  shown'[s] <= published' - Len(queue'[s])
    <3>1. shown[s] <= published - Len(queue[s]) /\ shown'[s] = shown[s]
      BY <1>1, <2>2 DEF ShownInv, PagesAreBehind
    <3>2. s \in Streams /\ s \in subscribers
      BY <1>1, <2>2, Numbers
    <3> QED
      BY <1>1, <1>3, <1>5, <3>1, <3>2, Numbers, SMTT(30)
  <2> QED
    BY <2>1, <2>2 DEF PagesAreBehind
<1>9. DeliveredStatesAreShown'
  <2> SUFFICES ASSUME NEW s \in subscribers', open'[s], joined'[s] < state',
                      state' <= published' - Len(queue'[s])
               PROVE  shown'[s] = state' \/ published' - state' >= MaxDepth
    BY DEF DeliveredStatesAreShown
  <2>1. s \in subscribers /\ s \in Streams /\ open[s] /\ joined[s] < state /\ state' = state
    BY <1>1, Numbers
  <2>2. CASE Len(queue[s]) < MaxDepth
    <3>1. state <= published - Len(queue[s])
      BY <1>1, <1>3, <1>5, <2>1, <2>2, Numbers
    <3>2. shown[s] = state \/ published - state >= MaxDepth
      BY <2>1, <3>1 DEF ShownInv, DeliveredStatesAreShown
    <3> QED
      BY <1>1, <1>3, <2>1, <3>2, Numbers
  <2>3. CASE ~(Len(queue[s]) < MaxDepth)
    BY <1>1, <1>3, <1>5, <2>1, <2>3, Numbers
  <2> QED
    BY <2>2, <2>3
<1> QED
  BY <1>6, <1>7, <1>8, <1>9 DEF ShownInv

\* A stream that opens reads the row, and starts behind every task there is.
LEMMA ConnectKeepsShown ==
  ASSUME Inv, ShownInv, NEW s \in Streams, Connect(s)
  PROVE  ShownInv'
<1> DEFINE t == [type |-> "start", stream |-> s]
<1>1. t \in Task /\ ~IsPublish(t) /\ t.stream = s
  BY DEF Task, IsPublish
<1>2. /\ DOMAIN ready' = 1..(Len(ready) + 1)
      /\ \A i \in 1..Len(ready) : ready'[i] = ready[i]
      /\ ready'[Len(ready) + 1] = t
  BY <1>1, ScheduleFacts DEF Connect
<1>3. /\ phase[s] = "closed" /\ phase'[s] = "starting" /\ snapshot'[s] = state
      /\ \A r \in Streams : r # s => /\ phase'[r] = phase[r] /\ snapshot'[r] = snapshot[r]
                                     /\ open'[r] = open[r]
      /\ UNCHANGED <<state, posted, published, subscribers, queue, shown, joined>>
  BY DEF Connect, Inv, TypeOK, room, hub
<1> HIDE DEF t
<1>4. s \notin subscribers
  BY <1>3 DEF Inv, QueuesAreBounded
<1>5. NewestIsAState'
  BY <1>1, <1>2, <1>3, Numbers DEF ShownInv, NewestIsAState
<1>6. SnapshotsAreBehind'
  <2>1. \A r \in Streams : snapshot'[r] <= posted'
    BY <1>3 DEF ShownInv, SnapshotsAreBehind, NewestIsAState
  <2>2. ASSUME NEW i \in DOMAIN ready', NEW j \in DOMAIN ready',
               i < j, ~IsPublish(ready'[i]), IsPublish(ready'[j])
        PROVE  snapshot'[ready'[i].stream] < ready'[j].n
    <3>1. /\ i \in DOMAIN ready /\ j \in DOMAIN ready
          /\ ready'[i] = ready[i] /\ ready'[j] = ready[j]
      BY <1>1, <1>2, <2>2, Numbers
    <3>2. ready[i].stream \in Streams
      BY <2>2, <3>1, Numbers, ElementFacts DEF Task, IsPublish
    <3>3. phase[ready[i].stream] = "starting"
      BY <2>2, <3>1 DEF Inv, StartsAreStarting
    <3>4. snapshot'[ready[i].stream] = snapshot[ready[i].stream]
      BY <1>3, <3>2, <3>3
    <3> QED
      BY <2>2, <3>1, <3>4 DEF ShownInv, SnapshotsAreBehind
  <2> QED
    BY <2>1, <2>2 DEF SnapshotsAreBehind
<1>7. PagesAreBehind'
  BY <1>3, <1>4, Numbers DEF ShownInv, PagesAreBehind
<1>8. DeliveredStatesAreShown'
  BY <1>3, <1>4, Numbers DEF ShownInv, DeliveredStatesAreShown
<1> QED
  BY <1>5, <1>6, <1>7, <1>8 DEF ShownInv

\* A snapshot is not newer than what has been published when it is shown: its
\* events are behind the stream's start.
LEMMA GreetedBehind ==
  ASSUME Inv, ShownInv, NEW s \in Streams, Greet(s)
  PROVE  snapshot[s] <= published
<1>1. Head(ready) = [type |-> "start", stream |-> s] /\ ready # <<>> /\ ready' = Tail(ready)
  BY DEF Greet
<1>2. ready[1] = [type |-> "start", stream |-> s] /\ 1 \in DOMAIN ready
  BY <1>1, RunFacts
<1>3. ~IsPublish(ready[1]) /\ ready[1].stream = s
  BY <1>2 DEF IsPublish
<1>4. snapshot[s] <= posted /\ snapshot[s] \in Nat
  BY Numbers DEF ShownInv, SnapshotsAreBehind
<1>5. CASE published = posted
  BY <1>4, <1>5
<1>6. CASE published < posted
  <2>1. published + 1 \in 1..MaxEvents /\ published < published + 1 /\ published + 1 <= posted
    BY <1>6, Numbers DEF Inv, TypeOK
  <2>2. PICK j \in DOMAIN ready : IsPublish(ready[j]) /\ ready[j].n = published + 1
    BY <2>1 DEF Inv, ReadyIsTheRest
  <2>3. 1 < j
    BY <1>3, <2>2, Numbers
  <2>4. snapshot[s] < published + 1
    BY <1>2, <1>3, <2>2, <2>3 DEF ShownInv, SnapshotsAreBehind
  <2> QED
    BY <1>4, <2>4, Numbers
<1> QED
  BY <1>5, <1>6, Numbers

\* The stream begins.
LEMMA GreetKeepsShown ==
  ASSUME Inv, ShownInv, NEW s \in Streams, Greet(s)
  PROVE  ShownInv'
<1>1. /\ ready # <<>> /\ ready' = Tail(ready)
      /\ phase'[s] = "greeted" /\ shown'[s] = IF open[s] THEN snapshot[s] ELSE shown[s]
      /\ \A r \in Streams : r # s => phase'[r] = phase[r] /\ shown'[r] = shown[r]
      /\ UNCHANGED <<state, posted, published, subscribers, queue, snapshot, open, joined>>
  BY DEF Greet, Inv, TypeOK, room, hub
<1>2. /\ DOMAIN ready' = 1..(Len(ready) - 1)
      /\ \A i \in DOMAIN ready' : ready'[i] = ready[i + 1] /\ i + 1 \in DOMAIN ready
  BY <1>1, RunFacts
<1>3. s \notin subscribers
  BY NextToGreet DEF Inv, QueuesAreBounded
<1>4. NewestIsAState'
  BY <1>1, <1>2 DEF ShownInv, NewestIsAState
<1>5. SnapshotsAreBehind'
  <2>1. ASSUME NEW i \in DOMAIN ready', NEW j \in DOMAIN ready',
               i < j, ~IsPublish(ready'[i]), IsPublish(ready'[j])
        PROVE  snapshot'[ready'[i].stream] < ready'[j].n
    <3>1. i + 1 \in DOMAIN ready /\ j + 1 \in DOMAIN ready /\ i + 1 < j + 1
      BY <1>2, <2>1, Numbers
    <3> QED
      BY <1>1, <1>2, <2>1, <3>1 DEF ShownInv, SnapshotsAreBehind
  <2> QED
    BY <1>1, <2>1 DEF ShownInv, SnapshotsAreBehind
<1>6. PagesAreBehind'
  BY <1>1, <1>3, GreetedBehind, Numbers DEF ShownInv, PagesAreBehind
<1>7. DeliveredStatesAreShown'
  BY <1>1, <1>3, Numbers DEF ShownInv, DeliveredStatesAreShown
<1> QED
  BY <1>4, <1>5, <1>6, <1>7 DEF ShownInv

\* A queue is created, or thrown away with its stream.
LEMMA QueueComesOrGoes ==
  ASSUME Inv, ShownInv, NEW s \in Streams, Subscribe(s) \/ Finish(s)
  PROVE  ShownInv'
<1>1. /\ UNCHANGED <<state, posted, published, ready, snapshot, shown>>
      /\ \A r \in Streams : r # s => /\ r \in subscribers' <=> r \in subscribers
                                     /\ phase'[r] = phase[r] /\ open'[r] = open[r]
                                     /\ queue'[r] = queue[r] /\ joined'[r] = joined[r]
  BY DEF Subscribe, Finish, Inv, TypeOK, room
<1>2. /\ subscribers' \subseteq Streams /\ queue'[s] = <<>> /\ phase'[s] # "greeted"
      /\ s \in subscribers' => phase[s] = "greeted" /\ open'[s] = open[s]
                               /\ joined'[s] = published
  BY Numbers DEF Subscribe, Finish, Inv, TypeOK
<1>3. DOMAIN queue'[s] = {} /\ Len(queue'[s]) = 0
  BY <1>2
<1>4. NewestIsAState'
  BY <1>1, <1>2, <1>3 DEF ShownInv, NewestIsAState
<1>5. SnapshotsAreBehind'
  BY <1>1 DEF ShownInv, SnapshotsAreBehind
<1>6. PagesAreBehind'
  <2>1. \A r \in Streams : phase'[r] = "greeted" /\ open'[r] => shown'[r] <= published'
    BY <1>1, <1>2 DEF ShownInv, PagesAreBehind
  <2>2. s \in subscribers' /\ open'[s] => shown'[s] <= published' - Len(queue'[s])
    <3>1. phase[s] = "greeted" /\ open[s] => shown[s] <= published
      BY DEF ShownInv, PagesAreBehind
    <3>2. published \in Nat /\ shown'[s] = shown[s] /\ published' = published
      BY <1>1, Numbers
    <3>3. published - 0 = published
      BY <3>2
    <3> QED
      BY <1>2, <1>3, <3>1, <3>2, <3>3
  <2>3. \A r \in subscribers' : r # s /\ open'[r] => shown'[r] <= published' - Len(queue'[r])
    BY <1>1, <1>2 DEF ShownInv, PagesAreBehind
  <2> QED
    BY <2>1, <2>2, <2>3 DEF PagesAreBehind
<1>7. DeliveredStatesAreShown'
  <2> SUFFICES ASSUME NEW r \in subscribers', open'[r], joined'[r] < state',
                      state' <= published' - Len(queue'[r])
               PROVE  shown'[r] = state' \/ published' - state' >= MaxDepth
    BY DEF DeliveredStatesAreShown
  <2>1. CASE r = s
    BY <1>1, <1>2, <1>3, <2>1, Numbers
  <2>2. CASE r # s
    BY <1>1, <1>2, <2>2 DEF ShownInv, DeliveredStatesAreShown
  <2> QED
    BY <2>1, <2>2
<1> QED
  BY <1>4, <1>5, <1>6, <1>7 DEF ShownInv

\* What delivering does to the page: it shows the event if that is a state, and
\* then it is one event less behind.
LEMMA DeliverFacts ==
  ASSUME Inv, ShownInv, NEW s \in Streams, Deliver(s)
  PROVE  /\ s \in subscribers /\ Len(queue[s]) > 0
         /\ Len(queue'[s]) = Len(queue[s]) - 1
         /\ DOMAIN queue'[s] = 1..(Len(queue[s]) - 1)
         /\ \A i \in DOMAIN queue'[s] : queue'[s][i] = queue[s][i + 1] /\ i + 1 \in DOMAIN queue[s]
         /\ Head(queue[s]).n = published - Len(queue[s]) + 1
         /\ Agrees(Head(queue[s]), state)
         /\ shown'[s] = IF open[s] /\ Head(queue[s]).type = "room_state"
                        THEN Head(queue[s]).n ELSE shown[s]
         /\ phase'[s] = "checking"
         /\ \A r \in Streams : r # s => /\ queue'[r] = queue[r] /\ shown'[r] = shown[r]
                                        /\ phase'[r] = phase[r]
         /\ UNCHANGED <<state, posted, published, ready, subscribers, snapshot, open, joined>>
<1>1. s \in subscribers /\ queue[s] # <<>> /\ queue[s] \in Seq(Event)
  BY Numbers DEF Deliver, Inv, QueuesAreBounded
<1>2. /\ Len(queue[s]) > 0 /\ Head(queue[s]) = queue[s][1] /\ 1 \in DOMAIN queue[s]
      /\ Tail(queue[s]) \in Seq(Event) /\ Len(Tail(queue[s])) = Len(queue[s]) - 1
      /\ DOMAIN Tail(queue[s]) = 1..(Len(queue[s]) - 1)
      /\ \A i \in 1..(Len(queue[s]) - 1) :
           Tail(queue[s])[i] = queue[s][i + 1] /\ i + 1 \in DOMAIN queue[s]
  BY <1>1, TailFacts, ElementFacts, Numbers
<1>3. queue[s][1].n = published - Len(queue[s]) + 1 /\ Agrees(queue[s][1], state)
  BY <1>1, <1>2 DEF Inv, QueuesHoldTheLatest, ShownInv, NewestIsAState
<1>4. /\ queue'[s] = Tail(queue[s]) /\ phase'[s] = "checking"
      /\ shown'[s] = IF open[s] /\ Head(queue[s]).type = "room_state"
                     THEN Head(queue[s]).n ELSE shown[s]
      /\ \A r \in Streams : r # s => /\ queue'[r] = queue[r] /\ shown'[r] = shown[r]
                                     /\ phase'[r] = phase[r]
  BY DEF Deliver, Inv, TypeOK
<1>5. UNCHANGED <<state, posted, published, ready, subscribers, snapshot, open, joined>>
  BY DEF Deliver, room
<1> QED
  BY <1>1, <1>2, <1>3, <1>4, <1>5

\* Delivering keeps it: the event is newer than what the page shows.
LEMMA DeliverKeepsShown ==
  ASSUME Inv, ShownInv, NEW s \in Streams, Deliver(s)
  PROVE  ShownInv'
<1> DEFINE len == Len(queue[s])
<1> DEFINE e == Head(queue[s])
<1>1. /\ s \in subscribers /\ len \in Nat /\ len > 0
      /\ Len(queue'[s]) = len - 1 /\ DOMAIN queue'[s] = 1..(len - 1)
      /\ \A i \in DOMAIN queue'[s] : queue'[s][i] = queue[s][i + 1] /\ i + 1 \in DOMAIN queue[s]
      /\ e.n = published - len + 1 /\ Agrees(e, state)
      /\ shown'[s] = IF open[s] /\ e.type = "room_state" THEN e.n ELSE shown[s]
      /\ phase'[s] = "checking"
  BY DeliverFacts, Numbers
<1>2. /\ \A r \in Streams : r # s => /\ queue'[r] = queue[r] /\ shown'[r] = shown[r]
                                     /\ phase'[r] = phase[r]
      /\ UNCHANGED <<state, posted, published, ready, subscribers, snapshot, open, joined>>
  BY DeliverFacts
<1> HIDE DEF len, e
<1>3. published \in Nat /\ state \in Nat /\ subscribers \subseteq Streams
      /\ \A r \in Streams : shown[r] \in Nat
  BY Numbers
<1>4. NewestIsAState'
  <2>1. \A r \in subscribers' : \A i \in DOMAIN queue'[r] : Agrees(queue'[r][i], state')
    BY <1>1, <1>2, <1>3 DEF ShownInv, NewestIsAState
  <2> QED
    BY <1>2, <2>1 DEF ShownInv, NewestIsAState
<1>5. SnapshotsAreBehind'
  BY <1>2 DEF ShownInv, SnapshotsAreBehind
<1>6. PagesAreBehind'
  <2>1. \A r \in Streams : phase'[r] = "greeted" /\ open'[r] => shown'[r] <= published'
    BY <1>1, <1>2 DEF ShownInv, PagesAreBehind
  <2>2. open[s] => shown[s] <= published - len
    BY <1>1 DEF ShownInv, PagesAreBehind, len
  <2>3. open'[s] => shown'[s] <= published' - Len(queue'[s])
    BY <1>1, <1>2, <1>3, <2>2
  <2>4. \A r \in subscribers' : r # s /\ open'[r] => shown'[r] <= published' - Len(queue'[r])
    BY <1>2, <1>3 DEF ShownInv, PagesAreBehind
  <2> QED
    BY <2>1, <2>3, <2>4 DEF PagesAreBehind
<1>7. DeliveredStatesAreShown'
  <2>1. ASSUME open[s], joined[s] < state, state <= published - Len(queue'[s])
        PROVE  shown'[s] = state \/ published - state >= MaxDepth
    <3>1. CASE state = published - len + 1
      BY <1>1, <2>1, <3>1 DEF Agrees
    <3>2. CASE state # published - len + 1
      <4>1. state <= published - len
        BY <1>1, <1>3, <2>1, <3>2
      <4>2. e.type # "room_state"
        BY <1>1, <1>3, <4>1 DEF Agrees
      <4>3. shown[s] = state \/ published - state >= MaxDepth
        BY <1>1, <2>1, <4>1 DEF ShownInv, DeliveredStatesAreShown, len
      <4> QED
        BY <1>1, <4>2, <4>3
    <3> QED
      BY <3>1, <3>2
  <2>2. \A r \in subscribers' :
          r # s /\ open'[r] /\ joined'[r] < state' /\ state' <= published' - Len(queue'[r])
            => shown'[r] = state' \/ published' - state' >= MaxDepth
    BY <1>2, <1>3 DEF ShownInv, DeliveredStatesAreShown
  <2> QED
    BY <1>2, <2>1, <2>2 DEF DeliveredStatesAreShown
<1> QED
  BY <1>4, <1>5, <1>6, <1>7 DEF ShownInv

\* The rest moves a generator on, or closes the browser's end.
LEMMA OthersKeepShown ==
  ASSUME Inv, ShownInv,
         UNCHANGED <<state, posted, published, ready, subscribers, queue, snapshot, shown, joined>>,
         \A s \in Streams : /\ phase'[s] = "greeted" => phase[s] = "greeted"
                            /\ open'[s] => open[s]
  PROVE  ShownInv'
BY Numbers DEF ShownInv, NewestIsAState, SnapshotsAreBehind, PagesAreBehind,
               DeliveredStatesAreShown

LEMMA ShownStep ==
  ASSUME Inv, ShownInv, [Next]_vars
  PROVE  ShownInv'
<1> USE DEF Inv, TypeOK
<1>1. CASE UpdateRoomState \/ SendRoomMessage
  BY <1>1, PostKeepsShown
<1>2. CASE DeleteRoom
  BY <1>2, OthersKeepShown DEF DeleteRoom, hub, connection
<1>3. CASE Publish
  BY <1>3, PublishKeepsShown
<1>4. ASSUME NEW s \in Streams, Connect(s) \/ Greet(s)
      PROVE  ShownInv'
  BY <1>4, ConnectKeepsShown, GreetKeepsShown
<1>5. ASSUME NEW s \in Streams, Subscribe(s) \/ LeaveLoop(s) \/ Cancel(s)
      PROVE  ShownInv'
  BY <1>5, QueueComesOrGoes DEF LeaveLoop, Cancel
<1>6. ASSUME NEW s \in Streams, CheckConnected(s) \/ Keepalive(s) \/ Disconnect(s)
      PROVE  ShownInv'
  BY <1>6, OthersKeepShown DEF CheckConnected, Keepalive, Disconnect, room, hub
<1>7. ASSUME NEW s \in Streams, Deliver(s)
      PROVE  ShownInv'
  BY <1>7, DeliverKeepsShown
<1>8. CASE UNCHANGED vars
  BY <1>8, OthersKeepShown DEF vars, room, hub, connection
<1> QED
  BY <1>1, <1>2, <1>3, <1>4, <1>5, <1>6, <1>7, <1>8 DEF Next

LEMMA ShownAlways == Spec => [](Inv /\ ShownInv)
<1>1. Init => ShownInv
  BY DEF Init, ShownInv, NewestIsAState, SnapshotsAreBehind, PagesAreBehind,
         DeliveredStatesAreShown
<1>2. Inv /\ ShownInv /\ [Next]_vars => ShownInv'
  BY ShownStep
<1> QED
  BY <1>1, <1>2, InvAlways, PTL DEF Spec

\* For any streams, depth and events: the newest state, once published to a
\* page that was subscribed, is shown or still queued, unless MaxDepth later
\* events pushed it out (publish, event_generator).
THEOREM StatesAreLostInFloodsOnly == Spec => []StateLostOnlyToAFlood
<1>1. Inv /\ ShownInv => StateLostOnlyToAFlood
  <2> SUFFICES ASSUME Inv, ShownInv, NEW s \in subscribers, open[s], joined[s] < state,
                      state <= published
               PROVE  \/ shown[s] = state
                      \/ \E i \in DOMAIN queue[s] : queue[s][i].n = state
                      \/ published - state >= MaxDepth
    BY DEF StateLostOnlyToAFlood
  <2>1. CASE state <= published - Len(queue[s])
    BY <2>1 DEF ShownInv, DeliveredStatesAreShown
  <2>2. CASE ~(state <= published - Len(queue[s]))
    <3>1. state - (published - Len(queue[s])) \in 1..Len(queue[s])
      BY <2>2, Numbers
    <3>2. queue[s][state - (published - Len(queue[s]))].n = state
      BY <3>1, QueueNumbers, Numbers
    <3>3. DOMAIN queue[s] = 1..Len(queue[s])
      BY Numbers
    <3> QED
      BY <3>1, <3>2, <3>3
  <2> QED
    BY <2>1, <2>2
<1> QED
  BY <1>1, ShownAlways, PTL

\* For any streams, depth and events: while a connection lasts, neither its
\* snapshot nor an event takes the page back to an older room (get_room before
\* the subscription, publish_threadsafe's tasks, the queue).
THEOREM PagesGoForwardOnly == Spec => PagesNeverGoBack
<1>1. ASSUME Inv, ShownInv, [Next]_vars,
             NEW s \in Streams, phase[s] \notin {"closed", "starting"}
      PROVE  shown[s] <= shown'[s]
  <2>1. CASE Deliver(s)
    <3>1. open[s] => shown[s] <= published - Len(queue[s])
      BY <1>1, <2>1, DeliverFacts DEF ShownInv, PagesAreBehind
    <3> QED
      BY <1>1, <2>1, <3>1, DeliverFacts, Numbers
  <2>2. CASE shown'[s] = shown[s]
    BY <1>1, <2>2, Numbers
  <2>3. ASSUME NEW r \in Streams, Deliver(r), r # s
        PROVE  shown'[s] = shown[s]
    BY <1>1, <2>3, DeliverFacts
  <2>4. ASSUME NEW r \in Streams, Greet(r)
        PROVE  shown'[s] = shown[s]
    <3>1. phase[r] = "starting"
      BY <1>1, <2>4, NextToGreet DEF Inv
    <3> QED
      BY <1>1, <2>4, <3>1 DEF Greet, Inv, TypeOK
  <2>5. ASSUME NEW r \in Streams,
               Connect(r) \/ Subscribe(r) \/ CheckConnected(r) \/ LeaveLoop(r)
                 \/ Keepalive(r) \/ Disconnect(r) \/ Cancel(r)
        PROVE  shown'[s] = shown[s]
    BY <2>5 DEF Connect, Subscribe, CheckConnected, LeaveLoop, Keepalive, Disconnect,
                Cancel, Finish
  <2>6. ASSUME UpdateRoomState \/ SendRoomMessage \/ DeleteRoom \/ Publish \/ UNCHANGED vars
        PROVE  shown'[s] = shown[s]
    BY <2>6 DEF UpdateRoomState, SendRoomMessage, Post, DeleteRoom, Publish, vars, connection
  <2>7. \A r \in Streams : Deliver(r) => r = s \/ shown'[s] = shown[s]
    BY <2>3
  <2>8. shown'[s] = shown[s] \/ Deliver(s)
    BY <1>1, <2>4, <2>5, <2>6, <2>7 DEF Next
  <2> QED
    BY <2>1, <2>2, <2>8
<1>2. Inv /\ ShownInv /\ [Next]_vars =>
        [\A s \in Streams :
           phase[s] \notin {"closed", "starting"} => shown[s] <= shown'[s]]_vars
  BY <1>1
<1> QED
  BY <1>2, ShownAlways, PTL DEF Spec, PagesNeverGoBack
=============================================================================
