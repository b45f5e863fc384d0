--------------------------- MODULE WatchRoomsProofs ---------------------------
(***************************************************************************)
(* Theorems about WatchRooms, for every set of users and rooms and every    *)
(* value of the limits that keeps their order.                              *)
(***************************************************************************)
EXTENDS WatchRooms, TLAPS

USE DEF Actors

-----------------------------------------------------------------------------
(***************************************************************************)
(* Lemmas about the operators the handlers share.                           *)
(***************************************************************************)

\* Cleanup and the cascade leave well-typed tables.
LEMMA CleanedType ==
  ASSUME TypeOK, NEW gone
  PROVE  /\ RoomsWithout(gone) \in [RoomIds -> RoomRow \cup {NoRow}]
         /\ RowsWithout(invitations, gone) \subseteq Invitation
         /\ RowsWithout(chat, gone) \subseteq Message
  BY DEF TypeOK, RoomsWithout, RowsWithout

\* A room row just written is well-typed.
LEMMA FreshRowType ==
  ASSUME NEW a \in Actors
  PROVE  [owner |-> a, idle |-> 0] \in RoomRow
  BY ConstantsAreNumbers DEF RoomRow, MaxIdle

\* A presence row just written is well-typed.
LEMMA FreshPresenceType ==
  ASSUME NEW r \in RoomIds \cup {Lobby}
  PROVE  [room |-> r, age |-> 0] \in PresenceRow
  BY ConstantsAreNumbers DEF PresenceRow, MaxSeen

\* A timestamp ages within its bound.
LEMMA OlderType ==
  ASSUME NEW max \in Nat, NEW age \in 0..max
  PROVE  Older(age, max) \in 0..max
  BY DEF Older

\* The owner of a live room is an actor.
LEMMA OwnerType ==
  ASSUME TypeOK, NEW r \in RoomIds, Live(r)
  PROVE  rooms[r] \in RoomRow /\ rooms[r].owner \in Actors
  BY DEF TypeOK, Live, RoomRow

\* Ageing neither deletes a room nor changes its owner.
LEMMA TickKeepsRooms ==
  ASSUME TypeOK, Tick, NEW r \in RoomIds
  PROVE  /\ Live(r)' <=> Live(r)
         /\ Live(r) => rooms'[r].owner = rooms[r].owner
<1>1. CASE ~Live(r)
  BY <1>1 DEF Tick, Live
<1>2. CASE Live(r)
  <2>1. rooms[r] \in RoomRow /\ rooms[r].idle \in 0..MaxIdle
    BY <1>2, OwnerType DEF RoomRow
  <2>2. [rooms[r] EXCEPT !.idle = Older(@, MaxIdle)] \in RoomRow
    BY <2>1, OlderType, ConstantsAreNumbers DEF RoomRow, MaxIdle
  <2>3. rooms'[r] = [rooms[r] EXCEPT !.idle = Older(@, MaxIdle)]
    BY <1>2 DEF Tick
  <2>4. Live(r)'
    BY <2>2, <2>3, NoRowIsNoRow DEF Live
  <2>5. rooms'[r].owner = rooms[r].owner
    BY <2>1, <2>3 DEF RoomRow
  <2> QED
    BY <1>2, <2>4, <2>5
<1> QED
  BY <1>1, <1>2

-----------------------------------------------------------------------------
\* Every table always holds rows of its type: the handlers' inserts, updates
\* and cascades keep ages within their bounds, owners and statuses known.
THEOREM TypeCorrect == Spec => []TypeOK
<1>1. Init => TypeOK
  BY ConstantsAreNumbers DEF Init, TypeOK
<1>2. TypeOK /\ [Next]_vars => TypeOK'
  <2> SUFFICES ASSUME TypeOK, [Next]_vars PROVE TypeOK'
    OBVIOUS
  <2>1. CASE Tick
    <3>1. rooms' \in [RoomIds -> RoomRow \cup {NoRow}]
      <4> SUFFICES ASSUME NEW r \in RoomIds, Live(r)
                   PROVE  [rooms[r] EXCEPT !.idle = Older(@, MaxIdle)] \in RoomRow
        BY <2>1 DEF Tick, TypeOK
      <4>1. rooms[r] \in RoomRow
        BY OwnerType
      <4>2. Older(rooms[r].idle, MaxIdle) \in 0..MaxIdle
        BY <4>1, OlderType, ConstantsAreNumbers DEF RoomRow, MaxIdle
      <4> QED
        BY <4>1, <4>2 DEF RoomRow
    <3>2. presence' \in [Users -> PresenceRow \cup {NoRow}]
      <4> SUFFICES ASSUME NEW u \in Users, presence[u] # NoRow
                   PROVE  [presence[u] EXCEPT !.age = Older(@, MaxSeen)] \in PresenceRow
        BY <2>1 DEF Tick, TypeOK
      <4>1. presence[u] \in PresenceRow
        BY DEF TypeOK
      <4>2. Older(presence[u].age, MaxSeen) \in 0..MaxSeen
        BY <4>1, OlderType, ConstantsAreNumbers DEF PresenceRow, MaxSeen
      <4> QED
        BY <4>1, <4>2 DEF PresenceRow
    <3> QED
      BY <2>1, <3>1, <3>2 DEF Tick, TypeOK
  <2>2. CASE Cleanup
    BY <2>2, CleanedType DEF Cleanup, CleanedTables, TypeOK
  <2>3. CASE BuildLobby
    BY <2>3, CleanedType DEF BuildLobby, CleanedTables, TypeOK
  <2>4. ASSUME NEW a \in Actors, CreateRoom(a) PROVE TypeOK'
    <3> PICK r \in RoomIds \ issued :
              /\ issued' = issued \cup {r}
              /\ rooms' = [rooms EXCEPT ![r] = [owner |-> a, idle |-> 0]]
      BY <2>4 DEF CreateRoom
    <3> QED
      BY <2>4, FreshRowType DEF CreateRoom, TypeOK
  <2>5. ASSUME NEW a \in Actors, NEW r \in RoomIds, UpdateRoomState(a, r) PROVE TypeOK'
    <3>1. [owner |-> rooms[r].owner, idle |-> 0] \in RoomRow
      BY <2>5, OwnerType, FreshRowType DEF UpdateRoomState
    <3> QED
      BY <2>5, <3>1, CleanedType DEF UpdateRoomState, ReplaceRoom, TypeOK
  <2>6. ASSUME NEW u \in Users, NEW r \in RoomIds, SendRoomMessage(u, r) PROVE TypeOK'
    <3>1. posted + 1 \in 1..MaxMessages /\ posted + 1 \in 0..MaxMessages
      BY <2>6, ConstantsAreNumbers DEF SendRoomMessage, TypeOK
    <3>2. [id |-> posted + 1, room |-> r, sender |-> u] \in Message
      BY <3>1 DEF Message
    <3> QED
      BY <2>6, <3>1, <3>2, CleanedType DEF SendRoomMessage, TypeOK
  <2>7. ASSUME NEW u \in Users, NEW r \in RoomIds, Heartbeat(u, r) PROVE TypeOK'
    BY <2>7, CleanedType, FreshPresenceType DEF Heartbeat, CleanedTables, TypeOK
  <2>8. ASSUME NEW u \in Users, HeartbeatElsewhere(u) PROVE TypeOK'
    BY <2>8, FreshPresenceType DEF HeartbeatElsewhere, TypeOK
  <2>9. ASSUME NEW u \in Users, NEW v \in Users, Befriend(u, v) PROVE TypeOK'
    BY <2>9 DEF Befriend, TypeOK
  <2>10. ASSUME NEW u \in Users, NEW v \in Users, RemoveFriend(u, v) PROVE TypeOK'
    <3>1. \A i \in Invitation : [i EXCEPT !.status = "dismissed"] \in Invitation
      BY DEF Invitation
    <3> QED
      BY <2>10, <3>1 DEF RemoveFriend, TypeOK
  <2>11. ASSUME NEW s \in Users, NEW t \in Users, NEW r \in RoomIds,
                SendInvitation(s, r, t)
         PROVE TypeOK'
    <3>1. [room |-> r, from |-> s, to |-> t, status |-> "pending"] \in Invitation
      BY DEF Invitation
    <3> QED
      BY <2>11, <3>1 DEF SendInvitation, TypeOK
  <2>12. ASSUME NEW i \in invitations, AcceptInvitation(i) PROVE TypeOK'
    <3>1. [i EXCEPT !.status = "accepted"] \in Invitation
      BY DEF TypeOK, Invitation
    <3> QED
      BY <2>12, <3>1 DEF AcceptInvitation, AnswerInvitation, TypeOK
  <2>13. ASSUME NEW i \in invitations, DismissInvitation(i) PROVE TypeOK'
    <3>1. [i EXCEPT !.status = "dismissed"] \in Invitation
      BY DEF TypeOK, Invitation
    <3> QED
      BY <2>13, <3>1 DEF DismissInvitation, AnswerInvitation, TypeOK
  <2>14. CASE UNCHANGED vars
    BY <2>14 DEF vars, TypeOK
  <2> QED
    BY <2>1, <2>2, <2>3, <2>4, <2>5, <2>6, <2>7, <2>8, <2>9, <2>10, <2>11, <2>12,
       <2>13, <2>14 DEF Next
<1> QED
  BY <1>1, <1>2, PTL DEF Spec

-----------------------------------------------------------------------------
\* The cascade takes along every row of the rooms it deletes, and only those.
LEMMA CascadeLeavesNoOrphans ==
  ASSUME TypeOK, NoOrphans, NEW gone,
         rooms' = RoomsWithout(gone),
         invitations' = RowsWithout(invitations, gone),
         chat' = RowsWithout(chat, gone)
  PROVE  NoOrphans'
  BY DEF TypeOK, NoOrphans, RoomsWithout, RowsWithout, Live, Invitation, Message

\* No invitation and no chat message outlives its room, on any of the paths
\* that delete a room: the cleanup inside every handler and the replacing PUT.
THEOREM ForeignKeysHold == Spec => []NoOrphans
<1>1. Init => NoOrphans
  BY DEF Init, NoOrphans
<1>2. TypeOK /\ NoOrphans /\ [Next]_vars => NoOrphans'
  <2> SUFFICES ASSUME TypeOK, NoOrphans, [Next]_vars PROVE NoOrphans'
    OBVIOUS
  <2>1. CASE Tick
    <3>1. \A r \in RoomIds : Live(r) => Live(r)'
      BY <2>1, TickKeepsRooms
    <3> QED
      BY <2>1, <3>1 DEF Tick, NoOrphans, TypeOK, Invitation, Message
  <2>2. CASE Cleanup
    BY <2>2, CascadeLeavesNoOrphans DEF Cleanup, CleanedTables
  <2>3. CASE BuildLobby
    BY <2>3, CascadeLeavesNoOrphans DEF BuildLobby, CleanedTables
  <2>4. ASSUME NEW a \in Actors, CreateRoom(a) PROVE NoOrphans'
    <3> PICK r \in RoomIds \ issued :
              rooms' = [rooms EXCEPT ![r] = [owner |-> a, idle |-> 0]]
      BY <2>4 DEF CreateRoom
    <3>1. [owner |-> a, idle |-> 0] # NoRow
      BY FreshRowType, NoRowIsNoRow
    <3> QED
      BY <2>4, <3>1 DEF CreateRoom, NoOrphans, Live, TypeOK, Invitation, Message
  <2>5. ASSUME NEW a \in Actors, NEW r \in RoomIds, UpdateRoomState(a, r)
        PROVE NoOrphans'
    <3>1. /\ rooms' = [RoomsWithout(Gone) EXCEPT ![r] = [owner |-> rooms[r].owner, idle |-> 0]]
          /\ invitations' = RowsWithout(invitations, Gone \cup {r})
          /\ chat' = RowsWithout(chat, Gone \cup {r})
      BY <2>5 DEF UpdateRoomState, ReplaceRoom
    <3>2. \A q \in RoomIds : q \notin Gone \cup {r} => rooms'[q] = rooms[q]
      BY <3>1 DEF RoomsWithout
    <3> QED
      BY <3>1, <3>2 DEF NoOrphans, RowsWithout, Live, TypeOK, Invitation, Message
  <2>6. ASSUME NEW u \in Users, NEW r \in RoomIds, SendRoomMessage(u, r)
        PROVE NoOrphans'
    <3> DEFINE new == [id |-> posted + 1, room |-> r, sender |-> u]
    <3>1. /\ rooms' = RoomsWithout(Gone)
          /\ invitations' = RowsWithout(invitations, Gone)
          /\ chat' = RowsWithout(chat, Gone) \cup {new}
      BY <2>6 DEF SendRoomMessage
    <3>2. \A row \in RowsWithout(invitations, Gone) \cup RowsWithout(chat, Gone) :
             Live(row.room)'
      BY <3>1 DEF NoOrphans, RowsWithout, RoomsWithout, Live, TypeOK, Invitation, Message
    <3>3. r \notin Gone /\ Live(r)
      BY <2>6 DEF SendRoomMessage, Gone
    <3>4. Live(new.room)'
      BY <3>1, <3>3 DEF RoomsWithout, Live
    <3> QED
      BY <3>1, <3>2, <3>4 DEF NoOrphans
  <2>7. ASSUME NEW u \in Users, NEW r \in RoomIds, Heartbeat(u, r) PROVE NoOrphans'
    BY <2>7, CascadeLeavesNoOrphans DEF Heartbeat, CleanedTables
  <2>8. ASSUME NEW u \in Users, HeartbeatElsewhere(u) PROVE NoOrphans'
    BY <2>8 DEF HeartbeatElsewhere, NoOrphans, Live
  <2>9. ASSUME NEW u \in Users, NEW v \in Users, Befriend(u, v) PROVE NoOrphans'
    BY <2>9 DEF Befriend, NoOrphans, Live
  <2>10. ASSUME NEW u \in Users, NEW v \in Users, RemoveFriend(u, v) PROVE NoOrphans'
    <3>1. \A i \in invitations : [i EXCEPT !.status = "dismissed"].room = i.room
      BY DEF TypeOK, Invitation
    <3> QED
      BY <2>10, <3>1 DEF RemoveFriend, NoOrphans, Live
  <2>11. ASSUME NEW s \in Users, NEW t \in Users, NEW r \in RoomIds,
                SendInvitation(s, r, t)
         PROVE NoOrphans'
    BY <2>11 DEF SendInvitation, NoOrphans, Live
  <2>12. ASSUME NEW i \in invitations, AcceptInvitation(i) PROVE NoOrphans'
    <3>1. [i EXCEPT !.status = "accepted"].room = i.room
      BY DEF TypeOK, Invitation
    <3> QED
      BY <2>12, <3>1 DEF AcceptInvitation, AnswerInvitation, NoOrphans, Live
  <2>13. ASSUME NEW i \in invitations, DismissInvitation(i) PROVE NoOrphans'
    <3>1. [i EXCEPT !.status = "dismissed"].room = i.room
      BY DEF TypeOK, Invitation
    <3> QED
      BY <2>13, <3>1 DEF DismissInvitation, AnswerInvitation, NoOrphans, Live
  <2>14. CASE UNCHANGED vars
    BY <2>14 DEF vars, NoOrphans, Live
  <2> QED
    BY <2>1, <2>2, <2>3, <2>4, <2>5, <2>6, <2>7, <2>8, <2>9, <2>10, <2>11, <2>12,
       <2>13, <2>14 DEF Next
<1> QED
  BY <1>1, <1>2, TypeCorrect, PTL DEF Spec

-----------------------------------------------------------------------------
\* Cleanup leaves every room alone that somebody is present in.
LEMMA CleanupKeepsOccupied ==
  ASSUME NEW u \in Users, NEW r \in RoomIds, Active(u, r), Live(r),
         rooms' = RoomsWithout(Gone)
  PROVE  Live(r)'
  BY DEF RoomsWithout, Gone, Expired, Occupied, Live

\* Whoever counts as present in a room is present in a room that exists:
\* heartbeats look the room up after the cleanup, and the cleanup spares the
\* rooms of active presences, whatever their age and whoever owns them.
THEOREM PresenceIsInLiveRooms == Spec => []ActivePresenceNamesALiveRoom
<1> USE DEF ActivePresenceNamesALiveRoom
<1>1. Init => ActivePresenceNamesALiveRoom
  BY DEF Init, Active
<1>2. TypeOK /\ ActivePresenceNamesALiveRoom /\ [Next]_vars
        => ActivePresenceNamesALiveRoom'
  <2> SUFFICES ASSUME TypeOK, ActivePresenceNamesALiveRoom, [Next]_vars,
                      NEW u \in Users, NEW r \in RoomIds, Active(u, r)'
               PROVE  Live(r)'
    OBVIOUS
  <2>1. CASE Tick
    <3>1. presence[u] # NoRow /\ presence[u] \in PresenceRow
      <4>1. presence[u] = NoRow => presence'[u] = NoRow
        BY <2>1 DEF Tick
      <4> QED
        BY <4>1 DEF Active, TypeOK
    <3>2. presence'[u] = [presence[u] EXCEPT !.age = Older(@, MaxSeen)]
      BY <2>1, <3>1 DEF Tick
    <3>3. presence'[u].room = presence[u].room
          /\ presence'[u].age = Older(presence[u].age, MaxSeen)
      BY <3>1, <3>2 DEF PresenceRow
    <3>4. presence[u].age \in Nat
      BY <3>1, ConstantsAreNumbers DEF PresenceRow, MaxSeen
    <3>5. presence[u].age <= PresenceSeconds
      BY <3>3, <3>4, ConstantsAreNumbers DEF Active, Older, MaxSeen
    <3>6. Active(u, r)
      BY <3>1, <3>3, <3>5 DEF Active
    <3> QED
      BY <2>1, <3>6, TickKeepsRooms
  <2>2. CASE Cleanup
    BY <2>2, CleanupKeepsOccupied DEF Cleanup, CleanedTables, Active
  <2>3. CASE BuildLobby
    <3>1. Active(u, r)
      BY <2>3 DEF BuildLobby, Active
    <3> QED
      BY <2>3, <3>1, CleanupKeepsOccupied DEF BuildLobby, CleanedTables
  <2>4. ASSUME NEW a \in Actors, CreateRoom(a) PROVE Live(r)'
    <3> PICK q \in RoomIds \ issued :
              rooms' = [rooms EXCEPT ![q] = [owner |-> a, idle |-> 0]]
      BY <2>4 DEF CreateRoom
    <3>1. [owner |-> a, idle |-> 0] # NoRow
      BY FreshRowType, NoRowIsNoRow
    <3> QED
      BY <2>4, <3>1 DEF CreateRoom, Active, Live, TypeOK
  <2>5. ASSUME NEW a \in Actors, NEW q \in RoomIds, UpdateRoomState(a, q)
        PROVE Live(r)'
    <3>1. /\ rooms' = [RoomsWithout(Gone) EXCEPT ![q] = [owner |-> rooms[q].owner, idle |-> 0]]
          /\ Active(u, r)
      BY <2>5 DEF UpdateRoomState, ReplaceRoom, Active
    <3>2. [owner |-> rooms[q].owner, idle |-> 0] # NoRow
      BY <2>5, OwnerType, FreshRowType, NoRowIsNoRow DEF UpdateRoomState
    <3>3. Live(r) /\ r \notin Gone
      BY <3>1 DEF Gone, Expired, Occupied
    <3> QED
      BY <3>1, <3>2, <3>3 DEF RoomsWithout, Live
  <2>6. ASSUME NEW v \in Users, NEW q \in RoomIds, SendRoomMessage(v, q)
        PROVE Live(r)'
    BY <2>6, CleanupKeepsOccupied DEF SendRoomMessage, Active
  <2>7. ASSUME NEW v \in Users, NEW q \in RoomIds, Heartbeat(v, q)
        PROVE Live(r)'
    <3>1. CASE u = v
      <4>1. presence'[u].room = q
        BY <2>7, <3>1 DEF Heartbeat, TypeOK
      <4>2. r = q
        BY <4>1 DEF Active
      <4> QED
        BY <2>7, <4>2 DEF Heartbeat, CleanedTables, RoomsWithout, Gone, Live
    <3>2. CASE u # v
      BY <2>7, <3>2, CleanupKeepsOccupied DEF Heartbeat, CleanedTables, Active, TypeOK
    <3> QED
      BY <3>1, <3>2
  <2>8. ASSUME NEW v \in Users, HeartbeatElsewhere(v) PROVE Live(r)'
    <3>1. u # v
      BY <2>8, LobbyIsNoRoom DEF HeartbeatElsewhere, Active, TypeOK
    <3> QED
      BY <2>8, <3>1 DEF HeartbeatElsewhere, Active, Live, TypeOK
  <2>9. CASE UNCHANGED <<rooms, presence>>
    BY <2>9 DEF Active, Live
  <2> QED
    BY <2>1, <2>2, <2>3, <2>4, <2>5, <2>6, <2>7, <2>8, <2>9
    DEF Next, vars, Befriend, RemoveFriend, SendInvitation, AcceptInvitation,
        DismissInvitation, AnswerInvitation
<1> QED
  BY <1>1, <1>2, TypeCorrect, PTL DEF Spec

-----------------------------------------------------------------------------
\* An open invitation is always between friends: remove_friend withdraws the
\* open invitations of both directions in the step that unfriends.
THEOREM InvitationsFollowFriendship == Spec => []OpenInvitationsAreBetweenFriends
<1> USE DEF OpenInvitationsAreBetweenFriends
<1>1. Init => OpenInvitationsAreBetweenFriends
  BY DEF Init
<1>2. TypeOK /\ OpenInvitationsAreBetweenFriends /\ [Next]_vars
        => OpenInvitationsAreBetweenFriends'
  <2> SUFFICES ASSUME TypeOK, OpenInvitationsAreBetweenFriends, [Next]_vars
               PROVE  OpenInvitationsAreBetweenFriends'
    OBVIOUS
  <2>1. CASE invitations' \subseteq invitations /\ friends \subseteq friends'
    BY <2>1
  <2>2. ASSUME NEW u \in Users, NEW v \in Users, RemoveFriend(u, v)
        PROVE OpenInvitationsAreBetweenFriends'
    <3> SUFFICES ASSUME NEW j \in invitations', j.status = "pending"
                 PROVE  <<j.from, j.to>> \in friends'
      OBVIOUS
    <3> PICK i \in invitations :
              j = IF Cancelled(i, u, v) THEN [i EXCEPT !.status = "dismissed"] ELSE i
      BY <2>2 DEF RemoveFriend
    <3>1. ~Cancelled(i, u, v) /\ j = i
      BY DEF TypeOK, Invitation
    <3>2. ~Between(i, u, v)
      BY <3>1 DEF Cancelled
    <3> QED
      BY <2>2, <3>1, <3>2 DEF RemoveFriend, Between
  <2>3. ASSUME NEW s \in Users, NEW t \in Users, NEW r \in RoomIds,
               SendInvitation(s, r, t)
        PROVE OpenInvitationsAreBetweenFriends'
    BY <2>3 DEF SendInvitation
  <2>4. ASSUME NEW i \in invitations, NEW answer \in {"accepted", "dismissed"},
               AnswerInvitation(i, answer)
        PROVE OpenInvitationsAreBetweenFriends'
    <3>1. [i EXCEPT !.status = answer].status # "pending"
      BY DEF TypeOK, Invitation
    <3> QED
      BY <2>4, <3>1 DEF AnswerInvitation
  <2>5. CASE UNCHANGED vars
    BY <2>5 DEF vars
  <2>6. CASE Tick
    BY <2>6, <2>1 DEF Tick
  <2>7. CASE Cleanup \/ BuildLobby
    BY <2>7, <2>1 DEF Cleanup, BuildLobby, CleanedTables, RowsWithout
  <2>8. CASE \E a \in Actors : CreateRoom(a)
    BY <2>8, <2>1 DEF CreateRoom
  <2>9. CASE \E a \in Actors, r \in RoomIds : UpdateRoomState(a, r)
    BY <2>9, <2>1 DEF UpdateRoomState, ReplaceRoom, RowsWithout
  <2>10. CASE \E u \in Users, r \in RoomIds : SendRoomMessage(u, r)
    BY <2>10, <2>1 DEF SendRoomMessage, RowsWithout
  <2>11. CASE \E u \in Users, r \in RoomIds : Heartbeat(u, r)
    BY <2>11, <2>1 DEF Heartbeat, CleanedTables, RowsWithout
  <2>12. CASE \E u \in Users : HeartbeatElsewhere(u)
    BY <2>12, <2>1 DEF HeartbeatElsewhere
  <2>13. CASE \E u, v \in Users : Befriend(u, v)
    BY <2>13, <2>1 DEF Befriend
  <2> QED
    BY <2>2, <2>3, <2>4, <2>5, <2>6, <2>7, <2>8, <2>9, <2>10, <2>11, <2>12, <2>13
    DEF Next, AcceptInvitation, DismissInvitation
<1> QED
  BY <1>1, <1>2, TypeCorrect, PTL DEF Spec

-----------------------------------------------------------------------------
\* Deleting rooms leaves the rows of the others as they are.
LEMMA CleanupKeepsRows ==
  ASSUME NEW gone, NEW r \in RoomIds
  PROVE  /\ r \notin gone => RoomsWithout(gone)[r] = rooms[r]
         /\ r \in gone => RoomsWithout(gone)[r] = NoRow
  BY DEF RoomsWithout

\* What a step may do to the row of a room: keep it, delete it, keep its owner
\* while writing the rest, or insert it under an id never issued before.
LEMMA RoomSteps ==
  ASSUME TypeOK, [Next]_vars, NEW r \in RoomIds
  PROVE  \/ Live(r) /\ Live(r)' /\ rooms'[r].owner = rooms[r].owner
         \/ ~Live(r)'
         \/ r \notin issued
<1>1. CASE Tick
  BY <1>1, TickKeepsRooms
<1>2. CASE rooms' = RoomsWithout(Gone)
  BY <1>2, CleanupKeepsRows DEF Live
<1>3. ASSUME NEW a \in Actors, CreateRoom(a)
      PROVE  \/ Live(r) /\ Live(r)' /\ rooms'[r].owner = rooms[r].owner
             \/ ~Live(r)'
             \/ r \notin issued
  <2> PICK q \in RoomIds \ issued :
            rooms' = [rooms EXCEPT ![q] = [owner |-> a, idle |-> 0]]
    BY <1>3 DEF CreateRoom
  <2> QED
    BY DEF Live, TypeOK
<1>4. ASSUME NEW a \in Actors, NEW q \in RoomIds, UpdateRoomState(a, q)
      PROVE  \/ Live(r) /\ Live(r)' /\ rooms'[r].owner = rooms[r].owner
             \/ ~Live(r)'
             \/ r \notin issued
  <2> DEFINE row == [owner |-> rooms[q].owner, idle |-> 0]
  <2>1. rooms' = [RoomsWithout(Gone) EXCEPT ![q] = row] /\ Live(q)
    BY <1>4 DEF UpdateRoomState, ReplaceRoom
  <2>2. RoomsWithout(Gone) \in [RoomIds -> RoomRow \cup {NoRow}]
    BY CleanedType
  <2>3. row # NoRow
    BY <2>1, OwnerType, FreshRowType, NoRowIsNoRow
  <2>4. CASE r = q
    <3>1. rooms'[r] = row
      BY <2>1, <2>2, <2>4
    <3> QED
      BY <2>1, <2>3, <2>4, <3>1 DEF Live
  <2>5. CASE r # q
    <3>1. rooms'[r] = RoomsWithout(Gone)[r]
      BY <2>1, <2>2, <2>5
    <3> QED
      BY <3>1, CleanupKeepsRows DEF Live
  <2> QED
    BY <2>4, <2>5
<1>5. CASE UNCHANGED rooms
  BY <1>5 DEF Live
<1> QED
  BY <1>1, <1>2, <1>3, <1>4, <1>5
  DEF Next, vars, Cleanup, BuildLobby, CleanedTables, SendRoomMessage, Heartbeat,
      HeartbeatElsewhere, Befriend, RemoveFriend, SendInvitation, AcceptInvitation,
      DismissInvitation, AnswerInvitation

\* Only ids that were issued have a row.
RowsAreIssued == \A r \in RoomIds : Live(r) => r \in issued

\* create_room draws a fresh id and no other handler inserts a room.
LEMMA RowsAlwaysIssued == Spec => []RowsAreIssued
<1>1. Init => RowsAreIssued
  BY DEF Init, RowsAreIssued, Live
<1>2. TypeOK /\ RowsAreIssued /\ [Next]_vars => RowsAreIssued'
  <2> SUFFICES ASSUME TypeOK, RowsAreIssued, [Next]_vars,
                      NEW r \in RoomIds, Live(r)'
               PROVE  r \in issued'
    BY DEF RowsAreIssued
  <2>1. ASSUME NEW a \in Actors, CreateRoom(a) PROVE r \in issued'
    BY <2>1 DEF CreateRoom, RowsAreIssued, Live, TypeOK
  <2>3. CASE Tick
    BY <2>3, TickKeepsRooms DEF Tick, RowsAreIssued
  <2>4. CASE UNCHANGED issued /\ rooms' = RoomsWithout(Gone)
    BY <2>4 DEF RowsAreIssued, RoomsWithout, Live
  <2>5. ASSUME NEW a \in Actors, NEW q \in RoomIds, UpdateRoomState(a, q)
        PROVE r \in issued'
    <3>1. q \in issued /\ UNCHANGED issued
      BY <2>5 DEF UpdateRoomState, ReplaceRoom, RowsAreIssued
    <3>2. rooms' = [RoomsWithout(Gone) EXCEPT ![q] = [owner |-> rooms[q].owner, idle |-> 0]]
      BY <2>5 DEF UpdateRoomState, ReplaceRoom
    <3>3. r # q => rooms'[r] = RoomsWithout(Gone)[r]
      BY <3>2 DEF RoomsWithout
    <3> QED
      BY <3>1, <3>3 DEF RowsAreIssued, RoomsWithout, Live
  <2>6. CASE UNCHANGED <<rooms, issued>>
    BY <2>6 DEF RowsAreIssued, Live
  <2> QED
    BY <2>1, <2>3, <2>4, <2>5, <2>6
    DEF Next, vars, Cleanup, BuildLobby, CleanedTables, SendRoomMessage, Heartbeat,
        HeartbeatElsewhere, Befriend, RemoveFriend, SendInvitation, AcceptInvitation,
        DismissInvitation, AnswerInvitation
<1> QED
  BY <1>1, <1>2, TypeCorrect, PTL DEF Spec

\* A room keeps its owner for life, although every PUT rewrites the whole row.
THEOREM OwnersAreForLife == Spec => OwnersNeverChange
<1>1. TypeOK /\ RowsAreIssued /\ [Next]_vars
        => [\A r \in RoomIds : Live(r) /\ Live(r)' => rooms[r].owner = rooms'[r].owner]_vars
  BY RoomSteps DEF RowsAreIssued
<1> QED
  BY <1>1, TypeCorrect, RowsAlwaysIssued, PTL DEF Spec, OwnersNeverChange

\* A deleted room never comes back: no handler writes a room it did not find
\* after the cleanup.
THEOREM DeletedRoomsAreGone == Spec => DeletedRoomsStayDeleted
<1>1. TypeOK /\ [Next]_vars => [\A r \in issued : ~Live(r) => ~Live(r)']_vars
  BY RoomSteps DEF TypeOK
<1> QED
  BY <1>1, TypeCorrect, PTL DEF Spec, DeletedRoomsStayDeleted

\* The cleanup takes an invitation only along with its room.
LEMMA CleanupTakesRoomsToo ==
  ASSUME TypeOK, NEW i \in invitations, rooms' = RoomsWithout(Gone),
         i \notin RowsWithout(invitations, Gone)
  PROVE  ~Live(i.room)'
<1>1. i.room \in RoomIds /\ i.room \in Gone
  BY DEF TypeOK, Invitation, RowsWithout
<1> QED
  BY <1>1 DEF RoomsWithout, Live

\* What a handler does to an accepted invitation.
LEMMA AcceptedInvitationSteps ==
  ASSUME TypeOK, [Next]_vars, NEW i \in invitations, i.status = "accepted"
  PROVE  \/ i \in invitations'
         \/ SendInvitation(i.from, i.room, i.to)
         \/ ~Live(i.room)'
         \/ \E a \in Actors : UpdateRoomState(a, i.room)
<1>1. CASE rooms' = RoomsWithout(Gone) /\ invitations' = RowsWithout(invitations, Gone)
  BY <1>1, CleanupTakesRoomsToo
<1>2. ASSUME NEW a \in Actors, NEW r \in RoomIds, UpdateRoomState(a, r), r # i.room
      PROVE  i \in invitations' \/ ~Live(i.room)'
  <2>1. invitations' = RowsWithout(invitations, Gone \cup {r})
    BY <1>2 DEF UpdateRoomState, ReplaceRoom
  <2>2. rooms' = [RoomsWithout(Gone) EXCEPT ![r] = [owner |-> rooms[r].owner, idle |-> 0]]
    BY <1>2 DEF UpdateRoomState, ReplaceRoom
  <2>3. CASE i.room \in Gone
    <3>1. rooms'[i.room] = NoRow
      BY <1>2, <2>2, <2>3 DEF RoomsWithout, Gone
    <3> QED
      BY <3>1 DEF Live
  <2>4. CASE i.room \notin Gone
    BY <1>2, <2>1, <2>4 DEF RowsWithout
  <2> QED
    BY <2>3, <2>4
<1>3. ASSUME NEW u \in Users, NEW v \in Users, RemoveFriend(u, v)
      PROVE  i \in invitations'
  <2>1. ~Cancelled(i, u, v)
    BY DEF Cancelled
  <2> QED
    BY <1>3, <2>1 DEF RemoveFriend
<1>4. ASSUME NEW s \in Users, NEW t \in Users, NEW r \in RoomIds, SendInvitation(s, r, t)
      PROVE  i \in invitations' \/ SendInvitation(i.from, i.room, i.to)
  <2>1. CASE SameKey(i, r, s, t)
    BY <1>4, <2>1 DEF SameKey
  <2>2. CASE ~SameKey(i, r, s, t)
    BY <1>4, <2>2 DEF SendInvitation
  <2> QED
    BY <2>1, <2>2
<1>5. ASSUME NEW j \in invitations, AcceptInvitation(j) \/ DismissInvitation(j)
      PROVE  i \in invitations'
  BY <1>5 DEF AcceptInvitation, DismissInvitation, AnswerInvitation
<1>6. CASE UNCHANGED invitations
  BY <1>6
<1> QED
  BY <1>1, <1>2, <1>3, <1>4, <1>5, <1>6
  DEF Next, vars, Tick, Cleanup, BuildLobby, CleanedTables, CreateRoom, SendRoomMessage,
      Heartbeat, HeartbeatElsewhere, Befriend

\* An accepted invitation ends with its room, with a state PUT that replaces
\* the room's row, or with the sender inviting again, and with nothing else:
\* unfriending, other invitations and presence never revoke it.
THEOREM AcceptedInvitationsStand == Spec => AcceptedInvitationsAreNotRevoked
<1>1. TypeOK /\ [Next]_vars =>
        [\A i \in invitations :
           i.status = "accepted" =>
             \/ i \in invitations'
             \/ SendInvitation(i.from, i.room, i.to)
             \/ ~Live(i.room)'
             \/ \E a \in Actors : UpdateRoomState(a, i.room)]_vars
  BY AcceptedInvitationSteps
<1> QED
  BY <1>1, TypeCorrect, PTL DEF Spec, AcceptedInvitationsAreNotRevoked
=============================================================================
