------------------------------ MODULE WatchRooms ------------------------------
(***************************************************************************)
(* Watch rooms as the backend stores them: the tables watch_rooms,         *)
(* user_presence, friendships, room_invitations and room_messages, the     *)
(* handlers of app/services/watch_room.py and app/services/social.py that  *)
(* write them, and the cleanup of idle rooms that most of those handlers   *)
(* run before anything else.                                               *)
(*                                                                         *)
(* Every handler is synchronous code called from an `async def` route of   *)
(* one event loop, so a handler is one step.  The code compares a stored   *)
(* timestamp only with the present, so a row holds the AGE of its          *)
(* timestamp, up to the largest age the code distinguishes, and Tick ages  *)
(* every row by one unit.                                                  *)
(*                                                                         *)
(* A handler that raises (unknown room, no permission, bad input) has run  *)
(* the cleanup and nothing else: that step is Cleanup.                     *)
(***************************************************************************)
EXTENDS Naturals

CONSTANTS
  Users,            \* logged-in users (rows of the users table)
  Guest,            \* a caller without a session; owner_user_id = 0
  RoomIds,          \* the uuids create_room draws, each at most once
  Lobby,            \* the empty current_room_id of a presence row
  NoRow,            \* the absence of a row
  PresenceSeconds,  \* ROOM_INTERACTION_PRESENCE_SECONDS, ACTIVE_PRESENCE_SECONDS
  OwnedGrace,       \* OWNED_ROOM_EMPTY_GRACE_SECONDS
  AnonymousGrace,   \* ANONYMOUS_ROOM_EMPTY_GRACE_SECONDS
  StaleSeconds,     \* STALE_PRESENCE_SECONDS
  MaxMessages       \* bound: chat messages a behaviour may post

ASSUME ConstantsAreNumbers ==
  /\ PresenceSeconds \in Nat /\ OwnedGrace \in Nat /\ AnonymousGrace \in Nat
  /\ StaleSeconds \in Nat /\ MaxMessages \in Nat

\* 90 s < 10 min < 6 h, and 90 s < 1 h, with every limit positive.
ASSUME LimitsAreOrdered ==
  /\ PresenceSeconds < OwnedGrace /\ OwnedGrace < AnonymousGrace
  /\ PresenceSeconds < StaleSeconds

ASSUME GuestIsNoUser == Guest \notin Users
ASSUME LobbyIsNoRoom == Lobby \notin RoomIds

Actors == Users \cup {Guest}

\* The ages beyond which no comparison in the code changes its answer.
MaxIdle == AnonymousGrace
MaxSeen == StaleSeconds + 1

RoomRow     == [owner : Actors, idle : 0..MaxIdle]
PresenceRow == [room : RoomIds \cup {Lobby}, age : 0..MaxSeen]
Invitation  == [room : RoomIds, from : Users, to : Users,
                status : {"pending", "accepted", "dismissed"}]
Message     == [id : 1..MaxMessages, room : RoomIds, sender : Users]

ASSUME NoRowIsNoRow == NoRow \notin RoomRow /\ NoRow \notin PresenceRow

VARIABLES
  rooms,        \* watch_rooms, keyed by room_id
  issued,       \* the uuids create_room has drawn
  presence,     \* user_presence, keyed by user_id
  friends,      \* friendships: the pairs (user_id, friend_user_id)
  invitations,  \* room_invitations
  chat,         \* room_messages
  posted        \* how many messages were ever posted: AUTOINCREMENT

vars == <<rooms, issued, presence, friends, invitations, chat, posted>>

Live(r) == rooms[r] # NoRow

\* get_active_user_presence: last_seen_at >= now - 90.
Active(u, r) ==
  /\ presence[u] # NoRow
  /\ presence[u].room = r
  /\ presence[u].age <= PresenceSeconds

Occupied(r) == \E u \in Users : Active(u, r)

-----------------------------------------------------------------------------
(***************************************************************************)
(* Cleanup of idle rooms and the cascades of the foreign keys.             *)
(***************************************************************************)

Grace(r) == IF rooms[r].owner = Guest THEN AnonymousGrace ELSE OwnedGrace

\* Bugs the checks must notice: presence ignored; anonymous rooms skipped.
ExpiredIgnoringPresence(r) == Live(r) /\ rooms[r].idle >= Grace(r)
ExpiredOwnedOnly(r) ==
  Live(r) /\ rooms[r].owner # Guest /\ ~Occupied(r) /\ rooms[r].idle >= Grace(r)

\* cleanup_inactive_rooms deletes r: nobody has an active presence in it and
\* its row was written at least a grace period ago.
Expired(r) == Live(r) /\ ~Occupied(r) /\ rooms[r].idle >= Grace(r)

Gone == {r \in RoomIds : Expired(r)}

RoomsWithout(gone) == [r \in RoomIds |-> IF r \in gone THEN NoRow ELSE rooms[r]]

\* A bug the checks must notice: foreign keys off, nothing cascades.
RowsKept(rows, gone) == rows

\* ON DELETE CASCADE of room_invitations.room_id and room_messages.room_id.
RowsWithout(rows, gone) == {row \in rows : row.room \notin gone}

\* The tables after cleanup_inactive_rooms.
CleanedTables ==
  /\ rooms' = RoomsWithout(Gone)
  /\ invitations' = RowsWithout(invitations, Gone)
  /\ chat' = RowsWithout(chat, Gone)

\* run_periodic_room_cleanup, list_rooms, get_room, the opening of an event
\* stream, and every handler below that calls get_room and then raises.
Cleanup ==
  /\ CleanedTables
  /\ UNCHANGED <<issued, presence, friends, posted>>

\* build_lobby: drop presence rows older than an hour, then clean up.
BuildLobby ==
  /\ presence' = [u \in Users |->
                    IF presence[u] # NoRow /\ presence[u].age > StaleSeconds
                      THEN NoRow ELSE presence[u]]
  /\ CleanedTables
  /\ UNCHANGED <<issued, friends, posted>>

-----------------------------------------------------------------------------
(***************************************************************************)
(* Who may do what.                                                        *)
(***************************************************************************)

HasAcceptedInvitation(u, r) ==
  \E i \in invitations : i.room = r /\ i.to = u /\ i.status = "accepted"

\* ensure_user_can_participate; a caller without a session is let through.
CanParticipate(a, r) ==
  \/ a = Guest
  \/ rooms[r].owner = a
  \/ HasAcceptedInvitation(a, r)
  \/ \E u \in Users : u = a /\ Active(u, r)

\* ensure_user_is_owner.
CanDrive(a, r) ==
  \/ rooms[r].owner = Guest /\ CanParticipate(a, r)
  \/ rooms[r].owner # Guest /\ a = rooms[r].owner

-----------------------------------------------------------------------------
(***************************************************************************)
(* Room handlers.                                                          *)
(***************************************************************************)

\* create_room.  It does not clean up.
CreateRoom(a) ==
  \E r \in RoomIds \ issued :
    /\ issued' = issued \cup {r}
    /\ rooms' = [rooms EXCEPT ![r] = [owner |-> a, idle |-> 0]]
    /\ UNCHANGED <<presence, friends, invitations, chat, posted>>

\* What every PUT of a state writes: upsert_watch_room is an INSERT OR
\* REPLACE, so SQLite deletes the old row, cascades, and inserts the new one.
ReplaceRoom(r, owner) ==
  /\ rooms' = [RoomsWithout(Gone) EXCEPT ![r] = [owner |-> owner, idle |-> 0]]
  /\ invitations' = RowsWithout(invitations, Gone \cup {r})
  /\ chat' = RowsWithout(chat, Gone \cup {r})
  /\ UNCHANGED <<issued, presence, friends, posted>>

\* Bugs the checks must notice: the caller becomes the owner of an anonymous
\* room; a state PUT to a room that is gone puts it back.
UpdateRoomStateClaiming(a, r) ==
  /\ Live(r) /\ ~Expired(r)
  /\ CanDrive(a, r)
  /\ ReplaceRoom(r, a)
UpdateRoomStateUpserting(a, r) ==
  /\ r \in issued
  /\ (Live(r) /\ ~Expired(r)) => CanDrive(a, r)
  /\ ReplaceRoom(r, IF Live(r) THEN rooms[r].owner ELSE a)

\* update_room_state: clean up, find the room, check the caller, replace it.
UpdateRoomState(a, r) ==
  /\ Live(r) /\ ~Expired(r)
  /\ CanDrive(a, r)
  /\ ReplaceRoom(r, rooms[r].owner)

\* send_room_message.
SendRoomMessage(u, r) ==
  /\ Live(r) /\ ~Expired(r)
  /\ CanParticipate(u, r)
  /\ posted < MaxMessages
  /\ posted' = posted + 1
  /\ rooms' = RoomsWithout(Gone)
  /\ invitations' = RowsWithout(invitations, Gone)
  /\ chat' = RowsWithout(chat, Gone)
               \cup {[id |-> posted + 1, room |-> r, sender |-> u]}
  /\ UNCHANGED <<issued, presence, friends>>

-----------------------------------------------------------------------------
(***************************************************************************)
(* Presence.                                                               *)
(***************************************************************************)

\* heartbeat from a room page: get_room, and so a cleanup, comes first.
Heartbeat(u, r) ==
  /\ Live(r) /\ ~Expired(r)
  /\ CleanedTables
  /\ presence' = [presence EXCEPT ![u] = [room |-> r, age |-> 0]]
  /\ UNCHANGED <<issued, friends, posted>>

\* heartbeat from any other page: no room, no cleanup.
HeartbeatElsewhere(u) ==
  /\ presence' = [presence EXCEPT ![u] = [room |-> Lobby, age |-> 0]]
  /\ UNCHANGED <<rooms, issued, friends, invitations, chat, posted>>

-----------------------------------------------------------------------------
(***************************************************************************)
(* Friendships, as far as invitations depend on them, and invitations.     *)
(***************************************************************************)

\* add_friendship_pair, the effect of accepting a friend request.
Befriend(u, v) ==
  /\ u # v
  /\ friends' = friends \cup {<<u, v>>, <<v, u>>}
  /\ UNCHANGED <<rooms, issued, presence, invitations, chat, posted>>

Between(i, u, v) == \/ i.from = u /\ i.to = v
                    \/ i.from = v /\ i.to = u

\* Bugs the checks must notice: only the caller's own invitations are
\* cancelled; accepted invitations are cancelled too.
CancelledOneWay(i, u, v) == i.status = "pending" /\ i.from = u /\ i.to = v
CancelledAnyStatus(i, u, v) == Between(i, u, v)

\* The rows cancel_pending_room_invitations_between_users updates.
Cancelled(i, u, v) == i.status = "pending" /\ Between(i, u, v)

\* remove_friend: both rows of the friendship, then the open invitations.
RemoveFriend(u, v) ==
  /\ <<u, v>> \in friends
  /\ friends' = friends \ {<<u, v>>, <<v, u>>}
  /\ invitations' = {IF Cancelled(i, u, v) THEN [i EXCEPT !.status = "dismissed"]
                                           ELSE i : i \in invitations}
  /\ UNCHANGED <<rooms, issued, presence, chat, posted>>

SameKey(i, r, s, t) == i.room = r /\ i.from = s /\ i.to = t

\* send_room_invitation.  The room is read without a cleanup; inviting again
\* reopens the row of UNIQUE(room_id, sender_user_id, recipient_user_id).
SendInvitation(s, r, t) ==
  /\ s # t
  /\ <<s, t>> \in friends
  /\ Live(r)
  /\ CanParticipate(s, r)
  /\ ~Active(t, r)
  /\ invitations' = {i \in invitations : ~SameKey(i, r, s, t)}
       \cup {[room |-> r, from |-> s, to |-> t, status |-> "pending"]}
  /\ UNCHANGED <<rooms, issued, presence, friends, chat, posted>>

\* accept_room_invitation and dismiss_room_invitation change a pending row.
AnswerInvitation(i, answer) ==
  /\ i.status = "pending"
  /\ invitations' = (invitations \ {i}) \cup {[i EXCEPT !.status = answer]}
  /\ UNCHANGED <<rooms, issued, presence, friends, chat, posted>>

\* A bug the checks must notice: a status the table's CHECK does not know.
AcceptInvitationJoined(i) == AnswerInvitation(i, "joined")

AcceptInvitation(i) == AnswerInvitation(i, "accepted")
DismissInvitation(i) == AnswerInvitation(i, "dismissed")

-----------------------------------------------------------------------------
Older(age, max) == IF age < max THEN age + 1 ELSE age

\* One unit of time passes; every timestamp is one unit older.
Tick ==
  /\ rooms' = [r \in RoomIds |->
                 IF Live(r) THEN [rooms[r] EXCEPT !.idle = Older(@, MaxIdle)]
                            ELSE rooms[r]]
  /\ presence' = [u \in Users |->
                    IF presence[u] # NoRow
                      THEN [presence[u] EXCEPT !.age = Older(@, MaxSeen)]
                      ELSE presence[u]]
  /\ UNCHANGED <<issued, friends, invitations, chat, posted>>

Init ==
  /\ rooms = [r \in RoomIds |-> NoRow]
  /\ issued = {}
  /\ presence = [u \in Users |-> NoRow]
  /\ friends = {}
  /\ invitations = {}
  /\ chat = {}
  /\ posted = 0

Next ==
  \/ Tick
  \/ Cleanup
  \/ BuildLobby
  \/ \E a \in Actors : CreateRoom(a)
  \/ \E a \in Actors, r \in RoomIds : UpdateRoomState(a, r)
  \/ \E u \in Users, r \in RoomIds : SendRoomMessage(u, r)
  \/ \E u \in Users, r \in RoomIds : Heartbeat(u, r)
  \/ \E u \in Users : HeartbeatElsewhere(u)
  \/ \E u, v \in Users : Befriend(u, v)
  \/ \E u, v \in Users : RemoveFriend(u, v)
  \/ \E s, t \in Users, r \in RoomIds : SendInvitation(s, r, t)
  \/ \E i \in invitations : AcceptInvitation(i)
  \/ \E i \in invitations : DismissInvitation(i)

Spec == Init /\ [][Next]_vars

\* Time passes, and run_periodic_room_cleanup runs every 60 s for as long as
\* the process does; nobody is obliged to use the site.
FairSpec == Spec /\ WF_vars(Tick) /\ WF_vars(Cleanup)

-----------------------------------------------------------------------------
(***************************************************************************)
(* Properties.                                                             *)
(***************************************************************************)

TypeOK ==
  /\ rooms \in [RoomIds -> RoomRow \cup {NoRow}]
  /\ issued \subseteq RoomIds
  /\ presence \in [Users -> PresenceRow \cup {NoRow}]
  /\ friends \subseteq Users \X Users
  /\ invitations \subseteq Invitation
  /\ chat \subseteq Message
  /\ posted \in 0..MaxMessages

\* No invitation and no chat message outlives its room: whatever path deletes
\* a room (cleanup inside any handler, or the replacing PUT) takes them along.
NoOrphans == \A row \in invitations \cup chat : Live(row.room)

\* A room the lobby still shows somebody in exists: no cleanup, however it is
\* interleaved with heartbeats and ageing, deletes a room under a user whose
\* presence counts as active, and no heartbeat enters a room that is gone.
ActivePresenceNamesALiveRoom ==
  \A u \in Users, r \in RoomIds : Active(u, r) => Live(r)

\* An open invitation is always between friends: unfriending withdraws the
\* open invitations of both directions, in every room.
OpenInvitationsAreBetweenFriends ==
  \A i \in invitations : i.status = "pending" => <<i.from, i.to>> \in friends

\* A room keeps its owner for life, although every PUT rewrites the whole row.
OwnersNeverChange ==
  [][\A r \in RoomIds : Live(r) /\ Live(r)' => rooms[r].owner = rooms'[r].owner]_vars

\* A deleted room never comes back: no handler that read a room writes it
\* after the cleanup removed it.
DeletedRoomsStayDeleted ==
  [][\A r \in issued : ~Live(r) => ~Live(r)']_vars

\* What can end an accepted invitation: the end of its room, a state PUT that
\* replaces the room's row, or the sender inviting again.  Unfriending, other
\* invitations and presence do not revoke it.
AcceptedInvitationsAreNotRevoked ==
  [][\A i \in invitations :
       i.status = "accepted" =>
         \/ i \in invitations'
         \/ SendInvitation(i.from, i.room, i.to)
         \/ ~Live(i.room)'
         \/ \E a \in Actors : UpdateRoomState(a, i.room)]_vars

\* Nobody's room is kept for ever for nothing: a room that lives on is, again
\* and again, occupied or younger than its grace period.
LastingRoomsAreInUse ==
  \A r \in RoomIds :
    <>[]Live(r) => []<>(Occupied(r) \/ (Live(r) /\ rooms[r].idle < Grace(r)))

\* tests/test_social_features.py:390: "An invited-and-accepted member should be
\* able to participate (chat, trigger HLS prep) without a presence heartbeat".
\* So the row that grants it lasts as long as the room does.
AcceptedInvitationsLast ==
  [][\A i \in invitations :
       i.status = "accepted" /\ Live(i.room)' =>
         \E j \in invitations' : SameKey(j, i.room, i.from, i.to)]_vars

\* app/services/watch_room.py:17: the owned grace period is "10 minutes so a
\* brief wifi hiccup or page reload doesn't delete the owner's room": an owned
\* room is not deleted before its last visitor has been away that long.
OwnedRoomsSurviveAHiccup ==
  [][\A r \in RoomIds, u \in Users :
       /\ Live(r) /\ rooms[r].owner # Guest
       /\ presence[u] # NoRow /\ presence[u].room = r
       /\ ~Live(r)'
       => presence[u].age >= OwnedGrace]_vars
=============================================================================
