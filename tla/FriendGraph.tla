------------------------------ MODULE FriendGraph ------------------------------
(***************************************************************************)
(* Friend requests, friendships and direct messages at the grain of their  *)
(* transactions: app/services/social.py over app/services/database_social. *)
(*                                                                         *)
(* A handler is synchronous code on the event loop, so no other handler    *)
(* runs inside it; but every database function commits by itself, and the  *)
(* process may end (or the second commit fail) between two of them.        *)
(* `unfinished` is the commit a running handler still owes; Crash forgets  *)
(* it.  WatchRooms has the same handlers as single steps.                  *)
(***************************************************************************)
EXTENDS Integers, FiniteSets

CONSTANTS
  People,        \* rows of the users table
  Nothing,       \* no handler is between two commits
  PageLimit,     \* limit of GET /friends/{id}/messages (1..200, 50 by default)
  MaxDirect,     \* bound: direct messages a behaviour may send
  MaxCrashes     \* bound: crashes between two commits

ASSUME FriendBounds ==
  PageLimit \in Nat \ {0} /\ MaxDirect \in Nat /\ MaxCrashes \in Nat

Pairs == {p \in People \X People : p[1] # p[2]}
Statuses == {"none", "pending", "accepted", "rejected"}
Flip(p) == <<p[2], p[1]>>

\* The commits that may be owed: [what is owed, the ordered pair it is about].
Owed == [what : {"mark accepted", "cancel invitations", "list"}, pair : Pairs]

ASSUME NothingIsOwed == Nothing \notin Owed

VARIABLES
  request,     \* friend_requests: one row per (requester, target) at most
  friendship,  \* friendships: ordered pairs
  invited,     \* pending room_invitations, as (sender, recipient)
  direct,      \* direct_messages: [id, from, to, read]
  shown,       \* history: ids returned to their recipient by a listing
  unfinished,  \* the commit the running handler still owes
  torn,        \* history: pairs on which a crash fell between two commits
  crashes      \* crashes so far

friendVars ==
  <<request, friendship, invited, direct, shown, unfinished, torn, crashes>>

DirectMessage == [id : 1..MaxDirect, from : People, to : People, read : BOOLEAN]

AreFriends(p) == p \in friendship
Pending(p) == request[p] = "pending"
Free == unfinished = Nothing

-----------------------------------------------------------------------------
(***************************************************************************)
(* Requests.                                                               *)
(***************************************************************************)

\* A bug the checks must notice: only one direction of the pair is inserted.
PairOneWay(p) == {p}

\* add_friendship_pair: both rows in one transaction.
Pair(p) == {p, Flip(p)}

\* The first commit of accepting p: they are friends, the row is still pending.
Accepting(p) ==
  /\ friendship' = friendship \cup Pair(p)
  /\ unfinished' = [what |-> "mark accepted", pair |-> p]
  /\ UNCHANGED <<request, invited, direct, shown, torn, crashes>>

\* A bug the checks must notice: the reverse request is not looked up.
CreateAlways(p) ==
  /\ Free /\ ~AreFriends(p) /\ ~Pending(p)
  /\ request' = [request EXCEPT ![p] = "pending"]
  /\ UNCHANGED <<friendship, invited, direct, shown, unfinished, torn, crashes>>

\* send_friend_request to a stranger: insert the row or reopen it.  (With the
\* request already open the handler returns it and changes nothing.)
CreateRequest(p) ==
  /\ Free /\ ~AreFriends(p) /\ ~Pending(p) /\ ~Pending(Flip(p))
  /\ request' = [request EXCEPT ![p] = "pending"]
  /\ UNCHANGED <<friendship, invited, direct, shown, unfinished, torn, crashes>>

\* send_friend_request to somebody whose request is open accepts that one.
AnswerByRequest(p) ==
  /\ Free /\ ~AreFriends(p) /\ ~Pending(p) /\ Pending(Flip(p))
  /\ Accepting(Flip(p))

\* accept_friend_request; an accepted row is returned, a rejected one refused.
AcceptRequest(p) ==
  /\ Free /\ Pending(p)
  /\ Accepting(p)

\* reject_friend_request.
RejectRequest(p) ==
  /\ Free /\ Pending(p)
  /\ request' = [request EXCEPT ![p] = "rejected"]
  /\ UNCHANGED <<friendship, invited, direct, shown, unfinished, torn, crashes>>

\* update_friend_request_status, the second commit of an acceptance.
MarkAccepted ==
  /\ ~Free /\ unfinished.what = "mark accepted"
  /\ request' = [request EXCEPT ![unfinished.pair] = "accepted"]
  /\ unfinished' = Nothing
  /\ torn' = torn \ {unfinished.pair, Flip(unfinished.pair)}
  /\ UNCHANGED <<friendship, invited, direct, shown, crashes>>

-----------------------------------------------------------------------------
(***************************************************************************)
(* Unfriending, and the invitations that hang on it.                       *)
(***************************************************************************)

\* A bug the checks must notice: unfriending forgets the invitations.
RemoveOnly(p) ==
  /\ Free /\ AreFriends(p)
  /\ friendship' = friendship \ {p, Flip(p)}
  /\ UNCHANGED <<request, invited, direct, shown, unfinished, torn, crashes>>

\* remove_friend, first commit.
RemoveFriend(p) ==
  /\ Free /\ AreFriends(p)
  /\ friendship' = friendship \ {p, Flip(p)}
  /\ unfinished' = [what |-> "cancel invitations", pair |-> p]
  /\ UNCHANGED <<request, invited, direct, shown, torn, crashes>>

\* cancel_pending_room_invitations_between_users, its second commit.
CancelInvitations ==
  /\ ~Free /\ unfinished.what = "cancel invitations"
  /\ invited' = invited \ {unfinished.pair, Flip(unfinished.pair)}
  /\ unfinished' = Nothing
  /\ UNCHANGED <<request, friendship, direct, shown, torn, crashes>>

\* send_room_invitation, as far as friendship decides it.
Invite(p) ==
  /\ Free /\ AreFriends(p)
  /\ invited' = invited \cup {p}
  /\ UNCHANGED <<request, friendship, direct, shown, unfinished, torn, crashes>>

\* accept_room_invitation, dismiss_room_invitation, or the end of the room.
InvitationEnds(p) ==
  /\ Free /\ p \in invited
  /\ invited' = invited \ {p}
  /\ UNCHANGED <<request, friendship, direct, shown, unfinished, torn, crashes>>

-----------------------------------------------------------------------------
(***************************************************************************)
(* Direct messages.                                                        *)
(***************************************************************************)

Between(d, p) == {d.from, d.to} = {p[1], p[2]}
Conversation(p) == {d \in direct : Between(d, p)}

\* list_direct_messages of the database: ORDER BY ... DESC LIMIT, then reversed.
Latest(p) ==
  {d \in Conversation(p) :
     Cardinality({e \in Conversation(p) : e.id > d.id}) < PageLimit}

\* get_unread_direct_message_counts, one entry of it.
Unread(reader, sender) ==
  Cardinality({d \in direct : d.to = reader /\ d.from = sender /\ ~d.read})

\* send_direct_message.
SendDirect(p) ==
  /\ Free /\ AreFriends(p)
  /\ Cardinality(direct) < MaxDirect
  /\ direct' = direct \cup {[id |-> Cardinality(direct) + 1,
                             from |-> p[1], to |-> p[2], read |-> FALSE]}
  /\ UNCHANGED <<request, friendship, invited, shown, unfinished, torn, crashes>>

\* mark_direct_messages_read, of what p[2] sent p[1].
MarkedRead(p) ==
  {IF d.to = p[1] /\ d.from = p[2] THEN [d EXCEPT !.read = TRUE] ELSE d : d \in direct}

\* A bug the checks must notice: the page is returned before it is marked.
OpenShowingFirst(p) ==
  /\ Free /\ AreFriends(p)
  /\ shown' = shown \cup {d.id : d \in {e \in Latest(p) : e.to = p[1]}}
  /\ unfinished' = [what |-> "list", pair |-> p]
  /\ UNCHANGED <<request, friendship, invited, direct, torn, crashes>>

\* list_direct_messages by p[1], first commit: everything from the friend is read.
OpenConversation(p) ==
  /\ Free /\ AreFriends(p)
  /\ direct' = MarkedRead(p)
  /\ unfinished' = [what |-> "list", pair |-> p]
  /\ UNCHANGED <<request, friendship, invited, shown, torn, crashes>>

\* Then the latest messages are read back and returned.
ReturnPage ==
  /\ ~Free /\ unfinished.what = "list"
  /\ shown' = shown \cup {d.id : d \in {e \in Latest(unfinished.pair) :
                                          e.to = unfinished.pair[1]}}
  /\ unfinished' = Nothing
  /\ UNCHANGED <<request, friendship, invited, direct, torn, crashes>>

-----------------------------------------------------------------------------
\* The process ends, or the second commit raises, between two commits.
Crash ==
  /\ ~Free
  /\ crashes < MaxCrashes
  /\ crashes' = crashes + 1
  /\ torn' = torn \cup (IF unfinished.what = "list" THEN {}
                          ELSE {unfinished.pair, Flip(unfinished.pair)})
  /\ unfinished' = Nothing
  /\ UNCHANGED <<request, friendship, invited, direct, shown>>

FriendInit ==
  /\ request = [p \in Pairs |-> "none"]
  /\ friendship = {} /\ invited = {} /\ direct = {} /\ shown = {}
  /\ unfinished = Nothing /\ torn = {} /\ crashes = 0

FriendNext ==
  \/ \E p \in Pairs : CreateRequest(p) \/ AnswerByRequest(p)
  \/ \E p \in Pairs : AcceptRequest(p) \/ RejectRequest(p)
  \/ \E p \in Pairs : RemoveFriend(p) \/ Invite(p) \/ InvitationEnds(p)
  \/ \E p \in Pairs : SendDirect(p) \/ OpenConversation(p)
  \/ MarkAccepted \/ CancelInvitations \/ ReturnPage \/ Crash

FriendSpec == FriendInit /\ [][FriendNext]_friendVars

-----------------------------------------------------------------------------
(***************************************************************************)
(* Properties.                                                             *)
(***************************************************************************)

FriendTypeOK ==
  /\ request \in [Pairs -> Statuses]
  /\ friendship \subseteq Pairs
  /\ invited \subseteq Pairs
  /\ direct \subseteq DirectMessage
  /\ shown \subseteq 1..MaxDirect
  /\ unfinished \in Owed \cup {Nothing}
  /\ torn \subseteq Pairs
  /\ crashes \in 0..MaxCrashes

Reciprocal == \A p \in Pairs : p \in friendship => Flip(p) \in friendship

\* Two people never have open requests in both directions, however requests,
\* answers, unfriending and crashes fall: send_friend_request turns the second
\* request into an answer, and friendship is mutual from its first commit on.
CrossedRequestsMeet ==
  /\ Reciprocal
  /\ \A p \in Pairs : ~(Pending(p) /\ Pending(Flip(p)))

\* Nothing but a crash between two commits leaves a request open between
\* friends, or an invitation open between people who are not: outside that
\* window accept_friend_request and remove_friend finish what they begin.
OnlyACrashTears ==
  \A p \in Pairs :
    \/ p \in torn
    \/ ~Free /\ unfinished.pair \in {p, Flip(p)}
    \/ (Pending(p) => ~AreFriends(p)) /\ (p \in invited => AreFriends(p))

\* A message its recipient has been shown is never counted as unread again:
\* list_direct_messages marks before it reads, so a crash in between can lose
\* a badge but never leave one on a message that was read.
ShownMessagesAreRead == \A d \in direct : d.id \in shown => d.read

================================================================================
