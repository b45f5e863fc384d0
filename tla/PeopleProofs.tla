------------------------------ MODULE PeopleProofs ------------------------------
(***************************************************************************)
(* Theorems about FriendGraph, Accounts and Shelf, for any number of       *)
(* people, tokens, addresses, shows and files, and about their composition *)
(* in MCPeople.                                                            *)
(***************************************************************************)
EXTENDS MCPeople, SequenceFacts, FiniteSetTheorems

-----------------------------------------------------------------------------
(***************************************************************************)
(* The friend graph: its inductive invariant.                              *)
(***************************************************************************)

\* The row of p and its invitations say the same as the friendship.
Intact(p) == (Pending(p) => ~AreFriends(p)) /\ (p \in invited => AreFriends(p))

\* The pairs a handler that is under way has left half changed.
HalfChanged(p) ==
  ~Free /\ unfinished.what # "list" /\ unfinished.pair \in {p, Flip(p)}

\* OnlyACrashTears, with the window closed while a conversation is listed.
TornOrIntact == \A p \in Pairs : p \in torn \/ HalfChanged(p) \/ Intact(p)

\* What the first commit of a handler has established for its second.
OwedRightly ==
  /\ ~Free /\ unfinished.what = "mark accepted" =>
       AreFriends(unfinished.pair) /\ Pending(unfinished.pair)
  /\ ~Free /\ unfinished.what = "cancel invitations" => ~AreFriends(unfinished.pair)
  /\ ~Free /\ unfinished.what = "list" =>
       \A d \in direct :
         d.to = unfinished.pair[1] /\ d.from = unfinished.pair[2] => d.read

\* Messages are numbered in the order they are sent.
Numbered ==
  /\ IsFiniteSet(direct)
  /\ \A d \in direct : d.id <= Cardinality(direct)
  /\ \A i \in shown : i <= Cardinality(direct)
  /\ \A d, e \in direct : d.id = e.id => d = e

FriendInv ==
  /\ FriendTypeOK /\ CrossedRequestsMeet
  /\ TornOrIntact /\ OwedRightly
  /\ Numbered /\ ShownMessagesAreRead

LEMMA FlipFacts ==
  ASSUME NEW p \in Pairs
  PROVE  /\ Flip(p) \in Pairs /\ Flip(Flip(p)) = p /\ Flip(p) # p
         /\ p[1] \in People /\ p[2] \in People /\ p[1] # p[2]
  BY DEF Pairs, Flip

LEMMA OwedFacts ==
  ASSUME FriendTypeOK, ~Free
  PROVE  /\ unfinished.pair \in Pairs
         /\ unfinished.what \in {"mark accepted", "cancel invitations", "list"}
  BY DEF FriendTypeOK, Free, Owed

LEMMA OwedType ==
  ASSUME NEW p \in Pairs, NEW what \in {"mark accepted", "cancel invitations", "list"}
  PROVE  /\ [what |-> what, pair |-> p] \in Owed
         /\ [what |-> what, pair |-> p] # Nothing
<1>1. [what |-> what, pair |-> p] \in Owed
  BY DEF Owed
<1> QED
  BY <1>1, NothingIsOwed

\* The handlers, one by one: what a step of the specification is.
LEMMA FriendSteps ==
  ASSUME FriendNext
  PROVE  \/ \E p \in Pairs :
              \/ CreateRequest(p) \/ AcceptRequest(p) \/ RejectRequest(p)
              \/ AnswerByRequest(p) \/ RemoveFriend(p) \/ Invite(p) \/ InvitationEnds(p)
              \/ SendDirect(p) \/ OpenConversation(p)
         \/ MarkAccepted \/ CancelInvitations \/ ReturnPage \/ Crash
  BY DEF FriendNext

\* Answering by a request is accepting the one that came from the other side.
LEMMA Accepts ==
  ASSUME NEW p \in Pairs, AcceptRequest(p) \/ AnswerByRequest(p)
  PROVE  \E q \in Pairs : Free /\ Pending(q) /\ Accepting(q)
  BY FlipFacts DEF AcceptRequest, AnswerByRequest

\* Marking changes no number.
LEMMA MarkedFacts ==
  ASSUME FriendTypeOK, Numbered, NEW p \in Pairs
  PROVE  /\ IsFiniteSet(MarkedRead(p)) /\ Cardinality(MarkedRead(p)) = Cardinality(direct)
         /\ MarkedRead(p) \subseteq DirectMessage
         /\ \A d \in MarkedRead(p) : \E e \in direct :
              /\ d.id = e.id /\ d.to = e.to /\ d.from = e.from
              /\ d.read <=> (e.read \/ (e.to = p[1] /\ e.from = p[2]))
         /\ \A d, e \in MarkedRead(p) : d.id = e.id => d = e
<1> DEFINE Mark(d) == IF d.to = p[1] /\ d.from = p[2] THEN [d EXCEPT !.read = TRUE] ELSE d
           f == [d \in direct |-> Mark(d)]
<1>1. \A d \in direct : /\ Mark(d) \in DirectMessage
                        /\ Mark(d).id = d.id /\ Mark(d).to = d.to /\ Mark(d).from = d.from
                        /\ Mark(d).read <=> (d.read \/ (d.to = p[1] /\ d.from = p[2]))
  BY DEF FriendTypeOK, DirectMessage
<1>2. MarkedRead(p) = {Mark(d) : d \in direct}
  BY DEF MarkedRead
<1>3. f \in Bijection(direct, MarkedRead(p))
  <2>1. f \in [direct -> MarkedRead(p)]
    BY <1>2
  <2>2. \A d, e \in direct : f[d] = f[e] => d = e
    <3> SUFFICES ASSUME NEW d \in direct, NEW e \in direct, Mark(d) = Mark(e)
                 PROVE  d = e
      OBVIOUS
    <3>1. d.id = e.id
      BY <1>1
    <3> QED
      BY <3>1 DEF Numbered
  <2>3. \A m \in MarkedRead(p) : \E d \in direct : f[d] = m
    BY <1>2
  <2> QED
    BY <2>1, <2>2, <2>3 DEF Bijection, Injection, Surjection, IsInjective
<1>4. IsFiniteSet(MarkedRead(p)) /\ Cardinality(MarkedRead(p)) = Cardinality(direct)
  BY <1>3, FS_Bijection DEF Numbered, ExistsBijection
<1> HIDE DEF Mark
<1>5. \A d, e \in MarkedRead(p) : d.id = e.id => d = e
  BY <1>1, <1>2 DEF Numbered
<1>6. \A d \in MarkedRead(p) : \E e \in direct :
              /\ d.id = e.id /\ d.to = e.to /\ d.from = e.from
              /\ d.read <=> (e.read \/ (e.to = p[1] /\ e.from = p[2]))
  BY <1>1, <1>2
<1>7. MarkedRead(p) \subseteq DirectMessage
  BY <1>1, <1>2
<1> QED
  BY <1>4, <1>5, <1>6, <1>7

LEMMA FriendTypeStep ==
  ASSUME FriendTypeOK, Numbered, FriendNext
  PROVE  FriendTypeOK'
<1> USE DEF FriendTypeOK, Free
<1>1. ASSUME NEW p \in Pairs, CreateRequest(p) \/ RejectRequest(p)
      PROVE  FriendTypeOK'
  BY <1>1 DEF CreateRequest, RejectRequest, Statuses
<1>2. ASSUME NEW p \in Pairs, AcceptRequest(p) \/ AnswerByRequest(p)
      PROVE  FriendTypeOK'
  <2>1. PICK q \in Pairs : Accepting(q)
    BY <1>2, Accepts
  <2> QED
    BY <2>1, OwedType, FlipFacts DEF Accepting, Pair
<1>3. ASSUME NEW p \in Pairs, RemoveFriend(p) \/ Invite(p) \/ InvitationEnds(p)
      PROVE  FriendTypeOK'
  BY <1>3, OwedType DEF RemoveFriend, Invite, InvitationEnds
<1>4. ASSUME NEW p \in Pairs, SendDirect(p)
      PROVE  FriendTypeOK'
  <2>1. Cardinality(direct) \in Nat
    BY FS_CardinalityType DEF Numbered
  <2>2. [id |-> Cardinality(direct) + 1, from |-> p[1], to |-> p[2], read |-> FALSE]
          \in DirectMessage
    BY <1>4, <2>1, FriendBounds, FlipFacts DEF SendDirect, DirectMessage
  <2> QED
    BY <1>4, <2>2 DEF SendDirect
<1>5. ASSUME NEW p \in Pairs, OpenConversation(p)
      PROVE  FriendTypeOK'
  BY <1>5, MarkedFacts, OwedType DEF OpenConversation
<1>6. ASSUME MarkAccepted
      PROVE  FriendTypeOK'
  BY <1>6, OwedFacts DEF MarkAccepted, Statuses
<1>7. ASSUME CancelInvitations
      PROVE  FriendTypeOK'
  BY <1>7 DEF CancelInvitations
<1>8. ASSUME ReturnPage
      PROVE  FriendTypeOK'
  <2>1. \A e \in Latest(unfinished.pair) : e.id \in 1..MaxDirect
    BY DEF Latest, Conversation, DirectMessage
  <2> QED
    BY <1>8, <2>1 DEF ReturnPage
<1>9. ASSUME Crash
      PROVE  FriendTypeOK'
  <2>1. unfinished.pair \in Pairs /\ Flip(unfinished.pair) \in Pairs
    BY <1>9, OwedFacts, FlipFacts DEF Crash
  <2>2. crashes' \in 0..MaxCrashes
    BY <1>9, FriendBounds DEF Crash
  <2> QED
    BY <1>9, <2>1, <2>2 DEF Crash
<1> QED
  BY FriendSteps, <1>1, <1>2, <1>3, <1>4, <1>5, <1>6, <1>7, <1>8, <1>9

LEMMA CrossedStep ==
  ASSUME FriendTypeOK, CrossedRequestsMeet, FriendNext
  PROVE  CrossedRequestsMeet'
<1> USE DEF CrossedRequestsMeet, Reciprocal, Pending
<1>1. ASSUME NEW p \in Pairs, CreateRequest(p)
      PROVE  CrossedRequestsMeet'
  <2>1. \A q \in Pairs : request'[q] = IF q = p THEN "pending" ELSE request[q]
    BY <1>1 DEF CreateRequest, FriendTypeOK
  <2>2. ~Pending(Flip(p)) /\ UNCHANGED friendship
    BY <1>1 DEF CreateRequest
  <2>3. \A q \in Pairs : ~(request'[q] = "pending" /\ request'[Flip(q)] = "pending")
    BY <2>1, <2>2, FlipFacts
  <2> QED
    BY <2>2, <2>3
<1>2. ASSUME NEW p \in Pairs, AcceptRequest(p) \/ AnswerByRequest(p)
      PROVE  CrossedRequestsMeet'
  <2>1. PICK q \in Pairs : Accepting(q)
    BY <1>2, Accepts
  <2> QED
    BY <2>1, FlipFacts DEF Accepting, Pair
<1>3. ASSUME NEW p \in Pairs, RemoveFriend(p)
      PROVE  CrossedRequestsMeet'
  BY <1>3, FlipFacts DEF RemoveFriend
<1>4. ASSUME NEW p \in Pairs, RejectRequest(p)
      PROVE  CrossedRequestsMeet'
  <2>1. \A q \in Pairs : request'[q] = "pending" => request[q] = "pending"
    BY <1>4 DEF RejectRequest, FriendTypeOK
  <2> QED
    BY <1>4, <2>1, FlipFacts DEF RejectRequest
<1>5. ASSUME MarkAccepted
      PROVE  CrossedRequestsMeet'
  <2>1. \A q \in Pairs : request'[q] = "pending" => request[q] = "pending"
    BY <1>5 DEF MarkAccepted, FriendTypeOK
  <2> QED
    BY <1>5, <2>1, FlipFacts DEF MarkAccepted
<1>6. ASSUME UNCHANGED <<request, friendship>>
      PROVE  CrossedRequestsMeet'
  BY <1>6
<1> QED
  BY FriendSteps, <1>1, <1>2, <1>3, <1>4, <1>5, <1>6
  DEF Invite, InvitationEnds, SendDirect, OpenConversation, CancelInvitations, ReturnPage, Crash

\* Where no handler is half way, a pair is torn or intact.
LEMMA Elsewhere ==
  ASSUME FriendTypeOK, TornOrIntact, NEW p \in Pairs,
         Free \/ unfinished.what = "list" \/ p \notin {unfinished.pair, Flip(unfinished.pair)}
  PROVE  p \in torn \/ Intact(p)
<1>1. ASSUME ~Free, unfinished.pair \in {p, Flip(p)}
      PROVE  p \in {unfinished.pair, Flip(unfinished.pair)}
  BY <1>1, FlipFacts
<1> QED
  BY <1>1 DEF TornOrIntact, HalfChanged

\* A handler's first commit leaves alone what it is not about.
LEMMA TornStep ==
  ASSUME FriendInv, FriendNext
  PROVE  TornOrIntact'
<1> USE DEF TornOrIntact, HalfChanged, Intact, Pending, AreFriends, Free
<1>0. FriendTypeOK /\ Reciprocal
  BY DEF FriendInv, CrossedRequestsMeet
<1>1. ASSUME NEW p \in Pairs, CreateRequest(p)
      PROVE  TornOrIntact'
  <2>1. \A q \in Pairs : request'[q] = IF q = p THEN "pending" ELSE request[q]
    BY <1>1, <1>0 DEF CreateRequest, FriendTypeOK
  <2> QED
    BY <1>1, <2>1 DEF CreateRequest, FriendInv
<1>2. ASSUME NEW p \in Pairs, AcceptRequest(p) \/ AnswerByRequest(p)
      PROVE  TornOrIntact'
  <2>1. PICK q \in Pairs : Free /\ Accepting(q)
    BY <1>2, Accepts
  <2>2. unfinished'.pair = q /\ unfinished'.what = "mark accepted" /\ unfinished' # Nothing
    BY <2>1, OwedType DEF Accepting
  <2>3. \A r \in Pairs : r \notin {q, Flip(q)} => (r \in friendship' <=> r \in friendship)
    BY <2>1 DEF Accepting, Pair
  <2>4. \A r \in Pairs : q \in {r, Flip(r)} <=> r \in {q, Flip(q)}
    BY FlipFacts
  <2>5. \A r \in Pairs : r \in torn \/ Intact(r)
    BY <2>1, Elsewhere DEF FriendInv
  <2>6. request' = request /\ invited' = invited /\ torn' = torn
    BY <2>1 DEF Accepting
  <2>7. \A r \in Pairs : r \in {q, Flip(q)} => HalfChanged(r)'
    BY <2>2, <2>4
  <2>8. \A r \in Pairs : r \notin {q, Flip(q)} => r \in torn' \/ Intact(r)'
    BY <2>3, <2>5, <2>6
  <2> QED
    BY <2>7, <2>8
<1>3. ASSUME NEW p \in Pairs, RejectRequest(p)
      PROVE  TornOrIntact'
  <2>1. \A q \in Pairs : request'[q] = "pending" => request[q] = "pending"
    BY <1>3, <1>0 DEF RejectRequest, FriendTypeOK
  <2> QED
    BY <1>3, <2>1 DEF RejectRequest, FriendInv
<1>4. ASSUME NEW p \in Pairs, RemoveFriend(p)
      PROVE  TornOrIntact'
  <2>1. unfinished'.pair = p /\ unfinished'.what = "cancel invitations" /\ unfinished' # Nothing
    BY <1>4, OwedType DEF RemoveFriend
  <2>2. \A r \in Pairs : p \in {r, Flip(r)} <=> r \in {p, Flip(p)}
    BY FlipFacts
  <2>3. \A r \in Pairs : r \in torn \/ Intact(r)
    BY <1>4, Elsewhere DEF FriendInv, RemoveFriend
  <2>4. \A r \in Pairs : r \in {p, Flip(p)} => HalfChanged(r)'
    BY <2>1, <2>2
  <2>5. \A r \in Pairs : r \notin {p, Flip(p)} => r \in torn' \/ Intact(r)'
    BY <1>4, <2>3 DEF RemoveFriend
  <2> QED
    BY <2>4, <2>5
<1>5. ASSUME NEW p \in Pairs, Invite(p) \/ InvitationEnds(p)
      PROVE  TornOrIntact'
  BY <1>5 DEF Invite, InvitationEnds, FriendInv
<1>6. ASSUME NEW p \in Pairs, SendDirect(p)
      PROVE  TornOrIntact'
  BY <1>6 DEF SendDirect, FriendInv
<1>7. ASSUME NEW p \in Pairs, OpenConversation(p)
      PROVE  TornOrIntact'
  BY <1>7 DEF OpenConversation, FriendInv
<1>8. ASSUME MarkAccepted
      PROVE  TornOrIntact'
  <2> DEFINE o == unfinished.pair
  <2>1. o \in Pairs /\ Flip(o) \in Pairs /\ Flip(o) # o
    BY <1>8, <1>0, OwedFacts, FlipFacts DEF MarkAccepted
  <2>2. o \in friendship /\ request[o] = "pending"
    BY <1>8 DEF MarkAccepted, FriendInv, OwedRightly
  <2>3. Flip(o) \in friendship /\ request[Flip(o)] # "pending"
    BY <2>1, <2>2 DEF FriendInv, CrossedRequestsMeet, Reciprocal
  <2>4. \A q \in Pairs : request'[q] = IF q = o THEN "accepted" ELSE request[q]
    BY <1>8, <1>0, <2>1 DEF MarkAccepted, FriendTypeOK
  <2>5. friendship' = friendship /\ invited' = invited /\ torn' = torn \ {o, Flip(o)}
    BY <1>8 DEF MarkAccepted
  <2>6. ASSUME NEW q \in Pairs, q \in {o, Flip(o)}
        PROVE  Intact(q)'
    BY <2>6, <2>1, <2>2, <2>3, <2>4, <2>5
  <2>7. ASSUME NEW q \in Pairs, q \notin {o, Flip(o)}
        PROVE  q \in torn' \/ Intact(q)'
    <3>1. q \in torn \/ Intact(q)
      BY <2>7, Elsewhere DEF FriendInv
    <3> QED
      BY <3>1, <2>7, <2>4, <2>5
  <2> QED
    BY <2>6, <2>7
<1>9. ASSUME CancelInvitations
      PROVE  TornOrIntact'
  <2> DEFINE o == unfinished.pair
  <2>1. o \in Pairs /\ Flip(o) \in Pairs /\ Flip(Flip(o)) = o
    BY <1>9, <1>0, OwedFacts, FlipFacts DEF CancelInvitations
  <2>2. o \notin friendship
    BY <1>9 DEF CancelInvitations, FriendInv, OwedRightly
  <2>3. Flip(o) \notin friendship
    BY <2>1, <2>2, <1>0 DEF Reciprocal
  <2>4. /\ friendship' = friendship /\ request' = request /\ torn' = torn
        /\ invited' = invited \ {o, Flip(o)}
    BY <1>9 DEF CancelInvitations
  <2>5. ASSUME NEW q \in Pairs, q \in {o, Flip(o)}
        PROVE  Intact(q)'
    BY <2>5, <2>2, <2>3, <2>4
  <2>6. ASSUME NEW q \in Pairs, q \notin {o, Flip(o)}
        PROVE  q \in torn' \/ Intact(q)'
    <3>1. q \in torn \/ Intact(q)
      BY <2>6, Elsewhere DEF FriendInv
    <3> QED
      BY <3>1, <2>6, <2>4
  <2> QED
    BY <2>5, <2>6
<1>10. ASSUME ReturnPage
       PROVE  TornOrIntact'
  <2>1. \A q \in Pairs : q \in torn \/ Intact(q)
    BY <1>10, Elsewhere DEF ReturnPage, FriendInv
  <2> QED
    BY <1>10, <2>1 DEF ReturnPage
<1>11. ASSUME Crash
       PROVE  TornOrIntact'
  <2> DEFINE o == unfinished.pair
  <2>1. CASE unfinished.what = "list"
    <3>1. \A q \in Pairs : q \in torn \/ Intact(q)
      BY <2>1, Elsewhere DEF FriendInv
    <3> QED
      BY <1>11, <2>1, <3>1 DEF Crash
  <2>2. CASE unfinished.what # "list"
    <3>1. torn' = torn \cup {o, Flip(o)}
      BY <1>11, <2>2 DEF Crash
    <3>2. \A q \in Pairs : q \notin {o, Flip(o)} => q \in torn \/ Intact(q)
      BY Elsewhere DEF FriendInv
    <3> QED
      BY <1>11, <3>1, <3>2 DEF Crash
  <2> QED
    BY <2>1, <2>2
<1> QED
  BY FriendSteps, <1>1, <1>2, <1>3, <1>4, <1>5, <1>6, <1>7, <1>8, <1>9, <1>10, <1>11

\* The second commit finds what the first one left.
LEMMA OwedStep ==
  ASSUME FriendInv, FriendNext
  PROVE  OwedRightly'
<1> USE DEF OwedRightly, Pending, AreFriends
<1>1. ASSUME NEW p \in Pairs, AcceptRequest(p) \/ AnswerByRequest(p)
      PROVE  OwedRightly'
  <2>1. PICK q \in Pairs : Pending(q) /\ Accepting(q)
    BY <1>1, Accepts
  <2> QED
    BY <2>1 DEF Accepting, Pair
<1>2. ASSUME NEW p \in Pairs, RemoveFriend(p)
      PROVE  OwedRightly'
  BY <1>2 DEF RemoveFriend
<1>3. ASSUME NEW p \in Pairs, OpenConversation(p)
      PROVE  OwedRightly'
  <2>1. \A d \in direct' : d.to = p[1] /\ d.from = p[2] => d.read
    BY <1>3, MarkedFacts DEF OpenConversation, FriendInv
  <2> QED
    BY <1>3, <2>1 DEF OpenConversation
<1>4. ASSUME NEW p \in Pairs,
             CreateRequest(p) \/ RejectRequest(p) \/ Invite(p)
               \/ InvitationEnds(p) \/ SendDirect(p)
      PROVE  OwedRightly'
  BY <1>4 DEF CreateRequest, RejectRequest, Invite, InvitationEnds, SendDirect, Free
<1>5. ASSUME MarkAccepted \/ CancelInvitations \/ ReturnPage \/ Crash
      PROVE  OwedRightly'
  BY <1>5 DEF MarkAccepted, CancelInvitations, ReturnPage, Crash, Free
<1> QED
  BY FriendSteps, <1>1, <1>2, <1>3, <1>4, <1>5

\* Numbers are never used again, and what is shown has one.
LEMMA NumberedStep ==
  ASSUME FriendInv, FriendNext
  PROVE  Numbered'
<1> USE DEF Numbered
<1>1. ASSUME NEW p \in Pairs, SendDirect(p)
      PROVE  Numbered'
  <2> DEFINE new == [id |-> Cardinality(direct) + 1, from |-> p[1], to |-> p[2], read |-> FALSE]
  <2>1. Cardinality(direct) \in Nat /\ IsFiniteSet(direct)
    BY FS_CardinalityType DEF FriendInv
  <2>2. direct' = direct \cup {new} /\ shown' = shown
    BY <1>1 DEF SendDirect
  <2>3. new.id = Cardinality(direct) + 1
    OBVIOUS
  <2>4. \A d \in direct : d.id \in Int /\ d.id <= Cardinality(direct)
    BY DEF FriendInv, FriendTypeOK, DirectMessage
  <2>5. new \notin direct
    BY <2>1, <2>3, <2>4
  <2> HIDE DEF new
  <2>6. IsFiniteSet(direct') /\ Cardinality(direct') = Cardinality(direct) + 1
    BY <2>1, <2>2, <2>5, FS_AddElement
  <2>7. \A i \in shown : i \in Int /\ i <= Cardinality(direct)
    BY DEF FriendInv, FriendTypeOK
  <2>8. \A d, e \in direct' : d.id = e.id => d = e
    BY <2>1, <2>2, <2>3, <2>4 DEF FriendInv
  <2>9. \A d \in direct' : d.id <= Cardinality(direct')
    BY <2>1, <2>2, <2>3, <2>4, <2>6
  <2>10. \A i \in shown' : i <= Cardinality(direct')
    BY <2>1, <2>2, <2>6, <2>7
  <2> QED
    BY <2>6, <2>8, <2>9, <2>10
<1>2. ASSUME NEW p \in Pairs, OpenConversation(p)
      PROVE  Numbered'
  BY <1>2, MarkedFacts DEF OpenConversation, FriendInv
<1>3. ASSUME ReturnPage
      PROVE  Numbered'
  <2>1. \A e \in Latest(unfinished.pair) : e \in direct
    BY DEF Latest, Conversation
  <2> QED
    BY <1>3, <2>1 DEF ReturnPage, FriendInv
<1>4. ASSUME UNCHANGED <<direct, shown>>
      PROVE  Numbered'
  BY <1>4 DEF FriendInv
<1> QED
  BY FriendSteps, <1>1, <1>2, <1>3, <1>4
  DEF CreateRequest, AcceptRequest, AnswerByRequest, Accepting, RejectRequest, RemoveFriend,
      Invite, InvitationEnds, MarkAccepted, CancelInvitations, Crash

\* Only the listing of a conversation shows messages, and it has marked them.
LEMMA ShownStep ==
  ASSUME FriendInv, FriendNext
  PROVE  ShownMessagesAreRead'
<1> USE DEF ShownMessagesAreRead
<1>1. ASSUME NEW p \in Pairs, SendDirect(p)
      PROVE  ShownMessagesAreRead'
  <2>1. Cardinality(direct) \in Nat
    BY FS_CardinalityType DEF FriendInv, Numbered
  <2>2. \A i \in shown : i \in Int /\ i <= Cardinality(direct)
    BY DEF FriendInv, Numbered, FriendTypeOK
  <2>3. Cardinality(direct) + 1 \notin shown
    BY <2>1, <2>2
  <2> QED
    BY <1>1, <2>3 DEF SendDirect, FriendInv
<1>2. ASSUME NEW p \in Pairs, OpenConversation(p)
      PROVE  ShownMessagesAreRead'
  BY <1>2, MarkedFacts DEF OpenConversation, FriendInv
<1>3. ASSUME ReturnPage
      PROVE  ShownMessagesAreRead'
  <2> DEFINE o == unfinished.pair
  <2>1. o \in Pairs /\ o[1] # o[2]
    BY <1>3, OwedFacts, FlipFacts DEF ReturnPage, FriendInv
  <2>2. ASSUME NEW e \in Latest(o), e.to = o[1]
        PROVE  e \in direct /\ e.read
    <3>1. e \in direct /\ {e.from, e.to} = {o[1], o[2]}
      BY <2>2 DEF Latest, Conversation, Between
    <3>2. e.from = o[2]
      BY <3>1, <2>2, <2>1
    <3> QED
      BY <1>3, <3>1, <3>2, <2>2 DEF ReturnPage, FriendInv, OwedRightly
  <2>3. \A d \in direct, e \in Latest(o) : e.to = o[1] /\ d.id = e.id => d.read
    BY <2>2 DEF FriendInv, Numbered
  <2> QED
    BY <1>3, <2>3 DEF ReturnPage, FriendInv
<1>4. ASSUME UNCHANGED <<direct, shown>>
      PROVE  ShownMessagesAreRead'
  BY <1>4 DEF FriendInv
<1> QED
  BY FriendSteps, <1>1, <1>2, <1>3, <1>4
  DEF CreateRequest, AcceptRequest, AnswerByRequest, Accepting, RejectRequest, RemoveFriend,
      Invite, InvitationEnds, MarkAccepted, CancelInvitations, Crash

LEMMA FriendInitInv == FriendInit => FriendInv
<1> SUFFICES ASSUME FriendInit PROVE FriendInv
  OBVIOUS
<1>1. FriendTypeOK
  BY FriendBounds DEF FriendInit, FriendTypeOK, Statuses
<1>2. CrossedRequestsMeet
  BY FlipFacts DEF FriendInit, CrossedRequestsMeet, Reciprocal, Pending
<1>3. TornOrIntact
  BY DEF FriendInit, TornOrIntact, Intact, Pending, AreFriends
<1>4. OwedRightly
  BY DEF FriendInit, OwedRightly, Free
<1>5. Numbered
  BY FS_EmptySet DEF FriendInit, Numbered
<1>6. ShownMessagesAreRead
  BY DEF FriendInit, ShownMessagesAreRead
<1> QED
  BY <1>1, <1>2, <1>3, <1>4, <1>5, <1>6 DEF FriendInv

LEMMA FriendNextInv == FriendInv /\ [FriendNext]_friendVars => FriendInv'
<1> SUFFICES ASSUME FriendInv, [FriendNext]_friendVars PROVE FriendInv'
  OBVIOUS
<1>1. CASE FriendNext
  <2>1. FriendTypeOK' /\ CrossedRequestsMeet'
    BY <1>1, FriendTypeStep, CrossedStep DEF FriendInv
  <2>2. TornOrIntact' /\ OwedRightly' /\ Numbered' /\ ShownMessagesAreRead'
    BY <1>1, TornStep, OwedStep, NumberedStep, ShownStep
  <2> QED
    BY <2>1, <2>2 DEF FriendInv
<1>2. CASE UNCHANGED friendVars
  BY <1>2 DEF friendVars, FriendInv, FriendTypeOK, CrossedRequestsMeet, Reciprocal, TornOrIntact,
              HalfChanged, Intact, OwedRightly, Numbered, ShownMessagesAreRead, Pending,
              AreFriends, Free
<1> QED
  BY <1>1, <1>2

\* The inductive invariant holds in every reachable state.
THEOREM FriendInvariance == FriendSpec => []FriendInv
<1> QED
  BY FriendInitInv, FriendNextInv, PTL DEF FriendSpec

\* The tables keep their types, and every message its place within the bound.
THEOREM FriendTypesHold == FriendSpec => []FriendTypeOK
<1>1. FriendInv => FriendTypeOK
  BY DEF FriendInv
<1> QED
  BY <1>1, FriendInvariance, PTL

\* Friendship is mutual and open requests never cross, for any number of people.
THEOREM RequestsMeet == FriendSpec => []CrossedRequestsMeet
<1>1. FriendInv => CrossedRequestsMeet
  BY DEF FriendInv
<1> QED
  BY <1>1, FriendInvariance, PTL

\* Outside a crash, no request stays open between friends and no invitation
\* between people who are not.
THEOREM OnlyCrashesTear == FriendSpec => []OnlyACrashTears
<1>1. FriendInv => OnlyACrashTears
  BY DEF FriendInv, TornOrIntact, HalfChanged, Intact, OnlyACrashTears
<1> QED
  BY <1>1, FriendInvariance, PTL

\* No message that was shown to its recipient counts as unread.
THEOREM ShownIsRead == FriendSpec => []ShownMessagesAreRead
<1>1. FriendInv => ShownMessagesAreRead
  BY DEF FriendInv
<1> QED
  BY <1>1, FriendInvariance, PTL

-----------------------------------------------------------------------------
(***************************************************************************)
(* Sessions.  A token is over only if it was drawn, and only a drawn token *)
(* has a row: so no token that is over is ever drawn again.                *)
(***************************************************************************)

SessionTypeOK ==
  /\ drawn \subseteq Tokens /\ over \subseteq Tokens
  /\ session \in [Tokens -> SessionRow \cup {NoSession}]

RowsWereDrawn == \A t \in Tokens : session[t] # NoSession => t \in drawn

OverWereDrawn == over \subseteq drawn

SessionInv ==
  SessionTypeOK /\ RowsWereDrawn /\ OverWereDrawn /\ EndedSessionsStayEnded

sessionVars == <<session, drawn, over>>

\* Issuing a session touches the row of its fresh token only.
LEMMA IssueStep ==
  ASSUME SessionInv, NEW n \in Names, IssueSession(n), UNCHANGED over
  PROVE  SessionInv'
<1>1. PICK t \in Tokens \ drawn :
        /\ drawn' = drawn \cup {t}
        /\ session' = [session EXCEPT ![t] = [user |-> n, age |-> 0]]
  BY DEF IssueSession
<1>2. [user |-> n, age |-> 0] \in SessionRow
  <2>1. 0 \in 0..SessionTtl + 1
    BY AccountLimits
  <2> QED
    BY <2>1 DEF SessionRow
<1>3. SessionTypeOK'
  BY <1>1, <1>2 DEF SessionInv, SessionTypeOK
<1>4. RowsWereDrawn'
  BY <1>1 DEF SessionInv, SessionTypeOK, RowsWereDrawn
<1>5. OverWereDrawn'
  BY <1>1 DEF SessionInv, OverWereDrawn
<1>6. EndedSessionsStayEnded'
  BY <1>1 DEF SessionInv, SessionTypeOK, OverWereDrawn, EndedSessionsStayEnded
<1> QED
  BY <1>3, <1>4, <1>5, <1>6 DEF SessionInv

\* Ending one removes its row.
LEMMA EndStep ==
  ASSUME SessionInv, NEW t \in Tokens, t \in drawn,
         session' = [session EXCEPT ![t] = NoSession],
         over' = over \cup {t}, UNCHANGED drawn
  PROVE  SessionInv'
BY DEF SessionInv, SessionTypeOK, RowsWereDrawn, OverWereDrawn, EndedSessionsStayEnded

\* Time and restarts make rows older or remove them.
LEMMA AgeStep ==
  ASSUME SessionInv, Tick \/ Restart
  PROVE  SessionInv'
<1>1. UNCHANGED <<drawn, over>>
  BY DEF Tick, Restart
<1>2. session' \in [Tokens -> SessionRow \cup {NoSession}]
  <2>1. CASE Tick
    <3>1. ASSUME NEW t \in Tokens, session[t] # NoSession
          PROVE  [session[t] EXCEPT !.age = Aged(@, SessionTtl + 1)] \in SessionRow
      <4>1. session[t] \in SessionRow
        BY <3>1 DEF SessionInv, SessionTypeOK
      <4>2. Aged(session[t].age, SessionTtl + 1) \in 0..SessionTtl + 1
        BY <4>1, AccountLimits DEF Aged, SessionRow
      <4> QED
        BY <4>1, <4>2 DEF SessionRow
    <3> QED
      BY <2>1, <3>1 DEF Tick
  <2>2. CASE Restart
    BY <2>2 DEF Restart, SessionInv, SessionTypeOK
  <2> QED
    BY <2>1, <2>2
<1>3. \A t \in Tokens : session[t] = NoSession => session'[t] = NoSession
  BY DEF Tick, Restart
<1> QED
  BY <1>1, <1>2, <1>3
  DEF SessionInv, SessionTypeOK, RowsWereDrawn, OverWereDrawn, EndedSessionsStayEnded

LEMMA SessionInvHolds ==
  AccountSpec => []SessionInv
<1>1. AccountInit => SessionInv
  BY DEF AccountInit, SessionInv, SessionTypeOK, RowsWereDrawn, OverWereDrawn,
         EndedSessionsStayEnded
<1>2. ASSUME SessionInv, [AccountNext]_accountVars
      PROVE  SessionInv'
  <2>1. ASSUME UNCHANGED sessionVars
        PROVE  SessionInv'
    BY <1>2, <2>1 DEF sessionVars, SessionInv, SessionTypeOK, RowsWereDrawn,
                      OverWereDrawn, EndedSessionsStayEnded
  <2>2. ASSUME NEW n \in Names, Register(n)
        PROVE  SessionInv'
    BY <1>2, <2>2, IssueStep DEF Register
  <2>3. ASSUME NEW n \in Names, RegisterHalfway(n)
        PROVE  SessionInv'
    BY <2>3, <2>1 DEF RegisterHalfway, sessionVars
  <2>4. ASSUME NEW n \in Names, NEW a \in Addresses, LoginSucceeds(n, a)
        PROVE  SessionInv'
    BY <1>2, <2>4, IssueStep DEF LoginSucceeds
  <2>5. ASSUME NEW a \in Addresses, LoginFails(a) \/ LoginThrottled(a)
        PROVE  SessionInv'
    BY <2>5, <2>1 DEF LoginFails, LoginThrottled, sessionVars
  <2>6. ASSUME NEW t \in Tokens, RefuseExpired(t)
        PROVE  SessionInv'
    <3>1. t \in drawn
      BY <1>2, <2>6 DEF RefuseExpired, Expired, SessionInv, RowsWereDrawn
    <3> QED
      BY <1>2, <2>6, <3>1, EndStep DEF RefuseExpired
  <2>7. ASSUME NEW t \in Tokens, Logout(t)
        PROVE  SessionInv'
    BY <1>2, <2>7, EndStep DEF Logout
  <2>8. CASE Tick \/ Restart
    BY <1>2, <2>8, AgeStep
  <2>9. CASE UNCHANGED accountVars
    BY <2>9, <2>1 DEF accountVars, sessionVars
  <2> QED
    BY <1>2, <2>2, <2>3, <2>4, <2>5, <2>6, <2>7, <2>8, <2>9 DEF AccountNext
<1> QED
  BY <1>1, <1>2, PTL DEF AccountSpec

\* A token that was logged out or refused as expired never authenticates
\* again (get_user_by_session, delete_user_session, create_user_session).
THEOREM SessionsEndForGood == AccountSpec => []EndedSessionsStayEnded
<1>1. SessionInv => EndedSessionsStayEnded
  BY DEF SessionInv
<1> QED
  BY <1>1, SessionInvHolds, PTL

-----------------------------------------------------------------------------
(***************************************************************************)
(* The limiter.  What the loop of hit leaves, and what time does to it.    *)
(***************************************************************************)

LEMMA LimitFacts ==
  /\ Window \in Nat /\ Window > 0 /\ Capacity \in Nat /\ Capacity > 0
  /\ 0 \in Ages
  /\ \A n \in Ages : n \in Nat /\ n <= Window + 1
BY AccountLimits DEF Ages

\* The loop pops the hits in front of the first one that counts.
LEMMA PoppedFacts ==
  ASSUME NEW q \in Seq(Ages)
  PROVE  /\ Popped(q, Window) \in 0..Len(q)
         /\ \A i \in 1..Popped(q, Window) : q[i] > Window
         /\ Popped(q, Window) < Len(q) => q[Popped(q, Window) + 1] <= Window
<1> DEFINE Stops(k) == k < Len(q) => q[k + 1] <= Window
           T == {k \in 0..Len(q) : Stops(k)}
<1>1. Len(q) \in Nat /\ \A i \in 1..Len(q) : q[i] \in Ages
  BY ElementFacts
<1>2. Len(q) \in T
  BY <1>1
<1>3. PICK x \in T : \A y \in T : x <= y
  <2>1. T \subseteq Nat /\ T # {}
    BY <1>1, <1>2
  <2> HIDE DEF T
  <2> QED
    BY <2>1, LeastNumber
<1>4. ASSUME NEW i \in 1..x
      PROVE  q[i] > Window
  <2>1. i - 1 \in 0..Len(q) /\ i \in 1..Len(q) /\ i \in Nat /\ x \in Nat
    BY <1>1
  <2>2. i - 1 \notin T
    BY <1>3, <2>1
  <2>3. ~(q[(i - 1) + 1] <= Window)
    BY <2>1, <2>2
  <2>4. (i - 1) + 1 = i
    BY <2>1
  <2>5. q[i] \in Nat /\ Window \in Nat
    BY <1>1, <2>1, LimitFacts
  <2> QED
    BY <2>3, <2>4, <2>5
<1>5. \E k \in 0..Len(q) : /\ \A i \in 1..k : q[i] > Window
                           /\ Stops(k)
  BY <1>4
<1> QED
  BY <1>5 DEF Popped

\* Where it stops is determined.
LEMMA PoppedIs ==
  ASSUME NEW q \in Seq(Ages), NEW k \in 0..Len(q),
         \A i \in 1..k : q[i] > Window,
         k < Len(q) => q[k + 1] <= Window
  PROVE  Popped(q, Window) = k
<1> DEFINE x == Popped(q, Window)
<1>1. /\ x \in 0..Len(q)
      /\ \A i \in 1..x : q[i] > Window
      /\ x < Len(q) => q[x + 1] <= Window
  BY PoppedFacts
<1>2. Len(q) \in Nat /\ Window \in Nat /\ \A i \in 1..Len(q) : q[i] \in Nat
  BY ElementFacts, LimitFacts
<1> HIDE DEF x
<1>3. ASSUME x < k PROVE FALSE
  BY <1>1, <1>2, <1>3
<1>4. ASSUME k < x PROVE FALSE
  BY <1>1, <1>2, <1>4
<1>5. x = k
  BY <1>1, <1>2, <1>3, <1>4
<1> QED
  BY <1>5 DEF x

\* The hits in the window begin with one that counts.
LEMMA WindowFacts ==
  ASSUME NEW q \in Seq(Ages)
  PROVE  /\ InWindow(q) \in Seq(Ages)
         /\ Len(InWindow(q)) = Len(q) - Popped(q, Window)
         /\ Len(InWindow(q)) \in Nat /\ Len(InWindow(q)) <= Len(q)
         /\ \A i \in 1..Len(InWindow(q)) : InWindow(q)[i] = q[Popped(q, Window) + i]
         /\ Len(InWindow(q)) > 0 => InWindow(q)[1] <= Window
<1> DEFINE k == Popped(q, Window)
<1>1. k \in 0..Len(q) /\ (k < Len(q) => q[k + 1] <= Window)
  BY PoppedFacts
<1>2. InWindow(q) = SubSeq(q, k + 1, Len(q))
  BY DEF InWindow, Counted
<1> HIDE DEF k
<1>3. Len(q) \in Nat
  BY ElementFacts
<1>4. /\ InWindow(q) \in Seq(Ages)
      /\ Len(InWindow(q)) = Len(q) - k
      /\ \A i \in 1..(Len(q) - k) : InWindow(q)[i] = q[k + i]
  BY <1>1, <1>2, SubSeqFacts
<1>5. Len(InWindow(q)) > 0 => InWindow(q)[1] <= Window
  BY <1>1, <1>3, <1>4
<1>6. Len(InWindow(q)) \in Nat /\ Len(InWindow(q)) <= Len(q)
  BY <1>1, <1>3, <1>4
<1> QED
  BY <1>4, <1>5, <1>6 DEF k

\* Nothing is popped before a hit that counts.
LEMMA WindowStays ==
  ASSUME NEW q \in Seq(Ages), Len(q) > 0 => q[1] <= Window
  PROVE  InWindow(q) = q
<1>1. Len(q) \in Nat
  BY ElementFacts
<1>2. Popped(q, Window) = 0
  BY <1>1, PoppedIs
<1>3. InWindow(q) \in Seq(Ages) /\ Len(InWindow(q)) = Len(q)
      /\ \A i \in 1..Len(q) : InWindow(q)[i] = q[i]
  BY <1>1, <1>2, WindowFacts
<1> QED
  BY <1>3, SameElements

\* A new hit behind them.
LEMMA WindowGrows ==
  ASSUME NEW q \in Seq(Ages)
  PROVE  /\ Append(InWindow(q), 0) \in Seq(Ages)
         /\ Len(Append(InWindow(q), 0)) = Len(InWindow(q)) + 1
         /\ InWindow(Append(InWindow(q), 0)) = Append(InWindow(q), 0)
<1> DEFINE w == InWindow(q)
<1>1. w \in Seq(Ages) /\ Len(w) \in Nat /\ (Len(w) > 0 => w[1] <= Window)
  BY WindowFacts
<1> HIDE DEF w
<1>2. /\ Append(w, 0) \in Seq(Ages) /\ Len(Append(w, 0)) = Len(w) + 1
      /\ \A i \in 1..Len(w) : Append(w, 0)[i] = w[i]
      /\ Append(w, 0)[Len(w) + 1] = 0
  BY <1>1, LimitFacts, AppendFacts
<1>3. Append(w, 0)[1] <= Window
  <2>1. CASE Len(w) = 0
    BY <2>1, <1>2, LimitFacts
  <2>2. CASE Len(w) > 0
    BY <2>2, <1>1, <1>2
  <2> QED
    BY <1>1, <2>1, <2>2
<1> QED
  BY <1>2, <1>3, WindowStays DEF w

-----------------------------------------------------------------------------

Older(q) == [i \in DOMAIN q |-> Aged(q[i], Window + 1)]

\* A tick makes every hit older, and an old one stays old.
LEMMA OlderFacts ==
  ASSUME NEW q \in Seq(Ages)
  PROVE  /\ Older(q) \in Seq(Ages) /\ Len(Older(q)) = Len(q)
         /\ \A i \in 1..Len(q) :
              /\ q[i] > Window => Older(q)[i] > Window
              /\ q[i] <= Window => Older(q)[i] = q[i] + 1
<1>1. Len(q) \in Nat /\ DOMAIN q = 1..Len(q) /\ \A i \in 1..Len(q) : q[i] \in Ages
  BY ElementFacts
<1>2. \A i \in 1..Len(q) : Older(q)[i] = Aged(q[i], Window + 1)
  BY <1>1 DEF Older
<1>3. \A n \in Ages : /\ Aged(n, Window + 1) \in Ages
                      /\ n > Window => Aged(n, Window + 1) > Window
                      /\ n <= Window => Aged(n, Window + 1) = n + 1
  BY LimitFacts DEF Aged, Ages
<1>4. Older(q) \in [1..Len(q) -> Ages]
  BY <1>1, <1>3 DEF Older
<1>5. Older(q) \in Seq(Ages) /\ Len(Older(q)) = Len(q)
  BY <1>1, <1>4
<1> QED
  BY <1>1, <1>2, <1>3, <1>5

\* Whether the loop runs before or after the tick, or both, it leaves the same.
LEMMA WindowAges ==
  ASSUME NEW q \in Seq(Ages)
  PROVE  /\ InWindow(Older(InWindow(q))) = InWindow(Older(q))
         /\ Len(InWindow(Older(q))) <= Len(InWindow(q))
         /\ Len(InWindow(Older(q))) = Len(InWindow(q)) /\ Len(InWindow(q)) > 0
              => InWindow(Older(q))[1] = InWindow(q)[1] + 1
<1> DEFINE w == InWindow(q)
           k == Popped(q, Window)
           v == Older(w)
           j == Popped(v, Window)
           o == Older(q)
<1>1. /\ w \in Seq(Ages) /\ Len(w) = Len(q) - k /\ Len(w) \in Nat
      /\ \A i \in 1..Len(w) : w[i] = q[k + i]
      /\ Len(w) > 0 => w[1] <= Window
  BY WindowFacts
<1>2. Len(q) \in Nat /\ k \in 0..Len(q) /\ \A i \in 1..k : q[i] > Window
  BY PoppedFacts, ElementFacts
<1>3. /\ v \in Seq(Ages) /\ Len(v) = Len(w)
      /\ Len(w) > 0 /\ w[1] <= Window => v[1] = w[1] + 1
  BY <1>1, OlderFacts
<1>4. /\ o \in Seq(Ages) /\ Len(o) = Len(q)
      /\ \A i \in 1..Len(q) : q[i] > Window => o[i] > Window
  BY OlderFacts
<1>5. \A i \in 1..Len(w) : v[i] = o[k + i]
  <2> SUFFICES ASSUME NEW i \in 1..Len(w) PROVE v[i] = o[k + i]
    OBVIOUS
  <2>1. v[i] = Aged(w[i], Window + 1)
    BY <1>1 DEF Older
  <2>2. k + i \in 1..Len(q)
    BY <1>1, <1>2
  <2>3. o[k + i] = Aged(q[k + i], Window + 1)
    BY <2>2 DEF Older
  <2> QED
    BY <1>1, <2>1, <2>3
<1>6. /\ j \in 0..Len(v)
      /\ \A i \in 1..j : v[i] > Window
      /\ j < Len(v) => v[j + 1] <= Window
  BY <1>3, PoppedFacts
<1>7. /\ InWindow(v) \in Seq(Ages) /\ Len(InWindow(v)) = Len(v) - j
      /\ \A i \in 1..Len(InWindow(v)) : InWindow(v)[i] = v[j + i]
  BY <1>3, WindowFacts
<1>8. /\ InWindow(o) \in Seq(Ages) /\ Len(InWindow(o)) = Len(o) - Popped(o, Window)
      /\ \A i \in 1..Len(InWindow(o)) : InWindow(o)[i] = o[Popped(o, Window) + i]
  BY <1>4, WindowFacts
<1> HIDE DEF w, k, v, j, o
<1>9. Popped(o, Window) = k + j
  <2>1. k + j \in 0..Len(o)
    BY <1>1, <1>2, <1>3, <1>4, <1>6
  <2>2. ASSUME NEW i \in 1..(k + j)
        PROVE  o[i] > Window
    <3>1. CASE i <= k
      BY <3>1, <1>2, <1>4
    <3>2. CASE i > k
      <4>1. i - k \in 1..j /\ i - k \in 1..Len(w) /\ k + (i - k) = i
        BY <3>2, <1>2, <1>3, <1>6
      <4> QED
        BY <4>1, <1>5, <1>6
    <3> QED
      BY <3>1, <3>2, <1>2, <1>6
  <2>3. ASSUME k + j < Len(o)
        PROVE  o[k + j + 1] <= Window
    <3>1. j < Len(v) /\ j + 1 \in 1..Len(w) /\ k + (j + 1) = k + j + 1
      BY <2>3, <1>1, <1>2, <1>3, <1>4, <1>6
    <3> QED
      BY <3>1, <1>5, <1>6
  <2> QED
    BY <2>1, <2>2, <2>3, <1>4, PoppedIs
<1>10. Len(InWindow(o)) = Len(InWindow(v)) /\ Len(InWindow(v)) \in Nat
  BY <1>1, <1>2, <1>3, <1>4, <1>6, <1>7, <1>8, <1>9
<1>11. \A i \in 1..Len(InWindow(v)) : InWindow(v)[i] = InWindow(o)[i]
  <2> SUFFICES ASSUME NEW i \in 1..Len(InWindow(v))
               PROVE  InWindow(v)[i] = InWindow(o)[i]
    OBVIOUS
  <2>1. j + i \in 1..Len(w) /\ k + (j + i) = k + j + i
    BY <1>2, <1>3, <1>6, <1>7, <1>10
  <2>2. InWindow(v)[i] = o[k + (j + i)]
    BY <2>1, <1>5, <1>7
  <2> QED
    BY <2>1, <2>2, <1>8, <1>9, <1>10
<1>12. InWindow(v) = InWindow(o)
  BY <1>7, <1>8, <1>10, <1>11, SameElements
<1>13. Len(InWindow(o)) <= Len(w)
  BY <1>1, <1>3, <1>6, <1>7, <1>10
<1>14. ASSUME Len(InWindow(o)) = Len(w), Len(w) > 0
       PROVE  InWindow(o)[1] = w[1] + 1
  <2>1. j = 0
    BY <1>14, <1>1, <1>3, <1>6, <1>7, <1>10
  <2>2. InWindow(v)[1] = v[1]
    BY <1>14, <2>1, <1>3, <1>7, <1>10, <1>1
  <2> QED
    BY <2>2, <1>1, <1>3, <1>12, <1>14
<1> QED
  BY <1>12, <1>13, <1>14 DEF w, v, o

-----------------------------------------------------------------------------
(***************************************************************************)
(* The limiter's promise.  `refused', which only records what was          *)
(* answered, is what the loop would leave of the limiter's own memory, and *)
(* whoever was told to wait is not waited on much longer than that.        *)
(***************************************************************************)

LimiterTypeOK ==
  /\ bucket \in [Addresses -> Seq(Ages)]
  /\ refused \in [Addresses -> Seq(Ages)]
  /\ told \in [Addresses -> {-1} \cup Nat]

\* What holds of the memory b of an address, of the failures r answered 400 and
\* of the ticks t left of a Retry-After.
TheWaitIsRight(b, t) ==
  t >= 0 /\ Len(InWindow(b)) >= Capacity
    => Window - InWindow(b)[1] < t + TicksPerSecond

WordKept(b, r, t) == Len(b) <= Capacity /\ r = InWindow(b) /\ TheWaitIsRight(b, t)

LimiterInv == LimiterTypeOK /\ \A a \in Addresses : WordKept(bucket[a], refused[a], told[a])

\* The window that is throttled has a head.
LEMMA ThrottledFacts ==
  ASSUME LimiterTypeOK, NEW a \in Addresses
  PROVE  /\ bucket[a] \in Seq(Ages) /\ refused[a] \in Seq(Ages)
         /\ told[a] \in Int /\ told[a] >= -1
         /\ Throttled(a) <=> Len(InWindow(bucket[a])) >= Capacity
         /\ Throttled(a) => /\ Len(InWindow(bucket[a])) > 0
                            /\ Head(InWindow(bucket[a])) = InWindow(bucket[a])[1]
                            /\ InWindow(bucket[a])[1] \in 0..Window
<1>1. bucket[a] \in Seq(Ages) /\ refused[a] \in Seq(Ages) /\ told[a] \in {-1} \cup Nat
  BY DEF LimiterTypeOK
<1>2. /\ InWindow(bucket[a]) \in Seq(Ages) /\ Len(InWindow(bucket[a])) \in Nat
      /\ Len(InWindow(bucket[a])) > 0 => InWindow(bucket[a])[1] <= Window
  BY <1>1, WindowFacts
<1>3. ASSUME Throttled(a)
      PROVE  /\ Len(InWindow(bucket[a])) > 0
             /\ Head(InWindow(bucket[a])) = InWindow(bucket[a])[1]
             /\ InWindow(bucket[a])[1] \in 0..Window
  <2>1. Len(InWindow(bucket[a])) > 0
    BY <1>2, <1>3, LimitFacts DEF Throttled
  <2>2. InWindow(bucket[a])[1] \in Ages
    BY <1>2, <2>1, ElementFacts
  <2>3. Head(InWindow(bucket[a])) = InWindow(bucket[a])[1]
    BY <1>2, <2>1, ElementFacts, TailFacts
  <2> QED
    BY <1>2, <2>1, <2>2, <2>3, LimitFacts
<1>4. told[a] \in Int /\ told[a] >= -1
  BY <1>1
<1> QED
  BY <1>1, <1>3, <1>4 DEF Throttled

\* Rounding down takes less than a second off.
LEMMA RetryFacts ==
  ASSUME NEW ages, Head(ages) \in 0..Window
  PROVE  RetryAfter(ages) \in Nat /\ Window - Head(ages) < RetryAfter(ages) + TicksPerSecond
<1> DEFINE rest == Window - Head(ages)
           seconds == rest \div 2
<1>1. rest \in Nat
  BY LimitFacts
<1>2. RetryAfter(ages) = 2 * (IF seconds > 1 THEN seconds ELSE 1)
  BY DEF RetryAfter, TicksPerSecond
<1> HIDE DEF rest
<1>3. seconds \in Nat /\ rest < 2 * seconds + 2
  BY <1>1
<1> HIDE DEF seconds
<1>4. RetryAfter(ages) \in Nat /\ rest < RetryAfter(ages) + 2
  BY <1>1, <1>2, <1>3
<1> QED
  BY <1>4 DEF rest, TicksPerSecond

\* An address whose memory is cleared.
LEMMA ClearedKept ==
  /\ <<>> \in Seq(Ages) /\ WordKept(<<>>, <<>>, -1)
<1>1. <<>> \in Seq(Ages) /\ Len(<<>>) = 0
  OBVIOUS
<1>2. InWindow(<<>>) = <<>>
  <2>1. ASSUME NEW q \in Seq(Ages), Len(q) = 0
        PROVE  InWindow(q) = q
    <3>1. ~(Len(q) > 0)
      BY <2>1
    <3> QED
      BY <3>1, WindowStays
  <2> QED
    BY <1>1, <2>1
<1> QED
  BY <1>1, <1>2, LimitFacts DEF WordKept, TheWaitIsRight

\* A step that changes what is kept of one address only.
LEMMA OneAddressStep ==
  ASSUME LimiterInv, NEW a \in Addresses, NEW b \in Seq(Ages), NEW r \in Seq(Ages),
         NEW t \in {-1} \cup Nat, WordKept(b, r, t),
         bucket' = [bucket EXCEPT ![a] = b], refused' = [refused EXCEPT ![a] = r],
         told' = [told EXCEPT ![a] = t]
  PROVE  LimiterInv'
<1>1. LimiterTypeOK'
  BY DEF LimiterInv, LimiterTypeOK
<1>2. ASSUME NEW c \in Addresses
      PROVE  WordKept(bucket'[c], refused'[c], told'[c])
  <2>1. CASE c = a
    BY <2>1 DEF LimiterInv, LimiterTypeOK
  <2>2. CASE c # a
    BY <2>2 DEF LimiterInv, LimiterTypeOK
  <2> QED
    BY <2>1, <2>2
<1> QED
  BY <1>1, <1>2 DEF LimiterInv

\* A counted failure.
LEMMA FailureStep ==
  ASSUME LimiterInv, NEW a \in Addresses, LoginFails(a)
  PROVE  LimiterInv'
<1> DEFINE b == Append(InWindow(bucket[a]), 0)
<1>1. LimiterTypeOK /\ WordKept(bucket[a], refused[a], told[a])
  BY DEF LimiterInv
<1>2. bucket[a] \in Seq(Ages)
  BY <1>1, ThrottledFacts
<1>3. /\ b \in Seq(Ages) /\ Len(b) = Len(InWindow(bucket[a])) + 1 /\ InWindow(b) = b
      /\ Len(InWindow(bucket[a])) \in Nat
      /\ InWindow(bucket[a]) \in Seq(Ages)
      /\ Len(InWindow(bucket[a])) > 0 => InWindow(bucket[a])[1] <= Window
  BY <1>2, WindowGrows, WindowFacts
<1>4. InWindow(refused[a]) = InWindow(bucket[a])
  BY <1>1, <1>3, WindowStays DEF WordKept
<1>5. bucket' = [bucket EXCEPT ![a] = b] /\ refused' = [refused EXCEPT ![a] = b]
      /\ told' = [told EXCEPT ![a] = -1]
  BY <1>4 DEF LoginFails, InWindow
<1>6. Len(InWindow(bucket[a])) < Capacity
  BY <1>1, <1>3, LimitFacts DEF LoginFails, Throttled
<1> HIDE DEF b
<1>7. WordKept(b, b, -1)
  BY <1>3, <1>6, LimitFacts DEF WordKept, TheWaitIsRight
<1> QED
  BY <1>3, <1>5, <1>7, OneAddressStep

\* A throttled attempt, counted by nobody.
LEMMA ThrottledStep ==
  ASSUME LimiterInv, NEW a \in Addresses, LoginThrottled(a)
  PROVE  LimiterInv'
<1> DEFINE b == InWindow(bucket[a])
           t == FirstPromise(a, b)
<1>1. LimiterTypeOK /\ WordKept(bucket[a], refused[a], told[a]) /\ Throttled(a)
  BY DEF LimiterInv, LoginThrottled
<1>2. /\ bucket[a] \in Seq(Ages) /\ told[a] \in Int /\ told[a] >= -1
      /\ Head(b) = b[1] /\ b[1] \in 0..Window /\ Len(b) >= Capacity
  BY <1>1, ThrottledFacts
<1>3. /\ b \in Seq(Ages) /\ Len(b) <= Len(bucket[a]) /\ Len(b) \in Nat
      /\ Len(b) > 0 => b[1] <= Window
  BY <1>2, WindowFacts
<1>4. InWindow(b) = b /\ refused[a] = b
  BY <1>1, <1>3, WindowStays DEF WordKept
<1>5. bucket' = [bucket EXCEPT ![a] = b]
  BY DEF LoginThrottled
<1>6. bucket'[a] = b
  BY <1>1, <1>5 DEF LimiterTypeOK
<1>7. told' = [told EXCEPT ![a] = t] /\ refused' = [refused EXCEPT ![a] = refused[a]]
  BY <1>1, <1>6 DEF LoginThrottled, LimiterTypeOK
<1>8. t \in Nat /\ Window - b[1] < t + TicksPerSecond
  <2>1. CASE told[a] > 0
    BY <2>1, <1>1, <1>2 DEF FirstPromise, WordKept, TheWaitIsRight
  <2>2. CASE ~(told[a] > 0)
    BY <2>2, <1>2, RetryFacts DEF FirstPromise
  <2> QED
    BY <2>1, <2>2
<1>9. Len(bucket[a]) \in Nat /\ Len(bucket[a]) <= Capacity
  BY <1>1, <1>2, ElementFacts DEF WordKept
<1> HIDE DEF b, t
<1>10. Len(b) <= Capacity
  BY <1>3, <1>9, LimitFacts
<1>11. WordKept(b, b, t)
  BY <1>4, <1>8, <1>10 DEF WordKept, TheWaitIsRight
<1> QED
  BY <1>3, <1>4, <1>5, <1>7, <1>8, <1>11, OneAddressStep

\* A tick brings the end of the window nearer as fast as that of the wait.
LEMMA LimiterTickStep ==
  ASSUME LimiterInv, Tick
  PROVE  LimiterInv'
<1>1. LimiterTypeOK /\ \A a \in Addresses : WordKept(bucket[a], refused[a], told[a])
  BY DEF LimiterInv
<1>2. ASSUME NEW a \in Addresses
      PROVE  /\ bucket'[a] \in Seq(Ages) /\ refused'[a] \in Seq(Ages)
             /\ told'[a] \in {-1} \cup Nat
             /\ WordKept(bucket'[a], refused'[a], told'[a])
  <2> DEFINE b == bucket[a]
             o == Older(b)
             w == InWindow(b)
             n == InWindow(o)
             t == told[a]
  <2>1. b \in Seq(Ages) /\ t \in {-1} \cup Nat /\ WordKept(b, refused[a], t)
    BY <1>1, ThrottledFacts DEF LimiterTypeOK
  <2>2. bucket'[a] = o /\ refused'[a] = InWindow(Older(refused[a]))
        /\ told'[a] = IF t > 0 THEN t - 1 ELSE t
    BY DEF Tick, Older, InWindow
  <2>3. refused[a] = w
    BY <2>1 DEF WordKept
  <2>4. o \in Seq(Ages) /\ Len(o) = Len(b)
    BY <2>1, OlderFacts
  <2>5. /\ InWindow(Older(w)) = n
        /\ Len(n) <= Len(w)
        /\ Len(n) = Len(w) /\ Len(w) > 0 => n[1] = w[1] + 1
    BY <2>1, WindowAges
  <2>6. n \in Seq(Ages) /\ Len(n) \in Nat
    BY <2>4, WindowFacts
  <2>7. w \in Seq(Ages) /\ Len(w) \in Nat /\ Len(w) <= Len(b) /\ Len(b) \in Nat
    BY <2>1, WindowFacts, ElementFacts
  <2>8. Len(b) <= Capacity /\ TheWaitIsRight(b, t)
    BY <2>1 DEF WordKept
  <2> HIDE DEF b, o, w, n, t
  <2>9. ASSUME told'[a] >= 0, Len(n) >= Capacity
        PROVE  Window - n[1] < told'[a] + TicksPerSecond
    <3>1. Len(w) >= Capacity /\ Len(n) = Len(w) /\ Len(w) > 0
      BY <2>9, <2>5, <2>6, <2>7, <2>8, LimitFacts
    <3>2. t >= 0 /\ told'[a] >= t - 1
      BY <2>1, <2>2, <2>9
    <3>3. Window - w[1] < t + TicksPerSecond
      BY <2>8, <3>1, <3>2 DEF TheWaitIsRight, w
    <3>4. n[1] = w[1] + 1
      BY <2>5, <3>1
    <3>5. w[1] \in Nat /\ Window \in Nat
      BY <2>7, <3>1, ElementFacts, LimitFacts
    <3> QED
      BY <2>1, <2>2, <3>2, <3>3, <3>4, <3>5 DEF TicksPerSecond
  <2>10. told'[a] \in {-1} \cup Nat
    BY <2>1, <2>2
  <2>11. TheWaitIsRight(o, told'[a])
    BY <2>9 DEF TheWaitIsRight, n
  <2>12. WordKept(o, n, told'[a])
    BY <2>4, <2>8, <2>11 DEF WordKept, n
  <2> QED
    BY <2>2, <2>3, <2>4, <2>5, <2>6, <2>10, <2>12
<1>3. LimiterTypeOK'
  <2>1. /\ bucket' = [a \in Addresses |-> bucket'[a]]
        /\ refused' = [a \in Addresses |-> refused'[a]]
        /\ told' = [a \in Addresses |-> told'[a]]
    BY DEF Tick
  <2> QED
    BY <1>2, <2>1 DEF LimiterTypeOK
<1> QED
  BY <1>2, <1>3 DEF LimiterInv

LEMMA LimiterInvHolds ==
  AccountSpec => []LimiterInv
<1>1. AccountInit => LimiterInv
  BY ClearedKept DEF AccountInit, LimiterInv, LimiterTypeOK
<1>2. ASSUME LimiterInv, [AccountNext]_accountVars
      PROVE  LimiterInv'
  <2>1. ASSUME UNCHANGED <<bucket, refused, told>>
        PROVE  LimiterInv'
    BY <1>2, <2>1 DEF LimiterInv, LimiterTypeOK
  <2>2. ASSUME NEW n \in Names, Register(n) \/ RegisterHalfway(n)
        PROVE  LimiterInv'
    BY <2>1, <2>2 DEF Register, RegisterHalfway
  <2>3. ASSUME NEW n \in Names, NEW a \in Addresses, LoginSucceeds(n, a)
        PROVE  LimiterInv'
    BY <1>2, <2>3, ClearedKept, OneAddressStep DEF LoginSucceeds
  <2>4. ASSUME NEW a \in Addresses, LoginFails(a) \/ LoginThrottled(a)
        PROVE  LimiterInv'
    BY <1>2, <2>4, FailureStep, ThrottledStep
  <2>5. ASSUME NEW t \in Tokens, RefuseExpired(t) \/ Logout(t)
        PROVE  LimiterInv'
    BY <2>1, <2>5 DEF RefuseExpired, Logout
  <2>6. CASE Tick
    BY <1>2, <2>6, LimiterTickStep
  <2>7. CASE Restart
    BY <2>7, ClearedKept DEF Restart, LimiterInv, LimiterTypeOK
  <2>8. CASE UNCHANGED accountVars
    BY <2>1, <2>8 DEF accountVars
  <2> QED
    BY <1>2, <2>2, <2>3, <2>4, <2>5, <2>6, <2>7, <2>8 DEF AccountNext
<1> QED
  BY <1>1, <1>2, PTL DEF AccountSpec

\* For any window and capacity, however failures, successes, pauses and
\* restarts are spaced: at most Capacity failed logins of an address are
\* answered 400 in a window, and waiting for as long as Retry-After says lets
\* it in less than a second later (rate_limit.hit, seconds_until_retry, login).
THEOREM LimiterKeepsItsWord == AccountSpec => []TheLimiterKeepsItsWord
<1>1. LimiterInv => TheLimiterKeepsItsWord
  <2> SUFFICES ASSUME LimiterInv, NEW a \in Addresses
               PROVE  /\ Len(refused[a]) <= Capacity /\ Len(bucket[a]) <= Capacity
                      /\ told[a] = 0 /\ Throttled(a)
                           => Window - Head(InWindow(bucket[a])) < TicksPerSecond
    BY DEF TheLimiterKeepsItsWord, FailuresAreCapped, RetryAfterIsCloseEnough
  <2>1. LimiterTypeOK /\ WordKept(bucket[a], refused[a], told[a])
    BY DEF LimiterInv
  <2>2. /\ bucket[a] \in Seq(Ages) /\ refused[a] = InWindow(bucket[a])
        /\ Len(bucket[a]) <= Capacity
    BY <2>1, ThrottledFacts DEF WordKept
  <2>3. Len(refused[a]) <= Capacity
    BY <2>2, WindowFacts, ElementFacts, LimitFacts
  <2>4. ASSUME told[a] = 0, Throttled(a)
        PROVE  Window - Head(InWindow(bucket[a])) < TicksPerSecond
    BY <2>1, <2>4, ThrottledFacts DEF WordKept, TheWaitIsRight, TicksPerSecond
  <2> QED
    BY <2>2, <2>3, <2>4
<1> QED
  BY <1>1, LimiterInvHolds, PTL

-----------------------------------------------------------------------------
(***************************************************************************)
(* The shelf.  Beside what it promises: no entry is newer than the clock,  *)
(* and the entry of the file watched last is as new as any.                *)
(***************************************************************************)

TrackingTypeOK ==
  /\ tracked \in [Viewers \X Shows -> Tracking \cup {NoRow}]
  /\ picked \in [Viewers \X Shows -> Tracking \cup {NoRow}]

RoomStates == [media : Media \cup {NoRow}, position : Positions]

HistoryTypeOK ==
  /\ length \in [Media -> 0..MaxLength]
  /\ room \in RoomStates
  /\ watched \in [Viewers \X Media -> Entry \cup {NoRow}]
  /\ lately \in [Viewers -> Media \cup {NoRow}]
  /\ clock \in 0..MaxClock

NothingFromTheFuture ==
  \A v \in Viewers, m \in Media :
    watched[<<v, m>>] # NoRow => watched[<<v, m>>].at <= clock

LatelyIsNewest ==
  \A v \in Viewers : lately[v] # NoRow => lately[v] \in ResumeCandidates(v)

InsideTheFile ==
  \A v \in Viewers, m \in Media :
    watched[<<v, m>>] # NoRow /\ watched[<<v, m>>].duration > 0
      => watched[<<v, m>>].position <= watched[<<v, m>>].duration

TrackingInv == TrackingTypeOK /\ ChosenTrackingIsKept

HistoryInv == HistoryTypeOK /\ NothingFromTheFuture /\ LatelyIsNewest /\ InsideTheFile

\* No row is a tracking or an entry.
LEMMA NoRowFacts ==
  NoRow \notin Tracking /\ NoRow \notin Entry /\ NoRow \notin Media
BY NoRowIsNoRow

\* The clamp keeps a position in the range of the columns, and inside a file
\* whose duration is known.
LEMMA NormalizedFacts ==
  ASSUME HistoryTypeOK, NEW m \in Media, NEW p \in Positions
  PROVE  /\ Normalized(m, p) \in 0..MaxLength + 1
         /\ length[m] > 0 => Normalized(m, p) <= length[m]
<1>1. length[m] \in 0..MaxLength /\ MaxLength \in Nat
  BY ShelfBounds DEF HistoryTypeOK
<1>2. p \in -1..MaxLength + 1
  BY DEF Positions
<1>3. p \in Int /\ p <= MaxLength + 1
  BY <1>1, <1>2
<1> QED
  BY <1>1, <1>3 DEF Normalized

\* Recording an entry, whichever route does it.
LEMMA RecordStep ==
  ASSUME HistoryInv, NEW v \in Viewers, NEW m \in Media, NEW p \in Positions,
         Record(v, m, p), UNCHANGED <<length, clock>>,
         room' \in RoomStates
  PROVE  HistoryInv'
<1> USE NoRowFacts
<1> DEFINE new == [position |-> Normalized(m, p), duration |-> length[m], at |-> clock,
                   created |-> IF watched[<<v, m>>] = NoRow THEN clock
                               ELSE watched[<<v, m>>].created]
<1>1. HistoryTypeOK
  BY DEF HistoryInv
<1>2. watched' = [watched EXCEPT ![<<v, m>>] = new] /\ lately' = [lately EXCEPT ![v] = m]
  BY DEF Record, StampedNow
<1>3. new \in Entry
  <2>1. Normalized(m, p) \in 0..MaxLength + 1
    BY <1>1, NormalizedFacts
  <2>2. length[m] \in 0..MaxLength /\ clock \in 0..MaxClock
    BY <1>1 DEF HistoryTypeOK
  <2>3. (IF watched[<<v, m>>] = NoRow THEN clock ELSE watched[<<v, m>>].created) \in 0..MaxClock
    BY <1>1, <2>2 DEF HistoryTypeOK, Entry
  <2> QED
    BY <2>1, <2>2, <2>3 DEF Entry
<1>4. watched'[<<v, m>>] = new
  BY <1>1, <1>2 DEF HistoryTypeOK
<1>5. \A w \in Viewers, n \in Media :
         ~(w = v /\ n = m) => watched'[<<w, n>>] = watched[<<w, n>>]
  BY <1>1, <1>2 DEF HistoryTypeOK
<1>6. new.at = clock /\ new.duration = length[m] /\ new.position = Normalized(m, p)
  OBVIOUS
<1> HIDE DEF new
<1>7. HistoryTypeOK'
  BY <1>1, <1>2, <1>3 DEF HistoryTypeOK
<1>8. clock \in Int
  BY <1>1 DEF HistoryTypeOK
<1>9. NothingFromTheFuture'
  <2> SUFFICES ASSUME NEW w \in Viewers, NEW n \in Media, watched'[<<w, n>>] # NoRow
               PROVE  watched'[<<w, n>>].at <= clock
    BY DEF NothingFromTheFuture
  <2>1. CASE w = v /\ n = m
    BY <2>1, <1>4, <1>6, <1>8
  <2>2. CASE ~(w = v /\ n = m)
    BY <2>2, <1>5 DEF HistoryInv, NothingFromTheFuture
  <2> QED
    BY <2>1, <2>2
<1>10. LatelyIsNewest'
  <2> SUFFICES ASSUME NEW w \in Viewers, lately'[w] # NoRow
               PROVE  lately'[w] \in ResumeCandidates(w)'
    BY DEF LatelyIsNewest
  <2>1. CASE w = v
    <3>1. lately'[w] = m
      BY <2>1, <1>1, <1>2 DEF HistoryTypeOK
    <3>2. watched'[<<w, m>>] # NoRow
      BY <2>1, <1>3, <1>4
    <3>3. \A n \in Media : watched'[<<w, n>>] # NoRow => watched'[<<w, n>>].at <= watched'[<<w, m>>].at
      BY <2>1, <1>4, <1>6, <1>9 DEF NothingFromTheFuture
    <3> QED
      BY <3>1, <3>2, <3>3 DEF ResumeCandidates
  <2>2. CASE w # v
    <3>1. lately'[w] = lately[w]
      BY <2>2, <1>1, <1>2 DEF HistoryTypeOK
    <3>2. lately[w] \in ResumeCandidates(w)
      BY <3>1 DEF HistoryInv, LatelyIsNewest
    <3>3. \A n \in Media : watched'[<<w, n>>] = watched[<<w, n>>]
      BY <2>2, <1>5
    <3> QED
      BY <3>1, <3>2, <3>3 DEF ResumeCandidates
  <2> QED
    BY <2>1, <2>2
<1>11. InsideTheFile'
  <2> SUFFICES ASSUME NEW w \in Viewers, NEW n \in Media,
                      watched'[<<w, n>>] # NoRow, watched'[<<w, n>>].duration > 0
               PROVE  watched'[<<w, n>>].position <= watched'[<<w, n>>].duration
    BY DEF InsideTheFile
  <2>1. CASE w = v /\ n = m
    BY <2>1, <1>1, <1>4, <1>6, NormalizedFacts
  <2>2. CASE ~(w = v /\ n = m)
    BY <2>2, <1>5 DEF HistoryInv, InsideTheFile
  <2> QED
    BY <2>1, <2>2
<1> QED
  BY <1>7, <1>9, <1>10, <1>11 DEF HistoryInv

\* Only the user's own choices change what is tracked.
LEMMA FavoritesStep ==
  ASSUME TrackingInv, legacy \in [Shows -> Tracking \cup {NoRow}], FavoritesNext
  PROVE  TrackingInv'
<1> USE NoRowFacts DEF TrackingInv, TrackingTypeOK, ChosenTrackingIsKept
<1>1. Fresh \in Tracking
  BY ShelfBounds DEF Fresh, Tracking
<1>2. ASSUME NEW v \in Viewers, NEW s \in Shows, AddFavorite(v, s)
      PROVE  TrackingInv'
  <2>1. Kept(v, s) \in Tracking /\ Kept(v, s) = IF picked[<<v, s>>] = NoRow THEN Fresh
                                                 ELSE picked[<<v, s>>]
    BY <1>1 DEF Kept
  <2> QED
    BY <1>2, <2>1 DEF AddFavorite
<1>3. ASSUME NEW v \in Viewers, NEW s \in Shows, RemoveFavorite(v, s)
      PROVE  TrackingInv'
  BY <1>3 DEF RemoveFavorite
<1>4. ASSUME NEW v \in Viewers, NEW s \in Shows, NEW new \in Tracking,
             UpdateFavorite(v, s, new)
      PROVE  TrackingInv'
  BY <1>4 DEF UpdateFavorite
<1>5. ASSUME NEW v \in Viewers, ImportLegacy(v)
      PROVE  TrackingInv'
  <2>1. DOMAIN tracked = Viewers \X Shows /\ DOMAIN picked = Viewers \X Shows
    OBVIOUS
  <2>2. Importable(v) \subseteq Shows
    BY DEF Importable
  <2>3. \A k \in Viewers \X Shows :
          /\ tracked'[k] = IF k[1] = v /\ k[2] \in Importable(v) THEN legacy[k[2]]
                           ELSE tracked[k]
          /\ picked'[k] = IF k[1] = v /\ k[2] \in Importable(v) THEN legacy[k[2]]
                          ELSE picked[k]
    BY <1>5, <2>1 DEF ImportLegacy
  <2>4. \A k \in Viewers \X Shows :
          /\ tracked'[k] \in Tracking \cup {NoRow}
          /\ tracked'[k] = picked'[k]
    BY <2>2, <2>3
  <2>5. tracked' = [k \in Viewers \X Shows |-> tracked'[k]]
    BY <1>5, <2>1 DEF ImportLegacy
  <2>6. picked' = [k \in Viewers \X Shows |-> picked'[k]]
    BY <1>5, <2>1 DEF ImportLegacy
  <2> QED
    BY <2>4, <2>5, <2>6
<1> QED
  BY <1>2, <1>3, <1>4, <1>5 DEF FavoritesNext

\* The history moves by recordings; rescans and the clock leave it alone.
LEMMA HistoryStep ==
  ASSUME HistoryInv, HistoryNext
  PROVE  HistoryInv'
<1>1. ASSUME NEW v \in Viewers, NEW m \in Media, NEW p \in Positions,
             PutState(v, m, p) \/ SyncProgress(v, m, p)
      PROVE  HistoryInv'
  <2>1. Record(v, m, p) /\ UNCHANGED <<length, clock>>
    BY <1>1 DEF PutState, SyncProgress
  <2>2. room' \in RoomStates
    BY <1>1 DEF PutState, SyncProgress, HistoryInv, HistoryTypeOK, RoomStates
  <2> QED
    BY <2>1, <2>2, RecordStep
<1>2. ASSUME NEW m \in Media, NEW p \in Positions, PutStateUnrecorded(m, p)
      PROVE  HistoryInv'
  BY <1>2 DEF PutStateUnrecorded, RoomStates, HistoryInv, HistoryTypeOK,
              NothingFromTheFuture, LatelyIsNewest, ResumeCandidates, InsideTheFile
<1>3. ASSUME NEW v \in Viewers, SyncRoomProgress(v)
      PROVE  HistoryInv'
  <2>1. room.media \in Media /\ room.position \in Positions
    BY <1>3 DEF SyncRoomProgress, HistoryInv, HistoryTypeOK, RoomStates
  <2> QED
    BY <1>1, <1>3, <2>1 DEF SyncRoomProgress
<1>4. ASSUME NEW m \in Media, NEW p \in 0..MaxLength, Rescan(m, p)
      PROVE  HistoryInv'
  BY <1>4 DEF Rescan, historyVars, HistoryInv, HistoryTypeOK, NothingFromTheFuture,
              LatelyIsNewest, ResumeCandidates, InsideTheFile
<1>5. ASSUME ShelfTick
      PROVE  HistoryInv'
  <2>1. clock' \in 0..MaxClock /\ clock \in Int /\ clock' = clock + 1
    BY <1>5, ShelfBounds DEF ShelfTick, HistoryInv, HistoryTypeOK
  <2>2. NothingFromTheFuture'
    <3> SUFFICES ASSUME NEW v \in Viewers, NEW m \in Media, watched'[<<v, m>>] # NoRow
                 PROVE  watched'[<<v, m>>].at <= clock'
      BY DEF NothingFromTheFuture
    <3>1. watched[<<v, m>>] \in Entry /\ watched[<<v, m>>].at <= clock
      BY <1>5 DEF ShelfTick, historyVars, HistoryInv, HistoryTypeOK, NothingFromTheFuture
    <3>2. watched[<<v, m>>].at \in Int
      BY <3>1 DEF Entry
    <3> QED
      BY <1>5, <2>1, <3>1, <3>2 DEF ShelfTick, historyVars
  <2> QED
    BY <1>5, <2>1, <2>2 DEF ShelfTick, historyVars, HistoryInv, HistoryTypeOK,
              LatelyIsNewest, ResumeCandidates, InsideTheFile
<1> QED
  BY <1>1, <1>2, <1>3, <1>4, <1>5 DEF HistoryNext

ShelfInv == legacy \in [Shows -> Tracking \cup {NoRow}] /\ TrackingInv /\ HistoryInv

LEMMA ShelfInvHolds ==
  ShelfSpec => []ShelfInv
<1> USE NoRowFacts
<1>1. ShelfInit => ShelfInv
  <2> SUFFICES ASSUME ShelfInit PROVE ShelfInv
    OBVIOUS
  <2>1. MaxLength \in 0..MaxLength /\ 0 \in 0..MaxClock /\ 0 \in Positions
    BY ShelfBounds DEF Positions
  <2>2. [status |-> "completed", episode |-> MaxLength] \in Tracking
    BY <2>1 DEF Tracking
  <2>3. legacy \in [Shows -> Tracking \cup {NoRow}]
    BY <2>2 DEF ShelfInit
  <2>4. TrackingInv
    BY DEF ShelfInit, TrackingInv, TrackingTypeOK, ChosenTrackingIsKept
  <2>5. HistoryTypeOK
    BY <2>1 DEF ShelfInit, HistoryTypeOK, RoomStates
  <2>6. NothingFromTheFuture /\ LatelyIsNewest /\ InsideTheFile
    BY DEF ShelfInit, NothingFromTheFuture, LatelyIsNewest, InsideTheFile
  <2> QED
    BY <2>3, <2>4, <2>5, <2>6 DEF ShelfInv, HistoryInv
<1>2. ASSUME ShelfInv, [ShelfNext]_shelfVars
      PROVE  ShelfInv'
  <2>1. CASE FavoritesNext
    <3>1. UNCHANGED <<legacy, length, clock, historyVars>>
      BY <2>1 DEF FavoritesNext, AddFavorite, RemoveFavorite, UpdateFavorite, ImportLegacy
    <3>2. HistoryInv'
      BY <1>2, <3>1 DEF historyVars, ShelfInv, HistoryInv, HistoryTypeOK,
         NothingFromTheFuture, LatelyIsNewest, ResumeCandidates, InsideTheFile
    <3> QED
      BY <1>2, <2>1, <3>1, <3>2, FavoritesStep DEF ShelfInv
  <2>2. CASE HistoryNext
    <3>1. UNCHANGED <<legacy, favoriteVars>>
      BY <2>2 DEF HistoryNext, PutState, PutStateUnrecorded, SyncProgress,
                  SyncRoomProgress, Rescan, ShelfTick
    <3>2. TrackingInv'
      BY <1>2, <3>1 DEF favoriteVars, ShelfInv, TrackingInv, TrackingTypeOK,
                        ChosenTrackingIsKept
    <3> QED
      BY <1>2, <2>2, <3>1, <3>2, HistoryStep DEF ShelfInv
  <2>3. CASE UNCHANGED shelfVars
    BY <1>2, <2>3 DEF shelfVars, ShelfInv, TrackingInv, TrackingTypeOK,
       ChosenTrackingIsKept, HistoryInv, HistoryTypeOK, NothingFromTheFuture,
       LatelyIsNewest, ResumeCandidates, InsideTheFile
  <2> QED
    BY <1>2, <2>1, <2>2, <2>3 DEF ShelfNext
<1> QED
  BY <1>1, <1>2, PTL DEF ShelfSpec

\* Tracked shows keep what the user chose, through re-adding and importing, and
\* resuming offers what was watched last, inside its file: for any viewers,
\* files, lengths and times (add_user_favorite, upsert_user_watch_history).
THEOREM TheShelfKeepsItsWord == ShelfSpec => []TheShelfIsKept
<1>1. ShelfInv => TheShelfIsKept
  <2> SUFFICES ASSUME ShelfInv PROVE ResumeIsWhatWasWatchedLast
    BY DEF ShelfInv, TrackingInv, TheShelfIsKept
  <2>1. ASSUME NEW v \in Viewers, NEW m \in ResumeCandidates(v)
        PROVE  watched[<<v, m>>].duration > 0
                 => watched[<<v, m>>].position <= watched[<<v, m>>].duration
    BY <2>1 DEF ShelfInv, HistoryInv, InsideTheFile, ResumeCandidates
  <2> QED
    BY <2>1 DEF ShelfInv, HistoryInv, LatelyIsNewest, ResumeIsWhatWasWatchedLast
<1> QED
  BY <1>1, ShelfInvHolds, PTL

-----------------------------------------------------------------------------
(***************************************************************************)
(* The three together, as TLC checks them.  A step of the composition is a *)
(* step of one component, and the others rest.                             *)
(***************************************************************************)

UsersAreNamed == users \subseteq Names

\* The tables of accounts keep their types.
LEMMA AccountTypes == AccountSpec => []AccountTypeOK
<1>1. AccountInit => UsersAreNamed
  BY DEF AccountInit, UsersAreNamed
<1>2. UsersAreNamed /\ [AccountNext]_accountVars => UsersAreNamed'
  BY DEF UsersAreNamed, AccountNext, accountVars, Register, RegisterHalfway, LoginSucceeds, LoginFails,
         LoginThrottled, RefuseExpired, Logout, Tick, Restart
<1>3. SessionInv /\ LimiterInv /\ UsersAreNamed => AccountTypeOK
  BY DEF UsersAreNamed, SessionInv, SessionTypeOK, LimiterInv, LimiterTypeOK, AccountTypeOK
<1> QED
  BY <1>1, <1>2, <1>3, SessionInvHolds, LimiterInvHolds, PTL DEF AccountSpec

\* Those of the shelf do.
LEMMA ShelfTypes == ShelfSpec => []ShelfTypeOK
<1>1. ShelfInv => ShelfTypeOK
  BY DEF ShelfInv, TrackingInv, TrackingTypeOK, HistoryInv, HistoryTypeOK, RoomStates,
         ShelfTypeOK
<1> QED
  BY <1>1, ShelfInvHolds, PTL

\* What is proved of a component holds where it runs beside the others: no
\* handler of one touches the tables or the memory of another.
THEOREM PeopleAreApart == Spec => FriendSpec /\ AccountSpec /\ ShelfSpec
<1>1. Init => FriendInit /\ AccountInit /\ ShelfInit
  BY DEF Init
<1>2. [Next]_peopleVars =>
        [FriendNext]_friendVars /\ [AccountNext]_accountVars /\ [ShelfNext]_shelfVars
  BY DEF Next, peopleVars, ShelfNext
<1> QED
  BY <1>1, <1>2, PTL DEF Spec, FriendSpec, AccountSpec, ShelfSpec

\* Every table, and the limiter's memory, keeps its type.
THEOREM PeopleTypesHold == Spec => []TypeOK
<1>1. FriendTypeOK /\ AccountTypeOK /\ ShelfTypeOK => TypeOK
  BY DEF TypeOK
<1> QED
  BY <1>1, PeopleAreApart, FriendTypesHold, AccountTypes, ShelfTypes, PTL

=================================================================================
