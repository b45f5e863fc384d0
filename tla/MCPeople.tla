-------------------------------- MODULE MCPeople --------------------------------
(***************************************************************************)
(* Instance for TLC of three components that share no state: the friend    *)
(* graph, accounts with their limiter, and the shelf.  `part` chooses the  *)
(* one a behaviour exercises; the others rest in their initial states.     *)
(* (Favorites and watch history share no state either.)                    *)
(***************************************************************************)
EXTENDS FriendGraph, Accounts, Shelf, TLC

VARIABLE part

peopleVars == <<part, friendVars, accountVars, shelfVars>>

\* Rows in use at the same time, so that three people stay checkable.
FewRows ==
  LET requests == Cardinality({p \in Pairs : request[p] # "none"})
  IN requests <= 2 /\ requests + Cardinality(invited) <= 3

Init ==
  /\ part \in {"friends", "accounts", "favorites", "history"}
  /\ FriendInit /\ AccountInit /\ ShelfInit

Next ==
  \/ part = "friends" /\ FriendNext /\ UNCHANGED <<part, accountVars, shelfVars>>
  \/ part = "accounts" /\ AccountNext /\ UNCHANGED <<part, friendVars, shelfVars>>
  \/ part = "favorites" /\ FavoritesNext /\ UNCHANGED <<part, friendVars, accountVars>>
  \/ part = "history" /\ HistoryNext /\ UNCHANGED <<part, friendVars, accountVars>>

Spec == Init /\ [][Next]_peopleVars

TypeOK == FriendTypeOK /\ AccountTypeOK /\ ShelfTypeOK

Symmetry == Permutations(People)

=================================================================================
