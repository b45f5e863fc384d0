---------------------------- MODULE MCWatchRooms ----------------------------
(***************************************************************************)
(* Instances of WatchRooms for TLC: model values for users and rooms, small *)
(* limits in the order of the code's (90 s < 600 s < 3600 s < 21600 s).     *)
(***************************************************************************)
EXTENDS WatchRooms, FiniteSets, TLC

\* Bound of the safety run: how far TLC follows a behaviour, by the rows that
\* hang on rooms: two invitations, or one message (deleted or not).
FewRows == Cardinality(invitations) + 2 * posted <= 2

Symmetry == Permutations(Users) \cup Permutations(RoomIds)
=============================================================================
