----------------------------- MODULE MCRoomEvents -----------------------------
(***************************************************************************)
(* Instances of RoomEvents for TLC.                                        *)
(***************************************************************************)
EXTENDS RoomEvents, TLC

Symmetry == Permutations(Streams)
=============================================================================
