------------------------------ MODULE MCRoomPage ------------------------------
(***************************************************************************)
(* Instance of RoomPage for TLC.                                           *)
(***************************************************************************)
EXTENDS RoomPage

Spec == PageSpec

================================================================================
