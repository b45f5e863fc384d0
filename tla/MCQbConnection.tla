---------------------------- MODULE MCQbConnection ----------------------------
(***************************************************************************)
(* Instance of QbConnection for TLC.                                       *)
(***************************************************************************)
EXTENDS QbConnection

Spec == QbSpec /\ QbFairness

================================================================================
