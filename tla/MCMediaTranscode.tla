--------------------------- MODULE MCMediaTranscode ---------------------------
(***************************************************************************)
(* Instances of MediaTranscode for TLC.                                    *)
(***************************************************************************)
EXTENDS MediaTranscode, TLC

Symmetry == Permutations(Media) \cup Permutations(Jobs)
=============================================================================
