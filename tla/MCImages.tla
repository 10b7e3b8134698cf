------------------------------- MODULE MCImages -------------------------------
(***************************************************************************)
(* Instances of Images for TLC.                                            *)
(***************************************************************************)
EXTENDS Images, TLC

Symmetry == Permutations(Photos) \cup Permutations(Requests)
=============================================================================
