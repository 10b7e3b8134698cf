-------------------------- MODULE MCConsolidation --------------------------
(***************************************************************************)
(* Instances of Consolidation for TLC.                                     *)
(***************************************************************************)
EXTENDS Consolidation, TLC

Symmetry == Permutations(Experiences)
=============================================================================
