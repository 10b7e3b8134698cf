---------------------------- MODULE MCEntityGraph ----------------------------
(***************************************************************************)
(* Instances of EntityGraph for TLC.                                       *)
(***************************************************************************)
EXTENDS EntityGraph, TLC

CONSTANTS a, b, c, d

OneKind == [e \in Entities |-> "person"]

Symmetry == Permutations(Entities)
=============================================================================
