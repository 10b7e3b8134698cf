---------------------------- MODULE MCExperiences ----------------------------
(***************************************************************************)
(* Instances of Experiences for TLC.                                       *)
(***************************************************************************)
EXTENDS Experiences, TLC

Symmetry ==
  Permutations(Experiences) \cup Permutations(Claims) \cup Permutations(Sessions)
=============================================================================
