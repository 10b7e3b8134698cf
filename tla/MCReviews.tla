------------------------------ MODULE MCReviews ------------------------------
(***************************************************************************)
(* Instances of Reviews for TLC.                                           *)
(***************************************************************************)
EXTENDS Reviews, TLC

CONSTANTS g, h, r1, c1

\* One of each kind that can meet another: a guess about r1, a proposal to move it
\* off the same entity, to another or a fresh one, and two ways to be refused.
OneOfEach ==
  { [tool |-> "guess", refs |-> {r1}, from |-> g],
    [tool |-> "split", from |-> g, refs |-> {r1}, into |-> h],
    [tool |-> "split", from |-> h, refs |-> {r1}, into |-> Fresh],
    [tool |-> "retract", claim |-> c1],
    [tool |-> "rename", entity |-> h],
    [tool |-> "unknown"],
    [tool |-> "choose"] }

Symmetry == Permutations(Tickets) \cup Permutations(Reviewers)
=============================================================================
