---------------------------- MODULE MCEntityReads ----------------------------
(***************************************************************************)
(* Instances of EntityReads for TLC.                                       *)
(***************************************************************************)
EXTENDS EntityReads

CONSTANTS x1, x2, k1, k2, k3

Concepts == [e \in Entities |-> "concept"]

\* Two good claims of one experience and a doubtful one of another, so that the longer
\* way round may be the better one, and one with the doubtful claim falls below 0.5.
Drafts == [k \in Claims |-> IF k = k3 THEN [source |-> x2, confidence |-> 5]
                            ELSE [source |-> x1, confidence |-> 8]]

Symmetry == Permutations(Entities) \cup Permutations({k1, k2}) \cup Permutations(Forms)
=============================================================================
