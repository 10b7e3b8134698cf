------------------------------- MODULE Identity -------------------------------
(***************************************************************************)
(* What the identity layer promises its readers: every entity reads as one *)
(* representative, and the entities that read alike form a cluster.  A     *)
(* merge joins two whole clusters; an unmerge parts one cluster in two and *)
(* touches no other.  How pointers, moves and audits achieve it is not     *)
(* said here (EntityGraph does).                                           *)
(***************************************************************************)
CONSTANT Entities

VARIABLES
  known,   \* the entities there are
  rep      \* the entity each one reads as

ivars == <<known, rep>>

IsRep(r) == r \in known /\ rep[r] = r
Cluster(r) == {e \in known : rep[e] = r}

Init ==
  /\ known = {}
  /\ rep = [e \in Entities |-> e]

\* A new entity stands alone, or is filed with a cluster at birth.
Mint(e) ==
  /\ e \notin known
  /\ known' = known \cup {e}
  /\ rep' = rep

MintInto(e, r) ==
  /\ e \notin known /\ IsRep(r)
  /\ known' = known \cup {e}
  /\ rep' = [rep EXCEPT ![e] = r]

Join(loser, winner) ==
  /\ loser # winner /\ IsRep(loser) /\ IsRep(winner)
  /\ rep' = [e \in Entities |-> IF e \in Cluster(loser) THEN winner ELSE rep[e]]
  /\ UNCHANGED known

\* e leaves its cluster and takes some of the other members with it.
Part(e) ==
  /\ e \in known /\ rep[e] # e
  /\ \E S \in SUBSET (Cluster(rep[e]) \ {rep[e]}) :
       rep' = [t \in Entities |-> IF t \in S \cup {e} THEN e ELSE rep[t]]
  /\ UNCHANGED known

Next ==
  \/ \E e \in Entities : Mint(e) \/ Part(e)
  \/ \E e, f \in Entities : MintInto(e, f) \/ Join(e, f)

Spec == Init /\ [][Next]_ivars
=============================================================================
