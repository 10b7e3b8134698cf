----------------------------- MODULE EntityGraph -----------------------------
(***************************************************************************)
(* The identity layer: brain.entities.merged_into, the merge_candidates    *)
(* queue and the correction_events that path compression leaves behind     *)
(* (web/openbrain/brain/services/entities.py, reviews.py,                  *)
(* entity_resolver.py).                                                    *)
(*                                                                         *)
(* A merge is soft: the loser points at the winner and whatever pointed at *)
(* the loser is repointed past it ("path compression"), one audited move   *)
(* per row.  Reads dereference once, so a pointer must always name a live  *)
(* survivor.  An unmerge reads the audited moves back to undo them.        *)
(*                                                                         *)
(* Each service call is one transaction that locks the rows it judges      *)
(* (select ... for update), so it is one action here; resolve_merge_       *)
(* candidate reads the candidate in one transaction and merges in another, *)
(* so a confirmation is two.                                               *)
(***************************************************************************)
EXTENDS Naturals, Sequences, SequencesExt

CONSTANTS
  Entities,      \* ids brain.entities rows may take
  Kind,          \* the kind each entity is created with
  Reviewers,     \* concurrent resolve_merge_candidate calls
  LineageDepth,  \* the depth cap of unmerge_entity's lineage walk
  MaxRepairs,    \* bound on merges and unmerges
  AllowRemerge,  \* whether an unmerged entity may be merged again
  None           \* SQL null

ASSUME EntityGraphAssumption ==
  /\ None \notin Entities
  /\ LineageDepth \in Nat
  /\ MaxRepairs \in Nat
  /\ AllowRemerge \in BOOLEAN

Pairs == {{a, b} : a, b \in Entities} \ {{a} : a \in Entities}
Verdicts == {"none", "pending", "merged", "kept_separate"}
Move == [target : Entities, into : Entities, via : Entities]
Confirmation == [loser : Entities, winner : Entities]

VARIABLES
  exists,    \* entities created so far
  merged,    \* merged_into, None when the entity is live
  cand,      \* status of the pair's merge_candidates row, "none" without a row
  moves,     \* correction_events that carry compressed_via
  confirm,   \* the confirmation each reviewer has read but not yet applied
  repairs,   \* merges and unmerges so far
  detached,  \* history: entities that were unmerged at least once
  trail,     \* history: the tombstones the entity's pointer was moved past, in order
  judged     \* history: the entity each merged row was merged into by name

vars == <<exists, merged, cand, moves, confirm, repairs, detached, trail, judged>>

GraphTyped ==
  /\ exists \subseteq Entities
  /\ merged \in [Entities -> Entities \cup {None}]
  /\ moves \subseteq Move

QueueTyped ==
  /\ cand \in [Pairs -> Verdicts]
  /\ confirm \in [Reviewers -> Confirmation \cup {None}]

HistoryTyped ==
  /\ repairs \in 0..MaxRepairs
  /\ detached \subseteq Entities
  /\ trail \in [Entities -> Seq(Entities)]
  /\ judged \in [Entities -> Entities \cup {None}]

\* The types of the schema: ids, soft pointers and the queue's verdict words.
TypeOK == GraphTyped /\ QueueTyped /\ HistoryTyped

Live(e) == e \in exists /\ merged[e] = None

\* What a merge-aware read makes of an id: coalesce(merged_into, id).
Survivor(e) == IF merged[e] = None THEN e ELSE merged[e]

Init ==
  /\ exists = {}
  /\ merged = [e \in Entities |-> None]
  /\ cand = [p \in Pairs |-> "none"]
  /\ moves = {}
  /\ confirm = [r \in Reviewers |-> None]
  /\ repairs = 0
  /\ detached = {}
  /\ trail = [e \in Entities |-> <<>>]
  /\ judged = [e \in Entities |-> None]

(***************************************************************************)
(* New rows: a capture, a claim or a split mints an entity.                *)
(***************************************************************************)
Create(e) ==
  /\ e \notin exists
  /\ exists' = exists \cup {e}
  /\ UNCHANGED <<merged, cand, moves, confirm, repairs, detached, trail, judged>>

\* The batch scan queues a pair it judged earlier, so either side may have been
\* merged since; an existing row is left alone (on conflict do nothing).
QueueCandidate(a, b) ==
  /\ a # b /\ {a, b} \subseteq exists /\ Kind[a] = Kind[b]
  /\ cand[{a, b}] = "none"
  /\ cand' = [cand EXCEPT ![{a, b}] = "pending"]
  /\ UNCHANGED <<exists, merged, moves, confirm, repairs, detached, trail, judged>>

-----------------------------------------------------------------------------
(***************************************************************************)
(* merge_entities_on_cursor.                                               *)
(***************************************************************************)
CanMerge(loser, winner) ==
  /\ loser # winner
  /\ Live(loser) /\ Live(winner)
  /\ Kind[loser] = Kind[winner]

Orphans(loser) == {t \in Entities : merged[t] = loser}

\* Mutant: the loser alone moves, whatever points at it is left behind (#81).
RepointLoserOnly(loser, winner) ==
  /\ merged' = [merged EXCEPT ![loser] = winner]
  /\ UNCHANGED <<moves, trail>>

\* The loser and everything behind it now point at the winner.
Repoint(loser, winner) ==
  /\ merged' = [t \in Entities |->
                  IF t \in Orphans(loser) \cup {loser} THEN winner ELSE merged[t]]
  /\ moves' = moves \cup {[target |-> t, into |-> winner, via |-> loser] :
                            t \in Orphans(loser)}
  /\ trail' = [t \in Entities |->
                 IF t \in Orphans(loser) THEN Append(trail[t], loser) ELSE trail[t]]

\* Mutant: the queue's verdict word is the disambiguations' one.
StampResolved(pair) == IF cand[pair] = "pending" THEN "resolved" ELSE cand[pair]

\* Only a pending row is stamped; a verdict already given stays.
Stamp(pair) == IF cand[pair] = "pending" THEN "merged" ELSE cand[pair]

CountRepair == repairs < MaxRepairs /\ repairs' = repairs + 1

Merge(loser, winner) ==
  /\ CanMerge(loser, winner)
  /\ AllowRemerge \/ loser \notin detached
  /\ CountRepair
  /\ Repoint(loser, winner)
  /\ cand' = [cand EXCEPT ![{loser, winner}] = Stamp({loser, winner})]
  /\ judged' = [judged EXCEPT ![loser] = winner]

MergeEntities(loser, winner) ==
  /\ Merge(loser, winner)
  /\ UNCHANGED <<exists, confirm, detached>>

\* Second-stage auto-merge: the capture mints a row, queues the pair and merges
\* it into the match, all on the capture's cursor.
AutoMerge(new, top) ==
  /\ new \notin exists /\ Live(top) /\ Kind[new] = Kind[top]
  /\ CountRepair
  /\ exists' = exists \cup {new}
  /\ merged' = [merged EXCEPT ![new] = top]
  /\ cand' = [cand EXCEPT ![{new, top}] = "merged"]
  /\ judged' = [judged EXCEPT ![new] = top]
  /\ UNCHANGED <<moves, confirm, detached, trail>>

-----------------------------------------------------------------------------
(***************************************************************************)
(* resolve_merge_candidate.                                                *)
(***************************************************************************)
Reject(a, b) ==
  /\ a # b /\ cand[{a, b}] = "pending"
  /\ cand' = [cand EXCEPT ![{a, b}] = "kept_separate"]
  /\ UNCHANGED <<exists, merged, moves, confirm, repairs, detached, trail, judged>>

\* The status is read without a lock ...
ConfirmRead(r, loser, winner) ==
  /\ confirm[r] = None
  /\ loser # winner /\ cand[{loser, winner}] = "pending"
  /\ confirm' = [confirm EXCEPT ![r] = [loser |-> loser, winner |-> winner]]
  /\ UNCHANGED <<exists, merged, cand, moves, repairs, detached, trail, judged>>

\* ... and merge_entities runs later; its refusal is an error to the reviewer.
ConfirmMerge(r) ==
  /\ confirm[r] # None
  /\ LET l == confirm[r].loser
         w == confirm[r].winner IN
       \/ Merge(l, w)
       \/ /\ ~CanMerge(l, w)
          /\ UNCHANGED <<merged, cand, moves, repairs, trail, judged>>
  /\ confirm' = [confirm EXCEPT ![r] = None]
  /\ UNCHANGED <<exists, detached>>

-----------------------------------------------------------------------------
(***************************************************************************)
(* unmerge_entity.                                                         *)
(***************************************************************************)
\* Mutant: guess from the winner's current losers which rows e's merge moved.
RestoredFromWinner(e) ==
  {t \in Entities \ {e} : merged[t] = merged[e] /\ \E m \in moves : m.target = t}

\* Mutant: the pointer a later merge wrote does not win.
RestoredUnguarded(e) ==
  {t \in Entities \ {e} : merged[t] # None /\ \E m \in moves : m.target = t /\ m.via = e}

\* The rows some move carried past e and that still point where it put them.
Restored(e) ==
  {t \in Entities \ {e} :
     \E m \in moves : m.target = t /\ m.via = e /\ merged[t] = m.into}

\* Mutant: reopen the pair named by the current pointer (#81).
DecidedWithPointer(e) == {merged[e]}

\* Each of e's moves names the pointer it wrote and the tombstone it moved past.
Before(e, partners) == {m.via : m \in {x \in moves : x.target = e /\ x.into \in partners}}

\* The lineage walk: the current pointer, and the partners e's moves lead back to hop
\* by hop.
Lineage(e) ==
  LET partners[depth \in 0..LineageDepth] ==
        IF depth = 0 THEN {merged[e]} ELSE Before(e, partners[depth - 1])
  IN partners

\* The partners where it ends (order by depth desc limit 1 picks one of them).
DecidedWith(e) ==
  LET partners == Lineage(e)
      last == CHOOSE d \in 0..LineageDepth :
                partners[d] # {} /\ (d < LineageDepth => partners[d + 1] = {})
  IN partners[last]

\* The history up to the tombstone e, where an unmerge of e takes a row back to.
Upto(history, e) ==
  SubSeq(history, 1, (CHOOSE i \in DOMAIN history : history[i] = e) - 1)

Unmerge(e) ==
  /\ merged[e] # None
  /\ CountRepair
  /\ merged' = [t \in Entities |-> IF t = e THEN None
                                   ELSE IF t \in Restored(e) THEN e ELSE merged[t]]
  /\ \E p \in DecidedWith(e) :
       cand' = [cand EXCEPT ![{e, p}] = IF @ = "merged" THEN "pending" ELSE @]
  /\ trail' = [t \in Entities |->
                 IF t = e THEN <<>>
                 ELSE IF t \in Restored(e) /\ e \in ToSet(trail[t]) THEN Upto(trail[t], e)
                 ELSE trail[t]]
  /\ detached' = detached \cup {e}
  /\ judged' = [judged EXCEPT ![e] = None]
  /\ UNCHANGED <<exists, moves, confirm>>

Next ==
  \/ \E e \in Entities : Create(e) \/ Unmerge(e)
  \/ \E a, b \in Entities :
       QueueCandidate(a, b) \/ MergeEntities(a, b) \/ AutoMerge(a, b) \/ Reject(a, b)
  \/ \E r \in Reviewers :
       ConfirmMerge(r) \/ \E a, b \in Entities : ConfirmRead(r, a, b)

Spec == Init /\ [][Next]_vars

-----------------------------------------------------------------------------
(***************************************************************************)
(* Properties.                                                             *)
(***************************************************************************)
\* merged_into names a live survivor, one hop away, of the same kind: the member
\* lookups of init/22 and of every coalesce(merged_into, id) read depend on it.
\* Merges of survivors and unmerges of mid-chain tombstones must both keep it.
OneHop ==
  \A e \in Entities : merged[e] # None =>
    /\ Live(merged[e])
    /\ Kind[merged[e]] = Kind[e]

\* Undoing a merge reopens the verdict that merge was made on, however far path
\* compression has since carried the pointer from the entity it was judged with
\* (unmerge_entity's lineage walk, #81), unless the moves run in a cycle or over more
\* hops than the walk takes.
Acyclic(e) == \A S \in (SUBSET Entities) \ {{}} : \E p \in S : Before(e, {p}) \cap S = {}
UnmergeReopensItsVerdict ==
  [][\A e \in Entities :
       /\ merged[e] # None /\ merged'[e] = None
       /\ Acyclic(e) /\ Len(trail[e]) <= LineageDepth
       => cand'[{e, judged[e]}] # "merged"]_vars

\* The rows whose last move carried them past e.
CarriedBy(e) == {t \in Entities : trail[t] # <<>> /\ Last(trail[t]) = e}

\* An unmerge takes back exactly the rows its own merge had carried away, and no
\* row that joined the survivor by a merge of its own.  Only a row that has come back
\* to a survivor it was moved past before may be taken for an earlier move's.
CameBack(t) == merged[t] \in ToSet(trail[t])
UnmergeUndoesItsMoves ==
  [][\A e \in Entities : merged[e] # None /\ merged'[e] = None =>
       \A t \in Entities \ {e} :
         ~CameBack(t) => (merged'[t] # merged[t] <=> t \in CarriedBy(e))]_vars

\* To a reader that dereferences once, the graph is the clusters of Identity:
\* merge_entities joins two whole clusters, unmerge_entity parts one cluster and
\* never takes a member from a cluster it was not merged into.
Identities == INSTANCE Identity WITH known <- exists,
                                     rep <- [e \in Entities |-> Survivor(e)]
ImplementsIdentity == Identities!Spec
=============================================================================
