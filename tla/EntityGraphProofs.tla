-------------------------- MODULE EntityGraphProofs --------------------------
(***************************************************************************)
(* Proofs about EntityGraph, for any set of entities, kinds and reviewers  *)
(* and any number of repairs: types and the flatness of merged_into,       *)
(* remerging allowed or not; and, if no unmerged row is merged again, the  *)
(* clusters of Identity, what an unmerge takes back and the verdict it     *)
(* reopens.                                                                *)
(***************************************************************************)
EXTENDS EntityGraph, WellFoundedInduction, TLAPS

-----------------------------------------------------------------------------
(***************************************************************************)
(* Types.                                                                  *)
(***************************************************************************)
LEMMA PairOf ==
  ASSUME NEW x \in Entities, NEW y \in Entities, x # y
  PROVE  {x, y} \in Pairs
<1>1. {x, y} \in {{a, b} : a, b \in Entities}
  OBVIOUS
<1>2. \A z \in Entities : {x, y} # {z}
  OBVIOUS
<1> QED
  BY <1>1, <1>2 DEF Pairs

\* A verdict written to any key leaves the queue well typed.
LEMMA VerdictWritten ==
  ASSUME QueueTyped, NEW pair, NEW verdict, pair \in Pairs => verdict \in Verdicts
  PROVE  [cand EXCEPT ![pair] = verdict] \in [Pairs -> Verdicts]
<1>1. CASE pair \in Pairs
  BY <1>1 DEF QueueTyped
<1>2. CASE pair \notin Pairs
  <2>1. \A x \in Pairs : [cand EXCEPT ![pair] = verdict][x] = cand[x]
    BY <1>2 DEF QueueTyped
  <2> QED
    BY <2>1 DEF QueueTyped
<1> QED
  BY <1>1, <1>2

LEMMA TypeInit == Init => TypeOK
<1> SUFFICES ASSUME Init PROVE TypeOK
  OBVIOUS
<1>1. GraphTyped
  BY DEF Init, GraphTyped
<1>2. QueueTyped
  BY DEF Init, QueueTyped, Verdicts
<1>3. HistoryTyped
  <2>1. <<>> \in Seq(Entities)
    OBVIOUS
  <2> QED
    BY <2>1, EntityGraphAssumption DEF Init, HistoryTyped, EntityGraphAssumption
<1> QED
  BY <1>1, <1>2, <1>3 DEF TypeOK

LEMMA RepairCounted ==
  ASSUME HistoryTyped, CountRepair
  PROVE  repairs' \in 0..MaxRepairs
BY EntityGraphAssumption DEF EntityGraphAssumption, HistoryTyped, CountRepair

\* Cutting a sequence before one of its places.
LEMMA CutTyped ==
  ASSUME NEW S, NEW s \in Seq(S), NEW p \in DOMAIN s
  PROVE  /\ SubSeq(s, 1, p - 1) \in Seq(S)
         /\ DOMAIN SubSeq(s, 1, p - 1) = 1..(p - 1) /\ Len(SubSeq(s, 1, p - 1)) = p - 1
         /\ \A i \in 1..(p - 1) : SubSeq(s, 1, p - 1)[i] = s[i]
OBVIOUS

\* A merge moves pointers onto the winner and stamps at most a pending pair.
LEMMA TypeMerge ==
  ASSUME TypeOK, NEW l \in Entities, NEW w \in Entities, Merge(l, w), UNCHANGED exists
  PROVE  /\ GraphTyped'
         /\ cand' \in [Pairs -> Verdicts]
         /\ repairs' \in 0..MaxRepairs
         /\ trail' \in [Entities -> Seq(Entities)]
         /\ judged' \in [Entities -> Entities \cup {None}]
         /\ {l, w} \in Pairs
<1>1. l # w /\ {l, w} \in Pairs
  BY PairOf DEF Merge, CanMerge
<1>2. GraphTyped'
  <2>1. merged' \in [Entities -> Entities \cup {None}]
    BY DEF Merge, Repoint, TypeOK, GraphTyped
  <2>2. moves' \subseteq Move
    BY DEF Merge, Repoint, Orphans, TypeOK, GraphTyped, Move
  <2> QED
    BY <2>1, <2>2 DEF TypeOK, GraphTyped
<1>3. cand' \in [Pairs -> Verdicts]
  <2>1. Stamp({l, w}) \in Verdicts
    BY <1>1 DEF Stamp, TypeOK, QueueTyped, Verdicts
  <2> QED
    BY <2>1, VerdictWritten DEF Merge, TypeOK
<1>4. repairs' \in 0..MaxRepairs
  BY RepairCounted DEF Merge, TypeOK
<1>5. trail' \in [Entities -> Seq(Entities)]
  <2>1. \A t \in Entities : Append(trail[t], l) \in Seq(Entities)
    BY DEF TypeOK, HistoryTyped
  <2> QED
    BY <2>1 DEF Merge, Repoint, TypeOK, HistoryTyped
<1>6. judged' \in [Entities -> Entities \cup {None}]
  BY DEF Merge, TypeOK, HistoryTyped
<1> QED
  BY <1>1, <1>2, <1>3, <1>4, <1>5, <1>6

LEMMA TypeUnmerge ==
  ASSUME TypeOK, NEW e \in Entities, Unmerge(e)
  PROVE  TypeOK'
<1>1. GraphTyped'
  BY DEF Unmerge, TypeOK, GraphTyped
<1>2. QueueTyped'
  <2>1. PICK p \in DecidedWith(e) :
          cand' = [cand EXCEPT ![{e, p}] =
                     IF cand[{e, p}] = "merged" THEN "pending" ELSE cand[{e, p}]]
    BY DEF Unmerge
  <2>2. {e, p} \in Pairs =>
          (IF cand[{e, p}] = "merged" THEN "pending" ELSE cand[{e, p}]) \in Verdicts
    BY DEF TypeOK, QueueTyped, Verdicts
  <2>3. cand' \in [Pairs -> Verdicts]
    BY <2>1, <2>2, VerdictWritten DEF TypeOK
  <2> QED
    BY <2>3 DEF Unmerge, TypeOK, QueueTyped
<1>3. HistoryTyped'
  <2>1. repairs' \in 0..MaxRepairs
    BY RepairCounted DEF Unmerge, TypeOK
  <2>2. ASSUME NEW t \in Entities, e \in ToSet(trail[t])
        PROVE  Upto(trail[t], e) \in Seq(Entities)
    <3>1. trail[t] \in Seq(Entities)
      BY DEF TypeOK, HistoryTyped
    <3>2. \E i \in DOMAIN trail[t] : trail[t][i] = e
      BY <2>2 DEF ToSet
    <3>3. (CHOOSE i \in DOMAIN trail[t] : trail[t][i] = e) \in DOMAIN trail[t]
      BY <3>2
    <3> QED
      BY <3>1, <3>3, CutTyped DEF Upto
  <2>3. trail' \in [Entities -> Seq(Entities)]
    <3>1. <<>> \in Seq(Entities)
      OBVIOUS
    <3> QED
      BY <2>2, <3>1 DEF Unmerge, TypeOK, HistoryTyped
  <2> QED
    BY <2>1, <2>3 DEF Unmerge, TypeOK, HistoryTyped
<1> QED
  BY <1>1, <1>2, <1>3 DEF TypeOK

LEMMA TypeStep == TypeOK /\ [Next]_vars => TypeOK'
<1> SUFFICES ASSUME TypeOK, [Next]_vars PROVE TypeOK'
  OBVIOUS
<1>1. ASSUME NEW e \in Entities, Create(e) PROVE TypeOK'
  BY <1>1 DEF Create, TypeOK, GraphTyped, QueueTyped, HistoryTyped
<1>2. ASSUME NEW e \in Entities, Unmerge(e) PROVE TypeOK'
  BY <1>2, TypeUnmerge
<1>3. ASSUME NEW a \in Entities, NEW b \in Entities, QueueCandidate(a, b) PROVE TypeOK'
  <2>1. cand' \in [Pairs -> Verdicts]
    BY <1>3, VerdictWritten DEF QueueCandidate, TypeOK, Verdicts
  <2> QED
    BY <1>3, <2>1 DEF QueueCandidate, TypeOK, GraphTyped, QueueTyped, HistoryTyped
<1>4. ASSUME NEW a \in Entities, NEW b \in Entities, MergeEntities(a, b) PROVE TypeOK'
  <2>1. Merge(a, b) /\ UNCHANGED exists
    BY <1>4 DEF MergeEntities
  <2> QED
    BY <1>4, <2>1, TypeMerge DEF MergeEntities, TypeOK, QueueTyped, HistoryTyped
<1>5. ASSUME NEW a \in Entities, NEW b \in Entities, AutoMerge(a, b) PROVE TypeOK'
  <2>1. GraphTyped'
    BY <1>5 DEF AutoMerge, TypeOK, GraphTyped
  <2>2. cand' \in [Pairs -> Verdicts]
    BY <1>5, VerdictWritten DEF AutoMerge, TypeOK, Verdicts
  <2>3. repairs' \in 0..MaxRepairs
    BY <1>5, RepairCounted DEF AutoMerge, TypeOK
  <2>4. judged' \in [Entities -> Entities \cup {None}]
    BY <1>5 DEF AutoMerge, TypeOK, HistoryTyped
  <2> QED
    BY <1>5, <2>1, <2>2, <2>3, <2>4 DEF AutoMerge, TypeOK, QueueTyped, HistoryTyped
<1>6. ASSUME NEW a \in Entities, NEW b \in Entities, Reject(a, b) PROVE TypeOK'
  <2>1. cand' \in [Pairs -> Verdicts]
    BY <1>6, VerdictWritten DEF Reject, TypeOK, Verdicts
  <2> QED
    BY <1>6, <2>1 DEF Reject, TypeOK, GraphTyped, QueueTyped, HistoryTyped
<1>7. ASSUME NEW r \in Reviewers, ConfirmMerge(r) PROVE TypeOK'
  <2>1. confirm[r] \in Confirmation
    BY <1>7 DEF ConfirmMerge, TypeOK, QueueTyped
  <2>2. PICK l \in Entities, w \in Entities : l = confirm[r].loser /\ w = confirm[r].winner
    BY <2>1 DEF Confirmation
  <2>3. confirm' \in [Reviewers -> Confirmation \cup {None}]
    BY <1>7 DEF ConfirmMerge, TypeOK, QueueTyped
  <2>4. CASE Merge(l, w)
    BY <1>7, <2>3, <2>4, TypeMerge DEF ConfirmMerge, TypeOK, QueueTyped, HistoryTyped
  <2>5. CASE UNCHANGED <<merged, cand, moves, repairs, trail, judged>>
    BY <1>7, <2>3, <2>5 DEF ConfirmMerge, TypeOK, GraphTyped, QueueTyped, HistoryTyped
  <2> QED
    BY <1>7, <2>2, <2>4, <2>5 DEF ConfirmMerge
<1>8. ASSUME NEW r \in Reviewers, NEW a \in Entities, NEW b \in Entities, ConfirmRead(r, a, b)
      PROVE TypeOK'
  BY <1>8 DEF ConfirmRead, Confirmation, TypeOK, GraphTyped, QueueTyped, HistoryTyped
<1>9. CASE UNCHANGED vars
  BY <1>9 DEF vars, TypeOK, GraphTyped, QueueTyped, HistoryTyped
<1> QED
  BY <1>1, <1>2, <1>3, <1>4, <1>5, <1>6, <1>7, <1>8, <1>9 DEF Next

\* Every reachable state has the types of the schema.
THEOREM TypeCorrect == Spec => []TypeOK
BY TypeInit, TypeStep, PTL DEF Spec

-----------------------------------------------------------------------------
(***************************************************************************)
(* Flatness.  OneHop is not inductive: an unmerge hands rows back to e on  *)
(* the word of old moves, so the moves must name existing rows of e's      *)
(* kind, and a merged row must exist.  The rows handed back all carried a  *)
(* pointer, so nobody points at them (OneHop itself says so).              *)
(***************************************************************************)
MergedExist == \A e \in Entities : merged[e] # None => e \in exists

MovesWithinKind ==
  \A m \in moves : /\ m.target \in exists
                   /\ Kind[m.target] = Kind[m.via]

FlatInv == TypeOK /\ MergedExist /\ MovesWithinKind /\ OneHop

LEMMA FlatInit == Init => FlatInv
BY TypeInit DEF Init, FlatInv, MergedExist, MovesWithinKind, OneHop

LEMMA FlatMerge ==
  ASSUME FlatInv, NEW l \in Entities, NEW w \in Entities, Merge(l, w), UNCHANGED exists
  PROVE  MergedExist' /\ MovesWithinKind' /\ OneHop'
<1>1. /\ l # w /\ l \in exists /\ w \in exists
      /\ merged[l] = None /\ merged[w] = None
      /\ Kind[l] = Kind[w]
  BY DEF Merge, CanMerge, Live
<1>2. \A t \in Entities :
        merged'[t] = IF t \in Orphans(l) \cup {l} THEN w ELSE merged[t]
  BY DEF Merge, Repoint
<1>3. \A t \in Orphans(l) : t \in Entities /\ merged[t] = l
  BY DEF Orphans
<1>4. None \notin Entities
  BY EntityGraphAssumption DEF EntityGraphAssumption
<1>5. \A t \in Orphans(l) : t \in exists /\ Kind[t] = Kind[l]
  BY <1>3, <1>4 DEF FlatInv, MergedExist, OneHop
<1>6. MergedExist'
  BY <1>1, <1>2, <1>5 DEF FlatInv, MergedExist
<1>7. MovesWithinKind'
  <2>1. moves' = moves \cup {[target |-> t, into |-> w, via |-> l] : t \in Orphans(l)}
    BY DEF Merge, Repoint
  <2> QED
    BY <1>5, <2>1 DEF FlatInv, MovesWithinKind
<1>8. OneHop'
  <2> SUFFICES ASSUME NEW t \in Entities, merged'[t] # None
               PROVE  /\ merged'[t] \in exists
                      /\ merged'[merged'[t]] = None
                      /\ Kind[merged'[t]] = Kind[t]
    BY DEF OneHop, Live
  <2>1. CASE t \in Orphans(l) \cup {l}
    <3>1. merged'[t] = w
      BY <1>2, <2>1
    <3>2. w \notin Orphans(l) \cup {l}
      BY <1>1, <1>3, <1>4
    <3> QED
      BY <1>1, <1>2, <1>5, <2>1, <3>1, <3>2
  <2>2. CASE t \notin Orphans(l) \cup {l}
    <3>1. merged'[t] = merged[t] /\ merged[t] \in Entities /\ merged[t] # l
      BY <1>2, <2>2 DEF FlatInv, TypeOK, GraphTyped, Orphans
    <3>2. /\ merged[t] \in exists /\ merged[merged[t]] = None
          /\ Kind[merged[t]] = Kind[t]
      BY <3>1, <1>4 DEF FlatInv, OneHop, Live
    <3>3. merged[t] \notin Orphans(l) \cup {l}
      BY <1>3, <1>4, <3>1, <3>2
    <3> QED
      BY <1>2, <3>1, <3>2, <3>3
  <2> QED
    BY <2>1, <2>2
<1> QED
  BY <1>6, <1>7, <1>8

LEMMA FlatUnmerge ==
  ASSUME FlatInv, NEW e \in Entities, Unmerge(e)
  PROVE  MergedExist' /\ MovesWithinKind' /\ OneHop'
<1>1. /\ merged[e] # None /\ UNCHANGED <<exists, moves>>
      /\ \A t \in Entities : merged'[t] = IF t = e THEN None
                                           ELSE IF t \in Restored(e) THEN e ELSE merged[t]
  BY DEF Unmerge
<1>2. None \notin Entities
  BY EntityGraphAssumption DEF EntityGraphAssumption
<1>3. \A t \in Restored(e) :
        t \in Entities /\ merged[t] # None /\ t \in exists /\ Kind[t] = Kind[e]
  <2> SUFFICES ASSUME NEW t \in Restored(e)
               PROVE  t \in Entities /\ merged[t] # None /\ t \in exists /\ Kind[t] = Kind[e]
    OBVIOUS
  <2>1. PICK m \in moves : m.target = t /\ m.via = e /\ merged[t] = m.into
    BY DEF Restored
  <2>2. m.into \in Entities
    BY DEF FlatInv, TypeOK, GraphTyped, Move
  <2> QED
    BY <1>2, <2>1, <2>2 DEF Restored, FlatInv, MovesWithinKind
<1>4. e \in exists
  BY <1>1 DEF FlatInv, MergedExist
<1>5. MergedExist' /\ MovesWithinKind'
  BY <1>1, <1>3 DEF FlatInv, MergedExist, MovesWithinKind
<1>6. OneHop'
  <2> SUFFICES ASSUME NEW t \in Entities, merged'[t] # None
               PROVE  /\ merged'[t] \in exists
                      /\ merged'[merged'[t]] = None
                      /\ Kind[merged'[t]] = Kind[t]
    BY <1>1 DEF OneHop, Live
  <2>1. CASE t \in Restored(e)
    BY <1>1, <1>3, <1>4, <2>1
  <2>2. CASE t \notin Restored(e)
    <3>1. t # e /\ merged'[t] = merged[t] /\ merged[t] \in Entities
      BY <1>1, <2>2 DEF FlatInv, TypeOK, GraphTyped
    <3>2. /\ merged[t] \in exists /\ merged[merged[t]] = None
          /\ Kind[merged[t]] = Kind[t]
      BY <3>1, <1>2 DEF FlatInv, OneHop, Live
    <3>3. merged[t] \notin Restored(e)
      BY <1>3, <3>2
    <3> QED
      BY <1>1, <3>1, <3>2, <3>3
  <2> QED
    BY <2>1, <2>2
<1> QED
  BY <1>5, <1>6

LEMMA FlatStep == FlatInv /\ [Next]_vars => FlatInv'
<1> SUFFICES ASSUME FlatInv, [Next]_vars PROVE MergedExist' /\ MovesWithinKind' /\ OneHop'
  BY TypeStep DEF FlatInv
<1>1. ASSUME NEW e \in Entities, Create(e)
      PROVE MergedExist' /\ MovesWithinKind' /\ OneHop'
  BY <1>1 DEF Create, FlatInv, MergedExist, MovesWithinKind, OneHop, Live
<1>2. ASSUME NEW e \in Entities, Unmerge(e)
      PROVE MergedExist' /\ MovesWithinKind' /\ OneHop'
  BY <1>2, FlatUnmerge
<1>3. ASSUME NEW a \in Entities, NEW b \in Entities, MergeEntities(a, b)
      PROVE MergedExist' /\ MovesWithinKind' /\ OneHop'
  BY <1>3, FlatMerge DEF MergeEntities
<1>4. ASSUME NEW a \in Entities, NEW b \in Entities, AutoMerge(a, b)
      PROVE MergedExist' /\ MovesWithinKind' /\ OneHop'
  <2>1. /\ a \notin exists /\ b \in exists /\ merged[b] = None /\ Kind[a] = Kind[b]
        /\ exists' = exists \cup {a} /\ moves' = moves
        /\ \A t \in Entities : merged'[t] = IF t = a THEN b ELSE merged[t]
    BY <1>4 DEF AutoMerge, Live, FlatInv, TypeOK, GraphTyped
  <2>2. MergedExist' /\ MovesWithinKind'
    BY <2>1 DEF FlatInv, MergedExist, MovesWithinKind
  <2>3. \A t \in Entities : merged[t] # None => merged[t] \in exists /\ merged[merged[t]] = None
    BY DEF FlatInv, OneHop, Live
  <2>4. OneHop'
    BY <2>1, <2>3 DEF FlatInv, OneHop, Live, TypeOK, GraphTyped
  <2> QED
    BY <2>2, <2>4
<1>5. ASSUME NEW r \in Reviewers, ConfirmMerge(r)
      PROVE MergedExist' /\ MovesWithinKind' /\ OneHop'
  <2>1. PICK l \in Entities, w \in Entities : l = confirm[r].loser /\ w = confirm[r].winner
    BY <1>5 DEF ConfirmMerge, Confirmation, FlatInv, TypeOK, QueueTyped
  <2>2. CASE Merge(l, w)
    BY <1>5, <2>2, FlatMerge DEF ConfirmMerge
  <2>3. CASE UNCHANGED <<merged, moves>>
    BY <1>5, <2>3 DEF ConfirmMerge, FlatInv, MergedExist, MovesWithinKind, OneHop, Live
  <2> QED
    BY <1>5, <2>1, <2>2, <2>3 DEF ConfirmMerge
<1>6. CASE UNCHANGED <<exists, merged, moves>>
  BY <1>6 DEF FlatInv, MergedExist, MovesWithinKind, OneHop, Live
<1> QED
  BY <1>1, <1>2, <1>3, <1>4, <1>5, <1>6
  DEF Next, QueueCandidate, Reject, ConfirmRead, vars

\* merged_into is one hop deep in every reachable state: it names a live entity
\* of the same kind, whatever mix of merges, auto-merges, confirmations and
\* unmerges led there, remerging an unmerged entity included.
THEOREM OneHopHolds == Spec => []OneHop
<1>1. FlatInv => OneHop
  BY DEF FlatInv
<1> QED
  BY FlatInit, FlatStep, <1>1, PTL DEF Spec
-----------------------------------------------------------------------------
(***************************************************************************)
(* The history of a row's pointer, if no unmerged row is merged again.     *)
(*                                                                         *)
(* A row's history is a path: from tombstone to tombstone, the last one    *)
(* moved into the current pointer, every hop on record.  A move that is    *)
(* not on the path was undone, and the row then stands at a survivor that  *)
(* was unmerged and stays where it is.  Tombstones on a row's path travel  *)
(* with it: they share its pointer and the rest of its path.               *)
(***************************************************************************)
Place(t, i) == IF i = Len(trail[t]) THEN merged[t] ELSE trail[t][i + 1]
Hop(t, i) == [target |-> t, into |-> Place(t, i), via |-> trail[t][i]]
Node(t, i) == IF i > Len(trail[t]) THEN merged[t] ELSE trail[t][i]
OnPath(m) == \E i \in DOMAIN trail[m.target] : m = Hop(m.target, i)
Undone(t) == {m \in moves : m.target = t /\ ~OnPath(m)}

DetachedStand == \A e \in detached : e \in exists /\ merged[e] = None

FreshOrDetached(t) ==
  merged[t] = None => /\ trail[t] = <<>>
                      /\ t \in detached \/ \A m \in moves : m.target # t

TombstonesOnce(t) ==
  \A i \in DOMAIN trail[t] :
    /\ merged[trail[t][i]] # None \/ trail[t][i] \in detached
    /\ \A j \in DOMAIN trail[t] : trail[t][i] = trail[t][j] => i = j

HopsOnRecord(t) == \A i \in DOMAIN trail[t] : Hop(t, i) \in moves

UndoneStays(t) ==
  merged[t] # None => \A m \in Undone(t) :
    /\ merged[t] \in detached
    /\ \/ m.via \in detached
       \/ /\ m.into # merged[t]
          /\ \A i \in DOMAIN trail[t] : m.into = trail[t][i] => m.into \in detached
    /\ m.via = merged[t] \/ \E n \in Undone(t) : n.into = m.via

TravelTogether(t) ==
  \A i \in DOMAIN trail[t] : merged[trail[t][i]] # None =>
    /\ merged[trail[t][i]] = merged[t]
    /\ trail[trail[t][i]] = SubSeq(trail[t], i + 1, Len(trail[t]))

JudgedFirst(t) ==
  merged[t] # None => /\ judged[t] # t
                      /\ judged[t] = IF trail[t] = <<>> THEN merged[t] ELSE trail[t][1]

RowInv(t) ==
  /\ FreshOrDetached(t) /\ TombstonesOnce(t) /\ HopsOnRecord(t)
  /\ UndoneStays(t) /\ TravelTogether(t) /\ JudgedFirst(t)

PathInv == FlatInv /\ DetachedStand /\ \A t \in Entities : RowInv(t)

LEMMA PathFacts ==
  ASSUME PathInv, NEW t \in Entities
  PROVE  /\ trail[t] \in Seq(Entities) /\ DOMAIN trail[t] = 1..Len(trail[t])
         /\ Len(trail[t]) \in Nat /\ (trail[t] = <<>> <=> Len(trail[t]) = 0)
         /\ \A i \in DOMAIN trail[t] : trail[t][i] \in Entities
         /\ RowInv(t)
<1>1. trail[t] \in Seq(Entities)
  BY DEF PathInv, FlatInv, TypeOK, HistoryTyped
<1> QED
  BY <1>1 DEF PathInv

LEMMA PathInit == Init => PathInv
<1> SUFFICES ASSUME Init PROVE PathInv
  OBVIOUS
<1>1. ASSUME NEW t \in Entities PROVE RowInv(t)
  <2>1. merged[t] = None /\ trail[t] = <<>> /\ moves = {} /\ DOMAIN trail[t] = {}
    BY DEF Init
  <2> QED
    BY <2>1 DEF RowInv, FreshOrDetached, TombstonesOnce, HopsOnRecord, UndoneStays,
                TravelTogether, JudgedFirst
<1> QED
  BY <1>1, FlatInit DEF PathInv, DetachedStand, Init

\* A row that a step leaves where it is, with the same moves on record.
LEMMA RowStands ==
  ASSUME PathInv, NEW t \in Entities,
         merged'[t] = merged[t], trail'[t] = trail[t], judged'[t] = judged[t],
         \A m : m.target = t => (m \in moves' <=> m \in moves),
         detached \subseteq detached',
         \A v \in Entities : merged[v] # None => merged'[v] # None \/ v \in detached',
         TravelTogether(t)'
  PROVE  RowInv(t)'
<1>0. RowInv(t) /\ \A i \in DOMAIN trail[t] : trail[t][i] \in Entities
  BY PathFacts
<1>1. \A i : Hop(t, i)' = Hop(t, i)
  BY DEF Hop, Place
<1>2. \A m : m.target = t => (OnPath(m)' <=> OnPath(m))
  BY <1>1 DEF OnPath
<1>3. Undone(t)' = Undone(t)
  BY <1>2 DEF Undone
<1>4. FreshOrDetached(t)'
  BY <1>0 DEF RowInv, FreshOrDetached
<1>5. TombstonesOnce(t)'
  BY <1>0 DEF RowInv, TombstonesOnce
<1>6. HopsOnRecord(t)'
  <2>1. \A i : Hop(t, i).target = t
    BY DEF Hop
  <2> QED
    BY <1>0, <1>1, <2>1 DEF RowInv, HopsOnRecord
<1>7. UndoneStays(t)'
  BY <1>0, <1>3 DEF RowInv, UndoneStays
<1>8. JudgedFirst(t)'
  BY <1>0 DEF RowInv, JudgedFirst
<1> QED
  BY <1>4, <1>5, <1>6, <1>7, <1>8 DEF RowInv

-----------------------------------------------------------------------------
\* One more tombstone on a path.
LEMMA PathGrows ==
  ASSUME NEW S, NEW s \in Seq(S), NEW x \in S
  PROVE  /\ Append(s, x) \in Seq(S)
         /\ DOMAIN Append(s, x) = 1..(Len(s) + 1) /\ Len(Append(s, x)) = Len(s) + 1
         /\ Append(s, x)[Len(s) + 1] = x
         /\ \A i \in 1..Len(s) : Append(s, x)[i] = s[i]
OBVIOUS

LEMMA RestGrows ==
  ASSUME NEW S, NEW s \in Seq(S), NEW x \in S, NEW i \in 1..Len(s)
  PROVE  Append(SubSeq(s, i + 1, Len(s)), x) = SubSeq(Append(s, x), i + 1, Len(s) + 1)
<1> DEFINE a == SubSeq(s, i + 1, Len(s))
           b == SubSeq(Append(s, x), i + 1, Len(s) + 1)
<1>1. /\ a \in Seq(S) /\ Len(a) = Len(s) - i
      /\ \A j \in 1..(Len(s) - i) : a[j] = s[i + j]
  OBVIOUS
<1>2. /\ b \in Seq(S) /\ Len(b) = Len(s) - i + 1
      /\ \A j \in 1..(Len(s) - i + 1) : b[j] = Append(s, x)[i + j]
  BY PathGrows
<1> HIDE DEF a, b
<1>3. /\ Append(a, x) \in Seq(S) /\ Len(Append(a, x)) = Len(s) - i + 1
      /\ Append(a, x)[Len(s) - i + 1] = x
      /\ \A j \in 1..(Len(s) - i) : Append(a, x)[j] = a[j]
  <2>1. a \in Seq(S) /\ Len(a) = Len(s) - i
    BY <1>1
  <2>2. /\ Append(a, x) \in Seq(S) /\ Len(Append(a, x)) = Len(a) + 1
        /\ Append(a, x)[Len(a) + 1] = x
        /\ \A j \in 1..Len(a) : Append(a, x)[j] = a[j]
    BY <2>1
  <2> QED
    BY <2>1, <2>2
<1>4. ASSUME NEW j \in 1..(Len(s) - i + 1)
      PROVE  Append(a, x)[j] = b[j]
  <2>1. Len(s) \in Nat /\ i \in Nat /\ j \in Nat
    OBVIOUS
  <2>2. CASE j = Len(s) - i + 1
    <3>1. i + j = Len(s) + 1
      BY <2>1, <2>2
    <3>2. Append(s, x)[Len(s) + 1] = x
      BY PathGrows
    <3> QED
      BY <1>2, <1>3, <2>2, <3>1, <3>2
  <2>3. CASE j # Len(s) - i + 1
    <3>1. j \in 1..(Len(s) - i) /\ i + j \in 1..Len(s)
      BY <2>1, <2>3
    <3>2. Append(s, x)[i + j] = s[i + j]
      BY <3>1, PathGrows
    <3> QED
      BY <1>1, <1>2, <1>3, <3>1, <3>2
  <2> QED
    BY <2>2, <2>3
<1>5. Append(a, x) = b
  BY <1>2, <1>3, <1>4
<1> QED
  BY <1>5 DEF a, b

LEMMA PathMerge ==
  ASSUME AllowRemerge = FALSE, PathInv,
         NEW l \in Entities, NEW w \in Entities, Merge(l, w), UNCHANGED <<exists, detached>>
  PROVE  DetachedStand' /\ \A t \in Entities : RowInv(t)'
<1>1. /\ l # w /\ l \in exists /\ merged[l] = None /\ merged[w] = None
      /\ l \notin detached /\ None \notin Entities
      /\ \A t \in Entities : merged[t] \in Entities \cup {None}
  BY EntityGraphAssumption
  DEF EntityGraphAssumption, Merge, CanMerge, Live, PathInv, FlatInv, TypeOK, GraphTyped
<1>2. /\ \A t \in Entities : merged'[t] = IF merged[t] = l \/ t = l THEN w ELSE merged[t]
      /\ \A t \in Entities : trail'[t] = IF merged[t] = l THEN Append(trail[t], l) ELSE trail[t]
      /\ \A t \in Entities : judged'[t] = IF t = l THEN w ELSE judged[t]
  BY DEF Merge, Repoint, Orphans, PathInv, FlatInv, TypeOK, HistoryTyped
<1>3. \A m : m \in moves' <=> \/ m \in moves
                             \/ \E t \in Entities : merged[t] = l
                                  /\ m = [target |-> t, into |-> w, via |-> l]
  BY DEF Merge, Repoint, Orphans
<1>4. trail[l] = <<>> /\ DOMAIN trail[l] = {} /\ \A m \in moves : m.target # l
  BY <1>1, PathFacts DEF RowInv, FreshOrDetached
<1>5. \A t \in Entities : \A i \in DOMAIN trail[t] : trail[t][i] # l
  BY <1>1, PathFacts DEF RowInv, TombstonesOnce
<1>6. DetachedStand'
  BY <1>1, <1>2 DEF PathInv, DetachedStand, FlatInv, TypeOK, HistoryTyped
<1>7. \A v \in Entities : merged[v] # None => merged'[v] # None
  BY <1>1, <1>2
<1>8. ASSUME NEW t \in Entities, merged[t] # l, t # l PROVE RowInv(t)'
  <2>1. TravelTogether(t)'
    <3> SUFFICES ASSUME NEW i \in DOMAIN trail[t], merged'[trail[t][i]] # None
                 PROVE  /\ merged'[trail[t][i]] = merged[t]
                        /\ trail'[trail[t][i]] = SubSeq(trail[t], i + 1, Len(trail[t]))
      BY <1>2, <1>8 DEF TravelTogether
    <3>1. PICK v \in Entities : v = trail[t][i]
      BY PathFacts
    <3>2. v # l /\ merged[v] # None
      <4>1. v # l
        BY <1>5, <3>1
      <4>2. merged'[v] # None
        BY <3>1
      <4> QED
        BY <1>1, <1>2, <4>1, <4>2
    <3>3. merged[v] = merged[t] /\ trail[v] = SubSeq(trail[t], i + 1, Len(trail[t]))
      BY <3>1, <3>2, PathFacts DEF RowInv, TravelTogether
    <3> QED
      BY <1>2, <1>8, <3>1, <3>2, <3>3
  <2>2. \A m : m.target = t => (m \in moves' <=> m \in moves)
    BY <1>3, <1>8
  <2> QED
    BY <1>2, <1>7, <1>8, <2>1, <2>2, RowStands
<1>9. RowInv(l)'
  <2>1. merged'[l] = w /\ trail'[l] = <<>> /\ DOMAIN trail'[l] = {} /\ judged'[l] = w
    BY <1>1, <1>2, <1>4
  <2>2. \A m \in moves' : m.target # l
    BY <1>1, <1>3, <1>4
  <2> QED
    BY <1>1, <2>1, <2>2 DEF RowInv, FreshOrDetached, TombstonesOnce, HopsOnRecord, UndoneStays,
                            Undone, TravelTogether, JudgedFirst
<1>10. ASSUME NEW t \in Entities, merged[t] = l PROVE RowInv(t)'
  <2>1. PICK k \in Nat : k = Len(trail[t])
    BY PathFacts
  <2>2. /\ trail[t] \in Seq(Entities) /\ DOMAIN trail[t] = 1..k /\ k \in Nat
        /\ \A i \in 1..k : trail[t][i] \in Entities
    BY <2>1, PathFacts
  <2>3. merged'[t] = w /\ judged'[t] = judged[t] /\ t # l
    BY <1>1, <1>2, <1>10
  <2>4. trail'[t] = Append(trail[t], l)
    BY <1>2, <1>10
  <2>5. /\ DOMAIN trail'[t] = 1..(k + 1) /\ Len(trail'[t]) = k + 1
        /\ trail'[t][k + 1] = l /\ \A i \in 1..k : trail'[t][i] = trail[t][i]
    BY <2>2, <2>1, <2>4, PathGrows
  <2>6. ASSUME NEW i \in 1..k PROVE Hop(t, i)' = Hop(t, i)
    <3>1. Place(t, i)' = Place(t, i)
      BY <1>10, <2>2, <2>3, <2>5, <2>6, <2>1 DEF Place
    <3> QED
      BY <2>5, <3>1 DEF Hop
  <2>7. Hop(t, k + 1)' = [target |-> t, into |-> w, via |-> l]
    BY <2>2, <2>3, <2>5 DEF Hop, Place
  <2>8. \A m \in moves : m.target = t => OnPath(m)
    BY <1>1, <1>10, PathFacts DEF RowInv, UndoneStays, Undone
  <2>9. Undone(t)' = {}
    <3> SUFFICES ASSUME NEW m \in moves', m.target = t PROVE \E i \in 1..(k + 1) : m = Hop(t, i)'
      BY <2>5 DEF Undone, OnPath
    <3>1. CASE m \in moves
      <4>1. PICK i \in 1..k : m = Hop(t, i)
        BY <2>2, <2>8, <3>1 DEF OnPath
      <4> QED
        BY <2>2, <2>6, <4>1
    <3>2. CASE m \notin moves
      BY <1>3, <2>2, <2>7, <3>2
    <3> QED
      BY <3>1, <3>2
  <2>10. HopsOnRecord(t)'
    <3>1. \A i \in 1..k : Hop(t, i)' \in moves'
      BY <1>3, <2>2, <2>6, PathFacts DEF RowInv, HopsOnRecord
    <3>2. Hop(t, k + 1)' \in moves'
      BY <1>3, <1>10, <2>7
    <3> QED
      BY <2>2, <2>5, <3>1, <3>2 DEF HopsOnRecord
  <2>11. TombstonesOnce(t)'
    <3>1. \A i \in 1..k : /\ merged[trail[t][i]] # None \/ trail[t][i] \in detached
                          /\ \A j \in 1..k : trail[t][i] = trail[t][j] => i = j
      BY <2>2, PathFacts DEF RowInv, TombstonesOnce
    <3>2. merged'[l] # None
      BY <1>1, <1>2
    <3> QED
      BY <1>5, <1>7, <2>2, <2>5, <3>1, <3>2 DEF TombstonesOnce
  <2>12. TravelTogether(t)'
    <3> SUFFICES ASSUME NEW i \in 1..(k + 1), merged'[trail'[t][i]] # None
                 PROVE  /\ merged'[trail'[t][i]] = w
                        /\ trail'[trail'[t][i]] = SubSeq(trail'[t], i + 1, k + 1)
      BY <2>3, <2>5 DEF TravelTogether
    <3>1. CASE i = k + 1
      <4>1. SubSeq(trail'[t], k + 2, k + 1) = <<>>
        BY <2>2, <2>4, <2>5
      <4>2. trail'[t][i] = l /\ i + 1 = k + 2
        BY <2>5, <3>1
      <4>3. merged'[l] = w /\ trail'[l] = <<>>
        BY <1>1, <1>2, <1>4
      <4> QED
        BY <4>1, <4>2, <4>3
    <3>2. CASE i \in 1..k
      <4>1. PICK v \in Entities : v = trail[t][i] /\ v # l
        BY <1>5, <2>2, <3>2
      <4>2. merged[v] # None
        <5>1. merged'[v] # None
          BY <2>5, <3>2, <4>1
        <5> QED
          BY <1>1, <1>2, <4>1, <5>1
      <4>3. merged[v] = l /\ trail[v] = SubSeq(trail[t], i + 1, k)
        BY <1>10, <2>2, <2>1, <3>2, <4>1, <4>2, PathFacts DEF RowInv, TravelTogether
      <4>4. trail'[v] = SubSeq(trail'[t], i + 1, k + 1)
        <5>1. trail'[v] = Append(SubSeq(trail[t], i + 1, k), l)
          BY <1>2, <4>1, <4>3
        <5>2. Append(SubSeq(trail[t], i + 1, k), l) = SubSeq(Append(trail[t], l), i + 1, k + 1)
          <6>1. \A j \in 1..Len(trail[t]) :
                  Append(SubSeq(trail[t], j + 1, Len(trail[t])), l)
                    = SubSeq(Append(trail[t], l), j + 1, Len(trail[t]) + 1)
            BY <2>2, RestGrows, Zenon
          <6> QED
            BY <2>1, <3>2, <6>1, Zenon
        <5> QED
          BY <2>4, <5>1, <5>2
      <4> QED
        BY <1>2, <2>5, <3>2, <4>1, <4>3, <4>4
    <3> QED
      BY <2>2, <3>1, <3>2
  <2>13. JudgedFirst(t)'
    <3>1. judged[t] # t /\ judged[t] = IF trail[t] = <<>> THEN l ELSE trail[t][1]
      BY <1>1, <1>10, PathFacts DEF RowInv, JudgedFirst
    <3>2. trail[t] = <<>> <=> k = 0
      BY <2>1, PathFacts
    <3>3. trail'[t] # <<>> /\ trail'[t][1] = judged[t]
      BY <2>2, <2>5, <3>1, <3>2
    <3> QED
      BY <2>3, <3>1, <3>3 DEF JudgedFirst
  <2>14. FreshOrDetached(t)'
    BY <1>1, <2>3 DEF FreshOrDetached
  <2> QED
    BY <2>9, <2>10, <2>11, <2>12, <2>13, <2>14 DEF RowInv, UndoneStays
<1> QED
  BY <1>6, <1>8, <1>9, <1>10

LEMMA PathMint ==
  ASSUME PathInv, NEW a \in Entities, NEW b \in Entities, AutoMerge(a, b)
  PROVE  DetachedStand' /\ \A t \in Entities : RowInv(t)'
<1>1. /\ a \notin exists /\ b \in exists /\ exists' = exists \cup {a}
      /\ trail' = trail /\ detached' = detached /\ moves' = moves
      /\ \A t \in Entities : merged'[t] = IF t = a THEN b ELSE merged[t]
      /\ \A t \in Entities : judged'[t] = IF t = a THEN b ELSE judged[t]
  BY DEF AutoMerge, Live, PathInv, FlatInv, TypeOK, GraphTyped, HistoryTyped
<1>2. merged[a] = None /\ a \notin detached /\ b # None /\ b # a
  BY <1>1, EntityGraphAssumption
  DEF EntityGraphAssumption, PathInv, FlatInv, MergedExist, DetachedStand
<1>3. trail[a] = <<>> /\ DOMAIN trail[a] = {} /\ \A m \in moves : m.target # a
  BY <1>2, PathFacts DEF RowInv, FreshOrDetached
<1>4. \A t \in Entities : \A i \in DOMAIN trail[t] : trail[t][i] # a
  BY <1>2, PathFacts DEF RowInv, TombstonesOnce
<1>5. DetachedStand'
  BY <1>1, <1>2 DEF PathInv, DetachedStand, FlatInv, TypeOK, HistoryTyped
<1>6. ASSUME NEW t \in Entities, t # a PROVE RowInv(t)'
  <2>1. TravelTogether(t)'
    <3> SUFFICES ASSUME NEW i \in DOMAIN trail[t], merged'[trail[t][i]] # None
                 PROVE  /\ merged'[trail[t][i]] = merged[t]
                        /\ trail[trail[t][i]] = SubSeq(trail[t], i + 1, Len(trail[t]))
      BY <1>1, <1>6 DEF TravelTogether
    <3>1. PICK v \in Entities : v = trail[t][i]
      BY PathFacts
    <3>2. v # a /\ merged'[v] = merged[v]
      BY <1>1, <1>4, <3>1
    <3> QED
      BY <3>1, <3>2, PathFacts DEF RowInv, TravelTogether
  <2>2. \A v \in Entities : merged[v] # None => merged'[v] # None
    BY <1>1, <1>2
  <2> QED
    BY <1>1, <1>6, <2>1, <2>2, RowStands
<1>7. RowInv(a)'
  <2>1. merged'[a] = b /\ judged'[a] = b /\ trail'[a] = <<>> /\ DOMAIN trail'[a] = {}
    BY <1>1, <1>3
  <2>2. \A m \in moves' : m.target # a
    BY <1>1, <1>3
  <2> QED
    BY <1>2, <2>1, <2>2 DEF RowInv, FreshOrDetached, TombstonesOnce, HopsOnRecord, UndoneStays,
                            Undone, TravelTogether, JudgedFirst
<1> QED
  BY <1>5, <1>6, <1>7

-----------------------------------------------------------------------------
\* An unmerge of e takes a row back along its path, to where e is on it.
LEMMA CutPath ==
  ASSUME NEW S, NEW s \in Seq(S), NEW p \in 1..Len(s),
         \A i, j \in 1..Len(s) : s[i] = s[j] => i = j
  PROVE  /\ Upto(s, s[p]) = SubSeq(s, 1, p - 1)
         /\ Upto(s, s[p]) \in Seq(S) /\ Len(Upto(s, s[p])) = p - 1
         /\ DOMAIN Upto(s, s[p]) = 1..(p - 1)
         /\ \A i \in 1..(p - 1) : Upto(s, s[p])[i] = s[i]
<1>1. (CHOOSE i \in DOMAIN s : s[i] = s[p]) = p
  OBVIOUS
<1>2. Upto(s, s[p]) = SubSeq(s, 1, p - 1)
  BY <1>1 DEF Upto
<1> QED
  BY <1>2

LEMMA SameSequence ==
  ASSUME NEW S, NEW x \in Seq(S), NEW y \in Seq(S), Len(x) = Len(y),
         \A j \in 1..Len(x) : x[j] = y[j]
  PROVE  x = y
OBVIOUS

LEMMA CutRest ==
  ASSUME NEW S, NEW s \in Seq(S), NEW p \in 1..Len(s), NEW i \in 1..(p - 1)
  PROVE  SubSeq(SubSeq(s, i + 1, Len(s)), 1, p - i - 1)
           = SubSeq(SubSeq(s, 1, p - 1), i + 1, p - 1)
<1> DEFINE a == SubSeq(s, i + 1, Len(s))
           b == SubSeq(s, 1, p - 1)
<1>1. /\ a \in Seq(S) /\ Len(a) = Len(s) - i
      /\ \A j \in 1..(Len(s) - i) : a[j] = s[i + j]
  OBVIOUS
<1>2. /\ b \in Seq(S) /\ Len(b) = p - 1
      /\ \A j \in 1..(p - 1) : b[j] = s[j]
  OBVIOUS
<1> HIDE DEF a, b
<1>3. /\ SubSeq(a, 1, p - i - 1) \in Seq(S) /\ Len(SubSeq(a, 1, p - i - 1)) = p - i - 1
      /\ \A j \in 1..(p - i - 1) : SubSeq(a, 1, p - i - 1)[j] = s[i + j]
  BY <1>1
<1>4. /\ SubSeq(b, i + 1, p - 1) \in Seq(S) /\ Len(SubSeq(b, i + 1, p - 1)) = p - i - 1
      /\ \A j \in 1..(p - i - 1) : SubSeq(b, i + 1, p - 1)[j] = s[i + j]
  BY <1>2
<1>5. SubSeq(a, 1, p - i - 1) = SubSeq(b, i + 1, p - 1)
  <2>1. ASSUME NEW c \in Seq(S), NEW d \in Seq(S), Len(c) = p - i - 1, Len(d) = p - i - 1,
               \A j \in 1..(p - i - 1) : c[j] = s[i + j],
               \A j \in 1..(p - i - 1) : d[j] = s[i + j]
        PROVE  c = d
    BY <2>1, SameSequence
  <2> QED
    BY <1>3, <1>4, <2>1, Zenon
<1> QED
  BY <1>5 DEF a, b

LEMMA RestoredOnPath ==
  ASSUME PathInv, NEW e \in Entities, merged[e] # None, NEW t \in Restored(e)
  PROVE  /\ t \in Entities /\ t # e /\ merged[t] # None
         /\ \E p \in 1..Len(trail[t]) : trail[t][p] = e /\ Place(t, p) = merged[t]
<1>1. PICK m \in moves : m.target = t /\ m.via = e /\ merged[t] = m.into
  BY DEF Restored
<1>2. t \in Entities /\ t # e /\ merged[t] # None
  BY <1>1, EntityGraphAssumption
  DEF EntityGraphAssumption, Restored, PathInv, FlatInv, TypeOK, GraphTyped, Move
<1>3. e \notin detached
  BY DEF PathInv, DetachedStand
<1>4. OnPath(m)
  BY <1>1, <1>2, <1>3, PathFacts DEF RowInv, UndoneStays, Undone
<1>5. PICK p \in 1..Len(trail[t]) : m = Hop(t, p)
  BY <1>1, <1>2, <1>4, PathFacts DEF OnPath
<1> QED
  BY <1>1, <1>2, <1>5 DEF Hop

LEMMA OnPathRestored ==
  ASSUME PathInv, NEW e \in Entities, NEW t \in Entities, t # e,
         NEW p \in 1..Len(trail[t]), trail[t][p] = e, Place(t, p) = merged[t]
  PROVE  t \in Restored(e)
<1>1. Hop(t, p) \in moves
  BY PathFacts DEF RowInv, HopsOnRecord
<1> QED
  BY <1>1 DEF Restored, Hop

\* A tombstone on the path that is still merged has the rest of the path for its own.
LEMMA RestOfPath ==
  ASSUME PathInv, NEW t \in Entities, NEW i \in 1..Len(trail[t]),
         NEW v \in Entities, v = trail[t][i], merged[v] # None
  PROVE  /\ merged[v] = merged[t] /\ trail[v] = SubSeq(trail[t], i + 1, Len(trail[t]))
         /\ Len(trail[v]) = Len(trail[t]) - i
         /\ \A q \in 1..(Len(trail[t]) - i) :
              trail[v][q] = trail[t][i + q] /\ Place(v, q) = Place(t, i + q)
<1>1. merged[v] = merged[t] /\ trail[v] = SubSeq(trail[t], i + 1, Len(trail[t]))
  BY PathFacts DEF RowInv, TravelTogether
<1>2. trail[t] \in Seq(Entities)
  BY PathFacts
<1>3. /\ Len(trail[v]) = Len(trail[t]) - i
      /\ \A q \in 1..(Len(trail[t]) - i) : trail[v][q] = trail[t][i + q]
  BY <1>1, <1>2
<1>4. ASSUME NEW q \in 1..(Len(trail[t]) - i) PROVE Place(v, q) = Place(t, i + q)
  <2>1. PICK k \in Nat, l \in Nat : k = Len(trail[t]) /\ l = Len(trail[v]) /\ l = k - i
    BY <1>2, <1>3
  <2>2. CASE q = l
    BY <1>1, <1>4, <2>1, <2>2 DEF Place
  <2>3. CASE q # l
    <3>1. q + 1 \in 1..(Len(trail[t]) - i) /\ i + q # k /\ i + (q + 1) = i + q + 1
      BY <1>4, <2>1, <2>3
    <3> QED
      BY <1>3, <2>1, <2>3, <3>1 DEF Place
  <2> QED
    BY <2>2, <2>3
<1> QED
  BY <1>1, <1>3, <1>4

LEMMA UnmergeMoves ==
  ASSUME PathInv, NEW e \in Entities, Unmerge(e)
  PROVE  /\ merged[e] # None /\ e \notin detached /\ e \in exists /\ None # e
         /\ merged'[e] = None /\ trail'[e] = <<>>
         /\ exists' = exists /\ moves' = moves /\ detached' = detached \cup {e}
         /\ \A t \in Entities \ {e} : judged'[t] = judged[t]
         /\ \A t \in Restored(e) : merged'[t] = e
         /\ \A t \in Entities \ {e} : t \notin Restored(e) =>
              merged'[t] = merged[t] /\ trail'[t] = trail[t]
         /\ \A t \in Entities : merged[t] # None => merged'[t] # None \/ t \in detached'
         /\ \A t \in Entities : merged'[t] # None => merged[t] # None
<1>1. /\ merged[e] # None /\ e \notin detached /\ e \in exists /\ None # e
  BY EntityGraphAssumption
  DEF EntityGraphAssumption, Unmerge, PathInv, DetachedStand, FlatInv, MergedExist
<1>2. /\ \A t \in Entities : merged'[t] = IF t = e THEN None
                                           ELSE IF t \in Restored(e) THEN e ELSE merged[t]
      /\ \A t \in Entities \ {e} : judged'[t] = judged[t]
      /\ exists' = exists /\ moves' = moves /\ detached' = detached \cup {e}
  BY DEF Unmerge, PathInv, FlatInv, TypeOK, HistoryTyped
<1>3. /\ trail'[e] = <<>>
      /\ \A t \in Entities \ {e} : t \notin Restored(e) => trail'[t] = trail[t]
  BY DEF Unmerge
<1>4. \A t \in Restored(e) : t \in Entities /\ t # e /\ merged[t] # None
  BY <1>1, RestoredOnPath
<1> QED
  BY <1>1, <1>2, <1>3, <1>4

\* A row the unmerge leaves where it is shares its path with no row it restores.
LEMMA UnmergeLeaves ==
  ASSUME PathInv, NEW e \in Entities, Unmerge(e),
         NEW t \in Entities, t # e, t \notin Restored(e)
  PROVE  RowInv(t)'
<1>1. merged'[t] = merged[t] /\ trail'[t] = trail[t] /\ judged'[t] = judged[t]
  BY UnmergeMoves
<1>2. TravelTogether(t)'
  <2> SUFFICES ASSUME NEW i \in 1..Len(trail[t]), merged'[trail[t][i]] # None
               PROVE  /\ merged'[trail[t][i]] = merged[t]
                      /\ trail'[trail[t][i]] = SubSeq(trail[t], i + 1, Len(trail[t]))
    BY <1>1, PathFacts DEF TravelTogether
  <2>1. PICK v \in Entities : v = trail[t][i]
    BY PathFacts
  <2>2. v # e /\ merged[v] # None
    BY <2>1, UnmergeMoves
  <2>3. v \notin Restored(e)
    <3> SUFFICES ASSUME v \in Restored(e) PROVE FALSE
      OBVIOUS
    <3>1. PICK q \in 1..Len(trail[v]) : trail[v][q] = e /\ Place(v, q) = merged[v]
      BY <2>2, UnmergeMoves, RestoredOnPath
    <3>2. Len(trail[t]) \in Nat /\ q \in 1..(Len(trail[t]) - i) /\ i + q \in 1..Len(trail[t])
      BY <2>1, <2>2, <3>1, PathFacts, RestOfPath
    <3>3. merged[v] = merged[t] /\ trail[t][i + q] = e /\ Place(t, i + q) = merged[t]
      BY <2>1, <2>2, <3>1, <3>2, RestOfPath
    <3> QED
      BY <1>1, <3>2, <3>3, OnPathRestored
  <2>4. merged'[v] = merged[v] /\ trail'[v] = trail[v]
    BY <2>2, <2>3, UnmergeMoves
  <2> QED
    BY <2>1, <2>2, <2>4, RestOfPath
<1> QED
  BY <1>1, <1>2, UnmergeMoves, RowStands

\* A row the unmerge restores: its path ends at e, the rest of it is undone.
LEMMA UnmergeRestores ==
  ASSUME PathInv, NEW e \in Entities, Unmerge(e), NEW t \in Restored(e)
  PROVE  RowInv(t)'
<1>1. /\ t \in Entities /\ t # e /\ merged[t] # None
      /\ merged'[t] = e /\ judged'[t] = judged[t] /\ e # None
  BY UnmergeMoves, RestoredOnPath
<1>2. PICK k \in Nat : /\ k = Len(trail[t]) /\ trail[t] \in Seq(Entities)
                       /\ DOMAIN trail[t] = 1..k /\ \A i \in 1..k : trail[t][i] \in Entities
  BY <1>1, PathFacts
<1>3. PICK p \in 1..k : trail[t][p] = e /\ Place(t, p) = merged[t]
  BY <1>2, UnmergeMoves, RestoredOnPath
<1>4. \A i, j \in 1..k : trail[t][i] = trail[t][j] => i = j
  BY <1>1, <1>2, PathFacts DEF RowInv, TombstonesOnce
<1>5. trail'[t] = Upto(trail[t], e)
  <2>1. e \in ToSet(trail[t])
    BY <1>2, <1>3 DEF ToSet
  <2> QED
    BY <1>1, <2>1 DEF Unmerge
<1>6. /\ trail'[t] = SubSeq(trail[t], 1, p - 1)
      /\ DOMAIN trail'[t] = 1..(p - 1) /\ Len(trail'[t]) = p - 1
      /\ \A i \in 1..(p - 1) : trail'[t][i] = trail[t][i]
  <2>1. \A i, j \in 1..Len(trail[t]) : trail[t][i] = trail[t][j] => i = j
    BY <1>2, <1>4
  <2>2. p \in 1..Len(trail[t]) /\ trail[t] \in Seq(Entities)
    BY <1>2
  <2>3. /\ Upto(trail[t], trail[t][p]) = SubSeq(trail[t], 1, p - 1)
        /\ Len(Upto(trail[t], trail[t][p])) = p - 1
        /\ DOMAIN Upto(trail[t], trail[t][p]) = 1..(p - 1)
        /\ \A i \in 1..(p - 1) : Upto(trail[t], trail[t][p])[i] = trail[t][i]
    BY <2>1, <2>2, CutPath
  <2> QED
    BY <1>3, <1>5, <2>3
<1>7. ASSUME NEW i \in 1..(p - 1) PROVE Hop(t, i)' = Hop(t, i)
  <2>1. i # k /\ i + 1 \in 1..p
    BY <1>7
  <2>2. Place(t, i)' = Place(t, i)
    <3>1. CASE i = p - 1
      BY <1>1, <1>2, <1>3, <1>6, <2>1, <3>1 DEF Place
    <3>2. CASE i # p - 1
      BY <1>2, <1>6, <1>7, <2>1, <3>2 DEF Place
    <3> QED
      BY <3>1, <3>2
  <2> QED
    BY <1>6, <2>2 DEF Hop
<1>8. \A i \in 1..k : Hop(t, i) \in moves
  BY <1>1, <1>2, PathFacts DEF RowInv, HopsOnRecord
<1>9. \A m : m \in Undone(t)' <=>
        m \in moves /\ m.target = t /\ \A i \in 1..(p - 1) : m # Hop(t, i)
  <2>1. \A m : m.target = t => (OnPath(m)' <=> \E i \in 1..(p - 1) : m = Hop(t, i))
    BY <1>6, <1>7 DEF OnPath
  <2> QED
    BY <2>1, UnmergeMoves DEF Undone
<1>10. \A i \in p..k : Hop(t, i) \in Undone(t)'
  <2> SUFFICES ASSUME NEW i \in p..k, NEW j \in 1..(p - 1), Hop(t, i) = Hop(t, j)
               PROVE  FALSE
    BY <1>8, <1>9 DEF Hop
  <2>1. trail[t][i] = trail[t][j]
    BY DEF Hop
  <2> QED
    BY <1>4, <2>1
<1>11. \A m \in Undone(t) : m \in Undone(t)'
  <2>1. \A m \in Undone(t) : m \in moves /\ m.target = t /\ \A i \in 1..k : m # Hop(t, i)
    BY <1>2 DEF Undone, OnPath
  <2> QED
    BY <1>9, <2>1
<1>12. UndoneStays(t)'
  <2> SUFFICES ASSUME NEW m \in Undone(t)'
               PROVE  /\ \/ m.via \in detached'
                         \/ /\ m.into # e
                            /\ \A i \in 1..(p - 1) : m.into = trail[t][i] => m.into \in detached'
                      /\ m.via = e \/ \E n \in Undone(t)' : n.into = m.via
    BY <1>1, <1>6, UnmergeMoves DEF UndoneStays
  <2>1. CASE m \in Undone(t)
    <3>1. /\ \/ m.via \in detached
             \/ /\ m.into # merged[t]
                /\ \A i \in 1..k : m.into = trail[t][i] => m.into \in detached
          /\ m.via = merged[t] \/ \E n \in Undone(t) : n.into = m.via
      BY <1>1, <1>2, <2>1, PathFacts DEF RowInv, UndoneStays
    <3>2. m.into = e => m.via \in detached
      BY <1>3, <3>1, UnmergeMoves
    <3>3. m.via = merged[t] => Hop(t, p).into = m.via /\ Hop(t, p) \in Undone(t)'
      BY <1>3, <1>10 DEF Hop
    <3> QED
      BY <1>11, <3>1, <3>2, <3>3, UnmergeMoves
  <2>2. CASE m \notin Undone(t)
    <3>1. PICK i \in p..k : m = Hop(t, i)
      BY <1>2, <1>9, <2>2 DEF Undone, OnPath
    <3>2. CASE i = p
      BY <1>3, <3>1, <3>2, UnmergeMoves DEF Hop
    <3>3. CASE i # p
      <4>1. i - 1 \in p..k /\ i \in 1..k /\ i - 1 # k /\ p # k
        BY <3>3
      <4>2. Hop(t, i - 1).into = m.via
        BY <1>2, <3>1, <4>1 DEF Hop, Place
      <4>3. \E j \in (p + 1)..k : m.into = trail[t][j]
        <5>1. CASE i = k
          <6>1. m.into = trail[t][p + 1]
            BY <1>2, <1>3, <3>1, <4>1, <5>1 DEF Hop, Place
          <6> QED
            BY <4>1, <6>1
        <5>2. CASE i # k
          <6>1. m.into = trail[t][i + 1]
            BY <1>2, <3>1, <4>1, <5>2 DEF Hop, Place
          <6> QED
            BY <4>1, <5>2, <6>1
        <5> QED
          BY <5>1, <5>2
      <4>4. m.into # e /\ \A j \in 1..(p - 1) : m.into # trail[t][j]
        BY <1>3, <1>4, <4>3
      <4> QED
        BY <1>10, <4>1, <4>2, <4>4
    <3> QED
      BY <3>2, <3>3
  <2> QED
    BY <2>1, <2>2
<1>13. TravelTogether(t)'
  <2> SUFFICES ASSUME NEW i \in 1..(p - 1), merged'[trail[t][i]] # None
               PROVE  /\ merged'[trail[t][i]] = e
                      /\ trail'[trail[t][i]]
                           = SubSeq(SubSeq(trail[t], 1, p - 1), i + 1, p - 1)
    BY <1>1, <1>6 DEF TravelTogether
  <2>1. PICK v \in Entities : v = trail[t][i] /\ v # e /\ merged[v] # None
    BY <1>2, UnmergeMoves
  <2>2. p - i \in 1..(k - i) /\ i \in 1..k /\ i + (p - i) = p
    OBVIOUS
  <2>3. /\ merged[v] = merged[t] /\ trail[v] = SubSeq(trail[t], i + 1, k)
        /\ Len(trail[v]) = k - i
        /\ trail[v][p - i] = e /\ Place(v, p - i) = merged[v]
    <3>1. i \in 1..Len(trail[t]) /\ p - i \in 1..(Len(trail[t]) - i)
      BY <1>2, <2>2
    <3>2. /\ merged[v] = merged[t] /\ trail[v] = SubSeq(trail[t], i + 1, Len(trail[t]))
          /\ Len(trail[v]) = Len(trail[t]) - i
          /\ \A q \in 1..(Len(trail[t]) - i) :
               trail[v][q] = trail[t][i + q] /\ Place(v, q) = Place(t, i + q)
      BY <1>1, <2>1, <3>1, RestOfPath
    <3>3. trail[v][p - i] = trail[t][i + (p - i)] /\ Place(v, p - i) = Place(t, i + (p - i))
      BY <3>1, <3>2
    <3> QED
      BY <1>2, <1>3, <2>2, <3>2, <3>3
  <2>4. v \in Restored(e)
    BY <2>1, <2>2, <2>3, OnPathRestored
  <2>5. trail'[v] = SubSeq(trail[v], 1, p - i - 1)
    <3>1. trail'[v] = Upto(trail[v], e)
      <4>1. e \in ToSet(trail[v])
        BY <2>2, <2>3, PathFacts DEF ToSet
      <4> QED
        BY <2>1, <2>4, <4>1 DEF Unmerge
    <3>2. \A a, b \in 1..Len(trail[v]) : trail[v][a] = trail[v][b] => a = b
      BY PathFacts DEF RowInv, TombstonesOnce
    <3>3. trail[v] \in Seq(Entities) /\ p - i \in 1..Len(trail[v])
      BY <2>2, <2>3, PathFacts
    <3>4. Upto(trail[v], trail[v][p - i]) = SubSeq(trail[v], 1, (p - i) - 1)
      BY <3>2, <3>3, CutPath
    <3> QED
      BY <2>3, <3>1, <3>4
  <2>6. SubSeq(SubSeq(trail[t], i + 1, Len(trail[t])), 1, p - i - 1)
          = SubSeq(SubSeq(trail[t], 1, p - 1), i + 1, p - 1)
    <3>1. p \in 1..Len(trail[t])
      BY <1>2
    <3> QED
      BY <1>2, <3>1, CutRest
  <2>7. merged'[v] = e
    BY <2>4, UnmergeMoves
  <2> QED
    BY <1>2, <2>1, <2>3, <2>5, <2>6, <2>7
<1>14. HopsOnRecord(t)'
  BY <1>6, <1>7, <1>8, UnmergeMoves DEF HopsOnRecord
<1>15. TombstonesOnce(t)'
  <2>1. \A i \in 1..k : merged[trail[t][i]] # None \/ trail[t][i] \in detached
    BY <1>1, <1>2, PathFacts DEF RowInv, TombstonesOnce
  <2>2. \A i \in 1..k : merged'[trail[t][i]] # None \/ trail[t][i] \in detached'
    BY <1>2, <2>1, UnmergeMoves
  <2> QED
    BY <1>4, <1>6, <2>2 DEF TombstonesOnce
<1>16. JudgedFirst(t)'
  <2>1. judged[t] # t /\ judged[t] = trail[t][1]
    BY <1>1, <1>2, PathFacts DEF RowInv, JudgedFirst
  <2>2. CASE p = 1
    <3>1. trail'[t] = <<>>
      BY <1>2, <1>6, <2>2
    <3>2. judged'[t] = e
      BY <1>1, <1>3, <2>1, <2>2
    <3> QED
      BY <1>1, <3>1, <3>2 DEF JudgedFirst
  <2>3. CASE p # 1
    <3>1. 1 \in 1..(p - 1)
      BY <2>3
    <3>2. trail'[t][1] = trail[t][1]
      BY <1>6, <3>1
    <3>3. trail'[t] # <<>>
      <4>1. Len(trail'[t]) # 0
        BY <1>6, <3>1
      <4> QED
        BY <4>1
    <3> QED
      BY <1>1, <2>1, <3>2, <3>3 DEF JudgedFirst
  <2> QED
    BY <2>2, <2>3
<1>17. FreshOrDetached(t)'
  BY <1>1 DEF FreshOrDetached
<1> QED
  BY <1>12, <1>13, <1>14, <1>15, <1>16, <1>17 DEF RowInv

LEMMA PathUnmerge ==
  ASSUME PathInv, NEW e \in Entities, Unmerge(e)
  PROVE  DetachedStand' /\ \A t \in Entities : RowInv(t)'
<1>1. DetachedStand'
  <2>1. \A t \in detached : t \in Entities /\ t \in exists /\ merged[t] = None
    BY DEF PathInv, DetachedStand, FlatInv, TypeOK, HistoryTyped
  <2> QED
    BY <2>1, UnmergeMoves DEF DetachedStand
<1>2. RowInv(e)'
  <2>1. merged'[e] = None /\ trail'[e] = <<>> /\ DOMAIN trail'[e] = {} /\ e \in detached'
    BY UnmergeMoves
  <2> QED
    BY <2>1 DEF RowInv, FreshOrDetached, TombstonesOnce, HopsOnRecord, UndoneStays,
                TravelTogether, JudgedFirst
<1> QED
  BY <1>1, <1>2, UnmergeLeaves, UnmergeRestores

LEMMA PathStep == AllowRemerge = FALSE /\ PathInv /\ [Next]_vars => PathInv'
<1> SUFFICES ASSUME AllowRemerge = FALSE, PathInv, [Next]_vars
             PROVE  DetachedStand' /\ \A t \in Entities : RowInv(t)'
  BY FlatStep DEF PathInv
<1>1. CASE UNCHANGED <<merged, moves, detached, trail, judged>> /\ exists \subseteq exists'
  <2>1. DetachedStand'
    BY <1>1 DEF PathInv, DetachedStand
  <2>2. \A t \in Entities : TravelTogether(t)'
    BY <1>1, PathFacts DEF RowInv, TravelTogether
  <2>3. \A t \in Entities : RowInv(t)'
    BY <1>1, <2>2, RowStands
  <2> QED
    BY <2>1, <2>3
<1>2. ASSUME NEW e \in Entities, Unmerge(e)
      PROVE  DetachedStand' /\ \A t \in Entities : RowInv(t)'
  BY <1>2, PathUnmerge
<1>3. ASSUME NEW a \in Entities, NEW b \in Entities, MergeEntities(a, b)
      PROVE  DetachedStand' /\ \A t \in Entities : RowInv(t)'
  BY <1>3, PathMerge DEF MergeEntities
<1>4. ASSUME NEW a \in Entities, NEW b \in Entities, AutoMerge(a, b)
      PROVE  DetachedStand' /\ \A t \in Entities : RowInv(t)'
  BY <1>4, PathMint
<1>5. ASSUME NEW r \in Reviewers, ConfirmMerge(r)
      PROVE  DetachedStand' /\ \A t \in Entities : RowInv(t)'
  <2>1. PICK l \in Entities, w \in Entities : l = confirm[r].loser /\ w = confirm[r].winner
    BY <1>5 DEF ConfirmMerge, Confirmation, PathInv, FlatInv, TypeOK, QueueTyped
  <2>2. CASE Merge(l, w)
    BY <1>5, <2>2, PathMerge DEF ConfirmMerge
  <2>3. CASE UNCHANGED <<merged, moves, trail, judged>>
    BY <1>1, <1>5, <2>3 DEF ConfirmMerge
  <2> QED
    BY <1>5, <2>1, <2>2, <2>3 DEF ConfirmMerge
<1> QED
  BY <1>1, <1>2, <1>3, <1>4, <1>5
  DEF Next, Create, QueueCandidate, Reject, ConfirmRead, vars

LEMMA PathHolds == ASSUME AllowRemerge = FALSE PROVE Spec => []PathInv
BY PathInit, PathStep, PTL DEF Spec

-----------------------------------------------------------------------------
(***************************************************************************)
(* The pointers implement the clusters of Identity, if no unmerged row is  *)
(* merged again.                                                           *)
(***************************************************************************)
LEMMA JoinsClusters ==
  ASSUME FlatInv, NEW l \in Entities, NEW w \in Entities, Merge(l, w), UNCHANGED exists
  PROVE  Identities!Join(l, w)
<1>1. /\ l # w /\ l \in exists /\ w \in exists /\ merged[l] = None /\ merged[w] = None
      /\ None \notin Entities
  BY EntityGraphAssumption DEF EntityGraphAssumption, Merge, CanMerge, Live
<1>2. \A t \in Entities : merged'[t] = IF merged[t] = l \/ t = l THEN w ELSE merged[t]
  BY DEF Merge, Repoint, Orphans
<1>3. \A t \in Entities :
        Survivor(t)' = IF t \in Identities!Cluster(l) THEN w ELSE Survivor(t)
  BY <1>1, <1>2 DEF Survivor, Identities!Cluster, FlatInv, MergedExist
<1>4. Identities!IsRep(l) /\ Identities!IsRep(w)
  BY <1>1 DEF Survivor, Identities!IsRep
<1> QED
  BY <1>1, <1>3, <1>4 DEF Identities!Join

LEMMA MintsIntoCluster ==
  ASSUME FlatInv, NEW a \in Entities, NEW b \in Entities, AutoMerge(a, b)
  PROVE  Identities!MintInto(a, b)
<1>1. /\ a \notin exists /\ b \in exists /\ merged[b] = None /\ b # None
      /\ exists' = exists \cup {a}
      /\ \A t \in Entities : merged'[t] = IF t = a THEN b ELSE merged[t]
  BY EntityGraphAssumption
  DEF EntityGraphAssumption, AutoMerge, Live, FlatInv, TypeOK, GraphTyped
<1>2. \A t \in Entities : Survivor(t)' = IF t = a THEN b ELSE Survivor(t)
  BY <1>1 DEF Survivor
<1>3. Identities!IsRep(b)
  BY <1>1 DEF Survivor, Identities!IsRep
<1> QED
  BY <1>1, <1>2, <1>3 DEF Identities!MintInto

LEMMA PartsOneCluster ==
  ASSUME PathInv, NEW e \in Entities, Unmerge(e)
  PROVE  Identities!Part(e)
<1>1. /\ merged[e] \in Entities /\ merged[merged[e]] = None /\ e \in exists
      /\ merged[e] # e /\ merged[e] # None /\ Survivor(e) = merged[e]
  BY UnmergeMoves DEF PathInv, FlatInv, TypeOK, GraphTyped, OneHop, Live, Survivor
<1>2. ASSUME NEW t \in Restored(e)
      PROVE  t \in exists /\ t \in Entities /\ merged[t] # None /\ merged[t] = merged[e]
  <2>1. t \in Entities /\ merged[t] # None /\ t \in exists
    BY <1>1, RestoredOnPath DEF PathInv, FlatInv, MergedExist
  <2>2. PICK p \in 1..Len(trail[t]) : trail[t][p] = e
    BY <1>1, RestoredOnPath
  <2> QED
    BY <1>1, <2>1, <2>2, RestOfPath
<1>3. Restored(e) \in SUBSET (Identities!Cluster(Survivor(e)) \ {Survivor(e)})
  BY <1>1, <1>2 DEF Identities!Cluster, Survivor
<1>4. \A t \in Entities : Survivor(t)' = IF t \in Restored(e) \cup {e} THEN e ELSE Survivor(t)
  BY <1>1, UnmergeMoves DEF Survivor
<1>5. exists' = exists
  BY UnmergeMoves
<1> QED
  BY <1>1, <1>3, <1>4, <1>5 DEF Identities!Part

LEMMA IdentityStep ==
  ASSUME PathInv, [Next]_vars
  PROVE  [Identities!Next]_(Identities!ivars)
<1>1. CASE UNCHANGED <<exists, merged>>
  BY <1>1 DEF Identities!ivars, Survivor
<1>2. ASSUME NEW e \in Entities, Create(e) PROVE Identities!Next
  <2>1. Identities!Mint(e)
    BY <1>2 DEF Create, Identities!Mint, Survivor
  <2> QED
    BY <2>1 DEF Identities!Next
<1>3. ASSUME NEW e \in Entities, Unmerge(e) PROVE Identities!Next
  BY <1>3, PartsOneCluster DEF Identities!Next
<1>4. ASSUME NEW a \in Entities, NEW b \in Entities, MergeEntities(a, b) PROVE Identities!Next
  BY <1>4, JoinsClusters DEF MergeEntities, PathInv, Identities!Next
<1>5. ASSUME NEW a \in Entities, NEW b \in Entities, AutoMerge(a, b) PROVE Identities!Next
  BY <1>5, MintsIntoCluster DEF PathInv, Identities!Next
<1>6. ASSUME NEW r \in Reviewers, ConfirmMerge(r)
      PROVE  [Identities!Next]_(Identities!ivars)
  <2>1. PICK l \in Entities, w \in Entities : l = confirm[r].loser /\ w = confirm[r].winner
    BY <1>6 DEF ConfirmMerge, Confirmation, PathInv, FlatInv, TypeOK, QueueTyped
  <2>2. CASE Merge(l, w)
    BY <1>6, <2>2, JoinsClusters DEF ConfirmMerge, PathInv, Identities!Next
  <2>3. CASE UNCHANGED merged
    BY <1>1, <1>6, <2>3 DEF ConfirmMerge
  <2> QED
    BY <1>6, <2>1, <2>2, <2>3 DEF ConfirmMerge
<1> QED
  BY <1>1, <1>2, <1>3, <1>4, <1>5, <1>6
  DEF Next, QueueCandidate, Reject, ConfirmRead, vars

\* Soft merge, path compression and unmerge implement Identity step by step, as long
\* as no unmerged row is merged again: a merge joins two whole clusters, an unmerge
\* parts one cluster and takes no row that was not behind the entity in it.
THEOREM GraphImplementsIdentity ==
  ASSUME AllowRemerge = FALSE
  PROVE  Spec => ImplementsIdentity
<1>1. Init => Identities!Init
  BY DEF Init, Identities!Init, Survivor
<1>2. PathInv /\ [Next]_vars => [Identities!Next]_(Identities!ivars)
  BY IdentityStep
<1> QED
  BY <1>1, <1>2, PathHolds, PTL DEF Spec, ImplementsIdentity, Identities!Spec

-----------------------------------------------------------------------------
(***************************************************************************)
(* What an unmerge takes back.                                             *)
(***************************************************************************)
LEMMA OnlyUnmergeClears ==
  ASSUME FlatInv, [Next]_vars, NEW e \in Entities, merged[e] # None, merged'[e] = None
  PROVE  Unmerge(e)
<1>1. None \notin Entities
  BY EntityGraphAssumption DEF EntityGraphAssumption
<1>2. ASSUME NEW l \in Entities, NEW w \in Entities, Merge(l, w) PROVE FALSE
  BY <1>1, <1>2 DEF Merge, Repoint
<1>3. ASSUME NEW a \in Entities, NEW b \in Entities, AutoMerge(a, b) PROVE FALSE
  BY <1>1, <1>3 DEF AutoMerge, FlatInv, TypeOK, GraphTyped
<1>4. ASSUME NEW f \in Entities, Unmerge(f), f # e PROVE FALSE
  BY <1>1, <1>4 DEF Unmerge
<1>5. ASSUME NEW r \in Reviewers, ConfirmMerge(r) PROVE FALSE
  <2>1. PICK l \in Entities, w \in Entities : l = confirm[r].loser /\ w = confirm[r].winner
    BY <1>5 DEF ConfirmMerge, Confirmation, FlatInv, TypeOK, QueueTyped
  <2> QED
    BY <1>2, <1>5, <2>1 DEF ConfirmMerge
<1> QED
  BY <1>2, <1>3, <1>4, <1>5
  DEF Next, Create, QueueCandidate, MergeEntities, Reject, ConfirmRead, vars

\* An unmerge takes back the rows whose last move carried them past the entity, and
\* no others, as long as no unmerged row is merged again.  A row that has come back to
\* a survivor it was moved past before is left out: there the guard on the pointer
\* lets a move that a later one has overtaken count.
THEOREM UnmergeTakesItsOwn ==
  ASSUME AllowRemerge = FALSE
  PROVE  Spec => UnmergeUndoesItsMoves
<1>1. ASSUME PathInv, NEW e \in Entities, Unmerge(e), NEW t \in Entities \ {e}
      PROVE  /\ t \in CarriedBy(e) => merged'[t] # merged[t]
             /\ ~CameBack(t) /\ merged'[t] # merged[t] => t \in CarriedBy(e)
  <2>1. PICK k \in Nat : /\ k = Len(trail[t]) /\ trail[t] \in Seq(Entities)
                         /\ DOMAIN trail[t] = 1..k /\ (trail[t] = <<>> <=> k = 0)
    BY <1>1, PathFacts
  <2>2. Last(trail[t]) = trail[t][k]
    BY <2>1 DEF Last
  <2>3. ASSUME t \in CarriedBy(e) PROVE merged'[t] # merged[t]
    <3>1. k \in 1..k /\ k \in 1..Len(trail[t]) /\ trail[t][k] = e
      BY <2>1, <2>2, <2>3 DEF CarriedBy
    <3>2. Place(t, k) = merged[t]
      BY <2>1 DEF Place
    <3>3. t \in Restored(e)
      BY <1>1, <3>1, <3>2, OnPathRestored
    <3>4. merged[t] # None
      BY <1>1, <3>3, UnmergeMoves, RestoredOnPath
    <3>5. merged[merged[t]] = None
      BY <1>1, <3>4 DEF PathInv, FlatInv, OneHop, Live
    <3> QED
      BY <1>1, <3>3, <3>5, UnmergeMoves
  <2>4. ASSUME ~CameBack(t), merged'[t] # merged[t] PROVE t \in CarriedBy(e)
    <3>1. merged[e] # None /\ t \in Restored(e)
      BY <1>1, <2>4, UnmergeMoves
    <3>2. PICK p \in 1..k : trail[t][p] = e /\ Place(t, p) = merged[t]
      BY <1>1, <2>1, <3>1, RestoredOnPath
    <3>3. p = k
      <4> SUFFICES ASSUME p # k PROVE merged[t] \in ToSet(trail[t])
        BY <2>4 DEF CameBack
      <4>1. merged[t] = trail[t][p + 1] /\ p + 1 \in 1..k
        BY <2>1, <3>2 DEF Place
      <4> QED
        BY <2>1, <4>1 DEF ToSet
    <3> QED
      BY <2>1, <2>2, <3>2, <3>3 DEF CarriedBy
  <2> QED
    BY <2>3, <2>4
<1>2. PathInv /\ [Next]_vars =>
        [\A e \in Entities : merged[e] # None /\ merged'[e] = None =>
           \A t \in Entities \ {e} :
             ~CameBack(t) => (merged'[t] # merged[t] <=> t \in CarriedBy(e))]_vars
  BY <1>1, OnlyUnmergeClears DEF PathInv
<1> QED
  BY <1>2, PathHolds, PTL DEF Spec, UnmergeUndoesItsMoves

-----------------------------------------------------------------------------
(***************************************************************************)
(* What the lineage walk finds.                                            *)
(***************************************************************************)
LEMMA LeastNat ==
  ASSUME NEW T, T \subseteq Nat, T # {}
  PROVE  \E x \in T : \A y \in T : x <= y
<1>1. PICK x \in T : \A y \in T : ~(<<y, x>> \in OpToRel(<, Nat))
  BY WFMin, NatLessThanWellFounded, Zenon
<1>2. \A y \in T : ~(y < x)
  BY <1>1, Zenon DEF OpToRel
<1>3. \A y \in T : x \in Nat /\ y \in Nat
  OBVIOUS
<1> QED
  BY <1>2, <1>3

LEMMA LineageExists ==
  ASSUME NEW e
  PROVE  \E h : h = [depth \in 0..LineageDepth |->
                       IF depth = 0 THEN {merged[e]} ELSE Before(e, h[depth - 1])]
<1> DEFINE Walk(h, n) == h = [depth \in 0..n |->
                                IF depth = 0 THEN {merged[e]} ELSE Before(e, h[depth - 1])]
           Short == {n \in Nat : \A h : ~Walk(h, n)}
<1>1. SUFFICES Short = {}
  BY EntityGraphAssumption DEF EntityGraphAssumption
<1>2. SUFFICES ASSUME NEW n \in Short, \A k \in Short : n <= k PROVE FALSE
  <2> HIDE DEF Short
  <2>1. Short \subseteq Nat
    BY DEF Short
  <2> QED
    BY <2>1, LeastNat
<1>3. CASE n = 0
  <2>1. Walk([depth \in 0..0 |-> {merged[e]}], 0)
    OBVIOUS
  <2> QED
    BY <1>3, <2>1
<1>4. CASE n # 0
  <2>1. n \in Nat
    OBVIOUS
  <2>2. n - 1 \in Nat /\ n - 1 \notin Short
    <3> HIDE DEF Short
    <3> QED
      BY <1>2, <1>4, <2>1
  <2>3. PICK g : Walk(g, n - 1)
    <3> HIDE DEF Walk
    <3> QED
      BY <2>2
  <2> DEFINE h == [depth \in 0..n |-> IF depth = n THEN Before(e, g[n - 1]) ELSE g[depth]]
  <2>4. Walk(h, n)
    <3>1. ASSUME NEW d \in 0..n
          PROVE  h[d] = IF d = 0 THEN {merged[e]} ELSE Before(e, h[d - 1])
      <4>1. CASE d = n
        BY <1>4, <2>1, <4>1
      <4>2. CASE d # n
        <5>1. d \in 0..(n - 1) /\ (d # 0 => d - 1 \in 0..(n - 1))
          BY <2>1, <4>2
        <5>2. g[d] = IF d = 0 THEN {merged[e]} ELSE Before(e, g[d - 1])
          BY <2>3, <5>1
        <5>3. h[d] = g[d] /\ (d # 0 => h[d - 1] = g[d - 1])
          BY <2>1, <4>2, <5>1
        <5> QED
          BY <5>2, <5>3
      <4> QED
        BY <4>1, <4>2
    <3>2. h = [depth \in 0..n |-> h[depth]]
      OBVIOUS
    <3> HIDE DEF h
    <3> QED
      BY <3>1, <3>2
  <2>5. n \notin Short
    <3> HIDE DEF Walk, h
    <3> QED
      BY <2>4
  <2> QED
    BY <2>5
<1> QED
  BY <1>3, <1>4

LEMMA LineageUnrolls ==
  ASSUME NEW e
  PROVE  Lineage(e) = [depth \in 0..LineageDepth |->
                         IF depth = 0 THEN {merged[e]} ELSE Before(e, Lineage(e)[depth - 1])]
<1> DEFINE Walk(g) == g = [depth \in 0..LineageDepth |->
                             IF depth = 0 THEN {merged[e]} ELSE Before(e, g[depth - 1])]
<1>1. \E g : Walk(g)
  BY LineageExists
<1>2. Lineage(e) = CHOOSE g : Walk(g)
  BY Zenon DEF Lineage
<1> HIDE DEF Walk
<1>3. Walk(CHOOSE g : Walk(g))
  BY <1>1, Zenon
<1>4. Walk(Lineage(e))
  BY <1>2, <1>3, Zenon
<1> QED
  BY <1>4, Zenon DEF Walk

LEMMA ChainFacts ==
  ASSUME PathInv, NEW e \in Entities, merged[e] # None, NEW k \in Nat, k = Len(trail[e])
  PROVE  /\ \A i \in 1..(k + 1) : Node(e, i) \in Entities
         /\ Node(e, k + 1) = merged[e]
         /\ \A i, j \in 1..k : Node(e, i) = Node(e, j) => i = j
         /\ \A i \in 1..k : /\ Hop(e, i) \in moves
                            /\ Hop(e, i) = [target |-> e, into |-> Node(e, i + 1),
                                            via |-> Node(e, i)]
<1>1. /\ DOMAIN trail[e] = 1..k /\ merged[e] \in Entities
      /\ \A i \in 1..k : trail[e][i] \in Entities /\ Hop(e, i) \in moves
      /\ \A i, j \in 1..k : trail[e][i] = trail[e][j] => i = j
  BY PathFacts
  DEF RowInv, HopsOnRecord, TombstonesOnce, PathInv, FlatInv, TypeOK, GraphTyped
<1>2. \A i \in 1..k : Node(e, i) = trail[e][i]
  BY DEF Node
<1>3. Node(e, k + 1) = merged[e]
  BY DEF Node
<1>4. ASSUME NEW i \in 1..k PROVE Place(e, i) = Node(e, i + 1)
  <2>1. CASE i = k
    BY <1>3, <2>1 DEF Place
  <2>2. CASE i # k
    <3>1. i + 1 \in 1..k
      BY <2>2
    <3> QED
      BY <1>2, <2>2, <3>1 DEF Place
  <2> QED
    BY <2>1, <2>2
<1>5. \A i \in 1..(k + 1) : Node(e, i) \in Entities
  <2>1. \A i \in 1..(k + 1) : i \in 1..k \/ i = k + 1
    OBVIOUS
  <2> QED
    BY <1>1, <1>2, <1>3, <2>1
<1>6. \A i, j \in 1..k : Node(e, i) = Node(e, j) => i = j
  BY <1>1, <1>2
<1>7. \A i \in 1..k : Hop(e, i) = [target |-> e, into |-> Node(e, i + 1), via |-> Node(e, i)]
  BY <1>2, <1>4 DEF Hop
<1> QED
  BY <1>1, <1>3, <1>5, <1>6, <1>7

LEMMA MoveBefore ==
  ASSUME NEW e, NEW m \in moves, m.target = e
  PROVE  m.via \in Before(e, {m.into})
BY DEF Before

\* If the moves run in no cycle, the path passes no entity twice, its survivor
\* included, and no undone move leads into it.
LEMMA OneWayIn ==
  ASSUME PathInv, NEW e \in Entities, merged[e] # None, Acyclic(e),
         NEW k \in Nat, k = Len(trail[e])
  PROVE  /\ \A i, j \in 1..(k + 1) : Node(e, i) = Node(e, j) => i = j
         /\ \A m \in Undone(e) : \A i \in 1..(k + 1) : m.into # Node(e, i)
<1>1. \A S \in SUBSET Entities :
        (\A p \in S : \E q \in S : q \in Before(e, {p})) => S = {}
  BY DEF Acyclic
<1>2. \A i \in 1..k : Node(e, i) \in Before(e, {Node(e, i + 1)})
  <2> TAKE i \in 1..k
  <2>1. /\ Hop(e, i) \in moves /\ Hop(e, i).target = e
        /\ Hop(e, i).into = Node(e, i + 1) /\ Hop(e, i).via = Node(e, i)
    BY ChainFacts
  <2> QED
    BY <2>1, MoveBefore
<1>3. ASSUME NEW i \in 1..k, Node(e, i) = merged[e] PROVE FALSE
  <2> DEFINE S == {Node(e, j) : j \in i..k}
  <2>1. S \in SUBSET Entities /\ Node(e, i) \in S
    BY ChainFacts
  <2>2. \A p \in S : \E q \in S : q \in Before(e, {p})
    <3> SUFFICES ASSUME NEW j \in i..k PROVE \E q \in S : q \in Before(e, {Node(e, j)})
      OBVIOUS
    <3>1. CASE j = i
      <4>1. Node(e, k) \in Before(e, {merged[e]}) /\ Node(e, k) \in S
        BY <1>2, ChainFacts
      <4> QED
        BY <1>3, <3>1, <4>1
    <3>2. CASE j # i
      <4>1. j - 1 \in 1..k /\ j - 1 \in i..k /\ (j - 1) + 1 = j
        BY <3>2
      <4>2. Node(e, j - 1) \in Before(e, {Node(e, j)})
        BY <1>2, <4>1
      <4> QED
        BY <4>1, <4>2
    <3> QED
      BY <3>1, <3>2
  <2> HIDE DEF S
  <2> QED
    BY <1>1, <2>1, <2>2
<1>4. \A i, j \in 1..(k + 1) : Node(e, i) = Node(e, j) => i = j
  <2>1. \A i \in 1..(k + 1) : i \in 1..k \/ i = k + 1
    OBVIOUS
  <2>2. Node(e, k + 1) = merged[e]
    BY ChainFacts
  <2>3. \A i, j \in 1..k : Node(e, i) = Node(e, j) => i = j
    BY ChainFacts
  <2> QED
    BY <1>3, <2>1, <2>2, <2>3
<1>5. ASSUME NEW m \in Undone(e), NEW i \in 1..(k + 1), m.into = Node(e, i) PROVE FALSE
  <2> DEFINE Chain == {Node(e, j) : j \in i..(k + 1)}
             S == Chain \cup {n.into : n \in Undone(e)}
  <2>1. \A n \in Undone(e) : n \in moves /\ n.target = e /\ n.into \in Entities
    BY DEF Undone, PathInv, FlatInv, TypeOK, GraphTyped, Move
  <2>2. S \in SUBSET Entities /\ m.into \in S /\ merged[e] \in Chain
    BY <2>1, ChainFacts
  <2>3. ASSUME NEW n \in Undone(e) PROVE \E q \in S : q \in Before(e, {n.into})
    <3>1. n.via \in Before(e, {n.into})
      BY <2>1, MoveBefore
    <3>2. n.via = merged[e] \/ \E o \in Undone(e) : o.into = n.via
      BY PathFacts DEF RowInv, UndoneStays
    <3>3. n.via \in S
      BY <2>2, <3>2
    <3> QED
      BY <3>1, <3>3
  <2>4. ASSUME NEW j \in i..(k + 1) PROVE \E q \in S : q \in Before(e, {Node(e, j)})
    <3>1. CASE j = i
      BY <1>5, <2>3, <3>1
    <3>2. CASE j # i
      <4>1. j - 1 \in 1..k /\ j - 1 \in i..(k + 1) /\ (j - 1) + 1 = j
        BY <3>2
      <4>2. Node(e, j - 1) \in Before(e, {Node(e, j)}) /\ Node(e, j - 1) \in S
        BY <1>2, <4>1
      <4> QED
        BY <4>2
    <3> QED
      BY <3>1, <3>2
  <2>5. \A p \in S : \E q \in S : q \in Before(e, {p})
    <3> SUFFICES ASSUME NEW p \in S PROVE \E q \in S : q \in Before(e, {p})
      OBVIOUS
    <3>1. \/ \E j \in i..(k + 1) : p = Node(e, j)
          \/ \E n \in Undone(e) : p = n.into
      OBVIOUS
    <3> HIDE DEF S
    <3> QED
      BY <2>3, <2>4, <3>1
  <2> HIDE DEF S
  <2> QED
    BY <1>1, <2>2, <2>5
<1> QED
  BY <1>4, <1>5

LEMMA OneStepBack ==
  ASSUME PathInv, NEW e \in Entities, merged[e] # None, Acyclic(e),
         NEW k \in Nat, k = Len(trail[e]), NEW i \in 1..(k + 1)
  PROVE  Before(e, {Node(e, i)}) = IF i = 1 THEN {} ELSE {Node(e, i - 1)}
<1>1. ASSUME NEW m \in moves, m.target = e, m.into = Node(e, i)
      PROVE  i # 1 /\ m.via = Node(e, i - 1)
  <2>1. OnPath(m)
    BY <1>1, OneWayIn DEF Undone
  <2>2. PICK j \in 1..k : m = Hop(e, j)
    BY <1>1, <2>1, PathFacts DEF OnPath
  <2>3. m.into = Node(e, j + 1) /\ m.via = Node(e, j)
    BY <2>2, ChainFacts
  <2>4. j + 1 = i
    <3>1. j + 1 \in 1..(k + 1)
      OBVIOUS
    <3> QED
      BY <1>1, <2>3, <3>1, OneWayIn
  <2> QED
    BY <2>3, <2>4
<1>2. CASE i = 1
  BY <1>1, <1>2 DEF Before
<1>3. CASE i # 1
  <2>1. i - 1 \in 1..k /\ (i - 1) + 1 = i
    BY <1>3
  <2>2. /\ Hop(e, i - 1) \in moves /\ Hop(e, i - 1).target = e
        /\ Hop(e, i - 1).into = Node(e, i) /\ Hop(e, i - 1).via = Node(e, i - 1)
    BY <2>1, ChainFacts
  <2>3. Node(e, i - 1) \in Before(e, {Node(e, i)})
    BY <2>2, MoveBefore
  <2>4. \A q \in Before(e, {Node(e, i)}) : q = Node(e, i - 1)
    BY <1>1 DEF Before
  <2> QED
    BY <1>3, <2>3, <2>4
<1> QED
  BY <1>2, <1>3

LEMMA LineageRuns ==
  ASSUME PathInv, NEW e \in Entities, merged[e] # None, Acyclic(e),
         NEW k \in Nat, k = Len(trail[e])
  PROVE  \A d \in 0..LineageDepth :
           Lineage(e)[d] = IF d <= k THEN {Node(e, k + 1 - d)} ELSE {}
<1> DEFINE Strays == {d \in 0..LineageDepth :
                        Lineage(e)[d] # IF d <= k THEN {Node(e, k + 1 - d)} ELSE {}}
<1>1. LineageDepth \in Nat
  BY EntityGraphAssumption DEF EntityGraphAssumption
<1>2. SUFFICES ASSUME NEW d \in Strays, \A c \in Strays : d <= c PROVE FALSE
  <2>1. Strays \subseteq Nat
    BY <1>1
  <2>2. SUFFICES Strays = {}
    OBVIOUS
  <2> HIDE DEF Strays
  <2> QED
    BY <1>2, <2>1, LeastNat
<1>3. d \in 0..LineageDepth /\ d \in Nat
  BY <1>1
<1>4. Lineage(e)[d] = IF d = 0 THEN {merged[e]} ELSE Before(e, Lineage(e)[d - 1])
  <2> DEFINE W == Lineage(e)
  <2>1. W = [depth \in 0..LineageDepth |->
               IF depth = 0 THEN {merged[e]} ELSE Before(e, W[depth - 1])]
    BY LineageUnrolls, Zenon
  <2> HIDE DEF W
  <2>2. W[d] = IF d = 0 THEN {merged[e]} ELSE Before(e, W[d - 1])
    BY <1>3, <2>1
  <2> QED
    BY <2>2 DEF W
<1>5. CASE d = 0
  <2>1. Lineage(e)[d] = {Node(e, k + 1 - d)} /\ d <= k
    BY <1>4, <1>5, ChainFacts
  <2> QED
    BY <2>1
<1>6. CASE d # 0
  <2>1. d - 1 \in 0..LineageDepth /\ d - 1 \in Nat
    BY <1>1, <1>3, <1>6
  <2>2. d - 1 \notin Strays
    <3> HIDE DEF Strays
    <3> QED
      BY <1>2, <1>3, <2>1
  <2>3. Lineage(e)[d - 1] = IF d - 1 <= k THEN {Node(e, k + 1 - (d - 1))} ELSE {}
    BY <2>1, <2>2
  <2>4. CASE d - 1 <= k
    <3>1. k + 1 - (d - 1) \in 1..(k + 1) /\ (k + 1 - (d - 1)) - 1 = k + 1 - d
      BY <1>3, <1>6, <2>1, <2>4
    <3>2. Lineage(e)[d] = Before(e, {Node(e, k + 1 - (d - 1))})
      BY <1>4, <1>6, <2>3, <2>4
    <3>3. Lineage(e)[d] = IF k + 1 - (d - 1) = 1 THEN {} ELSE {Node(e, (k + 1 - (d - 1)) - 1)}
      BY <3>1, <3>2, OneStepBack
    <3>4. k + 1 - (d - 1) = 1 <=> ~(d <= k)
      BY <1>3, <2>4
    <3> QED
      BY <3>1, <3>3, <3>4
  <2>5. CASE ~(d - 1 <= k)
    <3>1. Lineage(e)[d] = {} /\ ~(d <= k)
      BY <1>3, <1>4, <1>6, <2>3, <2>5 DEF Before
    <3> QED
      BY <3>1
  <2> QED
    BY <2>4, <2>5
<1> QED
  BY <1>5, <1>6

LEMMA LineageEndsAtVerdict ==
  ASSUME PathInv, NEW e \in Entities, merged[e] # None, Acyclic(e),
         Len(trail[e]) <= LineageDepth
  PROVE  DecidedWith(e) = {judged[e]} /\ judged[e] \in Entities /\ judged[e] # e
<1>1. PICK k \in Nat : k = Len(trail[e])
  BY PathFacts
<1>2. LineageDepth \in Nat /\ k \in 0..LineageDepth
  BY <1>1, EntityGraphAssumption DEF EntityGraphAssumption
<1> DEFINE W == Lineage(e)
           Ends(d) == W[d] # {} /\ (d < LineageDepth => W[d + 1] = {})
<1>3. ASSUME NEW d \in 0..LineageDepth
      PROVE  (d <= k => W[d] = {Node(e, k + 1 - d)}) /\ (~(d <= k) => W[d] = {})
  BY <1>1, LineageRuns
<1>4. DecidedWith(e) = W[CHOOSE d \in 0..LineageDepth : Ends(d)]
  BY DEF DecidedWith
<1> HIDE DEF W
<1>5. Ends(k)
  <2>1. W[k] = {Node(e, k + 1 - k)}
    BY <1>2, <1>3
  <2>2. ASSUME k < LineageDepth PROVE W[k + 1] = {}
    <3>1. k + 1 \in 0..LineageDepth /\ ~(k + 1 <= k)
      BY <1>2, <2>2
    <3> QED
      BY <1>3, <3>1
  <2> QED
    BY <2>1, <2>2
<1>6. ASSUME NEW d \in 0..LineageDepth, Ends(d) PROVE d = k
  <2>1. d <= k
    BY <1>2, <1>3, <1>6
  <2>2. CASE d < k
    <3>1. d + 1 \in 0..LineageDepth /\ d + 1 <= k /\ d < LineageDepth
      BY <1>2, <2>2
    <3>2. W[d + 1] # {}
      BY <1>3, <3>1
    <3> QED
      BY <1>6, <3>1, <3>2
  <2> QED
    BY <1>2, <2>1, <2>2
<1>7. DecidedWith(e) = {Node(e, 1)}
  <2>1. W[k] = {Node(e, 1)}
    <3>1. k <= k /\ k + 1 - k = 1
      OBVIOUS
    <3> QED
      BY <1>2, <1>3, <3>1
  <2> HIDE DEF Ends
  <2>2. (CHOOSE d \in 0..LineageDepth : Ends(d)) = k
    BY <1>2, <1>5, <1>6
  <2> QED
    BY <1>4, <2>1, <2>2
<1>8. judged[e] = Node(e, 1) /\ judged[e] # e
  BY <1>1, PathFacts DEF RowInv, JudgedFirst, Node
<1>9. Node(e, 1) \in Entities
  BY <1>1, ChainFacts
<1> QED
  BY <1>7, <1>8, <1>9

\* Unmerging an entity reopens the very verdict its merge was made on, however often
\* path compression has carried its pointer on since: the walk back over the moves
\* ends at the entity it was merged into by name, if no unmerged row is merged again,
\* the moves run in no cycle, and the pointer was carried no further than the walk goes.
THEOREM UnmergeReopens ==
  ASSUME AllowRemerge = FALSE
  PROVE  Spec => UnmergeReopensItsVerdict
<1>1. ASSUME PathInv, NEW e \in Entities, Unmerge(e), Acyclic(e),
             Len(trail[e]) <= LineageDepth
      PROVE  cand'[{e, judged[e]}] # "merged"
  <2>1. merged[e] # None
    BY <1>1 DEF Unmerge
  <2>2. /\ DecidedWith(e) = {judged[e]} /\ {e, judged[e]} \in Pairs
    BY <1>1, <2>1, LineageEndsAtVerdict, PairOf
  <2>3. cand' = [cand EXCEPT ![{e, judged[e]}] = IF @ = "merged" THEN "pending" ELSE @]
    BY <1>1, <2>2 DEF Unmerge
  <2> QED
    BY <1>1, <2>2, <2>3 DEF PathInv, FlatInv, TypeOK, QueueTyped
<1>2. PathInv /\ [Next]_vars =>
        [\A e \in Entities :
           /\ merged[e] # None /\ merged'[e] = None
           /\ Acyclic(e) /\ Len(trail[e]) <= LineageDepth
           => cand'[{e, judged[e]}] # "merged"]_vars
  BY <1>1, OnlyUnmergeClears DEF PathInv
<1> QED
  BY <1>2, PathHolds, PTL DEF Spec, UnmergeReopensItsVerdict

=============================================================================
