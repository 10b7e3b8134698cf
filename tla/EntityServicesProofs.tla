------------------------- MODULE EntityServicesProofs -------------------------
(***************************************************************************)
(* Proofs about what is built on EntityGraph.                              *)
(*                                                                         *)
(* First NameMatching, Aliases and DedupBatch, for any names, any          *)
(* similarity and any number of runs: the scorers agree on what to merge,  *)
(* the gate leaves no bridge, a verdict of "keep separate" is final, the   *)
(* graph stays flat with the batch beside everything else, a survivor      *)
(* answers to every name of its tombstones, and a skipped merge comes up   *)
(* again.                                                                  *)
(*                                                                         *)
(* Then EntityReads, for any entities, experiences, forms and claims, with *)
(* or without AllowRemerge: the counts of the review surfaces, what a      *)
(* split does to the rows it moves, and that the walk of relationships_to  *)
(* answers for the graph of clusters.                                      *)
(***************************************************************************)
EXTENDS DedupBatch, EntityReads, EntityGraphProofs

-----------------------------------------------------------------------------
(***************************************************************************)
(* The scorers.                                                            *)
(***************************************************************************)
\* The weight of a pair of full names clears the bar only as a spelling variant
\* with nothing against it, which is when the default scorer compares it at all.
LEMMA HeavyPairs ==
  ASSUME NEW n, NEW m
  PROVE  PairWeight(n, m) >= MergeBar <=>
           /\ Suffix(n) = Suffix(m) /\ Digits(Core(n)) = Digits(Core(m))
           /\ Len(Core(n)) = Len(Core(m)) /\ Core(n) # Core(m)
           /\ JaroWinkler(Core(n), Core(m)) = "hi"
<1>1. NameLevel(Core(n), Core(m)) \in {90, 14, 0, -20, -40}
  BY DEF NameLevel, Weights
<1>2. NameLevel(Core(n), Core(m)) = 90 <=>
        /\ Len(Core(n)) = Len(Core(m)) /\ Core(n) # Core(m)
        /\ JaroWinkler(Core(n), Core(m)) = "hi"
  BY DEF NameLevel, Weights
<1> DEFINE d == IF Digits(Core(n)) = Digits(Core(m)) THEN 0 ELSE Veto
           s == IF Suffix(n) = Suffix(m) THEN 0 ELSE Veto
<1>3. d \in {0, -200} /\ s \in {0, -200} /\ PairWeight(n, m) = NameLevel(Core(n), Core(m)) + d + s
  BY DEF Veto, PairWeight
<1>4. PairWeight(n, m) >= MergeBar <=> NameLevel(Core(n), Core(m)) = 90 /\ d = 0 /\ s = 0
  <2> HIDE DEF d, s
  <2> QED
    BY <1>1, <1>3 DEF MergeBar
<1> QED
  BY <1>2, <1>4 DEF Veto

\* The default scorer and the Fellegi-Sunter one name the same merges, for any
\* two sets of names of any kind: swapping the scorer changes the queue only.
THEOREM MergesAlike ==
  ASSUME NEW kind, NEW S, NEW T
  PROVE  MatchScore(kind, S, T) = "merge" <=> MatchProbability(kind, S, T) = "merge"
<1> DEFINE F == NameForms(S)
           G == NameForms(T)
           W == Evidence(kind, S, T)
<1>0. MatchProbability(kind, S, T) = "merge" <=> \E w \in W : w >= MergeBar
  BY DEF MatchProbability
<1>1. CASE F = {} \/ G = {}
  <2>1. W = {-80}
    BY <1>1 DEF Evidence, Weights
  <2> QED
    BY <1>0, <1>1, <2>1 DEF MatchScore, MergeBar
<1>2. CASE F # {} /\ G # {} /\ kind # "person"
  <2>1. W = IF S \cap T # {} THEN {90} ELSE IF F \cap G # {} THEN {24} ELSE {-80}
    BY <1>2 DEF Evidence, Weights
  <2>2. (\E w \in W : w >= MergeBar) <=> S \cap T # {}
    BY <2>1 DEF MergeBar
  <2> QED
    BY <1>0, <1>2, <2>2 DEF MatchScore
<1>3. CASE F # {} /\ G # {} /\ kind = "person"
  <2>1. CASE Abbreviated(F, G)
    <3>1. W = {24}
      BY <1>3, <2>1 DEF Evidence, Weights
    <3> QED
      BY <1>0, <1>3, <2>1, <3>1 DEF MatchScore, PersonScore, MergeBar
  <2>2. CASE ~Abbreviated(F, G)
    <3>1. W = {PairWeight(p[1], p[2]) : p \in {q \in F \X G : Full(q[1]) /\ Full(q[2])}}
      BY <1>3, <2>2 DEF Evidence
    <3>2. (\E w \in W : w >= MergeBar) <=>
            \E n \in F, m \in G : Full(n) /\ Full(m) /\ PairWeight(n, m) >= MergeBar
      <4> HIDE DEF W, F, G
      <4>1. ASSUME NEW w \in W, w >= MergeBar
            PROVE \E n \in F, m \in G : Full(n) /\ Full(m) /\ PairWeight(n, m) >= MergeBar
        BY <3>1, <4>1
      <4>2. ASSUME NEW n \in F, NEW m \in G, Full(n), Full(m), PairWeight(n, m) >= MergeBar
            PROVE \E w \in W : w >= MergeBar
        <5>1. <<n, m>> \in {q \in F \X G : Full(q[1]) /\ Full(q[2])}
          BY <4>2
        <5> QED
          BY <3>1, <4>2, <5>1
      <4> QED
        BY <4>1, <4>2
    <3>3. (\E w \in W : w >= MergeBar) <=> Reaches(F, G, {"hi"})
      BY <3>2, HeavyPairs DEF Reaches, Comparable
    <3>4. MatchScore(kind, S, T) = "merge" <=> Reaches(F, G, {"hi"})
      BY <1>3, <2>2 DEF MatchScore, PersonScore
    <3> QED
      BY <1>0, <3>3, <3>4
  <2> QED
    BY <2>1, <2>2
<1> QED
  BY <1>1, <1>2, <1>3

-----------------------------------------------------------------------------
(***************************************************************************)
(* Steps of the composition are steps of the graph, the queue's apart.     *)
(***************************************************************************)
LEMMA OthersMoveTheGraph == AliasNext => [Next]_vars
<1> SUFFICES ASSUME AliasNext PROVE [Next]_vars
  OBVIOUS
<1>1. CASE Naming
  BY <1>1 DEF Naming, CreateNamed, MergeNamed, AutoMergeNamed, ConfirmNamed, ConfirmBinding,
              ResolveSurface, AppendAlias, Next
<1>2. CASE Nameless
  BY <1>2 DEF Nameless, Next
<1> QED
  BY <1>1, <1>2 DEF AliasNext

LEMMA BatchMovesTheGraph == [DedupNext]_everything => [Next]_vars \/ ApplyQueue
<1> SUFFICES ASSUME [DedupNext]_everything PROVE [Next]_vars \/ ApplyQueue
  OBVIOUS
<1>1. ASSUME NEW l \in Entities, NEW w \in Entities, ApplyMerge(l, w)
      PROVE [Next]_vars
  BY <1>1 DEF ApplyMerge, MergeNamed, Next, allVars
<1>2. CASE (\E scorer \in Scorers : BatchPlan(scorer)) \/ DropHeldPairs \/ StopBatch \/ UNCHANGED everything
  BY <1>2 DEF BatchPlan, DropHeldPairs, StopBatch, everything, allVars
<1>3. CASE Others
  BY <1>3, OthersMoveTheGraph DEF Others
<1> QED
  BY <1>1, <1>2, <1>3 DEF DedupNext, Batch

LEMMA QueueKeepsTypes == ASSUME TypeOK, ApplyQueue PROVE TypeOK'
<1>1. cand' \in [Pairs -> Verdicts]
  BY DEF ApplyQueue, QueueRow, TypeOK, QueueTyped, Verdicts
<1> QED
  BY <1>1 DEF ApplyQueue, TypeOK, GraphTyped, QueueTyped, HistoryTyped

LEMMA FlatBatchStep == FlatInv /\ [DedupNext]_everything => FlatInv'
<1>1. ASSUME FlatInv, ApplyQueue PROVE FlatInv'
  BY <1>1, QueueKeepsTypes DEF ApplyQueue, FlatInv, MergedExist, MovesWithinKind, OneHop, Live
<1> QED
  BY <1>1, FlatStep, BatchMovesTheGraph

\* merged_into stays one hop deep when the batch, the resolver and the members
\* work on the same graph.
THEOREM OneHopUnderBatch == DedupSpec => []OneHop
<1>1. BatchInit => FlatInv
  BY FlatInit DEF BatchInit, AInit
<1>2. FlatInv => OneHop
  BY DEF FlatInv
<1> QED
  BY <1>1, <1>2, FlatBatchStep, PTL DEF DedupSpec

-----------------------------------------------------------------------------
(***************************************************************************)
(* Types of the composition.                                               *)
(***************************************************************************)
LEMMA SurfacesTyped ==
  ASSUME AliasesTyped, NEW e \in Entities
  PROVE  Surfaces(e) \subseteq Surface
BY AliasesAssumption DEF AliasesAssumption, AliasesTyped, Surfaces

LEMMA AliasesNaming == ASSUME TypeOK, AliasesTyped, Naming PROVE AliasesTyped'
<1> USE AliasesAssumption DEF AliasesAssumption, AliasesTyped
<1>1. ASSUME NEW e \in Entities, CreateNamed(e) PROVE AliasesTyped'
  BY <1>1 DEF CreateNamed
<1>2. ASSUME NEW l \in Entities, NEW w \in Entities, TakeNames(l, w)
      PROVE aliases' \in [Entities -> SUBSET Surface]
  BY <1>2, SurfacesTyped DEF TakeNames
<1>3. ASSUME NEW l \in Entities, NEW w \in Entities, MergeNamed(l, w) PROVE AliasesTyped'
  BY <1>2, <1>3 DEF MergeNamed
<1>4. ASSUME NEW e \in Entities, NEW f \in Entities, AutoMergeNamed(e, f) PROVE AliasesTyped'
  BY <1>4 DEF AutoMergeNamed
<1>5. ASSUME NEW r \in Reviewers, ConfirmNamed(r) PROVE AliasesTyped'
  <2>1. confirm[r].loser \in Entities /\ confirm[r].winner \in Entities
    BY <1>5 DEF ConfirmNamed, ConfirmMerge, TypeOK, QueueTyped, Confirmation
  <2> QED
    BY <1>2, <1>5, <2>1 DEF ConfirmNamed
<1>6. ASSUME NEW s \in Surface, NEW e \in Entities,
             ConfirmBinding(s, e) \/ \E c \in Captures : ResolveSurface(c, s, e)
      PROVE AliasesTyped'
  BY <1>6 DEF ConfirmBinding, ResolveSurface, CountAppend, Match
<1>7. ASSUME NEW c \in Captures, AppendAlias(c) PROVE AliasesTyped'
  BY <1>7 DEF AppendAlias, Match
<1> QED
  BY <1>1, <1>3, <1>4, <1>5, <1>6, <1>7 DEF Naming

LEMMA AliasesStep ==
  ASSUME TypeOK, AliasesTyped, [DedupNext]_everything PROVE AliasesTyped'
<1>1. CASE Naming
  BY <1>1, AliasesNaming
<1>2. CASE UNCHANGED aliasVars
  BY <1>2 DEF AliasesTyped, aliasVars
<1>3. ASSUME NEW l \in Entities, NEW w \in Entities, ApplyMerge(l, w)
      PROVE Naming \/ UNCHANGED aliasVars
  BY <1>3 DEF ApplyMerge, Naming, allVars
<1> QED
  BY <1>1, <1>2, <1>3
  DEF DedupNext, Batch, Others, AliasNext, Nameless, BatchPlan, DropHeldPairs, ApplyQueue,
      StopBatch, everything, allVars

LEMMA BatchTypesInit == BatchInit => BatchTyped
<1> SUFFICES ASSUME BatchInit PROVE BatchTyped
  OBVIOUS
<1>1. runs \in 0..MaxRuns
  BY DedupAssumption DEF DedupAssumption, BatchInit
<1>2. phase \in {"idle", "planned", "applying"} /\ gated \in BOOLEAN
  BY DEF BatchInit
<1>3. claimed = {} /\ todo = {} /\ queue = {} /\ joined = {} /\ skipped = {}
  BY DEF BatchInit
<1> QED
  BY <1>1, <1>2, <1>3 DEF BatchTyped

LEMMA BatchTypesStep == ASSUME BatchTyped, [DedupNext]_everything PROVE BatchTyped'
<1> USE DEF BatchTyped
<1>1. ASSUME NEW scorer \in Scorers, BatchPlan(scorer) PROVE BatchTyped'
  <2>1. /\ claimed' \subseteq Pairs
        /\ todo' \subseteq {o \in Entities \X Entities : {o[1], o[2]} \in Pairs}
        /\ queue' \subseteq Pairs
    <3>1. \A blocked \in Blockings : blocked \subseteq Pairs
      BY DEF Blockings, SameKindPairs
    <3>2. \A X : \A kept \in Capped(X) : kept \subseteq X
      BY DEF Capped
    <3> QED
      BY <1>1, <3>1, <3>2 DEF BatchPlan, Plan
  <2>2. todo' \subseteq {o \in Entities \X Entities : o[1] # o[2]}
    BY <2>1 DEF Pairs
  <2> QED
    BY <1>1, <2>1, <2>2, DedupAssumption DEF BatchPlan, DedupAssumption
<1>2. CASE DropHeldPairs
  <2>1. HeldPairs \subseteq Pairs
    BY DEF HeldPairs
  <2> QED
    BY <1>2, <2>1 DEF DropHeldPairs
<1>3. ASSUME NEW l \in Entities, NEW w \in Entities, ApplyMerge(l, w) PROVE BatchTyped'
  <2>1. l # w
    BY <1>3 DEF ApplyMerge
  <2>2. {l, w} \in Pairs
    BY <2>1, PairOf
  <2>3. skipped' \subseteq Pairs
    <3>1. skipped' = skipped \/ skipped' = skipped \cup {{l, w}}
      BY <1>3 DEF ApplyMerge
    <3> QED
      BY <3>1, <2>2
  <2>4. \/ joined' = joined
        \/ joined' = joined \cup ({{e, f} : e \in With(l), f \in With(w)} \cap Pairs)
    BY <1>3 DEF ApplyMerge
  <2>5. joined' \subseteq Pairs
    <3> DEFINE new == {{e, f} : e \in With(l), f \in With(w)}
    <3> HIDE DEF new
    <3>1. joined' = joined \/ joined' = joined \cup (new \cap Pairs)
      BY <2>4 DEF new
    <3> QED
      BY <3>1
  <2> QED
    BY <1>3, <2>3, <2>5 DEF ApplyMerge
<1>4. CASE ApplyQueue \/ StopBatch
  BY <1>4 DEF ApplyQueue, StopBatch, EndRun
<1>5. CASE UNCHANGED planVars
  BY <1>5 DEF planVars
<1> QED
  BY <1>1, <1>2, <1>3, <1>4, <1>5 DEF DedupNext, Batch, Others, everything

\* Everything the batch, the captures and the members write is well typed.
THEOREM DedupTypeCorrect == DedupSpec => []DedupTypeOK
<1>1. BatchInit => DedupTypeOK
  <2> SUFFICES ASSUME BatchInit PROVE DedupTypeOK
    OBVIOUS
  <2>1. TypeOK
    BY TypeInit DEF BatchInit, AInit
  <2>2. AliasesTyped
    BY AliasesAssumption DEF AliasesAssumption, BatchInit, AInit, AliasesTyped
  <2>3. BatchTyped
    BY BatchTypesInit
  <2> QED
    BY <2>1, <2>2, <2>3 DEF DedupTypeOK
<1>2. DedupTypeOK /\ [DedupNext]_everything => DedupTypeOK'
  <2> SUFFICES ASSUME DedupTypeOK, [DedupNext]_everything PROVE DedupTypeOK'
    OBVIOUS
  <2>1. TypeOK'
    BY TypeStep, QueueKeepsTypes, BatchMovesTheGraph DEF DedupTypeOK
  <2> QED
    BY <2>1, AliasesStep, BatchTypesStep DEF DedupTypeOK
<1> QED
  BY <1>1, <1>2, PTL DEF DedupSpec

-----------------------------------------------------------------------------
(***************************************************************************)
(* The contested-merge gate.                                               *)
(***************************************************************************)
LEMMA PartnerOf ==
  ASSUME NEW pairs \in SUBSET Pairs, NEW e \in Entities, NEW f \in Partners(pairs, e)
  PROVE  f # e /\ {e, f} \in pairs
<1>1. PICK p \in pairs : e \in p /\ f \in p \ {e}
  BY DEF Partners
<1>2. p = {e, f}
  BY <1>1 DEF Pairs
<1> QED
  BY <1>1, <1>2

LEMMA UncontestedPartnersPair ==
  ASSUME NEW pairs, NEW e, e \notin Contested(pairs),
         NEW x, NEW y, {e, x} \in pairs, {e, y} \in pairs, x # e, y # e, x # y
  PROVE  {x, y} \in pairs
<1>1. x \in Partners(pairs, e) /\ y \in Partners(pairs, e)
  BY DEF Partners
<1>2. e \in UNION pairs
  OBVIOUS
<1> QED
  BY <1>1, <1>2 DEF Contested

\* Everything still to be executed is uncontested among the pairs that were scored,
\* and a run starts with nothing joined.
SafeToDo ==
  \A o \in todo : /\ {o[1], o[2]} \in claimed
                  /\ o[1] \notin Contested(claimed) /\ o[2] \notin Contested(claimed)
GateInv ==
  /\ BatchTyped
  /\ phase \in {"idle", "planned"} => joined = {}
  /\ phase = "idle" => ~gated
  /\ gated => joined \subseteq claimed /\ SafeToDo

LEMMA MergeKeepsGate ==
  ASSUME GateInv, gated, NEW l \in Entities, NEW w \in Entities, l # w, <<l, w>> \in todo,
         NEW e \in With(l), NEW f \in With(w), e # f
  PROVE  {e, f} \in claimed
<1>1. {l, w} \in claimed /\ l \notin Contested(claimed) /\ w \notin Contested(claimed)
  BY DEF GateInv, SafeToDo
<1>2. joined \in SUBSET Pairs /\ joined \subseteq claimed
  BY DEF GateInv, BatchTyped
<1>3. e = l \/ (e # l /\ {l, e} \in claimed)
  BY <1>2, PartnerOf DEF With
<1>4. f = w \/ (f # w /\ {w, f} \in claimed)
  BY <1>2, PartnerOf DEF With
<1>5. e = w \/ {w, e} \in claimed
  <2>1. CASE e = l
    <3>1. {w, l} = {l, w}
      OBVIOUS
    <3> QED
      BY <1>1, <2>1, <3>1
  <2>2. CASE e # l /\ e # w
    <3>1. {w, e} \in claimed
      BY <1>1, <1>3, <2>2, UncontestedPartnersPair
    <3> QED
      BY <3>1
  <2> QED
    BY <2>1, <2>2
<1>6. CASE e = w
  BY <1>4, <1>6
<1>7. CASE f = w
  <2>1. {w, e} = {e, w}
    OBVIOUS
  <2> QED
    BY <1>5, <1>7, <2>1
<1>8. CASE e # w /\ f # w
  BY <1>1, <1>4, <1>5, <1>8, UncontestedPartnersPair
<1> QED
  BY <1>6, <1>7, <1>8

LEMMA GateStep == GateInv /\ [DedupNext]_everything => GateInv'
<1> SUFFICES ASSUME GateInv, [DedupNext]_everything PROVE GateInv'
  OBVIOUS
<1>0. BatchTyped'
  BY BatchTypesStep DEF GateInv
<1>1. ASSUME NEW scorer \in Scorers, BatchPlan(scorer) PROVE GateInv'
  <2>1. joined' = {} /\ phase' = "planned"
    BY <1>1 DEF BatchPlan, GateInv
  <2>2. gated' => SafeToDo'
    BY <1>1 DEF BatchPlan, Plan, SafeToDo
  <2> QED
    BY <1>0, <2>1, <2>2 DEF GateInv
<1>2. CASE DropHeldPairs
  BY <1>0, <1>2 DEF DropHeldPairs, GateInv, SafeToDo
<1>3. ASSUME NEW l \in Entities, NEW w \in Entities, ApplyMerge(l, w) PROVE GateInv'
  <2> DEFINE new == {{e, f} : e \in With(l), f \in With(w)} \cap Pairs
  <2>1. l # w /\ <<l, w>> \in todo
    BY <1>3 DEF ApplyMerge, GateInv, BatchTyped
  <2>2. UNCHANGED <<phase, gated, claimed>> /\ todo' \subseteq todo /\ phase = "applying"
    BY <1>3 DEF ApplyMerge
  <2>3. joined' = joined \/ joined' = joined \cup new
    BY <1>3 DEF ApplyMerge
  <2>4. gated => new \subseteq claimed
    <3> SUFFICES ASSUME gated, NEW e \in With(l), NEW f \in With(w), {e, f} \in Pairs
                 PROVE  {e, f} \in claimed
      OBVIOUS
    <3>1. e # f
      BY DEF Pairs
    <3> QED
      BY <2>1, <3>1, MergeKeepsGate
  <2>5. gated => joined' \subseteq claimed
    <3> HIDE DEF new
    <3> QED
      BY <2>3, <2>4 DEF GateInv
  <2>6. gated' => SafeToDo'
    BY <2>2 DEF GateInv, SafeToDo
  <2> QED
    BY <1>0, <2>2, <2>5, <2>6 DEF GateInv
<1>4. CASE ApplyQueue \/ StopBatch
  BY <1>0, <1>4 DEF ApplyQueue, StopBatch, EndRun, GateInv
<1>5. CASE UNCHANGED planVars
  BY <1>0, <1>5 DEF planVars, GateInv, SafeToDo
<1> QED
  BY <1>1, <1>2, <1>3, <1>4, <1>5 DEF DedupNext, Batch, Others, everything

\* With the gate a run brings two entities together only when they themselves scored
\* at the merge bar: whatever the thresholds, the blocking, the order of the merges
\* and the refusals, no merge bridges two strangers.
THEOREM GateHolds == DedupSpec => []GateLeavesNoBridge
<1>1. BatchInit => GateInv
  BY BatchTypesInit DEF BatchInit, GateInv
<1>2. GateInv => GateLeavesNoBridge
  BY DEF GateInv, GateLeavesNoBridge
<1> QED
  BY <1>1, <1>2, GateStep, PTL DEF DedupSpec

-----------------------------------------------------------------------------
(***************************************************************************)
(* A reviewer's refusal.                                                   *)
(***************************************************************************)
\* A row of the queue, and a pair about to be queued, is about entities that exist.
RowsExist == \A p \in Pairs : cand[p] # "none" => p \subseteq exists
QueuedExist == \A p \in queue : p \subseteq exists
RowsInv == TypeOK /\ RowsExist /\ QueuedExist

\* A verdict changes only on a pair that exists and was not kept separate.
VerdictMoves ==
  \A p \in Pairs : cand'[p] # cand[p] => cand[p] # "kept_separate" /\ p \subseteq exists'

LEMMA GraphVerdicts == ASSUME TypeOK, RowsExist, [Next]_vars PROVE VerdictMoves
<1> USE DEF TypeOK, QueueTyped, VerdictMoves
<1>1. ASSUME NEW e \in Entities, Create(e) PROVE VerdictMoves
  BY <1>1 DEF Create
<1>2. ASSUME NEW e \in Entities, Unmerge(e) PROVE VerdictMoves
  <2>1. PICK p \in DecidedWith(e) :
          cand' = [cand EXCEPT ![{e, p}] =
                     IF cand[{e, p}] = "merged" THEN "pending" ELSE cand[{e, p}]]
    BY <1>2 DEF Unmerge
  <2> QED
    BY <1>2, <2>1 DEF Unmerge, RowsExist
<1>3. ASSUME NEW a \in Entities, NEW b \in Entities, QueueCandidate(a, b) PROVE VerdictMoves
  BY <1>3 DEF QueueCandidate
<1>4. ASSUME NEW l \in Entities, NEW w \in Entities, Merge(l, w), exists \subseteq exists'
      PROVE VerdictMoves
  BY <1>4 DEF Merge, Stamp, RowsExist
<1>5. ASSUME NEW a \in Entities, NEW b \in Entities, AutoMerge(a, b) PROVE VerdictMoves
  <2>1. {a, b} \in Pairs => cand[{a, b}] = "none"
    BY <1>5 DEF AutoMerge, RowsExist
  <2>2. exists' = exists \cup {a} /\ b \in exists
    BY <1>5 DEF AutoMerge, Live
  <2> QED
    BY <1>5, <2>1, <2>2 DEF AutoMerge
<1>6. ASSUME NEW a \in Entities, NEW b \in Entities, Reject(a, b) PROVE VerdictMoves
  BY <1>6 DEF Reject, RowsExist
<1>7. ASSUME NEW r \in Reviewers, ConfirmMerge(r) PROVE VerdictMoves
  <2>1. confirm[r].loser \in Entities /\ confirm[r].winner \in Entities
    BY <1>7 DEF ConfirmMerge, Confirmation
  <2>2. CASE UNCHANGED cand
    BY <2>2
  <2> QED
    BY <1>4, <1>7, <2>1, <2>2 DEF ConfirmMerge
<1>8. CASE UNCHANGED cand
  BY <1>8
<1> QED
  BY <1>1, <1>2, <1>3, <1>4, <1>5, <1>6, <1>7, <1>8 DEF Next, MergeEntities, ConfirmRead, vars

LEMMA VerdictStep ==
  ASSUME TypeOK, RowsExist, QueuedExist, [DedupNext]_everything PROVE VerdictMoves
<1>1. CASE ApplyQueue
  BY <1>1 DEF ApplyQueue, QueueRow, VerdictMoves, TypeOK, QueueTyped, QueuedExist
<1> QED
  BY <1>1, GraphVerdicts, BatchMovesTheGraph

LEMMA CandidateRowsStep == RowsInv /\ [DedupNext]_everything => RowsInv'
<1> SUFFICES ASSUME RowsInv, [DedupNext]_everything PROVE RowsInv'
  OBVIOUS
<1>1. TypeOK'
  BY TypeStep, QueueKeepsTypes, BatchMovesTheGraph DEF RowsInv
<1>2. exists \subseteq exists'
  <2>1. CASE [Next]_vars
    BY <2>1 DEF Next, Create, Unmerge, QueueCandidate, MergeEntities, AutoMerge, Reject,
                ConfirmMerge, ConfirmRead, vars
  <2> QED
    BY <2>1, BatchMovesTheGraph DEF ApplyQueue
<1>3. RowsExist'
  BY <1>2, VerdictStep DEF RowsInv, RowsExist, VerdictMoves
<1>4. QueuedExist'
  <2>1. ASSUME NEW scorer \in Scorers, BatchPlan(scorer) PROVE QueuedExist'
    <3>1. \A p \in SameKindPairs : p \subseteq exists
      BY DEF SameKindPairs, Live
    <3>2. \A blocked \in Blockings : blocked \subseteq SameKindPairs
      BY DEF Blockings
    <3>3. \A X : \A kept \in Capped(X) : kept \subseteq X
      BY DEF Capped
    <3>4. queue' \subseteq SameKindPairs
      BY <2>1, <3>2, <3>3 DEF BatchPlan, Plan
    <3> QED
      BY <1>2, <3>1, <3>4 DEF QueuedExist
  <2>2. ASSUME NEW l \in Entities, NEW w \in Entities, ApplyMerge(l, w) PROVE queue' = queue
    BY <2>2 DEF ApplyMerge
  <2>3. CASE queue' = queue \/ queue' = {}
    BY <1>2, <2>3 DEF RowsInv, QueuedExist
  <2> QED
    BY <2>1, <2>2, <2>3 DEF DedupNext, Batch, Others, DropHeldPairs, ApplyQueue, StopBatch,
                            EndRun, everything, planVars
<1> QED
  BY <1>1, <1>3, <1>4 DEF RowsInv

\* A pair a reviewer kept separate stays so, whatever the batch queues, merges and
\* finds merged, whatever the resolver mints and whichever entities are unmerged.
THEOREM KeptSeparateStays == DedupSpec => KeptSeparateIsFinal
<1>1. BatchInit => RowsInv
  BY TypeInit DEF BatchInit, AInit, RowsInv, RowsExist, QueuedExist, Init
<1>2. RowsInv /\ [DedupNext]_everything =>
        [\A p \in Pairs : cand[p] = "kept_separate" => cand'[p] = "kept_separate"]_everything
  BY VerdictStep DEF RowsInv, VerdictMoves
<1> QED
  BY <1>1, <1>2, CandidateRowsStep, PTL DEF DedupSpec, KeptSeparateIsFinal

\* Whatever aliases the entities of a run have by then, the two scorers ask for the
\* same merges.
THEOREM ScorersAgree == DedupSpec => []ScorersMergeAlike
<1>1. ScorersMergeAlike
  BY MergesAlike DEF ScorersMergeAlike
<1> QED
  BY <1>1, PTL

-----------------------------------------------------------------------------
(***************************************************************************)
(* Names.  A survivor answers to what its tombstones are called because    *)
(* names are never taken away, tombstones gain only strays, and an unmerge *)
(* hands a row back to an entity that carried its names when it was moved  *)
(* past it.  The last needs that an unmerged row is not merged again: an   *)
(* old move would hand it back with names it got in between.               *)
(***************************************************************************)
Kept(e, f) == Surfaces(e) \ Strayed(e) \subseteq Surfaces(f)

MovesCarriedNames ==
  \A m \in moves : /\ m.via \in exists
                   /\ merged[m.target] # None \/ m.target \in detached
                   /\ merged[m.target] # None => Kept(m.target, m.via)

NameInv ==
  /\ FlatInv /\ AliasesTyped
  /\ DetachedStand /\ MovesCarriedNames /\ SurvivorsAnswerToEveryName

\* What every step does to the names.
Growth ==
  /\ strays \subseteq strays'
  /\ \A e \in exists : Surfaces(e) \subseteq Surfaces(e)'
  /\ \A e \in Entities : merged[e] # None => (Surfaces(e) \ Strayed(e))' \subseteq Surfaces(e)

LEMMA KeptStays ==
  ASSUME Growth, NEW e \in Entities, merged[e] # None, NEW f \in exists, Kept(e, f)
  PROVE  Kept(e, f)'
<1>1. Strayed(e) \subseteq Strayed(e)'
  BY DEF Growth, Strayed
<1> QED
  BY <1>1 DEF Growth, Kept

LEMMA TakenNames ==
  ASSUME AliasesTyped, NEW l \in Entities, NEW w \in Entities, TakeNames(l, w)
  PROVE  /\ \A e \in Entities : Surfaces(e) \subseteq Surfaces(e)'
         /\ \A e \in Entities \ {w} : Surfaces(e)' = Surfaces(e)
         /\ Surfaces(l) \subseteq Surfaces(w)'
<1>1. \A e \in Entities : aliases'[e] =
        IF e = w THEN (aliases[w] \cup Surfaces(l)) \ {Name[w]} ELSE aliases[e]
  BY DEF TakeNames, AliasesTyped
<1>2. \A e \in Entities : Surfaces(e)' = {Name[e]} \cup aliases'[e]
  BY DEF Surfaces
<1> QED
  BY <1>1, <1>2 DEF Surfaces

LEMMA NamingGrows == ASSUME FlatInv, AliasesTyped, Naming PROVE Growth
<1>0. MergedExist /\ exists \subseteq Entities
  BY DEF FlatInv, TypeOK, GraphTyped
<1>1. ASSUME NEW l \in Entities, NEW w \in Entities, TakeNames(l, w), Live(w),
             UNCHANGED strays
      PROVE  Growth
  BY <1>0, <1>1, TakenNames DEF Growth, Live
<1>2. ASSUME UNCHANGED <<aliases, strays>> PROVE Growth
  BY <1>2 DEF Growth, Surfaces
<1>3. ASSUME NEW e \in Entities, CreateNamed(e) PROVE Growth
  <2>1. e \notin exists /\ merged[e] = None /\ UNCHANGED strays
    BY <1>0, <1>3 DEF CreateNamed, Create, MergedExist
  <2>2. \A d \in Entities \ {e} : aliases'[d] = aliases[d]
    BY <1>3 DEF CreateNamed, AliasesTyped
  <2> QED
    BY <1>0, <2>1, <2>2 DEF Growth, Surfaces
<1>4. ASSUME NEW a \in Entities, NEW b \in Entities, MergeNamed(a, b) PROVE Growth
  BY <1>1, <1>4 DEF MergeNamed, MergeEntities, Merge, CanMerge
<1>5. ASSUME NEW a \in Entities, NEW b \in Entities, AutoMergeNamed(a, b) PROVE Growth
  <2>1. a \notin exists /\ merged[a] = None /\ b \in exists /\ merged[b] = None
        /\ UNCHANGED strays
    BY <1>0, <1>5 DEF AutoMergeNamed, AutoMerge, MergedExist, Live
  <2>2. \A d \in Entities \ {a} :
          aliases'[d] = IF d = b THEN (aliases[b] \cup {Name[a]}) \ {Name[b]} ELSE aliases[d]
    BY <1>5, <2>1 DEF AutoMergeNamed, AliasesTyped
  <2> QED
    BY <1>0, <2>1, <2>2 DEF Growth, Surfaces
<1>6. ASSUME NEW r \in Reviewers, ConfirmNamed(r) PROVE Growth
  <2>1. confirm[r].loser \in Entities /\ confirm[r].winner \in Entities
    BY <1>6 DEF ConfirmNamed, ConfirmMerge, FlatInv, TypeOK, QueueTyped, Confirmation
  <2> QED
    BY <1>1, <1>2, <1>6, <2>1 DEF ConfirmNamed, CanMerge
<1>7. ASSUME NEW e \in Entities, NEW s, aliases' = [aliases EXCEPT ![e] = @ \cup {s}],
             \/ Live(e) /\ UNCHANGED strays
             \/ strays' = strays \cup {[surface |-> s, entity |-> e]}
      PROVE  Growth
  <2>1. \A d \in Entities : aliases'[d] = IF d = e THEN aliases[e] \cup {s} ELSE aliases[d]
    BY <1>7 DEF AliasesTyped
  <2>2. strays \subseteq strays' /\ (merged[e] # None => s \in Strayed(e)')
    <3>1. merged[e] # None => [surface |-> s, entity |-> e] \in strays'
      BY <1>7 DEF Live
    <3> QED
      BY <1>7, <3>1 DEF Strayed
  <2> QED
    BY <1>0, <2>1, <2>2 DEF Growth, Surfaces
<1>8. ASSUME NEW c \in Captures, AppendAlias(c) PROVE Growth
  <2>1. matched[c] = [surface |-> matched[c].surface, entity |-> matched[c].entity]
        /\ matched[c].entity \in Entities
    BY <1>8 DEF AppendAlias, AliasesTyped, Match
  <2> QED
    BY <1>7, <1>8, <2>1 DEF AppendAlias
<1>9. ASSUME NEW s \in Surface, NEW e \in Entities, ConfirmBinding(s, e) PROVE Growth
  <2>1. CASE Live(e)
    BY <1>7, <1>9, <2>1 DEF ConfirmBinding
  <2>2. CASE ~Live(e)
    BY <1>9, <2>2 DEF ConfirmBinding, Growth, Surfaces
  <2> QED
    BY <2>1, <2>2
<1>10. ASSUME NEW c \in Captures, NEW s \in Surface, NEW e \in Entities, ResolveSurface(c, s, e)
       PROVE  Growth
  BY <1>2, <1>10 DEF ResolveSurface
<1> QED
  BY <1>3, <1>4, <1>5, <1>6, <1>8, <1>9, <1>10 DEF Naming

\* What a step of the composition is to the graph and its names.
Standing == UNCHANGED <<merged, moves, detached>> /\ exists \subseteq exists'
Merging == \E l, w \in Entities : Merge(l, w) /\ TakeNames(l, w) /\ UNCHANGED <<exists, detached>>
Minting == \E e, f \in Entities : AutoMergeNamed(e, f)
Unmerging == (\E e \in Entities : Unmerge(e)) /\ UNCHANGED aliasVars

LEMMA StepKinds ==
  ASSUME FlatInv, AliasesTyped, [DedupNext]_everything
  PROVE  Growth /\ (Standing \/ Merging \/ Minting \/ Unmerging)
<1>1. CASE Naming
  <2>1. ASSUME NEW r \in Reviewers, ConfirmNamed(r) PROVE Standing \/ Merging
    <3>1. confirm[r].loser \in Entities /\ confirm[r].winner \in Entities
      BY <2>1 DEF ConfirmNamed, ConfirmMerge, FlatInv, TypeOK, QueueTyped, Confirmation
    <3>2. UNCHANGED <<exists, detached>>
      BY <2>1 DEF ConfirmNamed, ConfirmMerge
    <3>3. CASE CanMerge(confirm[r].loser, confirm[r].winner)
      BY <2>1, <3>1, <3>2, <3>3 DEF ConfirmNamed, ConfirmMerge, Merging
    <3>4. CASE ~CanMerge(confirm[r].loser, confirm[r].winner)
      BY <2>1, <3>2, <3>4 DEF ConfirmNamed, ConfirmMerge, Merge, Standing
    <3> QED
      BY <3>3, <3>4
  <2>2. ASSUME NEW l \in Entities, NEW w \in Entities, MergeNamed(l, w) PROVE Merging
    BY <2>2 DEF MergeNamed, MergeEntities, Merging
  <2>3. ASSUME NEW e \in Entities, CreateNamed(e) PROVE Standing
    BY <2>3 DEF CreateNamed, Create, Standing
  <2>4. ASSUME NEW s \in Surface, NEW e \in Entities,
               ConfirmBinding(s, e) \/ \E c \in Captures : ResolveSurface(c, s, e)
        PROVE  Standing
    BY <2>4 DEF ConfirmBinding, ResolveSurface, vars, Standing
  <2>5. ASSUME NEW c \in Captures, AppendAlias(c) PROVE Standing
    BY <2>5 DEF AppendAlias, vars, Standing
  <2> QED
    BY <1>1, <2>1, <2>2, <2>3, <2>4, <2>5, NamingGrows DEF Naming, Minting
<1>2. ASSUME UNCHANGED <<aliases, strays>> PROVE Growth
  BY <1>2 DEF Growth, Surfaces
<1>3. CASE Nameless
  <2>1. Unmerging \/ Standing
    BY <1>3 DEF Nameless, Unmerging, Reject, ConfirmRead, Standing
  <2> QED
    BY <1>2, <1>3, <2>1 DEF Nameless, aliasVars
<1>4. ASSUME NEW l \in Entities, NEW w \in Entities, ApplyMerge(l, w)
      PROVE  Naming \/ UNCHANGED allVars
  BY <1>4 DEF ApplyMerge, Naming
<1>5. UNCHANGED allVars \/ ApplyQueue => Standing /\ UNCHANGED <<aliases, strays>>
  BY DEF allVars, vars, aliasVars, ApplyQueue, Standing
<1> QED
  BY <1>1, <1>2, <1>3, <1>4, <1>5
  DEF DedupNext, Batch, Others, AliasNext, BatchPlan, DropHeldPairs, StopBatch, everything

LEMMA Answered ==
  ASSUME SurvivorsAnswerToEveryName, NEW t \in Entities, NEW x, merged[t] = x, x # None
  PROVE  Kept(t, x)
BY DEF SurvivorsAnswerToEveryName, Kept

LEMMA AnswersAgain ==
  ASSUME TypeOK', \A t, x \in Entities : merged'[t] = x => Kept(t, x)'
  PROVE  SurvivorsAnswerToEveryName'
<1> SUFFICES ASSUME NEW t \in Entities, merged'[t] # None
             PROVE  (Surfaces(t) \ Strayed(t))' \subseteq Surfaces(merged[t])'
  BY DEF SurvivorsAnswerToEveryName
<1>1. PICK x \in Entities : merged'[t] = x
  BY DEF TypeOK, GraphTyped
<1>2. Kept(t, x)'
  BY <1>1
<1> QED
  BY <1>1, <1>2 DEF Kept, Surfaces

\* A row that pointed at an existing survivor before a step still answers there.
LEMMA PointerStays ==
  ASSUME NameInv, Growth, NEW t \in Entities, NEW x \in Entities, merged[t] = x
  PROVE  Kept(t, x)'
<1>1. x # None /\ x \in exists
  BY EntityGraphAssumption DEF EntityGraphAssumption, NameInv, FlatInv, OneHop, Live
<1>2. Kept(t, x)
  BY <1>1, Answered DEF NameInv
<1> QED
  BY <1>1, <1>2, KeptStays

\* A move already on record keeps its word, whoever its row points at now.
LEMMA MoveStays ==
  ASSUME NameInv, Growth, NEW m \in moves, merged[m.target] # None
  PROVE  Kept(m.target, m.via)'
<1>1. m.target \in Entities /\ m.via \in exists /\ Kept(m.target, m.via)
  BY DEF NameInv, FlatInv, TypeOK, GraphTyped, Move, MovesCarriedNames
<1> QED
  BY <1>1, KeptStays

NamesKept == DetachedStand /\ MovesCarriedNames /\ SurvivorsAnswerToEveryName

LEMMA StandingNames == ASSUME NameInv, TypeOK', Growth, Standing PROVE NamesKept'
<1>1. DetachedStand'
  BY DEF NameInv, DetachedStand, Standing
<1>2. MovesCarriedNames'
  BY MoveStays DEF NameInv, MovesCarriedNames, Standing
<1>3. SurvivorsAnswerToEveryName'
  BY PointerStays, AnswersAgain DEF Standing
<1> QED
  BY <1>1, <1>2, <1>3 DEF NamesKept

LEMMA MergingNames ==
  ASSUME AllowRemerge = FALSE, NameInv, TypeOK', Growth,
         NEW l \in Entities, NEW w \in Entities, Merge(l, w), TakeNames(l, w),
         UNCHANGED <<exists, detached>>
  PROVE  NamesKept'
<1>1. /\ l # w /\ l \in exists /\ merged[l] = None
      /\ l \notin detached /\ None \notin Entities /\ AliasesTyped
      /\ exists \subseteq Entities
  BY EntityGraphAssumption
  DEF EntityGraphAssumption, Merge, CanMerge, Live, NameInv, FlatInv, TypeOK, GraphTyped
<1>2. \A t \in Entities : merged'[t] = IF merged[t] = l \/ t = l THEN w ELSE merged[t]
  BY DEF Merge, Repoint, Orphans
<1>3. moves' = moves \cup {[target |-> t, into |-> w, via |-> l] : t \in Orphans(l)}
  BY DEF Merge, Repoint
<1>4. /\ \A t \in Entities \ {w} : Surfaces(t)' = Surfaces(t)
      /\ Surfaces(l) \subseteq Surfaces(w)'
  BY <1>1, TakenNames
<1>5. DetachedStand'
  BY <1>1, <1>2 DEF NameInv, DetachedStand
<1>6. ASSUME NEW t \in Orphans(l) PROVE t \in Entities /\ merged[t] = l /\ Kept(t, l)'
  BY <1>1, <1>6, PointerStays DEF Orphans
<1>7. MovesCarriedNames'
  <2>1. ASSUME NEW m \in moves
        PROVE  /\ m.via \in exists'
               /\ merged'[m.target] # None \/ m.target \in detached'
               /\ merged'[m.target] # None => Kept(m.target, m.via)'
    <3>1. /\ m.target \in Entities /\ m.via \in exists
          /\ merged[m.target] # None \/ m.target \in detached
      BY DEF NameInv, FlatInv, TypeOK, GraphTyped, Move, MovesCarriedNames
    <3>2. m.target # l
      BY <1>1, <3>1
    <3> QED
      BY <1>1, <1>2, <3>1, <3>2, MoveStays
  <2>2. ASSUME NEW t \in Orphans(l), NEW m, m = [target |-> t, into |-> w, via |-> l]
        PROVE  m.via \in exists' /\ merged'[m.target] # None /\ Kept(m.target, m.via)'
    <3>1. merged'[t] = w
      BY <1>2, <1>6, <2>2
    <3> QED
      BY <1>1, <1>6, <2>2, <3>1
  <2> QED
    BY <1>3, <2>1, <2>2 DEF MovesCarriedNames
<1>8. ASSUME NEW t \in Entities, NEW x \in Entities, merged'[t] = x PROVE Kept(t, x)'
  <2>1. CASE t = l
    <3>1. x = w
      BY <1>2, <1>8, <2>1
    <3> QED
      BY <1>1, <1>4, <2>1, <3>1 DEF Kept
  <2>2. CASE t # l /\ merged[t] = l
    <3>1. x = w /\ Kept(t, l)'
      BY <1>2, <1>6, <1>8, <2>2 DEF Orphans
    <3>2. Surfaces(l)' \subseteq Surfaces(w)'
      BY <1>1, <1>4
    <3> QED
      BY <3>1, <3>2 DEF Kept
  <2>3. CASE t # l /\ merged[t] # l
    BY <1>2, <1>8, <2>3, PointerStays
  <2> QED
    BY <2>1, <2>2, <2>3
<1> QED
  BY <1>5, <1>7, <1>8, AnswersAgain DEF NamesKept

LEMMA MintingNames ==
  ASSUME NameInv, TypeOK', Growth, NEW new \in Entities, NEW top \in Entities,
         AutoMergeNamed(new, top)
  PROVE  NamesKept'
<1>1. /\ new \notin exists /\ exists' = exists \cup {new} /\ new # top
      /\ \A t \in Entities : merged'[t] = IF t = new THEN top ELSE merged[t]
      /\ UNCHANGED <<moves, detached>>
  BY DEF AutoMergeNamed, AutoMerge, Live, NameInv, FlatInv, TypeOK, GraphTyped
<1>2. /\ aliases'[new] = {Name[new]}
      /\ Name[new] \in aliases'[top] \cup {Name[top]}
  BY <1>1 DEF AutoMergeNamed, NameInv, AliasesTyped
<1>3. DetachedStand'
  BY <1>1 DEF NameInv, DetachedStand, FlatInv, TypeOK, HistoryTyped
<1>4. MovesCarriedNames'
  <2> SUFFICES ASSUME NEW m \in moves
               PROVE  /\ m.via \in exists'
                      /\ merged'[m.target] # None \/ m.target \in detached'
                      /\ merged'[m.target] # None => Kept(m.target, m.via)'
    BY <1>1 DEF MovesCarriedNames
  <2>1. /\ m.target \in Entities /\ m.target \in exists /\ m.via \in exists
        /\ merged[m.target] # None \/ m.target \in detached
    BY DEF NameInv, FlatInv, TypeOK, GraphTyped, Move, MovesCarriedNames, MovesWithinKind
  <2> QED
    BY <1>1, <2>1, MoveStays
<1>5. ASSUME NEW t \in Entities, NEW x \in Entities, merged'[t] = x PROVE Kept(t, x)'
  <2>1. CASE t = new
    <3>1. x = top
      BY <1>1, <1>5, <2>1
    <3> QED
      BY <1>2, <2>1, <3>1 DEF Kept, Surfaces
  <2>2. CASE t # new
    BY <1>1, <1>5, <2>2, PointerStays
  <2> QED
    BY <2>1, <2>2
<1> QED
  BY <1>3, <1>4, <1>5, AnswersAgain DEF NamesKept

LEMMA UnmergingNames ==
  ASSUME NameInv, TypeOK', Growth, NEW e \in Entities, Unmerge(e)
  PROVE  NamesKept'
<1>1. /\ merged[e] # None /\ e \in exists
      /\ \A t \in Entities : merged'[t] = IF t = e THEN None
                                          ELSE IF t \in Restored(e) THEN e ELSE merged[t]
      /\ detached' = detached \cup {e} /\ UNCHANGED <<exists, moves>>
  BY DEF Unmerge, NameInv, FlatInv, MergedExist
<1>2. ASSUME NEW t \in Restored(e) PROVE t \in Entities /\ merged[t] # None /\ Kept(t, e)'
  <2>1. PICK m \in moves : m.target = t /\ m.via = e /\ merged[t] = m.into
    BY <1>2 DEF Restored
  <2>2. t \in Entities /\ merged[t] # None
    BY <1>2, <2>1, EntityGraphAssumption
    DEF EntityGraphAssumption, NameInv, FlatInv, TypeOK, GraphTyped, Move, Restored
  <2>3. Kept(m.target, m.via)'
    BY <2>1, <2>2, MoveStays
  <2> QED
    BY <2>1, <2>2, <2>3
<1>3. DetachedStand'
  BY <1>1, <1>2 DEF NameInv, DetachedStand, FlatInv, TypeOK, HistoryTyped
<1>4. MovesCarriedNames'
  <2> SUFFICES ASSUME NEW m \in moves
               PROVE  /\ m.via \in exists'
                      /\ merged'[m.target] # None \/ m.target \in detached'
                      /\ merged'[m.target] # None => Kept(m.target, m.via)'
    BY <1>1 DEF MovesCarriedNames
  <2>1. /\ m.target \in Entities /\ m.via \in exists
        /\ merged[m.target] # None \/ m.target \in detached
    BY DEF NameInv, FlatInv, TypeOK, GraphTyped, Move, MovesCarriedNames
  <2>2. merged'[m.target] # None => merged[m.target] # None
    BY <1>1, <1>2, <2>1
  <2>3. merged'[m.target] # None \/ m.target \in detached'
    BY <1>1, <2>1, EntityGraphAssumption DEF EntityGraphAssumption
  <2> QED
    BY <1>1, <2>1, <2>2, <2>3, MoveStays
<1>5. ASSUME NEW t \in Entities, NEW x \in Entities, merged'[t] = x PROVE Kept(t, x)'
  <2>1. t # e
    BY <1>1, <1>5, EntityGraphAssumption DEF EntityGraphAssumption
  <2>2. CASE t \in Restored(e)
    BY <1>1, <1>2, <1>5, <2>1, <2>2
  <2>3. CASE t \notin Restored(e)
    BY <1>1, <1>5, <2>1, <2>3, PointerStays
  <2> QED
    BY <2>2, <2>3
<1> QED
  BY <1>3, <1>4, <1>5, AnswersAgain DEF NamesKept

LEMMA NameStep ==
  ASSUME AllowRemerge = FALSE PROVE NameInv /\ [DedupNext]_everything => NameInv'
<1> SUFFICES ASSUME NameInv, [DedupNext]_everything PROVE NameInv'
  OBVIOUS
<1>1. FlatInv' /\ TypeOK'
  BY FlatBatchStep DEF NameInv, FlatInv
<1>2. AliasesTyped'
  BY AliasesStep DEF NameInv, FlatInv
<1>3. Growth /\ (Standing \/ Merging \/ Minting \/ Unmerging)
  BY StepKinds DEF NameInv
<1>4. NamesKept'
  BY <1>1, <1>3, StandingNames, MergingNames, MintingNames, UnmergingNames
  DEF Merging, Minting, Unmerging
<1> QED
  BY <1>1, <1>2, <1>4 DEF NameInv, NamesKept

LEMMA NamesInit == BatchInit => NameInv
<1> SUFFICES ASSUME BatchInit PROVE NameInv
  OBVIOUS
<1>1. FlatInv
  BY FlatInit DEF BatchInit, AInit
<1>2. AliasesTyped
  BY AliasesAssumption DEF AliasesAssumption, BatchInit, AInit, AliasesTyped
<1>3. NamesKept
  BY DEF BatchInit, AInit, Init, NamesKept, DetachedStand, MovesCarriedNames,
         SurvivorsAnswerToEveryName
<1> QED
  BY <1>1, <1>2, <1>3 DEF NameInv, NamesKept

\* Whatever merges, unmerges, captures and members do in whatever order, a search by
\* any historical surface of a tombstone finds its survivor, if no unmerged row is
\* merged again.
THEOREM SurvivorsAnswerHolds ==
  ASSUME AllowRemerge = FALSE PROVE DedupSpec => []SurvivorsAnswerToEveryName
<1>1. NameInv => SurvivorsAnswerToEveryName
  BY DEF NameInv
<1> QED
  BY <1>1, NamesInit, NameStep, PTL DEF DedupSpec

-----------------------------------------------------------------------------
(***************************************************************************)
(* Skipped merges.  What a pair was scored on stays with whoever its sides *)
(* are now, and with whoever an unmerge may yet hand them back to.         *)
(***************************************************************************)
LEMMA FormsGrow == ASSUME NEW S, NEW T, S \subseteq T PROVE NameForms(S) \subseteq NameForms(T)
BY DEF NameForms

\* Names gained never take a merge below the queue bar of either scorer.
LEMMA MoreNamesStillCall ==
  ASSUME NEW kind, NEW S, NEW T, NEW S2, NEW T2, S \subseteq S2, T \subseteq T2,
         MatchScore(kind, S, T) = "merge", NEW scorer \in Scorers
  PROVE  Score(scorer, kind, S2, T2) \in {"merge", "queue"}
<1>1. /\ NameForms(S) \subseteq NameForms(S2) /\ NameForms(T) \subseteq NameForms(T2)
      /\ NameForms(S) # {} /\ NameForms(T) # {}
  BY FormsGrow DEF MatchScore
<1>2. CASE kind # "person"
  <2>1. MatchScore(kind, S2, T2) = "merge"
    BY <1>1, <1>2 DEF MatchScore
  <2> QED
    BY <2>1, MergesAlike DEF Score
<1>3. CASE kind = "person"
  <2>1. Reaches(NameForms(S), NameForms(T), {"hi"})
    BY <1>1, <1>3 DEF MatchScore, PersonScore
  <2>2. Reaches(NameForms(S2), NameForms(T2), {"hi"})
    BY <1>1, <2>1 DEF Reaches
  <2>3. CASE Abbreviated(NameForms(S2), NameForms(T2))
    <3>1. MatchScore(kind, S2, T2) = "queue"
      BY <1>1, <1>3, <2>3 DEF MatchScore, PersonScore
    <3>2. Evidence(kind, S2, T2) = {24}
      BY <1>1, <1>3, <2>3 DEF Evidence, Weights
    <3>3. MatchProbability(kind, S2, T2) = "queue"
      BY <3>2 DEF MatchProbability, MergeBar, QueueBar
    <3> QED
      BY <3>1, <3>3 DEF Score
  <2>4. CASE ~Abbreviated(NameForms(S2), NameForms(T2))
    <3>1. MatchScore(kind, S2, T2) = "merge"
      BY <1>1, <1>3, <2>2, <2>4 DEF MatchScore, PersonScore
    <3> QED
      BY <3>1, MergesAlike DEF Score
  <2> QED
    BY <2>3, <2>4
<1> QED
  BY <1>2, <1>3

LEMMA MergeEitherWay ==
  ASSUME NEW kind, NEW S \in SUBSET Surface, NEW T \in SUBSET Surface,
         MatchScore(kind, S, T) = "merge"
  PROVE  MatchScore(kind, T, S) = "merge"
<1>1. NameForms(S) # {} /\ NameForms(T) # {}
  BY DEF MatchScore
<1>2. CASE kind # "person"
  BY <1>1, <1>2 DEF MatchScore
<1>3. CASE kind = "person"
  <2>1. ~Abbreviated(NameForms(S), NameForms(T)) /\ Reaches(NameForms(S), NameForms(T), {"hi"})
    BY <1>1, <1>3 DEF MatchScore, PersonScore
  <2>2. ~Abbreviated(NameForms(T), NameForms(S))
    BY <2>1 DEF Abbreviated
  <2>3. PICK n \in NameForms(S), m \in NameForms(T) :
          Comparable(n, m) /\ JaroWinkler(Core(n), Core(m)) = "hi"
    BY <2>1 DEF Reaches
  <2>4. PICK s \in Surface, t \in Surface : n = Fold[s] /\ m = Fold[t]
    BY DEF NameForms
  <2>5. JaroWinkler(Core(m), Core(n)) = "hi"
    <3>1. JaroWinkler(Core(Fold[s]), Core(Fold[t])) = JaroWinkler(Core(Fold[t]), Core(Fold[s]))
      BY NameMatchingAssumption DEF NameMatchingAssumption
    <3> QED
      BY <2>3, <2>4, <3>1
  <2>6. Comparable(m, n)
    BY <2>3 DEF Comparable
  <2>7. Reaches(NameForms(T), NameForms(S), {"hi"})
    BY <2>5, <2>6 DEF Reaches
  <2> QED
    BY <1>1, <1>3, <2>2, <2>7 DEF MatchScore, PersonScore
<1> QED
  BY <1>2, <1>3

LEMMA MoreNamesStillBlock ==
  ASSUME NEW S, NEW T, NEW S2, NEW T2, S \subseteq S2, T \subseteq T2, SharesToken(S, T)
  PROVE  SharesToken(S2, T2)
<1>1. Tokens(S) \subseteq Tokens(S2) /\ Tokens(T) \subseteq Tokens(T2)
  BY FormsGrow DEF Tokens
<1> QED
  BY <1>1 DEF SharesToken

\* The names S are those of e, of its survivor, and of whoever e moved past.
Carries(S, e) ==
  /\ S \subseteq Surfaces(e)
  /\ merged[e] # None =>
       /\ S \subseteq Surfaces(merged[e])
       /\ \A m \in moves : m.target = e => S \subseteq Surfaces(m.via)

ScoredPair(a, b) ==
  \E S, T \in SUBSET Surface :
    MatchScore(Kind[a], S, T) = "merge" /\ Carries(S, a) /\ Carries(T, b)

Scored(p) ==
  \E a, b \in exists : p = {a, b} /\ Kind[a] = Kind[b] /\ ScoredPair(a, b)

ScoredInv ==
  /\ NameInv
  /\ \A o \in todo : {o[1], o[2]} \in claimed
  /\ \A p \in claimed \cup skipped : Scored(p)

LEMMA CarriesStays ==
  ASSUME AllowRemerge = FALSE, NameInv, Growth, Standing \/ Merging \/ Minting \/ Unmerging,
         NEW e \in exists, NEW S, Carries(S, e)
  PROVE  Carries(S, e)'
<1>0. /\ e \in Entities /\ exists \subseteq Entities /\ None \notin Entities /\ AliasesTyped
      /\ merged[e] # None => merged[e] \in exists
      /\ \A m \in moves : m.via \in exists /\ m.target \in Entities /\ m.into \in Entities
  BY EntityGraphAssumption
  DEF EntityGraphAssumption, NameInv, FlatInv, TypeOK, GraphTyped, OneHop, Live,
      MovesCarriedNames, Move
<1>1. /\ S \subseteq Surfaces(e)'
      /\ \A f \in exists : S \subseteq Surfaces(f) => S \subseteq Surfaces(f)'
  BY DEF Growth, Carries
<1>2. ASSUME NEW x \in Entities, S \subseteq Surfaces(x)', merged'[e] = x
      PROVE  S \subseteq Surfaces(merged[e])'
  BY <1>2 DEF Surfaces
<1>3. ASSUME merged[e] # None
      PROVE  /\ S \subseteq Surfaces(merged[e])
             /\ \A m \in moves : m.target = e => S \subseteq Surfaces(m.via)'
  BY <1>0, <1>1, <1>3 DEF Carries
<1>4. ASSUME merged'[e] = merged[e], moves' = moves PROVE Carries(S, e)'
  <2>1. PICK x : x = merged[e]
    OBVIOUS
  <2>2. x # None => S \subseteq Surfaces(x)'
    BY <1>0, <1>1, <1>3, <2>1
  <2>3. merged'[e] # None => S \subseteq Surfaces(merged[e])'
    BY <1>0, <1>2, <1>4, <2>1, <2>2
  <2> QED
    BY <1>1, <1>3, <1>4, <2>3 DEF Carries
<1>5. CASE Standing
  BY <1>4, <1>5 DEF Standing
<1>6. CASE Minting
  <2>1. PICK new \in Entities, top \in Entities : AutoMergeNamed(new, top)
    BY <1>6 DEF Minting
  <2>2. e # new /\ merged'[e] = merged[e] /\ moves' = moves
    BY <1>0, <2>1 DEF AutoMergeNamed, AutoMerge, NameInv, FlatInv, TypeOK, GraphTyped
  <2> QED
    BY <1>4, <2>2
<1>7. CASE Merging
  <2>1. PICK l \in Entities, w \in Entities : Merge(l, w) /\ TakeNames(l, w)
    BY <1>7 DEF Merging
  <2>2. l \in exists /\ merged[l] = None /\ l \notin detached
    BY <2>1 DEF Merge, CanMerge, Live
  <2>3. merged'[e] = IF merged[e] = l \/ e = l THEN w ELSE merged[e]
    BY <1>0, <2>1 DEF Merge, Repoint, Orphans
  <2>4. moves' = moves \cup {[target |-> t, into |-> w, via |-> l] : t \in Orphans(l)}
    BY <2>1 DEF Merge, Repoint
  <2>5. Surfaces(l) \subseteq Surfaces(w)'
    BY <1>0, <2>1, TakenNames
  <2>6. \A m \in moves : m.target # l
    BY <2>2 DEF NameInv, MovesCarriedNames
  <2>7. CASE e = l
    <3>1. S \subseteq Surfaces(w)'
      BY <2>5, <2>7 DEF Carries
    <3>2. S \subseteq Surfaces(merged[e])'
      BY <1>2, <2>3, <2>7, <3>1
    <3>3. \A m \in moves' : m.target # e
      BY <1>0, <2>2, <2>4, <2>6, <2>7 DEF Orphans
    <3> QED
      BY <1>1, <3>2, <3>3 DEF Carries
  <2>8. CASE e # l /\ merged[e] = l
    <3>1. S \subseteq Surfaces(l)
      BY <1>0, <1>3, <2>8
    <3>2. S \subseteq Surfaces(merged[e])'
      BY <1>2, <2>3, <2>5, <2>8, <3>1
    <3>3. S \subseteq Surfaces(l)'
      BY <1>1, <2>2, <3>1
    <3>4. \A m \in moves' : m.target = e => S \subseteq Surfaces(m.via)'
      <4>1. ASSUME NEW m \in moves, m.target = e PROVE S \subseteq Surfaces(m.via)'
        BY <1>0, <1>3, <2>8, <4>1
      <4>2. ASSUME NEW t \in Orphans(l), NEW m, m = [target |-> t, into |-> w, via |-> l]
            PROVE  S \subseteq Surfaces(m.via)'
        <5>1. m.via = l
          BY <4>2
        <5> QED
          BY <3>3, <5>1
      <4> QED
        BY <2>4, <4>1, <4>2
    <3> QED
      BY <1>1, <3>2, <3>4 DEF Carries
  <2>9. CASE e # l /\ merged[e] # l
    <3>1. PICK x : x = merged[e]
      OBVIOUS
    <3>2. merged'[e] # None => S \subseteq Surfaces(merged[e])'
      BY <1>0, <1>1, <1>2, <1>3, <2>3, <2>9, <3>1
    <3>3. \A m \in moves' : m.target = e => m \in moves
      BY <2>4, <2>9 DEF Orphans
    <3>4. merged'[e] = merged[e]
      BY <2>3, <2>9
    <3> QED
      BY <1>1, <1>3, <3>2, <3>3, <3>4 DEF Carries
  <2> QED
    BY <2>7, <2>8, <2>9
<1>8. CASE Unmerging
  <2>1. PICK u \in Entities : Unmerge(u)
    BY <1>8 DEF Unmerging
  <2>2. /\ merged'[e] = IF e = u THEN None ELSE IF e \in Restored(u) THEN u ELSE merged[e]
        /\ moves' = moves
    BY <1>0, <2>1 DEF Unmerge
  <2>3. CASE e = u
    BY <1>1, <2>2, <2>3 DEF Carries
  <2>4. CASE e # u /\ e \in Restored(u)
    <3>1. PICK m \in moves : m.target = e /\ m.via = u /\ merged[e] = m.into
      BY <2>4 DEF Restored
    <3>2. merged[e] # None
      BY <1>0, <3>1
    <3>3. S \subseteq Surfaces(m.via)'
      BY <1>3, <3>1, <3>2
    <3>4. S \subseteq Surfaces(merged[e])'
      BY <1>2, <2>2, <2>4, <3>1, <3>3
    <3> QED
      BY <1>1, <1>3, <2>2, <3>2, <3>4 DEF Carries
  <2>5. CASE e # u /\ e \notin Restored(u)
    BY <1>4, <2>2, <2>5
  <2> QED
    BY <2>3, <2>4, <2>5
<1> QED
  BY <1>5, <1>6, <1>7, <1>8

LEMMA ScoredStays ==
  ASSUME AllowRemerge = FALSE, NameInv, [DedupNext]_everything, NEW p, Scored(p)
  PROVE  Scored(p)'
<1>1. Growth /\ (Standing \/ Merging \/ Minting \/ Unmerging)
  BY StepKinds DEF NameInv
<1>2. PICK a \in exists, b \in exists :
        p = {a, b} /\ Kind[a] = Kind[b] /\ ScoredPair(a, b)
  BY DEF Scored
<1>3. PICK S \in SUBSET Surface, T \in SUBSET Surface :
        MatchScore(Kind[a], S, T) = "merge" /\ Carries(S, a) /\ Carries(T, b)
  BY <1>2 DEF ScoredPair
<1>4. Carries(S, a)' /\ Carries(T, b)'
  BY <1>1, <1>3, CarriesStays
<1>5. a \in exists' /\ b \in exists'
  BY <1>1 DEF Standing, Merging, Minting, Unmerging, AutoMergeNamed, AutoMerge, Unmerge
<1>6. ScoredPair(a, b)'
  BY <1>3, <1>4 DEF ScoredPair
<1> QED
  BY <1>2, <1>5, <1>6 DEF Scored

\* A plan's merges are scored on what both sides are called, both of them live.
LEMMA PlannedAreScored ==
  ASSUME NameInv, NEW scorer \in Scorers, BatchPlan(scorer)
  PROVE  /\ \A p \in claimed' : Scored(p)
         /\ \A o \in todo' : {o[1], o[2]} \in claimed'
<1>1. PICK blocked \in Blockings :
        /\ claimed' = {p \in blocked : ScoreOf(scorer, p) = "merge"}
        /\ todo' \subseteq {o \in Entities \X Entities : {o[1], o[2]} \in claimed'}
  BY DEF BatchPlan, Plan
<1>2. blocked \subseteq SameKindPairs
  BY DEF Blockings
<1>3. ASSUME NEW p \in claimed' PROVE Scored(p)
  <2>1. p \in SameKindPairs /\ ScoreOf(scorer, p) = "merge"
    BY <1>1, <1>2
  <2>2. PICK x \in Entities, y \in Entities : p = {x, y}
    BY <2>1 DEF SameKindPairs, Pairs
  <2> DEFINE Given(s) == \E a, b \in Entities :
               p = {a, b} /\ s = Score(scorer, Kind[a], Surfaces(a), Surfaces(b))
  <2>3. \E s \in {"merge", "queue", "drop"} : Given(s)
    <3>1. Score(scorer, Kind[x], Surfaces(x), Surfaces(y)) \in {"merge", "queue", "drop"}
      BY DEF Score, MatchScore, MatchProbability, PersonScore
    <3> QED
      BY <2>2, <3>1
  <2>4. ScoreOf(scorer, p) = CHOOSE s \in {"merge", "queue", "drop"} : Given(s)
    BY DEF ScoreOf
  <2>5. Given("merge")
    <3> HIDE DEF Given
    <3> QED
      BY <2>1, <2>3, <2>4
  <2>6. PICK a \in Entities, b \in Entities :
          p = {a, b} /\ Score(scorer, Kind[a], Surfaces(a), Surfaces(b)) = "merge"
    BY <2>5
  <2>7. Live(a) /\ Live(b) /\ Kind[a] = Kind[b]
    BY <2>1, <2>6 DEF SameKindPairs
  <2>8. MatchScore(Kind[a], Surfaces(a), Surfaces(b)) = "merge"
    BY <2>6, MergesAlike DEF Score, Scorers
  <2>9. Carries(Surfaces(a), a) /\ Carries(Surfaces(b), b)
    BY <2>7 DEF Carries, Live
  <2>10. Surfaces(a) \in SUBSET Surface /\ Surfaces(b) \in SUBSET Surface
    BY SurfacesTyped DEF NameInv
  <2>11. ScoredPair(a, b)
    BY <2>8, <2>9, <2>10 DEF ScoredPair
  <2> QED
    BY <2>6, <2>7, <2>11 DEF Scored, Live
<1> QED
  BY <1>1, <1>3

LEMMA ScoredStep ==
  ASSUME AllowRemerge = FALSE PROVE ScoredInv /\ [DedupNext]_everything => ScoredInv'
<1> SUFFICES ASSUME ScoredInv, [DedupNext]_everything PROVE ScoredInv'
  OBVIOUS
<1>1. NameInv'
  BY NameStep DEF ScoredInv
<1>2. \A p : Scored(p) => Scored(p)'
  BY ScoredStays DEF ScoredInv
<1>3. ASSUME NEW scorer \in Scorers, BatchPlan(scorer) PROVE ScoredInv'
  <2>1. skipped' = {}
    BY <1>3 DEF BatchPlan
  <2>2. \A p \in claimed' : Scored(p)
    BY <1>3, PlannedAreScored DEF ScoredInv
  <2>3. \A o \in todo' : {o[1], o[2]} \in claimed'
    BY <1>3, PlannedAreScored DEF ScoredInv
  <2> QED
    BY <1>1, <1>2, <2>1, <2>2, <2>3 DEF ScoredInv
<1>4. ASSUME NEW l \in Entities, NEW w \in Entities, ApplyMerge(l, w) PROVE ScoredInv'
  <2>1. <<l, w>> \in todo /\ todo' \subseteq todo /\ claimed' = claimed
        /\ skipped' \subseteq skipped \cup {{l, w}}
    BY <1>4 DEF ApplyMerge
  <2>2. {l, w} \in claimed
    BY <2>1 DEF ScoredInv
  <2>3. \A p \in claimed' \cup skipped' : Scored(p)
    BY <2>1, <2>2 DEF ScoredInv
  <2> QED
    BY <1>1, <1>2, <2>1, <2>3 DEF ScoredInv
<1>5. ASSUME todo' \subseteq todo, claimed' = claimed \/ (todo' = {} /\ claimed' = {}),
             skipped' = skipped
      PROVE  ScoredInv'
  BY <1>1, <1>2, <1>5 DEF ScoredInv
<1>6. CASE DropHeldPairs
  <2>1. todo' \subseteq todo /\ claimed' = claimed /\ skipped' = skipped
    BY <1>6 DEF DropHeldPairs
  <2> QED
    BY <1>5, <2>1
<1>7. CASE ApplyQueue \/ StopBatch
  BY <1>5, <1>7 DEF ApplyQueue, StopBatch, EndRun
<1>8. CASE UNCHANGED planVars
  <2>1. todo' \subseteq todo /\ claimed' = claimed /\ skipped' = skipped
    BY <1>8 DEF planVars
  <2> QED
    BY <1>5, <2>1
<1> QED
  BY <1>3, <1>4, <1>6, <1>7, <1>8 DEF DedupNext, Batch, Others, everything

LEMMA CalledBySurvivor ==
  ASSUME NameInv, NEW a \in exists
  PROVE  /\ \A S : Carries(S, a) => S \subseteq Surfaces(Survivor(a))
         /\ Surfaces(a) \ Strayed(a) \subseteq Surfaces(Survivor(a))
         /\ Kind[Survivor(a)] = Kind[a]
<1>1. a \in Entities
  BY DEF NameInv, FlatInv, TypeOK, GraphTyped
<1>2. CASE merged[a] = None
  BY <1>2 DEF Survivor, Carries
<1>3. CASE merged[a] # None
  <2>1. Survivor(a) = merged[a]
    BY <1>3 DEF Survivor
  <2> QED
    BY <1>1, <1>3, <2>1
    DEF Carries, NameInv, FlatInv, OneHop, SurvivorsAnswerToEveryName
<1> QED
  BY <1>2, <1>3

\* A merge the batch had to skip comes up again, whatever was merged and unmerged in its
\* stead: its two survivors score at the queue bar or above with either scorer, and
\* whatever token the sides shared, strays apart, blocks the survivors together.
THEOREM SkippedIsRediscoveredHolds ==
  ASSUME AllowRemerge = FALSE PROVE DedupSpec => []SkippedIsRediscovered
<1>1. BatchInit => ScoredInv
  BY NamesInit DEF BatchInit, ScoredInv
<1>2. ASSUME ScoredInv PROVE SkippedIsRediscovered
  <2> SUFFICES ASSUME NEW p \in skipped, NEW a \in p, NEW b \in p, Survivor(a) # Survivor(b)
               PROVE  /\ \A scorer \in Scorers :
                           Score(scorer, Kind[Survivor(a)], Surfaces(Survivor(a)),
                                 Surfaces(Survivor(b))) \in {"merge", "queue"}
                      /\ SharesToken(Surfaces(a) \ Strayed(a), Surfaces(b) \ Strayed(b)) =>
                           SharesToken(Surfaces(Survivor(a)), Surfaces(Survivor(b)))
    BY DEF SkippedIsRediscovered
  <2>1. NameInv /\ Scored(p)
    BY <1>2 DEF ScoredInv
  <2>2. PICK x \in exists, y \in exists :
          p = {x, y} /\ Kind[x] = Kind[y] /\ ScoredPair(x, y)
    BY <2>1 DEF Scored
  <2>3. PICK S \in SUBSET Surface, T \in SUBSET Surface :
          MatchScore(Kind[x], S, T) = "merge" /\ Carries(S, x) /\ Carries(T, y)
    BY <2>2 DEF ScoredPair
  <2>4. /\ S \subseteq Surfaces(Survivor(x)) /\ T \subseteq Surfaces(Survivor(y))
        /\ Kind[Survivor(x)] = Kind[x] /\ Kind[Survivor(y)] = Kind[x]
    BY <2>1, <2>2, <2>3, CalledBySurvivor
  <2>5. MatchScore(Kind[x], T, S) = "merge"
    BY <2>3, MergeEitherWay
  <2>6. a # b /\ a \in exists /\ b \in exists
    BY <2>2
  <2>7. ASSUME NEW scorer \in Scorers
        PROVE  Score(scorer, Kind[Survivor(a)], Surfaces(Survivor(a)), Surfaces(Survivor(b)))
                 \in {"merge", "queue"}
    <3>1. CASE a = x /\ b = y
      <4>1. Score(scorer, Kind[x], Surfaces(Survivor(x)), Surfaces(Survivor(y)))
              \in {"merge", "queue"}
        BY <2>3, <2>4, MoreNamesStillCall
      <4> QED
        BY <2>4, <3>1, <4>1
    <3>2. CASE a = y /\ b = x
      <4>1. Score(scorer, Kind[x], Surfaces(Survivor(y)), Surfaces(Survivor(x)))
              \in {"merge", "queue"}
        BY <2>4, <2>5, MoreNamesStillCall
      <4> QED
        BY <2>4, <3>2, <4>1
    <3> QED
      BY <2>2, <2>6, <3>1, <3>2
  <2>8. ASSUME SharesToken(Surfaces(a) \ Strayed(a), Surfaces(b) \ Strayed(b))
        PROVE  SharesToken(Surfaces(Survivor(a)), Surfaces(Survivor(b)))
    <3>1. /\ Surfaces(a) \ Strayed(a) \subseteq Surfaces(Survivor(a))
          /\ Surfaces(b) \ Strayed(b) \subseteq Surfaces(Survivor(b))
      BY <2>1, <2>6, CalledBySurvivor
    <3> QED
      BY <2>8, <3>1, MoreNamesStillBlock
  <2> QED
    BY <2>7, <2>8
<1> QED
  BY <1>1, <1>2, ScoredStep, PTL DEF DedupSpec

-----------------------------------------------------------------------------
(***************************************************************************)
(* Beneath the rows the graph moves as it does alone.                      *)
(***************************************************************************)
\* A split mints its target as any capture would, or takes one that is there.
LEMMA SplitMovesTheGraph ==
  ASSUME NEW s \in Entities, NEW t \in Entities, SplitTarget(s, t)
  PROVE  [Next]_vars
<1>1. CASE t \in exists
  BY <1>1 DEF SplitTarget, vars
<1>2. CASE t \notin exists
  BY <1>2 DEF SplitTarget, Create, Next
<1> QED
  BY <1>1, <1>2

LEMMA ReadsMoveTheGraph == [ReadsNext]_<<vars, rvars>> => [Next]_vars
<1> SUFFICES ASSUME [ReadsNext]_<<vars, rvars>> PROVE [Next]_vars
  OBVIOUS
<1>1. CASE GraphStep
  BY <1>1 DEF GraphStep, Next
<1>2. ASSUME NEW s \in Entities, NEW t \in Entities, SplitTarget(s, t) PROVE [Next]_vars
  BY <1>2, SplitMovesTheGraph
<1>3. CASE UNCHANGED vars
  BY <1>3
<1>4. GraphStep \/ UNCHANGED vars \/ \E s, t \in Entities : SplitTarget(s, t)
  BY DEF ReadsNext, AddMention, WriteClaim, RetractClaim, SplitEntity, SplitMention, SplitClaims
<1> QED
  BY <1>1, <1>2, <1>3, <1>4

-----------------------------------------------------------------------------
(***************************************************************************)
(* The operators of the splits.                                            *)
(***************************************************************************)
LEMMA CarriedTyped ==
  ASSUME NEW rows \in SUBSET Mention, NEW t \in Entities
  PROVE  Carried(rows, t) \in SUBSET Mention
BY DEF Carried, Mention

LEMMA ReboundTyped ==
  ASSUME NEW rows \in SUBSET Mention, NEW moved \in SUBSET rows, NEW t \in Entities
  PROVE  Rebound(rows, moved, t) \in SUBSET Mention
BY CarriedTyped DEF Rebound

LEMMA MovedTyped ==
  ASSUME NEW c \in Claim, NEW s \in Entities, NEW t \in Entities
  PROVE  /\ Moved(c, s, t) \in Claim
         /\ Moved(c, s, t).subject = IF c.subject = s THEN t ELSE c.subject
         /\ Moved(c, s, t).object = IF c.object = s THEN t ELSE c.object
         /\ Moved(c, s, t).source = c.source
         /\ Moved(c, s, t).confidence = c.confidence
         /\ Moved(c, s, t).live = c.live
BY DEF Moved, Claim

LEMMA RepointedTyped ==
  ASSUME NEW table \in [Claims -> Claim \cup {None}], NEW s \in Entities, NEW t \in Entities,
         NEW xs
  PROVE  Repointed(table, s, t, xs) \in [Claims -> Claim \cup {None}]
<1> SUFFICES ASSUME NEW c \in Claims, table[c] # None, table[c].source \in xs
             PROVE  Moved(table[c], s, t) \in Claim
  BY DEF Repointed
<1> QED
  BY MovedTyped

\* A split onto an entity with no mention in the experiences, run back.
LEMMA MentionsRunBack ==
  ASSUME NEW rows \in SUBSET Mention, NEW s \in Entities, NEW t \in Entities, s # t, NEW xs,
         MentionsOf(rows, t, xs) = {}
  PROVE  LET there == Rebound(rows, MentionsOf(rows, s, xs), t)
         IN  Rebound(there, MentionsOf(there, t, xs), s) = rows
<1> DEFINE moved == MentionsOf(rows, s, xs)
           carried == Carried(moved, t)
           there == Rebound(rows, moved, t)
<1>1. there = (rows \ moved) \cup carried
  BY DEF Rebound
<1>2. \A m \in carried : m.entity = t /\ m.source \in xs
  BY DEF Carried, MentionsOf, Mention
<1>3. \A m \in rows \ moved : ~(m.entity = t /\ m.source \in xs)
  BY DEF MentionsOf
<1>4. MentionsOf(there, t, xs) = carried
  BY <1>1, <1>2, <1>3 DEF MentionsOf
<1>5. there \ carried = rows \ moved
  BY <1>1, <1>2, <1>3
<1>6. Carried(carried, s) = moved
  <2>1. \A m \in moved : m \in Mention /\ [[m EXCEPT !.entity = t] EXCEPT !.entity = s] = m
    BY DEF MentionsOf, Mention
  <2>2. ASSUME NEW m \in moved PROVE m \in Carried(carried, s)
    <3>1. [m EXCEPT !.entity = t] \in carried
      BY DEF Carried
    <3> HIDE DEF carried, moved
    <3>2. [[m EXCEPT !.entity = t] EXCEPT !.entity = s] \in Carried(carried, s)
      BY <3>1 DEF Carried
    <3> QED
      BY <2>1, <3>2
  <2>3. ASSUME NEW n \in Carried(carried, s) PROVE n \in moved
    <3>1. PICK k \in carried : n = [k EXCEPT !.entity = s]
      BY DEF Carried
    <3>2. PICK m \in moved : k = [m EXCEPT !.entity = t]
      BY DEF Carried
    <3> QED
      BY <2>1, <3>1, <3>2
  <2> QED
    BY <2>2, <2>3
<1>7. Rebound(there, carried, s) = (rows \ moved) \cup moved
  BY <1>5, <1>6 DEF Rebound
<1>8. moved \subseteq rows
  BY DEF MentionsOf
<1> QED
  BY <1>4, <1>7, <1>8

\* The claims come back with them, if none of the experiences named the target.
LEMMA ClaimsRunBack ==
  ASSUME NEW table \in [Claims -> Claim \cup {None}], NEW s \in Entities, NEW t \in Entities,
         NEW xs,
         \A c \in Claims : table[c] # None /\ table[c].source \in xs =>
                             table[c].subject # t /\ table[c].object # t
  PROVE  Repointed(Repointed(table, s, t, xs), t, s, xs) = table
<1> DEFINE there == Repointed(table, s, t, xs)
           back == Repointed(there, t, s, xs)
<1>1. there \in [Claims -> Claim \cup {None}] /\ back \in [Claims -> Claim \cup {None}]
  BY RepointedTyped
<1>2. ASSUME NEW c \in Claims PROVE back[c] = table[c]
  <2>1. CASE table[c] # None /\ table[c].source \in xs
    <3>1. table[c] \in Claim /\ there[c] = Moved(table[c], s, t)
      BY <2>1 DEF Repointed
    <3>2. there[c] \in Claim /\ there[c].source \in xs
      BY <2>1, <3>1, MovedTyped
    <3>3. there[c] # None
      BY <3>2, EntityReadsAssumption DEF EntityReadsAssumption
    <3>4. back[c] = Moved(there[c], t, s)
      BY <3>2, <3>3 DEF Repointed
    <3>5. back[c] \in Claim
      BY <3>2, <3>4, MovedTyped
    <3>6. back[c].subject = table[c].subject /\ back[c].object = table[c].object
      BY <2>1, <3>1, <3>2, <3>4, MovedTyped
    <3>7. /\ back[c].source = table[c].source /\ back[c].confidence = table[c].confidence
          /\ back[c].live = table[c].live
      BY <3>1, <3>2, <3>4, MovedTyped
    <3> QED
      BY <3>1, <3>5, <3>6, <3>7 DEF Claim
  <2>2. CASE ~(table[c] # None /\ table[c].source \in xs)
    BY <2>2 DEF Repointed
  <2> QED
    BY <2>1, <2>2
<1> HIDE DEF back
<1>3. back = table
  BY <1>1, <1>2
<1> QED
  BY <1>3 DEF back

-----------------------------------------------------------------------------
(***************************************************************************)
(* Types, and the rows name entities there are.                            *)
(***************************************************************************)
RowsTyped == mentions \subseteq Mention /\ claims \in [Claims -> Claim \cup {None}]

EndpointsExist ==
  \A c \in Written : /\ claims[c].subject \in exists
                     /\ claims[c].object # None => claims[c].object \in exists

RInv == FlatInv /\ RowsTyped /\ EndpointsExist

LEMMA RInit == ReadsInit => RInv
<1> SUFFICES ASSUME ReadsInit PROVE RInv
  OBVIOUS
<1>1. FlatInv
  BY FlatInit DEF ReadsInit
<1>2. RowsTyped /\ EndpointsExist
  BY DEF ReadsInit, RowsTyped, EndpointsExist, Written
<1> QED
  BY <1>1, <1>2 DEF RInv

LEMMA ExistsGrow == ASSUME [ReadsNext]_<<vars, rvars>> PROVE exists \subseteq exists'
BY ReadsMoveTheGraph DEF Next, Create, Unmerge, QueueCandidate, MergeEntities, AutoMerge, Reject,
                         ConfirmRead, ConfirmMerge, vars

\* The claims a split repoints are typed and name what is there, the target included.
LEMMA RepointedRows ==
  ASSUME RowsTyped, EndpointsExist, NEW s \in Entities, NEW t \in Entities, SplitTarget(s, t),
         NEW xs, claims' = Repointed(claims, s, t, xs) \/ UNCHANGED claims
  PROVE  claims' \in [Claims -> Claim \cup {None}] /\ EndpointsExist'
<1>1. claims' \in [Claims -> Claim \cup {None}]
  BY RepointedTyped DEF RowsTyped
<1>2. ASSUME NEW c \in Claims, claims'[c] # None
      PROVE  /\ claims'[c].subject \in exists'
             /\ claims'[c].object # None => claims'[c].object \in exists'
  <2>1. exists' = exists \cup {t}
    BY DEF SplitTarget
  <2>2. CASE claims'[c] = claims[c]
    BY <1>2, <2>1, <2>2 DEF EndpointsExist, Written
  <2>3. CASE claims[c] # None /\ claims'[c] = Moved(claims[c], s, t)
    <3>1. claims[c] \in Claim
      BY <2>3 DEF RowsTyped
    <3> QED
      BY <2>1, <2>3, <3>1, MovedTyped DEF EndpointsExist, Written
  <2> QED
    BY <2>2, <2>3 DEF Repointed
<1> QED
  BY <1>1, <1>2 DEF EndpointsExist, Written

LEMMA BoundRowsStep ==
  ASSUME RowsTyped, EndpointsExist, [ReadsNext]_<<vars, rvars>>
  PROVE  RowsTyped' /\ EndpointsExist'
<1>0. exists \subseteq exists'
  BY ExistsGrow
<1>1. ASSUME UNCHANGED claims PROVE EndpointsExist'
  BY <1>0, <1>1 DEF EndpointsExist, Written
<1>2. CASE UNCHANGED rvars
  BY <1>1, <1>2 DEF rvars, RowsTyped
<1>3. ASSUME NEW x \in Experiences, NEW e \in Entities, NEW f \in Forms, AddMention(x, e, f)
      PROVE  RowsTyped' /\ EndpointsExist'
  BY <1>1, <1>3 DEF AddMention, RowsTyped, Mention
<1>4. ASSUME NEW c \in Claims, NEW a \in Entities, NEW o \in Entities \cup {None},
             WriteClaim(c, a, o)
      PROVE  RowsTyped' /\ EndpointsExist'
  <2> DEFINE new == [subject |-> a, object |-> o, live |-> TRUE,
                     source |-> Draft[c].source, confidence |-> Draft[c].confidence]
  <2>1. new \in Claim
    BY EntityReadsAssumption DEF EntityReadsAssumption, Claim
  <2>2. claims' = [claims EXCEPT ![c] = new] /\ UNCHANGED <<exists, mentions>>
    BY <1>4 DEF WriteClaim, vars
  <2>3. RowsTyped'
    BY <2>1, <2>2 DEF RowsTyped
  <2>4. a \in exists /\ (o # None => o \in exists)
    BY <1>4 DEF WriteClaim, Live
  <2>5. \A d \in Claims : claims'[d] = IF d = c THEN new ELSE claims[d]
    BY <2>2 DEF RowsTyped
  <2> QED
    BY <2>2, <2>3, <2>4, <2>5 DEF EndpointsExist, Written
<1>5. ASSUME NEW c \in Claims, RetractClaim(c) PROVE RowsTyped' /\ EndpointsExist'
  <2>1. claims[c] \in Claim /\ UNCHANGED <<exists, mentions>>
    BY <1>5 DEF RetractClaim, Asserted, Written, RowsTyped, vars
  <2>2. [claims[c] EXCEPT !.live = FALSE] \in Claim
    BY <2>1 DEF Claim
  <2>3. claims' = [claims EXCEPT ![c] = [claims[c] EXCEPT !.live = FALSE]]
    BY <1>5 DEF RetractClaim
  <2>4. \A d \in Claims : claims'[d] = IF d = c THEN [claims[c] EXCEPT !.live = FALSE]
                                                ELSE claims[d]
    BY <2>3 DEF RowsTyped
  <2>5. c \in Written
    BY <1>5 DEF RetractClaim, Asserted
  <2>6. [claims[c] EXCEPT !.live = FALSE].subject = claims[c].subject
        /\ [claims[c] EXCEPT !.live = FALSE].object = claims[c].object
    BY <2>1 DEF Claim
  <2> QED
    BY <2>1, <2>2, <2>3, <2>4, <2>5, <2>6 DEF RowsTyped, EndpointsExist, Written
<1>6. ASSUME NEW s \in Entities, NEW t \in Entities, SplitTarget(s, t), NEW xs,
             NEW moved \in SUBSET mentions,
             mentions' = Rebound(mentions, moved, t) \/ UNCHANGED mentions,
             claims' = Repointed(claims, s, t, xs) \/ UNCHANGED claims
      PROVE  RowsTyped' /\ EndpointsExist'
  <2>1. mentions' \subseteq Mention
    BY <1>6, ReboundTyped DEF RowsTyped
  <2> QED
    BY <1>6, <2>1, RepointedRows DEF RowsTyped
<1>7. ASSUME NEW s \in Entities, NEW t \in Entities, NEW xs \in SUBSET Experiences,
             SplitEntity(s, t, xs)
      PROVE  RowsTyped' /\ EndpointsExist'
  BY <1>6, <1>7 DEF SplitEntity, MentionsOf
<1>8. ASSUME NEW s \in Entities, NEW t \in Entities, NEW x \in Experiences, SplitClaims(s, t, x)
      PROVE  RowsTyped' /\ EndpointsExist'
  BY <1>6, <1>8 DEF SplitClaims
<1>9. ASSUME NEW s \in Entities, NEW t \in Entities, NEW x \in Experiences, NEW f \in Forms,
             SplitMention(s, t, x, f)
      PROVE  RowsTyped' /\ EndpointsExist'
  BY <1>6, <1>9 DEF SplitMention, MentionsOf
<1> QED
  BY <1>2, <1>3, <1>4, <1>5, <1>7, <1>8, <1>9 DEF ReadsNext

LEMMA RStep == ASSUME RInv, [ReadsNext]_<<vars, rvars>> PROVE RInv'
<1>1. FlatInv'
  BY ReadsMoveTheGraph, FlatStep DEF RInv
<1> QED
  BY <1>1, BoundRowsStep DEF RInv

LEMMA ReadsInvariant == ReadsSpec => []RInv
BY RInit, RStep, PTL DEF ReadsSpec

\* The rows of brain.mentions and brain.claims keep their types, and the graph beneath
\* them stays typed and flat, splits included.
THEOREM ReadsTypeCorrect == ReadsSpec => []ReadsTypeOK
<1>1. RInv => ReadsTypeOK
  BY DEF RInv, FlatInv, RowsTyped, ReadsTypeOK
<1> QED
  BY <1>1, ReadsInvariant, PTL

-----------------------------------------------------------------------------
(***************************************************************************)
(* The counts of the review surfaces.                                      *)
(***************************************************************************)
LEMMA ClustersOwnTheirClaims ==
  ASSUME RInv, NEW e \in Entities
  PROVE  Endpoints(e) = {c \in Asserted : NamesAny(c, {m \in exists : Survivor(m) = e})}
<1>1. ASSUME NEW c \in Asserted
      PROVE  c \in Endpoints(e) <=> NamesAny(c, {m \in exists : Survivor(m) = e})
  <2>1. claims[c] \in Claim /\ c \in Written
    BY DEF Asserted, Written, RInv, RowsTyped
  <2>2. claims[c].subject # None
    BY <2>1, EntityGraphAssumption DEF EntityGraphAssumption, Claim
  <2>3. /\ claims[c].subject \in exists
        /\ claims[c].object # None => claims[c].object \in exists
    BY <2>1 DEF RInv, EndpointsExist
  <2>4. None \notin exists
    BY EntityGraphAssumption DEF EntityGraphAssumption, RInv, FlatInv, TypeOK, GraphTyped
  <2>5. c \in Endpoints(e) <=> \/ Survivor(claims[c].subject) = e
                               \/ claims[c].object # None /\ Survivor(claims[c].object) = e
    BY <2>2 DEF Endpoints
  <2> QED
    BY <2>2, <2>3, <2>4, <2>5 DEF NamesAny
<1> QED
  BY <1>1 DEF Endpoints

\* A claim adds one to the degree of each cluster it touches, whatever its endpoints
\* have been merged into since (_SPLIT_CANDIDATES_SQL).
THEOREM DegreeCountsClaimsOnceHolds == ReadsSpec => []DegreeCountsClaimsOnce
<1>1. ASSUME RInv PROVE DegreeCountsClaimsOnce
  <2>1. exists \subseteq Entities
    BY <1>1 DEF RInv, FlatInv, TypeOK, GraphTyped
  <2> QED
    BY <1>1, <2>1, ClustersOwnTheirClaims DEF DegreeCountsClaimsOnce, Degree
<1> QED
  BY <1>1, ReadsInvariant, PTL

-----------------------------------------------------------------------------
(***************************************************************************)
(* The splits.                                                             *)
(***************************************************************************)
\* A surface of an experience is bound, to what it was bound to or, if that is live,
\* to what a split moved it to.
KeptBound(m) ==
  \E n \in mentions' : /\ n.source = m.source /\ n.form = m.form
                       /\ n.entity = m.entity \/ Live(m.entity)

LEMMA SplitKeepsBound ==
  ASSUME RowsTyped, NEW s \in Entities, Live(s), NEW t \in Entities, NEW xs,
         NEW moved \in SUBSET MentionsOf(mentions, s, xs),
         mentions' = Rebound(mentions, moved, t), NEW m \in mentions
  PROVE  KeptBound(m)
<1>1. CASE m \in moved
  <2>1. m \in Mention /\ m.entity = s
    BY <1>1 DEF RowsTyped, MentionsOf
  <2>2. [m EXCEPT !.entity = t] \in mentions'
    BY <1>1 DEF Rebound, Carried
  <2>3. [m EXCEPT !.entity = t].source = m.source /\ [m EXCEPT !.entity = t].form = m.form
    BY <2>1 DEF Mention
  <2> QED
    BY <2>1, <2>2, <2>3 DEF KeptBound
<1>2. CASE m \notin moved
  BY <1>2 DEF Rebound, KeptBound
<1> QED
  BY <1>1, <1>2

LEMMA StepKeepsBound ==
  ASSUME RowsTyped, [ReadsNext]_<<vars, rvars>>, NEW m \in mentions
  PROVE  KeptBound(m)
<1>1. CASE mentions \subseteq mentions'
  BY <1>1 DEF KeptBound
<1>2. ASSUME NEW s \in Entities, NEW t \in Entities, NEW xs \in SUBSET Experiences,
             SplitEntity(s, t, xs)
      PROVE  KeptBound(m)
  BY <1>2, SplitKeepsBound DEF SplitEntity, SplitTarget
<1>3. ASSUME NEW s \in Entities, NEW t \in Entities, NEW x \in Experiences, NEW f \in Forms,
             SplitMention(s, t, x, f)
      PROVE  KeptBound(m)
  BY <1>3, SplitKeepsBound DEF SplitMention, SplitTarget
<1>4. \/ mentions \subseteq mentions'
      \/ \E s, t \in Entities :
           \/ \E xs \in SUBSET Experiences : SplitEntity(s, t, xs)
           \/ \E x \in Experiences, f \in Forms : SplitMention(s, t, x, f)
  BY DEF ReadsNext, AddMention, WriteClaim, RetractClaim, SplitClaims, rvars
<1> QED
  BY <1>1, <1>2, <1>3, <1>4

LEMMA SplitRunsBack ==
  ASSUME RowsTyped, NEW s \in Entities, NEW t \in Entities, NEW xs,
         MentionsOf(mentions, t, xs) = {},
         \A c \in Written : claims[c].source \in xs => ~NamesAny(c, {t}),
         SplitEntity(s, t, xs)
  PROVE  /\ Rebound(mentions', MentionsOf(mentions', t, xs), s) = mentions
         /\ Repointed(claims', t, s, xs) = claims
<1>1. /\ s # t
      /\ mentions' = Rebound(mentions, MentionsOf(mentions, s, xs), t)
      /\ claims' = Repointed(claims, s, t, xs)
  BY DEF SplitEntity, SplitTarget
<1>2. \A c \in Claims : claims[c] # None /\ claims[c].source \in xs =>
                          claims[c].subject # t /\ claims[c].object # t
  BY DEF Written, NamesAny
<1>3. mentions \in SUBSET Mention /\ claims \in [Claims -> Claim \cup {None}]
  BY DEF RowsTyped
<1>4. Rebound(mentions', MentionsOf(mentions', t, xs), s) = mentions
  BY <1>1, <1>3, MentionsRunBack
<1>5. Repointed(claims', t, s, xs) = claims
  BY <1>1, <1>2, <1>3, ClaimsRunBack
<1> QED
  BY <1>4, <1>5

\* A split onto an entity with nothing in those experiences can be run back to the very
\* rows there were, and no step unbinds a surface or takes a tombstone's rows from it
\* (_repoint_entity_references and its two narrower forms).
THEOREM SplitsRunBackHolds == ReadsSpec => SplitsRunBack
<1> DEFINE Safe == /\ rvars' # rvars =>
                        \A s, t \in exists', xs \in SUBSET Experiences :
                          /\ s # t /\ Live(s) /\ xs # {} /\ MentionsOf(mentions', s, xs) = {}
                          /\ MentionsOf(mentions, t, xs) = {}
                          /\ \A c \in Written : claims[c].source \in xs => ~NamesAny(c, {t})
                          /\ SplitEntity(s, t, xs)
                          => /\ Rebound(mentions', MentionsOf(mentions', t, xs), s) = mentions
                             /\ Repointed(claims', t, s, xs) = claims
                   /\ \A m \in mentions : \E n \in mentions' :
                        /\ n.source = m.source /\ n.form = m.form
                        /\ n.entity = m.entity \/ Live(m.entity)
<1>1. ASSUME RInv, RInv', [ReadsNext]_<<vars, rvars>> PROVE Safe
  <2>1. exists' \subseteq Entities
    BY <1>1 DEF RInv, FlatInv, TypeOK, GraphTyped
  <2>2. \A m \in mentions : KeptBound(m)
    BY <1>1, StepKeepsBound DEF RInv
  <2> QED
    BY <1>1, <2>1, <2>2, SplitRunsBack DEF RInv, KeptBound
<1>2. ASSUME RInv, RInv', [ReadsNext]_<<vars, rvars>> PROVE [Safe]_<<vars, rvars>>
  BY <1>1, <1>2
<1> HIDE DEF Safe
<1>3. ReadsSpec => [][Safe]_<<vars, rvars>>
  BY <1>2, ReadsInvariant, PTL DEF ReadsSpec
<1> QED
  BY <1>3 DEF Safe, SplitsRunBack

-----------------------------------------------------------------------------
(***************************************************************************)
(* The impact gate.                                                        *)
(***************************************************************************)
\* A pair of live concepts the impact gate hides has at most one mention beside either
\* side: what the gate counts for a live entity is what the workbench shows for it
\* (LOW_IMPACT_MERGE_SQL).
THEOREM GateAgreesWithCountsHolds == ReadsSpec => []GateAgreesWithCounts
<1>1. GateAgreesWithCounts
  BY DEF GateAgreesWithCounts, Hidden, LowImpact, Live, Survivor, ShownCount, GateCount
<1> QED
  BY <1>1, PTL

-----------------------------------------------------------------------------
(***************************************************************************)
(* relationships_to.  Both walks are recursive functions of the length;    *)
(* each satisfies its equation, by induction on the length.                *)
(***************************************************************************)
StartRow(seed) ==
  [node |-> Survivor(seed), hops |-> 0, conf |-> 1000, visited |-> {Survivor(seed)}]
Farther(before, h, floor) ==
  before \cup UNION {Onward(w, floor) : w \in {v \in before : v.hops = h - 1}}
IsWalk(rows, n, seed, floor) ==
  rows = [h \in 0..n |-> IF h = 0 THEN {StartRow(seed)} ELSE Farther(rows[h - 1], h, floor)]

StartProduct(seed) == [node |-> Survivor(seed), hops |-> 0, product |-> 1000]
IsReach(products, hops, seed) ==
  products = [n \in 0..hops |-> IF n = 0 THEN {StartProduct(seed)}
                                ELSE Relaxed(products[n - 1], n)]
LEMMA WalkExists ==
  ASSUME NEW seed, NEW floor, NEW hops \in Nat
  PROVE  \E rows : IsWalk(rows, hops, seed, floor)
<1> DEFINE Step(before, h) == Farther(before, h, floor)
           Rec(g, n) == g = [h \in 0..n |-> IF h = 0 THEN {StartRow(seed)} ELSE Step(g[h - 1], h)]
           Unbuilt == {n \in Nat : \A g : ~Rec(g, n)}
<1>1. SUFFICES Unbuilt = {}
  <2>1. \A g : Rec(g, hops) <=> IsWalk(g, hops, seed, floor)
    BY DEF IsWalk
  <2> HIDE DEF Rec
  <2> QED
    BY <2>1
<1> HIDE DEF Step
<1>2. SUFFICES ASSUME NEW n \in Unbuilt, \A k \in Unbuilt : n <= k PROVE FALSE
  <2> HIDE DEF Unbuilt
  <2>1. Unbuilt \subseteq Nat
    BY DEF Unbuilt
  <2> QED
    BY <2>1, LeastNat
<1>3. CASE n = 0
  <2>1. Rec([h \in 0..0 |-> {StartRow(seed)}], 0)
    OBVIOUS
  <2> QED
    BY <1>3, <2>1
<1>4. CASE n # 0
  <2>1. n \in Nat
    OBVIOUS
  <2>2. n - 1 \in Nat /\ n - 1 \notin Unbuilt
    <3> HIDE DEF Unbuilt
    <3> QED
      BY <1>2, <1>4, <2>1
  <2>3. PICK g : Rec(g, n - 1)
    <3> HIDE DEF Rec
    <3> QED
      BY <2>2
  <2> DEFINE r == [h \in 0..n |-> IF h = n THEN Step(g[n - 1], n) ELSE g[h]]
  <2>4. Rec(r, n)
    <3>1. ASSUME NEW d \in 0..n
          PROVE  r[d] = IF d = 0 THEN {StartRow(seed)} ELSE Step(r[d - 1], d)
      <4>1. CASE d = n
        BY <1>4, <2>1, <4>1
      <4>2. CASE d # n
        <5>1. d \in 0..(n - 1) /\ (d # 0 => d - 1 \in 0..(n - 1))
          BY <2>1, <4>2
        <5>2. g[d] = IF d = 0 THEN {StartRow(seed)} ELSE Step(g[d - 1], d)
          BY <2>3, <5>1
        <5>3. r[d] = g[d] /\ (d # 0 => r[d - 1] = g[d - 1])
          BY <2>1, <4>2, <5>1
        <5> QED
          BY <5>2, <5>3
      <4> QED
        BY <4>1, <4>2
    <3>2. r = [h \in 0..n |-> r[h]]
      OBVIOUS
    <3> HIDE DEF r
    <3> QED
      BY <3>1, <3>2
  <2>5. n \notin Unbuilt
    <3> HIDE DEF Rec, r
    <3> QED
      BY <2>4
  <2> QED
    BY <2>5
<1> QED
  BY <1>3, <1>4

LEMMA WalkRows ==
  ASSUME NEW seed, NEW floor, NEW hops \in Nat
  PROVE  \E rows : IsWalk(rows, hops, seed, floor) /\ Walk(seed, hops, floor) = rows[hops]
<1> DEFINE r == CHOOSE rows : IsWalk(rows, hops, seed, floor)
<1>1. IsWalk(r, hops, seed, floor)
  <2> HIDE DEF IsWalk
  <2> QED
    BY WalkExists, Zenon
<1>2. Walk(seed, hops, floor) = r[hops]
  BY Zenon DEF Walk, IsWalk, Farther, StartRow
<1> HIDE DEF r
<1> QED
  BY <1>1, <1>2, Zenon

LEMMA ReachExists ==
  ASSUME NEW seed, NEW hops \in Nat
  PROVE  \E products : IsReach(products, hops, seed)
<1> DEFINE Step(before, h) == Relaxed(before, h)
           Rec(g, n) == g = [h \in 0..n |-> IF h = 0 THEN {StartProduct(seed)} ELSE Step(g[h - 1], h)]
           Unbuilt == {n \in Nat : \A g : ~Rec(g, n)}
<1>1. SUFFICES Unbuilt = {}
  <2>1. \A g : Rec(g, hops) <=> IsReach(g, hops, seed)
    BY DEF IsReach
  <2> HIDE DEF Rec
  <2> QED
    BY <2>1
<1> HIDE DEF Step
<1>2. SUFFICES ASSUME NEW n \in Unbuilt, \A k \in Unbuilt : n <= k PROVE FALSE
  <2> HIDE DEF Unbuilt
  <2>1. Unbuilt \subseteq Nat
    BY DEF Unbuilt
  <2> QED
    BY <2>1, LeastNat
<1>3. CASE n = 0
  <2>1. Rec([h \in 0..0 |-> {StartProduct(seed)}], 0)
    OBVIOUS
  <2> QED
    BY <1>3, <2>1
<1>4. CASE n # 0
  <2>1. n \in Nat
    OBVIOUS
  <2>2. n - 1 \in Nat /\ n - 1 \notin Unbuilt
    <3> HIDE DEF Unbuilt
    <3> QED
      BY <1>2, <1>4, <2>1
  <2>3. PICK g : Rec(g, n - 1)
    <3> HIDE DEF Rec
    <3> QED
      BY <2>2
  <2> DEFINE r == [h \in 0..n |-> IF h = n THEN Step(g[n - 1], n) ELSE g[h]]
  <2>4. Rec(r, n)
    <3>1. ASSUME NEW d \in 0..n
          PROVE  r[d] = IF d = 0 THEN {StartProduct(seed)} ELSE Step(r[d - 1], d)
      <4>1. CASE d = n
        BY <1>4, <2>1, <4>1
      <4>2. CASE d # n
        <5>1. d \in 0..(n - 1) /\ (d # 0 => d - 1 \in 0..(n - 1))
          BY <2>1, <4>2
        <5>2. g[d] = IF d = 0 THEN {StartProduct(seed)} ELSE Step(g[d - 1], d)
          BY <2>3, <5>1
        <5>3. r[d] = g[d] /\ (d # 0 => r[d - 1] = g[d - 1])
          BY <2>1, <4>2, <5>1
        <5> QED
          BY <5>2, <5>3
      <4> QED
        BY <4>1, <4>2
    <3>2. r = [h \in 0..n |-> r[h]]
      OBVIOUS
    <3> HIDE DEF r
    <3> QED
      BY <3>1, <3>2
  <2>5. n \notin Unbuilt
    <3> HIDE DEF Rec, r
    <3> QED
      BY <2>4
  <2> QED
    BY <2>5
<1> QED
  BY <1>3, <1>4

LEMMA ReachProducts ==
  ASSUME NEW seed, NEW floor, NEW hops \in Nat
  PROVE  \E products :
           /\ IsReach(products, hops, seed)
           /\ ClusterReach(seed, hops, floor)
                = Answers({r \in products[hops] : r.product >= floor /\ r.node # Survivor(seed)})
<1> DEFINE p == CHOOSE products : IsReach(products, hops, seed)
<1>1. IsReach(p, hops, seed)
  <2> HIDE DEF IsReach
  <2> QED
    BY ReachExists, Zenon
<1>2. ClusterReach(seed, hops, floor)
        = Answers({r \in p[hops] : r.product >= floor /\ r.node # Survivor(seed)})
  BY Zenon DEF ClusterReach, IsReach, StartProduct
<1> HIDE DEF p
<1> QED
  BY <1>1, <1>2, Zenon

\* A product weakens by tenths: order is kept, nothing grows, and the floor can be asked
\* of the product before the division.
LEMMA Weakening ==
  ASSUME NEW a \in Nat, NEW b \in Nat, b <= a, NEW k \in 1..10, NEW floor \in Nat
  PROVE  /\ (b * k) \div 10 \in Nat
         /\ (b * k) \div 10 <= b
         /\ (b * k) \div 10 <= (a * k) \div 10
         /\ b * k <= a * k
         /\ (b * k) \div 10 >= floor <=> b * k >= 10 * floor
<1>1. /\ b * k \in Nat /\ a * k \in Nat
      /\ b * k <= 10 * b /\ b * k <= a * k
  <2>1. k \in {1, 2, 3, 4, 5, 6, 7, 8, 9, 10}
    OBVIOUS
  <2> QED
    BY <2>1
<1>2. ASSUME NEW m \in Nat, NEW o \in Nat, m <= 10 * b, m <= o
      PROVE  /\ m \div 10 \in Nat
             /\ m \div 10 <= b
             /\ m \div 10 <= o \div 10
             /\ m \div 10 >= floor <=> m >= 10 * floor
  BY <1>2
<1> QED
  BY <1>1, <1>2

\* A claim joins the node x of a walk to the cluster of y.
Joins(c, x, y) ==
  \E id \in Members(x) : /\ claims[c].object # None
                         /\ id \in {claims[c].subject, claims[c].object}
                         /\ Survivor(Other(c, id)) = y

LEMMA SurvivorsLive ==
  ASSUME RInv, NEW e \in exists
  PROVE  Survivor(e) \in exists /\ Live(Survivor(e)) /\ Survivor(e) \in Entities
<1>1. exists \subseteq Entities
  BY DEF RInv, FlatInv, TypeOK, GraphTyped
<1>2. CASE merged[e] = None
  BY <1>1, <1>2 DEF Survivor, Live
<1>3. CASE merged[e] # None
  BY <1>1, <1>3 DEF Survivor, Live, RInv, FlatInv, OneHop, MergedExist
<1> QED
  BY <1>2, <1>3

\* What the anchored lookup of a live node finds is what lies between the clusters.
LEMMA JoinsAreEdges ==
  ASSUME RInv, NEW x, Live(x), NEW c \in Asserted, NEW y, x # y
  PROVE  Joins(c, x, y) <=> /\ claims[c].object # None
                            /\ {Survivor(claims[c].subject), Survivor(claims[c].object)} = {x, y}
<1>1. c \in Written /\ claims[c] \in Claim
  BY DEF Asserted, Written, RInv, RowsTyped
<1>2. claims[c].subject \in exists /\ (claims[c].object # None => claims[c].object \in exists)
  BY <1>1 DEF RInv, EndpointsExist
<1>3. \A id \in exists : id \in Members(x) <=> Survivor(id) = x
  <2>1. None \notin exists /\ x \in exists
    BY EntityGraphAssumption DEF EntityGraphAssumption, RInv, FlatInv, TypeOK, GraphTyped, Live
  <2> QED
    BY <2>1 DEF Members, Survivor, Live
<1>4. ASSUME Joins(c, x, y)
      PROVE  /\ claims[c].object # None
             /\ {Survivor(claims[c].subject), Survivor(claims[c].object)} = {x, y}
  BY <1>2, <1>3, <1>4 DEF Joins, Other
<1>5. ASSUME claims[c].object # None,
             {Survivor(claims[c].subject), Survivor(claims[c].object)} = {x, y}
      PROVE  Joins(c, x, y)
  <2>1. CASE Survivor(claims[c].subject) = x /\ Survivor(claims[c].object) = y
    BY <1>2, <1>3, <1>5, <2>1 DEF Joins, Other
  <2>2. CASE Survivor(claims[c].subject) = y /\ Survivor(claims[c].object) = x
    <3>1. claims[c].subject # claims[c].object
      BY <2>2
    <3> QED
      BY <1>2, <1>3, <1>5, <2>2, <3>1 DEF Joins, Other
  <2> QED
    BY <1>5, <2>1, <2>2
<1> QED
  BY <1>4, <1>5

LEMMA EdgesAreJoins ==
  ASSUME RInv, NEW x, Live(x), NEW y
  PROVE  /\ EdgeConfidences(x, y)
              = {claims[c].confidence : c \in {d \in Asserted : x # y /\ Joins(d, x, y)}}
         /\ EdgeConfidences(x, y) \subseteq 1..10
         /\ \A c \in Asserted : Joins(c, x, y) => Live(y) /\ y \in Entities
<1>1. {d \in Asserted : claims[d].object # None
           /\ x # y /\ {Survivor(claims[d].subject), Survivor(claims[d].object)} = {x, y}}
        = {d \in Asserted : x # y /\ Joins(d, x, y)}
  BY JoinsAreEdges
<1>2. \A c \in Asserted : claims[c] \in Claim
  BY DEF Asserted, Written, RInv, RowsTyped
<1>3. \A c \in Asserted : claims[c].confidence \in 1..10
  BY <1>2 DEF Claim
<1>4. ASSUME NEW c \in Asserted, Joins(c, x, y) PROVE Live(y) /\ y \in Entities
  <2>1. PICK id : /\ claims[c].object # None
                  /\ id \in {claims[c].subject, claims[c].object}
                  /\ Survivor(Other(c, id)) = y
    BY <1>4 DEF Joins
  <2>2. Other(c, id) \in exists
    BY <2>1 DEF Other, RInv, EndpointsExist, Asserted
  <2> QED
    BY <2>1, <2>2, SurvivorsLive
<1> QED
  BY <1>1, <1>3, <1>4 DEF EdgeConfidences

\* A row of the walk one claim further, and one that may be walked.
Extended(w, c, y) ==
  [node |-> y, hops |-> w.hops + 1, conf |-> (w.conf * claims[c].confidence) \div 10,
   visited |-> w.visited \cup {y}]
Walked(w, c, y, floor) ==
  Joins(c, w.node, y) /\ y \notin w.visited /\ w.conf * claims[c].confidence >= 10 * floor

LEMMA OnwardRows ==
  ASSUME NEW w, NEW floor, NEW v
  PROVE  v \in Onward(w, floor) <=>
           \E c \in Asserted : \E y : Walked(w, c, y, floor) /\ v = Extended(w, c, y)
<1>1. ASSUME v \in Onward(w, floor)
      PROVE  \E c \in Asserted : \E y : Walked(w, c, y, floor) /\ v = Extended(w, c, y)
  <2>1. PICK q \in Asserted \X Members(w.node) :
           /\ claims[q[1]].object # None
           /\ q[2] \in {claims[q[1]].subject, claims[q[1]].object}
           /\ Survivor(Other(q[1], q[2])) \notin w.visited
           /\ w.conf * claims[q[1]].confidence >= 10 * floor
           /\ v = Extended(w, q[1], Survivor(Other(q[1], q[2])))
    BY <1>1 DEF Onward, Extended
  <2>2. Walked(w, q[1], Survivor(Other(q[1], q[2])), floor)
    BY <2>1 DEF Walked, Joins
  <2> QED
    BY <2>1, <2>2
<1>2. ASSUME NEW c \in Asserted, NEW y, Walked(w, c, y, floor), v = Extended(w, c, y)
      PROVE  v \in Onward(w, floor)
  <2>1. PICK id \in Members(w.node) : /\ claims[c].object # None
                                      /\ id \in {claims[c].subject, claims[c].object}
                                      /\ Survivor(Other(c, id)) = y
    BY <1>2 DEF Walked, Joins
  <2> DEFINE q == <<c, id>>
  <2>2. /\ q \in Asserted \X Members(w.node) /\ q[1] = c /\ q[2] = id
    OBVIOUS
  <2> HIDE DEF q
  <2>3. /\ claims[q[1]].object # None
        /\ q[2] \in {claims[q[1]].subject, claims[q[1]].object}
        /\ Survivor(Other(q[1], q[2])) \notin w.visited
        /\ w.conf * claims[q[1]].confidence >= 10 * floor
    BY <1>2, <2>1, <2>2 DEF Walked
  <2>4. v = Extended(w, q[1], Survivor(Other(q[1], q[2])))
    BY <1>2, <2>1, <2>2
  <2> QED
    BY <2>2, <2>3, <2>4 DEF Onward, Extended
<1> QED
  BY <1>1, <1>2

LEMMA RelaxedProducts ==
  ASSUME NEW before, NEW n, NEW v
  PROVE  v \in Relaxed(before, n) <=>
           \/ v \in before
           \/ \E r \in before, y \in Entities : \E k \in EdgeConfidences(r.node, y) :
                v = [node |-> y, hops |-> n, product |-> (r.product * k) \div 10]
<1> DEFINE Over(r, y) == {[node |-> y, hops |-> n, product |-> (r.product * k) \div 10] :
                            k \in EdgeConfidences(r.node, y)}
<1>1. Relaxed(before, n) = before \cup UNION {Over(r, y) : r \in before, y \in Entities}
  BY DEF Relaxed
<1>2. \A r, y : v \in Over(r, y) <=>
        \E k \in EdgeConfidences(r.node, y) :
          v = [node |-> y, hops |-> n, product |-> (r.product * k) \div 10]
  OBVIOUS
<1> HIDE DEF Over
<1>3. v \in UNION {Over(r, y) : r \in before, y \in Entities} <=>
        \E r \in before, y \in Entities : v \in Over(r, y)
  OBVIOUS
<1> QED
  BY <1>1, <1>2, <1>3

(***************************************************************************)
(* What holds of the two walks after n steps: W, the rows of the first,    *)
(* and P, the products of the second.                                      *)
(***************************************************************************)
Row == [node : Entities, hops : Nat, conf : Nat, visited : SUBSET Entities]
Product == [node : Entities, hops : Nat, product : Nat]

\* The visited set of a row names the start and nodes that W reached no later and no
\* weaker.
Visits(W, w, seed) ==
  \A y \in w.visited :
    \/ y = Survivor(seed)
    \/ \E v \in W : v.node = y /\ v.hops > 0 /\ v.hops <= w.hops /\ v.conf >= w.conf

RowOK(W, n, w, seed, floor) ==
  /\ w \in Row /\ Live(w.node)
  /\ w.hops <= n /\ w.conf <= 1000
  /\ {w.node, Survivor(seed)} \subseteq w.visited
  /\ w.hops > 0 => w.conf >= floor /\ w.node # Survivor(seed)
  /\ Visits(W, w, seed)

ProductOK(n, r) == r \in Product /\ Live(r.node) /\ r.hops <= n /\ r.product <= 1000

\* A row has a product of its own; a product at the floor or above has a row that is
\* there no later and no weaker, but for the start.
Counted(P, w) == \E r \in P : r.node = w.node /\ r.hops = w.hops /\ r.product = w.conf
Found(W, r) == \E w \in W : w.node = r.node /\ w.hops > 0 /\ w.hops <= r.hops
                            /\ w.conf >= r.product

Matched(W, P, n, seed, floor) ==
  /\ StartRow(seed) \in W
  /\ \A w \in W : RowOK(W, n, w, seed, floor)
  /\ \A w \in W : w.hops < n => Onward(w, floor) \subseteq W
  /\ \A r \in P : ProductOK(n, r)
  /\ \A w \in W : Counted(P, w)
  /\ \A r \in P : r.product >= floor => r.node = Survivor(seed) \/ Found(W, r)

LEMMA MatchedStart ==
  ASSUME RInv, NEW seed \in exists, NEW floor \in Nat
  PROVE  Matched({StartRow(seed)}, {StartProduct(seed)}, 0, seed, floor)
<1>1. Survivor(seed) \in Entities /\ Live(Survivor(seed))
  BY SurvivorsLive
<1>2. RowOK({StartRow(seed)}, 0, StartRow(seed), seed, floor)
  BY <1>1 DEF RowOK, Row, StartRow, Visits
<1>3. ProductOK(0, StartProduct(seed))
  BY <1>1 DEF ProductOK, Product, StartProduct
<1>4. Counted({StartProduct(seed)}, StartRow(seed))
  BY DEF Counted, StartProduct, StartRow
<1>5. StartProduct(seed).node = Survivor(seed) /\ StartRow(seed).hops = 0
  BY DEF StartProduct, StartRow
<1> QED
  BY <1>2, <1>3, <1>4, <1>5 DEF Matched

LEMMA FartherRows ==
  ASSUME NEW W, NEW P, NEW n \in Nat, NEW seed, NEW floor, Matched(W, P, n, seed, floor)
  PROVE  /\ W \subseteq Farther(W, n + 1, floor)
         /\ \A w \in W : Onward(w, floor) \subseteq Farther(W, n + 1, floor)
         /\ \A v \in Farther(W, n + 1, floor) :
              v \in W \/ \E w \in W : w.hops = n /\ v \in Onward(w, floor)
<1>1. n + 1 - 1 = n
  OBVIOUS
<1>2. \A w \in W : w.hops \in Nat /\ w.hops <= n
  BY DEF Matched, RowOK, Row
<1>3. ASSUME NEW w \in W PROVE Onward(w, floor) \subseteq Farther(W, n + 1, floor)
  <2>1. CASE w.hops < n
    BY <2>1 DEF Matched, Farther
  <2>2. CASE w.hops = n
    BY <1>1, <2>2 DEF Farther
  <2> QED
    BY <1>2, <2>1, <2>2
<1> QED
  BY <1>1, <1>3 DEF Farther

\* A row one claim further is as good as the row it extends.
LEMMA ExtendedOK ==
  ASSUME RInv, NEW W, NEW n \in Nat, NEW seed, NEW floor \in Nat, NEW V, W \subseteq V,
         W \subseteq Row, NEW w \in W, RowOK(W, n, w, seed, floor), w.hops <= n,
         NEW c \in Asserted, NEW y, Walked(w, c, y, floor), Extended(w, c, y) \in V
  PROVE  /\ RowOK(V, n + 1, Extended(w, c, y), seed, floor)
         /\ claims[c].confidence \in EdgeConfidences(w.node, y)
         /\ Live(y) /\ y \in Entities
<1> DEFINE v == Extended(w, c, y)
           k == claims[c].confidence
<1>1. w \in Row /\ Live(w.node) /\ w.node \in w.visited /\ Survivor(seed) \in w.visited
  BY DEF RowOK
<1>2. /\ w.hops \in Nat /\ w.conf \in Nat /\ w.conf <= 1000 /\ w.visited \in SUBSET Entities
  BY <1>1 DEF RowOK, Row
<1>3. /\ Joins(c, w.node, y) /\ y \notin w.visited /\ w.conf * k >= 10 * floor
      /\ y # w.node /\ y # Survivor(seed)
  BY <1>1 DEF Walked
<1>4. k \in EdgeConfidences(w.node, y) /\ k \in 1..10 /\ Live(y) /\ y \in Entities
  <2>1. /\ EdgeConfidences(w.node, y)
              = {claims[d].confidence : d \in {e \in Asserted : w.node # y /\ Joins(e, w.node, y)}}
        /\ EdgeConfidences(w.node, y) \subseteq 1..10
        /\ Live(y) /\ y \in Entities
    BY <1>1, <1>3, EdgesAreJoins, Zenon
  <2> QED
    BY <1>3, <2>1
<1> HIDE DEF k
<1>5. /\ v.node = y /\ v.hops = w.hops + 1 /\ v.conf = (w.conf * k) \div 10
      /\ v.visited = w.visited \cup {y}
      /\ v = [node |-> v.node, hops |-> v.hops, conf |-> v.conf, visited |-> v.visited]
  BY DEF Extended, k
<1> HIDE DEF v
<1>6. v.conf \in Nat /\ v.conf <= w.conf /\ v.conf >= floor
  <2>1. w.conf <= w.conf
    BY <1>2
  <2>2. /\ (w.conf * k) \div 10 \in Nat
        /\ (w.conf * k) \div 10 <= w.conf
        /\ (w.conf * k) \div 10 >= floor
    BY <1>2, <1>3, <1>4, <2>1, Weakening, Zenon
  <2> QED
    BY <1>5, <2>2, Zenon
<1>7. v \in Row
  BY <1>2, <1>4, <1>5, <1>6 DEF Row
<1>8. Visits(V, v, seed)
  <2>1. ASSUME NEW z \in v.visited, z # Survivor(seed)
        PROVE  \E u \in V : u.node = z /\ u.hops > 0 /\ u.hops <= v.hops /\ u.conf >= v.conf
    <3>1. CASE z = y
      <4>1. v \in V
        BY DEF v
      <4> QED
        BY <1>2, <1>5, <1>6, <3>1, <4>1
    <3>2. CASE z \in w.visited
      <4>1. PICK u \in W : u.node = z /\ u.hops > 0 /\ u.hops <= w.hops /\ u.conf >= w.conf
        BY <2>1, <3>2 DEF RowOK, Visits
      <4>2. u \in V /\ u.hops \in Nat /\ u.conf \in Nat
        BY DEF Row
      <4> QED
        BY <1>2, <1>5, <1>6, <4>1, <4>2
    <3> QED
      BY <1>5, <2>1, <3>1, <3>2
  <2> QED
    BY <2>1 DEF Visits
<1>9. RowOK(V, n + 1, v, seed, floor)
  <2>1. v.hops <= n + 1 /\ v.conf <= 1000
    BY <1>2, <1>5, <1>6
  <2>2. {v.node, Survivor(seed)} \subseteq v.visited
    BY <1>1, <1>5
  <2> QED
    BY <1>3, <1>4, <1>5, <1>6, <1>7, <1>8, <2>1, <2>2 DEF RowOK
<1> QED
  BY <1>4, <1>9 DEF v, k

\* One claim onward keeps a row with a product of its own.
LEMMA CountedStep ==
  ASSUME NEW P, NEW n, NEW w, Counted(P, w), w.hops = n, NEW c, NEW y \in Entities,
         claims[c].confidence \in EdgeConfidences(w.node, y)
  PROVE  Counted(Relaxed(P, n + 1), Extended(w, c, y))
<1>1. PICK r \in P : r.node = w.node /\ r.hops = w.hops /\ r.product = w.conf
  BY DEF Counted
<1> DEFINE q == [node |-> y, hops |-> n + 1, product |-> (r.product * claims[c].confidence) \div 10]
<1>2. q \in Relaxed(P, n + 1)
  BY <1>1, RelaxedProducts
<1>3. q.node = Extended(w, c, y).node /\ q.hops = Extended(w, c, y).hops
      /\ q.product = Extended(w, c, y).conf
  BY <1>1 DEF Extended
<1> QED
  BY <1>2, <1>3 DEF Counted

\* The visited guard and the pruning lose nothing: a product one claim onward has its
\* row, the one extended from the row before it or one that had been there already.
LEMMA FoundStep ==
  ASSUME RInv, NEW seed \in exists, NEW floor \in Nat, NEW n \in Nat, NEW W, NEW P, NEW V,
         Matched(W, P, n, seed, floor), W \subseteq V,
         \A w \in W : Onward(w, floor) \subseteq V,
         NEW r \in P, NEW y \in Entities, NEW k \in EdgeConfidences(r.node, y),
         NEW q, q = [node |-> y, hops |-> n + 1, product |-> (r.product * k) \div 10],
         q.product >= floor, y # Survivor(seed)
  PROVE  Found(V, q)
<1>1. ProductOK(n, r) /\ (r.product >= floor => r.node = Survivor(seed) \/ Found(W, r))
  BY DEF Matched
<1>2. /\ r.product \in Nat /\ r.hops \in Nat /\ r.hops <= n /\ r.product <= 1000 /\ Live(r.node)
  BY <1>1 DEF ProductOK, Product
<1>3. /\ EdgeConfidences(r.node, y)
            = {claims[d].confidence : d \in {e \in Asserted : r.node # y /\ Joins(e, r.node, y)}}
      /\ EdgeConfidences(r.node, y) \subseteq 1..10
  BY <1>2, EdgesAreJoins, Zenon
<1>4. PICK c \in Asserted : k = claims[c].confidence /\ Joins(c, r.node, y)
  BY <1>3
<1>5. k \in 1..10
  BY <1>3
<1>6. q.node = y /\ q.hops = n + 1 /\ q.product = (r.product * k) \div 10
  OBVIOUS
<1>7. q.product \in Nat /\ q.product <= r.product /\ r.product * k >= 10 * floor
  <2>1. r.product <= r.product
    BY <1>2
  <2>2. /\ (r.product * k) \div 10 \in Nat
        /\ (r.product * k) \div 10 <= r.product
        /\ (r.product * k) \div 10 >= floor <=> r.product * k >= 10 * floor
    BY <1>2, <1>5, <2>1, Weakening, Zenon
  <2> QED
    BY <1>6, <2>2
<1>8. r.product >= floor
  BY <1>2, <1>6, <1>7
<1>9. PICK w \in W : /\ w.node = r.node /\ w.hops <= r.hops /\ w.conf >= r.product
                     /\ w.hops > 0 \/ w = StartRow(seed)
  <2>1. CASE r.node = Survivor(seed)
    BY <1>2, <2>1 DEF Matched, StartRow
  <2>2. CASE Found(W, r)
    BY <2>2 DEF Found
  <2> QED
    BY <1>1, <1>8, <2>1, <2>2
<1>10. /\ w \in Row /\ w.hops \in Nat /\ w.conf \in Nat /\ Visits(W, w, seed)
  BY DEF Matched, RowOK, Row
<1>11. CASE y \in w.visited
  <2>1. PICK v \in W : v.node = y /\ v.hops > 0 /\ v.hops <= w.hops /\ v.conf >= w.conf
    BY <1>10, <1>11 DEF Visits
  <2>2. v \in V /\ v.hops \in Nat /\ v.conf \in Nat
    BY DEF Matched, RowOK, Row
  <2>3. v.hops <= q.hops /\ v.conf >= q.product
    BY <1>2, <1>6, <1>7, <1>9, <1>10, <2>1, <2>2
  <2> QED
    BY <1>6, <2>1, <2>2, <2>3 DEF Found
<1>12. CASE y \notin w.visited
  <2>1. /\ r.product * k <= w.conf * k
        /\ (r.product * k) \div 10 <= (w.conf * k) \div 10
        /\ (w.conf * k) \div 10 \in Nat
    <3>1. r.product <= w.conf /\ w.conf <= w.conf
      BY <1>2, <1>9, <1>10
    <3> QED
      BY <1>2, <1>5, <1>10, <3>1, Weakening, Zenon
  <2>2. w.conf * k >= 10 * floor
    <3>1. w.conf * k \in Nat /\ r.product * k \in Nat
      BY <1>2, <1>5, <1>10
    <3> QED
      BY <1>7, <2>1, <3>1
  <2>3. Walked(w, c, y, floor)
    BY <1>4, <1>9, <1>12, <2>2 DEF Walked
  <2>4. Extended(w, c, y) \in V
    BY <2>3, OnwardRows, Zenon
  <2>5. /\ Extended(w, c, y).node = y /\ Extended(w, c, y).hops = w.hops + 1
        /\ Extended(w, c, y).conf = (w.conf * k) \div 10
    BY <1>4 DEF Extended
  <2>6. /\ Extended(w, c, y).hops > 0 /\ Extended(w, c, y).hops <= q.hops
        /\ Extended(w, c, y).conf >= q.product
    BY <1>2, <1>6, <1>7, <1>9, <1>10, <2>1, <2>5
  <2> QED
    BY <1>6, <2>4, <2>5, <2>6 DEF Found
<1> QED
  BY <1>11, <1>12

LEMMA MatchedStep ==
  ASSUME RInv, NEW seed \in exists, NEW floor \in Nat, NEW n \in Nat, NEW W, NEW P,
         Matched(W, P, n, seed, floor)
  PROVE  Matched(Farther(W, n + 1, floor), Relaxed(P, n + 1), n + 1, seed, floor)
<1> DEFINE V == Farther(W, n + 1, floor)
           Q == Relaxed(P, n + 1)
<1>1. /\ W \subseteq V
      /\ \A w \in W : Onward(w, floor) \subseteq V
      /\ \A v \in V : v \in W \/ \E w \in W : w.hops = n /\ v \in Onward(w, floor)
  BY FartherRows
<1>2. P \subseteq Q
  BY RelaxedProducts
<1> HIDE DEF V, Q
<1>3. \A w \in W : RowOK(W, n, w, seed, floor) /\ w.hops \in Nat /\ w.hops <= n
  BY DEF Matched, RowOK, Row
<1>4. W \subseteq Row
  BY DEF Matched, RowOK
<1>5. ASSUME NEW v \in V, v \notin W
      PROVE  /\ RowOK(V, n + 1, v, seed, floor)
             /\ v.hops = n + 1
             /\ Counted(Q, v)
  <2>1. PICK w \in W : w.hops = n /\ v \in Onward(w, floor)
    BY <1>1, <1>5
  <2>2. PICK c \in Asserted : \E y : Walked(w, c, y, floor) /\ v = Extended(w, c, y)
    BY <2>1, OnwardRows
  <2>3. PICK y : Walked(w, c, y, floor) /\ v = Extended(w, c, y)
    BY <2>2
  <2>4. /\ RowOK(V, n + 1, v, seed, floor)
        /\ claims[c].confidence \in EdgeConfidences(w.node, y)
        /\ y \in Entities
    BY <1>1, <1>3, <1>4, <2>3, ExtendedOK
  <2>5. v.hops = n + 1
    BY <2>1, <2>3 DEF Extended
  <2>6. Counted(Q, v)
    BY <2>1, <2>3, <2>4, CountedStep DEF Q, Matched
  <2> QED
    BY <2>4, <2>5, <2>6
<1>6. ASSUME NEW w \in W PROVE RowOK(V, n + 1, w, seed, floor) /\ Counted(Q, w)
  <2>1. Counted(Q, w)
    BY <1>2 DEF Matched, Counted
  <2>2. Visits(V, w, seed)
    BY <1>1, <1>3 DEF RowOK, Visits
  <2>3. w.hops <= n + 1
    BY <1>3
  <2> QED
    BY <1>3, <2>1, <2>2, <2>3 DEF RowOK
<1>7. \A r \in P : ProductOK(n, r)
  BY DEF Matched
<1>8. ASSUME NEW q \in Q
      PROVE  ProductOK(n + 1, q) /\ (q.product >= floor => q.node = Survivor(seed) \/ Found(V, q))
  <2>1. CASE q \in P
    <3>1. ProductOK(n + 1, q)
      BY <1>7, <2>1 DEF ProductOK, Product
    <3>2. q.product >= floor => q.node = Survivor(seed) \/ Found(V, q)
      BY <1>1, <2>1 DEF Matched, Found
    <3> QED
      BY <3>1, <3>2
  <2>2. CASE q \notin P
    <3>1. PICK r \in P, y \in Entities : \E k \in EdgeConfidences(r.node, y) :
             q = [node |-> y, hops |-> n + 1, product |-> (r.product * k) \div 10]
      BY <2>2, RelaxedProducts DEF Q
    <3>2. PICK k \in EdgeConfidences(r.node, y) :
             q = [node |-> y, hops |-> n + 1, product |-> (r.product * k) \div 10]
      BY <3>1
    <3>3. /\ r.product \in Nat /\ r.product <= 1000 /\ Live(r.node)
      BY <1>7 DEF ProductOK, Product
    <3>4. k \in 1..10 /\ Live(y)
      BY <3>3, EdgesAreJoins
    <3>5. (r.product * k) \div 10 \in Nat /\ (r.product * k) \div 10 <= 1000
      <4>1. r.product <= r.product
        BY <3>3
      <4>2. (r.product * k) \div 10 \in Nat /\ (r.product * k) \div 10 <= r.product
        <5>1. 0 \in Nat
          OBVIOUS
        <5> QED
          BY <3>3, <3>4, <4>1, <5>1, Weakening, Zenon
      <4> QED
        BY <3>3, <4>2
    <3>6. ProductOK(n + 1, q)
      <4>1. q.node = y /\ q.hops = n + 1 /\ q.product = (r.product * k) \div 10
        BY <3>2
      <4>2. q \in Product
        BY <3>2, <3>5 DEF Product
      <4> QED
        BY <3>4, <3>5, <4>1, <4>2 DEF ProductOK
    <3>7. ASSUME q.product >= floor, q.node # Survivor(seed) PROVE Found(V, q)
      <4>1. y # Survivor(seed)
        BY <3>2, <3>7
      <4> QED
        BY <1>1, <3>2, <3>7, <4>1, FoundStep
    <3> QED
      BY <3>6, <3>7
  <2> QED
    BY <2>1, <2>2
<1>9. ASSUME NEW v \in V PROVE v.hops < n + 1 => Onward(v, floor) \subseteq V
  <2>1. CASE v \in W
    BY <1>1, <2>1
  <2>2. CASE v \notin W
    BY <1>5, <2>2
  <2> QED
    BY <2>1, <2>2
<1>10. StartRow(seed) \in V
  BY <1>1 DEF Matched
<1>11. Matched(V, Q, n + 1, seed, floor)
  BY <1>5, <1>6, <1>8, <1>9, <1>10 DEF Matched
<1> QED
  BY <1>11 DEF V, Q

LEMMA MatchedAlways ==
  ASSUME RInv, NEW seed \in exists, NEW floor \in Nat, NEW hops \in Nat,
         NEW rows, IsWalk(rows, hops, seed, floor), NEW products, IsReach(products, hops, seed)
  PROVE  Matched(rows[hops], products[hops], hops, seed, floor)
<1> DEFINE Apart == {n \in 0..hops : ~Matched(rows[n], products[n], n, seed, floor)}
<1>1. SUFFICES Apart = {}
  OBVIOUS
<1>2. \A n \in 0..hops :
        /\ rows[n] = IF n = 0 THEN {StartRow(seed)} ELSE Farther(rows[n - 1], n, floor)
        /\ products[n] = IF n = 0 THEN {StartProduct(seed)} ELSE Relaxed(products[n - 1], n)
  BY DEF IsWalk, IsReach
<1>3. SUFFICES ASSUME NEW n \in Apart, \A m \in Apart : n <= m PROVE FALSE
  <2>1. Apart \subseteq Nat
    OBVIOUS
  <2> HIDE DEF Apart
  <2> QED
    BY <2>1, LeastNat
<1>4. n \in 0..hops /\ ~Matched(rows[n], products[n], n, seed, floor)
  OBVIOUS
<1>5. CASE n = 0
  <2>1. rows[n] = {StartRow(seed)} /\ products[n] = {StartProduct(seed)}
    BY <1>2, <1>4, <1>5
  <2> QED
    BY <1>4, <1>5, <2>1, MatchedStart
<1>6. CASE n # 0
  <2>1. n - 1 \in Nat /\ n - 1 \in 0..hops /\ ~(n <= n - 1) /\ n - 1 + 1 = n
    BY <1>4, <1>6
  <2>2. Matched(rows[n - 1], products[n - 1], n - 1, seed, floor)
    BY <1>3, <2>1
  <2>3. Matched(Farther(rows[n - 1], n - 1 + 1, floor), Relaxed(products[n - 1], n - 1 + 1),
                n - 1 + 1, seed, floor)
    BY <2>1, <2>2, MatchedStep
  <2>4. /\ rows[n] = Farther(rows[n - 1], n, floor)
        /\ products[n] = Relaxed(products[n - 1], n)
    BY <1>2, <1>4, <1>6
  <2> QED
    BY <1>4, <2>1, <2>3, <2>4
<1> QED
  BY <1>5, <1>6

(***************************************************************************)
(* The answers.                                                            *)
(***************************************************************************)
LEMMA MinOf ==
  ASSUME NEW T, T \subseteq Nat, NEW m \in T, \A t \in T : m <= t
  PROVE  Min(T) = m
<1> DEFINE x == CHOOSE t \in T : \A u \in T : t <= u
<1>1. x \in T /\ \A u \in T : x <= u
  OBVIOUS
<1> HIDE DEF x
<1>2. x = m
  BY <1>1
<1> QED
  BY <1>2 DEF Min, x

LEMMA MaxOf ==
  ASSUME NEW T, T \subseteq Nat, NEW m \in T, \A t \in T : t <= m
  PROVE  Max(T) = m
<1> DEFINE x == CHOOSE t \in T : \A u \in T : t >= u
<1>1. x \in T /\ \A u \in T : x >= u
  <2>1. \E t \in T : \A u \in T : t >= u
    OBVIOUS
  <2> QED
    BY <2>1
<1> HIDE DEF x
<1>2. x = m
  BY <1>1
<1> QED
  BY <1>2 DEF Max, x

\* Values that none of the rest is below, or above.
LEMMA SameMin ==
  ASSUME NEW T, T \subseteq Nat, NEW S, S \subseteq T, T # {}, \A t \in T : \E u \in S : u <= t
  PROVE  Min(S) = Min(T)
<1>1. S # {} /\ S \subseteq Nat
  OBVIOUS
<1>2. PICK m \in S : \A u \in S : m <= u
  BY <1>1, LeastNat
<1>3. \A t \in T : m <= t
  BY <1>2
<1>4. Min(S) = m /\ Min(T) = m
  BY <1>1, <1>2, <1>3, MinOf
<1> QED
  BY <1>4

LEMMA SameMax ==
  ASSUME NEW T, T \subseteq Nat, NEW bound \in Nat, \A t \in T : t <= bound,
         NEW S, S \subseteq T, T # {},
         \A t \in T : \E u \in S : u >= t
  PROVE  Max(S) = Max(T)
<1>1. /\ S # {} /\ S \subseteq Nat
      /\ \A u \in S : u <= bound
  OBVIOUS
<1> DEFINE Rest == {bound - u : u \in S}
<1>2. Rest # {} /\ Rest \subseteq Nat
  <2>1. \A u \in S : bound - u \in Nat
    BY <1>1
  <2> QED
    BY <1>1, <2>1
<1>3. PICK l \in Rest : \A u \in Rest : l <= u
  <2> HIDE DEF Rest
  <2> QED
    BY <1>2, LeastNat
<1>4. PICK m \in S : l = bound - m
  OBVIOUS
<1>5. \A u \in S : u <= m
  <2>1. ASSUME NEW u \in S PROVE u <= m
    <3>1. bound - u \in Rest /\ u \in Nat /\ m \in Nat
      BY <1>1
    <3>2. bound - m <= bound - u
      BY <1>3, <1>4, <3>1
    <3> QED
      BY <3>1, <3>2
  <2> QED
    BY <2>1
<1>6. \A t \in T : t <= m
  <2>1. ASSUME NEW t \in T PROVE t <= m
    <3>1. PICK u \in S : u >= t
      OBVIOUS
    <3>2. u <= m /\ u \in Nat /\ t \in Nat /\ m \in Nat
      BY <1>1, <1>5
    <3> QED
      BY <3>1, <3>2
  <2> QED
    BY <2>1
<1>7. Max(S) = m /\ Max(T) = m
  <2>1. m \in T
    OBVIOUS
  <2> QED
    BY <1>1, <1>5, <1>6, <2>1, MaxOf
<1> QED
  BY <1>7

BestRows(found) ==
  {LET paths == {v \in found : v.node = w.node} IN
     [entity |-> w.node, hops |-> Min({v.hops : v \in paths}),
      confidence |-> Max({v.conf : v \in paths})] : w \in found}

\* The best of the rows found is the best of the products kept, node by node.
LEMMA SameAnswers ==
  ASSUME NEW F, F \subseteq Row, NEW K, K \subseteq Product,
         \A r \in K : r.product <= 1000,
         \A w \in F : Counted(K, w),
         \A r \in K : \E w \in F : w.node = r.node /\ w.hops <= r.hops /\ w.conf >= r.product
  PROVE  BestRows(F) = Answers(K)
<1> DEFINE HopsF(e) == {v.hops : v \in {u \in F : u.node = e}}
           HopsK(e) == {v.hops : v \in {u \in K : u.node = e}}
           ConfF(e) == {v.conf : v \in {u \in F : u.node = e}}
           ConfK(e) == {v.product : v \in {u \in K : u.node = e}}
           OneF(e) == [entity |-> e, hops |-> Min(HopsF(e)), confidence |-> Max(ConfF(e))]
           OneK(e) == [entity |-> e, hops |-> Min(HopsK(e)), confidence |-> Max(ConfK(e))]
           Nodes == {w.node : w \in F}
<1>1. Nodes = {r.node : r \in K}
  BY DEF Counted
<1>2. ASSUME NEW e \in Nodes
      PROVE  OneF(e) = OneK(e)
  <2>1. /\ \A v \in F : v.hops \in Nat /\ v.conf \in Nat
        /\ \A v \in K : v.hops \in Nat /\ v.product \in Nat /\ v.product <= 1000
    BY DEF Row, Product
  <2>2. HopsF(e) \subseteq HopsK(e) /\ ConfF(e) \subseteq ConfK(e)
    BY DEF Counted
  <2>3. \A t \in HopsK(e) : \E u \in HopsF(e) : u <= t
    OBVIOUS
  <2>4. \A t \in ConfK(e) : \E u \in ConfF(e) : u >= t
    OBVIOUS
  <2>5. HopsK(e) # {} /\ ConfK(e) # {}
    BY <1>1
  <2>6. HopsK(e) \subseteq Nat /\ ConfK(e) \subseteq Nat /\ \A t \in ConfK(e) : t <= 1000
    BY <2>1
  <2> HIDE DEF HopsF, HopsK, ConfF, ConfK
  <2>7. Min(HopsF(e)) = Min(HopsK(e))
    BY <2>2, <2>3, <2>5, <2>6, SameMin
  <2>8. PICK bound \in Nat : \A t \in ConfK(e) : t <= bound
    <3>1. \A t \in ConfK(e) : t <= 1000
      BY <2>6
    <3> QED
      BY <3>1
  <2>9. Max(ConfF(e)) = Max(ConfK(e))
    BY <2>2, <2>4, <2>5, <2>6, <2>8, SameMax
  <2> QED
    BY <2>7, <2>9
<1>3. BestRows(F) = {OneF(w.node) : w \in F}
  BY Zenon DEF BestRows
<1>4. Answers(K) = {OneK(r.node) : r \in K}
  BY Zenon DEF Answers
<1> HIDE DEF OneF, OneK
<1>5. {OneF(w.node) : w \in F} = {OneF(e) : e \in Nodes}
  OBVIOUS
<1>6. {OneK(r.node) : r \in K} = {OneK(e) : e \in Nodes}
  <2> HIDE DEF Nodes
  <2> QED
    BY <1>1
<1>7. {OneF(e) : e \in Nodes} = {OneK(e) : e \in Nodes}
  <2> HIDE DEF Nodes
  <2> QED
    BY <1>2
<1> QED
  BY <1>3, <1>4, <1>5, <1>6, <1>7, Zenon

\* relationships_to answers for the merged graph, at any floor and to any depth the API
\* takes, in every state that merges, unmerges and splits lead to: the visited guard, the
\* pruning of partial products and the anchoring on stored ids lose and worsen nothing.
THEOREM WalkIsOverClustersHolds == ReadsSpec => []WalkIsOverClusters
<1>1. ASSUME RInv PROVE WalkIsOverClusters
  <2> SUFFICES ASSUME NEW seed \in exists, NEW floor \in Floors
               PROVE  RelationshipsTo(seed, MaxHops, floor) = ClusterReach(seed, MaxHops, floor)
    BY DEF WalkIsOverClusters
  <2>1. floor \in Nat /\ MaxHops \in Nat
    BY EntityReadsAssumption DEF EntityReadsAssumption
  <2>2. PICK rows : /\ IsWalk(rows, MaxHops, seed, floor)
                    /\ Walk(seed, MaxHops, floor) = rows[MaxHops]
    BY <2>1, WalkRows
  <2>3. PICK products :
          /\ IsReach(products, MaxHops, seed)
          /\ ClusterReach(seed, MaxHops, floor)
               = Answers({r \in products[MaxHops] :
                            r.product >= floor /\ r.node # Survivor(seed)})
    BY <2>1, ReachProducts
  <2> DEFINE W == rows[MaxHops]
             P == products[MaxHops]
             F == {w \in W : w.hops > 0}
             K == {r \in P : r.product >= floor /\ r.node # Survivor(seed)}
  <2>4. Matched(W, P, MaxHops, seed, floor)
    BY <1>1, <2>1, <2>2, <2>3, MatchedAlways
  <2>5. RelationshipsTo(seed, MaxHops, floor) = BestRows(F)
    BY <2>2 DEF RelationshipsTo, BestRows
  <2>6. ClusterReach(seed, MaxHops, floor) = Answers(K)
    BY <2>3
  <2> HIDE DEF W, P
  <2>7. F \subseteq Row /\ K \subseteq Product /\ \A r \in K : r.product <= 1000
    BY <2>4 DEF Matched, RowOK, ProductOK
  <2>8. \A w \in F : Counted(K, w)
    <3>1. ASSUME NEW w \in F PROVE Counted(K, w)
      <4>1. w \in W /\ w.conf >= floor /\ w.node # Survivor(seed)
        BY <2>4 DEF Matched, RowOK
      <4>2. PICK r \in P : r.node = w.node /\ r.hops = w.hops /\ r.product = w.conf
        BY <2>4, <4>1 DEF Matched, Counted
      <4> QED
        BY <4>1, <4>2 DEF Counted
    <3> QED
      BY <3>1
  <2>9. \A r \in K : \E w \in F : w.node = r.node /\ w.hops <= r.hops /\ w.conf >= r.product
    BY <2>4 DEF Matched, Found
  <2> HIDE DEF F, K
  <2>10. BestRows(F) = Answers(K)
    BY <2>7, <2>8, <2>9, SameAnswers
  <2> QED
    BY <2>5, <2>6, <2>10, Zenon
<1> QED
  BY <1>1, ReadsInvariant, PTL
===============================================================================
