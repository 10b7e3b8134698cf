----------------------------- MODULE DedupBatch -----------------------------
(***************************************************************************)
(* The offline dedup pass (management/commands/dedup_entities.py over      *)
(* services/dedup.py) running beside the members and captures of Aliases.  *)
(*                                                                         *)
(* One run loads the live entities, plans merges and queue rows from what  *)
(* it loaded, reads once which pairs a reviewer has ruled on, and then     *)
(* executes: a transaction per merge, a refused one skipped, and a last    *)
(* transaction for the queue.  Everything else goes on in between.         *)
(***************************************************************************)
EXTENDS Aliases, FiniteSets

CONSTANTS
  Seniority,  \* orders entities by name length, then id: breaks ties for the winner
  QueueCap,   \* queued pairs per entity and run
  MaxRuns     \* bound on runs

ASSUME DedupAssumption ==
  /\ Seniority \in [Entities -> Nat]
  /\ \A a, b \in Entities : Seniority[a] = Seniority[b] => a = b
  /\ QueueCap \in Nat /\ MaxRuns \in Nat

VARIABLES
  phase,    \* idle, planned, applying
  gated,    \* the run's scorer advertises the contested-merge gate
  claimed,  \* the pairs the run scored at the merge bar
  todo,     \* the merges left to execute, as <<loser, winner>>
  queue,    \* the pairs the run will queue
  runs,     \* runs so far
  joined,   \* history: the pairs this run's merges put together
  skipped   \* history: the pairs whose merge this run skipped

planVars == <<phase, gated, claimed, todo, queue, runs, joined, skipped>>
everything == <<allVars, planVars>>

BatchTyped ==
  /\ phase \in {"idle", "planned", "applying"}
  /\ gated \in BOOLEAN
  /\ claimed \subseteq Pairs /\ queue \subseteq Pairs
  /\ todo \subseteq {o \in Entities \X Entities : o[1] # o[2]}
  /\ runs \in 0..MaxRuns
  /\ joined \subseteq Pairs /\ skipped \subseteq Pairs

\* The types of both tables, of the captures in flight and of the plan.
DedupTypeOK == TypeOK /\ AliasesTyped /\ BatchTyped

-----------------------------------------------------------------------------
(***************************************************************************)
(* plan_dedup.                                                             *)
(***************************************************************************)
ScoreOf(scorer, p) ==
  CHOOSE s \in {"merge", "queue", "drop"} :
    \E a, b \in Entities : p = {a, b} /\ s = Score(scorer, Kind[a], Surfaces(a), Surfaces(b))

SameKindPairs == {p \in Pairs : \A a, b \in p : Live(a) /\ Kind[a] = Kind[b]}

\* Every pair that shares a long token, and whatever else MinHash brings.
Blockings ==
  LET sure == {p \in SameKindPairs : \E a, b \in p : a # b /\ SharesToken(Surfaces(a), Surfaces(b))}
  IN {sure \cup lsh : lsh \in SUBSET (SameKindPairs \ sure)}

\* _pick_winner: more aliases, then seniority.
Outranks(a, b) ==
  \/ Cardinality(aliases[a]) > Cardinality(aliases[b])
  \/ Cardinality(aliases[a]) = Cardinality(aliases[b]) /\ Seniority[a] > Seniority[b]

Partners(pairs, e) == UNION {p \ {e} : p \in {q \in pairs : e \in q}}

\* Mutant: an entity is contested when two partners are not pairs at all.
NeverContested(pairs) == {}

\* Two of its partners do not themselves merge.
Contested(pairs) ==
  {e \in UNION pairs : \E x, y \in Partners(pairs, e) : x # y /\ {x, y} \notin pairs}

\* At most QueueCap pairs per entity; a pair is dropped only for want of room.
\* (The code fills it best score first, which is one of these.)
Rows(e, kept) == Cardinality({p \in kept : e \in p})
Capped(pairs) ==
  {kept \in SUBSET pairs :
     /\ \A e \in Entities : Rows(e, kept) <= QueueCap
     /\ \A p \in pairs \ kept : \E e \in p : Rows(e, kept) = QueueCap}

Plan(scorer) ==
  \E blocked \in Blockings :
    LET merge == {p \in blocked : ScoreOf(scorer, p) = "merge"}
        torn == IF scorer = "fs" THEN Contested(merge) ELSE {}
        safe == {p \in merge : p \cap torn = {}}
        named == {p \in blocked : \E a, b \in p : a # b /\ SameName(Kind[a], Surfaces(a), Surfaces(b))}
        call == {p \in blocked \ merge : ScoreOf(scorer, p) = "queue" \/ p \in named}
    IN /\ claimed' = merge
       /\ todo' = {o \in Entities \X Entities : {o[1], o[2]} \in safe /\ Outranks(o[2], o[1])}
       /\ queue' \in Capped(call \cup (merge \ safe))

BatchInit ==
  /\ AInit
  /\ phase = "idle" /\ gated = FALSE
  /\ claimed = {} /\ todo = {} /\ queue = {}
  /\ runs = 0
  /\ joined = {} /\ skipped = {}

BatchPlan(scorer) ==
  /\ phase = "idle"
  /\ runs < MaxRuns /\ runs' = runs + 1
  /\ gated' = (scorer = "fs")
  /\ Plan(scorer)
  /\ phase' = "planned"
  /\ skipped' = {}
  /\ UNCHANGED <<allVars, joined>>

-----------------------------------------------------------------------------
(***************************************************************************)
(* Command.handle after the plan.                                          *)
(***************************************************************************)
\* The pairs ruled on, in terms of today's survivors.
HeldPairs ==
  {p \in Pairs : \E a, b \in Entities :
     a # b /\ cand[{a, b}] = "kept_separate" /\ p = {Survivor(a), Survivor(b)}}

DropHeldPairs ==
  /\ phase = "planned"
  /\ todo' = {o \in todo : {o[1], o[2]} \notin HeldPairs}
  /\ phase' = "applying"
  /\ UNCHANGED <<allVars, gated, claimed, queue, runs, joined, skipped>>

With(e) == {e} \cup Partners(joined, e)

ApplyMerge(l, w) ==
  /\ phase = "applying" /\ <<l, w>> \in todo
  /\ todo' = todo \ {<<l, w>>}
  /\ \/ /\ MergeNamed(l, w)
        /\ joined' = joined \cup ({{e, f} : e \in With(l), f \in With(w)} \cap Pairs)
        /\ UNCHANGED skipped
     \/ /\ ~CanMerge(l, w)
        /\ skipped' = skipped \cup {{l, w}}
        /\ UNCHANGED <<allVars, joined>>
  /\ UNCHANGED <<phase, gated, claimed, queue, runs>>

\* Mutant: on conflict do update set status = 'pending'.
Inserted(p) == IF p \in queue THEN "pending" ELSE cand[p]

\* on conflict do nothing
QueueRow(p) == IF p \in queue /\ cand[p] = "none" THEN "pending" ELSE cand[p]

EndRun ==
  /\ phase' = "idle" /\ gated' = FALSE
  /\ claimed' = {} /\ todo' = {} /\ queue' = {} /\ joined' = {}

ApplyQueue ==
  /\ phase = "applying" /\ todo = {}
  /\ cand' = [p \in Pairs |-> QueueRow(p)]
  /\ EndRun
  /\ UNCHANGED <<exists, merged, moves, confirm, repairs, detached, trail, judged>>
  /\ UNCHANGED <<aliasVars, runs, skipped>>

\* A dry run ends after its report; a killed one, anywhere.
StopBatch ==
  /\ phase \in {"planned", "applying"}
  /\ EndRun
  /\ UNCHANGED <<allVars, runs, skipped>>

Batch ==
  \/ \E scorer \in Scorers : BatchPlan(scorer)
  \/ DropHeldPairs \/ ApplyQueue \/ StopBatch
  \/ \E l, w \in Entities : ApplyMerge(l, w)

\* The rows QueueCandidate stands for are this batch's own.
Others == AliasNext /\ UNCHANGED planVars

DedupNext == Batch \/ Others
DedupSpec == BatchInit /\ [][DedupNext]_everything

-----------------------------------------------------------------------------
(***************************************************************************)
(* Properties.                                                             *)
(***************************************************************************)
\* _contested_entities: with the gate, a run never brings two entities together
\* through a third that did not itself score at the merge bar, in whatever order
\* its merges run and whichever of them are skipped.
GateLeavesNoBridge == gated => joined \subseteq claimed

\* "the next run re-discovers anything still outstanding": a pair whose merge was
\* skipped because an endpoint had been merged away clears a bar of either scorer again,
\* now between the survivors, and a token the two sides shared still blocks them
\* together, unless it was appended to a tombstone.
SkippedIsRediscovered ==
  \A p \in skipped : \A a, b \in p :
    LET sa == Survivor(a)
        sb == Survivor(b) IN
    sa # sb =>
      /\ \A scorer \in Scorers :
           Score(scorer, Kind[sa], Surfaces(sa), Surfaces(sb)) \in {"merge", "queue"}
      /\ SharesToken(Surfaces(a) \ Strayed(a), Surfaces(b) \ Strayed(b)) =>
           SharesToken(Surfaces(sa), Surfaces(sb))

\* "a resolved row is never resurrected to pending": a pair kept separate stays so
\* whatever the batch, the resolver, the tools or an unmerge do around it.
KeptSeparateIsFinal ==
  [][\A p \in Pairs : cand[p] = "kept_separate" => cand'[p] = "kept_separate"]_everything

\* The two scorers name the same merges, whatever aliases the entities have by now.
ScorersMergeAlike ==
  \A a, b \in exists : \A kind \in {Kind[a], "concept"} : Seniority[a] < Seniority[b] =>
    (MatchScore(kind, Surfaces(a), Surfaces(b)) = "merge"
      <=> MatchProbability(kind, Surfaces(a), Surfaces(b)) = "merge")
=============================================================================
