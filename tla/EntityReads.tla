----------------------------- MODULE EntityReads -----------------------------
(***************************************************************************)
(* What hangs on an entity and how it is read back: brain.mentions and     *)
(* brain.claims keep the ids they were written with, a soft merge rewrites *)
(* neither, and every read that follows merged_into must put the cluster   *)
(* together again (init/22's relationships_to, the split candidates and    *)
(* the impact gate of reviews.py).  The splits of entities.py are the one  *)
(* operation that does move rows.                                          *)
(*                                                                         *)
(* Every service call is one transaction, hence one action.                *)
(***************************************************************************)
EXTENDS EntityGraph, FiniteSets

CONSTANTS
  Experiences,  \* captures that mentions and claims come from
  Forms,        \* a surface form and the field it stands in
  Claims,       \* ids brain.claims rows may take
  Draft,        \* the experience each is drafted from and its confidence, in tenths
  MaxHops,      \* relationships_to: at most 3 hops, the walk is per path
  Floors,       \* min_confidence, in thousandths
  MaxRows,      \* bound on mentions and claims
  MaxQueued     \* bound on pending merge candidates

Mention == [source : Experiences, entity : Entities, form : Forms]
Claim == [subject : Entities, object : Entities \cup {None}, source : Experiences,
          confidence : 1..10, live : BOOLEAN]

ASSUME EntityReadsAssumption ==
  /\ Draft \in [Claims -> [source : Experiences, confidence : 1..10]]
  /\ MaxHops \in 1..3
  /\ Floors \subseteq 0..1000
  /\ {MaxRows, MaxQueued} \subseteq Nat
  /\ None \notin Claim

VARIABLES
  mentions,  \* brain.mentions, its primary key
  claims     \* brain.claims with the one experience that sources each

rvars == <<mentions, claims>>

ReadsTypeOK ==
  /\ TypeOK
  /\ mentions \subseteq Mention
  /\ claims \in [Claims -> Claim \cup {None}]

Written == {c \in Claims : claims[c] # None}
Asserted == {c \in Written : claims[c].live}

ReadsInit ==
  /\ Init
  /\ mentions = {}
  /\ claims = [c \in Claims |-> None]

-----------------------------------------------------------------------------
(***************************************************************************)
(* Writes.  The resolver answers with live rows, so that is where a new    *)
(* mention or claim lands.                                                 *)
(***************************************************************************)
Room == Cardinality(mentions) + Cardinality(Written) < MaxRows

AddMention(x, e, f) ==
  /\ Room /\ Live(e)
  /\ mentions' = mentions \cup {[source |-> x, entity |-> e, form |-> f]}
  /\ UNCHANGED <<vars, claims>>

WriteClaim(c, s, o) ==
  /\ Room /\ c \notin Written
  /\ Live(s) /\ (o = None \/ Live(o))
  /\ claims' = [claims EXCEPT ![c] =
       [subject |-> s, object |-> o, live |-> TRUE,
        source |-> Draft[c].source, confidence |-> Draft[c].confidence]]
  /\ UNCHANGED <<vars, mentions>>

RetractClaim(c) ==
  /\ c \in Asserted
  /\ claims' = [claims EXCEPT ![c].live = FALSE]
  /\ UNCHANGED <<vars, mentions>>

(***************************************************************************)
(* Splits: the rows of some experiences move from a live source to another *)
(* live entity, or to one minted for them.                                 *)
(***************************************************************************)
Carried(rows, t) == {[m EXCEPT !.entity = t] : m \in rows}

\* Mutant: the delete forgets the experiences and clears the source everywhere.
ReboundUnscoped(rows, moved, t) ==
  {m \in rows : \A n \in moved : n.entity # m.entity} \cup Carried(moved, t)

\* Insert-then-delete: a binding the target already has is left as it is, and the
\* source's goes either way.
Rebound(rows, moved, t) == (rows \ moved) \cup Carried(moved, t)

Moved(c, s, t) ==
  [c EXCEPT !.subject = IF @ = s THEN t ELSE @, !.object = IF @ = s THEN t ELSE @]
Repointed(table, s, t, xs) ==
  [c \in Claims |-> IF table[c] # None /\ table[c].source \in xs THEN Moved(table[c], s, t)
                    ELSE table[c]]

MentionsOf(rows, s, xs) == {m \in rows : m.entity = s /\ m.source \in xs}

\* The source must be live, the target another live row or a new one.
SplitTarget(s, t) ==
  /\ Live(s) /\ s # t
  /\ Live(t) \/ t \notin exists
  /\ exists' = exists \cup {t}
  /\ UNCHANGED <<merged, cand, moves, confirm, repairs, detached, trail, judged>>

SplitEntity(s, t, xs) ==
  /\ xs # {}
  /\ SplitTarget(s, t)
  /\ mentions' = Rebound(mentions, MentionsOf(mentions, s, xs), t)
  /\ claims' = Repointed(claims, s, t, xs)

\* One binding moves; the source's other surfaces and its claims stay.
SplitMention(s, t, x, f) ==
  /\ SplitTarget(s, t)
  /\ mentions' = Rebound(mentions, {m \in MentionsOf(mentions, s, {x}) : m.form = f}, t)
  /\ UNCHANGED claims

\* The claims of one experience move; its mentions stay.
SplitClaims(s, t, x) ==
  /\ SplitTarget(s, t)
  /\ claims' = Repointed(claims, s, t, {x})
  /\ UNCHANGED mentions

-----------------------------------------------------------------------------
(***************************************************************************)
(* brain.relationships_to.                                                 *)
(***************************************************************************)
\* Mutant: the walk anchors on the survivor's own id alone (init/15).
AnchorOnly(node) == {node}

\* The stored ids a walk node stands for; the lookup is one level deep.
Members(node) == {node} \cup {m \in exists : merged[m] = node}

Other(c, id) == IF claims[c].subject = id THEN claims[c].object ELSE claims[c].subject

\* The rows one row of the walk leads to.
Onward(w, floor) ==
  {[node |-> Survivor(Other(p[1], p[2])),
    hops |-> w.hops + 1,
    conf |-> (w.conf * claims[p[1]].confidence) \div 10,
    visited |-> w.visited \cup {Survivor(Other(p[1], p[2]))}] :
     p \in {q \in Asserted \X Members(w.node) :
       /\ claims[q[1]].object # None
       /\ q[2] \in {claims[q[1]].subject, claims[q[1]].object}
       /\ Survivor(Other(q[1], q[2])) \notin w.visited
       /\ w.conf * claims[q[1]].confidence >= 10 * floor}}

\* The recursive walk, unrolled to its depth.
Walk(seed, hops, floor) ==
  LET start == [node |-> Survivor(seed), hops |-> 0, conf |-> 1000, visited |-> {Survivor(seed)}]
      rows[h \in 0..hops] ==
        IF h = 0 THEN {start}
        ELSE LET before == rows[h - 1] IN
               before \cup UNION {Onward(w, floor) : w \in {v \in before : v.hops = h - 1}}
  IN rows[hops]

\* One answer per node: the fewest hops and the most confident path, of any length.
RelationshipsTo(seed, hops, floor) ==
  LET found == {w \in Walk(seed, hops, floor) : w.hops > 0} IN
    {LET paths == {v \in found : v.node = w.node} IN
       [entity |-> w.node, hops |-> Min({v.hops : v \in paths}),
        confidence |-> Max({v.conf : v \in paths})] : w \in found}

-----------------------------------------------------------------------------
(***************************************************************************)
(* The reads of the review surfaces.                                       *)
(***************************************************************************)
\* Distinct experiences whose mentions dereference to e.
RolledUp(e) == {m.source : m \in {n \in mentions : Survivor(n.entity) = e}}

\* Mutant: the gate counts the mentions written with the pair's own ids.
OwnCount(e) == Cardinality({m.source : m \in {n \in mentions : n.entity = e}})

\* The count the workbench shows beside a side of the pair.
ShownCount(e) == Cardinality(RolledUp(Survivor(e)))

GateCount(e) == Cardinality(RolledUp(e))

NamesAny(c, ids) == {claims[c].subject, claims[c].object} \cap ids # {}

\* The impact gate: a pair of concepts with no claim and one mention or less is hidden.
LowImpact(a, b) ==
  /\ Kind[a] = "concept" /\ Kind[b] = "concept"
  /\ \A c \in Asserted : ~NamesAny(c, {a, b})
  /\ GateCount(a) <= 1 /\ GateCount(b) <= 1

Pending == {p \in Pairs : cand[p] = "pending"}
Hidden(a, b) == {a, b} \in Pending /\ LowImpact(a, b)

\* Mutant: UNION ALL, both endpoints of a claim inside one cluster count.
EndpointsTwice(e) ==
  {x \in Asserted \X {"subject", "object"} :
     claims[x[1]][x[2]] # None /\ Survivor(claims[x[1]][x[2]]) = e}

\* The claims with an endpoint that dereferences to e, each once.
Endpoints(e) ==
  {c \in Asserted : \E end \in {"subject", "object"} :
     claims[c][end] # None /\ Survivor(claims[c][end]) = e}

\* The degree split candidates are ranked by; tombstones have none.
Degree(e) == Cardinality(Endpoints(e))

-----------------------------------------------------------------------------
GraphStep ==
  \/ \E e \in Entities : Create(e) \/ Unmerge(e)
  \/ \E a, b \in Entities :
       \/ MergeEntities(a, b)
       \/ Cardinality(Pending) < MaxQueued /\ QueueCandidate(a, b)

ReadsNext ==
  \/ GraphStep /\ UNCHANGED rvars
  \/ \E x \in Experiences, e \in Entities, f \in Forms : AddMention(x, e, f)
  \/ \E c \in Claims :
       \/ \E s \in Entities, o \in Entities \cup {None} : WriteClaim(c, s, o)
       \/ RetractClaim(c)
  \/ \E s, t \in Entities :
       \/ \E xs \in SUBSET Experiences : SplitEntity(s, t, xs)
       \/ \E x \in Experiences :
            SplitClaims(s, t, x) \/ \E f \in Forms : SplitMention(s, t, x, f)

ReadsSpec == ReadsInit /\ [][ReadsNext]_<<vars, rvars>>

-----------------------------------------------------------------------------
(***************************************************************************)
(* Properties.                                                             *)
(***************************************************************************)
\* The claims between two clusters.
EdgeConfidences(x, y) ==
  {claims[c].confidence : c \in {d \in Asserted :
     claims[d].object # None
     /\ x # y /\ {Survivor(claims[d].subject), Survivor(claims[d].object)} = {x, y}}}

\* For each node reached, its fewest hops and its largest product.
Answers(kept) ==
  {[entity |-> r.node,
    hops |-> Min({x.hops : x \in {v \in kept : v.node = r.node}}),
    confidence |-> Max({x.product : x \in {v \in kept : v.node = r.node}})] : r \in kept}

\* What `before` reaches with one more claim, the n-th.
Relaxed(before, n) ==
  before \cup UNION {{[node |-> y, hops |-> n, product |-> (r.product * k) \div 10] :
                        k \in EdgeConfidences(r.node, y)} : r \in before, y \in Entities}

\* Reachability over clusters as a relaxation by length: no paths, no visited set, and
\* the floor applied to the product alone.
ClusterReach(seed, hops, floor) ==
  LET products[n \in 0..hops] ==
        IF n = 0 THEN {[node |-> Survivor(seed), hops |-> 0, product |-> 1000]}
        ELSE Relaxed(products[n - 1], n)
  IN Answers({r \in products[hops] : r.product >= floor /\ r.node # Survivor(seed)})

\* relationships_to answers for the merged graph, whatever merges, unmerges and splits
\* went before: an edge stored on a tombstone is found from its survivor and from the
\* tombstone alike (#81), a cluster is never its own neighbour, and neither the visited
\* guard nor the pruning of partial products loses or worsens an answer.
WalkIsOverClusters ==
  \A seed \in exists, floor \in Floors :
    RelationshipsTo(seed, MaxHops, floor) = ClusterReach(seed, MaxHops, floor)

\* A claim adds one to the degree of each cluster it touches, however many of the
\* cluster's ids it names, and a tombstone is never a candidate for a split.
DegreeCountsClaimsOnce ==
  \A e \in exists :
    Degree(e) = Cardinality({c \in Asserted : NamesAny(c, {m \in exists : Survivor(m) = e})})

\* reviews.py, LOW_IMPACT_MERGE_SQL: "the gate agrees with the counts the workbench
\* displays": no pair of live concepts is hidden from a reviewer who would have seen
\* two mentions beside one of them, inherited ones included.
GateAgreesWithCounts ==
  \A a, b \in Entities : a # b /\ Hidden(a, b) /\ Live(a) /\ Live(b) =>
    ShownCount(a) <= 1 /\ ShownCount(b) <= 1

\* A split onto an entity with nothing in those experiences can be run back, and no
\* step, a split onto a row that already carries the surface included, leaves a surface
\* of an experience unbound or takes a tombstone's rows from it.
SplitsRunBack ==
  [][/\ rvars' # rvars =>
          \A s, t \in exists', xs \in SUBSET Experiences :
            /\ s # t /\ Live(s) /\ xs # {} /\ MentionsOf(mentions', s, xs) = {}
            /\ MentionsOf(mentions, t, xs) = {}
            /\ \A c \in Written : claims[c].source \in xs => ~NamesAny(c, {t})
            /\ SplitEntity(s, t, xs)
            => /\ Rebound(mentions', MentionsOf(mentions', t, xs), s) = mentions
               /\ Repointed(claims', t, s, xs) = claims
     /\ \A m \in mentions : \E n \in mentions' :
          /\ n.source = m.source /\ n.form = m.form
          /\ n.entity = m.entity \/ Live(m.entity)]_<<vars, rvars>>
=============================================================================
