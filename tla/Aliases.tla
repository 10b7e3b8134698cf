------------------------------- MODULE Aliases -------------------------------
(***************************************************************************)
(* The names entities are found by: entities.aliases, written by captures  *)
(* that match a surface form (entity_resolver.py), by a member confirming  *)
(* a provisional binding (entities.append_alias) and by merges, on top of  *)
(* the pointers of EntityGraph.                                            *)
(*                                                                         *)
(* A capture scores its surface in one statement and appends it in the     *)
(* next, without a lock on the entity it matched, so a merge may commit in *)
(* between.                                                                *)
(***************************************************************************)
EXTENDS EntityGraph, NameMatching

CONSTANTS
  Name,       \* the canonical name each entity is created with
  Captures,   \* captures that match a surface form to an entity at one time
  MaxAppends  \* bound on the surfaces captures and members append

ASSUME AliasesAssumption ==
  /\ Name \in [Entities -> Surface]
  /\ MaxAppends \in Nat

VARIABLES
  aliases,  \* entities.aliases
  matched,  \* the match each capture has scored and not yet appended
  appends,  \* appends so far
  strays    \* history: appends that met an entity already merged away

aliasVars == <<aliases, matched, appends, strays>>
allVars == <<vars, aliasVars>>

Match == [surface : Surface, entity : Entities]

AliasesTyped ==
  /\ aliases \in [Entities -> SUBSET Surface]
  /\ matched \in [Captures -> Match \cup {None}]
  /\ appends \in 0..MaxAppends
  /\ strays \subseteq Match

Surfaces(e) == {Name[e]} \cup aliases[e]

AInit ==
  /\ Init
  /\ aliases = [e \in Entities |-> {}]
  /\ matched = [c \in Captures |-> None]
  /\ appends = 0
  /\ strays = {}

CreateNamed(e) ==
  /\ Create(e)
  /\ aliases' = [aliases EXCEPT ![e] = {Name[e]}]
  /\ UNCHANGED <<matched, appends, strays>>

\* Mutant: a merge leaves the loser's names with the loser.
TakeNothing(loser, winner) == aliases' = aliases

\* Mutant: the winner takes the loser's canonical name and not its aliases.
TakeName(loser, winner) ==
  aliases' = [aliases EXCEPT ![winner] = (@ \cup {Name[loser]}) \ {Name[winner]}]

\* The winner takes over every surface of the loser.
TakeNames(loser, winner) ==
  aliases' = [aliases EXCEPT ![winner] = (@ \cup Surfaces(loser)) \ {Name[winner]}]

MergeNamed(loser, winner) ==
  /\ MergeEntities(loser, winner)
  /\ TakeNames(loser, winner)
  /\ UNCHANGED <<matched, appends, strays>>

AutoMergeNamed(new, top) ==
  /\ AutoMerge(new, top)
  /\ aliases' = [aliases EXCEPT ![new] = {Name[new]},
                                ![top] = (@ \cup {Name[new]}) \ {Name[top]}]
  /\ UNCHANGED <<matched, appends, strays>>

ConfirmNamed(r) ==
  /\ ConfirmMerge(r)
  /\ LET l == confirm[r].loser
         w == confirm[r].winner IN
       IF CanMerge(l, w) THEN TakeNames(l, w) ELSE UNCHANGED aliases
  /\ UNCHANGED <<matched, appends, strays>>

\* The queue and unmerge_entity leave every alias where it is.
Nameless ==
  /\ \/ \E e \in Entities : Unmerge(e)
     \/ \E a, b \in Entities : Reject(a, b)
     \/ \E r \in Reviewers, a, b \in Entities : ConfirmRead(r, a, b)
  /\ UNCHANGED aliasVars

-----------------------------------------------------------------------------
(***************************************************************************)
(* Appending a surface.                                                    *)
(***************************************************************************)
CountAppend == appends < MaxAppends /\ appends' = appends + 1

Resembles(s, e) == \E t \in Surfaces(e) : {s, t} \in Resembling

\* resolve_entity ranks live entities; a score above 0.85 is a match.
ResolveSurface(c, s, e) ==
  /\ matched[c] = None
  /\ Live(e) /\ Resembles(s, e)
  /\ CountAppend
  /\ matched' = [matched EXCEPT ![c] = [surface |-> s, entity |-> e]]
  /\ UNCHANGED <<vars, aliases, strays>>

\* The update names the row by id and asks nothing else of it.
AppendAlias(c) ==
  /\ matched[c] # None
  /\ LET e == matched[c].entity
         s == matched[c].surface IN
       /\ aliases' = [aliases EXCEPT ![e] = @ \cup {s}]
       /\ strays' = IF Live(e) THEN strays ELSE strays \cup {matched[c]}
  /\ matched' = [matched EXCEPT ![c] = None]
  /\ UNCHANGED <<vars, appends>>

\* A member confirms that the surface s was e; a merged-away e is skipped.
ConfirmBinding(s, e) ==
  /\ e \in exists /\ Resembles(s, e)
  /\ CountAppend
  /\ IF Live(e)
       THEN /\ aliases' = [aliases EXCEPT ![e] = @ \cup {s}]
            /\ UNCHANGED strays
       ELSE /\ strays' = strays \cup {[surface |-> s, entity |-> e]}
            /\ UNCHANGED aliases
  /\ UNCHANGED <<vars, matched>>

Naming ==
  \/ \E e \in Entities : CreateNamed(e)
  \/ \E a, b \in Entities : MergeNamed(a, b) \/ AutoMergeNamed(a, b)
  \/ \E r \in Reviewers : ConfirmNamed(r)
  \/ \E s \in Surface, e \in Entities :
       ConfirmBinding(s, e) \/ \E c \in Captures : ResolveSurface(c, s, e)
  \/ \E c \in Captures : AppendAlias(c)

AliasNext == Naming \/ Nameless

-----------------------------------------------------------------------------
(***************************************************************************)
(* Properties.                                                             *)
(***************************************************************************)
\* merge_entities appends every surface of the loser "so a future search by any
\* historical surface form still resolves": whatever a tombstone is called, its
\* survivor is called too, through any merges and unmerges, unless the append
\* itself came after the merge.
Strayed(e) == {m.surface : m \in {x \in strays : x.entity = e}}
SurvivorsAnswerToEveryName ==
  \A e \in Entities : merged[e] # None =>
    Surfaces(e) \ Strayed(e) \subseteq Surfaces(merged[e])
=============================================================================
