----------------------------- MODULE NameMatching -----------------------------
(***************************************************************************)
(* When two entities carry names close enough to be one entity: the two    *)
(* scorers of web/openbrain/brain/services/name_matching.py and            *)
(* probabilistic.py, and the token blocking of dedup.py that decides which *)
(* pairs they are shown.                                                   *)
(*                                                                         *)
(* A surface is a name up to case and white space, which no decision looks *)
(* past.  Scores matter only by the bar they clear: "merge", "queue" or    *)
(* "drop".  Jaro-Winkler is a parameter, given by the band it falls in.    *)
(***************************************************************************)
EXTENDS Integers, Sequences, SequencesExt

CONSTANTS
  Surface,       \* names, light-normalised
  Fold,          \* each surface's tokens once punctuation is folded away
  Short,         \* tokens of fewer than three characters
  Generational,  \* generational suffixes
  Numeric,       \* tokens with a digit in them
  Resembling,    \* pairs of surfaces alike enough for resolve_entity to return
  JaroWinkler(_, _)  \* the band two token lists fall in, "low" .. "hi"

Bands == {"low", "fair", "mid", "hi"}   \* cut at 0.55, 0.75 and 0.92

NameForms(names) == {Fold[s] : s \in names} \ {<<>>}

HasSuffix(n) == Len(n) > 1 /\ Last(n) \in Generational
Core(n) == IF HasSuffix(n) THEN Front(n) ELSE n
Suffix(n) == IF HasSuffix(n) THEN {Last(n)} ELSE {}
Digits(n) == ToSet(n) \cap Numeric
Full(n) == Len(Core(n)) >= 2

IsAbbreviation(sub, sup) ==
  /\ Len(sub) = 1 /\ Len(sup) > 1
  /\ ToSet(sub) \subseteq ToSet(sup)
  /\ (ToSet(sup) \ ToSet(sub)) \ Generational # {}

\* One side offers a bare given name that a fuller name of the other expands.
Abbreviated(F, G) == \E n \in F, m \in G : IsAbbreviation(n, m) \/ IsAbbreviation(m, n)

\* Jaro-Winkler asks nothing of the order of the names it compares.
ASSUME NameMatchingAssumption ==
  \A s, t \in Surface :
    JaroWinkler(Core(Fold[s]), Core(Fold[t])) = JaroWinkler(Core(Fold[t]), Core(Fold[s]))

-----------------------------------------------------------------------------
(***************************************************************************)
(* The default scorer.                                                     *)
(***************************************************************************)
Comparable(n, m) ==
  /\ Full(n) /\ Full(m)
  /\ Suffix(n) = Suffix(m)
  /\ Len(Core(n)) = Len(Core(m)) /\ Core(n) # Core(m)
  /\ Digits(Core(n)) = Digits(Core(m))

Reaches(F, G, bands) ==
  \E n \in F, m \in G : Comparable(n, m) /\ JaroWinkler(Core(n), Core(m)) \in bands

PersonScore(F, G) ==
  IF Abbreviated(F, G) THEN "queue"
  ELSE IF Reaches(F, G, {"hi"}) THEN "merge"
  ELSE IF Reaches(F, G, {"fair", "mid"}) THEN "queue" ELSE "drop"

MatchScore(kind, S, T) ==
  IF NameForms(S) = {} \/ NameForms(T) = {} THEN "drop"
  ELSE IF kind = "person" THEN PersonScore(NameForms(S), NameForms(T))
  ELSE IF S \cap T # {} THEN "merge"
  ELSE IF NameForms(S) \cap NameForms(T) # {} THEN "queue" ELSE "drop"

-----------------------------------------------------------------------------
(***************************************************************************)
(* The Fellegi-Sunter scorer: log2 Bayes factors in tenths, summed.        *)
(***************************************************************************)
Weights == [exact_light |-> 90, jw_hi |-> 90, punct_folded |-> 24,
            containment |-> 24, jw_mid |-> 14, identical_full |-> 0,
            jw_low |-> -20, added_component |-> -40, disjoint |-> -80]

\* Mutant: a numeric or suffix disagreement weighs like a missing name.
SoftVeto == -40

Veto == -200

\* P >= 0.90 is odds of 9, log2 9 = 3.17; P >= 0.60 is odds of 1.5, log2 1.5 = 0.58.
MergeBar == 32
QueueBar == 6

NameLevel(c, d) ==
  IF c = d THEN Weights.identical_full
  ELSE IF Len(c) # Len(d) THEN Weights.added_component
  ELSE IF JaroWinkler(c, d) = "hi" THEN Weights.jw_hi
  ELSE IF JaroWinkler(c, d) = "mid" THEN Weights.jw_mid ELSE Weights.jw_low

PairWeight(n, m) ==
  NameLevel(Core(n), Core(m))
  + (IF Digits(Core(n)) = Digits(Core(m)) THEN 0 ELSE Veto)
  + (IF Suffix(n) = Suffix(m) THEN 0 ELSE Veto)

\* The weights a pair of entities may be judged by; the strongest one counts.
Evidence(kind, S, T) ==
  LET F == NameForms(S)
      G == NameForms(T) IN
  IF F = {} \/ G = {} THEN {Weights.disjoint}
  ELSE IF kind = "person"
    THEN IF Abbreviated(F, G) THEN {Weights.containment}
         ELSE {PairWeight(p[1], p[2]) : p \in {q \in F \X G : Full(q[1]) /\ Full(q[2])}}
    ELSE IF S \cap T # {} THEN {Weights.exact_light}
         ELSE IF F \cap G # {} THEN {Weights.punct_folded} ELSE {Weights.disjoint}

MatchProbability(kind, S, T) ==
  LET W == Evidence(kind, S, T) IN
  IF \E w \in W : w >= MergeBar THEN "merge"
  ELSE IF \E w \in W : w >= QueueBar THEN "queue" ELSE "drop"

-----------------------------------------------------------------------------
Scorers == {"default", "fs"}

Score(scorer, kind, S, T) ==
  IF scorer = "fs" THEN MatchProbability(kind, S, T) ELSE MatchScore(kind, S, T)

\* Two people under one name: no merge, yet a call for a human.
SameName(kind, S, T) == kind = "person" /\ NameForms(S) \cap NameForms(T) # {}

Tokens(S) == UNION {ToSet(n) : n \in NameForms(S)}

\* Token blocking: the pairs sure to be scored.
SharesToken(S, T) == (Tokens(S) \cap Tokens(T)) \ Short # {}
=============================================================================
