------------------------------- MODULE MCDedup -------------------------------
(***************************************************************************)
(* Instances of DedupBatch for TLC: three people named alike, the bare     *)
(* given name they share and the same name with a generational suffix.     *)
(***************************************************************************)
EXTENDS DedupBatch, TLC

CONSTANTS a, b, c

People == [e \in Entities |-> "person"]
Ranks == (a :> 1) @@ (b :> 2) @@ (c :> 3)

Named == (a :> "jon smith") @@ (b :> "john smith") @@ (c :> "john smyth")

Tokenised ==
  ("jon smith" :> <<"jon", "smith">>) @@ ("john smith" :> <<"john", "smith">>)
  @@ ("john smyth" :> <<"john", "smyth">>) @@ ("john" :> <<"john">>)
  @@ ("john smith jr" :> <<"john", "smith", "jr">>)

Alike == {{"jon smith", "john smith"}, {"john smyth", "john smith jr"},
          {"john", "john smyth"}}

\* Neighbouring spellings clear the bar; the two outer ones are only close.
Band(n, m) ==
  IF {n, m} = {<<"jon", "smith">>, <<"john", "smyth">>} THEN "mid"
  ELSE IF n = m \/ Len(n) = Len(m) THEN "hi" ELSE "low"
=============================================================================
