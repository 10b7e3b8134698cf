--------------------------- MODULE ExtractionDuty ---------------------------
(***************************************************************************)
(* What the consolidation queue promises about an experience, without      *)
(* attempts, clocks, notifications or workers: a captured experience owes  *)
(* one extraction; the debt is discharged by committing its claims once,   *)
(* or abandoned; claims that arrive after it was abandoned still discharge *)
(* it; and a debt is not left open for ever.                               *)
(***************************************************************************)
EXTENDS Naturals

CONSTANT Experiences

VARIABLES duty,    \* what each experience owes
          batches  \* how many claim batches were committed for it

vars == <<duty, batches>>

TypeOK == /\ duty \in [Experiences -> {"none", "owed", "done", "abandoned"}]
          /\ batches \in [Experiences -> Nat]

Init == /\ duty = [e \in Experiences |-> "none"]
        /\ batches = [e \in Experiences |-> 0]

Owe(e) == /\ duty[e] = "none"
          /\ duty' = [duty EXCEPT ![e] = "owed"]
          /\ UNCHANGED batches

Discharge(e) == /\ duty[e] \in {"owed", "abandoned"}
                /\ duty' = [duty EXCEPT ![e] = "done"]
                /\ batches' = [batches EXCEPT ![e] = @ + 1]

\* One pass of the queue may give several experiences up.
Abandon(S) == /\ \A e \in S : duty[e] = "owed"
              /\ duty' = [e \in Experiences |->
                            IF e \in S THEN "abandoned" ELSE duty[e]]
              /\ UNCHANGED batches

Next == \/ \E e \in Experiences : Owe(e) \/ Discharge(e)
        \/ \E S \in SUBSET Experiences : Abandon(S)

Spec == Init /\ [][Next]_vars

\* A debt once owed is settled, and stays settled.
Settled == \A e \in Experiences :
             duty[e] = "owed" ~> [](duty[e] \in {"done", "abandoned"})
=============================================================================
