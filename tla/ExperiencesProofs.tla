-------------------------- MODULE ExperiencesProofs --------------------------
(***************************************************************************)
(* Theorems about Experiences, for any number of experiences, claims and   *)
(* concurrent sessions.  One inductive invariant serves all of them: what  *)
(* makes it inductive is that a delete in progress has chosen every claim  *)
(* still asserted from its target, and that nothing adds to them while it  *)
(* holds the row's lock.                                                   *)
(***************************************************************************)
EXTENDS Experiences, TLAPS

\* Only rows have been superseded.
UnwrittenAreHeads == \A e \in Experiences \ rows : successor[e] = None

\* A delete between its statements: the target is a row, and each of its claims is
\* chosen or retracted already.
DeletionsCoverTheirTargets ==
  \A s \in Sessions : deletion[s] # None =>
    /\ deletion[s].target \in rows
    /\ \A c \in Claims : claim[c] # None /\ claim[c].source = deletion[s].target =>
         c \in deletion[s].claims \cup retracted

IInv == /\ TypeOK
        /\ UnwrittenAreHeads
        /\ DeletionsCoverTheirTargets
        /\ LostSupportIsRetracted
        /\ ImagesAreCarried

-----------------------------------------------------------------------------
(***************************************************************************)
(* The initial state, and one lemma per action that disturbs the           *)
(* invariant.                                                              *)
(***************************************************************************)
LEMMA InvInit == Init => IInv
<1> SUFFICES ASSUME Init PROVE IInv
  OBVIOUS
<1>1. TypeOK
  BY DEF Init, TypeOK, RowsTyped, ClaimsTyped, SessionsTyped, Fates
<1> QED
  BY <1>1 DEF Init, IInv, UnwrittenAreHeads, DeletionsCoverTheirTargets,
              LostSupportIsRetracted, ImagesAreCarried

LEMMA InvCapture ==
  ASSUME IInv, NEW e \in Experiences, NEW withImage \in BOOLEAN, Capture(e, withImage)
  PROVE  IInv'
<1>1. TypeOK'
  BY DEF IInv, TypeOK, RowsTyped, ClaimsTyped, SessionsTyped, Capture, knowledge
<1>2. UnwrittenAreHeads' /\ DeletionsCoverTheirTargets' /\ LostSupportIsRetracted'
  BY DEF IInv, Capture, knowledge, UnwrittenAreHeads, DeletionsCoverTheirTargets,
         LostSupportIsRetracted
<1>3. ImagesAreCarried'
  BY DEF IInv, Capture, UnwrittenAreHeads, ImagesAreCarried
<1> QED
  BY <1>1, <1>2, <1>3 DEF IInv

\* The lock keeps new claims away from a delete's target; a claim drawn from a dead
\* row carries its source's fate.
LEMMA InvConsolidate ==
  ASSUME IInv, NEW e \in Experiences, NEW batch \in SUBSET Claims,
         NEW support \in [batch -> SupportKinds], Consolidate(e, support)
  PROVE  IInv'
<1>1. DOMAIN support = batch
  OBVIOUS
<1>2. /\ claim' = [c \in Claims |-> IF c \in batch
                                      THEN [source |-> e, support |-> support[c]]
                                      ELSE claim[c]]
      /\ drawn' = [c \in Claims |-> IF c \in batch THEN Fate(e) ELSE drawn[c]]
      /\ \A s \in Sessions : deletion[s] # None => deletion[s].target # e
  BY <1>1 DEF Consolidate, Locked
<1>3. TypeOK'
  <2>1. RowsTyped'
    BY DEF IInv, TypeOK, RowsTyped, Consolidate, lineage
  <2>2. \A c \in batch : [source |-> e, support |-> support[c]] \in Supported
    BY DEF Supported
  <2>3. claim' \in [Claims -> Supported \cup {None}]
    BY <1>2, <2>2 DEF IInv, TypeOK, ClaimsTyped
  <2>4. drawn' \in [Claims -> Fates]
    BY <1>2 DEF IInv, TypeOK, ClaimsTyped, Fate, Fates
  <2>5. ClaimsTyped'
    BY <2>3, <2>4 DEF IInv, TypeOK, ClaimsTyped, Consolidate
  <2>6. SessionsTyped'
    BY DEF IInv, TypeOK, SessionsTyped, Consolidate, lineage
  <2> QED
    BY <2>1, <2>5, <2>6 DEF TypeOK
<1>4. UnwrittenAreHeads' /\ ImagesAreCarried'
  BY DEF IInv, Consolidate, lineage, UnwrittenAreHeads, ImagesAreCarried
<1>5. DeletionsCoverTheirTargets'
  BY <1>2 DEF IInv, Consolidate, lineage, DeletionsCoverTheirTargets
<1>6. LostSupportIsRetracted'
  <2> SUFFICES ASSUME NEW c \in Claims, claim'[c] # None, c \notin retracted'
               PROVE  /\ claim'[c].source \in deleted' => drawn'[c] = "deleted"
                      /\ successor'[claim'[c].source] # None =>
                           claim'[c].support = "paraphrased" \/ drawn'[c] # "live"
    BY DEF LostSupportIsRetracted
  <2>1. UNCHANGED <<deleted, successor, retracted>>
    BY DEF Consolidate, lineage
  <2>2. CASE c \in batch
    <3>1. claim'[c].source = e /\ drawn'[c] = Fate(e)
      BY <2>2, <1>2
    <3> QED
      BY <3>1, <2>1 DEF Fate
  <2>3. CASE c \notin batch
    <3>1. claim'[c] = claim[c] /\ drawn'[c] = drawn[c]
      BY <2>3, <1>2
    <3> QED
      BY <3>1, <2>1 DEF IInv, LostSupportIsRetracted
  <2> QED
    BY <2>2, <2>3
<1> QED
  BY <1>3, <1>4, <1>5, <1>6 DEF IInv

\* Retracting claims, whichever they are, only helps.
LEMMA InvRetract ==
  ASSUME IInv, NEW chosen \in SUBSET Claims, Retract(chosen),
         UNCHANGED <<lineage, owed, claim, drawn, form, deletion>>
  PROVE  IInv'
<1>1. retracted \subseteq retracted' /\ retracted' \subseteq retracted \cup chosen
  BY DEF Retract
<1>2. TypeOK'
  BY <1>1 DEF IInv, TypeOK, RowsTyped, ClaimsTyped, SessionsTyped, lineage
<1>3. UnwrittenAreHeads' /\ ImagesAreCarried'
  BY DEF IInv, lineage, UnwrittenAreHeads, ImagesAreCarried
<1>4. DeletionsCoverTheirTargets' /\ LostSupportIsRetracted'
  BY <1>1 DEF IInv, lineage, DeletionsCoverTheirTargets, LostSupportIsRetracted
<1> QED
  BY <1>2, <1>3, <1>4 DEF IInv

\* A form or a delete that opens or closes moves nothing else.
LEMMA InvSession ==
  ASSUME IInv, UNCHANGED <<lineage, owed, knowledge>>, SessionsTyped', DeletionsCoverTheirTargets'
  PROVE  IInv'
<1>1. TypeOK'
  BY DEF IInv, TypeOK, RowsTyped, ClaimsTyped, lineage, knowledge
<1>2. UnwrittenAreHeads' /\ LostSupportIsRetracted' /\ ImagesAreCarried'
  BY DEF IInv, lineage, knowledge, UnwrittenAreHeads, LostSupportIsRetracted,
         ImagesAreCarried
<1> QED
  BY <1>1, <1>2 DEF IInv

\* What a supersede leaves asserted is paraphrased, and the new row is unknown to
\* every claim, delete and pointer.
LEMMA InvSupersede ==
  ASSUME IInv, NEW s \in Sessions, NEW new \in Experiences, Supersede(s, new)
  PROVE  IInv'
<1> DEFINE e == form[s]
<1>1. e \in rows /\ e \in Experiences /\ new \notin rows /\ e # new
  BY DEF IInv, TypeOK, RowsTyped, SessionsTyped, Supersede
<1>2. /\ successor' = [successor EXCEPT ![e] = new]
      /\ images' = Carried(e, new)
      /\ rows' = rows \cup {new}
      /\ owed' = owed \cup {new}
      /\ form' = [form EXCEPT ![s] = None]
      /\ UNCHANGED <<deleted, claim, drawn, deletion>>
  BY DEF Supersede
<1>3. /\ retracted \subseteq retracted'
      /\ Unsupported(e) \subseteq retracted'
      /\ retracted' \subseteq Claims
  BY DEF IInv, TypeOK, ClaimsTyped, Supersede, Retract, Unsupported, Asserted, ClaimsOf
<1>4. successor \in [Experiences -> rows \cup {None}]
  BY DEF IInv, TypeOK, RowsTyped
<1>5. TypeOK'
  <2>1. RowsTyped'
    BY <1>1, <1>2 DEF IInv, TypeOK, RowsTyped, Carried
  <2>2. ClaimsTyped'
    BY <1>2, <1>3 DEF IInv, TypeOK, ClaimsTyped
  <2>3. SessionsTyped'
    BY <1>2 DEF IInv, TypeOK, SessionsTyped
  <2> QED
    BY <2>1, <2>2, <2>3 DEF TypeOK
<1>6. UnwrittenAreHeads'
  BY <1>1, <1>2, <1>4 DEF IInv, UnwrittenAreHeads
<1>7. DeletionsCoverTheirTargets'
  BY <1>2, <1>3 DEF IInv, DeletionsCoverTheirTargets
<1>8. LostSupportIsRetracted'
  <2> SUFFICES ASSUME NEW c \in Claims, claim[c] # None, c \notin retracted'
               PROVE  /\ claim[c].source \in deleted => drawn[c] = "deleted"
                      /\ successor'[claim[c].source] # None =>
                           claim[c].support = "paraphrased" \/ drawn[c] # "live"
    BY <1>2 DEF LostSupportIsRetracted
  <2>1. c \notin retracted /\ c \notin Unsupported(e)
    BY <1>3
  <2>2. claim[c] \in Supported
    BY DEF IInv, TypeOK, ClaimsTyped
  <2>3. CASE claim[c].source = e
    <3>1. claim[c].support \notin {"verbatim", "inferred"}
      BY <2>1, <2>3 DEF Unsupported, Asserted, ClaimsOf
    <3>2. claim[c].support = "paraphrased"
      BY <2>2, <3>1 DEF Supported, SupportKinds
    <3> QED
      BY <2>1, <3>2 DEF IInv, LostSupportIsRetracted
  <2>4. CASE claim[c].source # e
    <3>1. successor'[claim[c].source] = successor[claim[c].source]
      BY <2>2, <2>4, <1>2, <1>4 DEF Supported
    <3> QED
      BY <2>1, <3>1 DEF IInv, LostSupportIsRetracted
  <2> QED
    BY <2>3, <2>4
<1>9. ImagesAreCarried'
  <2> SUFFICES ASSUME NEW x \in images', successor'[x] # None
               PROVE  successor'[x] \in images'
    BY DEF ImagesAreCarried
  <2>1. images \subseteq images' /\ images' \subseteq images \cup {new}
    BY <1>2 DEF Carried
  <2>2. CASE x = e
    <3>1. e \in images
      BY <2>1, <2>2, <1>1
    <3> QED
      BY <3>1, <2>2, <1>1, <1>2, <1>4 DEF Carried
  <2>3. CASE x = new
    <3>1. successor'[new] = None
      BY <1>1, <1>2, <1>4 DEF IInv, UnwrittenAreHeads
    <3> QED
      BY <3>1, <2>3
  <2>4. CASE x # e /\ x # new
    <3>1. x \in images /\ x \in Experiences
      BY <2>1, <2>4 DEF IInv, TypeOK, RowsTyped
    <3>2. successor'[x] = successor[x]
      BY <3>1, <2>4, <1>2, <1>4
    <3> QED
      BY <3>1, <3>2, <2>1 DEF IInv, ImagesAreCarried
  <2> QED
    BY <2>2, <2>3, <2>4
<1> QED
  BY <1>5, <1>6, <1>7, <1>8, <1>9 DEF IInv

LEMMA InvBeginDelete ==
  ASSUME IInv, NEW s \in Sessions, NEW e \in Experiences, BeginDelete(s, e)
  PROVE  IInv'
<1>1. /\ deletion' = [deletion EXCEPT ![s] = [target |-> e, claims |-> Orphans(e)]]
      /\ e \in rows
      /\ UNCHANGED <<lineage, owed, knowledge, form>>
  BY DEF BeginDelete
<1>2. [target |-> e, claims |-> Orphans(e)] \in Deletion
  BY DEF Deletion, Orphans, Asserted, ClaimsOf
<1>3. SessionsTyped'
  BY <1>1, <1>2 DEF IInv, TypeOK, SessionsTyped, lineage
<1>4. DeletionsCoverTheirTargets'
  <2> SUFFICES ASSUME NEW t \in Sessions, deletion'[t] # None
               PROVE  /\ deletion'[t].target \in rows
                      /\ \A c \in Claims :
                           claim[c] # None /\ claim[c].source = deletion'[t].target =>
                             c \in deletion'[t].claims \cup retracted
    BY <1>1 DEF DeletionsCoverTheirTargets, lineage, knowledge
  <2>1. CASE t = s
    <3>1. deletion'[t] = [target |-> e, claims |-> Orphans(e)]
      BY <2>1, <1>1 DEF IInv, TypeOK, SessionsTyped
    <3> QED
      BY <3>1, <1>1 DEF Orphans, Asserted, ClaimsOf
  <2>2. CASE t # s
    <3>1. deletion'[t] = deletion[t]
      BY <2>2, <1>1 DEF IInv, TypeOK, SessionsTyped
    <3> QED
      BY <3>1 DEF IInv, DeletionsCoverTheirTargets
  <2> QED
    BY <2>1, <2>2
<1> QED
  BY <1>1, <1>3, <1>4, InvSession

\* The claims chosen and the ones retracted meanwhile are all the target had.
LEMMA InvCommitDelete ==
  ASSUME IInv, NEW s \in Sessions, CommitDelete(s)
  PROVE  IInv'
<1> DEFINE d == deletion[s]
<1>1. /\ d # None
      /\ deleted' = deleted \cup {d.target}
      /\ retracted' = retracted \cup d.claims
      /\ deletion' = [deletion EXCEPT ![s] = None]
      /\ UNCHANGED <<rows, owed, images, successor, claim, drawn, form>>
  BY DEF CommitDelete
<1>2. d \in Deletion /\ d.target \in rows
  BY <1>1 DEF IInv, TypeOK, SessionsTyped, DeletionsCoverTheirTargets
<1>3. TypeOK'
  <2>1. RowsTyped'
    BY <1>1, <1>2 DEF IInv, TypeOK, RowsTyped
  <2>2. ClaimsTyped'
    BY <1>1, <1>2 DEF IInv, TypeOK, ClaimsTyped, Deletion
  <2>3. SessionsTyped'
    BY <1>1 DEF IInv, TypeOK, SessionsTyped
  <2> QED
    BY <2>1, <2>2, <2>3 DEF TypeOK
<1>4. UnwrittenAreHeads' /\ ImagesAreCarried'
  BY <1>1 DEF IInv, UnwrittenAreHeads, ImagesAreCarried
<1>5. DeletionsCoverTheirTargets'
  BY <1>1 DEF IInv, TypeOK, SessionsTyped, DeletionsCoverTheirTargets
<1>6. LostSupportIsRetracted'
  <2>1. \A c \in Claims : claim[c] # None /\ c \notin retracted' => claim[c].source # d.target
    BY <1>1 DEF IInv, DeletionsCoverTheirTargets
  <2> QED
    BY <2>1, <1>1 DEF IInv, LostSupportIsRetracted
<1> QED
  BY <1>3, <1>4, <1>5, <1>6 DEF IInv

-----------------------------------------------------------------------------
(***************************************************************************)
(* Every step.                                                             *)
(***************************************************************************)
LEMMA InvStep == IInv /\ [Next]_vars => IInv'
<1> SUFFICES ASSUME IInv, [Next]_vars PROVE IInv'
  OBVIOUS
<1>1. ASSUME NEW e \in Experiences, NEW withImage \in BOOLEAN, Capture(e, withImage)
      PROVE  IInv'
  BY <1>1, InvCapture
<1>2. ASSUME NEW e \in Experiences, NEW batch \in SUBSET Claims,
             NEW support \in [batch -> SupportKinds], Consolidate(e, support)
      PROVE  IInv'
  BY <1>2, InvConsolidate
<1>3. ASSUME NEW e \in Experiences, NEW batch \in SUBSET Claims, RetractParaphrased(e, batch)
      PROVE  IInv'
  <2>1. {c \in Asserted(e) \cap batch : claim[c].support = "paraphrased"} \in SUBSET Claims
    OBVIOUS
  <2> QED
    BY <1>3, <2>1, InvRetract DEF RetractParaphrased
<1>4. ASSUME NEW c \in Claims, RetractClaim(c)
      PROVE  IInv'
  <2>1. {c} \in SUBSET Claims
    OBVIOUS
  <2> QED
    BY <1>4, <2>1, InvRetract DEF RetractClaim
<1>5. ASSUME NEW s \in Sessions, EditInPlace(s)
      PROVE  IInv'
  <2>1. SessionsTyped'
    BY <1>5 DEF IInv, TypeOK, SessionsTyped, EditInPlace, lineage
  <2>2. DeletionsCoverTheirTargets'
    BY <1>5 DEF IInv, EditInPlace, lineage, knowledge, DeletionsCoverTheirTargets
  <2> QED
    BY <1>5, <2>1, <2>2, InvSession DEF EditInPlace
<1>6. ASSUME NEW s \in Sessions, CommitDelete(s)
      PROVE  IInv'
  BY <1>6, InvCommitDelete
<1>7. ASSUME NEW s \in Sessions, AbortDelete(s)
      PROVE  IInv'
  <2>1. SessionsTyped'
    BY <1>7 DEF IInv, TypeOK, SessionsTyped, AbortDelete, lineage
  <2>2. DeletionsCoverTheirTargets'
    BY <1>7 DEF IInv, TypeOK, SessionsTyped, AbortDelete, lineage, knowledge,
                DeletionsCoverTheirTargets
  <2> QED
    BY <1>7, <2>1, <2>2, InvSession DEF AbortDelete
<1>8. ASSUME NEW s \in Sessions, NEW e \in Experiences, OpenForm(s, e)
      PROVE  IInv'
  <2>1. SessionsTyped'
    BY <1>8 DEF IInv, TypeOK, SessionsTyped, OpenForm, Live, lineage
  <2>2. DeletionsCoverTheirTargets'
    BY <1>8 DEF IInv, OpenForm, lineage, knowledge, DeletionsCoverTheirTargets
  <2> QED
    BY <1>8, <2>1, <2>2, InvSession DEF OpenForm
<1>9. ASSUME NEW s \in Sessions, NEW e \in Experiences, Supersede(s, e)
      PROVE  IInv'
  BY <1>9, InvSupersede
<1>10. ASSUME NEW s \in Sessions, NEW e \in Experiences, BeginDelete(s, e)
       PROVE  IInv'
  BY <1>10, InvBeginDelete
<1>11. ASSUME UNCHANGED vars
       PROVE  IInv'
  BY <1>11 DEF vars, IInv, TypeOK, RowsTyped, ClaimsTyped, SessionsTyped, UnwrittenAreHeads,
               DeletionsCoverTheirTargets, LostSupportIsRetracted, ImagesAreCarried
<1> QED
  BY <1>1, <1>2, <1>3, <1>4, <1>5, <1>6, <1>7, <1>8, <1>9, <1>10, <1>11 DEF Next

\* Every reference names a row that exists, whatever sessions and worker do.
THEOREM TypeCorrect == Spec => []TypeOK
<1>1. IInv => TypeOK
  BY DEF IInv
<1> QED
  BY <1>1, InvInit, InvStep, PTL DEF Spec

\* No interleaving of edits, deletes, retractions and late consolidation leaves a
\* claim asserted past the support it was drawn with (edits.py, deletes.py).
THEOREM LostSupportIsRetractedHolds == Spec => []LostSupportIsRetracted
<1>1. IInv => LostSupportIsRetracted
  BY DEF IInv
<1> QED
  BY <1>1, InvInit, InvStep, PTL DEF Spec

\* However often and from however stale a form a row is superseded, its image is
\* carried to what supersedes it (_CARRY_ATTACHMENTS_SQL).
THEOREM ImagesAreCarriedHolds == Spec => []ImagesAreCarried
<1>1. IInv => ImagesAreCarried
  BY DEF IInv
<1> QED
  BY <1>1, InvInit, InvStep, PTL DEF Spec
=============================================================================
