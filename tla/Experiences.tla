----------------------------- MODULE Experiences -----------------------------
(***************************************************************************)
(* The life of a brain.experiences row and of the claims drawn from it:    *)
(* captured, edited, superseded, soft-deleted                              *)
(* (web/openbrain/brain/services/captures.py, edits.py, deletes.py), while *)
(* consolidation may commit its claims at any moment and claims are        *)
(* retracted one by one.                                                   *)
(*                                                                         *)
(* A content edit far from the old text inserts a new pending row, points  *)
(* superseded_by at it and retracts what the old text no longer supports;  *)
(* a soft delete retracts the claims that lose their only source.  The     *)
(* edit form is opened in one request and posted in another.  Each posted  *)
(* edit is one transaction holding the row's lock, so one action; a delete *)
(* chooses its claims in one statement and retracts them in others, and    *)
(* locks only the experience, so it is two.                                *)
(*                                                                         *)
(* The code gives every claim exactly one source (write_claim_for_         *)
(* experience).  Content, owner and visibility are left out: a request by  *)
(* another member is refused before any write.                             *)
(***************************************************************************)

CONSTANTS
  Experiences,  \* ids brain.experiences rows may take
  Claims,       \* ids brain.claims rows may take
  Sessions,     \* concurrent requests of the owner
  None          \* SQL null

ASSUME ExperiencesAssumption == None \notin Experiences

\* support_kind, without 'imported', which the extractor never emits.
SupportKinds == {"verbatim", "inferred", "paraphrased"}
Fates == {"live", "superseded", "deleted"}
Supported == [source : Experiences, support : SupportKinds]
Deletion == [target : Experiences, claims : SUBSET Claims]

VARIABLES
  rows,       \* experiences inserted so far
  owed,       \* rows whose consolidation has not ended
  images,     \* rows with an attachment
  successor,  \* superseded_by
  deleted,    \* rows with deleted_at set
  claim,      \* source and support kind of each claim, None before its insert
  retracted,  \* claims of polarity 'retracted'
  form,       \* the experience whose edit form each session has open
  deletion,   \* each session's delete transaction, between its statements
  drawn       \* history: what had become of its source when a claim was inserted

lineage == <<rows, images, successor, deleted>>
knowledge == <<claim, retracted, drawn>>
vars == <<rows, owed, images, successor, deleted, claim, retracted, form, deletion, drawn>>

RowsTyped ==
  /\ rows \subseteq Experiences
  /\ owed \subseteq rows
  /\ images \subseteq rows
  /\ deleted \subseteq rows
  /\ successor \in [Experiences -> rows \cup {None}]

ClaimsTyped ==
  /\ claim \in [Claims -> Supported \cup {None}]
  /\ retracted \subseteq Claims
  /\ drawn \in [Claims -> Fates]

SessionsTyped ==
  /\ form \in [Sessions -> rows \cup {None}]
  /\ deletion \in [Sessions -> Deletion \cup {None}]

\* The types of the schema: every reference names a row that exists.
TypeOK == RowsTyped /\ ClaimsTyped /\ SessionsTyped

\* Mutant: a missing row is taken for a live one.
LiveUnchecked(e) == successor[e] = None /\ e \notin deleted
Live(e) == e \in rows /\ successor[e] = None /\ e \notin deleted

Fate(e) == IF e \in deleted THEN "deleted"
           ELSE IF successor[e] # None THEN "superseded" ELSE "live"

\* select ... for update of a delete in progress; it also blocks the foreign key
\* check of a claim_sources insert.
Locked(e) == \E s \in Sessions : deletion[s] # None /\ deletion[s].target = e

ClaimsOf(e) == {c \in Claims : claim[c] # None /\ claim[c].source = e}
Asserted(e) == ClaimsOf(e) \ retracted

Init ==
  /\ rows = {} /\ owed = {} /\ images = {} /\ deleted = {}
  /\ successor = [e \in Experiences |-> None]
  /\ claim = [c \in Claims |-> None]
  /\ retracted = {}
  /\ form = [s \in Sessions |-> None]
  /\ deletion = [s \in Sessions |-> None]
  /\ drawn = [c \in Claims |-> "live"]

\* capture, or capture_image whose attachment commits with its row.
Capture(e, withImage) ==
  /\ e \notin rows
  /\ rows' = rows \cup {e}
  /\ owed' = owed \cup {e}
  /\ images' = IF withImage THEN images \cup {e} ELSE images
  /\ UNCHANGED <<successor, deleted, knowledge, form, deletion>>

\* The worker's write transaction.  It looks at no lifecycle column of the row.
Consolidate(e, support) ==
  /\ e \in owed /\ ~Locked(e)
  /\ \A c \in DOMAIN support : claim[c] = None
  /\ claim' = [c \in Claims |-> IF c \in DOMAIN support
                                  THEN [source |-> e, support |-> support[c]] ELSE claim[c]]
  /\ drawn' = [c \in Claims |-> IF c \in DOMAIN support THEN Fate(e) ELSE drawn[c]]
  /\ owed' = owed \ {e}
  /\ UNCHANGED <<lineage, retracted, form, deletion>>

-----------------------------------------------------------------------------
(***************************************************************************)
(* Retractions: one claim by hand, and the batch of a lost source.         *)
(***************************************************************************)
Retract(chosen) == retracted' = retracted \cup chosen

RetractClaim(c) ==
  /\ claim[c] # None /\ c \notin retracted
  /\ Retract({c})
  /\ UNCHANGED <<lineage, owed, claim, drawn, form, deletion>>

\* edit_experience with paraphrased_claim_retractions alone: the human says which.
RetractParaphrased(e, requested) ==
  /\ e \in rows /\ ~Locked(e)
  /\ Retract({c \in Asserted(e) \cap requested : claim[c].support = "paraphrased"})
  /\ UNCHANGED <<lineage, owed, claim, drawn, form, deletion>>

-----------------------------------------------------------------------------
(***************************************************************************)
(* The edit form: GET experience_edit, then POST edit_experience.          *)
(***************************************************************************)
\* A superseded or deleted row has no form.
OpenForm(s, e) ==
  /\ form[s] = None /\ Live(e)
  /\ form' = [form EXCEPT ![s] = e]
  /\ UNCHANGED <<lineage, owed, knowledge, deletion>>

\* Posted with text close to the old (cosine > 0.95): the row is rewritten in
\* place and keeps its claims.  Or abandoned, or the embedding failed.
EditInPlace(s) ==
  /\ form[s] # None /\ ~Locked(form[s])
  /\ form' = [form EXCEPT ![s] = None]
  /\ UNCHANGED <<lineage, owed, knowledge, deletion>>

\* Mutants: only verbatim claims go; the attachments stay behind.
UnsupportedVerbatim(e) == {c \in Asserted(e) : claim[c].support = "verbatim"}
CarriedNowhere(e, new) == images

\* The claims a new text no longer supports, and the rows with an attachment.
Unsupported(e) == {c \in Asserted(e) : claim[c].support \in {"verbatim", "inferred"}}
Carried(e, new) == IF e \in images THEN images \cup {new} ELSE images

\* Posted with text far from the old.  Nothing here asks whether the row is live.
Supersede(s, new) ==
  /\ form[s] # None /\ ~Locked(form[s]) /\ new \notin rows
  /\ LET e == form[s] IN
       /\ successor' = [successor EXCEPT ![e] = new]
       /\ images' = Carried(e, new)
       /\ Retract(Unsupported(e))
  /\ rows' = rows \cup {new}
  /\ owed' = owed \cup {new}
  /\ form' = [form EXCEPT ![s] = None]
  /\ UNCHANGED <<deleted, claim, drawn, deletion>>

-----------------------------------------------------------------------------
(***************************************************************************)
(* soft_delete_experience.                                                 *)
(***************************************************************************)
\* Mutant: a delete leaves the paraphrased claims to a human, as an edit does.
OrphansSpared(e) == {c \in Asserted(e) : claim[c].support # "paraphrased"}
Orphans(e) == Asserted(e)

\* The row is locked and the claims without another source are chosen.  A row
\* already deleted is left alone.
BeginDelete(s, e) ==
  /\ deletion[s] = None
  /\ e \in rows \ deleted /\ ~Locked(e)
  /\ deletion' = [deletion EXCEPT ![s] = [target |-> e, claims |-> Orphans(e)]]
  /\ UNCHANGED <<lineage, owed, knowledge, form>>

\* Each chosen claim is retracted if it still is asserted.
CommitDelete(s) ==
  /\ deletion[s] # None
  /\ LET d == deletion[s] IN
       /\ deleted' = deleted \cup {d.target}
       /\ retracted' = retracted \cup d.claims
  /\ deletion' = [deletion EXCEPT ![s] = None]
  /\ UNCHANGED <<rows, owed, images, successor, claim, drawn, form>>

\* The request dies before its commit.
AbortDelete(s) ==
  /\ deletion[s] # None
  /\ deletion' = [deletion EXCEPT ![s] = None]
  /\ UNCHANGED <<lineage, owed, knowledge, form>>

Next ==
  \/ \E e \in Experiences :
       \/ \E withImage \in BOOLEAN : Capture(e, withImage)
       \/ \E batch \in SUBSET Claims :
            \/ \E support \in [batch -> SupportKinds] : Consolidate(e, support)
            \/ RetractParaphrased(e, batch)
  \/ \E c \in Claims : RetractClaim(c)
  \/ \E s \in Sessions :
       \/ EditInPlace(s) \/ CommitDelete(s) \/ AbortDelete(s)
       \/ \E e \in Experiences : OpenForm(s, e) \/ Supersede(s, e) \/ BeginDelete(s, e)

Spec == Init /\ [][Next]_vars

-----------------------------------------------------------------------------
(***************************************************************************)
(* Properties.                                                             *)
(***************************************************************************)
\* A claim does not outlive the support it was drawn with: a delete retracts every
\* claim drawn before it, a supersede the verbatim and inferred ones drawn while
\* the row was live (soft_delete_experience, _supersede), whatever was retracted,
\* edited or deleted in between.  Paraphrased claims wait for a human; claims
\* committed after the row's death are DeletedAssertsNothing's matter.
LostSupportIsRetracted ==
  \A c \in Claims : claim[c] # None /\ c \notin retracted =>
    /\ claim[c].source \in deleted => drawn[c] = "deleted"
    /\ successor[claim[c].source] # None =>
         claim[c].support = "paraphrased" \/ drawn[c] # "live"

\* deletes.py: a soft delete "retracts every claim whose only remaining live source
\* was this experience", so what a deleted experience said is asserted no more.
DeletedAssertsNothing == \A e \in deleted : Asserted(e) = {}

\* An image is not orphaned by edits: search shows live rows only, so whatever
\* superseded a row with an image, also twice, carries the image on
\* (_CARRY_ATTACHMENTS_SQL, #42).
ImagesAreCarried ==
  \A e \in images : successor[e] # None => successor[e] \in images
=============================================================================
