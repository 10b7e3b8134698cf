-------------------------------- MODULE Images --------------------------------
(***************************************************************************)
(* Filing a photo (web/openbrain/brain/services/image_captures.py,         *)
(* blobstore.py) and reconciling the object store with brain.blobs.        *)
(*                                                                         *)
(* A photo comes through one of three doors: the app's multipart POST, a   *)
(* small inline screenshot, or the key of an object the app has already    *)
(* put in the bucket.  Decoding, dating, describing, embedding and the put *)
(* all happen before the one transaction that writes the experience, the   *)
(* blob row and the attachment, so a capture that dies in between leaves   *)
(* an object without a row; orphan_blob_keys lists those.                  *)
(*                                                                         *)
(* A photo stands for its original's hash, which is also its object key.   *)
(* What is stored under it is a derivative, made here or by the app.       *)
(***************************************************************************)
EXTENDS Naturals

CONSTANTS
  Photos,       \* original images, and the keys derived from them
  Requests,     \* captures served at one time
  MaxCaptures,  \* bound on captures
  None

\* sha256 of the derivative made here, of the app's, and of the original itself.
Hashes == {"webp", "app", "original"}

\* What can be wrong with a request, by the step that finds out: metadata, bytes
\* and time are the caller's, as is the id of an entity that is gone; vision and
\* embedding are network calls.  Of several, the first one found counts.
Defects == {"none", "metadata", "bytes", "time", "entity", "embedding"}
Doors == {"multipart", "inline", "object"}
Stages == {"received", "prepared", "described", "embedded", "stored"}

\* A capture knows the hash it will store from the moment its photo is prepared.
Request ==
  [photo : Photos, door : Doors, defect : Defects, stage : {"received"}, sha : {None}]
    \cup [photo : Photos, door : Doors, defect : Defects,
          stage : Stages \ {"received"}, sha : Hashes]
Causes == {"crash", "put", "entity", "time"}

ASSUME ImagesAssumption ==
  /\ MaxCaptures \in Nat
  /\ None \notin Hashes \cup Request

VARIABLES
  store,     \* the derivative stored under each key
  blob,      \* brain.blobs.sha256 of each key's row
  links,     \* brain.attachments rows of each key
  request,   \* the captures being served
  listed,    \* the reconciliation's list of the store, None between runs
  reported,  \* what the last reconciliation returned
  captures,  \* captures so far
  stranded,  \* history: why a capture left each key without a row
  awaited    \* history: the keys stranded and idle when the store was listed

tables == <<blob, links>>
scanning == <<listed, reported, awaited>>
vars == <<store, blob, links, request, listed, reported, captures, stranded, awaited>>

StoreTyped ==
  /\ store \in [Photos -> Hashes \cup {None}]
  /\ blob \in [Photos -> Hashes \cup {None}]
  /\ links \in [Photos -> Nat]

ScanTyped ==
  /\ listed \in (SUBSET Photos) \cup {None}
  /\ reported \subseteq Photos /\ awaited \subseteq Photos

CapturesTyped ==
  /\ request \in [Requests -> Request \cup {None}]
  /\ captures \in Nat
  /\ stranded \in [Photos -> SUBSET Causes]

\* The types of the store, the tables and the captures in flight.
TypeOK == StoreTyped /\ ScanTyped /\ CapturesTyped

Init ==
  /\ store = [p \in Photos |-> None]
  /\ blob = [p \in Photos |-> None]
  /\ links = [p \in Photos |-> 0]
  /\ request = [r \in Requests |-> None]
  /\ listed = None /\ reported = {} /\ awaited = {}
  /\ captures = 0
  /\ stranded = [p \in Photos |-> {}]

-----------------------------------------------------------------------------
(***************************************************************************)
(* The doors.                                                              *)
(***************************************************************************)
Receive(r, p, door, defect) ==
  /\ request[r] = None
  /\ captures < MaxCaptures /\ captures' = captures + 1
  /\ request' = [request EXCEPT ![r] = [photo |-> p, door |-> door, defect |-> defect,
                                        stage |-> "received", sha |-> None]]
  /\ UNCHANGED <<store, tables, scanning, stranded>>

\* The app's form is parsed first: a bad time is a 400 here.
CaptureImageApi(r, p, defect) ==
  defect # "time" /\ Receive(r, p, "multipart", defect)

CaptureImageTool(r, p, door, defect) ==
  door # "multipart" /\ Receive(r, p, door, defect)

\* External: the app puts its own derivative through a presigned URL.
AppPut(p) ==
  /\ store' = [store EXCEPT ![p] = "app"]
  /\ UNCHANGED <<tables, request, scanning, captures, stranded>>

-----------------------------------------------------------------------------
(***************************************************************************)
(* capture_image, before the transaction.                                  *)
(***************************************************************************)
At(r, stage) == request[r] # None /\ request[r].stage = stage
Sound(r, defect) == request[r].defect # defect
Advance(r, stage) == request' = [request EXCEPT ![r].stage = stage]
Drop(r) == request' = [request EXCEPT ![r] = None]
Untouched == UNCHANGED <<tables, scanning, captures>>

\* Mutants: the derivative of an uploaded object has no hash; the key is taken at
\* its word.
IntakeUnhashed(u) ==
  IF u.door = "object" THEN IF store[u.photo] = None THEN {} ELSE {None}
  ELSE IF u.defect = "bytes" THEN {} ELSE {"webp"}
IntakeUnchecked(u) == IF u.door = "object" THEN {"original"} ELSE {"webp"}

\* _prepare_blob: bytes are decoded and re-encoded, a key is looked up in the
\* bucket.  The hash of what was looked up is the original's.
Intake(u) ==
  IF u.door = "object" THEN IF store[u.photo] = None THEN {} ELSE {"original"}
  ELSE IF u.defect = "bytes" THEN {} ELSE {"webp"}

PrepareBlob(r) ==
  /\ At(r, "received")
  /\ \/ /\ Sound(r, "metadata")
        /\ \E sha \in Intake(request[r]) :
             request' = [request EXCEPT ![r].stage = "prepared", ![r].sha = sha]
     \/ /\ ~Sound(r, "metadata") \/ Intake(request[r]) = {}
        /\ Drop(r)
  /\ Untouched /\ UNCHANGED <<store, stranded>>

\* Mutant: the time is first looked at by the insert.
DatedByInsert == "stored"

\* The stage at which a time no one can parse is found out.
Dated == "prepared"

\* _resolve_when and _resolve_description.  Whatever vision answers, the capture
\* goes on, with a placeholder if need be.
ResolveDescription(r) ==
  /\ At(r, "prepared")
  /\ IF Dated = "prepared" /\ ~Sound(r, "time") THEN Drop(r) ELSE Advance(r, "described")
  /\ Untouched /\ UNCHANGED <<store, stranded>>

Embed(r) ==
  /\ At(r, "described")
  /\ IF Sound(r, "embedding") THEN Advance(r, "embedded") ELSE Drop(r)
  /\ Untouched /\ UNCHANGED <<store, stranded>>

Stranded(p, cause) ==
  stranded' = IF blob[p] = None THEN [stranded EXCEPT ![p] = @ \cup {cause}] ELSE stranded

\* Only the doors that carry bytes put an object; an answer may be lost.
Put(r) ==
  /\ At(r, "embedded")
  /\ LET u == request[r] IN
       IF u.door = "object"
         THEN Advance(r, "stored") /\ UNCHANGED <<store, stranded>>
         ELSE /\ store' = [store EXCEPT ![u.photo] = u.sha]
              /\ \/ Advance(r, "stored") /\ UNCHANGED stranded
                 \/ Drop(r) /\ Stranded(u.photo, "put")
  /\ Untouched

-----------------------------------------------------------------------------
(***************************************************************************)
(* The transaction.                                                        *)
(***************************************************************************)
\* on conflict (bucket, object_key): the row keeps its hash and length.
UpsertBlob(p, sha) ==
  blob' = [blob EXCEPT ![p] = IF @ = None THEN sha ELSE @]

\* Participants named by an id that is gone raise out of the insert.
Refusal(u) ==
  IF u.defect = "entity" THEN {"entity"}
  ELSE IF Dated = "stored" /\ u.defect = "time" THEN {"time"} ELSE {}

Commit(r) ==
  /\ At(r, "stored")
  /\ LET u == request[r] IN
       \/ /\ Refusal(u) = {}
          /\ UpsertBlob(u.photo, u.sha)
          /\ links' = [links EXCEPT ![u.photo] = @ + 1]
          /\ stranded' = [stranded EXCEPT ![u.photo] = {}]
       \/ /\ \E cause \in Refusal(u) : Stranded(u.photo, cause)
          /\ UNCHANGED tables
  /\ Drop(r)
  /\ UNCHANGED <<store, scanning, captures>>

\* The process dies at any point, or the transaction fails.
Crash(r) ==
  /\ request[r] # None
  /\ Drop(r)
  /\ IF At(r, "stored") THEN Stranded(request[r].photo, "crash") ELSE UNCHANGED stranded
  /\ Untouched /\ UNCHANGED store

-----------------------------------------------------------------------------
(***************************************************************************)
(* orphan_blob_keys.                                                       *)
(***************************************************************************)
Stored == {p \in Photos : store[p] # None}
Rows == {p \in Photos : blob[p] # None}

ListKeys ==
  /\ listed = None
  /\ listed' = Stored
  /\ awaited' = {p \in Photos : stranded[p] # {}}
  /\ UNCHANGED <<store, tables, request, reported, captures, stranded>>

\* Mutant: what was reported once is taken for reaped.
OrphansOnce == (listed \ Rows) \ reported
Orphans == listed \ Rows

ReadRows ==
  /\ listed # None
  /\ reported' = Orphans
  /\ listed' = None /\ awaited' = {}
  /\ UNCHANGED <<store, tables, request, captures, stranded>>

Serve(r) ==
  \/ \E p \in Photos, defect \in Defects :
       \/ CaptureImageApi(r, p, defect)
       \/ \E door \in Doors : CaptureImageTool(r, p, door, defect)
  \/ PrepareBlob(r) \/ ResolveDescription(r) \/ Embed(r) \/ Put(r) \/ Commit(r) \/ Crash(r)

Next ==
  \/ \E r \in Requests : Serve(r)
  \/ \E p \in Photos : AppPut(p)
  \/ ListKeys \/ ReadRows

Spec == Init /\ [][Next]_vars

-----------------------------------------------------------------------------
(***************************************************************************)
(* Properties.                                                             *)
(***************************************************************************)
\* A blob row and every attachment of it name an object that is in the bucket,
\* through whichever door it came and whoever else filed the same photo.
RowsHaveObjects ==
  \A p \in Photos : (blob[p] # None <=> links[p] > 0) /\ (blob[p] # None => store[p] # None)

\* _resolve_when: an object without a row is what "a crash" leaves.  So it belongs
\* to a capture about to commit, or to one that failed inside the put or the
\* transaction, or the app has only uploaded it; bad metadata, bytes and times and
\* failed network calls leave none.
InFlight(p) == \E r \in Requests : At(r, "stored") /\ request[r].photo = p
OnlyLateFailuresStrand ==
  \A p \in Photos : store[p] # None /\ blob[p] = None =>
    /\ InFlight(p) \/ stranded[p] # {} \/ store[p] = "app"
    /\ stranded[p] \subseteq {"crash", "put", "entity"}

\* orphan_blob_keys: whatever was stranded before it ran and has no row since is
\* reported, however many captures and reconciliations run around it, and nothing
\* that has a row is.
ReconciliationIsExact ==
  [][listed # None /\ listed' = None =>
       /\ {p \in awaited : blob[p] = None} \subseteq reported'
       /\ \A p \in reported' : blob[p] = None /\ store[p] # None]_vars
=============================================================================
