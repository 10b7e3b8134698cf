----------------------------- MODULE ImagesProofs -----------------------------
(***************************************************************************)
(* Proofs about Images, for any photos and any number of captures at one   *)
(* time and in all.                                                        *)
(***************************************************************************)
EXTENDS Images, TLAPS

-----------------------------------------------------------------------------
(***************************************************************************)
(* Types.                                                                  *)
(***************************************************************************)
LEMMA PastReceiving ==
  ASSUME NEW u \in Request, u.stage # "received", NEW stage \in Stages \ {"received"}
  PROVE  [u EXCEPT !.stage = stage] \in Request /\ u.sha \in Hashes
<1>1. u \in [photo : Photos, door : Doors, defect : Defects,
             stage : Stages \ {"received"}, sha : Hashes]
  BY DEF Request
<1>2. [u EXCEPT !.stage = stage] \in
        [photo : Photos, door : Doors, defect : Defects,
         stage : Stages \ {"received"}, sha : Hashes]
  BY <1>1
<1> QED
  BY <1>1, <1>2 DEF Request

LEMMA AdvanceTyped ==
  ASSUME TypeOK, NEW r \in Requests, NEW stage \in Stages \ {"received"},
         request[r] # None, request[r].stage # "received", Advance(r, stage)
  PROVE  request' \in [Requests -> Request \cup {None}]
<1>1. request[r] \in Request
  BY DEF TypeOK, CapturesTyped
<1>2. [request[r] EXCEPT !.stage = stage] \in Request
  BY <1>1, PastReceiving
<1> QED
  BY <1>2 DEF Advance, TypeOK, CapturesTyped

LEMMA DropTyped ==
  ASSUME TypeOK, NEW r \in Requests, Drop(r)
  PROVE  request' \in [Requests -> Request \cup {None}]
BY DEF Drop, TypeOK, CapturesTyped

LEMMA StrandedTyped ==
  ASSUME TypeOK, NEW p \in Photos, NEW cause \in Causes, Stranded(p, cause)
  PROVE  stranded' \in [Photos -> SUBSET Causes]
BY DEF Stranded, TypeOK, CapturesTyped

LEMMA TypeInit == Init => TypeOK
<1> SUFFICES ASSUME Init PROVE TypeOK
  OBVIOUS
<1>1. StoreTyped
  BY DEF Init, StoreTyped
<1>2. ScanTyped
  BY DEF Init, ScanTyped
<1>3. CapturesTyped
  BY DEF Init, CapturesTyped
<1> QED
  BY <1>1, <1>2, <1>3 DEF TypeOK

LEMMA ReceiveTyped ==
  ASSUME TypeOK, NEW r \in Requests, NEW p \in Photos, NEW door \in Doors,
         NEW defect \in Defects, Receive(r, p, door, defect)
  PROVE  TypeOK'
<1>1. [photo |-> p, door |-> door, defect |-> defect, stage |-> "received", sha |-> None]
        \in Request
  BY DEF Request
<1>2. request' \in [Requests -> Request \cup {None}]
  BY <1>1 DEF Receive, TypeOK, CapturesTyped
<1> QED
  BY <1>2 DEF Receive, TypeOK, StoreTyped, ScanTyped, CapturesTyped, tables, scanning

LEMMA PrepareTyped ==
  ASSUME TypeOK, NEW r \in Requests, PrepareBlob(r)
  PROVE  request' \in [Requests -> Request \cup {None}]
<1>1. request[r] \in Request
  BY DEF PrepareBlob, At, TypeOK, CapturesTyped
<1>2. CASE Drop(r)
  BY <1>2, DropTyped
<1>3. ASSUME NEW sha \in Intake(request[r]),
             request' = [request EXCEPT ![r].stage = "prepared", ![r].sha = sha]
      PROVE  request' \in [Requests -> Request \cup {None}]
  <2>1. sha \in Hashes
    BY <1>3 DEF Intake, Hashes
  <2>2. [request[r] EXCEPT !.stage = "prepared", !.sha = sha] \in Request
    BY <1>1, <2>1 DEF Request, Stages
  <2> QED
    BY <1>3, <2>2 DEF TypeOK, CapturesTyped
<1> QED
  BY <1>2, <1>3 DEF PrepareBlob

LEMMA ServeTyped == ASSUME TypeOK, NEW r \in Requests, Serve(r) PROVE TypeOK'
<1>0. request[r] # None => request[r] \in Request
  BY DEF TypeOK, CapturesTyped
<1>1. ASSUME NEW p \in Photos, NEW defect \in Defects, CaptureImageApi(r, p, defect)
      PROVE  TypeOK'
  BY <1>1, ReceiveTyped DEF CaptureImageApi, Doors
<1>2. ASSUME NEW p \in Photos, NEW defect \in Defects, NEW door \in Doors,
             CaptureImageTool(r, p, door, defect)
      PROVE  TypeOK'
  BY <1>2, ReceiveTyped DEF CaptureImageTool
<1>3. CASE PrepareBlob(r)
  BY <1>3, PrepareTyped DEF PrepareBlob, Untouched, tables, scanning,
                            TypeOK, StoreTyped, ScanTyped, CapturesTyped
<1>4. CASE ResolveDescription(r)
  <2>1. request' \in [Requests -> Request \cup {None}]
    BY <1>4, DropTyped, AdvanceTyped DEF ResolveDescription, At, Stages
  <2> QED
    BY <1>4, <2>1 DEF ResolveDescription, Untouched, tables, scanning,
                      TypeOK, StoreTyped, ScanTyped, CapturesTyped
<1>5. CASE Embed(r)
  <2>1. request' \in [Requests -> Request \cup {None}]
    BY <1>5, DropTyped, AdvanceTyped DEF Embed, At, Stages
  <2> QED
    BY <1>5, <2>1 DEF Embed, Untouched, tables, scanning,
                      TypeOK, StoreTyped, ScanTyped, CapturesTyped
<1>6. CASE Put(r)
  <2>1. request' \in [Requests -> Request \cup {None}]
    BY <1>6, DropTyped, AdvanceTyped DEF Put, At, Stages
  <2>2. request[r].photo \in Photos /\ request[r].sha \in Hashes
    BY <1>0, <1>6, PastReceiving DEF Put, At, Request
  <2>3. store' \in [Photos -> Hashes \cup {None}]
    BY <1>6, <2>2 DEF Put, TypeOK, StoreTyped
  <2>4. stranded' \in [Photos -> SUBSET Causes]
    BY <1>6, <2>2, StrandedTyped DEF Put, Causes, TypeOK, CapturesTyped
  <2> QED
    BY <1>6, <2>1, <2>3, <2>4 DEF Put, Untouched, tables, scanning,
                                  TypeOK, StoreTyped, ScanTyped, CapturesTyped
<1>7. CASE Commit(r)
  <2>1. request' \in [Requests -> Request \cup {None}]
    BY <1>7, DropTyped DEF Commit
  <2>2. request[r].photo \in Photos /\ request[r].sha \in Hashes
    BY <1>0, <1>7, PastReceiving DEF Commit, At, Request
  <2>3. blob' \in [Photos -> Hashes \cup {None}] /\ links' \in [Photos -> Nat]
    BY <1>7, <2>2 DEF Commit, UpsertBlob, tables, TypeOK, StoreTyped
  <2>4. stranded' \in [Photos -> SUBSET Causes]
    <3>1. Refusal(request[r]) \subseteq Causes
      BY DEF Refusal, Causes
    <3> QED
      BY <1>7, <2>2, <3>1, StrandedTyped DEF Commit, TypeOK, CapturesTyped
  <2> QED
    BY <1>7, <2>1, <2>3, <2>4 DEF Commit, scanning, TypeOK, StoreTyped, ScanTyped, CapturesTyped
<1>8. CASE Crash(r)
  <2>1. request' \in [Requests -> Request \cup {None}]
    BY <1>8, DropTyped DEF Crash
  <2>2. request[r].photo \in Photos
    BY <1>0, <1>8 DEF Crash, Request
  <2>3. stranded' \in [Photos -> SUBSET Causes]
    BY <1>8, <2>2, StrandedTyped DEF Crash, Causes, TypeOK, CapturesTyped
  <2> QED
    BY <1>8, <2>1, <2>3 DEF Crash, Untouched, tables, scanning,
                            TypeOK, StoreTyped, ScanTyped, CapturesTyped
<1> QED
  BY <1>1, <1>2, <1>3, <1>4, <1>5, <1>6, <1>7, <1>8 DEF Serve

LEMMA TypeStep == ASSUME TypeOK, [Next]_vars PROVE TypeOK'
<1>1. ASSUME NEW r \in Requests, Serve(r) PROVE TypeOK'
  BY <1>1, ServeTyped
<1>2. ASSUME NEW p \in Photos, AppPut(p) PROVE TypeOK'
  BY <1>2 DEF AppPut, tables, scanning, TypeOK, StoreTyped, ScanTyped, CapturesTyped, Hashes
<1>3. CASE ListKeys
  BY <1>3 DEF ListKeys, Stored, tables, TypeOK, StoreTyped, ScanTyped, CapturesTyped
<1>4. CASE ReadRows
  BY <1>4 DEF ReadRows, Orphans, Rows, tables, TypeOK, StoreTyped, ScanTyped, CapturesTyped
<1>5. CASE UNCHANGED vars
  BY <1>5 DEF vars, TypeOK, StoreTyped, ScanTyped, CapturesTyped
<1> QED
  BY <1>1, <1>2, <1>3, <1>4, <1>5 DEF Next

\* The store, the tables and the captures in flight keep their types.
THEOREM TypeCorrect == Spec => []TypeOK
BY TypeInit, TypeStep, PTL DEF Spec

-----------------------------------------------------------------------------
(***************************************************************************)
(* The inductive invariant.                                                *)
(***************************************************************************)
\* A capture that will need an object has one from here on: it has put it, or has
\* looked it up under the key it was given.
Leaning(u) == u.stage = "stored" \/ (u.door = "object" /\ u.stage # "received")

Backed ==
  \A r \in Requests :
    request[r] # None /\ Leaning(request[r]) => store[request[r].photo] # None

Late == {"crash", "put", "entity"}

\* A key is stranded only once there is an object under it, and only late.
StrandedStored ==
  \A p \in Photos : stranded[p] \subseteq Late /\ (stranded[p] # {} => store[p] # None)

\* Between its two halves a reconciliation holds a list of keys that are in the bucket,
\* the awaited ones among them.
ListIsSound == listed # None => awaited \subseteq listed /\ listed \subseteq Stored

IInv ==
  /\ TypeOK /\ Backed /\ StrandedStored /\ ListIsSound
  /\ RowsHaveObjects /\ OnlyLateFailuresStrand

LEMMA IInvInit == Init => IInv
<1> SUFFICES ASSUME Init PROVE IInv
  OBVIOUS
<1>1. TypeOK
  BY TypeInit
<1>2. Backed /\ StrandedStored /\ ListIsSound
  BY DEF Init, Backed, StrandedStored, ListIsSound
<1>3. RowsHaveObjects /\ OnlyLateFailuresStrand
  BY DEF Init, RowsHaveObjects, OnlyLateFailuresStrand
<1> QED
  BY <1>1, <1>2, <1>3 DEF IInv

-----------------------------------------------------------------------------
(***************************************************************************)
(* Nothing ever leaves the bucket.                                         *)
(***************************************************************************)
LEMMA Served ==
  ASSUME TypeOK, NEW r \in Requests, request[r] # None
  PROVE  /\ request[r] \in Request
         /\ request[r].photo \in Photos
         /\ request[r].stage # "received" => request[r].sha \in Hashes
<1>1. request[r] \in Request
  BY DEF TypeOK, CapturesTyped
<1> QED
  BY <1>1 DEF Request

LEMMA StoreGrows ==
  ASSUME TypeOK, [Next]_vars
  PROVE  \A p \in Photos : store[p] # None => store'[p] # None
<1>1. ASSUME NEW r \in Requests, Put(r)
      PROVE  \A p \in Photos : store[p] # None => store'[p] # None
  <2>1. request[r].sha \in Hashes
    BY <1>1, Served DEF Put, At
  <2> QED
    BY <1>1, <2>1, ImagesAssumption DEF Put, TypeOK, StoreTyped
<1>2. ASSUME NEW r \in Requests, Serve(r), ~Put(r) PROVE UNCHANGED store
  BY <1>2 DEF Serve, CaptureImageApi, CaptureImageTool, Receive, PrepareBlob,
              ResolveDescription, Embed, Commit, Crash, Untouched
<1>3. ASSUME NEW p \in Photos, AppPut(p)
      PROVE  \A q \in Photos : store[q] # None => store'[q] # None
  BY <1>3, ImagesAssumption DEF AppPut, TypeOK, StoreTyped, Hashes
<1>4. ListKeys \/ ReadRows \/ UNCHANGED vars => UNCHANGED store
  BY DEF ListKeys, ReadRows, vars
<1> QED
  BY <1>1, <1>2, <1>3, <1>4 DEF Next

-----------------------------------------------------------------------------
(***************************************************************************)
(* Whoever will need an object has one.                                    *)
(***************************************************************************)
\* What a served capture does to the others: nothing.
LEMMA OthersKept ==
  ASSUME TypeOK, NEW r \in Requests, Serve(r)
  PROVE  \A q \in Requests \ {r} : request'[q] = request[q]
BY DEF Serve, CaptureImageApi, CaptureImageTool, Receive, PrepareBlob, ResolveDescription,
       Embed, Put, Commit, Crash, Advance, Drop, TypeOK, CapturesTyped

LEMMA BackedOwn ==
  ASSUME TypeOK, Backed, NEW r \in Requests, Serve(r),
         request'[r] # None, Leaning(request'[r])
  PROVE  store'[request'[r].photo] # None
<1>0. request \in [Requests -> Request \cup {None}]
  BY DEF TypeOK, CapturesTyped
<1>1. ASSUME NEW p \in Photos, NEW door \in Doors, NEW defect \in Defects,
             Receive(r, p, door, defect)
      PROVE  FALSE
  BY <1>0, <1>1 DEF Receive, Leaning
<1>2. CASE PrepareBlob(r)
  <2>1. request[r] \in Request
    BY <1>2, Served DEF PrepareBlob, At
  <2>2. ~Drop(r)
    BY <1>0 DEF Drop
  <2>3. PICK sha \in Intake(request[r]) :
          request' = [request EXCEPT ![r].stage = "prepared", ![r].sha = sha]
    BY <1>2, <2>2 DEF PrepareBlob
  <2>4. request'[r].door = request[r].door /\ request'[r].photo = request[r].photo
        /\ request'[r].stage = "prepared"
    BY <1>0, <2>1, <2>3 DEF Request
  <2>5. request[r].door = "object" /\ store[request[r].photo] # None
    BY <2>3, <2>4 DEF Leaning, Intake
  <2> QED
    BY <1>2, <2>4, <2>5 DEF PrepareBlob
<1>3. CASE ResolveDescription(r) \/ Embed(r)
  <2>1. PICK stage \in {"described", "embedded"} : Advance(r, stage)
    BY <1>0, <1>3 DEF ResolveDescription, Embed, Drop
  <2>2. request[r] \in Request /\ request[r] # None /\ request[r].stage # "received"
    BY <1>3, Served DEF ResolveDescription, Embed, At
  <2>3. request'[r].door = request[r].door /\ request'[r].photo = request[r].photo
        /\ request'[r].stage = stage
    BY <1>0, <2>1, <2>2 DEF Advance, Request
  <2>4. Leaning(request[r])
    BY <2>2, <2>3 DEF Leaning
  <2> QED
    BY <1>3, <2>2, <2>3, <2>4 DEF Backed, ResolveDescription, Embed
<1>4. CASE Put(r)
  <2>1. request[r] \in Request /\ request[r] # None /\ request[r].stage = "embedded"
        /\ request[r].photo \in Photos /\ request[r].sha # None
    BY <1>4, Served, ImagesAssumption DEF Put, At
  <2>2. Advance(r, "stored")
    BY <1>0, <1>4 DEF Put, Drop
  <2>3. request'[r].photo = request[r].photo
    BY <1>0, <2>1, <2>2 DEF Advance, Request
  <2>4. CASE request[r].door = "object"
    BY <1>4, <2>1, <2>3, <2>4 DEF Put, Backed, Leaning
  <2>5. CASE request[r].door # "object"
    BY <1>4, <2>1, <2>3, <2>5 DEF Put, TypeOK, StoreTyped
  <2> QED
    BY <2>4, <2>5
<1>5. CASE Commit(r) \/ Crash(r)
  BY <1>0, <1>5 DEF Commit, Crash, Drop
<1> QED
  BY <1>1, <1>2, <1>3, <1>4, <1>5 DEF Serve, CaptureImageApi, CaptureImageTool, Doors

LEMMA BackedStep == ASSUME TypeOK, Backed, [Next]_vars PROVE Backed'
<1>1. ASSUME NEW q \in Requests, request'[q] = request[q],
             request[q] # None, Leaning(request[q])
      PROVE  store'[request[q].photo] # None
  BY <1>1, Served, StoreGrows DEF Backed
<1>2. ASSUME NEW r \in Requests, Serve(r) PROVE Backed'
  BY <1>1, <1>2, OthersKept, BackedOwn DEF Backed
<1>3. (\E p \in Photos : AppPut(p)) \/ ListKeys \/ ReadRows \/ UNCHANGED vars
        => UNCHANGED request
  BY DEF AppPut, ListKeys, ReadRows, vars
<1>4. UNCHANGED request => Backed'
  BY <1>1 DEF Backed
<1> QED
  BY <1>2, <1>3, <1>4 DEF Next

-----------------------------------------------------------------------------
(***************************************************************************)
(* Rows have objects, and so have stranded keys.                           *)
(***************************************************************************)
LEMMA TablesMove ==
  ASSUME [Next]_vars, tables' # tables
  PROVE  \E r \in Requests : Commit(r)
BY DEF Next, Serve, CaptureImageApi, CaptureImageTool, Receive, PrepareBlob, ResolveDescription,
       Embed, Put, Crash, Untouched, AppPut, ListKeys, ReadRows, vars, tables

LEMMA RowsStep ==
  ASSUME TypeOK, Backed, RowsHaveObjects, [Next]_vars PROVE RowsHaveObjects'
<1>1. CASE UNCHANGED tables
  BY <1>1, StoreGrows DEF tables, RowsHaveObjects
<1>2. ASSUME NEW r \in Requests, Commit(r) PROVE RowsHaveObjects'
  <2>1. request[r].photo \in Photos /\ request[r].sha \in Hashes
    BY <1>2, Served DEF Commit, At
  <2>2. store[request[r].photo] # None /\ UNCHANGED store
    BY <1>2 DEF Commit, At, Backed, Leaning
  <2>3. CASE UpsertBlob(request[r].photo, request[r].sha)
             /\ links' = [links EXCEPT ![request[r].photo] = @ + 1]
    BY <2>1, <2>2, <2>3, ImagesAssumption DEF UpsertBlob, RowsHaveObjects, TypeOK, StoreTyped
  <2>4. CASE UNCHANGED tables
    BY <2>4, <1>1
  <2> QED
    BY <1>2, <2>3, <2>4 DEF Commit
<1> QED
  BY <1>1, <1>2, TablesMove

\* A key gets a cause only from a capture whose object is in the bucket by then.
LEMMA NewlyStranded ==
  ASSUME TypeOK, Backed, [Next]_vars, NEW p \in Photos, stranded'[p] \ stranded[p] # {}
  PROVE  store'[p] # None /\ stranded'[p] \subseteq stranded[p] \cup Late
<1>1. PICK r \in Requests : Put(r) \/ Commit(r) \/ Crash(r)
  BY DEF Next, Serve, CaptureImageApi, CaptureImageTool, Receive, PrepareBlob,
         ResolveDescription, Embed, AppPut, ListKeys, ReadRows, vars
<1>2. request[r] # None /\ request[r].photo \in Photos
  BY <1>1, Served DEF Put, Commit, Crash, At
<1>3. ASSUME NEW cause \in Late, Stranded(request[r].photo, cause)
      PROVE  p = request[r].photo /\ stranded'[p] \subseteq stranded[p] \cup {cause}
  BY <1>2, <1>3 DEF Stranded, TypeOK, CapturesTyped
<1>4. CASE Put(r)
  <2>1. Stranded(request[r].photo, "put") /\ store' = [store EXCEPT ![request[r].photo] = request[r].sha]
    BY <1>4 DEF Put
  <2>2. request[r].sha # None
    BY <1>4, Served, ImagesAssumption DEF Put, At
  <2> QED
    BY <1>3, <2>1, <2>2 DEF TypeOK, StoreTyped, Late
<1>5. CASE Commit(r)
  <2>1. store[request[r].photo] # None /\ UNCHANGED store
    BY <1>5 DEF Commit, At, Backed, Leaning
  <2>2. stranded' # [stranded EXCEPT ![request[r].photo] = {}]
    BY <1>2 DEF TypeOK, CapturesTyped
  <2>3. Stranded(request[r].photo, "entity")
    BY <1>5, <2>2 DEF Commit, Refusal, Dated
  <2> QED
    BY <1>3, <2>1, <2>3 DEF Late
<1>6. CASE Crash(r)
  <2>1. Stranded(request[r].photo, "crash") /\ At(r, "stored")
    BY <1>6 DEF Crash
  <2>2. store[request[r].photo] # None /\ UNCHANGED store
    BY <1>6, <2>1 DEF Crash, At, Backed, Leaning
  <2> QED
    BY <1>3, <2>1, <2>2 DEF Late
<1> QED
  BY <1>1, <1>4, <1>5, <1>6

LEMMA StrandedStep ==
  ASSUME TypeOK, Backed, StrandedStored, [Next]_vars PROVE StrandedStored'
<1> SUFFICES ASSUME NEW p \in Photos
             PROVE  stranded'[p] \subseteq Late /\ (stranded'[p] # {} => store'[p] # None)
  BY DEF StrandedStored
<1>1. CASE stranded'[p] \ stranded[p] # {}
  BY <1>1, NewlyStranded DEF StrandedStored
<1>2. CASE stranded'[p] \subseteq stranded[p]
  BY <1>2, StoreGrows DEF StrandedStored
<1> QED
  BY <1>1, <1>2

-----------------------------------------------------------------------------
(***************************************************************************)
(* An object without a row is accounted for.                               *)
(***************************************************************************)
\* A key that is accounted for.
Explained(p) == InFlight(p) \/ stranded[p] # {} \/ store[p] = "app"

\* A step of a capture that is not at the last stage keeps in flight what is.
LEMMA FlightKept ==
  ASSUME TypeOK, NEW r \in Requests, Serve(r), ~At(r, "stored"), NEW p \in Photos, InFlight(p)
  PROVE  InFlight(p)'
BY OthersKept DEF InFlight, At

LEMMA ExplainedByPut ==
  ASSUME TypeOK, NEW r \in Requests, Put(r), NEW p \in Photos,
         store'[p] # None, blob'[p] = None, store[p] # None => Explained(p)
  PROVE  Explained(p)'
<1>1. request[r] \in Request /\ request[r] # None /\ request[r].stage = "embedded"
      /\ request[r].photo \in Photos
  BY Served DEF Put, At
<1>2. blob[p] = None /\ ~At(r, "stored") /\ Serve(r)
  BY <1>1 DEF Put, Untouched, tables, At, Serve
<1>3. InFlight(p) => InFlight(p)'
  BY <1>2, FlightKept
<1>4. stranded[p] # {} => stranded'[p] # {}
  BY <1>1 DEF Put, Stranded, TypeOK, CapturesTyped
<1>5. CASE UNCHANGED store
  BY <1>3, <1>4, <1>5 DEF Explained
<1>6. CASE store' = [store EXCEPT ![request[r].photo] = request[r].sha] /\ Advance(r, "stored")
  <2>1. request'[r] = [request[r] EXCEPT !.stage = "stored"]
    BY <1>6 DEF Advance, TypeOK, CapturesTyped
  <2>2. request'[r] \in Request
    BY <1>1, <2>1, PastReceiving DEF Stages
  <2>3. request'[r].stage = "stored" /\ request'[r].photo = request[r].photo
        /\ request'[r] # None
    BY <1>1, <2>1, <2>2, ImagesAssumption DEF Request
  <2>4. p = request[r].photo => InFlight(p)'
    BY <2>3 DEF InFlight, At
  <2>5. p # request[r].photo => store'[p] = store[p]
    BY <1>6 DEF TypeOK, StoreTyped
  <2> QED
    BY <1>3, <1>4, <2>4, <2>5 DEF Explained
<1>7. CASE store' = [store EXCEPT ![request[r].photo] = request[r].sha]
           /\ Stranded(request[r].photo, "put")
  <2>1. CASE p = request[r].photo
    BY <1>2, <1>7, <2>1 DEF Stranded, TypeOK, CapturesTyped, Explained
  <2>2. CASE p # request[r].photo
    BY <1>3, <1>4, <1>7, <2>2 DEF Explained, TypeOK, StoreTyped
  <2> QED
    BY <2>1, <2>2
<1> QED
  BY <1>5, <1>6, <1>7 DEF Put

\* The capture that leaves the last stage leaves a row or a cause.
LEMMA ExplainedByLeaving ==
  ASSUME TypeOK, NEW r \in Requests, Commit(r) \/ Crash(r), NEW p \in Photos,
         store'[p] # None, blob'[p] = None, blob[p] = None, Explained(p)
  PROVE  Explained(p)'
<1>1. request[r] # None /\ request[r].photo \in Photos /\ UNCHANGED store /\ Serve(r)
  BY Served DEF Commit, Crash, At, Serve
<1>2. CASE p = request[r].photo /\ At(r, "stored")
  <2>1. Commit(r) => request[r].sha \in Hashes
    BY Served DEF Commit, At
  <2>2. ~UpsertBlob(p, request[r].sha) \/ ~Commit(r)
    BY <2>1, ImagesAssumption DEF UpsertBlob, TypeOK, StoreTyped
  <2>3. \E cause \in Causes : Stranded(p, cause)
    BY <1>2, <2>2 DEF Commit, Crash, Refusal, Dated, Causes
  <2> QED
    BY <2>3 DEF Stranded, Explained, TypeOK, CapturesTyped
<1>3. CASE ~At(r, "stored")
  <2>1. UNCHANGED stranded
    BY <1>3 DEF Commit, Crash
  <2> QED
    BY <1>1, <1>3, <2>1, FlightKept DEF Explained
<1>4. CASE p # request[r].photo
  <2>1. stranded'[p] = stranded[p]
    BY <1>1, <1>4 DEF Commit, Crash, Stranded, TypeOK, CapturesTyped
  <2>2. InFlight(p) => InFlight(p)'
    BY <1>1, <1>4, OthersKept DEF InFlight, At
  <2> QED
    BY <1>1, <2>1, <2>2 DEF Explained
<1> QED
  BY <1>2, <1>3, <1>4

LEMMA ExplainedStep ==
  ASSUME IInv, [Next]_vars, NEW p \in Photos, store'[p] # None, blob'[p] = None
  PROVE  Explained(p)'
<1>0. TypeOK /\ (store[p] # None /\ blob[p] = None => Explained(p))
  BY DEF IInv, OnlyLateFailuresStrand, Explained
<1>1. blob[p] = None
  <2>1. CASE UNCHANGED tables
    BY <2>1 DEF tables
  <2>2. ASSUME NEW r \in Requests, Commit(r) PROVE blob[p] = None
    BY <1>0, <2>2, Served DEF Commit, At, UpsertBlob, tables, TypeOK, StoreTyped
  <2> QED
    BY <2>1, <2>2, TablesMove
<1>2. ASSUME NEW r \in Requests, Serve(r) PROVE Explained(p)'
  <2>1. CASE Put(r)
    BY <1>0, <1>1, <2>1, ExplainedByPut
  <2>2. CASE Commit(r) \/ Crash(r)
    <3>1. UNCHANGED store
      BY <2>2 DEF Commit, Crash
    <3> QED
      BY <1>0, <1>1, <2>2, <3>1, ExplainedByLeaving
  <2>3. CASE ~(Put(r) \/ Commit(r) \/ Crash(r))
    <3>1. UNCHANGED <<store, stranded>> /\ ~At(r, "stored")
      BY <1>2, <2>3 DEF Serve, CaptureImageApi, CaptureImageTool, Receive, PrepareBlob,
                        ResolveDescription, Embed, At
    <3> QED
      BY <1>0, <1>1, <1>2, <3>1, FlightKept DEF Explained
  <2> QED
    BY <2>1, <2>2, <2>3
<1>3. ASSUME NEW q \in Photos, AppPut(q) PROVE Explained(p)'
  BY <1>0, <1>1, <1>3 DEF AppPut, Explained, InFlight, At, TypeOK, StoreTyped
<1>4. CASE ListKeys \/ ReadRows \/ UNCHANGED vars
  BY <1>0, <1>1, <1>4 DEF ListKeys, ReadRows, vars, Explained, InFlight, At
<1> QED
  BY <1>2, <1>3, <1>4 DEF Next

LEMMA OnlyLateStep == ASSUME IInv, [Next]_vars PROVE OnlyLateFailuresStrand'
<1>1. \A p \in Photos : stranded'[p] \subseteq Late
  BY StrandedStep DEF IInv, StrandedStored
<1>2. ASSUME NEW p \in Photos, store'[p] # None, blob'[p] = None
      PROVE  Explained(p)'
  BY <1>2, ExplainedStep
<1> QED
  BY <1>1, <1>2 DEF OnlyLateFailuresStrand, Explained, Late

-----------------------------------------------------------------------------
(***************************************************************************)
(* The reconciliation.                                                     *)
(***************************************************************************)
LEMMA ListStep ==
  ASSUME TypeOK, StrandedStored, ListIsSound, [Next]_vars PROVE ListIsSound'
<1>1. Stored \subseteq Stored'
  BY StoreGrows DEF Stored
<1>2. CASE ListKeys
  BY <1>1, <1>2 DEF ListKeys, ListIsSound, StrandedStored, Stored
<1>3. CASE ReadRows
  BY <1>3 DEF ReadRows, ListIsSound
<1>4. CASE UNCHANGED scanning
  BY <1>1, <1>4 DEF scanning, ListIsSound
<1>5. ListKeys \/ ReadRows \/ UNCHANGED scanning
  BY DEF Next, Serve, CaptureImageApi, CaptureImageTool, Receive, PrepareBlob,
         ResolveDescription, Embed, Put, Commit, Crash, Untouched, AppPut, vars, scanning
<1> QED
  BY <1>2, <1>3, <1>4, <1>5

LEMMA Exact ==
  ASSUME IInv, [Next]_vars, listed # None, listed' = None
  PROVE  /\ {p \in awaited : blob[p] = None} \subseteq reported'
         /\ \A p \in reported' : blob[p] = None /\ store[p] # None
<1>1. ReadRows
  BY DEF Next, Serve, CaptureImageApi, CaptureImageTool, Receive, PrepareBlob, ResolveDescription,
         Embed, Put, Commit, Crash, Untouched, AppPut, ListKeys, vars, scanning
<1> QED
  BY <1>1 DEF ReadRows, Orphans, Rows, Stored, IInv, ListIsSound

LEMMA IInvStep == ASSUME IInv, [Next]_vars PROVE IInv'
<1>1. TypeOK'
  BY TypeStep DEF IInv
<1>2. Backed' /\ StrandedStored' /\ ListIsSound'
  BY BackedStep, StrandedStep, ListStep DEF IInv
<1>3. RowsHaveObjects' /\ OnlyLateFailuresStrand'
  BY RowsStep, OnlyLateStep DEF IInv
<1> QED
  BY <1>1, <1>2, <1>3 DEF IInv

LEMMA Invariance == Spec => []IInv
BY IInvInit, IInvStep, PTL DEF Spec

\* A blob row and its attachments name an object that is in the bucket, for any number
\* of captures of any photos through any doors (capture_image).
THEOREM RowsHaveObjectsHolds == Spec => []RowsHaveObjects
<1>1. IInv => RowsHaveObjects
  BY DEF IInv
<1> QED
  BY <1>1, Invariance, PTL

\* An object without a row belongs to a capture about to commit, to one that failed in
\* the put or later, or to the app (_resolve_when, "a crash").
THEOREM OnlyLateFailuresStrandHolds == Spec => []OnlyLateFailuresStrand
<1>1. IInv => OnlyLateFailuresStrand
  BY DEF IInv
<1> QED
  BY <1>1, Invariance, PTL

\* orphan_blob_keys reports what was stranded before it ran and has no row, and nothing
\* that has one, whatever is captured between its two queries.
THEOREM ReconciliationIsExactHolds == Spec => ReconciliationIsExact
<1>1. ASSUME IInv, [Next]_vars
      PROVE  [listed # None /\ listed' = None =>
                /\ {p \in awaited : blob[p] = None} \subseteq reported'
                /\ \A p \in reported' : blob[p] = None /\ store[p] # None]_vars
  BY <1>1, Exact
<1> QED
  BY <1>1, Invariance, PTL DEF Spec, ReconciliationIsExact

=============================================================================
