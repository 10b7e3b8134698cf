------------------------ MODULE ConsolidationProofs ------------------------
(***************************************************************************)
(* Proofs about Consolidation, for any set of experiences, any windows and *)
(* any batch size: types, the attempt cap, claims written once, no         *)
(* extractor call beyond the attempts charged for it, and that the queue   *)
(* implements ExtractionDuty.                                              *)
(***************************************************************************)
EXTENDS Consolidation, FiniteSetTheorems, TLAPS

-----------------------------------------------------------------------------
(***************************************************************************)
(* The constants and the helpers of the tick.                              *)
(***************************************************************************)
LEMMA ConstantFacts ==
  /\ MaxAttempts \in Nat \ {0} /\ MaxHandle \in Nat /\ MaxOutages \in Nat
  /\ StaleAfter \in Nat /\ BackoffFirst \in Nat /\ BackoffSecond \in Nat
  /\ AgeCap \in Nat
  /\ NoJob \notin Experiences
BY ConsolidationAssumption DEF ConsolidationAssumption, AgeCap, Longest

LEMMA CountsStayTyped ==
  ASSUME NEW count \in [Experiences -> Nat], NEW e
  PROVE  [count EXCEPT ![e] = @ + 1] \in [Experiences -> Nat]
<1>1. CASE e \in Experiences
  BY <1>1
<1>2. CASE e \notin Experiences
  <2>1. \A x \in Experiences : [count EXCEPT ![e] = @ + 1][x] = count[x]
    BY <1>2
  <2> QED
    BY <2>1
<1> QED
  BY <1>1, <1>2

LEMMA EmptyNotes == <<>> \in Seq(Experiences)
OBVIOUS

\* The notifications one tick sends name rows of its batch.
LEMMA OrdersAreSequences ==
  ASSUME NEW batch \in SUBSET Experiences, NEW order \in SetToSeqs(batch)
  PROVE  order \in Seq(Experiences)
<1>1. IsFiniteSet(batch)
  BY FS_Subset, ConsolidationAssumption DEF ConsolidationAssumption
<1>2. Cardinality(batch) \in Nat
  BY <1>1, FS_CardinalityType
<1>3. order \in [1..Cardinality(batch) -> batch]
  BY DEF SetToSeqs
<1> QED
  BY <1>2, <1>3

\* A claimed row has an attempt left.
LEMMA BatchBelowCap ==
  ASSUME TypeOK, NEW ripe \in SUBSET Experiences, NEW batch \in Batches(Due(ripe))
  PROVE  /\ batch \in SUBSET Experiences
         /\ \A e \in batch : attempts[e] < MaxAttempts
         /\ \A e \in batch : e \in Queued(ripe)
         /\ batch \cap Exhausted(ripe) = {}
<1>1. batch \subseteq Due(ripe)
  BY DEF Batches
<1>2. Due(ripe) \subseteq Experiences
  BY DEF Due, Queued, Stale
<1>3. \A e \in Due(ripe) : attempts[e] < MaxAttempts /\ e \in Queued(ripe)
                           /\ e \notin Exhausted(ripe)
  BY ConstantFacts DEF Due, Exhausted, Queued, Stale, TypeOK, RowsTyped
<1> QED
  BY <1>1, <1>2, <1>3

-----------------------------------------------------------------------------
(***************************************************************************)
(* Types.                                                                  *)
(***************************************************************************)
LEMMA TypeInit == Init => TypeOK
<1> SUFFICES ASSUME Init PROVE TypeOK
  OBVIOUS
<1>1. RowsTyped
  BY ConstantFacts DEF Init, RowsTyped, Statuses
<1>2. LinkTyped
  BY EmptyNotes DEF Init, LinkTyped
<1>3. WorkerTyped
  BY ConstantFacts DEF Init, WorkerTyped, Down, Phases
<1>4. CountsTyped
  BY ConstantFacts DEF Init, CountsTyped
<1> QED
  BY <1>1, <1>2, <1>3, <1>4 DEF TypeOK

LEMMA TypeTick == TypeOK /\ Tick => TypeOK'
<1> SUFFICES ASSUME TypeOK, Tick PROVE TypeOK'
  OBVIOUS
<1>1. PICK ripe \in SUBSET Experiences :
        \E batch \in Batches(Due(ripe)) : Requeue(ripe, batch) /\ Notify(batch)
  BY DEF Tick
<1>2. PICK batch \in Batches(Due(ripe)) : Requeue(ripe, batch) /\ Notify(batch)
  BY <1>1
<1>3. batch \in SUBSET Experiences /\ \A e \in batch : attempts[e] < MaxAttempts
  BY <1>2, BatchBelowCap
<1>4. RowsTyped'
  <2>1. status' \in [Experiences -> Statuses]
    BY <1>2 DEF Requeue, TypeOK, RowsTyped, Statuses
  <2>2. attempts' \in [Experiences -> 0..MaxAttempts]
    BY <1>2, <1>3, ConstantFacts DEF Requeue, Charged, TypeOK, RowsTyped
  <2>3. age' \in [Experiences -> 0..AgeCap]
    BY <1>2, ConstantFacts DEF Requeue, TypeOK, RowsTyped
  <2> QED
    BY <2>1, <2>2, <2>3 DEF RowsTyped
<1>5. LinkTyped'
  <2>1. CASE listening
    <3>1. PICK order \in SetToSeqs(batch) : notes' = notes \o order
      BY <1>2, <2>1 DEF Notify
    <3>2. order \in Seq(Experiences)
      BY <1>3, OrdersAreSequences
    <3> QED
      BY <1>2, <3>1, <3>2 DEF Notify, TypeOK, LinkTyped
  <2>2. CASE ~listening
    BY <1>2, <2>2 DEF Notify, TypeOK, LinkTyped
  <2> QED
    BY <2>1, <2>2
<1>6. WorkerTyped' /\ CountsTyped'
  BY DEF Tick, history, TypeOK, WorkerTyped, CountsTyped
<1> QED
  BY <1>4, <1>5, <1>6 DEF TypeOK

LEMMA TypeStep == TypeOK /\ [Next]_vars => TypeOK'
<1> SUFFICES ASSUME TypeOK, [Next]_vars PROVE TypeOK'
  OBVIOUS
<1>1. CASE \E e \in Experiences : Capture(e)
  <2>1. RowsTyped'
    BY <1>1, ConstantFacts DEF Capture, link, history, TypeOK, RowsTyped, Statuses
  <2>2. LinkTyped'
    BY <1>1, ConstantFacts DEF Capture, link, history, TypeOK, LinkTyped
  <2>3. WorkerTyped'
    BY <1>1, ConstantFacts DEF Capture, link, history, TypeOK, WorkerTyped
  <2>4. CountsTyped'
    BY <1>1, ConstantFacts DEF Capture, link, history, TypeOK, CountsTyped
  <2> QED
    BY <2>1, <2>2, <2>3, <2>4 DEF TypeOK
<1>2. CASE Pass
  <2>1. RowsTyped'
    BY <1>2, ConstantFacts DEF Pass, link, history, TypeOK, RowsTyped, Least
  <2>2. LinkTyped'
    BY <1>2, ConstantFacts DEF Pass, link, history, TypeOK, LinkTyped
  <2>3. WorkerTyped'
    BY <1>2, ConstantFacts DEF Pass, link, history, TypeOK, WorkerTyped
  <2>4. CountsTyped'
    BY <1>2, ConstantFacts DEF Pass, link, history, TypeOK, CountsTyped
  <2> QED
    BY <2>1, <2>2, <2>3, <2>4 DEF TypeOK
<1>3. CASE Tick
  BY <1>3, TypeTick
<1>4. CASE Start
  <2>1. RowsTyped'
    BY <1>4, ConstantFacts DEF Start, rows, link, history, TypeOK, RowsTyped
  <2>2. LinkTyped'
    BY <1>4, ConstantFacts DEF Start, rows, link, history, TypeOK, LinkTyped
  <2>3. WorkerTyped'
    BY <1>4, ConstantFacts DEF Start, rows, link, history, WorkerTyped, Idle, Down, Phases
  <2>4. CountsTyped'
    BY <1>4, ConstantFacts DEF Start, rows, link, history, TypeOK, CountsTyped
  <2> QED
    BY <2>1, <2>2, <2>3, <2>4 DEF TypeOK
<1>5. CASE Listen
  <2>1. RowsTyped'
    BY <1>5, ConstantFacts DEF Listen, rows, history, TypeOK, RowsTyped
  <2>2. LinkTyped'
    BY <1>5, ConstantFacts DEF Listen, rows, history, TypeOK, LinkTyped
  <2>3. WorkerTyped'
    BY <1>5, ConstantFacts DEF Listen, rows, history, TypeOK, WorkerTyped
  <2>4. CountsTyped'
    BY <1>5, ConstantFacts DEF Listen, rows, history, TypeOK, CountsTyped
  <2> QED
    BY <2>1, <2>2, <2>3, <2>4 DEF TypeOK
<1>6. CASE Drop
  <2>1. RowsTyped'
    BY <1>6, ConstantFacts DEF Drop, rows, history, TypeOK, RowsTyped
  <2>2. LinkTyped'
    <3>1. PICK n \in 0..Len(notes) : notes' = SubSeq(notes, 1, n)
      BY <1>6 DEF Drop
    <3>2. notes' \in Seq(Experiences)
      BY <3>1 DEF TypeOK, LinkTyped
    <3> QED
      BY <1>6, <3>2 DEF Drop, LinkTyped
  <2>3. WorkerTyped'
    BY <1>6, ConstantFacts DEF Drop, rows, history, TypeOK, WorkerTyped
  <2>4. CountsTyped'
    BY <1>6, ConstantFacts DEF Drop, rows, history, TypeOK, CountsTyped
  <2> QED
    BY <2>1, <2>2, <2>3, <2>4 DEF TypeOK
<1>7. CASE Crash
  <2>1. RowsTyped'
    BY <1>7, ConstantFacts DEF Crash, rows, history, TypeOK, RowsTyped
  <2>2. LinkTyped'
    BY <1>7, EmptyNotes DEF Crash, LinkTyped
  <2>3. WorkerTyped'
    BY <1>7, ConstantFacts DEF Crash, rows, history, WorkerTyped, Down, Phases
  <2>4. CountsTyped'
    BY <1>7, ConstantFacts DEF Crash, rows, history, TypeOK, CountsTyped
  <2> QED
    BY <2>1, <2>2, <2>3, <2>4 DEF TypeOK
<1>8. CASE Fetch
  <2>1. RowsTyped'
    BY <1>8, ConstantFacts DEF Fetch, rows, TypeOK, RowsTyped
  <2>2. LinkTyped'
    BY <1>8, ConstantFacts DEF Fetch, rows, TypeOK, LinkTyped
  <2>3. WorkerTyped'
    BY <1>8, ConstantFacts DEF Fetch, rows, TypeOK, RowsTyped, LinkTyped, WorkerTyped, Phases
  <2>4. CountsTyped'
    BY <1>8, ConstantFacts DEF Fetch, rows, TypeOK, LinkTyped, CountsTyped
  <2> QED
    BY <2>1, <2>2, <2>3, <2>4 DEF TypeOK
<1>9. CASE WriteClaims
  <2>1. RowsTyped'
    BY <1>9, ConstantFacts DEF WriteClaims, link, TypeOK, RowsTyped, WorkerTyped, Statuses
  <2>2. LinkTyped'
    BY <1>9, ConstantFacts DEF WriteClaims, link, TypeOK, LinkTyped
  <2>3. WorkerTyped'
    BY <1>9, ConstantFacts DEF WriteClaims, link, TypeOK, WorkerTyped, Idle, Down, Phases
  <2>4. CountsTyped'
    <3>1. written' \in [Experiences -> Nat]
      BY <1>9, CountsStayTyped DEF WriteClaims, TypeOK, CountsTyped
    <3> QED
      BY <1>9, <3>1 DEF WriteClaims, TypeOK, CountsTyped
  <2> QED
    BY <2>1, <2>2, <2>3, <2>4 DEF TypeOK
<1>10. CASE Fail
  <2>1. RowsTyped'
    BY <1>10, ConstantFacts DEF Fail, rows, link, history, TypeOK, RowsTyped
  <2>2. LinkTyped'
    BY <1>10, ConstantFacts DEF Fail, rows, link, history, TypeOK, LinkTyped
  <2>3. WorkerTyped'
    BY <1>10, ConstantFacts DEF Fail, rows, link, history, TypeOK, WorkerTyped, Phases
  <2>4. CountsTyped'
    BY <1>10, ConstantFacts DEF Fail, rows, link, history, TypeOK, CountsTyped
  <2> QED
    BY <2>1, <2>2, <2>3, <2>4 DEF TypeOK
<1>11. CASE RecordFailure
  <2>1. RowsTyped'
    BY <1>11, ConstantFacts DEF RecordFailure, link, history, DecideAfterFailure, TypeOK, RowsTyped, WorkerTyped, Statuses
  <2>2. LinkTyped'
    BY <1>11, ConstantFacts DEF RecordFailure, link, history, TypeOK, LinkTyped
  <2>3. WorkerTyped'
    BY <1>11, ConstantFacts DEF RecordFailure, link, history, TypeOK, WorkerTyped, Idle, Down, Phases
  <2>4. CountsTyped'
    BY <1>11, ConstantFacts DEF RecordFailure, link, history, TypeOK, CountsTyped
  <2> QED
    BY <2>1, <2>2, <2>3, <2>4 DEF TypeOK
<1>12. CASE UNCHANGED vars
  BY <1>12 DEF vars, TypeOK, RowsTyped, LinkTyped, WorkerTyped, CountsTyped
<1> QED
  BY <1>1, <1>2, <1>3, <1>4, <1>5, <1>6, <1>7, <1>8, <1>9, <1>10, <1>11, <1>12
  DEF Next, Worker

\* Every reachable state has the types of the schema: in particular no row is
\* charged more than MaxAttempts attempts and no call outlives MaxHandle.
THEOREM TypeCorrect == Spec => []TypeOK
BY TypeInit, TypeStep, PTL DEF Spec

-----------------------------------------------------------------------------
(***************************************************************************)
(* The attempt cap.  The worker decides on the attempt count it read when  *)
(* it fetched the row; counts only grow, so what it read is never ahead of *)
(* the row.                                                                *)
(***************************************************************************)
Working == worker.phase \in {"extracting", "recording"}

SnapshotNotAhead ==
  Working => worker.job \in Experiences /\ worker.attempts <= attempts[worker.job]

CapInv == TypeOK /\ SnapshotNotAhead /\ FailedOnlyAtCap

\* One call of the tick charges its batch, which is below the cap, and gives up
\* only rows that have reached it.
LEMMA TickCharges ==
  ASSUME TypeOK, Tick
  PROVE  \A e \in Experiences :
           /\ attempts'[e] >= attempts[e]
           /\ status[e] = "failed" => attempts'[e] = attempts[e]
           /\ status'[e] = "failed" /\ status[e] # "failed" =>
                attempts'[e] = MaxAttempts
           /\ status[e] \in {"absent", "complete"} => status'[e] = status[e]
           /\ status'[e] \in {"absent", "complete"} => status'[e] = status[e]
<1>1. PICK ripe \in SUBSET Experiences :
        \E batch \in Batches(Due(ripe)) : Requeue(ripe, batch) /\ Notify(batch)
  BY DEF Tick
<1>2. PICK batch \in Batches(Due(ripe)) : Requeue(ripe, batch) /\ Notify(batch)
  BY <1>1
<1>3. /\ batch \in SUBSET Experiences
      /\ batch \subseteq Queued(ripe)
      /\ batch \cap Exhausted(ripe) = {}
  BY <1>2, BatchBelowCap
<1> SUFFICES ASSUME NEW e \in Experiences
             PROVE  /\ attempts'[e] >= attempts[e]
                    /\ status[e] = "failed" => attempts'[e] = attempts[e]
                    /\ status'[e] = "failed" /\ status[e] # "failed" =>
                         attempts'[e] = MaxAttempts
                    /\ status[e] \in {"absent", "complete"} => status'[e] = status[e]
                    /\ status'[e] \in {"absent", "complete"} => status'[e] = status[e]
  OBVIOUS
<1>4. attempts[e] \in 0..MaxAttempts
  BY DEF TypeOK, RowsTyped
<1>5. /\ e \in batch => attempts'[e] = attempts[e] + 1
      /\ e \notin batch => attempts'[e] = attempts[e]
  BY <1>2 DEF Requeue, Charged
<1>6. e \in Queued(ripe) <=> status[e] = "pending" \/ e \in Stale(ripe)
  BY DEF Queued, Stale
<1>7. e \in Stale(ripe) => status[e] = "in_progress"
  BY DEF Stale
<1>8. e \in Exhausted(ripe) <=> e \in Queued(ripe) /\ attempts[e] >= MaxAttempts
  BY DEF Exhausted
<1>9. status'[e] = CASE e \in batch -> "in_progress"
                     [] e \in Exhausted(ripe) -> "failed"
                     [] e \in Queued(ripe) \ (Exhausted(ripe) \cup batch) -> "pending"
                     [] OTHER -> status[e]
  BY <1>2 DEF Requeue
<1>10. /\ e \in batch => status'[e] = "in_progress"
       /\ e \in Exhausted(ripe) => status'[e] = "failed"
       /\ e \in Queued(ripe) /\ e \notin batch /\ e \notin Exhausted(ripe) =>
            status'[e] = "pending"
       /\ e \notin Queued(ripe) => status'[e] = status[e]
  BY <1>3, <1>8, <1>9
<1> QED
  BY <1>3, <1>4, <1>5, <1>6, <1>7, <1>8, <1>10, ConstantFacts

\* A tick leaves settled rows and fresh claims alone, and what it charges it claims.
LEMMA TickKeeps ==
  ASSUME TypeOK, Tick
  PROVE  \A e \in Experiences :
           /\ status[e] \in {"absent", "complete", "failed"} => status'[e] = status[e]
           /\ attempts'[e] > attempts[e] => status'[e] = "in_progress" /\ age'[e] = 0
           /\ status[e] = "in_progress" /\ age[e] < StaleAfter =>
                status'[e] = status[e] /\ attempts'[e] = attempts[e] /\ age'[e] = age[e]
<1>1. PICK ripe \in SUBSET Experiences :
        \E batch \in Batches(Due(ripe)) : Requeue(ripe, batch) /\ Notify(batch)
  BY DEF Tick
<1>2. PICK batch \in Batches(Due(ripe)) : Requeue(ripe, batch) /\ Notify(batch)
  BY <1>1
<1>3. batch \subseteq Queued(ripe)
  BY <1>2, BatchBelowCap
<1> SUFFICES ASSUME NEW e \in Experiences
             PROVE  /\ status[e] \in {"absent", "complete", "failed"} => status'[e] = status[e]
                    /\ attempts'[e] > attempts[e] => status'[e] = "in_progress" /\ age'[e] = 0
                    /\ status[e] = "in_progress" /\ age[e] < StaleAfter =>
                         status'[e] = status[e] /\ attempts'[e] = attempts[e]
                         /\ age'[e] = age[e]
  OBVIOUS
<1>4. attempts[e] \in Nat /\ age[e] \in Nat /\ StaleAfter \in Nat
  BY ConstantFacts DEF TypeOK, RowsTyped
<1>5. /\ attempts'[e] = IF e \in batch THEN attempts[e] + 1 ELSE attempts[e]
      /\ age'[e] = IF e \in batch THEN 0 ELSE age[e]
  BY <1>2 DEF Requeue, Charged
<1>6. /\ e \in Stale(ripe) => status[e] = "in_progress" /\ ~(age[e] < StaleAfter)
      /\ e \in Queued(ripe) <=> status[e] = "pending" \/ e \in Stale(ripe)
      /\ e \in Exhausted(ripe) => e \in Queued(ripe)
  BY <1>4 DEF Stale, Elapsed, Queued, Exhausted
<1>7. status'[e] = CASE e \in batch -> "in_progress"
                     [] e \in Exhausted(ripe) -> "failed"
                     [] e \in Queued(ripe) \ (Exhausted(ripe) \cup batch) -> "pending"
                     [] OTHER -> status[e]
  BY <1>2 DEF Requeue
<1>8. batch \cap Exhausted(ripe) = {}
  BY <1>2, BatchBelowCap
<1>9. e \in batch => status'[e] = "in_progress"
  BY <1>7, <1>8
<1>10. e \notin Queued(ripe) => status'[e] = status[e]
  BY <1>3, <1>6, <1>7
<1> QED
  BY <1>3, <1>4, <1>5, <1>6, <1>9, <1>10

LEMMA CapInit == Init => CapInv
<1> SUFFICES ASSUME Init PROVE CapInv
  OBVIOUS
<1>1. SnapshotNotAhead
  BY DEF Init, SnapshotNotAhead, Working, Down
<1>2. FailedOnlyAtCap
  BY DEF Init, FailedOnlyAtCap
<1> QED
  BY <1>1, <1>2, TypeInit DEF CapInv

LEMMA CapStep == CapInv /\ [Next]_vars => CapInv'
<1> SUFFICES ASSUME CapInv, [Next]_vars PROVE SnapshotNotAhead' /\ FailedOnlyAtCap'
  BY TypeStep DEF CapInv
<1> USE DEF CapInv
<1>1. CASE \E e \in Experiences : Capture(e)
  <2>1. SnapshotNotAhead'
    BY <1>1 DEF Capture, SnapshotNotAhead, Working
  <2>2. FailedOnlyAtCap'
    BY <1>1 DEF Capture, FailedOnlyAtCap, TypeOK, RowsTyped
  <2> QED
    BY <2>1, <2>2
<1>2. CASE Pass
  <2>1. SnapshotNotAhead'
    BY <1>2 DEF Pass, SnapshotNotAhead, Working, TypeOK, WorkerTyped
  <2>2. FailedOnlyAtCap'
    BY <1>2 DEF Pass, FailedOnlyAtCap
  <2> QED
    BY <2>1, <2>2
<1>3. CASE Tick
  <2>1. SnapshotNotAhead'
    <3> SUFFICES ASSUME Working'
                 PROVE  /\ worker'.job \in Experiences
                        /\ worker'.attempts <= attempts'[worker'.job]
      BY DEF SnapshotNotAhead
    <3>1. worker' = worker /\ Working
      BY <1>3 DEF Tick, Working
    <3>2. worker.job \in Experiences /\ worker.attempts <= attempts[worker.job]
      BY <3>1 DEF SnapshotNotAhead
    <3>3. attempts'[worker.job] >= attempts[worker.job]
      BY <1>3, <3>2, TickCharges
    <3>4. attempts[worker.job] \in Nat /\ attempts'[worker.job] \in Nat
          /\ worker.attempts \in Nat
      BY <1>3, <3>2, TypeTick, ConstantFacts DEF TypeOK, RowsTyped, WorkerTyped
    <3> QED
      BY <3>1, <3>2, <3>3, <3>4
  <2>2. FailedOnlyAtCap'
    BY <1>3, TickCharges DEF FailedOnlyAtCap
  <2> QED
    BY <2>1, <2>2
<1>4. CASE Start \/ Listen \/ Drop \/ Crash
  <2>1. SnapshotNotAhead'
    BY <1>4 DEF Start, Listen, Drop, Crash, Idle, Down, SnapshotNotAhead, Working, rows
  <2>2. FailedOnlyAtCap'
    BY <1>4 DEF Start, Listen, Drop, Crash, FailedOnlyAtCap, rows
  <2> QED
    BY <2>1, <2>2
<1>5. CASE Fetch
  <2>1. SnapshotNotAhead'
    BY <1>5, ConstantFacts
    DEF Fetch, SnapshotNotAhead, Working, TypeOK, RowsTyped, LinkTyped, rows
  <2>2. FailedOnlyAtCap'
    BY <1>5 DEF Fetch, FailedOnlyAtCap, rows
  <2> QED
    BY <2>1, <2>2
<1>6. CASE WriteClaims
  <2>1. SnapshotNotAhead'
    BY <1>6 DEF WriteClaims, SnapshotNotAhead, Working, Idle, Down, TypeOK, WorkerTyped
  <2>2. FailedOnlyAtCap'
    BY <1>6 DEF WriteClaims, FailedOnlyAtCap, TypeOK, RowsTyped
  <2> QED
    BY <2>1, <2>2
<1>7. CASE Fail
  <2>1. SnapshotNotAhead'
    BY <1>7 DEF Fail, SnapshotNotAhead, Working, TypeOK, WorkerTyped, rows
  <2>2. FailedOnlyAtCap'
    BY <1>7 DEF Fail, FailedOnlyAtCap, rows
  <2> QED
    BY <2>1, <2>2
<1>8. CASE RecordFailure
  <2>1. SnapshotNotAhead'
    BY <1>8 DEF RecordFailure, SnapshotNotAhead, Working, Idle, Down
  <2>2. FailedOnlyAtCap'
    <3>1. worker.job \in Experiences /\ worker.attempts <= attempts[worker.job]
      BY <1>8 DEF RecordFailure, SnapshotNotAhead, Working
    <3>2. DecideAfterFailure(worker.attempts) = "failed" => attempts[worker.job] = MaxAttempts
      BY <3>1, ConstantFacts DEF DecideAfterFailure, TypeOK, RowsTyped, WorkerTyped
    <3> QED
      BY <1>8, <3>1, <3>2 DEF RecordFailure, FailedOnlyAtCap, TypeOK, RowsTyped
  <2> QED
    BY <2>1, <2>2
<1>9. CASE UNCHANGED vars
  BY <1>9 DEF vars, SnapshotNotAhead, Working, FailedOnlyAtCap
<1> QED
  BY <1>1, <1>2, <1>3, <1>4, <1>5, <1>6, <1>7, <1>8, <1>9 DEF Next, Worker

\* No row is given up before its attempts are used up, whatever the windows and
\* however late a worker records the failure of a call it began long ago.
THEOREM FailedOnlyAtCapHolds == Spec => []FailedOnlyAtCap
<1>1. CapInv => FailedOnlyAtCap
  BY DEF CapInv
<1> QED
  BY CapInit, CapStep, <1>1, PTL DEF Spec

-----------------------------------------------------------------------------
(***************************************************************************)
(* Claims are written once.  The row a worker holds cannot become complete *)
(* behind its back: only the worker completes rows, and there is one.      *)
(***************************************************************************)
JobUnfinished ==
  Working => /\ worker.job \in Experiences
             /\ status[worker.job] \notin {"absent", "complete"}

OnceInv == TypeOK /\ JobUnfinished /\ ClaimsWrittenOnce

LEMMA OnceInit == Init => OnceInv
<1> SUFFICES ASSUME Init PROVE OnceInv
  OBVIOUS
<1>1. JobUnfinished
  BY DEF Init, JobUnfinished, Working, Down
<1>2. ClaimsWrittenOnce
  BY DEF Init, ClaimsWrittenOnce
<1> QED
  BY <1>1, <1>2, TypeInit DEF OnceInv

LEMMA OnceStep ==
  ASSUME "ack" \notin Faults
  PROVE  OnceInv /\ [Next]_vars => OnceInv'
<1> SUFFICES ASSUME OnceInv, [Next]_vars PROVE JobUnfinished' /\ ClaimsWrittenOnce'
  BY TypeStep DEF OnceInv
<1> USE DEF OnceInv
<1>1. CASE \E e \in Experiences : Capture(e)
  <2>1. JobUnfinished'
    BY <1>1 DEF Capture, JobUnfinished, Working, TypeOK, RowsTyped
  <2>2. ClaimsWrittenOnce'
    BY <1>1 DEF Capture, ClaimsWrittenOnce, TypeOK, RowsTyped, history
  <2> QED
    BY <2>1, <2>2
<1>2. CASE Pass
  <2>1. JobUnfinished'
    BY <1>2 DEF Pass, JobUnfinished, Working, TypeOK, WorkerTyped
  <2>2. ClaimsWrittenOnce'
    BY <1>2 DEF Pass, ClaimsWrittenOnce, history
  <2> QED
    BY <2>1, <2>2
<1>3. CASE Tick
  <2>1. JobUnfinished'
    BY <1>3, TickCharges DEF Tick, JobUnfinished, Working
  <2>2. ClaimsWrittenOnce'
    BY <1>3, TickCharges DEF Tick, ClaimsWrittenOnce, history
  <2> QED
    BY <2>1, <2>2
<1>4. CASE Start \/ Listen \/ Drop \/ Crash
  <2>1. JobUnfinished'
    BY <1>4 DEF Start, Listen, Drop, Crash, Idle, Down, JobUnfinished, Working, rows
  <2>2. ClaimsWrittenOnce'
    BY <1>4 DEF Start, Listen, Drop, Crash, ClaimsWrittenOnce, rows, history
  <2> QED
    BY <2>1, <2>2
<1>5. CASE Fetch
  <2>1. JobUnfinished'
    BY <1>5 DEF Fetch, JobUnfinished, Working, TypeOK, LinkTyped, rows
  <2>2. ClaimsWrittenOnce'
    BY <1>5 DEF Fetch, ClaimsWrittenOnce, rows
  <2> QED
    BY <2>1, <2>2
<1>6. CASE WriteClaims
  <2>1. JobUnfinished'
    BY <1>6 DEF WriteClaims, JobUnfinished, Working, Idle, Down
  <2>2. worker.job \in Experiences /\ written[worker.job] = 0
    BY <1>6 DEF WriteClaims, JobUnfinished, Working, ClaimsWrittenOnce
  <2>3. ClaimsWrittenOnce'
    BY <1>6, <2>2 DEF WriteClaims, ClaimsWrittenOnce, TypeOK, RowsTyped, CountsTyped
  <2> QED
    BY <2>1, <2>3
<1>7. CASE Fail
  <2>1. JobUnfinished'
    BY <1>7 DEF Fail, JobUnfinished, Working, TypeOK, WorkerTyped, rows
  <2>2. ClaimsWrittenOnce'
    BY <1>7 DEF Fail, ClaimsWrittenOnce, rows, history
  <2> QED
    BY <2>1, <2>2
<1>8. CASE RecordFailure
  <2>1. JobUnfinished'
    BY <1>8 DEF RecordFailure, JobUnfinished, Working, Idle, Down
  <2>2. worker.job \in Experiences /\ status[worker.job] # "complete"
    BY <1>8 DEF RecordFailure, JobUnfinished, Working
  <2>3. DecideAfterFailure(worker.attempts) # "complete"
    BY DEF DecideAfterFailure
  <2>4. ClaimsWrittenOnce'
    BY <1>8, <2>2, <2>3
    DEF RecordFailure, ClaimsWrittenOnce, TypeOK, RowsTyped, history
  <2> QED
    BY <2>1, <2>4
<1>9. CASE UNCHANGED vars
  BY <1>9 DEF vars, JobUnfinished, Working, ClaimsWrittenOnce
<1> QED
  BY <1>1, <1>2, <1>3, <1>4, <1>5, <1>6, <1>7, <1>8, <1>9 DEF Next, Worker

\* With commits acknowledged, the claims of an experience are committed exactly
\* when its status says 'complete', and once: reclaims, duplicate notifications,
\* crashes, lost connections and failed writes included.
THEOREM ClaimsWrittenOnceHolds ==
  ASSUME "ack" \notin Faults
  PROVE  Spec => []ClaimsWrittenOnce
<1>1. OnceInv /\ [Next]_vars => OnceInv'
  BY OnceStep
<1>2. OnceInv => ClaimsWrittenOnce
  BY DEF OnceInv
<1> QED
  BY OnceInit, <1>1, <1>2, PTL DEF Spec
-----------------------------------------------------------------------------
(***************************************************************************)
(* The budget.  Calls made and notifications still buffered are counted    *)
(* together: a notification becomes a call, or is lost, or was paid for by *)
(* the attempt the tick charged when it sent it.                           *)
(***************************************************************************)
Waiting(s, e) == {i \in DOMAIN s : s[i] = e}

LEMMA WaitingFinite ==
  ASSUME NEW s \in Seq(Experiences), NEW e
  PROVE  IsFiniteSet(Waiting(s, e)) /\ Cardinality(Waiting(s, e)) \in Nat
<1>1. IsFiniteSet(1..Len(s))
  BY FS_Interval
<1>2. Waiting(s, e) \in SUBSET (1..Len(s))
  BY DEF Waiting
<1> QED
  BY <1>1, <1>2, FS_Subset, FS_CardinalityType

\* Whoever is notified once more was in the batch.
LEMMA WaitingAppended ==
  ASSUME NEW s \in Seq(Experiences), NEW batch \in SUBSET Experiences,
         NEW order \in SetToSeqs(batch), NEW e
  PROVE  Cardinality(Waiting(s \o order, e)) <=
           Cardinality(Waiting(s, e)) + IF e \in batch THEN 1 ELSE 0
<1>0. order \in Seq(Experiences)
  BY OrdersAreSequences
<1>1. /\ Cardinality(batch) \in Nat
      /\ order \in [1..Cardinality(batch) -> batch]
      /\ \A i, j \in 1..Cardinality(batch) : i # j => order[i] # order[j]
  BY FS_Subset, FS_CardinalityType, ConsolidationAssumption
     DEF ConsolidationAssumption, SetToSeqs
<1>2. Len(order) = Cardinality(batch)
  BY <1>0, <1>1
<1>3. /\ Len(s \o order) = Len(s) + Len(order)
      /\ DOMAIN (s \o order) = 1..(Len(s) + Len(order)) /\ DOMAIN s = 1..Len(s)
      /\ \A i \in 1..(Len(s) + Len(order)) :
           (s \o order)[i] = IF i <= Len(s) THEN s[i] ELSE order[i - Len(s)]
  BY <1>0
<1>4. CASE \E k \in 1..Len(order) : order[k] = e
  <2>1. PICK k \in 1..Len(order) : order[k] = e
    BY <1>4
  <2>2. e \in batch
    BY <1>1, <1>2, <2>1
  <2>3. \A i \in DOMAIN (s \o order) :
          (s \o order)[i] = e <=> i \in Waiting(s, e) \/ i = Len(s) + k
    <3>1. ASSUME NEW i \in 1..(Len(s) + Len(order)), i <= Len(s)
          PROVE  (s \o order)[i] = e <=> i \in Waiting(s, e) \/ i = Len(s) + k
      BY <1>3, <2>1, <3>1 DEF Waiting
    <3>2. ASSUME NEW i \in 1..(Len(s) + Len(order)), i > Len(s)
          PROVE  (s \o order)[i] = e <=> i \in Waiting(s, e) \/ i = Len(s) + k
      <4>1. i - Len(s) \in 1..Len(order) /\ i \notin Waiting(s, e)
        BY <1>3, <3>2 DEF Waiting
      <4>2. (s \o order)[i] = order[i - Len(s)]
        BY <1>3, <3>2
      <4>3. order[i - Len(s)] = e <=> i - Len(s) = k
        BY <1>1, <1>2, <2>1, <4>1
      <4> QED
        BY <2>1, <4>1, <4>2, <4>3
    <3> QED
      BY <1>3, <3>1, <3>2
  <2>4. Waiting(s \o order, e) = Waiting(s, e) \cup {Len(s) + k}
    BY <1>3, <2>1, <2>3 DEF Waiting
  <2>5. Len(s) + k \notin Waiting(s, e)
    BY <1>3, <2>1 DEF Waiting
  <2>6. IsFiniteSet(Waiting(s, e)) /\ Cardinality(Waiting(s, e)) \in Nat
    BY WaitingFinite
  <2>7. Cardinality(Waiting(s \o order, e)) = Cardinality(Waiting(s, e)) + 1
    BY <2>4, <2>5, <2>6, FS_AddElement
  <2> QED
    BY <2>2, <2>6, <2>7
<1>5. CASE \A k \in 1..Len(order) : order[k] # e
  <2>1. Waiting(s \o order, e) = Waiting(s, e)
    <3>1. ASSUME NEW i \in 1..(Len(s) + Len(order)), (s \o order)[i] = e
          PROVE  i \in Waiting(s, e)
      <4>1. CASE i <= Len(s)
        BY <1>3, <3>1, <4>1 DEF Waiting
      <4>2. CASE i > Len(s)
        <5>1. i - Len(s) \in 1..Len(order)
          BY <3>1, <4>2
        <5> QED
          BY <1>3, <1>5, <3>1, <4>2, <5>1
      <4> QED
        BY <4>1, <4>2
    <3>2. ASSUME NEW i \in Waiting(s, e)
          PROVE  i \in 1..(Len(s) + Len(order)) /\ (s \o order)[i] = e
      BY <1>3 DEF Waiting
    <3> QED
      BY <1>3, <3>1, <3>2 DEF Waiting
  <2>2. Cardinality(Waiting(s, e)) \in Nat
    BY WaitingFinite
  <2> QED
    BY <2>1, <2>2
<1> QED
  BY <1>4, <1>5

\* The head of the queue is spent.
LEMMA WaitingTail ==
  ASSUME NEW s \in Seq(Experiences), s # <<>>, NEW e
  PROVE  Cardinality(Waiting(Tail(s), e)) <=
           Cardinality(Waiting(s, e)) - IF e = Head(s) THEN 1 ELSE 0
<1> DEFINE shift == [i \in Waiting(Tail(s), e) |-> i + 1]
           rest == Waiting(s, e) \ {1}
<1>1. /\ Len(s) \in Nat \ {0} /\ DOMAIN s = 1..Len(s) /\ Head(s) = s[1]
      /\ Tail(s) \in Seq(Experiences) /\ Len(Tail(s)) = Len(s) - 1
      /\ DOMAIN Tail(s) = 1..(Len(s) - 1)
      /\ \A i \in 1..(Len(s) - 1) : Tail(s)[i] = s[i + 1]
  OBVIOUS
<1>2. shift \in [Waiting(Tail(s), e) -> rest]
  <2>1. ASSUME NEW i \in Waiting(Tail(s), e) PROVE i + 1 \in rest
    BY <1>1 DEF Waiting
  <2> QED
    BY <2>1
<1>3. \A i, j \in Waiting(Tail(s), e) : shift[i] = shift[j] => i = j
  BY <1>1 DEF Waiting
<1>4. shift \in Injection(Waiting(Tail(s), e), rest)
  BY <1>2, <1>3 DEF Injection, IsInjective
<1>5. IsFiniteSet(rest)
      /\ Cardinality(rest) = IF 1 \in Waiting(s, e) THEN Cardinality(Waiting(s, e)) - 1
                                                    ELSE Cardinality(Waiting(s, e))
  BY WaitingFinite, FS_RemoveElement
<1>6. Cardinality(Waiting(Tail(s), e)) <= Cardinality(rest)
  BY <1>4, <1>5, FS_Injection
<1>7. 1 \in Waiting(s, e) <=> e = Head(s)
  BY <1>1 DEF Waiting
<1> QED
  BY <1>5, <1>6, <1>7, WaitingFinite

LEMMA WaitingPrefix ==
  ASSUME NEW s \in Seq(Experiences), NEW n \in 0..Len(s), NEW e
  PROVE  Cardinality(Waiting(SubSeq(s, 1, n), e)) <= Cardinality(Waiting(s, e))
<1>1. DOMAIN SubSeq(s, 1, n) = 1..n /\ \A i \in 1..n : SubSeq(s, 1, n)[i] = s[i]
  OBVIOUS
<1>2. Waiting(SubSeq(s, 1, n), e) \in SUBSET Waiting(s, e)
  BY <1>1 DEF Waiting
<1> QED
  BY <1>2, WaitingFinite, FS_Subset

LEMMA BudgetTick ==
  ASSUME TypeOK, TriesWithinBudget, Tick, NEW e \in Experiences
  PROVE  tries'[e] + Cardinality(Waiting(notes', e)) <= attempts'[e]
<1>1. PICK ripe \in SUBSET Experiences :
        \E batch \in Batches(Due(ripe)) : Requeue(ripe, batch) /\ Notify(batch)
  BY DEF Tick
<1>2. PICK batch \in Batches(Due(ripe)) : Requeue(ripe, batch) /\ Notify(batch)
  BY <1>1
<1>3. batch \in SUBSET Experiences
  BY BatchBelowCap
<1>4. attempts'[e] = attempts[e] + IF e \in batch THEN 1 ELSE 0
  BY <1>2 DEF Requeue, Charged, TypeOK, RowsTyped
<1>5. notes \in Seq(Experiences) /\ notes' \in Seq(Experiences)
  BY TypeTick DEF TypeOK, LinkTyped
<1>6. Cardinality(Waiting(notes', e)) <=
        Cardinality(Waiting(notes, e)) + IF e \in batch THEN 1 ELSE 0
  <2>1. CASE notes' = notes
    <3>1. Cardinality(Waiting(notes, e)) \in Nat
      BY <1>5, WaitingFinite
    <3> QED
      BY <2>1, <3>1
  <2>2. CASE \E order \in SetToSeqs(batch) : notes' = notes \o order
    BY <1>3, <1>5, <2>2, WaitingAppended
  <2> QED
    BY <1>2, <2>1, <2>2 DEF Notify
<1>7. tries'[e] = tries[e] /\ tries[e] \in Nat /\ attempts[e] \in Nat
      /\ tries[e] + Cardinality(Waiting(notes, e)) <= attempts[e]
  BY DEF Tick, history, TypeOK, CountsTyped, RowsTyped, TriesWithinBudget, Waiting
<1>8. Cardinality(Waiting(notes, e)) \in Nat /\ Cardinality(Waiting(notes', e)) \in Nat
  BY <1>5, WaitingFinite
<1> QED
  BY <1>4, <1>6, <1>7, <1>8

LEMMA BudgetStep ==
  ASSUME TypeOK, TriesWithinBudget, [Next]_vars, NEW e \in Experiences
  PROVE  tries'[e] + Cardinality(Waiting(notes', e)) <= attempts'[e]
<1>1. /\ tries[e] \in Nat /\ attempts[e] \in Nat
      /\ notes \in Seq(Experiences) /\ notes' \in Seq(Experiences)
      /\ tries[e] + Cardinality(Waiting(notes, e)) <= attempts[e]
  BY TypeStep DEF TypeOK, CountsTyped, RowsTyped, LinkTyped, TriesWithinBudget, Waiting
<1>2. Cardinality(Waiting(notes, e)) \in Nat /\ Cardinality(Waiting(notes', e)) \in Nat
  BY <1>1, WaitingFinite
<1>3. CASE Tick
  BY <1>3, BudgetTick
<1>4. CASE Fetch
  <2>1. notes # <<>> /\ notes' = Tail(notes) /\ attempts' = attempts
    BY <1>4 DEF Fetch, rows
  <2>2. Cardinality(Waiting(notes', e)) <=
          Cardinality(Waiting(notes, e)) - IF e = Head(notes) THEN 1 ELSE 0
    BY <1>1, <2>1, WaitingTail
  <2>3. tries'[e] = tries[e] \/ (e = Head(notes) /\ tries'[e] = tries[e] + 1)
    BY <1>4 DEF Fetch, TypeOK, CountsTyped
  <2> QED
    BY <1>1, <1>2, <2>1, <2>2, <2>3
<1>5. CASE Drop
  <2>1. PICK n \in 0..Len(notes) : notes' = SubSeq(notes, 1, n)
    BY <1>5 DEF Drop
  <2>2. Cardinality(Waiting(notes', e)) <= Cardinality(Waiting(notes, e))
    BY <1>1, <2>1, WaitingPrefix
  <2> QED
    BY <1>1, <1>2, <1>5, <2>2 DEF Drop, rows, history
<1>6. CASE Crash
  <2>1. Waiting(notes', e) = {}
    BY <1>6 DEF Crash, Waiting
  <2>2. Cardinality(Waiting(notes', e)) = 0
    BY <2>1, FS_EmptySet
  <2>3. attempts' = attempts /\ tries' = tries
    BY <1>6 DEF Crash, rows, history
  <2> QED
    BY <1>1, <1>2, <2>2, <2>3
<1>7. CASE UNCHANGED <<attempts, notes, tries>>
  BY <1>1, <1>7
<1>8. Tick \/ Fetch \/ Drop \/ Crash \/ UNCHANGED <<attempts, notes, tries>>
  BY DEF Next, Worker, Capture, Pass, Start, Listen, WriteClaims, Fail, RecordFailure,
         rows, link, history, vars
<1> QED
  BY <1>3, <1>4, <1>5, <1>6, <1>7, <1>8

\* Whatever is reclaimed, re-notified, delivered late or lost, no row has bought more
\* extractor calls than the attempts it was charged, hence never more than MaxAttempts
\* (consolidate_pending_experiences and handle_notification).
THEOREM TriesWithinBudgetHolds ==
  Spec => []TriesWithinBudget
<1>1. Init => TriesWithinBudget
  <2>1. Init => \A e \in Experiences : {i \in DOMAIN notes : notes[i] = e} = {}
    BY DEF Init
  <2> QED
    BY <2>1, FS_EmptySet DEF Init, TriesWithinBudget
<1>2. TypeOK /\ TriesWithinBudget /\ [Next]_vars => TriesWithinBudget'
  BY BudgetStep DEF TriesWithinBudget, Waiting
<1> QED
  BY TypeInit, TypeStep, <1>1, <1>2, PTL DEF Spec

-----------------------------------------------------------------------------
(***************************************************************************)
(* The duty.  A worker may hold a row that the tick has charged again, but *)
(* never long enough for that charge to go stale: when it decides on the   *)
(* attempts it read, the row is not given up behind its back.              *)
(***************************************************************************)
NotOverrun ==
  Working /\ attempts[worker.job] > worker.attempts =>
    status[worker.job] = "in_progress" /\ age[worker.job] <= worker.busy

DutyInv == CapInv /\ OnceInv /\ NotOverrun

LEMMA DutyInit == Init => DutyInv
BY CapInit, OnceInit DEF Init, DutyInv, NotOverrun, Working, Down

LEMMA OverrunStep ==
  ASSUME "ack" \notin Faults, MaxHandle < StaleAfter, DutyInv, [Next]_vars
  PROVE  NotOverrun'
<1> USE DEF DutyInv, CapInv, OnceInv
<1>0. Working => /\ worker.job \in Experiences /\ worker.busy \in 0..MaxHandle
                 /\ worker.attempts \in Nat /\ attempts[worker.job] \in Nat
                 /\ worker.attempts <= attempts[worker.job]
                 /\ status[worker.job] \notin {"absent", "complete"}
                 /\ age[worker.job] \in 0..AgeCap
  BY ConstantFacts DEF SnapshotNotAhead, JobUnfinished, TypeOK, WorkerTyped, RowsTyped
<1>1. CASE \E e \in Experiences : Capture(e)
  BY <1>0, <1>1 DEF Capture, NotOverrun, Working, TypeOK, RowsTyped
<1>2. CASE Pass
  <2> SUFFICES ASSUME Working, attempts[worker.job] > worker.attempts
               PROVE  status'[worker.job] = "in_progress" /\ age'[worker.job] <= worker.busy + 1
    BY <1>2 DEF Pass, NotOverrun, Working, TypeOK, WorkerTyped
  <2> QED
    BY <1>0, <1>2, ConstantFacts DEF Pass, NotOverrun, Least
<1>3. CASE Tick
  <2> SUFFICES ASSUME Working, attempts'[worker.job] > worker.attempts
               PROVE  status'[worker.job] = "in_progress" /\ age'[worker.job] <= worker.busy
    BY <1>3 DEF Tick, NotOverrun, Working
  <2>1. CASE attempts[worker.job] > worker.attempts
    <3>1. status[worker.job] = "in_progress" /\ age[worker.job] < StaleAfter
          /\ age[worker.job] <= worker.busy
      BY <1>0, <2>1, ConstantFacts DEF NotOverrun
    <3> QED
      BY <1>0, <1>3, <3>1, TickKeeps
  <2>2. CASE ~(attempts[worker.job] > worker.attempts)
    <3>1. attempts'[worker.job] > attempts[worker.job]
      BY <1>0, <2>2
    <3> QED
      BY <1>0, <1>3, <3>1, TickKeeps
  <2> QED
    BY <2>1, <2>2
<1>4. CASE Start \/ Listen \/ Drop \/ Crash
  BY <1>4 DEF Start, Listen, Drop, Crash, Idle, Down, NotOverrun, Working, rows
<1>5. CASE Fetch
  <2>1. Head(notes) \in Experiences
    BY <1>5 DEF Fetch, TypeOK, LinkTyped
  <2>2. attempts[Head(notes)] \in Nat
    BY <2>1, ConstantFacts DEF TypeOK, RowsTyped
  <2> QED
    BY <1>5, <2>2 DEF Fetch, NotOverrun, Working, rows
<1>6. CASE WriteClaims
  BY <1>6 DEF WriteClaims, NotOverrun, Working, Idle, Down
<1>7. CASE Fail
  BY <1>7 DEF Fail, NotOverrun, Working, TypeOK, WorkerTyped, rows
<1>8. CASE RecordFailure
  BY <1>8 DEF RecordFailure, NotOverrun, Working, Idle, Down
<1>9. CASE UNCHANGED vars
  BY <1>9 DEF vars, NotOverrun, Working
<1> QED
  BY <1>1, <1>2, <1>3, <1>4, <1>5, <1>6, <1>7, <1>8, <1>9 DEF Next, Worker

LEMMA DutyStep ==
  ASSUME "ack" \notin Faults, MaxHandle < StaleAfter
  PROVE  DutyInv /\ [Next]_vars => DutyInv'
BY CapStep, OnceStep, OverrunStep DEF DutyInv

LEMMA DutyByStatus ==
  ASSUME NEW s \in Statuses
  PROVE  /\ DutyOf(s) = "none" <=> s = "absent"
         /\ DutyOf(s) = "owed" <=> s \in {"pending", "in_progress"}
         /\ DutyOf(s) = "done" <=> s = "complete"
         /\ DutyOf(s) = "abandoned" <=> s = "failed"
BY DEF Statuses, DutyOf

LEMMA DutySteps ==
  ASSUME "ack" \notin Faults, MaxHandle < StaleAfter, DutyInv, [Next]_vars
  PROVE  [Duty!Next]_(Duty!vars)
<1> USE DEF DutyInv, CapInv, OnceInv
<1>0. \A e \in Experiences : status[e] \in Statuses /\ status'[e] \in Statuses
  BY TypeStep DEF TypeOK, RowsTyped
<1>1. CASE \E e \in Experiences : Capture(e)
  <2>1. PICK e \in Experiences : Capture(e)
    BY <1>1
  <2>2. \A x \in Experiences :
          DutyOf(status'[x]) = IF x = e THEN "owed" ELSE DutyOf(status[x])
    BY <1>0, <2>1, DutyByStatus DEF Capture, TypeOK, RowsTyped
  <2>3. DutyOf(status[e]) = "none" /\ UNCHANGED written
    BY <1>0, <2>1, DutyByStatus DEF Capture, history
  <2>4. Duty!Owe(e)
    BY <2>2, <2>3 DEF Duty!Owe
  <2> QED
    BY <2>4 DEF Duty!Next
<1>2. CASE UNCHANGED <<status, written>>
  BY <1>2 DEF Duty!vars
<1>3. CASE Tick
  <2>0. PICK S \in SUBSET Experiences :
          S = {e \in Experiences : status[e] # "failed" /\ status'[e] = "failed"}
    OBVIOUS
  <2>1. ASSUME NEW e \in Experiences
        PROVE  DutyOf(status'[e]) = IF e \in S THEN "abandoned" ELSE DutyOf(status[e])
    BY <1>0, <1>3, <2>0, TickCharges, TickKeeps, DutyByStatus DEF Statuses
  <2>2. \A e \in S : DutyOf(status[e]) = "owed"
    BY <1>0, <1>3, <2>0, TickCharges, TickKeeps, DutyByStatus DEF Statuses
  <2>3. Duty!Abandon(S)
    BY <1>3, <2>1, <2>2 DEF Tick, history, Duty!Abandon
  <2> QED
    BY <2>0, <2>3 DEF Duty!Next
<1>4. CASE WriteClaims
  <2>1. PICK e \in Experiences :
          e = worker.job /\ status[e] \in {"pending", "in_progress", "failed"}
    BY <1>0, <1>4 DEF WriteClaims, JobUnfinished, Working, Statuses
  <2>2. \A x \in Experiences :
          DutyOf(status'[x]) = IF x = e THEN "done" ELSE DutyOf(status[x])
    BY <1>0, <1>4, <2>1, DutyByStatus DEF WriteClaims, TypeOK, RowsTyped
  <2>3. DutyOf(status[e]) \in {"owed", "abandoned"}
    BY <1>0, <2>1, DutyByStatus
  <2>4. written' = [written EXCEPT ![e] = @ + 1]
    BY <1>4, <2>1 DEF WriteClaims
  <2>5. Duty!Discharge(e)
    BY <2>1, <2>2, <2>3, <2>4 DEF Duty!Discharge
  <2> QED
    BY <2>1, <2>5 DEF Duty!Next
<1>5. CASE RecordFailure
  <2>1. /\ worker.job \in Experiences
        /\ status[worker.job] \in {"pending", "in_progress", "failed"}
        /\ worker.attempts \in Nat /\ attempts[worker.job] \in Nat
        /\ worker.attempts <= attempts[worker.job]
    BY <1>0, <1>5, ConstantFacts
    DEF RecordFailure, JobUnfinished, SnapshotNotAhead, Working, Statuses,
        TypeOK, RowsTyped, WorkerTyped
  <2>2. status[worker.job] = "failed" => worker.attempts >= MaxAttempts
    BY <1>5, <2>1, ConstantFacts DEF RecordFailure, NotOverrun, FailedOnlyAtCap, Working
  <2>3. CASE UNCHANGED status
    BY <1>2, <1>5, <2>3 DEF RecordFailure, history
  <2>4. CASE status' = [status EXCEPT ![worker.job] = "failed"]
                /\ status[worker.job] # "failed"
    <3>1. PICK S \in SUBSET Experiences : S = {worker.job}
      BY <2>1
    <3>2. \A x \in Experiences :
            DutyOf(status'[x]) = IF x \in S THEN "abandoned" ELSE DutyOf(status[x])
      BY <1>0, <2>1, <2>4, <3>1, DutyByStatus DEF TypeOK, RowsTyped
    <3>3. (\A x \in S : DutyOf(status[x]) = "owed") /\ UNCHANGED written
      BY <1>0, <1>5, <2>1, <2>4, <3>1, DutyByStatus DEF RecordFailure, history
    <3>4. Duty!Abandon(S)
      BY <3>2, <3>3 DEF Duty!Abandon
    <3> QED
      BY <3>1, <3>4 DEF Duty!Next
  <2>5. CASE status' = [status EXCEPT ![worker.job] = "pending"]
                /\ status[worker.job] # "failed"
    <3>1. \A x \in Experiences : DutyOf(status'[x]) = DutyOf(status[x])
      BY <1>0, <2>1, <2>5, DutyByStatus DEF TypeOK, RowsTyped
    <3>2. UNCHANGED written
      BY <1>5 DEF RecordFailure, history
    <3> QED
      BY <3>1, <3>2 DEF Duty!vars
  <2>6. CASE status' = [status EXCEPT ![worker.job] = "failed"]
                /\ status[worker.job] = "failed"
    BY <1>2, <1>5, <2>1, <2>6 DEF RecordFailure, history, TypeOK, RowsTyped
  <2> QED
    BY <1>5, <2>1, <2>2, <2>3, <2>4, <2>5, <2>6 DEF RecordFailure, DecideAfterFailure
<1> QED
  BY <1>1, <1>2, <1>3, <1>4, <1>5
  DEF Next, Worker, Pass, Start, Listen, Drop, Crash, Fetch, Fail, rows, history, vars

\* The queue, its tick and its worker implement ExtractionDuty: a captured experience
\* owes one extraction, which is discharged once or abandoned, and no late worker or
\* reclaim reopens, repeats or takes back what was settled.  Needs acknowledged commits
\* and calls shorter than the stale window, as the run does.
THEOREM QueueImplementsDuty ==
  ASSUME "ack" \notin Faults, MaxHandle < StaleAfter
  PROVE  Spec => ImplementsDuty
<1>1. Init => Duty!Init
  <2>1. DutyOf("absent") = "none"
    BY DutyByStatus DEF Statuses
  <2> QED
    BY <2>1 DEF Init, Duty!Init
<1>2. DutyInv /\ [Next]_vars => DutyInv'
  BY DutyStep
<1>3. DutyInv /\ [Next]_vars => [Duty!Next]_(Duty!vars)
  BY DutySteps
<1> QED
  BY DutyInit, <1>1, <1>2, <1>3, PTL DEF Spec, ImplementsDuty, Duty!Spec

=============================================================================
