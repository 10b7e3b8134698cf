--------------------------- MODULE Consolidation ---------------------------
(***************************************************************************)
(* The consolidation queue.  An experience is captured 'pending'; a        *)
(* pg_cron tick (init/05-consolidation.sql) claims due rows, charges one   *)
(* attempt and NOTIFYs their ids; one worker process                       *)
(* (web/openbrain/brain/consolidation.py) listens, runs the extractor and  *)
(* either writes the claims with status 'complete' in one transaction or   *)
(* records the failure.  Rows, notifications and worker are three clocks   *)
(* that drift apart: the tick may reclaim a row the worker still holds.    *)
(*                                                                         *)
(* Time: one unit is the cron interval (5 minutes).  age[e] counts the     *)
(* units begun since attempted_at, so at age = w a window of w units may   *)
(* or may not be over: the tick chooses ("ripe").  Ages saturate just past *)
(* the longest window.                                                     *)
(***************************************************************************)
EXTENDS Naturals, Sequences, SequencesExt, FiniteSets

CONSTANTS
  Experiences,    \* ids of brain.experiences rows
  BatchSize,      \* rows one tick may claim
  MaxAttempts,    \* c_max_attempts = MAX_CONSOLIDATION_ATTEMPTS
  StaleAfter,     \* 15 minutes, in units
  BackoffFirst,   \* 5 minutes, in units
  BackoffSecond,  \* 30 minutes, in units
  MaxHandle,      \* units one handle_notification call may last
  MaxOutages,     \* bound on worker crashes and dropped connections
  Faults,         \* which failures this instance admits
  NoJob           \* the worker holds no experience

FaultKinds == {"extract", "write", "ack", "db", "crash", "drop"}

ASSUME ConsolidationAssumption ==
  /\ IsFiniteSet(Experiences)
  /\ BatchSize \in Nat \ {0}
  /\ MaxAttempts \in Nat \ {0}
  /\ {StaleAfter, BackoffFirst, BackoffSecond, MaxHandle, MaxOutages} \subseteq Nat
  /\ Faults \subseteq FaultKinds
  /\ NoJob \notin Experiences

VARIABLES
  status,    \* consolidation_status, or "absent" before the capture
  attempts,  \* consolidation_attempts
  age,       \* units begun since consolidation_attempted_at
  notes,     \* notifications buffered on the LISTEN connection, in order
  listening, \* the LISTEN connection is up
  worker,    \* [phase, job, attempts, busy] of the worker process
  outages,   \* crashes and drops so far
  tries,     \* history: extractor calls made for each experience
  written    \* history: claim batches committed for each experience

rows == <<status, attempts, age>>
link == <<notes, listening>>
history == <<tries, written>>
vars == <<status, attempts, age, notes, listening, worker, outages, tries, written>>

Statuses == {"absent", "pending", "in_progress", "complete", "failed"}
Phases == {"down", "idle", "extracting", "recording"}
Least(m, n) == IF m <= n THEN m ELSE n
Longest == IF StaleAfter >= BackoffSecond THEN StaleAfter ELSE BackoffSecond
AgeCap == (IF Longest >= BackoffFirst THEN Longest ELSE BackoffFirst) + 1

RowsTyped ==
  /\ status \in [Experiences -> Statuses]
  /\ attempts \in [Experiences -> 0..MaxAttempts]
  /\ age \in [Experiences -> 0..AgeCap]

LinkTyped == notes \in Seq(Experiences) /\ listening \in BOOLEAN

WorkerTyped ==
  worker \in [phase : Phases, job : Experiences \cup {NoJob},
              attempts : 0..MaxAttempts, busy : 0..MaxHandle]

CountsTyped ==
  /\ outages \in 0..MaxOutages
  /\ tries \in [Experiences -> Nat]
  /\ written \in [Experiences -> Nat]

\* The types of the schema; in particular no row is charged more than
\* MaxAttempts attempts (consolidate_pending_experiences, step 2 before step 3).
TypeOK == RowsTyped /\ LinkTyped /\ WorkerTyped /\ CountsTyped

Down == [phase |-> "down", job |-> NoJob, attempts |-> 0, busy |-> 0]
Idle == [Down EXCEPT !.phase = "idle"]

Init ==
  /\ status = [e \in Experiences |-> "absent"]
  /\ attempts = [e \in Experiences |-> 0]
  /\ age = [e \in Experiences |-> 0]
  /\ notes = <<>>
  /\ listening = FALSE
  /\ worker = Down
  /\ outages = 0
  /\ tries = [e \in Experiences |-> 0]
  /\ written = [e \in Experiences |-> 0]

(***************************************************************************)
(* write_experience: every new row owes claim extraction.                  *)
(***************************************************************************)
Capture(e) ==
  /\ status[e] = "absent"
  /\ status' = [status EXCEPT ![e] = "pending"]
  /\ UNCHANGED <<attempts, age, link, worker, outages, history>>

(***************************************************************************)
(* A unit of time begins.  A call in progress lasts at most MaxHandle      *)
(* units, which the extractor's timeout bounds.                            *)
(***************************************************************************)
Pass ==
  /\ worker.phase \in {"extracting", "recording"} => worker.busy < MaxHandle
  /\ worker' = IF worker.phase \in {"extracting", "recording"}
                 THEN [worker EXCEPT !.busy = @ + 1] ELSE worker
  /\ age' = [e \in Experiences |->
               IF attempts[e] = 0 THEN 0 ELSE Least(age[e] + 1, AgeCap)]
  /\ UNCHANGED <<status, attempts, link, outages, history>>

-----------------------------------------------------------------------------
(***************************************************************************)
(* One CALL of consolidate_pending_experiences: reclaim, give up, claim    *)
(* and notify, in that order, in one transaction.                          *)
(***************************************************************************)
Elapsed(e, window, ripe) == age[e] > window \/ (age[e] = window /\ e \in ripe)

Stale(ripe) == {e \in Experiences : status[e] = "in_progress"
                                    /\ Elapsed(e, StaleAfter, ripe)}

\* The rows 'pending' once the stale ones are back in the queue.
Queued(ripe) == {e \in Experiences : status[e] = "pending"} \cup Stale(ripe)

ExhaustedPastCap(ripe) == {e \in Queued(ripe) : attempts[e] > MaxAttempts}
Exhausted(ripe) == {e \in Queued(ripe) : attempts[e] >= MaxAttempts}

BackoffOver(e, ripe) ==
  \/ attempts[e] = 0
  \/ attempts[e] = 1 /\ Elapsed(e, BackoffFirst, ripe)
  \/ attempts[e] = 2 /\ Elapsed(e, BackoffSecond, ripe)

Due(ripe) == {e \in Queued(ripe) \ Exhausted(ripe) : BackoffOver(e, ripe)}

\* order by consolidation_attempted_at nulls first
Sooner(d, e) == \/ attempts[d] = 0 /\ attempts[e] > 0
                \/ attempts[d] > 0 /\ attempts[e] > 0 /\ age[d] > age[e]

Batches(due) ==
  {batch \in SUBSET due :
     /\ Cardinality(batch) = Least(BatchSize, Cardinality(due))
     /\ \A d \in due \ batch, e \in batch : ~Sooner(d, e)}

\* The rows whose attempt counter this call increments.
ChargedWithFailed(ripe, batch) == batch \cup Exhausted(ripe)
ChargedUnlessReclaimed(ripe, batch) == batch \ Stale(ripe)
Charged(ripe, batch) == batch

Requeue(ripe, batch) ==
  /\ status' = [e \in Experiences |->
                  CASE e \in batch -> "in_progress"
                    [] e \in Exhausted(ripe) -> "failed"
                    [] e \in Queued(ripe) \ (Exhausted(ripe) \cup batch) -> "pending"
                    [] OTHER -> status[e]]
  /\ attempts' = [e \in Experiences |->
                    IF e \in Charged(ripe, batch) THEN attempts[e] + 1 ELSE attempts[e]]
  /\ age' = [e \in Experiences |-> IF e \in batch THEN 0 ELSE age[e]]

\* pg_notify reaches only a session already listening, when the call commits.
Notify(batch) ==
  /\ IF listening THEN \E order \in SetToSeqs(batch) : notes' = notes \o order
                  ELSE notes' = notes
  /\ UNCHANGED listening

Tick ==
  /\ \E ripe \in SUBSET Experiences : \E batch \in Batches(Due(ripe)) :
       Requeue(ripe, batch) /\ Notify(batch)
  /\ UNCHANGED <<worker, outages, history>>

-----------------------------------------------------------------------------
(***************************************************************************)
(* The listener: connect, lose the connection, crash.                      *)
(***************************************************************************)
\* The container starts, or restarts (docker-compose: unless-stopped).
Start ==
  /\ worker.phase = "down"
  /\ worker' = Idle
  /\ UNCHANGED <<rows, link, outages, history>>

\* open_listen_connection and LISTEN, on a fresh connection.
Listen ==
  /\ worker.phase = "idle" /\ ~listening /\ notes = <<>>
  /\ listening' = TRUE
  /\ UNCHANGED <<rows, notes, worker, outages, history>>

\* The connection drops; what the client had already read is still served.
Drop ==
  /\ "drop" \in Faults /\ outages < MaxOutages
  /\ listening
  /\ listening' = FALSE
  /\ \E n \in 0..Len(notes) : notes' = SubSeq(notes, 1, n)
  /\ outages' = outages + 1
  /\ UNCHANGED <<rows, worker, history>>

\* The process dies between any two of its steps; its transaction rolls back.
Crash ==
  /\ "crash" \in Faults /\ outages < MaxOutages
  /\ worker.phase # "down"
  /\ worker' = Down
  /\ listening' = FALSE
  /\ notes' = <<>>
  /\ outages' = outages + 1
  /\ UNCHANGED <<rows, history>>

-----------------------------------------------------------------------------
(***************************************************************************)
(* handle_notification, one action per interval between its transactions.  *)
(***************************************************************************)
FetchAnyRow ==
  /\ worker.phase = "idle" /\ notes # <<>>
  /\ notes' = Tail(notes)
  /\ LET e == Head(notes) IN
       /\ worker' = [phase |-> "extracting", job |-> e,
                     attempts |-> attempts[e], busy |-> 0]
       /\ tries' = [tries EXCEPT ![e] = @ + 1]
  /\ UNCHANGED <<rows, listening, outages, written>>

\* The row is read; a row no longer in_progress is skipped, and an error in the
\* read is logged by the loop: either way the notification is spent.
Fetch ==
  /\ worker.phase = "idle" /\ notes # <<>>
  /\ notes' = Tail(notes)
  /\ LET e == Head(notes) IN
       \/ /\ status[e] = "in_progress"
          /\ worker' = [phase |-> "extracting", job |-> e,
                        attempts |-> attempts[e], busy |-> 0]
          /\ tries' = [tries EXCEPT ![e] = @ + 1]
       \/ /\ status[e] # "in_progress" \/ "db" \in Faults
          /\ UNCHANGED <<worker, tries>>
  /\ UNCHANGED <<rows, listening, outages, written>>

\* Claims, claim_sources and 'complete' commit together, whatever became of the row.
WriteClaims ==
  /\ worker.phase = "extracting"
  /\ written' = [written EXCEPT ![worker.job] = @ + 1]
  /\ status' = [status EXCEPT ![worker.job] = "complete"]
  /\ \/ worker' = Idle
     \/ "ack" \in Faults /\ worker' = [worker EXCEPT !.phase = "recording"]
  /\ UNCHANGED <<attempts, age, link, outages, tries>>

\* The extractor raises, or the write transaction rolls back.
Fail ==
  /\ worker.phase = "extracting"
  /\ {"extract", "write"} \cap Faults # {}
  /\ worker' = [worker EXCEPT !.phase = "recording"]
  /\ UNCHANGED <<rows, link, outages, history>>

DecideOneEarly(n) == IF n + 1 >= MaxAttempts THEN "failed" ELSE "pending"
DecideNever(n) == IF n > MaxAttempts THEN "failed" ELSE "pending"
DecideAfterFailure(n) == IF n >= MaxAttempts THEN "failed" ELSE "pending"

\* _set_status, unconditional and best-effort.
RecordFailure ==
  /\ worker.phase = "recording"
  /\ \/ status' = [status EXCEPT ![worker.job] = DecideAfterFailure(worker.attempts)]
     \/ "db" \in Faults /\ UNCHANGED status
  /\ worker' = Idle
  /\ UNCHANGED <<attempts, age, link, outages, history>>

Worker == Fetch \/ WriteClaims \/ Fail \/ RecordFailure

Next ==
  \/ \E e \in Experiences : Capture(e)
  \/ Pass \/ Tick
  \/ Start \/ Listen \/ Drop \/ Crash
  \/ Worker

(***************************************************************************)
(* Time passes and cron ticks; compose restarts the container; the reader  *)
(* loop reconnects and every call it makes returns.                        *)
(***************************************************************************)
Fairness ==
  /\ WF_vars(Pass) /\ WF_vars(Tick)
  /\ WF_vars(Start) /\ WF_vars(Listen) /\ WF_vars(Worker)

Spec == Init /\ [][Next]_vars
FairSpec == Spec /\ Fairness

-----------------------------------------------------------------------------
(***************************************************************************)
(* Properties.                                                             *)
(***************************************************************************)
\* The claims of an experience are committed once, and 'complete' says so: no
\* late worker, reclaim or duplicate notification writes them a second time
\* or takes a completed row back (handle_notification, _SET_STATUS_SQL).
\* Needs an acknowledged commit: without "ack" in Faults.
ClaimsWrittenOnce ==
  \A e \in Experiences : written[e] = IF status[e] = "complete" THEN 1 ELSE 0

\* A row is given up only with its attempts used up: neither the tick's step 2
\* nor a worker deciding on an old attempt count abandons it earlier.
FailedOnlyAtCap ==
  \A e \in Experiences : status[e] = "failed" => attempts[e] = MaxAttempts

\* Every paid extractor call is covered by a charged attempt, and so is every
\* notification still buffered: a row reclaimed and re-notified while its
\* first notification waits never buys a call beyond the cap.
TriesWithinBudget ==
  \A e \in Experiences :
    tries[e] + Cardinality({i \in DOMAIN notes : notes[i] = e}) <= attempts[e]

\* What a row owes by its status: pending and in_progress rows owe, a complete row is
\* done, a failed one abandoned.
DutyOf(s) == CASE s = "absent" -> "none"
               [] s \in {"pending", "in_progress"} -> "owed"
               [] s = "complete" -> "done"
               [] s = "failed" -> "abandoned"

\* The queue implements ExtractionDuty.
Duty == INSTANCE ExtractionDuty WITH duty <- [e \in Experiences |-> DutyOf(status[e])],
                                     batches <- written

\* Every step settles a debt, opens one or leaves all debts alone: no worker
\* that decides on an attempt count it read earlier puts a failed row back in
\* the queue, no reclaim reopens a completed one, no claims are written twice
\* (_set_status overwrites whatever status it finds).  Needs calls shorter than
\* the stale window.
ImplementsDuty == Duty!Spec

\* Every captured experience is settled in the end, whatever fails: reclaim,
\* backoff and cap leave no row in limbo.
Settles == Duty!Settled
=============================================================================
