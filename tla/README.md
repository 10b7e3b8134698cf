# TLA+ models of the mindgrapes server

mindgrapes ("openbrain") is a household memory: members capture text and
images over MCP tools or web pages, a background worker draws claims about
entities from every capture, and members correct, merge, edit and delete what
was remembered. The server is Django on PostgreSQL; much of the state machine
is SQL. This directory holds TLA+ models of the parts whose correctness depends
on the order of things, the TLC instances that check them, and TLAPS proofs of
the main invariants.

Paths below are relative to the repository; `brain/` abbreviates
`web/openbrain/brain/`.

## 1. Inventory

| component | state | operations | model |
|---|---|---|---|
| **Consolidation queue and worker**: `init/05-consolidation.sql`, `brain/consolidation.py`, `brain/management/commands/run_consolidation.py` | `experiences.consolidation_status / _attempts / _attempted_at`; the NOTIFY buffer; one worker process | capture enqueues; cron tick reclaims, gives up, claims, notifies; worker fetches, extracts, writes claims or records the failure; connect, drop, crash | `Consolidation`, `ExtractionDuty` |
| **Entity graph**: `brain/services/entities.py`, `init/22-*.sql` | `entities.merged_into`, `merge_candidates.status`, `correction_events` with `compressed_via` | merge, second-stage auto-merge, unmerge, queueing and resolving candidates; rename, alias, split | `EntityGraph`, `Identity`; aliases in `Aliases`, splits in `EntityReads`, renames in `Reviews` |
| **Experience lifecycle**: `brain/services/captures.py`, `edits.py`, `deletes.py` | `experiences` rows, `superseded_by`, `deleted_at`, attachments; `claims.polarity`, `claim_sources` | capture, edit in place, supersede, soft delete, retract one claim or the paraphrased ones | `Experiences` |
| **Reviews**: `brain/services/reviews.py` | `proposed_corrections`, `disambiguations`, `merge_candidates` | propose and resolve corrections, answer disambiguations, confirm or reject merges | `Reviews`; the merge candidates, in `EntityGraph` |
| **Entity resolver, claim writer**: `brain/services/entity_resolver.py`, `claim_writer.py` | `entities.aliases`, new entities, mentions and claims | resolve a surface form, mint, auto-merge, append an alias, bind claims | `Aliases`; rows it mints and merges, in `EntityGraph`; mentions and claims, in `EntityReads` and `Experiences` |
| **Batch dedup**: `brain/services/dedup.py`, `name_matching.py`, `probabilistic.py`, `management/commands/dedup_entities.py` | a plan computed from a snapshot, applied later; `merge_candidates` | block, score, gate, drop held pairs, merge one by one, queue | `NameMatching`, `DedupBatch` |
| **Splits and reads over merged entities**: `entities.py`, `init/22-*.sql`, `recall.py`, `reviews.py`, `mcp_reads.py` | `mentions`, `claims` with the ids they were written with | split an entity, a mention, the claims of an experience; walk relationships, count mentions, hide low-impact pairs, rank split candidates | `EntityReads` |
| **Image capture, blobstore**: `brain/services/image_captures.py`, `blobstore.py`, `core/views.py` | stored objects, `blobs`, `attachments` | prepare, describe, embed, put, insert; reconcile orphans | `Images` |
| **Feed, mention timeline, activity log**: `feed.py`, `reads.py`, `activity.py`, `brain/views.py` | what a Load-more link carries | page through a list that changes | `Listings` |
| **Visibility**: `brain/services/visibility.py` | `experiences.visibility` | share, unshare | `Toggle` of `Listings` |
| **Schema ledger, boot gate**: `mcp/ledger.py`, `boot.py`, `init/14-*.sql` | `schema_migrations`, the files a volume got | first initialisation, baseline, migrate, refuse to boot on drift | `SchemaLedger` |
| **OAuth, enrolment, accounts**: `oauth/`, `accounts/`, `mcp/auth.py` | grants, refresh tokens, invites | issue, rotate, revoke, accept | not modelled |
| **Hybrid search, geo** | none | single read-only queries and ranking | not modelled: no state |
| **Extraction, embeddings** | none | calls to a model | outcomes are choices of the models that call them |
| **Salience, summary cache** | numbers and views recomputed by cron | recompute | not modelled: no protocol |
| **MCP tools, web views** | none of their own | adapters over the services | the one check made in a view (the edit form's) is `OpenForm` |
| **Deployment, backup** | | compose files, scripts | the worker's restart policy is used by `Consolidation` |

How they interact. A capture inserts an experience whose status is `pending`;
the tick and the worker, which never talk except through the row and a
notification, turn it into claims whose subjects the resolver files under
entities. Merges and unmerges change what every read makes of those entities by
one dereference of `merged_into`. Edits and deletes act on the experience while
consolidation may commit at any time, so the three components share the row.
There is no in-process sharing: all interleaving is between transactions, at
READ COMMITTED with explicit row locks.

What is hard:

* *The queue has three clocks.* The row says who owns the job, the
  notification says who should run it, the worker remembers an attempt count
  it read earlier. A reclaim moves the first, cannot recall the second and is
  unseen by the third; `_set_status` writes unconditionally.
* *The undo of a merge is computed from an audit log.* Path compression keeps
  reads one hop long, so the pointer no longer says what was merged with what;
  unmerge reconstructs it from `correction_events` which are never removed.
* *A verdict is stamped before it is carried out.* So that no lock is held
  across a repair, a review is three transactions: the stamp, the repair, and
  the stamp's undoing when the repair fails. Other reviewers, merges and direct
  tool calls run between them.
* *The claims of an experience arrive after it.* Every edit and delete races
  the commit of the claims it should retract, and the edit form itself is read
  in one request and posted in another.
* *The batch acts on what it saw.* One snapshot gives the scores, one read gives
  the pairs ruled on, and then merges commit one by one beside captures and
  reviewers; a refused merge changes what the later ones mean.
* *Names travel.* A capture appends a surface to an entity it matched one
  statement earlier, a merge hands all surfaces on, an unmerge takes none back.
* *Rows stay where they were written.* Mentions and claims keep pre-merge ids;
  each read resolves them in its own SQL, and all must agree.
* *An object store has no transactions.* The object is put before its row, under
  a key other captures share; the reconciliation compares two reads.
* *The ledger is written by three hands*: docker's entrypoint, `baseline` and any
  number of `migrate` runs of any build, while servers asked only once.
* *A page is not a snapshot.* Load-more carries an offset and a day slug into a
  list that has changed since.

What makes each correct: the queue extracts each capture once, gives up only
with its attempts used, spends no more extractor calls than it charged, and
settles every capture; the graph always reads as disjoint clusters, an unmerge
undoes its own merge and reopens its verdict; a reviewer's verdict takes effect
once; no asserted claim outlives the
support it was drawn with, and attachments follow the live row; a batch merges
only what scored and forgets nothing it skipped; a survivor answers to every
name; reads answer for the merged graph; every blob row has its object and every
stray object is found; the ledger says what ran; a reader who scrolls misses
only what moved. The hazards
behind each statement, with their lines, are in `PROJECT.json`.

## 2. Modules

| module | extends / instantiates | role |
|---|---|---|
| `ExtractionDuty` | | abstract: each capture owes one extraction, settled or abandoned |
| `Consolidation` | instantiates `ExtractionDuty` | tick, listener, worker |
| `MCConsolidation` | `Consolidation` | symmetry |
| `ConsolidationProofs` | `Consolidation`, `TLAPS` | theorems |
| `Identity` | | abstract: entities read as disjoint clusters that join and part |
| `EntityGraph` | instantiates `Identity` | pointers, moves, candidates, reviewers |
| `MCEntityGraph` | `EntityGraph` | kinds, symmetry |
| `EntityGraphProofs` | `EntityGraph`, `WellFoundedInduction`, `TLAPS` | theorems |
| `Reviews` | | tickets, verdicts, the repairs they set off |
| `MCReviews` | `Reviews` | the changes proposed, symmetry |
| `ReviewsProofs` | `Reviews`, `TLAPS` | theorems |
| `Experiences` | | rows, claims, edit forms, deletes |
| `MCExperiences` | `Experiences` | symmetry |
| `ExperiencesProofs` | `Experiences`, `TLAPS` | theorems |
| `NameMatching` | | the two scorers and token blocking, as pure operators |
| `Aliases` | `EntityGraph`, `NameMatching` | surfaces, captures that match and append |
| `DedupBatch` | `Aliases` | plan, held pairs, merges, queue of one batch run |
| `MCDedup` | `DedupBatch` | names, folding and Jaro-Winkler bands |
| `EntityReads` | `EntityGraph` | mentions, claims, splits and the reads that follow merges |
| `MCEntityReads` | `EntityReads` | drafts of claims, symmetry |
| `EntityServicesProofs` | `DedupBatch`, `EntityReads`, `EntityGraphProofs` | theorems about what is built on `EntityGraph` |
| `Images`, `MCImages` | | capture of photos, reconciliation; symmetry |
| `ImagesProofs` | `Images`, `TLAPS` | theorems |
| `SchemaLedger`, `MCSchemaLedger` | | ledger, migrate, gate; symmetry |
| `SchemaLedgerProofs` | `SchemaLedger`, `TLAPS` | theorems |
| `Listings` | | paged lists and the writes beneath them |
| `ListingsProofs` | `Listings`, `TLAPS` | theorems |

### Consolidation

| TLA+ | code |
|---|---|
| `status`, `attempts`, `age` | `consolidation_status`, `_attempts`, time since `_attempted_at` |
| `notes`, `listening` | notifications psycopg has buffered, in order; LISTEN in force |
| `worker` | the process: down, idle, extracting with the attempt count it read, recording a failure |
| `tries`, `written` | history: extractor calls, committed claim batches |
| `Tick` | `consolidate_pending_experiences()`, one transaction: reclaim, give up, claim by `attempted_at nulls first`, notify |
| `Fetch`, `WriteClaims`, `Fail`, `RecordFailure` | `handle_notification` cut at its transactions |
| `Start`, `Listen`, `Drop`, `Crash` | `run_consolidation`, container restarts |

*Time.* A unit is the cron interval of 5 minutes. `age[e]` counts unit
boundaries since `attempted_at`, so at `age = w` a window of `w` units may or
may not have elapsed; the set `ripe` chooses, per row. Ages saturate one past
the longest window, where every window is over for certain. `Tick` may also run
more often than once a unit, which the SQL function allows (it can be called by
hand).

*Failures.* `Faults` names what an instance admits: the extractor raises
(`extract`), the write rolls back (`write`), a commit succeeds and its
acknowledgement is lost (`ack`), the read or the status update fails (`db`),
the process dies (`crash`), the connection drops (`drop`). `MaxOutages` bounds
crashes and drops together. `Fetch` of a row no longer `in_progress` spends the
notification and does nothing, as the code's early return does.

*Fairness.* `WF(Tick)`, `WF(Pass)`: pg_cron runs every five minutes and time
passes. `WF(Start)`: compose has `restart: unless-stopped`. `WF(Listen)`: the
command's loop reconnects after every error. `WF(Worker)`: the handler is
sequential code whose one remote call has a timeout. Nothing is assumed of
captures, drops, crashes or failures.

### EntityGraph

| TLA+ | code |
|---|---|
| `merged` | `entities.merged_into` |
| `moves` | `correction_events` with `compressed_via`: target, new pointer, tombstone passed |
| `cand` | `merge_candidates.status` of the unordered pair |
| `MergeEntities`, `Merge`, `Repoint`, `Stamp` | `merge_entities_on_cursor` |
| `AutoMerge` | the resolver's second stage, on the capture's cursor |
| `Unmerge`, `Restored`, `DecidedWith` | `unmerge_entity`: pointer undo, lineage walk, reopened verdict |
| `ConfirmRead`, `ConfirmMerge`, `Reject` | `resolve_merge_candidate`, whose read and merge are two transactions |
| `trail`, `judged` | history the properties compare the code's reconstruction with |

A service call locks the rows it judges, so it is one action. `MaxRepairs`
bounds merges and unmerges; `AllowRemerge = FALSE` restricts an instance to
histories in which an unmerged entity is not merged away again, which is where
the code's reading of its audit log is exact (see findings). The lineage walk
stops at `LineageDepth` as the recursive query does.

### Reviews

| TLA+ | code |
|---|---|
| `status`, `change` | a proposal's or token's row and what it suggests or asks |
| `hands` | a `resolve_*` call that has committed its stamp and holds the repair to dispatch |
| `exists`, `away`, `bound`, `retracted` | the world the repairs act on: entities, those merged away, the entity each mention or claim side names, retracted claims |
| `effects`, `lost` | history: repairs committed per ticket; tickets whose reviewer died or could not reopen them |
| `ApplyProposal`, `RejectProposal`, `AnswerToken` | the stamp: a conditional update, or a check under the row's lock |
| `Perform`, `Refuse`, `Possible`, `Split`, `Retract`, `Rename` | the repair's own transaction in `services/entities.py` |
| `Reopen`, `Crash` | the except branch with its swallowed failure; the process dies |
| `CallTool`, `Merge`, `Unmerge` | the same tools from elsewhere, merges in between |

`Changes` is the set of suggestions and questions an instance offers; the
module takes any. The two outcomes of `Refuse` are a repair that raises because
of what it finds and, with `db`, one that fails for want of a database. A commit
whose acknowledgement is lost is not a fault of this module: the except branch
would then reopen a ticket already carried out (listed as a hazard). Merges are
reduced to "merged away or not", which is all a repair asks; `EntityGraph` has
the rest.

### Experiences

| TLA+ | code |
|---|---|
| `rows`, `owed` | experiences and those whose consolidation has not ended |
| `successor`, `deleted`, `images` | `superseded_by`, `deleted_at`, attachments |
| `claim`, `retracted`, `drawn` | source and support kind, polarity; history: the fate of its source when it was written |
| `form` | a rendered edit page |
| `deletion` | a delete between its select and its updates |
| `OpenForm`, `EditInPlace`, `Supersede`, `RetractParaphrased` | `experience_edit` and `edit_experience` |
| `BeginDelete`, `CommitDelete`, `AbortDelete` | `soft_delete_experience` |
| `Consolidate` | the worker's write transaction: at most once per row, as `ClaimsWrittenOnce` of `Consolidation` shows |

A posted edit holds the row's lock throughout and is one action. A delete
locks the experience but not the claims it chose, so a retraction may commit
between its statements: it is two actions. `Locked` also blocks
`Consolidate`, because the `claim_sources` foreign key takes a share lock on
the row. Text, owner and visibility are left out; a request by another member
is refused before any write. Whether new text is close to the old one is a
choice between `EditInPlace` and `Supersede`.

### NameMatching, Aliases, DedupBatch

| TLA+ | code |
|---|---|
| `MatchScore`, `MatchProbability` | `name_matching.match_score`, `probabilistic.match_probability`, as the bar they clear: merge, queue, drop |
| `SharesToken`, `SameName` | token blocking, the identical-names rule of `dedup.py` |
| `aliases` | `entities.aliases`; `TakeNames` is the union `merge_entities_on_cursor` makes |
| `ResolveSurface`, `AppendAlias` | the two statements of `resolve_or_create_entity`: the match, the append |
| `ConfirmBinding` | `append_alias` when a member confirms a provisional binding |
| `BatchPlan`, `Contested`, `Capped` | `plan_dedup`, `_contested_entities`, `_cap_queue` |
| `DropHeldPairs` | `_drop_held_pairs`, read once before the first merge |
| `ApplyMerge`, `ApplyQueue`, `StopBatch` | a transaction per merge, refused ones skipped; the queue's transaction; a dry run or a kill |
| `strays`, `claimed`, `joined`, `skipped` | history: appends that met a tombstone; pairs that scored, pairs put together, pairs skipped by this run |

A surface is a name up to case and white space. Jaro-Winkler is a parameter given
by the band it falls in, since both scorers only compare it with cut-points; the
Bayes weights are the code's, in tenths of a bit. `NameMatchingAssumption` says
that the band of two names does not depend on which comes first; the code's `jaro`
was enumerated on pairs of short strings and is symmetric on all of them. MinHash may bring any pair
beyond those that share a token, so blocking is a choice above a lower bound.

### EntityReads

| TLA+ | code |
|---|---|
| `mentions`, `claims` | `brain.mentions` by primary key; `brain.claims`, each with one source |
| `SplitEntity`, `SplitMention`, `SplitClaims` | the service calls of those names, each one transaction |
| `Rebound`, `Repointed` | insert-then-delete of mentions; the two claim updates |
| `Walk`, `Onward`, `Members` | the recursive query of `brain.relationships_to` |
| `ShownCount`, `GateCount`, `LowImpact` | `_mention_counts`, `LOW_IMPACT_MERGE_SQL` |
| `Degree` | `_SPLIT_CANDIDATES_SQL` |

The reads are operators on the state; properties compare them with definitions
over clusters that know nothing of stored ids. The walk carries confidences in
thousandths, rounded down after each edge, as does its reference.

### Images

| TLA+ | code |
|---|---|
| `store`, `blob`, `links` | objects by key; `brain.blobs` and `brain.attachments` by key |
| `request` | a `capture_image` under way, with what is wrong with it (`defect`) |
| `CaptureImageApi`, `CaptureImageTool`, `AppPut` | the three doors; the app's own upload is external |
| `PrepareBlob` ... `Put`, `Commit`, `Crash` | the steps of `capture_image` in order, each with its refusals |
| `ListKeys`, `ReadRows` | the two reads of `orphan_blob_keys` |

### SchemaLedger

| TLA+ | code |
|---|---|
| `image`, `done` | the build deployed; the init files whose SQL this volume got |
| `ledger`, `untold` | ids in `schema_migrations`; history: those stamped without their SQL |
| `RunInitFile`, `InitDies` | docker's entrypoint on a fresh volume (external) |
| `Baseline`, `StartMigrate`, `ApplyEntry`, `MigrateDies` | `brain_ledger`: the decision once, then a transaction per entry |
| `Boot`, `Stop`, `Deploy` | `assert_schema_up_to_date`; a process ends; a newer or older image |

### Listings

| TLA+ | code |
|---|---|
| `rows`, `events` | experiences by `captured_at`, which is the start of their transaction; `correction_events` |
| `scroll` | the Load-more link: offset, count, `cont` slug |
| `LoadProbed` | the feed and the activity log, which ask for one row too many |
| `LoadCount`, `LoadMentions` | the mention timeline, a count and then a page |
| `Supersede`, `Delete`, `Toggle`, `Rebind`, `BeginCapture`, `CommitCapture`, `Midnight` | what happens between two pages |
| `seen` | history: what was shown, what was listed throughout, what came and left |

The order of equal timestamps is chosen anew by every query (`Straddling`). Writes
are followed while a list is being read; `Init` is any table a reading may begin on.

## 3. Runs

| run | what it asks | bounds |
|---|---|---|
| `consolidation` | claims written once, given up only at the cap, calls within budget, the queue implements `ExtractionDuty` | 2 rows, batch 1, the code's windows (15, 5, 30 min as 3, 1, 6), calls of up to one unit, one outage, every fault but `ack` |
| `consolidation_live` | every capture settles, with lost acknowledgements and calls as long as the stale window | 2 rows, batch 1, windows 2, 1, 2, one outage, `crash` and `ack` |
| `entity_four` | unmerge takes back its own moves, reopens its verdict; the graph implements `Identity` | 4 entities, 8 repairs, no remerge |
| `reviews` | one effect per verdict, no verdict dropped, one author per retraction | 3 tickets, 2 reviewers, 3 entities, 1 reference, 1 claim, 7 changes |
| `experiences` | lost support is retracted, images are carried | 3 rows, 1 claim, 2 sessions |
| `dedup` | one-hop pointers, no name lost, no bridge merged, no skipped pair forgotten, no verdict overturned, the scorers agree | 3 people among 5 surfaces, 1 reviewer, 1 capture, 1 append, 3 repairs, 1 batch run, queue cap 1 |
| `entity_reads` | the walk answers for clusters, counts and gate agree, degrees count once, splits run back | 3 concepts, 2 experiences, 1 form, 3 claims, 3 rows, 2 hops, floor 0.5, 2 repairs |
| `images` | rows have objects, only late failures strand one, the reconciliation is exact | 2 photos, 2 captures at a time, 3 in all |
| `ledger` | the ledger is a prefix and says what ran, servers have their schema | a spine of 5 with the ledger at 2, 2 servers, 2 commands |
| `listings` | what a reader misses, sees twice or sees headed twice is paid for by rows that moved | 3 standing rows, 2 more transactions, pages of 2 |
| `entity_stale_move`, `experiences_late_claims` | a sentence of the repository the code does not keep | the smallest instance that shows it |

Why the bounds are enough. Rows of the queue meet only in the batch limit and
the single worker, so two rows with a batch of one give every form of waiting;
three attempts pass through both backoffs and the cap; one outage is enough to
lose a notification or a result at any step, and the reclaim that follows is
also reached without one when a call is slow. The liveness instance has no
symmetry, which TLC's liveness check does not support. Chains of compression
need three entities, a tombstone moved twice needs four: merges a->b, b->c,
c->d and every order of unmerging them fit in `entity_four`. Tickets of `Reviews`
meet through the world alone: two may want the same claim or the same reference, a third is whatever comes between, and two reviewers give
every race for one ticket. In `Experiences` a
claim has one source, so claims do not interact and one suffices; three rows
allow two supersedes of the same row and a chain; two sessions are two open
tabs, or an edit against a delete. Symmetry sets are permutations of
constants that the specifications treat alike; the properties checked with
them are invariants and safety properties.

The contested gate, and a plan whose merges refuse one another, need three
entities; the five surfaces hold an abbreviation, a generational suffix and
spellings in different bands. Three claims on three entities make a cycle, so
that a walk has two ways to a node, the longer one better; two hops are enough
for an edge stored on a tombstone in the middle of a path. Mentions of different
forms never meet but in a split of one, which moves those of the form it is given.
Two captures of one photo and one of another meet in every step; a third finds what the first two left. Ledger entries meet in
order only: a build, one two entries older and one in between give every gap.
Three standing rows are two pages (of the activity log, with two events to a
transaction, three), so each write may fall above, between, below or on the edge
of what was read, and on the page to come. In `entity_reads` the floor of 0.5 keeps
the doubtful claim itself (0.5) and the two good ones in a row (0.64) and prunes a
good one after the doubtful (0.4).

`CHECK_DEADLOCK FALSE` is set throughout: with bounded repairs, outages, rows
and identifiers an instance comes to an end, and a household whose captures are
all settled is legitimately idle.

## 4. Findings

Each is a run that ends in a counterexample, quoted with its lines in
`PROJECT.json`.

* `entity_stale_move`: unmerge also reverses moves recorded for an earlier,
  already unmerged merge. Cause: the audit rows are matched by tombstone and
  current pointer only.
* `experiences_late_claims`: a row deleted before its consolidation ends gets
  its claims afterwards, asserted, and nothing ever retracts them.

Other sentences of the repository that the code does not keep, met while
modelling. No run shows them; each is noted at its hazard in `PROJECT.json`.

* `init/05-consolidation.sql:23-25,70`: a reclaim does burn a retry slot; the
  attempt was charged when the row was claimed.
* `entities.py:940-941`: after an unmerge in the middle of a chain, the verdicts
  of other pairs it separates stay `merged`.
* `entities.py:882-883`: a later merge that moved a row again does not always win over
  an earlier one's unmerge. Merge a into b, b into c, c into d and d into f, which
  carries a along, unmerge c, merge f into c and unmerge b: a stands at c again and is
  taken for what the merge of b left there, though nothing is merged twice.
* `views.py:411`: a dead row is editable from a form opened while it lived; the
  post asks for owner and visibility only.
* `reviews.py:587-588`: a verdict lingers as applied when its rollback fails with
  the same outage as its repair.
* `dedup_entities.py:16-17`: held pairs are held out of the merge leg only as
  read before the first merge and only directly; both may be merged into a third.
* `image_captures.py:207-209`: a participant's stale `entity_id` strands an
  object, without any crash.
* `reviews.py:107-110`: a hidden pair may have claims, inherited from an entity
  merged into one side.
* `entities.py:335-339`: a split onto an entity that already has rows in those
  experiences cannot be run back.

## 5. Proofs

The theorems hold for every value of the constants that the modules' named
assumptions allow, and for every depth; TLAPS checks them to the last leaf.

**ConsolidationProofs.** From `ConsolidationAssumption`. `FailedOnlyAtCap` is not
inductive alone: a worker decides on an attempt count it read before, so the
proof carries `SnapshotNotAhead` (the count a worker holds is never above the
row's), which survives a reclaim since the tick only raises the counter; the
invariant is `CapInv`. `ClaimsWrittenOnce` additionally assumes
`"ack" \notin Faults` and nothing on how long a call may take: a row the worker
holds may be reclaimed or given up behind its back but not completed, because
there is one worker and only it completes rows (`JobUnfinished`); `OnceInv` is
then inductive. The assumption on acknowledgements cannot be dropped: with `ack`
a completed row returns to `pending`. Two workers would break `JobUnfinished`;
the deployment runs one. `TriesWithinBudget` counts positions of the buffered
notifications; it is inductive with the types, from two facts about sequences:
a tick's order adds at most one position for each row it charged
(`WaitingAppended`), and taking the head of the buffer takes away the one that
the call is made for (`WaitingTail`).
`QueueImplementsDuty` maps every step to a settling, an abandoning or a stutter of
`ExtractionDuty` (`DutyOf` says where a row stands). It assumes `"ack" \notin Faults`,
as above, and `MaxHandle < StaleAfter`: a call that outlived the stale window could
see its row given up while it writes the claims. `NotOverrun` is what that hypothesis
buys: a row charged beyond what the worker read is in progress and no older than
the call.

**EntityGraphProofs.** `OneHop` with the types is `FlatInv`. It needs two facts
about pointers and the audit log: a merged entity exists (`MergedExist`) and
every recorded move concerns an existing row and a tombstone of its own kind
(`MovesWithinKind`), because unmerge hands rows back on the word of the log. No
bound on repairs or on remerging is used.

The rest assumes `AllowRemerge = FALSE`, because the code's reading of its log is
exact only there (`entity_stale_move`). The invariant is `PathInv`: the history of a
row's pointer is a path from tombstone to tombstone, begun at the one it was judged
against (`JudgedFirst`) and none passed twice (`TombstonesOnce`), every hop of it in
the log (`HopsOnRecord`). A move that is off the path was undone, and the row then
stands at an unmerged survivor and stays there (`UndoneStays`, `FreshOrDetached`).
Tombstones on a path share its pointer and the rest of it (`TravelTogether`). From it: `GraphImplementsIdentity`, that merges and
unmerges are joins and partings of clusters, every step mapped to a step of
`Identity` or a stutter; `UnmergeTakesItsOwn`, that what is handed back is what the
merge being undone moved, except for a row that has come back since (`CameBack`); and `UnmergeReopens`, that the verdict reopened is
the one the row was merged by, for lineages that are acyclic and within
`LineageDepth`, as the property says. The lineage walk is a recursive function. What
it computes is proved by the least counterexample to its length (`LeastNat`, from
the well-foundedness of `<`), not by an induction theorem, which would take an
operator as its parameter.

**ReviewsProofs.** From `ReviewsAssumption`. `OneEffectPerVerdict` holds because a
ticket is in one reviewer's hands at most (`OneHandler`) and what is in
somebody's hands is stamped and has had no effect (`HandsAreStamped`), so that
taking the stamp back never reopens a ticket that had its effect.
`RetractionHasOneAuthor` also needs that a credited claim is a retracted one
(`CreditedAreRetracted`). All of them, with the types, are the inductive `IInv`.

**ExperiencesProofs.** `LostSupportIsRetracted` and `ImagesAreCarried` follow from
`IInv`: only rows that exist have been superseded (`UnwrittenAreHeads`), and
every claim of a delete's target is among those it chose or is retracted
already (`DeletionsCoverTheirTargets`), which holds through the gap between the
delete's two steps because the row lock keeps new claims out.

**EntityServicesProofs: the batch.** From the assumptions of `EntityGraph`, `Aliases` and `DedupBatch`,
with or without `AllowRemerge` unless said otherwise. `OneHop` carries over because every step beside
the queue's is a step of `EntityGraph`. The gate: `GateInv` says that a gated run
has only uncontested merges left to do and that what it has joined is a set of
pairs that scored. A contested entity is one with two partners that did not score as a
pair; what is merged into an uncontested one is a partner of it, so whatever a
further merge brings together are partners of one entity, hence a pair that
scored (`MergeKeepsGate`). `KeptSeparateIsFinal`
needs that candidate rows and queued pairs name entities that exist, since a
created entity starts with a clean row. `ScorersMergeAlike` is a theorem about the
operators alone: for any names, folding and bands. `SurvivorsAnswerToEveryName`
is proved for `AllowRemerge = FALSE`. It needs what an unmerge relies on when it
hands a row back to the tombstone it was moved past: that tombstone answered to
the row's names then (`MovesCarriedNames`), and names are never taken away
(`Growth`). A row that is unmerged and merged a second time breaks the former: an
old move then names a tombstone that never took what the row came to be called
while it was live. It is the same old move that `entity_stale_move` shows.
`SkippedIsRediscovered`, under the same restriction, goes through the names a pair
was scored on: whoever its sides are now, and whoever an unmerge may hand them back
to, carries them (`Carries`, `CarriesStays`), and more names never lower a score
below the bar it cleared (`MoreNamesStillCall`) nor part what shared a token
(`MoreNamesStillBlock`). A merge may swap which side is scored first, hence the
assumption that Jaro-Winkler is symmetric.

**EntityServicesProofs: the reads.** From the assumptions of `EntityGraph` and `EntityReads`.
Beneath the rows every step is a step of the graph, a split's new target being a
`Create` (`ReadsMoveTheGraph`), so `FlatInv` carries over; with the types of the
rows and the fact that claims name rows that exist (`EndpointsExist`) it is `RInv`.
`DegreeCountsClaimsOnce` is then an equality of two sets of claims, and
`SplitsRunBack` rests on two lemmas about the operators alone, for any rows
(`MentionsRunBack`, `ClaimsRunBack`), and on the sources of splits being live.
`GateAgreesWithCounts` is an equality of the two counts on live entities, each a
cardinality of the mentions of one cluster. `WalkIsOverClusters` compares two
recursive functions, the walk over stored rows and the relaxation over clusters,
whatever their depth: after n rounds the two match (`Matched`), which goes through
rounds by the least n that would break it. A round of the walk finds every edge of
the clusters, because one level of members reaches every stored endpoint when the
graph is flat (`OnwardRows`, `JoinsAreEdges`), and what its visited guard leaves out
or its floor prunes is never better than what is kept, since confidences only fall
along a path (`Weakening`).

**ImagesProofs.** From `ImagesAssumption`. `RowsHaveObjects` needs `Backed`: a
capture that is past the put, or that came with a key and is past its lookup,
has an object in the bucket, which stays there because nothing deletes objects
(`StoreGrows`); only then can the transaction not write a row without one.
`OnlyLateFailuresStrand` follows step by step: the put makes a key the capture's
own to explain, and whoever leaves the last stage leaves a row or a cause
(`ExplainedByLeaving`). `ReconciliationIsExact` needs that the list taken first
contains every stranded key and only stored ones (`ListIsSound`), so the order
of the two queries, store first and rows second, is what carries it.

**SchemaLedgerProofs.** From `LedgerAssumption`, for a spine of any length. The
invariant adds two facts to the types and the three properties: what a running
migrate has left is the end of its build's spine, with all below it stamped by
then (`TailsOnly`), because it stamps in order and a ledger never shrinks, so a
second migrate of another build beside it never leaves a gap; and until
docker's initialisation is over only init/14's seed is in the ledger and no
command runs (`SeedOnly`).

**ListingsProofs.** From `ListingsAssumption`. A list is a set of items, the place of
an item the number of items above it. Places are distinct and without gaps
(`PlacesDiffer`, `PlacesAreFilled`, by cardinalities of bijections), so a page that
begins at the offset holds the next places, as many as it has rows (`SliceIsFilled`),
and one row more in the probe tells whether any is left (`ProbeTells`). The invariant
is an account of the offset. Rows passed over, which lie above it unseen, are no more
than the rows that left (`SkippedAreRemovals`); rows that will come again, which lie
below it and were shown, are with the repeats so far no more than the rows that came
(`AgainAreArrivals`); a transaction of which nothing was shown lies below it
altogether (`UnseenAreBelow`). A write moves each account by what came or left
(`SkippedGrows`, `AgainGrows`), a page moves nothing but from one side to the other.
For the headers, the last row of a page holds the offset up to one arrival, so the
next page begins no later than that row, and buckets only grow older
(`PagesGoBack`, `BucketsGrowOld`).

Only model-checked: `Settles`, because liveness under fairness is beyond the prover.

## 6. Not modelled

* OAuth, enrolment, accounts: access control over tables and code of
  django-oauth-toolkit. The models take the caller's authority as given.
* Hybrid search, geo queries, detail pages: one read-only statement each; what
  they rank by is data here.
* The claim writer's binding index and the ranking inside `brain.resolve_entity`:
  which entity a name binds to is a choice, among those that resemble it.
* Salience and the summary cache: numbers and views recomputed from scratch.
* Prompts, parsing and model calls: outcomes are choices of the models that make
  them.
* A commit of `Reviews` whose acknowledgement is lost, a lost acknowledgement in
  `ClaimsWrittenOnce`: the properties do not hold under them, as the hazards say.
* MCP adapters, serialisation, HTML, compose files and backup scripts.
