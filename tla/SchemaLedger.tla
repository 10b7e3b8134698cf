----------------------------- MODULE SchemaLedger -----------------------------
(***************************************************************************)
(* The schema ledger brain.schema_migrations and the boot gate             *)
(* (web/openbrain/mcp/boot.py, ledger.py, init/14-schema-migrations.sql).  *)
(*                                                                         *)
(* Each build carries a manifest, the first entries of an append-only      *)
(* spine of init files.  A fresh volume gets every file from docker's      *)
(* entrypoint, and one of them, init/14, stamps the whole manifest; an     *)
(* older volume is stamped by hand (baseline) and brought up to date by    *)
(* migrate.  The MCP server and the consolidation worker serve only when   *)
(* the ledger equals their build's manifest at the moment they boot.       *)
(*                                                                         *)
(* Several migrates may run at once: each reads the ledger once and then   *)
(* commits entry by entry.                                                 *)
(***************************************************************************)
EXTENDS Naturals

CONSTANTS
  Top,         \* entries in the newest build's spine
  LedgerFile,  \* the entry that creates and stamps the ledger (14)
  Servers,     \* processes behind the gate
  Operators,   \* brain_ledger commands run at one time
  None

ASSUME LedgerAssumption ==
  /\ Top \in Nat /\ LedgerFile \in 1..Top
  /\ None \notin 1..Top /\ \A S \in SUBSET (1..Top) : S # None

Entries == 1..Top
Builds == LedgerFile..Top

\* The SPINE of the build whose newest entry is b.
Manifest(b) == 1..b

Migration == [build : Builds, left : (SUBSET Entries) \ {{}}]

VARIABLES
  image,      \* the build new containers and commands run
  done,       \* init files whose SQL this volume got
  ledger,     \* ids stamped in brain.schema_migrations, None without the table
  ready,      \* docker's first initialisation of the volume is over
  server,     \* the build each process serves with, None when down
  migration,  \* each migrate under way: its build and the entries left
  untold      \* history: entries stamped before, or without, their SQL

vars == <<image, done, ledger, ready, server, migration, untold>>

\* The types of the volume, the processes and the commands.
TypeOK ==
  /\ image \in Builds
  /\ done \subseteq Entries
  /\ ledger \in {None} \cup SUBSET Entries
  /\ ready \in BOOLEAN
  /\ server \in [Servers -> Builds \cup {None}]
  /\ migration \in [Operators -> Migration \cup {None}]
  /\ untold \subseteq Entries

\* A new volume, or one from before there was a ledger.
Init ==
  /\ image \in Builds
  /\ \/ done = {} /\ ready = FALSE
     \/ (\E b \in 1..(LedgerFile - 1) : done = Manifest(b)) /\ ready = TRUE
  /\ ledger = None
  /\ server = [s \in Servers |-> None]
  /\ migration = [o \in Operators |-> None]
  /\ untold = {}

Stamped == IF ledger = None THEN {} ELSE ledger

-----------------------------------------------------------------------------
(***************************************************************************)
(* compute_migration_status.                                               *)
(***************************************************************************)
Pending(manifest, applied) == manifest \ applied
Extra(manifest, applied) == applied \ manifest

\* Entries missing below one that was applied.
OutOfOrder(manifest, applied) ==
  {m \in Pending(manifest, applied) : \E n \in applied \cap manifest : m < n}

\* Mutant: only a gap below the newest entry is drift.
InSyncWhenOrdered(manifest, applied) ==
  Extra(manifest, applied) = {} /\ OutOfOrder(manifest, applied) = {}

InSync(manifest, applied) ==
  Pending(manifest, applied) = {} /\ Extra(manifest, applied) = {}

-----------------------------------------------------------------------------
(***************************************************************************)
(* docker-entrypoint-initdb.d on a fresh volume.                           *)
(***************************************************************************)
\* init/14 stamps its whole literal list, files that have not run yet included.
SeedList(f) == IF f = LedgerFile THEN Manifest(image) ELSE {}

RunInitFile(f) ==
  /\ ~ready
  /\ f \in Manifest(image) \ done /\ Manifest(f - 1) \subseteq done
  /\ done' = done \cup {f}
  /\ ledger' = IF SeedList(f) = {} THEN ledger ELSE Stamped \cup SeedList(f)
  /\ ready' = (f = image)
  /\ UNCHANGED <<image, server, migration, untold>>

\* A file fails or the container dies; at its restart the volume is not empty any
\* more and the remaining files are never run.
InitDies ==
  /\ ~ready /\ done # {}
  /\ ready' = TRUE
  /\ untold' = untold \cup (Stamped \ done)
  /\ UNCHANGED <<image, done, ledger, server, migration>>

\* A newer image is built, or an older one brought back.
Deploy(b) ==
  /\ ready /\ image' = b
  /\ UNCHANGED <<done, ledger, ready, server, migration, untold>>

-----------------------------------------------------------------------------
(***************************************************************************)
(* The gate.                                                               *)
(***************************************************************************)
Boot(s) ==
  /\ ready /\ server[s] = None
  /\ ledger # None /\ InSync(Manifest(image), ledger)
  /\ server' = [server EXCEPT ![s] = image]
  /\ UNCHANGED <<image, done, ledger, ready, migration, untold>>

Stop(s) ==
  /\ server[s] # None
  /\ server' = [server EXCEPT ![s] = None]
  /\ UNCHANGED <<image, done, ledger, ready, migration, untold>>

-----------------------------------------------------------------------------
(***************************************************************************)
(* brain_ledger.                                                           *)
(***************************************************************************)
\* The whole manifest is stamped, the ledger created if need be; no SQL is run.
Baseline ==
  /\ ready
  /\ done' = done \cup {LedgerFile}
  /\ ledger' = Stamped \cup Manifest(image)
  /\ untold' = untold \cup (ledger' \ done')
  /\ UNCHANGED <<image, ready, server, migration>>

Refuses(manifest, applied) ==
  Extra(manifest, applied) # {} \/ OutOfOrder(manifest, applied) # {}

\* What is pending is decided once, with no lock.
StartMigrate(o) ==
  /\ ready /\ migration[o] = None /\ ledger # None
  /\ ~Refuses(Manifest(image), ledger)
  /\ Pending(Manifest(image), ledger) # {}
  /\ migration' = [migration EXCEPT ![o] =
                     [build |-> image, left |-> Pending(Manifest(image), ledger)]]
  /\ UNCHANGED <<image, done, ledger, ready, server, untold>>

\* Mutants: entries in whatever order the set has them; the stamp commits apart; a
\* migrate with nothing left goes on.
AnyOf(left) == left
NextOf(left) == {m \in left : \A n \in left : m <= n}
RunsNothing(m) == done
Runs(m) == done \cup {m}

RestKept(o, m) == [migration[o] EXCEPT !.left = @ \ {m}]
Rest(o, m) == IF migration[o].left = {m} THEN None ELSE [migration[o] EXCEPT !.left = @ \ {m}]

\* The file's SQL and its stamp, in one transaction; an entry stamped meanwhile by
\* another migrate is run again (on conflict do nothing).
ApplyEntry(o) ==
  /\ migration[o] # None
  /\ \E m \in NextOf(migration[o].left) :
       /\ done' = Runs(m)
       /\ ledger' = Stamped \cup {m}
       /\ migration' = [migration EXCEPT ![o] = Rest(o, m)]
  /\ UNCHANGED <<image, ready, server, untold>>

\* A file raises or the command is killed; the transaction leaves nothing.
MigrateDies(o) ==
  /\ migration[o] # None
  /\ migration' = [migration EXCEPT ![o] = None]
  /\ UNCHANGED <<image, done, ledger, ready, server, untold>>

Next ==
  \/ \E f \in Entries : RunInitFile(f)
  \/ InitDies \/ Baseline
  \/ \E b \in Builds : Deploy(b)
  \/ \E s \in Servers : Boot(s) \/ Stop(s)
  \/ \E o \in Operators : StartMigrate(o) \/ ApplyEntry(o) \/ MigrateDies(o)

Spec == Init /\ [][Next]_vars

-----------------------------------------------------------------------------
(***************************************************************************)
(* Properties.                                                             *)
(***************************************************************************)
\* The ledger is always the beginning of the spine, so that it is never "out of
\* order": however many migrates of however many builds race, die halfway or meet a
\* baseline, and wherever docker's initialisation stopped.
LedgerIsPrefix == Stamped = {} \/ \E b \in Entries : Stamped = Manifest(b)

\* The gate (#91/#115): whoever serves has the schema its code was written against,
\* for as long as it serves, whatever is deployed, rolled back and migrated beside
\* it; short of it only what was stamped without being run.
ServersHaveTheirSchema ==
  \A s \in Servers : server[s] # None => Manifest(server[s]) \subseteq done \cup untold

\* One transaction per entry: migrate itself never stamps what it has not run, so
\* the ledger is wrong only about what baseline and init/14 stamped.
LedgerTellsWhatRan == ready => Stamped \subseteq done \cup untold
=============================================================================
