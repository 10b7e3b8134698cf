-------------------------- MODULE SchemaLedgerProofs --------------------------
(***************************************************************************)
(* Proofs about SchemaLedger, for a spine of any length, any number of     *)
(* servers and any number of commands at one time.                         *)
(***************************************************************************)
EXTENDS SchemaLedger, TLAPS

\* What a migrate has left is the end of its build's spine, from the first entry on
\* that its ledger lacked or it has yet to reach; the entries below are stamped.
Remainder(m) ==
  \E k \in 0..Top : m.left = {n \in Manifest(m.build) : n > k} /\ Manifest(k) \subseteq Stamped

TailsOnly == \A o \in Operators : migration[o] # None => Remainder(migration[o])

\* During docker's initialisation the seed is all there is in the ledger, and no
\* command runs.
SeedOnly ==
  ~ready => /\ Stamped \in {{}, Manifest(image)}
            /\ \A o \in Operators : migration[o] = None

LInv ==
  /\ TypeOK /\ LedgerIsPrefix /\ LedgerTellsWhatRan /\ ServersHaveTheirSchema
  /\ TailsOnly /\ SeedOnly

LEMMA StampedTyped == TypeOK => Stamped \subseteq Entries
BY LedgerAssumption DEF LedgerAssumption, TypeOK, Stamped, Entries

LEMMA ManifestsTyped == ASSUME NEW b \in 0..Top PROVE Manifest(b) \subseteq Entries
BY LedgerAssumption DEF LedgerAssumption, Manifest, Entries

LEMMA BuildsAreEntries == Builds \subseteq Entries /\ \A b \in Builds : b \in 1..Top
BY LedgerAssumption DEF LedgerAssumption, Builds, Entries

LEMMA SeedsTyped == ASSUME TypeOK, NEW f PROVE SeedList(f) \subseteq Entries
BY BuildsAreEntries, ManifestsTyped DEF SeedList, TypeOK

LEMMA LInit == Init => LInv
<1> SUFFICES ASSUME Init PROVE LInv
  OBVIOUS
<1> USE LedgerAssumption DEF LedgerAssumption
<1>1. done \subseteq Entries
  <2>1. \A b \in 1..(LedgerFile - 1) : Manifest(b) \subseteq Entries
    BY DEF Manifest, Entries
  <2> QED
    BY <2>1 DEF Init
<1>2. TypeOK
  BY <1>1 DEF Init, TypeOK
<1>3. Stamped = {}
  BY DEF Init, Stamped
<1> QED
  BY <1>2, <1>3 DEF Init, LInv, LedgerIsPrefix, LedgerTellsWhatRan, ServersHaveTheirSchema,
                   TailsOnly, SeedOnly

LEMMA TypeStep == ASSUME LInv, [Next]_vars PROVE TypeOK'
<1> USE LedgerAssumption DEF LedgerAssumption, LInv, TypeOK
<1>0. Stamped \subseteq Entries
  BY StampedTyped
<1>1. ASSUME NEW f \in Entries, RunInitFile(f) PROVE TypeOK'
  <2>1. SeedList(f) \subseteq Entries
    BY SeedsTyped
  <2> QED
    BY <1>0, <1>1, <2>1 DEF RunInitFile
<1>2. CASE InitDies
  BY <1>0, <1>2 DEF InitDies
<1>3. CASE Baseline
  <2>1. Manifest(image) \subseteq Entries
    BY BuildsAreEntries, ManifestsTyped
  <2>2. LedgerFile \in Entries
    BY DEF Entries
  <2> QED
    BY <1>0, <1>3, <2>1, <2>2 DEF Baseline
<1>4. ASSUME NEW b \in Builds, Deploy(b) PROVE TypeOK'
  BY <1>4 DEF Deploy
<1>5. ASSUME NEW s \in Servers, Boot(s) \/ Stop(s) PROVE TypeOK'
  BY <1>5 DEF Boot, Stop
<1>6. ASSUME NEW o \in Operators, StartMigrate(o) PROVE TypeOK'
  <2>1. Pending(Manifest(image), ledger) \subseteq Entries
    BY BuildsAreEntries, ManifestsTyped DEF Pending
  <2>2. [build |-> image, left |-> Pending(Manifest(image), ledger)] \in Migration
    BY <1>6, <2>1 DEF StartMigrate, Migration
  <2> QED
    BY <1>6, <2>2 DEF StartMigrate
<1>7. ASSUME NEW o \in Operators, ApplyEntry(o) PROVE TypeOK'
  <2>1. migration[o] \in Migration
    BY <1>7 DEF ApplyEntry
  <2>2. PICK m \in NextOf(migration[o].left) :
          /\ done' = Runs(m) /\ ledger' = Stamped \cup {m}
          /\ migration' = [migration EXCEPT ![o] = Rest(o, m)]
    BY <1>7 DEF ApplyEntry
  <2>3. m \in migration[o].left /\ m \in Entries
    BY <2>1, <2>2 DEF NextOf, Migration
  <2>4. Rest(o, m) \in Migration \cup {None}
    BY <2>1, <2>3 DEF Rest, Migration
  <2> QED
    BY <1>0, <1>7, <2>2, <2>3, <2>4 DEF ApplyEntry, Runs
<1>8. ASSUME NEW o \in Operators, MigrateDies(o) PROVE TypeOK'
  BY <1>8 DEF MigrateDies
<1>9. CASE UNCHANGED vars
  BY <1>9 DEF vars
<1> QED
  BY <1>1, <1>2, <1>3, <1>4, <1>5, <1>6, <1>7, <1>8, <1>9 DEF Next

\* No step takes an entry from the ledger, from the volume or from the exceptions.
Grows == Stamped \subseteq Stamped' /\ done \subseteq done' /\ untold \subseteq untold'

LEMMA LedgerGrows == ASSUME TypeOK, [Next]_vars PROVE Grows
<1> USE LedgerAssumption DEF LedgerAssumption, TypeOK, Stamped, Entries, Grows
<1>1. ASSUME NEW f \in Entries, RunInitFile(f) PROVE Grows
  <2>1. SeedList(f) \subseteq 1..Top
    BY SeedsTyped
  <2>2. ledger' = ledger \/ (ledger' \in SUBSET (1..Top) /\ Stamped \subseteq ledger')
    BY <1>1, <2>1 DEF RunInitFile
  <2> QED
    BY <1>1, <2>2 DEF RunInitFile
<1>2. CASE InitDies
  BY <1>2 DEF InitDies
<1>3. CASE Baseline
  <2>1. Manifest(image) \subseteq 1..Top
    BY BuildsAreEntries, ManifestsTyped
  <2>2. ledger' \in SUBSET (1..Top) /\ Stamped \subseteq ledger'
    BY <1>3, <2>1 DEF Baseline
  <2> QED
    BY <1>3, <2>2 DEF Baseline
<1>4. ASSUME NEW b \in Builds, Deploy(b) PROVE Grows
  BY <1>4 DEF Deploy
<1>5. ASSUME NEW s \in Servers, Boot(s) \/ Stop(s) PROVE Grows
  BY <1>5 DEF Boot, Stop
<1>6. ASSUME NEW o \in Operators, StartMigrate(o) \/ MigrateDies(o) PROVE Grows
  BY <1>6 DEF StartMigrate, MigrateDies
<1>7. ASSUME NEW o \in Operators, ApplyEntry(o) PROVE Grows
  <2>1. PICK m \in NextOf(migration[o].left) :
          done' = Runs(m) /\ ledger' = Stamped \cup {m}
    BY <1>7 DEF ApplyEntry
  <2>2. m \in 1..Top
    BY <1>7, <2>1 DEF ApplyEntry, NextOf, Migration
  <2>3. ledger' \in SUBSET (1..Top) /\ Stamped \subseteq ledger'
    BY <2>1, <2>2
  <2> QED
    BY <1>7, <2>1, <2>3 DEF ApplyEntry, Runs
<1>8. CASE UNCHANGED vars
  BY <1>8 DEF vars
<1> QED
  BY <1>1, <1>2, <1>3, <1>4, <1>5, <1>6, <1>7, <1>8 DEF Next

-----------------------------------------------------------------------------
(***************************************************************************)
(* The ledger as a prefix, and what a migrate has left as the rest.        *)
(***************************************************************************)
LEMMA PrefixesJoin ==
  ASSUME NEW a \in 1..Top, NEW b \in 1..Top
  PROVE  \E c \in Entries : Manifest(a) \cup Manifest(b) = Manifest(c)
<1> USE LedgerAssumption DEF LedgerAssumption, Manifest, Entries
<1>1. CASE a <= b
  <2>1. Manifest(a) \cup Manifest(b) = Manifest(b)
    BY <1>1
  <2> QED
    BY <2>1
<1>2. CASE b <= a
  <2>1. Manifest(a) \cup Manifest(b) = Manifest(a)
    BY <1>2
  <2> QED
    BY <2>1
<1> QED
  BY <1>1, <1>2

\* A migrate applies the first entry of its tail, which is the next one up.
LEMMA NextIsLowest ==
  ASSUME LInv, NEW o \in Operators, migration[o] # None, NEW m \in NextOf(migration[o].left)
  PROVE  \E k \in 0..Top :
           /\ m = k + 1 /\ m \in Entries
           /\ migration[o].left = {n \in Manifest(migration[o].build) : n > k}
           /\ Manifest(k) \subseteq Stamped
<1>1. migration[o] \in Migration
  BY DEF LInv, TypeOK
<1>2. migration[o].build \in 1..Top /\ migration[o].left \subseteq 1..Top
  BY <1>1, BuildsAreEntries DEF Migration, Entries
<1>3. PICK k \in 0..Top :
        /\ migration[o].left = {n \in Manifest(migration[o].build) : n > k}
        /\ Manifest(k) \subseteq Stamped
  BY DEF LInv, TailsOnly, Remainder
<1>4. m \in migration[o].left /\ \A n \in migration[o].left : m <= n
  BY DEF NextOf
<1>5. m \in Manifest(migration[o].build) /\ m > k /\ m \in 1..Top
  BY <1>2, <1>3, <1>4
<1>6. k + 1 \in migration[o].left
  BY <1>2, <1>3, <1>5, LedgerAssumption DEF Manifest, LedgerAssumption
<1>7. m = k + 1
  BY <1>4, <1>5, <1>6, LedgerAssumption DEF LedgerAssumption
<1> QED
  BY <1>3, <1>5, <1>7 DEF Entries

LEMMA OneMoreIsPrefix ==
  ASSUME LInv, NEW k \in 0..Top, Manifest(k) \subseteq Stamped, k + 1 \in Entries
  PROVE  \E b \in Entries : Stamped \cup {k + 1} = Manifest(b)
<1> USE LedgerAssumption DEF LedgerAssumption, Entries
<1>1. CASE Stamped = {}
  <2>1. k = 0
    <3>1. k # 0 => 1 \in Manifest(k)
      BY DEF Manifest
    <3> QED
      BY <1>1, <3>1
  <2>2. Stamped \cup {k + 1} = Manifest(1)
    BY <1>1, <2>1 DEF Manifest
  <2> QED
    BY <2>1, <2>2
<1>2. ASSUME NEW b \in Entries, Stamped = Manifest(b)
      PROVE  \E c \in Entries : Stamped \cup {k + 1} = Manifest(c)
  <2>1. k <= b
    <3>1. k # 0 => k \in Manifest(k)
      BY DEF Manifest
    <3> QED
      BY <1>2, <3>1 DEF Manifest
  <2>2. CASE k = b
    <3>1. Stamped \cup {k + 1} = Manifest(k + 1)
      BY <1>2, <2>2 DEF Manifest
    <3> QED
      BY <3>1
  <2>3. CASE k < b
    <3>1. Stamped \cup {k + 1} = Manifest(b)
      BY <1>2, <2>3 DEF Manifest
    <3> QED
      BY <3>1
  <2> QED
    BY <2>1, <2>2, <2>3
<1> QED
  BY <1>1, <1>2 DEF LInv, LedgerIsPrefix

LEMMA PrefixStep == ASSUME LInv, [Next]_vars PROVE LedgerIsPrefix'
<1> USE DEF LInv
<1>0. TypeOK' /\ image \in 1..Top
  BY TypeStep, BuildsAreEntries DEF TypeOK
<1>a. ASSUME NEW S, S \subseteq Entries, ledger' = S PROVE Stamped' = S
  BY <1>a, LedgerAssumption DEF Stamped, LedgerAssumption, Entries
<1>b. ASSUME UNCHANGED ledger PROVE LedgerIsPrefix'
  BY <1>b DEF LedgerIsPrefix, Stamped
<1>1. ASSUME NEW f \in Entries, RunInitFile(f) PROVE LedgerIsPrefix'
  <2>1. CASE SeedList(f) = {}
    BY <1>1, <1>b, <2>1 DEF RunInitFile
  <2>2. CASE SeedList(f) # {}
    <3>1. SeedList(f) = Manifest(image) /\ Manifest(image) \subseteq Entries
      BY <1>0, <2>2, ManifestsTyped DEF SeedList
    <3>2. ledger' = Manifest(image)
      BY <1>1, <2>2, <3>1 DEF RunInitFile, SeedOnly
    <3>3. Stamped' = Manifest(image)
      BY <1>a, <3>1, <3>2
    <3> QED
      BY <1>0, <3>3 DEF LedgerIsPrefix, Entries
  <2> QED
    BY <2>1, <2>2
<1>2. CASE Baseline
  <2>1. \E c \in Entries : Stamped \cup Manifest(image) = Manifest(c)
    <3>1. CASE Stamped = {}
      BY <1>0, <3>1 DEF Entries
    <3>2. ASSUME NEW b \in 1..Top, Stamped = Manifest(b)
          PROVE  \E c \in Entries : Stamped \cup Manifest(image) = Manifest(c)
      BY <1>0, <3>2, PrefixesJoin
    <3> QED
      BY <3>1, <3>2 DEF LedgerIsPrefix, Entries
  <2>2. PICK c \in Entries : ledger' = Manifest(c)
    BY <1>2, <2>1 DEF Baseline
  <2>3. Manifest(c) \subseteq Entries
    BY ManifestsTyped DEF Entries
  <2>4. Stamped' = Manifest(c)
    BY <1>a, <2>2, <2>3
  <2> QED
    BY <2>4 DEF LedgerIsPrefix
<1>3. ASSUME NEW o \in Operators, ApplyEntry(o) PROVE LedgerIsPrefix'
  <2>1. PICK m \in NextOf(migration[o].left) : ledger' = Stamped \cup {m}
    BY <1>3 DEF ApplyEntry
  <2>2. PICK k \in 0..Top : m = k + 1 /\ m \in Entries /\ Manifest(k) \subseteq Stamped
    BY <1>3, NextIsLowest DEF ApplyEntry
  <2>3. PICK b \in Entries : Stamped \cup {m} = Manifest(b)
    BY <2>2, OneMoreIsPrefix
  <2>4. Manifest(b) \subseteq Entries
    BY ManifestsTyped DEF Entries
  <2>5. Stamped' = Manifest(b)
    BY <1>a, <2>1, <2>3, <2>4
  <2> QED
    BY <2>5 DEF LedgerIsPrefix
<1>4. CASE InitDies
  BY <1>4, <1>b DEF InitDies
<1>5. ASSUME NEW b \in Builds, Deploy(b) PROVE LedgerIsPrefix'
  BY <1>5, <1>b DEF Deploy
<1>6. ASSUME NEW s \in Servers, Boot(s) \/ Stop(s) PROVE LedgerIsPrefix'
  BY <1>6, <1>b DEF Boot, Stop
<1>7. ASSUME NEW o \in Operators, StartMigrate(o) \/ MigrateDies(o) PROVE LedgerIsPrefix'
  BY <1>7, <1>b DEF StartMigrate, MigrateDies
<1>8. CASE UNCHANGED vars
  BY <1>8, <1>b DEF vars
<1> QED
  BY <1>1, <1>2, <1>3, <1>4, <1>5, <1>6, <1>7, <1>8 DEF Next

\* Tails of others are unharmed by a ledger that only grows.
LEMMA TailsKeep ==
  ASSUME LInv, [Next]_vars, NEW o \in Operators, migration[o] # None,
         migration'[o] = migration[o]
  PROVE  Remainder(migration[o])'
BY LedgerGrows DEF LInv, TailsOnly, Remainder, Grows

LEMMA TailsStep == ASSUME LInv, [Next]_vars PROVE TailsOnly'
<1> SUFFICES ASSUME NEW o \in Operators, migration'[o] # None PROVE Remainder(migration[o])'
  BY DEF TailsOnly
<1>0. TypeOK /\ image \in 1..Top
  BY BuildsAreEntries DEF LInv, TypeOK
<1>1. CASE migration'[o] = migration[o]
  BY <1>1, TailsKeep
<1>2. CASE StartMigrate(o)
  <2>1. migration'[o] = [build |-> image, left |-> Manifest(image) \ ledger]
    BY <1>0, <1>2 DEF StartMigrate, Pending, TypeOK
  <2>2. Stamped = ledger /\ Stamped' = Stamped
    BY <1>2 DEF StartMigrate, Stamped
  <2>3. \E k \in 0..Top : Stamped = Manifest(k)
    <3>1. Manifest(0) = {}
      BY DEF Manifest
    <3>2. 0 \in 0..Top /\ \A b \in Entries : b \in 0..Top
      BY LedgerAssumption DEF LedgerAssumption, Entries
    <3> QED
      BY <3>1, <3>2 DEF LInv, LedgerIsPrefix
  <2>4. PICK k \in 0..Top : Stamped = Manifest(k)
    BY <2>3
  <2>5. Manifest(image) \ Manifest(k) = {n \in Manifest(image) : n > k}
    BY <1>0 DEF Manifest
  <2> QED
    BY <2>1, <2>2, <2>4, <2>5 DEF Remainder
<1>3. CASE ApplyEntry(o)
  <2>1. migration[o] \in Migration /\ migration[o] # None
    BY <1>0, <1>3 DEF ApplyEntry, TypeOK
  <2>2. PICK m \in NextOf(migration[o].left) :
          ledger' = Stamped \cup {m} /\ migration'[o] = Rest(o, m)
    BY <1>0, <1>3 DEF ApplyEntry, TypeOK
  <2>3. PICK k \in 0..Top :
          /\ m = k + 1 /\ m \in Entries
          /\ migration[o].left = {n \in Manifest(migration[o].build) : n > k}
          /\ Manifest(k) \subseteq Stamped
    BY <2>1, NextIsLowest
  <2>4. migration'[o] = [migration[o] EXCEPT !.left = @ \ {m}]
    BY <2>2 DEF Rest
  <2>5. migration'[o].build = migration[o].build /\ migration'[o].left = migration[o].left \ {m}
    BY <2>1, <2>4 DEF Migration
  <2>6. migration[o].build \in 1..Top
    BY <2>1, BuildsAreEntries DEF Migration
  <2>7. migration'[o].left = {n \in Manifest(migration'[o].build) : n > m}
    BY <2>3, <2>5, <2>6 DEF Manifest
  <2>8. Stamped \cup {m} \subseteq Entries /\ Stamped' = Stamped \cup {m}
    BY <1>0, <2>2, <2>3, StampedTyped, LedgerAssumption DEF LedgerAssumption, Stamped, Entries
  <2>9. Manifest(m) \subseteq Stamped' /\ m \in 0..Top
    BY <2>3, <2>8 DEF Manifest, Entries
  <2> QED
    BY <2>7, <2>9 DEF Remainder
<1>4. migration'[o] = migration[o] \/ StartMigrate(o) \/ ApplyEntry(o)
  <2>1. ASSUME NEW q \in Operators, StartMigrate(q) \/ ApplyEntry(q) \/ MigrateDies(q), q # o
        PROVE  migration'[o] = migration[o]
    BY <1>0, <2>1 DEF StartMigrate, ApplyEntry, MigrateDies, TypeOK
  <2>2. ASSUME MigrateDies(o) PROVE FALSE
    BY <1>0, <2>2 DEF MigrateDies, TypeOK
  <2>3. ASSUME NEW f \in Entries, RunInitFile(f) PROVE migration'[o] = migration[o]
    BY <2>3 DEF RunInitFile
  <2>4. CASE InitDies \/ Baseline \/ UNCHANGED vars
    BY <2>4 DEF InitDies, Baseline, vars
  <2>5. ASSUME NEW b \in Builds, Deploy(b) PROVE migration'[o] = migration[o]
    BY <2>5 DEF Deploy
  <2>6. ASSUME NEW s \in Servers, Boot(s) \/ Stop(s) PROVE migration'[o] = migration[o]
    BY <2>6 DEF Boot, Stop
  <2> QED
    BY <2>1, <2>2, <2>3, <2>4, <2>5, <2>6 DEF Next
<1> QED
  BY <1>1, <1>2, <1>3, <1>4

-----------------------------------------------------------------------------
(***************************************************************************)
(* What ran and who serves.                                                *)
(***************************************************************************)
LEMMA SeedStep == ASSUME LInv, [Next]_vars PROVE SeedOnly'
<1> SUFFICES ASSUME ~ready' PROVE SeedOnly'
  BY DEF SeedOnly
<1>1. ~ready
  BY DEF LInv, TypeOK, Next, vars, RunInitFile, InitDies, Baseline, Deploy, Boot, Stop,
         StartMigrate, ApplyEntry, MigrateDies
<1>2. ASSUME NEW f \in Entries, RunInitFile(f) PROVE SeedOnly'
  <2>1. SeedList(f) \in {{}, Manifest(image)} /\ SeedList(f) \subseteq Entries
    BY SeedsTyped DEF SeedList, LInv
  <2>2. Stamped' = Stamped \/ Stamped' = Stamped \cup Manifest(image)
    <3>1. CASE SeedList(f) = {}
      BY <1>2, <3>1 DEF RunInitFile, Stamped
    <3>2. CASE SeedList(f) # {}
      <4>1. Stamped \cup Manifest(image) \subseteq Entries
        BY <2>1, <3>2, StampedTyped DEF LInv
      <4>2. ledger' = Stamped \cup Manifest(image)
        BY <1>2, <2>1, <3>2 DEF RunInitFile
      <4> QED
        BY <4>1, <4>2, LedgerAssumption DEF Stamped, LedgerAssumption, Entries
    <3> QED
      BY <3>1, <3>2
  <2> QED
    BY <1>1, <1>2, <2>2 DEF RunInitFile, LInv, SeedOnly
<1>3. CASE UNCHANGED vars
  BY <1>1, <1>3 DEF vars, LInv, SeedOnly, Stamped
<1>4. ASSUME NEW o \in Operators PROVE ~ApplyEntry(o) /\ ~MigrateDies(o) /\ ~StartMigrate(o)
  BY <1>1 DEF ApplyEntry, MigrateDies, StartMigrate, LInv, SeedOnly
<1>5. ~InitDies /\ ~Baseline /\ \A b \in Builds : ~Deploy(b)
  BY <1>1 DEF InitDies, Baseline, Deploy
<1>6. ASSUME NEW s \in Servers, Boot(s) \/ Stop(s) PROVE SeedOnly'
  BY <1>1, <1>6 DEF Boot, Stop, LInv, SeedOnly, Stamped
<1> QED
  BY <1>2, <1>3, <1>4, <1>5, <1>6 DEF Next

LEMMA TellsStep == ASSUME LInv, [Next]_vars PROVE LedgerTellsWhatRan'
<1> SUFFICES ASSUME ready' PROVE Stamped' \subseteq done' \cup untold'
  BY DEF LedgerTellsWhatRan
<1>0. Grows /\ TypeOK'
  BY LedgerGrows, TypeStep DEF LInv
<1>1. CASE Stamped' = Stamped /\ ready
  BY <1>0, <1>1 DEF LInv, LedgerTellsWhatRan, Grows
<1>2. ASSUME NEW f \in Entries, RunInitFile(f) PROVE Stamped' \subseteq done' \cup untold'
  <2>1. f = image /\ image \in 1..Top
    BY <1>2, BuildsAreEntries DEF RunInitFile, LInv, TypeOK
  <2>2. Manifest(image) \subseteq done'
    BY <1>2, <2>1 DEF RunInitFile, Manifest
  <2>3. Stamped \subseteq Manifest(image)
    BY <1>2 DEF RunInitFile, LInv, SeedOnly
  <2>4. Stamped' \subseteq Stamped \cup SeedList(f)
    BY <1>2 DEF RunInitFile, Stamped
  <2> QED
    BY <2>2, <2>3, <2>4 DEF SeedList
<1>3. CASE InitDies
  BY <1>3 DEF InitDies, Stamped
<1>4. CASE Baseline
  <2>1. Stamped' \subseteq ledger'
    BY DEF Stamped
  <2> QED
    BY <1>4, <2>1 DEF Baseline
<1>5. ASSUME NEW o \in Operators, ApplyEntry(o) PROVE Stamped' \subseteq done' \cup untold'
  <2>1. ready
    BY <1>5 DEF ApplyEntry, LInv, SeedOnly
  <2>2. PICK m \in NextOf(migration[o].left) : done' = done \cup {m} /\ ledger' = Stamped \cup {m}
    BY <1>5 DEF ApplyEntry, Runs
  <2>3. Stamped' \subseteq Stamped \cup {m}
    BY <2>2 DEF Stamped
  <2> QED
    BY <1>0, <2>1, <2>2, <2>3 DEF LInv, LedgerTellsWhatRan, Grows
<1>6. ASSUME NEW b \in Builds, Deploy(b) PROVE Stamped' = Stamped /\ ready
  BY <1>6 DEF Deploy, Stamped
<1>7. ASSUME NEW s \in Servers, Boot(s) \/ Stop(s) PROVE Stamped' = Stamped /\ ready
  BY <1>7 DEF Boot, Stop, Stamped
<1>8. ASSUME NEW o \in Operators, StartMigrate(o) \/ MigrateDies(o)
      PROVE  Stamped' = Stamped /\ ready
  BY <1>8 DEF StartMigrate, MigrateDies, Stamped
<1>9. CASE UNCHANGED vars
  BY <1>1, <1>9 DEF vars, Stamped
<1> QED
  BY <1>1, <1>2, <1>3, <1>4, <1>5, <1>6, <1>7, <1>8, <1>9 DEF Next

LEMMA ServersStep == ASSUME LInv, [Next]_vars PROVE ServersHaveTheirSchema'
<1> SUFFICES ASSUME NEW s \in Servers, server'[s] # None
             PROVE  Manifest(server'[s]) \subseteq done' \cup untold'
  BY DEF ServersHaveTheirSchema
<1>0. Grows /\ TypeOK
  BY LedgerGrows DEF LInv
<1>1. CASE server'[s] = server[s]
  BY <1>0, <1>1 DEF LInv, ServersHaveTheirSchema, Grows
<1>2. CASE Boot(s)
  <2>1. server'[s] = image /\ Manifest(image) \subseteq ledger
    BY <1>0, <1>2 DEF Boot, InSync, Pending, TypeOK
  <2>2. ledger \subseteq done \cup untold
    BY <1>2 DEF Boot, LInv, LedgerTellsWhatRan, Stamped
  <2> QED
    BY <1>0, <2>1, <2>2 DEF Grows
<1>3. server'[s] = server[s] \/ Boot(s)
  <2>1. ASSUME NEW q \in Servers, Boot(q) \/ Stop(q) PROVE server'[s] = server[s] \/ Boot(s)
    BY <1>0, <2>1 DEF Boot, Stop, TypeOK
  <2> QED
    BY <2>1 DEF Next, vars, RunInitFile, InitDies, Baseline, Deploy, StartMigrate, ApplyEntry,
                MigrateDies
<1> QED
  BY <1>1, <1>2, <1>3

-----------------------------------------------------------------------------
LEMMA LStep == LInv /\ [Next]_vars => LInv'
<1> SUFFICES ASSUME LInv, [Next]_vars PROVE LInv'
  OBVIOUS
<1>1. TypeOK' /\ LedgerIsPrefix' /\ TailsOnly'
  BY TypeStep, PrefixStep, TailsStep
<1>2. SeedOnly' /\ LedgerTellsWhatRan' /\ ServersHaveTheirSchema'
  BY SeedStep, TellsStep, ServersStep
<1> QED
  BY <1>1, <1>2 DEF LInv

LEMMA LedgerInvariant == Spec => []LInv
BY LInit, LStep, PTL DEF Spec

\* The volume, the processes and the commands keep their types.
THEOREM TypeCorrect == Spec => []TypeOK
<1>1. LInv => TypeOK
  BY DEF LInv
<1> QED
  BY <1>1, LedgerInvariant, PTL

\* The ledger is never out of order, whatever migrates, baselines, deploys and
\* interrupted initialisations meet.
THEOREM LedgerIsPrefixHolds == Spec => []LedgerIsPrefix
<1>1. LInv => LedgerIsPrefix
  BY DEF LInv
<1> QED
  BY <1>1, LedgerInvariant, PTL

\* Only baseline and init/14 ever stamp what has not run.
THEOREM LedgerTellsWhatRanHolds == Spec => []LedgerTellsWhatRan
<1>1. LInv => LedgerTellsWhatRan
  BY DEF LInv
<1> QED
  BY <1>1, LedgerInvariant, PTL

\* A server that passed the gate has its schema for as long as it serves.
THEOREM ServersHaveTheirSchemaHolds == Spec => []ServersHaveTheirSchema
<1>1. LInv => ServersHaveTheirSchema
  BY DEF LInv
<1> QED
  BY <1>1, LedgerInvariant, PTL
=============================================================================
