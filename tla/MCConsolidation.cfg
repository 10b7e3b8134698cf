\* Two rows, a batch of one so that rows wait for each other, every fault but a
\* lost commit acknowledgement; the code's windows in units of the 5-minute cron.
SPECIFICATION Spec
CONSTANTS
  e1 = e1
  e2 = e2
  Experiences = {e1, e2}
  NoJob = NoJob
  BatchSize = 1
  MaxAttempts = 3
  StaleAfter = 3
  BackoffFirst = 1
  BackoffSecond = 6
  MaxHandle = 1
  MaxOutages = 1
  Faults = {"extract", "write", "db", "crash", "drop"}
INVARIANTS
  TypeOK
  ClaimsWrittenOnce
  FailedOnlyAtCap
  TriesWithinBudget
PROPERTIES
  ImplementsDuty
SYMMETRY Symmetry
CHECK_DEADLOCK FALSE
