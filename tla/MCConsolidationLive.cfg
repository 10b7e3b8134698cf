\* Liveness, with lost acknowledgements and calls as long as the stale window; no
\* symmetry, shorter windows in the order of the code's.
SPECIFICATION FairSpec
CONSTANTS
  e1 = e1
  e2 = e2
  Experiences = {e1, e2}
  NoJob = NoJob
  BatchSize = 1
  MaxAttempts = 3
  StaleAfter = 2
  BackoffFirst = 1
  BackoffSecond = 2
  MaxHandle = 2
  MaxOutages = 1
  Faults = {"crash", "ack"}
PROPERTIES
  Settles
CHECK_DEADLOCK FALSE
