\* Three people, a batch run, a reviewer and a capture in flight.
SPECIFICATION DedupSpec
CONSTANTS
  a = a
  b = b
  c = c
  Entities = {a, b, c}
  Kind <- People
  Reviewers = {r1}
  LineageDepth = 32
  MaxRepairs = 3
  AllowRemerge = FALSE
  None = None
  Surface = {"jon smith", "john smith", "john smyth", "john", "john smith jr"}
  Fold <- Tokenised
  Resembling <- Alike
  Short = {"jr"}
  Generational = {"jr"}
  Numeric = {}
  JaroWinkler <- Band
  Name <- Named
  Captures = {c1}
  MaxAppends = 1
  Seniority <- Ranks
  QueueCap = 1
  MaxRuns = 1
INVARIANTS
  DedupTypeOK
  OneHop
  SurvivorsAnswerToEveryName
  GateLeavesNoBridge
  SkippedIsRediscovered
  ScorersMergeAlike
PROPERTIES
  KeptSeparateIsFinal
CHECK_DEADLOCK FALSE
