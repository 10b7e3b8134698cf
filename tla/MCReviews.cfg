\* Two reviewers and three tickets about one reference and one claim.
SPECIFICATION Spec
CONSTANTS
  g = g
  h = h
  r1 = r1
  c1 = c1
  Entities = {g, h, f}
  References = {r1}
  Claims = {c1}
  Tickets = {t1, t2, t3}
  Changes <- OneOfEach
  Reviewers = {w1, w2}
  Faults = {"db", "crash"}
  Fresh = Fresh
  None = None
INVARIANTS
  TypeOK
  OneEffectPerVerdict
  
  RetractionHasOneAuthor
SYMMETRY Symmetry
CHECK_DEADLOCK FALSE
