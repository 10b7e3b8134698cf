\* A delete between a capture and its consolidation.
SPECIFICATION Spec
CONSTANTS
  Experiences = {e1}
  Claims = {c1}
  Sessions = {s1}
  None = None
INVARIANTS
  DeletedAssertsNothing
SYMMETRY Symmetry
CHECK_DEADLOCK FALSE
