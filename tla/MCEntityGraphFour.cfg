\* Four entities, each merged away and unmerged at most once.
SPECIFICATION Spec
CONSTANTS
  a = a
  b = b
  c = c
  d = d
  Entities = {a, b, c, d}
  Kind <- OneKind
  Reviewers = {}
  LineageDepth = 32
  MaxRepairs = 8
  AllowRemerge = FALSE
  None = None
PROPERTIES
  UnmergeUndoesItsMoves
  UnmergeReopensItsVerdict
  ImplementsIdentity
SYMMETRY Symmetry
CHECK_DEADLOCK FALSE
