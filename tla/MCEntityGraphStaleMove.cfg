\* A move recorded for an earlier merge is undone by a later unmerge.
SPECIFICATION Spec
CONSTANTS
  a = a
  b = b
  c = c
  d = d
  Entities = {a, b, c}
  Kind <- OneKind
  Reviewers = {}
  LineageDepth = 32
  MaxRepairs = 6
  AllowRemerge = TRUE
  None = None
PROPERTIES
  UnmergeUndoesItsMoves
CHECK_DEADLOCK FALSE
