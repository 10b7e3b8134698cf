\* A spine of five, of which the second creates the ledger, so that two builds may be
\* two entries apart with one in between; two servers and two operators.
SPECIFICATION Spec
CONSTANTS
  Top = 5
  LedgerFile = 2
  Servers = {s1, s2}
  Operators = {o1, o2}
  None = None
INVARIANTS
  TypeOK
  LedgerIsPrefix
  ServersHaveTheirSchema
  LedgerTellsWhatRan
SYMMETRY Symmetry
CHECK_DEADLOCK FALSE
