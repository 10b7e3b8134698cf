\* Two pages of two, three rows standing, two write transactions and the open captures in between.
SPECIFICATION Spec
CONSTANTS
  Standing = 3
  MaxClock = 5
  PageSize = 2
  None = None
INVARIANTS
  TypeOK
  MissesAreRemovals
  RepeatsAreArrivals
  EveryTransactionIsShown
  HeadersNeedTwoArrivals
CHECK_DEADLOCK FALSE
