SPECIFICATION FairSpec
CONSTANTS
  Callers = {c1, c2}
  NoCaller = NoCaller
  Processes = {p1, p2}
  MaxIndex = 3
  MaxSwaps = 3
  MaxCrashes = 1
INVARIANTS TypeOK NoPreimageReuse InvoiceIsBacked
PROPERTY CreationEnds
CHECK_DEADLOCK FALSE
