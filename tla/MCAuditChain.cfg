CONSTANTS
  LastDay = 2
  MaxWrites = 4
  Numbers = {0}
SPECIFICATION Spec
INVARIANTS UnharmedIntact TamperLocated
CHECK_DEADLOCK FALSE
