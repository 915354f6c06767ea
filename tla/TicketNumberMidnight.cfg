SPECIFICATION Spec
CONSTANTS
  c1 = c1
  c2 = c2
  Caller = {c1, c2}
  SettleHolds = TRUE
  Imported <- NoTickets
  LoopLimit = 2
  MaxRows = 2
  MaxDay = 1
CHECK_DEADLOCK FALSE
INVARIANT DailyNumbersUnique
