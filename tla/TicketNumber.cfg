SPECIFICATION FairSpec
CONSTANTS
  c1 = c1
  c2 = c2
  Caller = {c1, c2}
  SettleHolds = TRUE
  Imported <- ThreeTickets
  LoopLimit = 2
  MaxRows = 4
  MaxDay = 1
CHECK_DEADLOCK FALSE
INVARIANTS TypeOK CountersIncrease OwnRowFilled NumbersUnique
PROPERTIES CountersFixed AttemptsEnd
