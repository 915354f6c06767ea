SPECIFICATION FairSpec
CONSTANTS
  MaxId = 3
  MaxTicket = 2
  TicketOf <- Alternating
  Before = {1}
  Runs = {"job", "cli"}
  Outside = {"cli"}
  Batch = 2
  MaxBatches = 2
  MaxGaps = 1
  Chunk = 2
  MaxEvents = 2
CHECK_DEADLOCK FALSE
INVARIANTS TypeOK NothingMissed StaleIsMarked
PROPERTIES FactsCatchUp
