SPECIFICATION Spec
CONSTANTS
  MaxId = 2
  MaxTicket = 2
  TicketOf <- Alternating
  Before = {1, 2}
  Runs = {"job"}
  Outside = {}
  Batch = 2
  MaxBatches = 2
  MaxGaps = 1
  Chunk = 2
  MaxEvents = 3
CHECK_DEADLOCK FALSE
PROPERTY NewerMarkKept
