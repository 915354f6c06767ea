SPECIFICATION Spec
CONSTANTS
  MaxId = 3
  MaxTicket = 2
  TicketOf <- Alternating
  Before = {}
  Runs = {"job"}
  Outside = {}
  Batch = 2
  MaxBatches = 2
  MaxGaps = 1
  Chunk = 2
  MaxEvents = 0
CHECK_DEADLOCK FALSE
INVARIANT LaterTicketsFollowed
