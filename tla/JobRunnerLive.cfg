SPECIFICATION FairSpec
CONSTANTS
  r1 = r1
  r2 = r2
  None = None
  Runner = {r1,r2}
  Job = {1,2}
  Lanes <- TwoLanes
  LaneOf <- AllMail
  Slots <- OneSlot
  Requeues <- FirstRequeues
  MaxAttempts <- FirstTwice
  Guarded = {}
  Cancels = {}
  MaxFaults = 1
CHECK_DEADLOCK FALSE
PROPERTY JobsEnd
INVARIANT LaneOverlapBounded
