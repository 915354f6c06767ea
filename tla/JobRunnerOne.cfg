SPECIFICATION Spec
CONSTANTS
  r1 = r1
  r2 = r2
  None = None
  Runner = {r1, r2}
  Job = {1}
  Lanes <- OneLane
  LaneOf <- AllDefault
  Slots <- OneSlotDefault
  Requeues <- AllRequeue
  MaxAttempts <- Twice
  Guarded = {1}
  Cancels = {1}
  MaxFaults = 3
SYMMETRY Symmetry
CHECK_DEADLOCK FALSE
INVARIANTS TypeOK ActsOnce AttemptsBounded QueuedIsClaimable CancelledOnRequest RecordedOnce OneTaskPerClaim
PROPERTY LifecycleKept
