SPECIFICATION Spec
CONSTANTS
  p1 = p1
  p2 = p2
  p3 = p3
  Person = {p1, p2, p3}
  Step = {1}
  Definitions <- Majority
  Exclusions <- Nobody
  Sweeper = {w1}
  MaxAborts = 0
CHECK_DEADLOCK FALSE
INVARIANT MajorityOfPeople
