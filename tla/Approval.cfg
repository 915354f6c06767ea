SPECIFICATION FairSpec
CONSTANTS
  p1 = p1
  p2 = p2
  p3 = p3
  Person = {p1, p2, p3}
  Step = {1, 2, 3}
  Definitions <- OneOrThree
  Exclusions <- SelfOrNot
  Sweeper = {w1, w2}
  MaxAborts = 1
CHECK_DEADLOCK FALSE
INVARIANTS TypeOK OnePersonOneVote PendingMayVote OpenIsUndecided LinksFollowRows ClosedAddsUp StagesInOrder
PROPERTIES DecisionsStand DeadlinesDecide
