SPECIFICATION Spec
CONSTANTS
  MaxVoters = 4
  MaxQuorum = 4
CHECK_DEADLOCK FALSE
INVARIANTS TypeOK SettledExactly DecisiveDecides OpenWaitsForSomeone
