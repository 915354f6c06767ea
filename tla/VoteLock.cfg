\* Three racing calls, two attempts each.
SPECIFICATION FairSpec
CONSTANTS
  ann = ann
  ben = ben
  c1 = c1
  c2 = c2
  c3 = c3
  Call = {c1, c2, c3}
  Person = {ann, ben}
  Deciding <- TwoBallots
  Wishes <- ThreeWishes
  Attempts = 2
  Databases = {"mariadb", "postgresql"}
INVARIANT TypeOK
PROPERTIES VotesAreAtomic CallsEnd
