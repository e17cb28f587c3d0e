SPECIFICATION Spec
CONSTANTS
  Offer = {o1, o2}
  Note = {n1, n2}
  Call = {c1, c2}
  Null = Null
  PageSize = 1
  MaxSteps = 3
  MaxTrouble = 2
SYMMETRY Symmetry
CHECK_DEADLOCK FALSE
INVARIANTS
  TypeOK
  FeedMatchesRows
  OffersAreListed
  PositionsFollowDuty
