SPECIFICATION Spec
CONSTANTS
  Row = {t1, t2, t3, t4}
  Booking = {b1, b2}
  Request = {r1, r2}
  Null = Null
  Amount = {1, 2}
  Fare = 3
  Credit = 1
  SharePercent = 50
SYMMETRY Symmetry
CHECK_DEADLOCK FALSE
INVARIANTS
  TypeOK
  SettledIsRecorded
  DividendsAreShares
PROPERTIES
  PurseContract
  RecordsOnlyAdvance
