SPECIFICATION Spec
CONSTANTS
  Booking = {b1, b2}
  Get = {g1, g2}
  Null = Null
  MaxSteps = 2
  MaxTrouble = 2
CHECK_DEADLOCK FALSE
INVARIANTS
  TypeOK
  ConnectedIsInRooms
  QuietIsCurrent
PROPERTIES
  OnlyOverlapMisleads
  ViewCatchesUp
