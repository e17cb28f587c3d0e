SPECIFICATION Spec
CONSTANTS
  Worker = {w1, w2}
  Null = Null
  TopSize = 1
  MaxTrouble = 1
CHECK_DEADLOCK FALSE
INVARIANTS
  TypeOK
  OpenOfferIsWaitedFor
PROPERTIES
  UndisturbedDispatchEnds
  EngineReturns
  OffersClose
  AssignedIsConfirmed
