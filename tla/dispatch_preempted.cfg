SPECIFICATION Spec
CONSTANTS
  Worker = {w1, w2}
  Null = Null
  TopSize = 1
  MaxTrouble = 0
CHECK_DEADLOCK FALSE
PROPERTY DispatchEnds
