SPECIFICATION Spec
CONSTANTS
  Booking = {b1}
  Worker = {w1, w2}
  Offer = {l1}
  Request = {r1, r2}
  Null = Null
  Calls = {"transition", "accept", "cancel"}
SYMMETRY Symmetry
CHECK_DEADLOCK FALSE
PROPERTY CancelledIsFinal
