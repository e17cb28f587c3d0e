SPECIFICATION Spec
CONSTANTS
  Booking = {b1}
  Worker = {w1, w2}
  Offer = {l1, l2}
  Request = {r1, r2}
  Null = Null
  Calls = {"transition", "accept", "cancel", "forceAssign", "complete", "review"}
SYMMETRY Symmetry
CHECK_DEADLOCK FALSE
INVARIANT AcceptOnce
PROPERTY AwardContract
