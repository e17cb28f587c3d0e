SPECIFICATION Spec
CONSTANTS
  Booking = {b1}
  Worker = {w1, w2}
  Offer = {l1}
  Request = {r1, r2}
  Null = Null
  Calls = {"transition", "accept", "decline", "timeout", "cancel", "forceAssign", "complete", "review", "availability", "suspend"}
SYMMETRY Symmetry
CHECK_DEADLOCK FALSE
INVARIANTS
  TypeOK
  AssignedHasWorker
  CompletedIsInvoiced
  PaidOnce
  HolderServes
