SPECIFICATION Spec
CONSTANTS
  Key = {k1, k2}
  Body = {x, y}
  Request = {r1, r2, r3}
  Null = Null
  MaxTrouble = 2
CHECK_DEADLOCK FALSE
INVARIANTS
  TypeOK
  OneEffectPerKey
  OneReplyPerKey
PROPERTY UndisturbedKeyCompletes
