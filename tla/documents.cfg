SPECIFICATION Spec
CONSTANTS
  Doc = {d1, d2, d3}
  Slot = {s1, s2}
  Null = Null
  MaxDocuments = 1
  Verdict <- AnyVerdict
  MaxTrouble = 1
CHECK_DEADLOCK FALSE
INVARIANTS
  TypeOK
  RemovedIsGone
  FilesMatchRows
  LimitExceededOnlyByOverlap
PROPERTIES
  ScanEnds
