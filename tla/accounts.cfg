SPECIFICATION Spec
CONSTANTS
  Browser = {chrome}
  Tab = {t1, t2}
  BrowserOf <- OneBrowser
  Slot = {s1, s2}
  Row = {r1, r2, r3, r4}
  Null = Null
  MaxFailed = 2
  MaxOtp = 2
  MaxRequests = 5
SYMMETRY Symmetry
CHECK_DEADLOCK FALSE
INVARIANTS
  TypeOK
  OutlivesOnlyByOverlap
  ReuseOnlyByTrouble
  OtpGuessesBounded
