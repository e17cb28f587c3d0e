SPECIFICATION Spec
CONSTANTS
  Browser = {chrome}
  Tab = {t1}
  BrowserOf <- OneBrowser
  Slot = {s1, s2}
  Row = {r1, r2, r3}
  Null = Null
  MaxFailed = 2
  MaxOtp = 2
  MaxRequests = 3
SYMMETRY Symmetry
CHECK_DEADLOCK FALSE
PROPERTY LogoutEndsSession
