SPECIFICATION Spec
CONSTANTS
  SZ = 5
  MaxUsize = 15
  OverflowChecks = TRUE
  Utf8 <- MCUtf8
INVARIANTS
  InPage
  Narrowing
  RerootGranted
CHECK_DEADLOCK FALSE
