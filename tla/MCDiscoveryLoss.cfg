SPECIFICATION Spec
CONSTANTS
  s1 = s1  s2 = s2  s3 = s3
  NoAddr = 255
  Subs <- MCSubs3
  Addrs <- MCAddrs3
  TaskDepth = 2
  MaxRnd = 8
  MaxLate = 1
  Lossy = TRUE
SYMMETRY SubSymmetry
INVARIANTS
  TypeOK
  NoCommitPanic
  CommittedHeld
  TwoAnswersEach
  UniqueAddress
  Agreement
CHECK_DEADLOCK FALSE
