SPECIFICATION FairSpec
CONSTANTS
  s1 = s1  s2 = s2  s3 = s3
  NoAddr = 255
  Subs <- MCSubs2
  Addrs <- MCAddrs2
  TaskDepth = 4
  MaxRnd = 8
  MaxLate = 0
  Lossy = FALSE
PROPERTY
  Provisional
CHECK_DEADLOCK FALSE
