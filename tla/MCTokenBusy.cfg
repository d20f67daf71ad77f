SPECIFICATION Spec
CONSTANTS
  s1 = s1  s2 = s2
  NoAddr = 255
  Subs <- MCSubs2
  Addrs <- MCAddrs2
  Grant = 4
  Nap = 0
  Frame = 1
  RoundGap = 1
  Silence = 24
  TaskDepth = 2
  Rnds = 3
  Chatty <- MCSubs2
  MaxLoad = 2
  MaxFaults = 0
PROPERTY
  LiveKept
CHECK_DEADLOCK TRUE
