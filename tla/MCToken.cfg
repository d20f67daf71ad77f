SPECIFICATION FairSpec
CONSTANTS
  s1 = s1  s2 = s2
  NoAddr = 255
  Subs <- MCSubs2
  Addrs <- MCAddrs2
  Grant = 2
  Nap = 0
  Frame = 2
  RoundGap = 1
  Silence = 9
  TaskDepth = 2
  Rnds = 3
  Chatty <- MCSub1
  MaxLoad = 1
  MaxFaults = 1
INVARIANTS
  TypeOK
  OneTalker
PROPERTIES
  AnsweredWhenSent
  DeadReleased
  Granted
CHECK_DEADLOCK TRUE
