SPECIFICATION FairSpec
CONSTANTS
  v1 = v1
  Slots <- MCSlots
  Mgmt <- MCSlots
  Unassigned <- MCNone
  Unread <- MCNone
  OutVals <- MCVals
  Sends <- MCSends
  Oversize <- MCNone
  InMsgs <- MCIn
  TaskDepth = 1
  IoDepth = 1
  Pages = 6
  Defaults <- MCBoth
  Frames <- MCFrames
  FrameBytes = 2
  PageBytes = 3
  OnePin = FALSE
INVARIANTS
  TypeOK
  Armed
PROPERTY
  Implements
  WholeFrame
  AuthUsed
CHECK_DEADLOCK TRUE
