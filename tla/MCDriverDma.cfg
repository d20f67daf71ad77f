SPECIFICATION Spec
CONSTANTS
  v1 = v1
  Slots <- MCSlots
  Mgmt <- MCSlots
  Unassigned <- MCNone
  Unread <- MCNone
  OutVals <- MCVals
  Sends <- MCSends
  Oversize <- MCNone
  InMsgs <- MCIn
  TaskDepth = 1
  IoDepth = 1
  Pages = 6
  Defaults <- MCSending
  Frames <- MCFrames
  FrameBytes = 2
  PageBytes = 3
  OnePin = FALSE
INVARIANT
  DmaInItsPage
CHECK_DEADLOCK TRUE
