SPECIFICATION FairSpec
CONSTANTS
  v1 = v1  v2 = v2  big = big
  Slots <- MCSlots
  Mgmt <- MCOne
  Unassigned <- MCThree
  Unread <- MCThree
  OutVals <- MCVals
  Sends <- MCSends
  Oversize <- MCBig
  InMsgs <- MCIn
  TaskDepth = 1
  IoDepth = 1
  Pages = 8
  Defaults <- MCReceiving
INVARIANTS
  TypeOK
  ShameAtMostOne
PROPERTY
  InOrder
  HearsAgain
CHECK_DEADLOCK TRUE
