SPECIFICATION FairSpec
CONSTANTS
  N = 2
  h1 = h1  h2 = h2  h3 = h3  h4 = h4
  v1 = v1  v2 = v2
  NoValue = NoValue
  Handles <- MCHandles4
  Values <- MCValues
INVARIANTS
  TypeOK
  ExclusivePage
  RefcountExact
  FreeListSound
  NoPageLost
  Asserts
  RoomToFree
PROPERTIES
  Promise
  Freed
CHECK_DEADLOCK TRUE
