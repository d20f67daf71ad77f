SPECIFICATION Spec
CONSTANTS
  Images <- MCImages
  Len <- MCLen
  Demo <- MCDemo
  Marking <- MCMarking
  MaxPages = 2
  BlankSeq = 15
  MaxFailures = 0
  MaxDownloads = 1
INVARIANT RollsBack
