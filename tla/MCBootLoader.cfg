SPECIFICATION Spec
CONSTANTS
  Images <- MCImages
  Len <- MCLen
  Demo <- MCDemo
  Marking <- MCMarking
  MaxPages = 2
  BlankSeq = 15
  MaxFailures = 3
  MaxDownloads = 3
INVARIANTS
  TypeOK
  JumpsToImage
PROPERTIES
  FlashedIsInstalled
  MarksWhatRan
  TwoImagesLeft
  InstallCompletes
