SPECIFICATION Spec
CONSTANTS
  Last = 9
  Regions <- MCRegions
  Reported <- MCRegions
  Devices <- MCDevices
  First = "a"
  Names <- MCNames
  Files <- MCFiles
  Lines <- MCLines
  MayFail = TRUE
  MaxLines = 6
INVARIANTS
  ImagesIntact
  OnlyOwnChunks
  
  InfoHandedOver
CHECK_DEADLOCK FALSE
