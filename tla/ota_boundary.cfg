\* One message whose phy header ends where its first part does.
SPECIFICATION Spec
CONSTANTS
  Messages <- BoundaryMessages
  PartSize = 4
  PartCheckThreshold = 2
  PartTimeouts = {5}
  MaxTime = 0
  MaxDuplicates = 0
  MaxMalformed = 0
INVARIANT EachFrameRecorded
CHECK_DEADLOCK FALSE
