\* Three messages; parts of one may be duplicated; the timeout is negative, short or long.
SPECIFICATION Spec
CONSTANTS
  Messages <- MCMessages
  PartSize = 6
  PartCheckThreshold = 2
  PartTimeouts <- MCPartTimeouts
  MaxTime = 3
  MaxDuplicates = 1
  MaxMalformed = 1
INVARIANTS TypeOK RecordsFaithful ReceivedIsRecorded
PROPERTY AbandonedInTime
CHECK_DEADLOCK FALSE
