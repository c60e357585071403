CONSTANTS
  Key = {k1}
  KeySize = 1
  ClientValue = 1
  OtherValue = {0, 13, 31}
  MaxMessage = 44
  Numbers = 2
  Capacity = 1
  MaxRequests = 4
  MaxOthers = 1
SPECIFICATION FairSpec
INVARIANTS TypeOK Matched OwnSetsSeen AnsweredBeforeClose
PROPERTIES Finishes
CHECK_DEADLOCK FALSE
