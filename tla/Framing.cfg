CONSTANTS
  Header = 2
  MaxMessage = 4
  BufferSize = 5
  Size = {1, 2, 3, 4, 6}
  MaxBytes = 9
SPECIFICATION FairSpec
INVARIANTS TypeOK Framed NeverFull
PROPERTIES Implements Progresses
CHECK_DEADLOCK FALSE
