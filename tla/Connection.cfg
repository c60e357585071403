CONSTANTS
  MaxReads = 3
  MaxBatch = 2
SPECIFICATION FairSpec
INVARIANTS TypeOK SingleWriter QueueMoves InOrder NothingDropped
PROPERTIES Reaped
