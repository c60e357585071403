CONSTANTS
  MaxReads = 2
  MaxBatch = 1
SPECIFICATION Spec
INVARIANTS NoPopOnEmpty
