CONSTANTS
  Base = 3
  MaxString = 2
  MaxInput = 9
SPECIFICATION Spec
INVARIANTS TypeOK Canonical RoundTrip
CHECK_DEADLOCK FALSE
