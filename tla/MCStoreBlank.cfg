CONSTANTS
  Key = {k1, k2}
  Junk = junk
  Value = {v1}
  Empty = empty
  Torn = torn
  Entry = {e1, e2, e3, e4}
  Worker = {w1, w2}
  Nil = nil
  MaxCalls = 2
  MaxCrash = 0
SYMMETRY Symmetry
SPECIFICATION Spec
INVARIANTS NoBlankedValue
