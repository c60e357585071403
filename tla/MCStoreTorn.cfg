CONSTANTS
  Key = {k1}
  Junk = junk
  Value = {v1}
  Empty = empty
  Torn = torn
  Entry = {e1, e2, e3}
  Worker = {w1, w2}
  Nil = nil
  MaxCalls = 3
  MaxCrash = 0
SYMMETRY Symmetry
SPECIFICATION Spec
INVARIANTS NoTornRead
