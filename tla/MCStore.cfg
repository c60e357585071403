CONSTANTS
  Key = {k1, k2}
  Junk = junk
  Value = {v1, v2}
  Empty = empty
  Torn = torn
  Entry = {e1, e2, e3, e4}
  Worker = {w1, w2}
  Nil = nil
  MaxCalls = 3
  MaxCrash = 0
SYMMETRY Symmetry
SPECIFICATION Spec
INVARIANTS TypeOK NoLostUpdate ReadsAccounted WritesAccounted
PROPERTIES BindingStable SessionMonotonic Linearizable
