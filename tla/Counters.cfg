CONSTANTS
  Threads = 2
  MaxAdds = 3
SPECIFICATION Spec
INVARIANTS ReportedOrMissed
