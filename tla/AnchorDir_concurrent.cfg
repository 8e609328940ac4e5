SPECIFICATION Spec
CONSTANTS
  Requests = {q1, q2}
  Getters = {g1}
  Runs = {r1}
  Threads = 2
  MaxCrashes = 0
  MaxTime = 1
INVARIANTS
  SlotsMonotonic
  GetNeverCreates
  LossIsPartial
