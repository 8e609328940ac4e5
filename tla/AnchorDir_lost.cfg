SPECIFICATION FairSpec
CONSTANTS
  Requests = {q1, q2}
  Getters = {}
  Runs = {r1}
  Threads = 2
  MaxCrashes = 0
  MaxTime = 0
PROPERTIES
  LedgerIsAppendOnly
CHECK_DEADLOCK FALSE
