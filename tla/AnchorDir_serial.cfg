SPECIFICATION FairSpec
CONSTANTS
  Requests = {q1, q2, q3}
  Getters = {g1}
  Runs = {r1}
  Threads = 1
  MaxCrashes = 1
  MaxTime = 1
INVARIANTS
  TypeOK
PROPERTIES
  FinishedAnchorVerifies
  LedgerIsAppendOnly
  AnchorBecomesVisible
