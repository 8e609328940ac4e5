SPECIFICATION Spec
CONSTANTS
  Runs = {r1}
  Backends = {"fake-arweave"}
  Profiles = {"alpha_lsb", "dct_qim"}
  Verifiers = {v1, v2}
  Requests = {q1}
  Getters = {g1}
  Threads = 2
  PoolSize = 2
  MaxTime = 0
  MaxCrashes = 1
INVARIANTS
  TypeOK
  AlphaReportsVerified
  AnchoredJobComplete
SYMMETRY Symmetry
