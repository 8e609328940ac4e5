SPECIFICATION Spec
CONSTANTS
  Runs = {r1}
  Backends = {"local", "fake-arweave"}
  Profiles = {"alpha_lsb", "dct_qim"}
  Verifiers = {v1, v2}
  Requests = {}
  Getters = {}
  Threads = 2
  PoolSize = 2
  MaxTime = 0
  MaxCrashes = 1
INVARIANTS
  ReportUsesJobProfile
