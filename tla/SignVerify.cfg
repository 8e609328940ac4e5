SPECIFICATION Spec
CONSTANTS
  Runs = {r1, r2}
  Backends = {"local", "fake-arweave"}
  Profiles = {"alpha_lsb", "dct_qim"}
  Verifiers = {v1}
  MaxCrashes = 1
INVARIANTS
  DoneRunVerifies
  FirstRunCommits
  VerifiedIsOneRun
