SPECIFICATION Spec
CONSTANTS
  Handles = {h1, h2}
  Manifests = {m1, m2}
  UseKinds = {"local", "fake-arweave", "fake-ipfs"}
  MaxCrashes = 1
INVARIANTS
  TypeOK
  AckedReadable
  IndexNeverDangles
SYMMETRY Symmetry
