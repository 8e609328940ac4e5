SPECIFICATION Spec
CONSTANTS
  VersionBits = 1
  AlgBits = 1
  FlagBits = 2
  FullBits = 4
  ShortBits = 2
  CrcPoly <- ShortPoly
  Preamble <- ShortPreamble
  LengthBits = 4
  MaxScan = 2
  Width = 4
  RecordPreamble <- ShortRecordPreamble
  RecordVersion <- OneBitVersion
  IdBits = 3
  ReservedBits = 1
  MaxEquationId = 4
  EquationWeight = 3
  MaskOf <- ThreeOfFour
  TileBits = 40
  Profiles <- AllProfiles
  Locators <- SomeLocators
  Capacity = 64
  NumTiles = 6
  Spots <- SomeSpots
  Flips <- SomeFlips
  MaxChanges = 3
INVARIANTS
  RepairsWithinBudget
  NeverAnotherLocator
  SolverIsExact
  BasisReduced
  IntactTilesSuffice
CHECK_DEADLOCK FALSE
