SPECIFICATION FairSpec
CONSTANTS
  Manifests <- Assorted
  Indexed <- Collected
  TrustedKids = {"known", "known2", "lost"}
  AcceptedRoles = {"creator"}
  RaisingKids = {"unreachable"}
  OfferedKeys <- SomeKeys
  Strays <- SomeStrays
  Backends <- TwoResolvers
  MetadataFields = 2
  Locators <- SomeLocators
  Limits <- SomeLimits
  MaxRows = 3
INVARIANTS
  VerifiedIsUnrivalled
  VerdictIgnoresOrder
  HiddenRivalIsFlagged
  JunkCannotHide
  OneGoodSourceSuffices
PROPERTY
  VerdictReached
CHECK_DEADLOCK FALSE
