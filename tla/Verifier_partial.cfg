SPECIFICATION Spec
CONSTANTS
  Manifests <- Collected
  Indexed <- Collected
  TrustedKids = {"known", "known2", "lost"}
  AcceptedRoles = {"creator"}
  RaisingKids = {"unreachable"}
  OfferedKeys <- SomeKeys
  Strays <- SomeStrays
  Backends <- TwoResolvers
  MetadataFields = 2
  Locators <- ShortLocators
  Limits <- TightLimits
  MaxRows = 3
INVARIANTS
  AmbiguityNeverVerified
CHECK_DEADLOCK FALSE
