SPECIFICATION FairSpec
CONSTANTS
  Auctions <- OneAuction
  Readers <- OneReader
  Shown <- OneShown
  Given <- OneGiven
  Configs = {"iab", "late", "static", "none", "off"}
  MaxLookups = 2
  ActionTimeout = TRUE
CHECK_DEADLOCK FALSE
INVARIANTS NobodyWaitsUntimed FailuresForgotten
PROPERTIES GivenConsentKept ContinuesInformed WaitsEnd
