SPECIFICATION FairSpec
CONSTANTS
  Modules <- TwoModules
  Callers <- TwoCallers
  Auctions <- OneAuction
  Given <- TwoConsents
  MaxRefreshes = 2
CHECK_DEADLOCK FALSE
INVARIANTS AskedUnderConsent WaitsForSomething
PROPERTIES CompleteWhenGiven EachAnswered
