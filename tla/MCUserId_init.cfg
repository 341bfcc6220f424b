SPECIFICATION Spec
CONSTANTS
  Modules <- TwoModules
  Callers <- TwoCallers
  Auctions <- OneAuction
  Given <- TwoConsents
  MaxRefreshes = 2
CHECK_DEADLOCK FALSE
PROPERTIES RefreshInitializes
