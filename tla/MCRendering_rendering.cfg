SPECIFICATION FairSpec
CONSTANTS
  Auctions <- TwoAuctions
  Units <- OneUnit
  Slots <- OneSlot
  Bids <- TwoBids
  AuctionOf <- OneEach
  UnitOf <- SameUnit
  SlotUnit <- SlotOfUnit
  useBidCache = TRUE
  enableSendAllBids = FALSE
  lockAdId = TRUE
  None = None
  DeferBilling <- OneBid
  Native <- OneBid
  suppressStaleRender = TRUE
  suppressExpiredRender = FALSE
  MaxRequests = 2
CHECK_DEADLOCK FALSE
INVARIANTS WrittenOnce BilledFirst WinnerWatched
PROPERTIES SoldOnce ResetSparesNew WinnerCleared
