SPECIFICATION FairSpec
CONSTANTS
  Auctions <- TwoAuctions
  Bids <- TwoBids
  AuctionOf <- AuctionOfBid
  Configs = {"rates", "file", "defaults", "off"}
  Delay = TRUE
  Failures = TRUE
  MaxId = 3
CHECK_DEADLOCK FALSE
INVARIANT NobodyStranded
PROPERTIES GivenRatesStay RejectedForCause WaitsEnd
