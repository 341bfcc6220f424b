SPECIFICATION FairSpec
CONSTANTS
  Auctions <- FourAuctions
  Sources <- BothSources
  Origins <- TwoOrigins
  Asked <- MixedAsked
  Bids <- MixedBids
  Always = {}
  Https <- MixedHttps
  AuctionOf <- AuctionOfHttp
  SourceOf <- SourceOfHttp
  OriginOf <- OriginOfHttp
  MaxRequests = 2
  Yield <- FirstYields
  Elective = FALSE
  NoOrigin = NoOrigin
CHECK_DEADLOCK FALSE
INVARIANTS LimitHolds NotStranded
PROPERTY QueueDrains
