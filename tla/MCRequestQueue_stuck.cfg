SPECIFICATION FairSpec
CONSTANTS
  Auctions <- ThreeAuctions
  Sources <- BothSources
  Origins <- TwoOrigins
  Asked <- SharedAsked
  Bids <- SharedBids
  Always = {}
  Https <- SharedHttps
  AuctionOf <- AuctionOfShared
  SourceOf <- SourceOfShared
  OriginOf <- OriginOfShared
  MaxRequests = 1
  Yield = {}
  Elective = TRUE
  NoOrigin = NoOrigin
CHECK_DEADLOCK FALSE
PROPERTY QueueDrains
