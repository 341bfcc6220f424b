SPECIFICATION CacheSpec
CONSTANTS
  Auctions <- TwoAuctions
  CachedBids <- TwoBids
  AuctionOf <- OneEach
  ttl <- SameTTL
  MinTTLs <- SomeMinTTLs
  MinTargeted <- SomeMinTargeted
  Slack = 1
  InView = FALSE
  MaxTime = 4
  Null = Null
CHECK_DEADLOCK FALSE
INVARIANTS FoundHasBlob
PROPERTIES KeptLongEnough
