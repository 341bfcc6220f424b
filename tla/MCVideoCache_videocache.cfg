SPECIFICATION FairSpec
CONSTANTS
  Bids <- FourBids
  MaxBatch = 2
  None = None
CHECK_DEADLOCK FALSE
INVARIANTS AnsweredOnce BatchesTimed
PROPERTIES StoresEach EachAnswered
