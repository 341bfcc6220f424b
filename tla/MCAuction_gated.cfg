SPECIFICATION AnswerSpec
CONSTANTS
  Requests <- PairRequests
  Secondary <- PairSecondary
  Imps <- PairImps
  Owner <- PairOwner
  Calls <- PairRequests
  S2S = {}
  CallOf <- PairCallOf
  Https <- PairHttps
  Caller <- PairCaller
  VideoImps <- PairVideo
  Hook = "gated"
  Yield = TRUE
  Faults = {}
CHECK_DEADLOCK FALSE
INVARIANTS NoBidOnce NobodyForgotten
PROPERTIES EarlyEndComplete EndsWithoutTimer
