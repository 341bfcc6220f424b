SPECIFICATION TimerSpec
CONSTANTS
  Requests <- ServerRequests
  Secondary <- ServerSecondary
  Imps <- ServerImps
  Owner <- ServerOwner
  Calls <- ServerCalls
  S2S <- ServerS2S
  CallOf <- ServerCallOf
  Https <- ServerHttps
  Caller <- ServerCaller
  VideoImps <- ServerVideo
  Hook = "async"
  Yield = TRUE
  Faults = {"build", "send", "syncs", "bid"}
CHECK_DEADLOCK FALSE
INVARIANT TypeOK
PROPERTIES TimeoutReport KeepsPromise AlwaysCallsBack
