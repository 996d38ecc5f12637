\* Two servers are collected and come and go.
CONSTANTS
  s1 = s1  s2 = s2
  Servers = {s1, s2}
  Urls <- TwoUrls
  ServerSets <- AnySet
  MaxTokens = 2
  NoEntry = NoEntry
  Bad = Bad
SPECIFICATION HistorySpec
CHECK_DEADLOCK FALSE
INVARIANTS TypeOK PrevIsPublished NegativeForCause
PROPERTIES RateAfterSuccess StopReturns
