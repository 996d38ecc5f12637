\* A server is deleted and the collector comes to it again.
CONSTANTS
  s1 = s1  s2 = s2
  Servers = {s1, s2}
  Urls <- TwoUrls
  ServerSets <- AnySet
  MaxTokens = 2
  NoEntry = NoEntry
  Bad = Bad
SPECIFICATION HistorySpec
CHECK_DEADLOCK FALSE
INVARIANTS CollectorRuns
