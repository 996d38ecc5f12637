\* One server with two models that come and go; the settings change at any moment.
CONSTANTS
  s1 = s1  m1 = m1  m2 = m2
  Servers = {s1}
  Models = {m1, m2}
  ServerLists <- OneList
  Down = Down
  NoDetails = NoDetails
  MaxInt = 1048575
  Metas <- SmallToTooLarge
  Unreadable = Unreadable
  Outputs = {0, 1048575}
  Buffers = {0, 1048575}
  Documents <- WrittenDocuments
  NoEntry = NoEntry
SPECIFICATION HistorySpec
CHECK_DEADLOCK FALSE
SYMMETRY ModelSymmetry
INVARIANTS CommentsStripped DescribedUnlessDropped
PROPERTIES EntriesFit
