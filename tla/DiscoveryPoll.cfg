\* Two servers, two models; a server is dropped and configured again.
CONSTANTS
  s1 = s1  s2 = s2  m1 = m1  m2 = m2
  Servers = {s1, s2}
  Models = {m1, m2}
  ServerLists <- BothOrOne
  Down = Down
  NoDetails = NoDetails
SPECIFICATION FairSpec
CHECK_DEADLOCK FALSE
INVARIANTS TypeOK ListedOnce DetailsMatchModels
PROPERTIES LeavesForCause Converges StopReturns
