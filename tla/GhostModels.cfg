\* A deleted server is never polled again, so its models stay.
CONSTANTS
  s1 = s1  s2 = s2  m1 = m1  m2 = m2
  Servers = {s1, s2}
  Models = {m1}
  ServerLists <- BothOrOne
  Down = Down
  NoDetails = NoDetails
SPECIFICATION FairSpec
CHECK_DEADLOCK FALSE
PROPERTIES RemovedServerForgotten
