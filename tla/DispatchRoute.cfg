\* Two servers, near and far, in changing lists; the strategy changes too.
CONSTANTS
  r1 = r1  r2 = r2  r3 = r3  s1 = s1  s2 = s2  m1 = m1
  Worker = Worker
  NoServer = NoServer
  Requests = {r1, r2}
  Servers = {s1, s2}
  Models = {m1}
  ModelOf <- OneModel
  Strategies = {"error", "best_effort"}
  Distances = {1, 2}
  Limits = {1}
  InitConfigs <- NearAndFar
  ServingLists <- AnyOrder
  MaxGen = 1
SPECIFICATION HistorySpec
CHECK_DEADLOCK FALSE
SYMMETRY RequestSymmetry
INVARIANTS ClosestFirst FallbackOnlyWhenFull LimitInTurn EveryMemberInTurn
