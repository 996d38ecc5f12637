\* The client leaves between the worker's Acquire and its send.
CONSTANTS
  r1 = r1  r2 = r2  r3 = r3  s1 = s1  s2 = s2  m1 = m1
  Worker = Worker
  NoServer = NoServer
  Requests = {r1, r2}
  Servers = {s1}
  Models = {m1}
  ModelOf <- OneModel
  Strategies = {"queue"}
  Distances = {1}
  Limits = {1}
  InitConfigs <- SingleSlots
  ServingLists <- OneServer
  MaxGen = 1
SPECIFICATION ServeSpec
CHECK_DEADLOCK FALSE
INVARIANTS NoOrphanedSlot
