\* A signal comes and the listener does not fail.
CONSTANTS
  r1 = r1  r2 = r2  s1 = s1  m1 = m1
  Worker = Worker
  NoServer = NoServer
  Requests = {r1}
  Servers = {s1}
  Models = {m1}
  ModelOf <- OneModel
  Strategies = {"queue"}
  Distances = {1}
  Limits = {1}
  InitConfigs <- SingleSlots
  ServingLists <- OneServer
  MaxGen = 1
SPECIFICATION SignalSpec
CHECK_DEADLOCK FALSE
PROPERTIES SignalEndsProcess
