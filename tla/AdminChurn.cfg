\* Three administration requests on up to two servers; the process may crash once.
CONSTANTS
  u1 = u1  u2 = u2  u3 = u3  r1 = r1  r2 = r2  r3 = r3
  Requests = {r1, r2, r3}
  Urls = {u1, u2, u3}
  Distances = {0, 1, 2}
  Globals <- AllGlobals
  Env <- Environment
  Ops <- SmallOps
  InitFiles <- StartFiles
  Missing = Missing
  Unset = Unset
  Boot = Boot
  NoClient = NoClient
  NoOne = NoOne
  Truncated = Truncated
  MaxRestarts = 1
SPECIFICATION HistorySpec
CHECK_DEADLOCK FALSE
SYMMETRY RequestSymmetry
INVARIANTS TypeOK FileMatchesStore ConfiguredArePooled SyncedInTurn SavedIsValid
