SPECIFICATION Spec
CONSTANTS
  None = None
  b24 = b24
  luci = luci
  base = base
  k = k
  key1 = key1
  key2 = key2
  u1 = u1
  Releases <- MCReleases
  Kernels = {k}
  Keys = {key1, key2}
  Servers <- MCServers
  InitLists <- MCInitLists
  UserLines = {u1}
  MaxLines = 10
  MaxRuns = 3
  MaxChanges = 1
  MaxFaults = 2
INVARIANTS
  TypeOK
  UserLinesStay
  OneBlockOfThisRun
  QuietRunListsAll
  QuietRunUpdates
CHECK_DEADLOCK FALSE
