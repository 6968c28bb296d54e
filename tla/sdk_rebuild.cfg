SPECIFICATION Spec
CONSTANTS
  s1 = s1
  s2 = s2
  b1 = b1
  b2 = b2
  kmod = kmod
  tools = tools
  Srcs = {s1, s2}
  Builds = {b1, b2}
  Pkgs = {kmod, tools}
  Wants <- MCWants
  Matrix <- MCMatrix
  Name <- MCName
  Faults = {"make"}
  MaxMakes = 3
  MaxRuns = 2
INVARIANTS
  FailedRebuildKeeps
CHECK_DEADLOCK FALSE
