SPECIFICATION Spec
CONSTANTS
  base = base
  luci = luci
  apk = apk
  Leaves = {base, luci, apk}
  ApkLeaves = {apk}
  MaxIndexes = 2
  MaxKeys = 3
SYMMETRY OpkgSymmetry
INVARIANTS
  TypeOK
  PublishedIsTrusted
  SignMends
  HelpersDescribeTree
CHECK_DEADLOCK FALSE
