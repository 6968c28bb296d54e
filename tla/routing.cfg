SPECIFICATION MCSpec
CONSTANTS
  MaxInt = 19
  None = None
  b24 = b24
  b25 = b25
  a53 = a53
  x86 = x86
  all = all
  noarch = noarch
  filogic = filogic
  mt7622 = mt7622
  mediatek = mediatek
  x64 = x64
  k1 = k1
  k2 = k2
  archAll = all
  archNoarch = noarch
  Archs = {a53, x86}
  Versions <- MCVersions
  KmodVersion <- MCKmodVersion
  ApkBranches = {b25}
  Filters <- MCFilters
  TargetFilters <- MCTargetFilters
  Items <- MCItems
  Routers <- MCRouters
INVARIANTS
  OfferedIffSuitable
  NameFilterIsSound
  ComparesAsDocumented
CHECK_DEADLOCK FALSE
