SPECIFICATION Spec
CONSTANTS
  d1 = d1
  d2 = d2
  Dirs = {d1, d2}
  Apk = {d2}
  Pkgs = {"p", "q"}
  Versions <- MCVersions
  Rank <- MCRank
  Sums = {"a", "b"}
  Torn = "torn"
  Layouts <- MCLayouts
  StrayRoutes = FALSE
  Offers <- MCMixed
  MaxCands = 2
  Faults = {"unreadable", "helpers", "swap"}
INVARIANTS
  TypeOK
  IndexMatchesTree
  NoStaleSignature
PROPERTIES
  ShippedIsServed
  NoDowngrade
  OnlySupersededGo
