SPECIFICATION FairSpec
CONSTANTS
  d1 = d1
  d2 = d2
  Dirs = {d1}
  Apk = {}
  Pkgs = {"p"}
  Versions <- MCVersions
  Rank <- MCRank
  Sums = {"a"}
  Torn = "torn"
  Layouts <- MCDropLayouts
  StrayRoutes = FALSE
  Offers <- MCOneDir
  MaxCands = 2
  Faults = {"unreadable", "copy", "prune", "nokeys", "badkey", "index", "signleaf", "helpers", "swap", "crash"}
PROPERTIES
  OnlySupersededGo
  FullSwapsComplete
  ReindexHeals
  HelpersMatch
  
  BuildEnds
