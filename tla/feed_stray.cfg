SPECIFICATION Spec
CONSTANTS
  d1 = d1
  d2 = d2
  Dirs = {d1, d2}
  Apk = {}
  Pkgs = {"p"}
  Versions <- MCVersions
  Rank <- MCRank
  Sums = {"a"}
  Torn = "torn"
  Layouts <- MCLayouts
  StrayRoutes = TRUE
  Offers <- MCTwoDirs
  MaxCands = 2
  Faults = {}
PROPERTY CollectedIsServed
