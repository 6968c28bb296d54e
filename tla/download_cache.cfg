SPECIFICATION MCSpec
CONSTANTS
  feed = feed
  github = github
  html = html
  pattern = pattern
  tree = tree
  bin = bin
  upd = upd
  a = a
  b = b
  c1 = c1
  c2 = c2
  pkg = pkg
  root = root
  sub = sub
  NoSource = NoSource
  Cut = Cut
  Absent = Absent
  Sources = {feed, github, html, pattern, tree, bin, upd}
  Repacked = {bin, upd}
  Urls = {a, b}
  Packages = {pkg}
  Contents = {c1, c2}
  Configs <- MCConfigs
  Meta <- MCMeta
  Size <- MCSize
  Kind <- MCKind
  Place <- MCPlace
  DirOf <- MCDirOf
  Subdirs <- MCSubdirs
  Root = root
  Group <- MCGroup
  Rank <- MCRank
  PackageOf <- MCPackageOf
  perPage = 1
  maxRetries = 1
  MaxRuns = 2
  MaxPublish = 1
INVARIANTS
  TypeOK
  HandedOutMatches
  RefreshDownloads
  StaysAsHandedOut
  BuiltOfOwn
  NothingMissed
PROPERTIES
  OutageKeepsEntry
  CacheSpec
CHECK_DEADLOCK FALSE
