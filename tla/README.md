# openwrt-feed-builder: a verification project

The program collects OpenWrt packages from several kinds of sources, places
them in a tree of feed dirs that routers read with `opkg` or `apk`, writes and
signs an index in each dir, and writes the `add.sh` scripts and public keys that
routers install. It is a command-line program: every command is one sequential
process that ends. What makes it hard is not threads but what *outlives* a
process: the output tree, its staging and backup siblings, the cache, and the
copy on the server. Runs follow one another in any order and with any flags,
each may fail or be killed at any point, and the next one starts from what is
left.

All paths below are relative to `src/internal/feedbuilder/` unless they begin
with `src/`.

## 1. The system

| Component | State it keeps | Operations | Interacts with |
|---|---|---|---|
| Feed build (`build.go`) | the served tree, `<output>.building`; in the process `buildRun` (`leafDirs`, `newVersions`, `prunedDirs`) | `Build`: collect, snapshot, parse, candidates, place, prune, signing, index, helpers, swap, cache clean-up | everything below |
| Tree swap (`build.go`, `swapTree`) | `<output>`, `.building`, `.old` | stage, remove the old backup, two renames, roll-back | served by `serve` or a web server, sent by `publish` |
| Source collection (`commands.go`, `collectPackages`) | counts of failed sources | resolve a source, filter by name, get each URL | sources, cache, routing |
| Download cache (`download.go`) | `<cache>` files, the set of used entries | `get`, `do` (retries), `fetchToFile`, `cachedMismatch`, `gc` | HTTP servers, collection, clean-up |
| SDK builds (`sdk.go`) | `<cache>` directories with a `.done` marker | plan, group, external `make`, harvest, mark | an external buildroot, clean-up |
| Routing (`layout.go`, parts of `commands.go`, `build.go`) | none | branches, releases, filters, targets, destinations | collection, build, `add.sh` |
| Index and signatures (`index.go`) | `Packages`, `Packages.gz`, `Packages.sig`, `packages.adb` per dir | write, sign, verify, key preparation | build, `sign`, `verify` |
| `sign` and `verify` (`commands.go`) | the tree | re-sign, regenerate helpers; check signatures, public keys, key id | publish |
| Router helpers (`repohelpers.go`) | `add.sh` per release, `repo.pub`, `repo-apk.pem`; on a router its feed list and keys | write from the list of feed dirs and keys; `add.sh`: install the key, remove the old block, probe, write the new one, update | builds, the server, the router's user |
| Publish and fetch (`src/Makefile`) | the tree on the server | `verify` then transfer; transfer back | `sign`, `verify` |
| Version order (`version.go`) | none | `compareVersion` | place, prune, reports |
| Sources (`sources.go`) | none | listings of GitHub releases and trees, feeds, HTML pages, patterns | servers, collection |
| Repacking (`binary.go`) | built packages in the cache, named by package, version, architecture | get release files, build a package of each | collection, cache |
| Codecs (`apk.go`, `ipk.go`) | none | read and write packages and indexes | build, index, sign |
| Config, serve, token, colour, CLI | none | loading, a static file server, flags | all |

### What is hard in it, and what makes each part correct

* **Feed build.** Which dirs need a new index is known to the process only.
  Three steps add to `leafDirs`, one uses it up, and files change in between. An
  incremental run works on the tree routers are reading; a `--full` run has to
  leave it alone until its own is complete. Correct means: index and files
  agree, nothing is downgraded or deleted that no run supersedes, a `--full`
  run replaces whole trees only, `--reindex` repairs the rest, the helpers name
  what is there.
* **Tree swap.** Renames that fail or are cut off by a kill. Correct means:
  routers see nothing or one finished build and never go back to an older one;
  no single fault loses the feed.
* **Download cache.** Content behind a URL changes, answers fail, bodies break
  off, entries of older runs are around. Correct means: what is handed out is
  what the listing promised, `--refresh` refreshes, an outage costs no entry.
* **Sources and repacking.** A listing takes many requests, and the server may
  change between any two; two sources may name one URL or one package. Correct
  means: what was there all the time is found, a failure is never taken for an
  empty answer, and a file handed out stays what it was.
* **SDK builds.** Sources share a make run and its output directory; a marker
  is all that says "complete". Correct means: marked is complete, not failed is
  served, clean-up spares what is configured.
* **Sign, verify, publish.** Host, signing machine and server see the tree at
  different times; keys rotate. Correct means: whatever `verify` lets through,
  routers trust.
* **`add.sh`.** A shell script edits a file that belongs to the router's user,
  over a network, and may be cut off at any line. Correct means: the user's
  lines survive, one block of the last run is left, and a run nothing disturbed
  configures what the server has.
* **Version order.** Every decision on what is newest or superseded rests on it.
  Correct means: it is an order, whatever it is given, and the documented one.
* **Routing.** Format, architecture, target, kernel, tag, settings and filters
  together decide; two filters must agree. Correct means: a package is offered
  to the routers it is for and to no others.

The full list, at the lines where each hazard bites, is `hazards` in
`PROJECT.json`.

## 2. Modules

| Module | Models | Composition |
|---|---|---|
| `FeedBuild` | `Build` over any number of runs | its swap is one step; `SwapTree` opens it |
| `SwapTree` | staging and `swapTree`, rename by rename | implements `ServedFeed` |
| `ServedFeed` | *abstract*: what routers see of a feed | instantiated by `SwapTree` |
| `DownloadCache` | the cache of downloads and repacked packages, with the server | its listings are one step with any result |
| `Collection` | the sources, listed request by request | extends `DownloadCache` and implements it (`CacheSpec`); its result is the candidates of `FeedBuild` |
| `SdkCache` | groups, markers and their clean-up | the same |
| `SignPublish` | tree, server, keys, `sign`, `verify`, `publish`, `fetch` | a build is one step with the outcomes a build has for indexes and signatures |
| `Installer` | `add.sh` on a router | reads the server that `SignPublish` publishes to, as any of a few states |
| `Routing` | a package from listing to feed dirs, and the routers | decides the `dir` of a candidate in `FeedBuild` |
| `Versions` | `compareVersion`, and the order it is meant to be | gives `FeedBuild` and `Collection` their `Rank` (theorem `RanksExist`) |
| `*_proofs` | theorems, section 4 | extend their module |
| `MC*` | constants of the TLC instances | extend their module |

### FeedBuild

A feed dir is three sets: the package `files` in it, the files its `index`
lists, and the index its signature `sig` was made for. `out` and `building` are
functions from feed dirs to these; a file is a package, a version and a content.
`Rank` gives a version its place in the order of `compareVersion`: different
versions may have the same rank, as `2` and `2-0` do.

`pc` follows `Build` top to bottom. The variables of the process are those of
`buildRun`: `leaf` is `leafDirs`, `kept` is `newVersions`, `gone` is
`prunedDirs`, `rel` is `relPaths`, `failed` is `indexFailures > 0`, `keys` is
`keys != nil`. They are reset by `EndRun`, whatever the reason; only the two
trees and the feed dirs the helpers know of (`named`) survive.

| Action | Code |
|---|---|
| `StartRun`, `RefuseRun` | `Build` up to `parse`: any candidates, any flags, any layout of `Layouts` |
| `PlaceSlot(d, p)` | `placeSlot`: newest first, falling back on unreadable or uncopied files; a byte-identical file stays |
| `Prune` | the files `supersededFile` picks; those that cannot be removed stay |
| `PruneReleases` | `pruneReleases`; a removal may fail half way |
| `Signing`, `SigningFails`, `ReindexFails` | `signing`, and what `index` adds for `--reindex` |
| `IndexLeaf(d)`, `IndexLeafFails(d)` | `indexLeaf`, with a signature that may fail |
| `EndIndex`, `KeepPrevious` | the index-failure check, `withSnapshotDirs` |
| `Helpers`, `StageHelpers`, `HelpersFail` | `helpers`; an incremental run ends here |
| `Swap`, `SwapFails` | `swapTree` as one step |
| `Crash`, `CrashCopying`, `CrashIndexing` | a kill between or inside steps |

`Faults` says what may go wrong in an instance. An unset fault is an assumption
of the run's properties and is named with them.

### SwapTree

The three paths hold trees; a tree is the number of the build it is of and
whether all of it is there. Removing a tree that is cut short leaves one that is
not whole. Each call of `swapTree` is an action and has a failing form; a kill
may come between any two. `View` maps the state to `ServedFeed`: what is at
`<output>`, or a build nobody finished if it is not whole, which the abstract
feed never shows. Between the two renames of a killed swap the feed is at `.old`
only, and off the air until the next finished build: that is what the code does,
and the properties are about what is still on disk.

### DownloadCache

`upstream` is what the server has, `file` and `tmp` are the cache on disk,
`built` the packages that binary sources make. `left`, `source`, `listed`,
`todo`, `got`, `used`, `marked` and `fetched` are one run's. Several sources may
list one URL, each with the metadata its kind exposes (`Meta[s]`: a checksum, a
size, nothing), and so disagree about one cache entry.

`get` is split where the outside world can act: `Reuse` or `Request`, the
answers (`Answered`, `RequestFails`, `TryAgain`), the stream (`Copied`,
`CopyFails`), and the check after the rename (`Accept`, `Reject`). `Publish`
changes a server's content between any two of them. `HandOut` is what happens to
a file that `get` returns: it is collected, or, for a `Repacked` source, built
into a package at once, in a file that other sources may share. A binary source
that fails in one file gives up as a whole (`DropSource`, `CannotBuild`), any
other loses only the file (`DropFile`). `Gc` drops what was not marked,
`GcStops` stops at an entry it cannot remove, `NoGc` is a run that may not clean
up; `Kill` may come at any step.

### Collection

How the one-step listings of `DownloadCache` come about. A source has a `Kind`;
`Ask` starts its list of requests, `pending`, and each answer adds to `found`:

| Kind | Requests | Actions |
|---|---|---|
| `github` | the release, then pages of `perPage` assets until one is not full | `Release`, `Page` |
| `github_dir` | the root directory, then every subdirectory it finds | `Directory` |
| `feed` | three indexes, in turn, until one can be read | `Index`, `NoIndex` |
| `html` | one page | `Html` |
| `ipk` | one page, of which the newest file of each name and architecture | `Pattern` |
| `url` | none that looks for the file | `Resolved` |

`Listed` hands the result to the cache and must be one of its `ListSource` steps;
`SourceFails` is one of `ListFails`, with which everything found so far is
dropped. `Change` is `Publish` together with the order of assets: a replaced
asset is deleted and uploaded again, so others move to other pages. `order` is
that order as a relation, and an asset's page follows from how many come before
it. The history
variables `due` (what a source had to offer at all times since the run began)
and `shifted` (assets moved between two requests) are for `NothingMissed`.

### SdkCache

A cache directory has `files`, may be `done`, and may be `torn` (its removal was
cut short by a kill). Sources of one build are one group with one make run whose
output is `made`; the code's `tmp` directory is the newest entry. `Group`
starts a group, `MakeDone` or `MakeFails` ends the compile, `Clear`, `Fill`,
`MarkDone` and their failures are `sdkRunGroup`, one file operation each.
`Collect` is what the sources then get, `Cleans` and `Stale` the clean-up. That
make starts from an empty directory is assumed of the external buildroot.

### SignPublish

`tree` is the local tree and `server` the published one: for each dir the
generation of `Packages` (`index`) and of `Packages.gz` (`gz`), and the key and
index of its signature; for each format the public key and the key id baked into
`add.sh`; and the feed dirs `add.sh` names. `Build` brings new indexes to any
dirs, signed, unsigned or partly signed; `BuildFails` stops in some of them
between `Packages`, `Packages.gz` and the signature (`CutShort`). Commands run
one at a time, in any order. The Makefile's `publish` runs `verify` first; a
transfer may break off and leave a mixture (`whole` is then false).

### Installer

`conf` is the router's feed list, a sequence of lines: the BEGIN and END of the
script's block, feeds, lines of the format before there were blocks, and the
user's. `keys` is the key directory. A run goes through the steps of the
templates of `repohelpers.go`: `InstallKey`, `RemoveBlock` (the `sed` call),
`BeginBlock`, one `AddFeed` or `NoFeed` for each directory it probes, `EndBlock`,
`Update`. `Script(release)` is what the script was generated with, from the
server's tree at that time. Around it the server is rebuilt (`Rebuild`), the
router upgraded (`Upgrade`), the user edits the list (`AddUserLine`); downloads,
`sed` and probes fail (`NoKey`, `RemoveFails`, `ProbeFails`), and any step may be
the last (`Interrupt`). `opkg` and `apk` themselves are external: an update
succeeds if every listed feed is there and its key is known.

### Routing

One package is followed from a listing (`Fetch`, `NotFetched`) through the
filters of `parse` (`Skip`) to its feed dirs (`Route`), together with the
architectures the other packages of the run have. A file name is the
architecture and the target it carries, each as it is spelt there; how a name is
split into tokens is not modelled. `noarch` and `all` are two values. The
metadata of an apk package says `all` where the package says `noarch`
(`archOf`); its name and the listing may still say either, and a target in a name
is only found after the architecture one looks for (`detectTarget`).

### Versions

A version is a sequence of characters, a character its ASCII code. `Atoi`,
`splitVersion`, `order`, `cmpPart` and `compareVersion` follow `version.go`; a
run of digits above `MaxInt` counts as 0, as `strconv.Atoi` with its error
dropped does. The loops of `cmpPart` are a recursive function on the two
positions. The reference is written the other way round: `Keys` turns a
version into three sequences of numbers, once, and `Before` compares these.
`versions` is the pair being compared; every state of the run `routing` that has
one is a comparison.

## 3. Runs

| Run | Instance | Shows |
|---|---|---|
| `feed_steady` | 2 dirs (one opkg that stays, one apk the layout may drop and take up again), 2 packages, 3 versions of which 2 rank equal, 2 contents, 2 candidates a run; unreadable downloads, failing helpers and swaps | `IndexMatchesTree`, `NoStaleSignature`, `ShippedIsServed`, `NoDowngrade`, `OnlySupersededGo` |
| `feed_faults` | 1 dir the layout may drop, 2 versions, every fault and kill | `OnlySupersededGo`, `FullSwapsComplete`, `ReindexHeals`, `HelpersMatch`, `UnsignedReindexClears`, `BuildEnds` |
| `feed_stray` | two opkg dirs; sources may name an unlisted release, no fault | **violated** `CollectedIsServed` |
| `feed_badkey` | an opkg and an apk dir, only a broken public key | **violated** `FailedBuildKeepsFeed` |
| `swap_tree` | 5 builds, 3 faults | `IInv`, `ImplementsServedFeed`, `NoSingleFaultLosesFeed`, `NoSingleErrorHidesFeed` |
| `sdk_cache` | 2 sources sharing a build, one with a second target, 3 make runs, 2 runs; failing makes and file operations, kills | `DoneMeansComplete`, `NotFailedIsServed`, `CleanUpKeepsConfigured` |
| `sdk_rebuild` | the same, failing makes only | **violated** `FailedRebuildKeeps` |
| `download_cache` | `Collection` with 7 sources, at least one of each kind, over 2 URLs; 2 contents of one size, 1 retry, 2 runs, 1 change of the server | `HandedOutMatches`, `RefreshDownloads`, `StaysAsHandedOut`, `BuiltOfOwn`, `OutageKeepsEntry`, `NothingMissed`, `CacheSpec` |
| `sign_publish` | 2 opkg dirs (symmetric) and 1 apk, 2 indexes, 3 keys: one of the formats gets a second one | `PublishedIsTrusted`, `SignMends`, `HelpersDescribeTree` |
| `publish_gz` | the same | **violated** `PublishedIsAccepted` |
| `routing` | 2 branches of 2 releases, 2 architectures, 3 targets, 2 kernels, every mix of settings; and every pair of versions of up to 3 of 8 characters | `OfferedIffSuitable`, `NameFilterIsSound`, `ComparesAsDocumented` |
| `installer` | opkg and apk, 2 releases of a branch, 2 keys, 3 states of the server, 3 runs, 1 change, 2 faults, 1 line of the user | `UserLinesStay`, `OneBlockOfThisRun`, `QuietRunListsAll`, `QuietRunUpdates` |

One passing run of each stateful module also checks its `TypeOK` (in `swap_tree`
it is part of `IInv`; `routing`, which follows one package, has none).

What some properties leave out, because the code does not give it:

* `NoStaleSignature` needs that no run is killed, no index is written in part, no
  removal is cut short and no signing fails. After any of these a stale signature
  may be there; `UnsignedReindexClears` is that an unsigned `--reindex` run that
  succeeds gets rid of it. A signed one whose signing fails again leaves it.
* `DoneMeansComplete` and `NotFailedIsServed` exempt directories whose removal
  was cut short (`torn`): the marker may have outlived some of the files, and the
  code serves what is left.
* `StaysAsHandedOut` exempts what a second get of the same URL does replace
  (`Replaces`): a file that its source's listing contradicts, and under
  `--refresh` every file, since such a run downloads it again for each source.
* `NameFilterIsSound` exempts names that spell the architecture before their
  target otherwise than `parse` does, unless the source sets the target (section
  5). Without this exemption TLC finds such a name.
* `ComparesAsDocumented` exempts numbers that overflow, `UserLinesStay` lines
  below a block that was cut short, `NothingMissed` runs in which assets moved
  between two requests, `BuiltOfOwn` two packages of one name, version and
  architecture, `PublishedIsTrusted` a `Packages.gz` that differs from `Packages`
  and a transfer that broke off.

### Bounds, and why they are enough

* **FeedBuild.** Ranks 1 and 2 give older, equal and newer; a second version of
  rank 2 and a second content of one version give the two ways in which files
  that are not the same compare as equal. Two candidates a run give a fallback
  and a duplicate. The number of *runs* is not bounded: states repeat, so TLC
  covers every sequence of runs. Dirs influence each other only through `leaf`,
  `failed`, `gone` and `rel`, which two dirs exercise; packages only through a
  shared dir, which two packages exercise.
* **SwapTree** needs three builds to have a served tree, a backup and a staged
  one that all differ; five leave room for a recovery after three faults.
* **Collection and DownloadCache**: the second run finds what the first cached,
  and configurations pair the sources that share a URL (`feed` with its
  checksum and `html` with no metadata) or a package (`bin` and `upd`). Pages of
  one asset make a listing of two assets three requests long. At the start one
  of the URLs is always there; the one change of the server may come anywhere.
* **SdkCache**: two sources that share one build but not the other is the least
  case in which one source's failure could touch another. Three make runs allow a
  rebuild of one build after both were made.
* **SignPublish**: one rotation gives a format an old and a new key,
  beside the other format, whose key stays; two indexes "before and
  after a rebuild"; a second opkg dir makes partly signed trees possible.
* **Installer**: three runs are one that leaves debris, one that meets it, and
  one after; two faults allow an interrupted run and a failure in the repair.
  `MaxLines` only bounds a list whose old block `sed` could not remove.
* **Routing** has no bound in depth; two releases per branch tell the default
  from the one a source asks for, and a listed tag from an unlisted one.
* **Versions**: three characters are the least for an epoch or a revision with
  something on both sides of its separator, and for a number between other
  characters. `MaxInt = 19` lets two digits overflow.

Deadlock is checked in the feed builds, where a new run can always start. The
other instances stop at the bounds of their counters or, in `routing`, with the
package at its destination, so their configurations say `CHECK_DEADLOCK FALSE`.

### Fairness

`FairSpec` asks for weak fairness of `Step`, the steps of a running build and
nothing else. The code justifies it: a build is one goroutine that never waits
for another one, and every call it makes returns or fails. Nobody is forced to
start a run, and no fault or kill is forced to happen. `BuildEnds` is then
that no phase is stuck and no slot is tried again and again.

## 4. Proofs

All are for every value of the constants that satisfies the named assumptions of
the module (`ConstantsAssumption` and `OffersAssumption` of `FeedBuild`,
`BoundsAssumption`, `CacheAssumption`, `CollectionAssumption`, `SdkAssumption`,
`SignAssumption`, `RoutingAssumption`, `InstallerAssumption`,
`MaxIntAssumption`), which TLC evaluates in the runs. What the newer ones say of
the code: `RoutingAssumption`, that releases are finitely many and numbered,
routers run one of them, none has the architecture `all`, a package has a real
one, `all` or `noarch`, which is another word, and the empty string is no release,
branch or architecture;
`CollectionAssumption`, that URLs are finite, versions have ranks and a
directory tree hangs from its root; `InstallerAssumption`, that a build writes
each feed into its script once and that the script's blocks are in no list
before it first ran. The theorems of `FeedSteady_proofs` and two about sdk
sources state one more assumption, said below.

* **FeedBuild_proofs** (any faults).
  - `TypeCorrect`, `Invariance`, `FullSwapsCompleteCorrect`,
    `ReindexHealsCorrect`. Types alone do not give the two properties: they are
    about the step that ends a run, which trusts what earlier phases did.
    `IInv` says what that is. `StagingInv`: in a `--full` run, every dir of the
    staging tree whose index does not list its files is marked or has made the
    run a failed one, and a slot still to be placed has no file there to lose.
    `ReindexInv`: the same of the work tree of a `--reindex` run, once `index`
    has begun, for the dirs that hold files. `EndInv`: when indexing is over no
    dir is left marked, and no index of a `--full` run has failed. There is a
    lemma for each phase that disturbs a part (`PlaceInv`, `PruneInv`,
    `IndexInv`).
  - `UnsignedReindexClearsCorrect`, by `ClearInv`: once such a run indexes, a dir
    with packages has no signature, is still marked, or has made the run fail.
  - `OnlySupersededGoCorrect`, by `KeptInv`: what a run keeps it has a candidate
    of, so what `prune` removes is older than one.
  - `HelpersMatchCorrect`, by `HelpersInv`: the dirs indexed so far and those of
    the snapshot are, among the carried and the removed ones, those with an index.
* **FeedSteady_proofs**: `IndexMatchesCorrect`, `NoDowngradeCorrect`,
  `ShippedCorrect`, under `Steady`: only unreadable downloads, missing keys and
  failing helpers and swaps may happen (in the run `feed_steady` a run without
  keys is one without `--sign`). The other faults are excluded, also a failing
  signature, though `Build` goes on after one. `NoStaleCorrect` excludes only
  `PartingFaults`: failing signatures, indexes and removals, and kills; it
  holds with failing copies and broken keys too. What holds under all faults is
  the first module's. `ShippedCorrect` also assumes that sources name listed
  releases only; `feed_stray` is what happens otherwise. `MarkedInv` says that
  a dir whose index does not list its files is marked and can be indexed,
  `PlacedInv` that a slot is placed once and that its file is there with
  nothing older beside it after pruning, `NewerInv` that whatever an index
  lists its dir has in that version or a newer one, and `SigInv` the same of
  signatures as the property, for both trees.
* **SwapTree_proofs**: `SwapInvariance`, `Refinement`, `SingleFaultCorrect`,
  `SingleErrorCorrect`. `SwapTree!IInv` says that `<output>` holds nothing or the
  newest finished build (`seen`), that only a complete tree gets as far as the
  swap, and that what a roll-back puts back is what was taken away. `StepRefines`
  maps each step to `Show`, `Hide` or a stutter of `ServedFeed`. `FaultInv`
  counts what one fault can have cost.
* **Collection_proofs**, of the cache: `CacheInvariance`, `CacheTypeCorrect`,
  `HandedOutCorrect`, `RefreshCorrect`, `SharedUrlsStay`, `PackagesAreOwn`, `CleanupCorrect`.
  `DownloadCache!IInv` adds to the properties `GotOnce` (a source gets a URL
  once in a run; without it a second get could replace a file already handed
  out), `Contradicted` (an entry is requested only when it cannot be used, so a
  source that replaces one has a listing against it) and `MarkedWhenListed`
  (what a listing named is marked before the clean-up, if that runs).
* **Collection_proofs**, of the listings: `CollectionImplementsCache`, step by
  step, and from it `CollectionDelivers`: the cache's theorems hold of what the
  listings bring. `CollectInvariance` and `NothingMissedCorrect`: `CollectInv`
  says of each file that a source offered all the time since the run began that
  it is listed, or was found, or is still to come (`ToCome`): on a page the
  source has yet to ask for, in a directory it knows of or will learn of, behind
  the next index. The step that could lose one is a page of `github`: `LowerPlace`
  says that an asset that keeps its place among the others is on no earlier page,
  `PlacesAreTaken` and `PageIsFull` that a page that is not full is the last one.
* **SdkCache_proofs**: `SdkTypeCorrect`, `CleanUpCorrect`; and `DoneCorrect`,
  `ServedCorrect` under `NamesDiffer`: two sources have different cache
  directories. Without it both are wrong (section 6). `GroupInv` and
  `HarvestInv` say what the directory being filled is at each step, `ReadyInv`
  and `ServedInv` what the sources that are done with have, `UsedInv` that a
  build is marked as used or still to come.
* **SignPublish_proofs**: `SignTypeCorrect`, `PublishedCorrect`,
  `SignMendsCorrect`, `HelpersCorrect`, for any feed dirs and any number of keys.
  The properties are inductive once the shape of a tree is (`TypeOK`).
* **Routing_proofs**: `RouteInvariance`, `OfferedCorrect`, `NameFilterCorrect`,
  for any branches, releases, targets, packages and filters. `RouteInv` says what
  a package that got as far as its dirs has passed; the rest is that the dirs of
  `destinations` are, dir for dir, those a suitable router reads (`TargetOffered`,
  `BranchOffered`), for which the release the code falls back on has to be the
  newest there is (`NewestExists`, `DefaultRelease`).
* **Routing_proofs**, of the version order: `VersionsAreOrdered`: `Before` is a
  strict weak order on the keys of versions, so that "newest" and "older" mean
  something. `CompareCorrect`: `compareVersion` computes `Before`, for versions
  of every length. It assumes of `versions` that these are two sequences of
  characters, and nothing else. `CompareIsAnOrder`: also with numbers that
  overflow, the result is the same from either side and carries over.
  `RanksExist`: so the versions of any finite set have ranks, which is all that
  `FeedBuild` and `Collection` assume of versions.

  These are facts about recursive definitions, and the library's induction
  theorems cannot be used here, so the principles are stated with sets. In
  `Induction` what holds is a set of numbers; `Recursion` says that a recursion
  on a falling measure (`Recursive`) has a solution, so that the functions `Key`,
  `Value` and `cmpPart` define with `CHOOSE` satisfy their equations
  (`KeyExists`, `ValueFacts`, `TurnsExist`). The invariant of the loops is
  `TurnCompares`: if every later turn of `cmpPart` compares what is left of the
  two parts by their keys (`Keyed`, `Compared`), so does this one. A turn of
  other characters takes one number from both keys (`KeyAtOther`), a turn of
  digits two, the 0 and the value (`KeyAtDigits`); a difference decides
  (`FirstDecides`), and what is equal can be dropped (`RestDecides`).
  `PartsByKeys` adds the induction on what is left. It takes whatever the digits
  count for: with what `Atoi` returns it gives `CompareIsAnOrder`
  (`CompareByReadings`), and since without an overflow that is their value
  (`NoOverflow`), also `CompareCorrect` (`CompareByKeys`).
* **Installer_proofs**: `InstallInvariance`, `InstallTypeCorrect`,
  `UserLinesStayCorrect`, `OneBlockCorrect`, `QuietRunListsAllCorrect`,
  `QuietRunUpdatesCorrect`. None of the properties is inductive. `LinesInv` says
  which lines are inside a block: all that the script writes, so that `sed`
  leaves the user's lines only, and none the user added elsewhere. It needs that
  the block being written is open to the last line, and that lines added around
  a block do not change what is in it (`SameBlock`). `TodoInv` says that what is
  left to ask for is the rest of what the script wants (of the first place
  perhaps only the second dir), `BlockInv` that the block so far has feeds of the
  places passed, in order; a dir has one place only (`PlacedOnce`), which is why
  no feed is listed twice. `ListsInv` is what a run that nothing disturbed has
  listed after so many places, `RunInv` that such a run is one of the server's
  present script and has its key. All of it was checked by TLC on the instance of
  `installer` first.

Only model-checked: `BuildEnds`, which is liveness. Every other property of a
passing run is stated by a theorem. Only proved: `CollectionDelivers`,
`CompareIsAnOrder`, `RanksExist` and `VersionsAreOrdered`, which no run states.

## 5. Where code and documentation disagree

* **A release the layout does not list** (`feed_stray`). `config.example.yaml`
  and the README say that `kmod_version` on any source sets its release. With a
  release of a carried branch that `layout.version` does not list, packages are
  placed and `pruneReleases` removes them in the same run; the index of the
  missing dir then fails the build, every time.
* **A broken public key** (`feed_badkey`). The comment on `signing` promises that
  the previous feed stays. For an incremental run it has by then been changed:
  superseded files are gone and the old index still lists them.
* **A build that stops inside an index** (`publish_gz`). The Makefile says that
  `publish` refuses broken signatures. `Packages` and `Packages.gz` are written
  one after the other; if a build stops in between, a later `sign` signs
  `Packages`, `verify` checks `Packages`, and `publish` sends the tree. Routers
  read `Packages.gz`, which the signature is not for.
* **A rebuild that compiles but has nothing to harvest** (`sdk_rebuild`). The
  comment says a failed rebuild keeps the previous one. That is so when make
  fails; when harvesting does, the directory has already been removed.

Two more have no run of their own; the models show them, and the property named
exempts them:

* **A signature that fails** (`NoStaleSignature`). The comment in `indexLeaf`
  says that a stale signature is worse than none, and an unsigned run removes it.
  When `usign` fails in a signed run, the old `Packages.sig` stays next to the
  new index, the dir counts as no failure, and the build exits 0 (`build.go:719`).
* **`noarch` before a target** (`NameFilterIsSound`). The comment on
  `fileNameAllowed` says that it only rejects what the name proves. An apk
  package whose name ends in `_noarch_<family>_<subtarget>` is judged by that
  target (`layout.go:340`, `353`); `parse`, for which the package is `all`
  (`apk.go:492`), finds no target in the name and would keep it
  (`build.go:274`). The two disagree only if `architectures:` is set.

## 6. Not modelled

* Package formats (`ipk.go`, the containers of `apk.go`), configuration, the file
  server, tokens and terminal output, reports and the command line: pure
  functions or plain I/O with no state that outlives a call. What they can
  return, failures included, is a choice in the modules that use them.
* Parsing of JSON, HTML and index text: an answer is the set of files it names.
  Unpacking and archive writing in `binary.go`: a package is what it was built of.
* Two builds at once on one output and cache: nothing in the code prevents it,
  and the documentation describes one at a time. No property of two could hold.
* Two sdk sources without a name, which share the directory `sdk`: the second
  finds the first one's marker. The runs and theorems take distinct names.
* `index.json` and the stanzas of an index.
* A real-architecture and an all-architecture build of one version, which have
  different file names, are one file in `FeedBuild`.
* The splitting of file names into tokens.
* Time: back-off between retries (a plain sleep), time-outs as such. A time-out
  is a failure.
* The Makefile's `deploy`, which sends sources and not the feed.

## 7. Plan

Done: the version order, sources over the cache with URLs that sources share,
`Packages` and `Packages.gz` apart, `add.sh` on a router, and the theorems about
steady builds, pruning, helpers, sdk builds, signing, clean-up and
`compareVersion` itself. What is left, most useful first:

1. `FeedBuild` with architectures in file names, so that a real and an
   all-architecture build of one version can meet.
2. `FeedBuild` composed with `SignPublish`: one tree under builds, signings and
   publishing, instead of a build with arbitrary outcomes.
3. `Routing` over several runs, with the dirs of earlier ones still there, and
   the tokens of names.
