------------------------------- MODULE Routing -------------------------------
(***************************************************************************)
(* Where a package goes (layout.go; packageBranches, sourceRelease and the *)
(* filters of collectPackages in commands.go; parse, candidates and        *)
(* candidate in build.go), and which feed dirs a router reads (the add.sh  *)
(* templates of repohelpers.go).  One package is followed from the listing *)
(* of its source to its feed dirs.  A release is <<branch, n>>, a target   *)
(* <<family, subtarget>>; a file name is the architecture and the target   *)
(* it carries.                                                             *)
(***************************************************************************)
EXTENDS Integers, FiniteSets

CONSTANTS
    Versions,     \* layout.version: the releases the feed carries
    KmodVersion,  \* layout.kmod_version, a release or None
    ApkBranches,  \* the branches that use .apk packages
    Archs,        \* the real architectures
    archAll,      \* the architecture "all"
    archNoarch,   \* what apk packages, and some names, say for it
    Filters,      \* the `architectures:` filters considered
    TargetFilters,\* the `targets:` filters considered: pairs and lone words
    Items,        \* the packages considered, with what their source says
    Routers,      \* the routers considered, each with the release of its add.sh
    None          \* nothing there

\* Releases are numbered within their branch, and add.sh is written for those
\* the feed carries; "all" is no router's architecture, and "nothing there"
\* (the empty string) is no release, branch or architecture.
ASSUME RoutingAssumption ==
    /\ IsFiniteSet(Versions) /\ \A v \in Versions : v = <<v[1], v[2]>> /\ v[2] \in Nat
    /\ \A v \in Versions : v # None /\ v[1] # None
    /\ \A r \in Routers : r.release \in Versions /\ r.arch \in Archs
    /\ archAll \notin Archs /\ archNoarch # archAll
    /\ None \notin Archs \cup {archAll, archNoarch}
    /\ \A i \in Items : i.arch \in Archs \cup {archAll, archNoarch}

VARIABLES
    item,     \* the package and its source
    archFilter, targetFilter,
    others,   \* the architectures of the other packages of the run
    phase,    \* how far it got
    dirs      \* the feed dirs it is placed into

routeVars == <<item, archFilter, targetFilter, others, phase, dirs>>

releaseBranch(release) == release[1]
branchFormat(branch)   == IF branch \in ApkBranches THEN "apk" ELSE "ipk"

branches        == {releaseBranch(v) : v \in Versions}
branchesFor(f)  == {b \in branches : branchFormat(b) = f}
formats         == {branchFormat(b) : b \in branches}
releasesOf(b)   == {v \in Versions : releaseBranch(v) = b}

\* The release of packages whose source has none.
defaultRelease(b) ==
    IF KmodVersion # None /\ releaseBranch(KmodVersion) = b THEN KmodVersion
    ELSE CHOOSE v \in releasesOf(b) : \A w \in releasesOf(b) : w[2] <= v[2]

\* The architecture of a package as its metadata gives it: the noarch of an apk
\* package becomes "all" (pkginfo).
archOf(i) == IF i.format = "apk" /\ i.arch = archNoarch THEN archAll ELSE i.arch

\* The target a file name carries after the architecture, spelt as it is there.
detectTarget(name, arch) == IF name.arch = arch THEN name.target ELSE None

\* A filter entry is a whole target, a lone subtarget or a lone family.
targetAllowed(target, filter) ==
    (filter # {} /\ target # None)
        => {target, target[1], target[2]} \cap filter # {}

\* The release a source is bound to: the one it sets, or the one its tag
\* names when the feed carries it.
sourceRelease(i) ==
    IF i.kmodVersion # None THEN i.kmodVersion
    ELSE IF i.tag \in Versions THEN i.tag ELSE None

\* The branch that comes from the source, its release before its `openwrt:`.
Pin(i) == IF sourceRelease(i) # None THEN releaseBranch(sourceRelease(i))
          ELSE i.branch

SourceFormats(i) == IF Pin(i) # None THEN {branchFormat(Pin(i))} ELSE formats

\* The target from the source, or else from the name.
TargetOf(i, arch) == IF i.sourceTarget # None THEN i.sourceTarget
                     ELSE detectTarget(i.name, arch)

AllIsNoException(i) ==
    /\ i.format \in SourceFormats(i)
    /\ archFilter # {} =>
        /\ i.knownArch # None => i.knownArch \in archFilter
        /\ i.name.arch \in archFilter \cup {archAll, archNoarch, None}
        /\ i.name.arch # None
             => targetAllowed(TargetOf(i, i.name.arch), targetFilter)

\* What the name and the listing of a package rule out is not downloaded.
fileNameAllowed(i) ==
    /\ i.format \in SourceFormats(i)
    /\ archFilter # {} =>
        /\ i.knownArch # None => i.knownArch \in archFilter \cup {archAll, archNoarch}
        /\ i.name.arch \in archFilter \cup {archAll, archNoarch, None}
        /\ i.name.arch # None
             => targetAllowed(TargetOf(i, i.name.arch), targetFilter)

\* packageBranches: the branch of the source's release, or its `openwrt:`
\* branch, or every branch of the package's format.
packageBranches(i) ==
    {b \in branchesFor(i.format) : Pin(i) \in {None, b}}

\* parse keeps the package.
Kept(i) ==
    /\ packageBranches(i) # {}
    /\ archFilter # {} => archOf(i) \in archFilter \cup {archAll}
    /\ targetAllowed(TargetOf(i, archOf(i)), targetFilter)

\* candidates: a package for all architectures is fanned out into every real
\* one, unless it goes into the target tree of its release.
realArches(i) == archFilter \cup others \cup ({archOf(i)} \ {archAll})

ReleaseBound(i) == sourceRelease(i) # None /\ TargetOf(i, archOf(i)) # None

DirArches(i) ==
    IF archOf(i) = archAll /\ ~ReleaseBound(i) /\ realArches(i) # {}
    THEN realArches(i) ELSE {archOf(i)}

NewestRelease(i, branch, arch) ==
    IF TargetOf(i, archOf(i)) # None /\ (i.kmod \/ sourceRelease(i) # None)
    THEN LET in == <<defaultRelease(branch), TargetOf(i, archOf(i))>>
         IN  IF i.kmod /\ i.vermagic # None
             THEN <<"kmods", in, i.vermagic>> ELSE <<"target", in>>
    ELSE <<"branch", branch, arch>>

\* relativeDir, without the name of the feed.
relativeDir(i, branch, arch) ==
    IF TargetOf(i, archOf(i)) # None /\ (i.kmod \/ sourceRelease(i) # None)
    THEN LET in == <<IF sourceRelease(i) # None THEN sourceRelease(i)
                     ELSE defaultRelease(branch), TargetOf(i, archOf(i))>>
         IN  IF i.kmod /\ i.vermagic # None
             THEN <<"kmods", in, i.vermagic>> ELSE <<"target", in>>
    ELSE <<"branch", branch, arch>>

Destinations(i) ==
    {relativeDir(i, b, a) : b \in packageBranches(i), a \in DirArches(i)}

-----------------------------------------------------------------------------
Init ==
    /\ item \in Items
    /\ archFilter \in Filters /\ targetFilter \in TargetFilters
    /\ others \in SUBSET IF archFilter = {} THEN Archs ELSE archFilter
    /\ phase = "listed"
    /\ dirs = {}

NotFetched ==
    /\ phase = "listed"
    /\ ~fileNameAllowed(item)
    /\ phase' = "ruledOut"
    /\ UNCHANGED <<item, archFilter, targetFilter, others, dirs>>

Fetch ==
    /\ phase = "listed"
    /\ fileNameAllowed(item)
    /\ phase' = "fetched"
    /\ UNCHANGED <<item, archFilter, targetFilter, others, dirs>>

Skip ==
    /\ phase = "fetched"
    /\ ~Kept(item)
    /\ phase' = "skipped"
    /\ UNCHANGED <<item, archFilter, targetFilter, others, dirs>>

Route ==
    /\ phase = "fetched"
    /\ Kept(item)
    /\ phase' = "routed"
    /\ dirs' = Destinations(item)
    /\ UNCHANGED <<item, archFilter, targetFilter, others>>

Next == NotFetched \/ Fetch \/ Skip \/ Route

Spec == Init /\ [][Next]_routeVars

-----------------------------------------------------------------------------
\* add.sh: the feed dirs that a router reads.  all/ is the fallback for a
\* branch-wide feed that is not there.
FeedsOf(r) ==
    LET in     == <<r.release, r.target>>
        branch == releaseBranch(r.release)
        own    == <<"branch", branch, r.arch>>
    IN  {IF own \in dirs THEN own ELSE <<"branch", branch, archAll>>,
         <<"kmods", in, r.kernel>>, <<"target", in>>}

(* Properties.                                                             *)

\* Whom a package is for, whatever the tree looks like.  Kernel modules of a
\* known target and packages built for one release run on that target and
\* release only, and a module on its exact kernel; everything else is for the
\* architecture, on every release of the branch.  Its target is the one parse
\* knows of.
Suits(i, r) ==
    LET target  == TargetOf(i, archOf(i))
        branch  == releaseBranch(r.release)
        release == sourceRelease(i)
    IN  /\ branchFormat(branch) = i.format
        /\ Pin(i) \in {None, branch}
        /\ IF target # None /\ (i.kmod \/ release # None)
           THEN /\ r.target = target
                /\ r.release \in {release, defaultRelease(branch)}
                /\ release # None => r.release = release
                /\ i.kmod => i.vermagic \in {None, r.kernel}
           ELSE archOf(i) \in {r.arch, archAll}

\* A package that is routed is offered to exactly the routers it is for, among
\* those of an architecture the run knows; a run that knows none puts its
\* packages where every router looks (relativeDir, candidates, add.sh).
OfferedIffSuitable ==
    phase = "routed" =>
        \A r \in Routers :
            realArches(item) = {} \/ r.arch \in realArches(item)
                => (dirs \cap FeedsOf(r) # {} <=> Suits(item, r))

\* What a name or a listing may truthfully say of the architecture.
Truthful(says, arch) ==
    says \in {None, arch} \/ {says, arch} \subseteq {archAll, archNoarch}

\* The name of a package never rules out what its metadata would let through,
\* when the name and the listing tell the truth about the architecture: the
\* filter "only rejects what the name proves" (fileNameAllowed).  A name that
\* carries a target has to spell the architecture before it as parse does, which
\* is "all" for an apk package, unless its source sets the target.  The others
\* are exempt: after "_noarch" the name filter finds a target that parse, which
\* looks after "_all", does not (detectTarget), and rules out what parse keeps.
NameFilterIsSound ==
    phase = "ruledOut"
        /\ Truthful(item.name.arch, item.arch)
        /\ Truthful(item.knownArch, item.arch)
        /\ \/ item.name.target = None \/ item.sourceTarget # None
           \/ item.name.arch = archOf(item)
        => ~Kept(item)
=============================================================================
