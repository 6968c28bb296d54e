------------------------------ MODULE FeedBuild ------------------------------
(***************************************************************************)
(* The build command (build.go, Build): successive runs over one output    *)
(* tree.  An incremental run works on the served tree in place; a --full   *)
(* run works on an empty staging tree (<output>.building) that replaces    *)
(* the served one at the end.  A run places the newest usable candidate of *)
(* every slot (a package in a feed dir), prunes what that supersedes,      *)
(* prunes release dirs the layout dropped, prepares the signing keys,      *)
(* indexes and signs the dirs it touched, and writes the router helpers.   *)
(*                                                                         *)
(* A run may be told to fail, or be killed, at any step (Faults).  All     *)
(* that survives a run is the two trees and the helpers: which dirs still  *)
(* need an index is known to the running process only.                     *)
(***************************************************************************)
EXTENDS Naturals, FiniteSets

CONSTANTS
    Dirs,         \* feed dirs, by their path relative to the output tree
    Apk,          \* the feed dirs of an apk branch (the others are opkg)
    Pkgs,         \* package names
    Versions,     \* package versions
    Rank,         \* compareVersion: equal for versions it cannot tell apart
    Sums,         \* contents a package of one version may have (its sha256)
    Torn,         \* the content of a package file whose copy was cut short
    Layouts,      \* the sets of feed dirs a layout.version list may carry
    StrayRoutes,  \* may a source name a release layout.version does not list
    Offers,       \* the candidates a run may collect
    MaxCands,     \* bound: how many of them one run collects
    Faults        \* what may go wrong in a run, of FaultKinds

\* unreadable: a cached package cannot be hashed;  copy: copying it fails;
\* prune: a superseded file or dir cannot be removed;  nokeys: no signing
\* tool or secret key;  badkey: broken public key;  index: an index cannot be
\* written;  signleaf: signing one index fails;  helpers: writing add.sh or
\* the keys fails;  swap: renaming a tree fails;  crash: the run is killed.
FaultKinds == {"unreadable", "copy", "prune", "nokeys", "badkey", "index",
               "signleaf", "helpers", "swap", "crash"}

ASSUME ConstantsAssumption ==
    /\ Apk \subseteq Dirs
    /\ Rank \in [Versions -> Nat]
    /\ MaxCands \in Nat
    /\ Torn \notin Sums
    /\ Layouts \subseteq SUBSET Dirs
    /\ StrayRoutes \in BOOLEAN
    /\ Faults \subseteq FaultKinds

\* A package file; its name is made of the package and the version, so a dir
\* holds one file of a package and version.  An index entry carries the same.
File == [pkg: Pkgs, ver: Versions, sum: Sums \union {Torn}]

\* A feed dir: its package files, what its index lists ({}: there is no index
\* a client could read), and the index its signature was made for ({}: none).
DirState == [files: SUBSET File, index: SUBSET File, sig: SUBSET File]
NoDir    == [files |-> {}, index |-> {}, sig |-> {}]
NoTree   == [d \in Dirs |-> NoDir]

\* A collected package routed to a feed dir.
Candidate == [dir: Dirs, pkg: Pkgs, ver: Versions, sum: Sums]

ASSUME OffersAssumption == Offers \subseteq Candidate

\* What a run placed, or found in place: its newVersions.
Kept == [dir: Dirs, pkg: Pkgs, ver: Versions]

\* The flags of a run, whether apk-tools v3 is there, and what it started
\* from: the dirs its layout carries and the dirs that had an index.
RunType == [full: BOOLEAN, reindex: BOOLEAN, sign: BOOLEAN, apkTool: BOOLEAN,
            carried: SUBSET Dirs, snapshot: SUBSET Dirs]
NoRun   == [full |-> FALSE, reindex |-> FALSE, sign |-> FALSE,
            apkTool |-> FALSE, carried |-> {}, snapshot |-> {}]

Phases == {"idle", "place", "prune", "releases", "signing", "index",
           "helpers", "swap"}

VARIABLES
    out,       \* the served tree (output_dir)
    building,  \* the staging tree of a --full run (output_dir.building)
    named,     \* the feed dirs the helpers in the served tree know of
    pc,        \* the phase of the current run
    run,       \* its flags and what it started from
    cands,     \* its candidates
    slots,     \* the slots (dir, package) it has still to place
    kept,      \* newVersions: what it placed or found in place
    leaf,      \* leafDirs: the dirs it has touched and not yet indexed
    rel,       \* relPaths: the dirs it indexed, then those the helpers name
    failed,    \* has an index failed in it (indexFailures > 0)
    keys,      \* does it hold signing keys (keys # nil)
    gone,      \* prunedDirs: the dirs it removed with their release
    exit       \* how the last run ended

vars == <<out, building, named, pc, run, cands, slots, kept, leaf, rel,
          failed, keys, gone, exit>>

TypeOK ==
    /\ out \in [Dirs -> DirState]
    /\ building \in [Dirs -> DirState]
    /\ named \subseteq Dirs
    /\ pc \in Phases
    /\ run \in RunType
    /\ cands \subseteq Candidate
    /\ slots \subseteq Dirs \X Pkgs
    /\ kept \subseteq Kept
    /\ leaf \subseteq Dirs
    /\ rel \subseteq Dirs
    /\ failed \in BOOLEAN
    /\ keys \in BOOLEAN
    /\ gone \subseteq Dirs
    /\ exit \in {"none", "ok", "error", "crash"}

Init ==
    /\ out = NoTree /\ building = NoTree /\ named = {}
    /\ pc = "idle" /\ run = NoRun /\ cands = {} /\ slots = {} /\ kept = {}
    /\ leaf = {} /\ rel = {} /\ failed = FALSE /\ keys = FALSE /\ gone = {}
    /\ exit = "none"

-----------------------------------------------------------------------------
(* The tree a run works on, and the end of a run.                          *)

work == IF run.full THEN building ELSE out

SetWork(tree) ==
    /\ building' = IF run.full THEN tree ELSE building
    /\ out' = IF run.full THEN out ELSE tree

EndRun(how) ==
    /\ pc' = "idle" /\ exit' = how /\ run' = NoRun /\ cands' = {}
    /\ slots' = {} /\ kept' = {} /\ leaf' = {} /\ rel' = {} /\ failed' = FALSE
    /\ keys' = FALSE /\ gone' = {}

\* Build returns an error: the staging tree is removed, the served one stays
\* as the run left it.
Fail ==
    /\ EndRun("error")
    /\ building' = IF run.full THEN NoTree ELSE building
    /\ UNCHANGED <<out, named>>

-----------------------------------------------------------------------------
(* Start: collect, snapshotVersions, parse and candidates.                 *)

\* The dirs packages can be routed to: those of the layout's releases, or any
\* release of a carried branch that a source names itself.
Routable(layout) == IF StrayRoutes THEN Dirs ELSE layout

HasIndex(tree) == {d \in Dirs : tree[d].index # {}}

\* The staging tree a run begins with: --full removes an earlier run's debris.
NoCleanStaging(full) == building
Staging(full) == IF full THEN NoTree ELSE building

\* Packages that failed to download, were filtered out or belong to sources
\* this run does not visit are simply no candidates.  Nobody asks for apk-tools
\* where no feed dir is of an apk branch.
StartRun ==
    /\ pc = "idle"
    /\ \E full, reindex, sign, apkTool \in BOOLEAN, layout \in Layouts,
          C \in SUBSET Offers :
        /\ Cardinality(C) <= MaxCands
        /\ \A c \in C : c.dir \in Routable(layout)
        /\ (\E c \in C : c.dir \in Apk) => apkTool
        /\ apkTool => Apk # {}
        /\ run' = [full |-> full, reindex |-> reindex, sign |-> sign,
                   apkTool |-> apkTool, carried |-> layout,
                   snapshot |-> HasIndex(out)]
        /\ cands' = C
        /\ slots' = {<<c.dir, c.pkg>> : c \in C}
        /\ building' = Staging(full)
    /\ pc' = "place"
    /\ exit' = "none"
    /\ UNCHANGED <<out, named, kept, leaf, rel, failed, keys, gone>>

\* Nothing was collected, or there are apk packages and no apk-tools: the run
\* ends before it touches the served tree.  A --full run has by then removed
\* the debris of an earlier one.
RefuseRun ==
    /\ pc = "idle"
    /\ \/ building' = NoTree
       \/ UNCHANGED building
    /\ EndRun("error")
    /\ UNCHANGED <<out, named>>

-----------------------------------------------------------------------------
(* Place: the newest usable candidate of a slot.                           *)

FileOf(c) == [pkg |-> c.pkg, ver |-> c.ver, sum |-> c.sum]

Slot(d, p) == {c \in cands : c.dir = d /\ c.pkg = p}

\* The files with the names candidates C would be copied to.
Namesakes(d, C) ==
    {f \in work[d].files : \E c \in C : c.pkg = f.pkg /\ c.ver = f.ver}

\* A byte-identical file already satisfies an incremental run.
SameName(c, files) ==
    ~run.full /\ \E f \in files : f.pkg = c.pkg /\ f.ver = c.ver
InPlace(c, files) == ~run.full /\ FileOf(c) \in files

\* The newest of the candidates that are not bad.
Newest(c, group, bad) ==
    /\ c \in group \ bad
    /\ \A x \in group \ bad : Rank[x.ver] <= Rank[c.ver]

\* Candidates of a slot are tried newest first.  The bad ones failed: lost
\* are those whose copy failed and took the file of their name with it (a
\* candidate older than the one that is shipped is not tried at all).
BadCandidates(bad, lost) ==
    /\ lost \subseteq bad
    /\ lost # {} => "copy" \in Faults
    /\ bad # lost => "unreadable" \in Faults
    /\ \A c \in lost : \/ ~InPlace(c, work[c.dir].files)
                      \/ \E x \in lost : x # c /\ x.ver = c.ver

\* A slot is done with once its candidates are, whatever became of them.
NoneDone(d, p)  == slots
SlotsLeft(d, p) == slots \ {<<d, p>>}

PlaceSlot(d, p) ==
    /\ pc = "place"
    /\ <<d, p>> \in slots
    /\ slots' = SlotsLeft(d, p)
    /\ \E bad \in SUBSET Slot(d, p) : \E lost \in SUBSET bad :
        /\ BadCandidates(bad, lost)
        /\ LET left == work[d].files \ Namesakes(d, lost)
           IN \/ \E c \in Slot(d, p) :
                   /\ Newest(c, Slot(d, p), bad)
                   /\ \A x \in bad : Rank[c.ver] <= Rank[x.ver]
                   /\ IF InPlace(c, left)
                      THEN /\ SetWork([work EXCEPT ![d].files = left])
                           /\ UNCHANGED leaf
                      ELSE /\ SetWork([work EXCEPT ![d].files =
                                 (left \ Namesakes(d, {c})) \union {FileOf(c)}])
                           /\ leaf' = leaf \union {d}
                   /\ kept' = kept \union
                                {[dir |-> d, pkg |-> p, ver |-> c.ver]}
              \/ /\ bad = Slot(d, p)
                 /\ SetWork([work EXCEPT ![d].files = left])
                 /\ UNCHANGED <<leaf, kept>>
    /\ UNCHANGED <<named, pc, run, cands, rel, failed, keys, gone, exit>>

EndPlace ==
    /\ pc = "place"
    /\ slots = {}
    /\ pc' = "prune"
    /\ UNCHANGED <<out, building, named, run, cands, slots, kept, leaf, rel,
                   failed, keys, gone, exit>>

-----------------------------------------------------------------------------
(* Prune: what the run supersedes, then the release dirs the layout dropped. *)

NotKept(f, k) == f.pkg = k.pkg /\ f.ver # k.ver
AnyOlder(f, k) == Rank[f.ver] < Rank[k.ver]
Older(f, k)   == f.pkg = k.pkg /\ Rank[f.ver] < Rank[k.ver]

\* The readable files of packages the run keeps in a newer version.
Superseded ==
    {x \in Dirs \X File :
        /\ x[2] \in work[x[1]].files
        /\ x[2].sum # Torn
        /\ \E k \in kept : k.dir = x[1] /\ Older(x[2], k)}

\* A dir that lost a file is to be indexed again.
NoneMarked(removed) == {}
FileMarked(removed) == {x[2] : x \in removed}
Marked(removed) == {x[1] : x \in removed}

\* A file that cannot be removed stays.
Prune ==
    /\ pc = "prune"
    /\ \E removed \in SUBSET Superseded :
        /\ removed # Superseded => "prune" \in Faults
        /\ SetWork([d \in Dirs |-> [work[d] EXCEPT
                        !.files = {f \in @ : <<d, f>> \notin removed}]])
        /\ leaf' = leaf \union Marked(removed)
    /\ pc' = "releases"
    /\ UNCHANGED <<named, run, cands, slots, kept, rel, failed, keys, gone,
                   exit>>

\* The dirs of releases and branches the layout does not carry (staleTopDirs).
Stale(tree) ==
    {d \in Dirs \ run.carried : tree[d].files # {} \/ tree[d].index # {}}

\* What is left of the tree when removing some dirs fails half way: without
\* some of their files, and without the index or the signature of some.
Leftover(lost, noIndex, noSig) ==
    [d \in Dirs |-> [files |-> {f \in work[d].files : <<d, f>> \notin lost},
                     index |-> IF d \in noIndex THEN {} ELSE work[d].index,
                     sig   |-> IF d \in noSig THEN {} ELSE work[d].sig]]

PruneReleases ==
    /\ pc = "releases"
    /\ IF run.full
       THEN UNCHANGED <<out, building, gone>>
       ELSE \E stuck \in SUBSET Stale(work) :
            \E lost \in SUBSET {x \in stuck \X File : x[2] \in work[x[1]].files} :
            \E noIndex \in SUBSET stuck : \E noSig \in SUBSET stuck :
              /\ stuck # {} => "prune" \in Faults
              /\ gone' = Stale(work) \ stuck
              /\ SetWork([d \in Dirs |->
                            IF d \in Stale(work) \ stuck THEN NoDir
                            ELSE Leftover(lost, noIndex, noSig)[d]])
    /\ pc' = "signing"
    /\ UNCHANGED <<named, run, cands, slots, kept, leaf, rel, failed, keys,
                   exit>>

-----------------------------------------------------------------------------
(* Signing keys, then the index (and signature) of every touched feed dir. *)

HasFiles(tree) == {d \in Dirs : tree[d].files # {}}

\* What --reindex adds to the dirs the run touched.
NeverReindexed == {}
Reindexed == IF run.reindex THEN HasFiles(work) ELSE {}

\* Without --sign, with signing disabled, or without the tools or the secret
\* key the run goes on unsigned.  index begins by adding, with --reindex,
\* every dir that holds a package file.
Signing ==
    /\ pc = "signing"
    /\ \/ keys' = FALSE /\ (run.sign => "nokeys" \in Faults)
       \/ keys' = TRUE /\ run.sign
    /\ leaf' = leaf \union Reindexed
    /\ pc' = "index"
    /\ UNCHANGED <<out, building, named, run, cands, slots, kept, rel, failed,
                   gone, exit>>

\* A broken public key is an error.
SigningFails ==
    /\ pc = "signing"
    /\ run.sign
    /\ "badkey" \in Faults
    /\ Fail

\* With --reindex, walking the tree for these dirs may fail.
ReindexFails ==
    /\ pc = "signing"
    /\ run.reindex
    /\ "index" \in Faults
    /\ Fail

\* The dir is there, every package in it can be read, and so can its format.
Indexable(d) ==
    /\ work[d].files # {}
    /\ \A f \in work[d].files : f.sum # Torn
    /\ d \in Apk => run.apkTool

\* The signature after the index of d was rewritten.  An unsigned run removes
\* Packages.sig; signing that fails leaves the old one, except that an apk
\* index carries its signature within and has just been rewritten without.
LeftSigned(d) == {IF keys THEN work[d].files ELSE work[d].sig}
Signatures(d) ==
    (IF keys THEN {work[d].files} ELSE {{}})
      \union (IF keys /\ "signleaf" \in Faults
              THEN {IF d \in Apk THEN {} ELSE work[d].sig} ELSE {})

IndexLeaf(d) ==
    /\ pc = "index"
    /\ d \in leaf
    /\ Indexable(d)
    /\ \E sig \in Signatures(d) :
         SetWork([work EXCEPT ![d].index = work[d].files, ![d].sig = sig])
    /\ leaf' = leaf \ {d}
    /\ rel' = rel \union {d}
    /\ UNCHANGED <<named, pc, run, cands, slots, kept, failed, keys, gone,
                   exit>>

\* Writing an index stops part way: an opkg index is written in place and may
\* be cut short; or it is complete and not yet signed, when index.json cannot
\* be written or the run is killed.
PartlyIndexed(d) ==
    \/ d \notin Apk /\ SetWork([work EXCEPT ![d].index = {}])
    \/ SetWork([work EXCEPT ![d].index = work[d].files,
                            ![d].sig = IF d \in Apk THEN {} ELSE @])

\* The index of d cannot be made (nothing is written), or writing it fails.
IndexLeafFails(d) ==
    /\ pc = "index"
    /\ d \in leaf
    /\ \/ /\ ~Indexable(d)
          /\ UNCHANGED <<out, building>>
       \/ /\ Indexable(d)
          /\ "index" \in Faults
          /\ UNCHANGED <<out, building>> \/ PartlyIndexed(d)
    /\ leaf' = leaf \ {d}
    /\ failed' = TRUE
    /\ UNCHANGED <<named, pc, run, cands, slots, kept, rel, keys, gone, exit>>

\* The feed dirs the helpers are to know of (withSnapshotDirs): an incremental
\* run adds those that had an index before and are not pruned.
SnapshotToo == rel \union run.snapshot
Announced   == IF run.full THEN rel ELSE rel \union (run.snapshot \ gone)

\* A --full run with a failed index keeps the previous feed.
NeverRejected == FALSE
Rejected == failed /\ run.full

EndIndex ==
    /\ pc = "index"
    /\ leaf = {}
    /\ ~Rejected
    /\ pc' = "helpers"
    /\ rel' = Announced
    /\ UNCHANGED <<out, building, named, run, cands, slots, kept, leaf, failed,
                   keys, gone, exit>>

KeepPrevious ==
    /\ pc = "index"
    /\ leaf = {}
    /\ Rejected
    /\ Fail

-----------------------------------------------------------------------------
(* Helpers, and the swap of a --full run.                                  *)

\* An incremental run ends here; its exit tells of failed indexes.
Helpers ==
    /\ pc = "helpers"
    /\ ~run.full
    /\ named' = rel
    /\ EndRun(IF failed THEN "error" ELSE "ok")
    /\ UNCHANGED <<out, building>>

\* The helpers of a --full run are written into the staging tree.
StageHelpers ==
    /\ pc = "helpers"
    /\ run.full
    /\ pc' = "swap"
    /\ UNCHANGED <<out, building, named, run, cands, slots, kept, leaf, rel,
                   failed, keys, gone, exit>>

\* The add.sh scripts are written one by one: one release may have the new
\* one when another fails.
HelpersFail ==
    /\ pc = "helpers"
    /\ "helpers" \in Faults
    /\ \/ Fail
       \/ /\ ~run.full
          /\ named' = rel
          /\ EndRun("error")
          /\ UNCHANGED <<out, building>>

\* swapTree, as one step (SwapTree.tla is about its renames).
Swap ==
    /\ pc = "swap"
    /\ out' = building
    /\ building' = NoTree
    /\ named' = rel
    /\ EndRun("ok")

SwapFails ==
    /\ pc = "swap"
    /\ "swap" \in Faults
    /\ Fail

-----------------------------------------------------------------------------
(* The run is killed: between two steps, while it copies a package, or while *)
(* it writes or before it signs the index of a dir.                         *)

Crash ==
    /\ pc # "idle"
    /\ "crash" \in Faults
    /\ EndRun("crash")
    /\ UNCHANGED <<out, building, named>>

CrashCopying(c) ==
    /\ pc = "place"
    /\ "crash" \in Faults
    /\ c \in cands
    /\ <<c.dir, c.pkg>> \in slots
    /\ ~InPlace(c, work[c.dir].files)
    /\ SetWork([work EXCEPT ![c.dir].files = (@ \ Namesakes(c.dir, {c}))
                  \union {[FileOf(c) EXCEPT !.sum = Torn]}])
    /\ EndRun("crash")
    /\ UNCHANGED named

CrashIndexing(d) ==
    /\ pc = "index"
    /\ "crash" \in Faults
    /\ d \in leaf
    /\ Indexable(d)
    /\ PartlyIndexed(d)
    /\ EndRun("crash")
    /\ UNCHANGED named

-----------------------------------------------------------------------------
\* What the process does once a run has started, and when it stops early.
Step ==
    \/ \E d \in Dirs, p \in Pkgs : PlaceSlot(d, p)
    \/ EndPlace \/ Prune \/ PruneReleases
    \/ Signing \/ SigningFails \/ ReindexFails
    \/ \E d \in Dirs : IndexLeaf(d) \/ IndexLeafFails(d)
    \/ EndIndex \/ KeepPrevious
    \/ Helpers \/ StageHelpers \/ HelpersFail \/ Swap \/ SwapFails

Killed ==
    \/ Crash
    \/ \E c \in Candidate : CrashCopying(c)
    \/ \E d \in Dirs : CrashIndexing(d)

Next == StartRun \/ RefuseRun \/ Step \/ Killed

Spec == Init /\ [][Next]_vars

\* A started run keeps going; nobody has to start one.
FairSpec == Spec /\ WF_vars(Step)

-----------------------------------------------------------------------------
(* Properties.                                                             *)

\* A started build ends: no phase waits for something that never comes, and
\* no package is tried for ever (Build, build.go).
BuildEnds == []<>(pc = "idle")

Described(dir) == dir.index = dir.files

\* Between runs every feed dir's index lists exactly the package files in it:
\* whatever placed, replaced or pruned a file marked its dir (leafDirs) and
\* every marked dir was indexed.  It holds as long as no run is killed, no
\* copy, no removal and no index fails, and no key is broken.
IndexMatchesTree == pc = "idle" => \A d \in Dirs : Described(out[d])

\* Between runs no dir has a signature made for an older index than the one
\* it is next to: opkg takes an unsigned index, but not a wrongly signed one
\* (indexLeaf).  It holds as long as no run is killed, no index is written in
\* part, no removal of a dir is cut short and the signing of no index fails: a
\* signLeaf that fails leaves the old Packages.sig and is no failure of the run.
NoStaleSignature ==
    pc = "idle" => \A d \in Dirs : out[d].sig \in {{}, out[d].index}

\* When a build succeeds, the served index lists every package it placed or
\* found in place: with the content of one of its candidates, in that version
\* and in no older one (placeSlot, prune and index together).
ShippedIsServed ==
    [][pc # "idle" /\ exit' = "ok" =>
         \A k \in kept :
            LET listed == {f \in out'[k.dir].index : f.pkg = k.pkg}
            IN /\ \E c \in cands : c.ver = k.ver /\ FileOf(c) \in listed
               /\ \A f \in listed : Rank[f.ver] >= Rank[k.ver]]_vars

\* No step of an incremental run takes a package from the index of a dir the
\* layout carries, or leaves it there in an older version only: a fallback to
\* an older candidate, or a source that is gone, does not downgrade the feed.
NoDowngrade ==
    [][~run.full =>
         \A d \in run.carried : \A f \in out[d].index :
            \E g \in out'[d].index : g.pkg = f.pkg /\ Rank[g.ver] >= Rank[f.ver]]_vars

\* Whatever fails, an incremental run removes no package file from a dir the
\* layout carries unless it has a candidate of the same package at least as
\* new for that dir: packages of other sources keep all their files (prune).
OnlySupersededGo ==
    [][~run.full =>
         \A d \in run.carried : \A f \in out[d].files \ out'[d].files :
            \E c \in cands : c.dir = d /\ c.pkg = f.pkg /\ Rank[c.ver] >= Rank[f.ver]]_vars

\* Whatever fails, and whatever debris a killed run left, a --full run changes
\* the served tree in one step only, to a tree every index of which lists
\* exactly the files of its dir (the index failure check before swapTree).
FullSwapsComplete ==
    [][run.full /\ out' # out =>
         out' = building /\ \A d \in Dirs : Described(building[d])]_vars

\* A --reindex run that succeeds repairs what earlier runs left: every feed
\* dir with packages has an index of exactly these, whatever was killed or
\* failed before.
ReindexHeals ==
    [][pc # "idle" /\ exit' = "ok" /\ run.reindex =>
         \A d \in Dirs : out'[d].files # {} => Described(out'[d])]_vars

\* An unsigned --reindex run that succeeds gets rid of every signature in the
\* feed: a Packages.sig of an older index, which a signLeaf that failed or a
\* run that was killed has left, no longer makes opkg refuse the dir (index,
\* indexLeaf).  A signed run may fail to sign and leave it there again.
UnsignedReindexClears ==
    [][pc # "idle" /\ exit' = "ok" /\ run.reindex /\ ~keys =>
         \A d \in HasFiles(out') : out'[d].sig = {}]_vars

\* When a build succeeds the helpers it wrote know of exactly the feed dirs
\* that have an index, among those the layout carries and those the run has
\* removed with their release: none that was pruned, and all that an
\* incremental run did not touch (withSnapshotDirs).
HelpersMatch ==
    [][pc # "idle" /\ exit' = "ok" =>
         \A d \in run.carried \cup gone : d \in named' <=> d \in HasIndex(out')]_vars

-----------------------------------------------------------------------------
(* What the comments and the documentation say, and the code does not do.  *)

\* After a build fails, every package a served index lists is there: "The
\* previous feed stays in place" when a key is broken (signing, build.go).
\* It does not: an incremental run has by then pruned the superseded files.
FailedBuildKeepsFeed ==
    pc = "idle" /\ exit = "error" =>
        \A d \in Dirs : out[d].index \subseteq out[d].files

\* A run in which nothing fails serves each package it collected, in that
\* version or a newer one, wherever its source told it to go ("kmod_version
\* on any source sets it explicitly", config.example.yaml).  It does not for
\* a release that layout.version does not list: pruneReleases removes the dir
\* that place has just filled, and its index fails.
CollectedIsServed ==
    [][pc # "idle" /\ pc' = "idle" =>
         \A c \in cands : \E f \in out'[c.dir].index :
            f.pkg = c.pkg /\ Rank[f.ver] >= Rank[c.ver]]_vars
=============================================================================
