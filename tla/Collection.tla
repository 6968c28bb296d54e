----------------------------- MODULE Collection -----------------------------
(***************************************************************************)
(* The sources of a run (sources.go) over the download cache: how each     *)
(* kind of source is listed, request by request, from a server that may    *)
(* change in between, before its files are got.  The cache takes a listing *)
(* as one step with any result; here it is what the code makes of answers  *)
(* and failures, and every step is one of the cache's or changes none of   *)
(* its state.  URLs that the name filter drops are left out.               *)
(***************************************************************************)
EXTENDS DownloadCache, SequencesExt

CONSTANTS
    Kind,     \* Kind[s]: "github", "github_dir", "feed", "ipk", "html" or "url"
    Place,    \* Place[s]: the URLs that s stands for, as far as they are there
    DirOf,    \* DirOf[u]: the directory of u in a repository
    Subdirs,  \* Subdirs[d]: the directories in d, a sequence
    Root,     \* the directory a github_dir source names
    Group,    \* Group[u]: the name and architecture of a package file
    Rank,     \* Rank[u]: its version, as compareVersion orders them
    perPage,  \* the assets on a page
    NoSource  \* nothing is being listed

Dirs == DOMAIN Subdirs

\* A set of directories that has with each one those in it.
Closed(ds) == \A d \in ds : Range(Subdirs[d]) \subseteq ds

ASSUME CollectionAssumption ==
    /\ NoSource \notin Sources
    /\ IsFiniteSet(Urls) /\ Contents # {}
    /\ Kind \in [Sources -> {"github", "github_dir", "feed", "ipk", "html", "url"}]
    /\ Place \in [Sources -> SUBSET Urls]
    /\ Rank \in [Urls -> Int]
    /\ perPage \in Nat \ {0}
    \* A repository is the tree below its root.
    /\ Root \in Dirs
    /\ Subdirs \in [Dirs -> Seq(Dirs)]
    /\ \A ds \in SUBSET Dirs :
         Root \in ds /\ Closed(ds) =>
             \A s \in Sources : Kind[s] = "github_dir" =>
                 \A u \in Place[s] : DirOf[u] \in ds

VARIABLES
    order,    \* pairs of published URLs, the first one uploaded before the second
    asking,   \* the source being listed
    pending,  \* the requests its listing still has to make
    found,    \* found[u]: what its answers described so far
    due,      \* history: sources and URLs these had to list at all times of the run
    shifted   \* history: assets moved to other pages between two requests

askVars == <<asking, pending, found>>
collectVars == <<cacheVars, order, askVars, due, shifted>>

Published  == {u \in Urls : upstream[u] # Absent}
Present(s) == Place[s] \cap Published

\* One upload after the other.
TotalOrder(us) ==
    {o \in SUBSET (us \X us) :
        /\ \A u \in us : <<u, u>> \notin o
        /\ \A u, v \in us : u # v => <<u, v>> \in o \/ <<v, u>> \in o
        /\ \A u, v, w \in us : <<u, v>> \in o /\ <<v, w>> \in o => <<u, w>> \in o}

\* What a source stands for: of the files matching a pattern, the newest.
Due(s) ==
    IF Kind[s] = "ipk"
    THEN {u \in Present(s) : \A v \in Present(s) \ {u} :
            Group[v] = Group[u] => Rank[v] < Rank[u]}
    ELSE Present(s)

CollectInit ==
    /\ Init
    /\ order \in TotalOrder(Published)
    /\ asking = NoSource /\ pending = <<>> /\ found = NoUrls
    /\ due = {} /\ shifted = FALSE

\* The server.  A file that is replaced is deleted and uploaded again.
Change(u) ==
    /\ Publish(u)
    /\ LET rest == Published \ {u}
       IN  order' = (order \cap (rest \X rest))
                    \cup (IF upstream'[u] = Absent THEN {} ELSE rest \X {u})
    /\ due' = {d \in due : d[2] # u /\ d[2] \in Due(d[1])'}
    /\ shifted' = (shifted \/ (upstream[u] # Absent /\ asking # NoSource))
    /\ UNCHANGED askVars

Start ==
    /\ StartRun
    /\ due' = UNION {{s} \X Due(s) : s \in left'}
    /\ shifted' = FALSE
    /\ UNCHANGED <<order, askVars>>

-----------------------------------------------------------------------------
\* The requests a listing starts with: a release (0), whose pages (1, 2, ...)
\* follow; the directory of a tree, whose subdirectories follow; the three
\* indexes of a feed, for as long as none can be read; or one page.
Requests(s) ==
    CASE Kind[s] \in {"github", "url"} -> <<0>>
      [] Kind[s] = "github_dir"        -> <<Root>>
      [] Kind[s] = "feed"              -> <<1, 2, 3>>
      [] Kind[s] \in {"ipk", "html"}   -> <<1>>

Ask(s) ==
    /\ pc = "next" /\ todo = {} /\ s \in left
    /\ asking = NoSource
    /\ asking' = s
    /\ pending' = Requests(s)
    /\ found' = NoUrls
    /\ UNCHANGED <<cacheVars, order, due, shifted>>

Asking(kind) == asking # NoSource /\ pending # <<>> /\ Kind[asking] = kind

\* A URL that nothing is said of.
AnyContent == CHOOSE c \in Contents : TRUE
Described(u) == IF upstream[u] = Absent THEN AnyContent ELSE upstream[u]

\* An answer names the files us, and describes them as they are now.
Answer(us, next) ==
    /\ found' = [u \in Urls |-> IF u \in us THEN Described(u) ELSE found[u]]
    /\ pending' = next
    /\ UNCHANGED <<cacheVars, order, asking, due, shifted>>

Earlier(s, u) == {v \in Present(s) : <<v, u>> \in order}

OnPage(s, page) ==
    {u \in Present(s) :
        Cardinality(Earlier(s, u)) \in (page - 1) * perPage..page * perPage - 1}

FullIsLast(assets, page) ==
    IF Cardinality(assets) <= perPage THEN <<>> ELSE <<page + 1>>

\* githubReleaseAssets: a page that is not full is the last.
NextPage(assets, page) ==
    IF Cardinality(assets) < perPage THEN <<>> ELSE <<page + 1>>

Release ==
    /\ Asking("github") /\ Head(pending) = 0
    /\ Answer({}, <<1>>)

Page ==
    /\ Asking("github") /\ Head(pending) # 0
    /\ LET assets == OnPage(asking, Head(pending))
       IN  Answer(assets, NextPage(assets, Head(pending)))

\* githubDirURLs.
Directory ==
    /\ Asking("github_dir")
    /\ Answer({u \in Present(asking) : DirOf[u] = Head(pending)},
              Subdirs[Head(pending)] \o Tail(pending))

\* feedURLs: the first index that can be read is the whole answer.
Index ==
    /\ Asking("feed")
    /\ Answer(Present(asking), <<>>)

NoIndex ==
    /\ Asking("feed") /\ Len(pending) > 1
    /\ Answer({}, Tail(pending))

\* htmlURLs.  A source that names a URL, once its version is resolved, does not
\* look whether it is there.
Html ==
    /\ Asking("html")
    /\ Answer(Present(asking), <<>>)

Resolved ==
    /\ Asking("url")
    /\ Answer(Place[asking], <<>>)

\* expandIPKURL: one file of each name and architecture, of the highest version.
Newest(us) ==
    {best \in SUBSET us :
        /\ \A u \in us : \E b \in best : Group[b] = Group[u]
        /\ \A b \in best, u \in us : Group[u] = Group[b] => Rank[u] <= Rank[b]
        /\ \A b, c \in best : Group[b] = Group[c] => b = c}

Pattern ==
    /\ Asking("ipk")
    /\ Present(asking) # {}
    /\ \E best \in Newest(Present(asking)) : Answer(best, <<>>)

\* iterIPKURLs is done.
Listed ==
    /\ asking # NoSource /\ pending = <<>>
    /\ ListSource(asking)
    /\ listed'[asking] = found
    /\ asking' = NoSource /\ found' = NoUrls
    /\ UNCHANGED <<order, pending, due, shifted>>

KeepsPart ==
    /\ pc = "next" /\ todo = {}
    /\ left' = left \ {asking} /\ source' = asking
    /\ listed' = [listed EXCEPT ![asking] = found]
    /\ todo' = {u \in Urls : found[u] # Absent}
    /\ opts' = [opts EXCEPT !.partly = TRUE]
    /\ UNCHANGED <<diskVars, url, attempt, got, used, marked, fetched, pc, runs,
                   published>>

\* A request failed for good: nothing of the source is collected.  A feed has
\* more than one to fail; a pattern that matches nothing fails as well.
NothingOf == ListFails(asking)

SourceFails ==
    /\ asking # NoSource /\ pending # <<>>
    /\ Kind[asking] = "feed" => Len(pending) = 1
    /\ NothingOf
    /\ asking' = NoSource /\ pending' = <<>> /\ found' = NoUrls
    /\ UNCHANGED <<order, due, shifted>>

Killed ==
    /\ Kill
    /\ asking' = NoSource /\ pending' = <<>> /\ found' = NoUrls
    /\ due' = {} /\ shifted' = FALSE
    /\ UNCHANGED order

\* The steps of the cache; a run that ends forgets.
Cached ==
    /\ Step
    /\ IF pc = "gc" THEN due' = {} /\ shifted' = FALSE
                    ELSE UNCHANGED <<due, shifted>>
    /\ UNCHANGED <<order, askVars>>

CollectNext ==
    \/ \E u \in Urls : Change(u)
    \/ \E s \in Sources : Ask(s)
    \/ Start \/ Release \/ Page \/ Directory \/ Index \/ NoIndex \/ Html
    \/ Resolved \/ Pattern \/ Listed \/ SourceFails \/ Cached \/ Killed

CollectSpec == CollectInit /\ [][CollectNext]_collectVars

-----------------------------------------------------------------------------
(* Properties.                                                             *)

\* The cache's part of every behaviour is one of the cache's.
CacheSpec == Spec

\* When a run has seen every source, and is to clean up and build, what a source
\* had to offer throughout is listed, so it is neither dropped from the cache
\* nor from the feed: no page, directory or index is skipped, and no failure
\* taken for an empty answer.  Files that are deleted while their pages are
\* being listed move others to pages that were read already; only that may
\* hide one (githubReleaseAssets reads "them all" one request at a time).
NothingMissed ==
    (pc = "gc" /\ ~opts.partly /\ ~shifted) =>
        \A d \in due : listed[d[1]][d[2]] # Absent
=============================================================================
