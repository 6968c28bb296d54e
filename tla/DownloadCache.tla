--------------------------- MODULE DownloadCache ---------------------------
(***************************************************************************)
(* The download cache (download.go): a retrying GET, streamed to a         *)
(* temporary file that is renamed into place, an existing file reused when *)
(* it agrees with the metadata of the source's listing, and the clean-up   *)
(* of entries a run did not use.  The server may put other content behind  *)
(* an URL at any time, also between listing and download, answer with      *)
(* errors, or send a body that breaks off; the process may be killed       *)
(* anywhere.                                                               *)
(***************************************************************************)
EXTENDS Integers

CONSTANTS
    Sources,     \* the sources there may be
    Configs,     \* the sets of sources a run may work on
    Repacked,    \* those of type binary, whose files are built into packages
    Urls,        \* URLs that files are published under
    Packages,    \* file names of built packages: name, version, architecture
    PackageOf,   \* PackageOf[s][u]: the package that s builds of u
    Contents,    \* what can be published
    Cut,         \* the content of a body that broke off unnoticed
    Absent,      \* no file
    Meta,        \* Meta[s]: "sha256", "size" or "none", what the listing of s exposes
    Size,        \* Size[c]: the size of a content, Cut included
    maxRetries,  \* the retries of one request
    MaxRuns,     \* bound: runs
    MaxPublish   \* bound: times the server changes something

Body == Contents \cup {Cut}

ASSUME CacheAssumption ==
    /\ Urls # {} /\ Sources # {} /\ Repacked \subseteq Sources
    /\ Configs \subseteq SUBSET Sources
    /\ PackageOf \in [Sources -> [Urls -> Packages]]
    /\ Cut \notin Contents /\ Absent \notin Body
    /\ Meta \in [Sources -> {"sha256", "size", "none"}]
    /\ Size \in [Body -> Nat]
    /\ \A c \in Contents : Size[c] > 0 /\ Size[Cut] < Size[c]
    /\ maxRetries \in Nat /\ MaxRuns \in Nat /\ MaxPublish \in Nat

VARIABLES
    upstream,  \* upstream[u]: what the server has under u
    file,      \* file[u]: the cache entry of u
    tmp,       \* tmp[u]: the temporary file of u, as far as it was written
    built,     \* built[p]: the file that package p was built of
    pc,        \* where the run is
    left,      \* the sources still to list
    source,    \* the source being worked on
    listed,    \* listed[s][u]: the content that the listing of s described
    todo,      \* the URLs of the source still to get
    url,       \* the URL being got
    attempt,   \* the attempts at its request so far
    got,       \* got[s][u]: the content handed to the build for s
    opts,      \* the flags of the run, and whether it missed a source
    used,      \* the entries this run marked
    marked,    \* the built packages this run marked
    fetched,   \* history: the URLs this run downloaded
    runs, published

diskVars == <<upstream, file, tmp, built>>
listVars == <<left, source, listed>>
runVars  == <<listVars, todo, url, attempt, got, opts, used, marked, fetched>>
cacheVars == <<diskVars, runVars, pc, runs, published>>

Phases == {"idle", "next", "request", "copy", "check", "gc"}

\* A body that was written in part.
Partial == "partial"

NoUrls == [u \in Urls |-> Absent]
None   == [s \in Sources |-> NoUrls]

NoOpts == [refresh |-> FALSE, partly |-> FALSE]

TypeOK ==
    /\ upstream \in [Urls -> Contents \cup {Absent}]
    /\ file \in [Urls -> Body \cup {Absent}]
    /\ tmp \in [Urls -> Body \cup {Partial, Absent}]
    /\ built \in [Packages -> Body \cup {Partial, Absent}]
    /\ pc \in Phases
    /\ left \subseteq Sources /\ source \in Sources
    /\ listed \in [Sources -> [Urls -> Contents \cup {Absent}]]
    /\ todo \subseteq {u \in Urls : listed[source][u] # Absent}
    /\ url \in Urls
    /\ attempt \in 0..maxRetries + 1
    /\ got \in [Sources -> [Urls -> Body \cup {Absent}]]
    /\ used \subseteq Urls /\ fetched \subseteq Urls
    /\ marked \subseteq Packages
    /\ opts \in [refresh: BOOLEAN, partly: BOOLEAN]

AnyUrl    == CHOOSE u \in Urls : TRUE
AnySource == CHOOSE s \in Sources : TRUE

Init ==
    /\ upstream \in [Urls -> Contents \cup {Absent}]
    /\ file = NoUrls /\ tmp = NoUrls
    /\ built = [p \in Packages |-> Absent]
    /\ pc = "idle"
    /\ left = {} /\ source = AnySource
    /\ listed = None /\ got = None /\ opts = NoOpts
    /\ todo = {} /\ used = {} /\ marked = {} /\ fetched = {}
    /\ url = AnyUrl /\ attempt = 0
    /\ runs = 0 /\ published = 0

\* A run ends: only the files outlive it.
Forget ==
    /\ pc' = "idle"
    /\ left' = {} /\ source' = AnySource
    /\ listed' = None /\ got' = None /\ opts' = NoOpts
    /\ todo' = {} /\ used' = {} /\ marked' = {} /\ fetched' = {}
    /\ url' = AnyUrl /\ attempt' = 0

-----------------------------------------------------------------------------
\* The server: other content under the same URL, or none any more.
Publish(u) ==
    /\ published < MaxPublish
    /\ published' = published + 1
    /\ \E c \in Contents \cup {Absent} : upstream' = [upstream EXCEPT ![u] = c]
    /\ UNCHANGED <<file, tmp, built, runVars, pc, runs>>

\* A run starts on some of the sources; partly means that --only skipped one.
StartRun ==
    /\ pc = "idle" /\ runs < MaxRuns
    /\ runs' = runs + 1
    /\ left' \in Configs
    /\ opts' \in [refresh: BOOLEAN, partly: BOOLEAN]
    /\ pc' = "next"
    /\ UNCHANGED <<diskVars, source, listed, todo, url, attempt, got, used,
                   marked, fetched, published>>

\* What a source resolves to is up to its server, and may be out of date.
ListSource(s) ==
    /\ pc = "next" /\ todo = {} /\ s \in left
    /\ left' = left \ {s}
    /\ source' = s
    /\ \E l \in [Urls -> Contents \cup {Absent}] :
        /\ listed' = [listed EXCEPT ![s] = l]
        /\ todo' = {u \in Urls : l[u] # Absent}
    /\ UNCHANGED <<diskVars, url, attempt, got, opts, used, marked, fetched, pc,
                   runs, published>>

\* A source that cannot be listed contributes nothing, and is missed.
ListFails(s) ==
    /\ pc = "next" /\ todo = {} /\ s \in left
    /\ left' = left \ {s}
    /\ opts' = [opts EXCEPT !.partly = TRUE]
    /\ UNCHANGED <<diskVars, source, listed, todo, url, attempt, got, used, marked,
                   fetched, pc, runs, published>>

-----------------------------------------------------------------------------
\* cachedMismatch: everything that the listing of s said of u is true of c.
Agrees(s, u, c) ==
    CASE Meta[s] = "sha256" -> c = listed[s][u]
      [] Meta[s] = "size"   -> listed[s][u] # Absent => Size[c] = Size[listed[s][u]]
      [] Meta[s] = "none"   -> TRUE

Matches(u, c) == Agrees(source, u, c)

EvenOnRefresh(u) == file[u] # Absent /\ Matches(u, file[u])

OnlyDescribed(u) ==
    ~opts.refresh /\ file[u] # Absent /\ Meta[source] # "none" /\ Matches(u, file[u])

\* get: the entry is there and may be used as it is.
Reusable(u) == ~opts.refresh /\ file[u] # Absent /\ Matches(u, file[u])

BuiltOnce(u) ==
    LET p == PackageOf[source][u]
    IN  /\ got' = [got EXCEPT ![source][u] = file[u]]
        /\ IF source \in Repacked /\ built[p] = Absent
           THEN built' = [built EXCEPT ![p] = file[u]] /\ marked' = marked \cup {p}
           ELSE UNCHANGED <<built, marked>>

\* What get returns for u is collected; of a binary source it is read and built
\* into a package at once, which is collected when the whole source is done.
HandOut(u) ==
    LET p == PackageOf[source][u]
    IN  /\ got' = [got EXCEPT ![source][u] = file[u]]
        /\ IF source \in Repacked
           THEN built' = [built EXCEPT ![p] = file[u]] /\ marked' = marked \cup {p}
           ELSE UNCHANGED <<built, marked>>

\* get(u) marks the entry; it is reused, or requested from the server.
Reuse(u) ==
    /\ pc = "next" /\ u \in todo
    /\ used' = used \cup {u}
    /\ Reusable(u)
    /\ HandOut(u)
    /\ todo' = todo \ {u}
    /\ UNCHANGED <<upstream, file, tmp, listVars, url, attempt, opts, fetched, pc,
                   runs, published>>

Request(u) ==
    /\ pc = "next" /\ u \in todo
    /\ used' = used \cup {u}
    /\ ~Reusable(u)
    /\ url' = u
    /\ attempt' = 0
    /\ pc' = "request"
    /\ todo' = todo \ {u}
    /\ UNCHANGED <<diskVars, listVars, got, opts, marked, fetched, runs, published>>

\* A binary source gives up, the packages it did build not collected.
DropSource ==
    /\ source \in Repacked
    /\ todo' = {}
    /\ got' = [got EXCEPT ![source] = NoUrls]
    /\ opts' = [opts EXCEPT !.partly = TRUE]

\* get fails: the package of another source is missing from this build.
DropFile ==
    /\ source \notin Repacked
    /\ UNCHANGED <<todo, got, opts>>

Missing ==
    /\ pc' = "next"
    /\ DropSource \/ DropFile
    /\ UNCHANGED <<listVars, url, attempt>>

\* Client.do: an attempt that got no answer, or one worth a retry.
MayRetry == attempt < maxRetries

TryAgain ==
    /\ pc = "request"
    /\ MayRetry
    /\ attempt' = attempt + 1
    /\ UNCHANGED <<diskVars, listVars, todo, url, got, opts, used, marked,
                   fetched, pc, runs, published>>

\* The last attempt failed too, or the answer is an error that a retry would
\* not change, or the temporary file cannot be created.
RequestFails ==
    /\ pc = "request"
    /\ Missing
    /\ UNCHANGED <<diskVars, used, marked, fetched, runs, published>>

AnsweredInPlace ==
    /\ pc = "request"
    /\ file' = [file EXCEPT ![url] = Partial]
    /\ pc' = "copy"
    /\ UNCHANGED <<upstream, tmp, built, runVars, runs, published>>

\* fetchToFile: the body is streamed to the temporary file.
Answered ==
    /\ pc = "request"
    /\ upstream[url] # Absent
    /\ tmp' = [tmp EXCEPT ![url] = Partial]
    /\ pc' = "copy"
    /\ UNCHANGED <<upstream, file, built, runVars, runs, published>>

\* A body that is known to be incomplete is dropped ...
CopyFails ==
    /\ pc = "copy"
    /\ \E rest \in {Absent, Partial} : tmp' = [tmp EXCEPT ![url] = rest]
    /\ Missing
    /\ UNCHANGED <<upstream, file, built, used, marked, fetched, runs, published>>

\* ... and one that is not becomes the cache entry, by a rename.
Renamed(c) ==
    /\ file' = [file EXCEPT ![url] = c]
    /\ tmp' = [tmp EXCEPT ![url] = Absent]
    /\ fetched' = fetched \cup {url}
    /\ pc' = "check"

Copied ==
    /\ pc = "copy"
    /\ \E c \in ({upstream[url]} \ {Absent}) \cup {Cut} : Renamed(c)
    /\ UNCHANGED <<upstream, built, listVars, todo, url, attempt, got, opts, used,
                   marked, runs, published>>

Trusted(c) == TRUE

\* get: what was downloaded must match the listing as well.
Checked(c) == Matches(url, c)

Accept ==
    /\ pc = "check"
    /\ Checked(file[url])
    /\ HandOut(url)
    /\ pc' = "next"
    /\ UNCHANGED <<upstream, file, tmp, listVars, todo, url, attempt, opts, used,
                   fetched, runs, published>>

Reject ==
    /\ pc = "check"
    /\ ~Checked(file[url])
    /\ file' = [file EXCEPT ![url] = Absent]
    /\ Missing
    /\ UNCHANGED <<upstream, tmp, built, used, marked, fetched, runs, published>>

\* A binary source that cannot read, unpack or package what it got; it may
\* leave a package that is written in part, and marked.
CannotBuild(u) ==
    /\ source \in Repacked
    /\ \/ pc = "next" /\ u \in todo /\ Reusable(u)
       \/ pc = "check" /\ u = url /\ Checked(file[u])
    /\ used' = used \cup {u}
    /\ Missing
    /\ \/ UNCHANGED <<built, marked>>
       \/ LET p == PackageOf[source][u]
          IN  /\ \E b \in {built[p], Partial} : built' = [built EXCEPT ![p] = b]
              /\ marked' = marked \cup {p}
    /\ UNCHANGED <<upstream, file, tmp, fetched, runs, published>>

EndGets ==
    /\ pc = "next" /\ todo = {} /\ left = {}
    /\ pc' = "gc"
    /\ UNCHANGED <<diskVars, runVars, runs, published>>

UnlessHandedOut == {u \in Urls : \A s \in Sources : got[s][u] = Absent}

\* gc: entries that were not marked, and every temporary file.
Unused == Urls \ used

Gc ==
    /\ pc = "gc"
    /\ ~opts.partly
    /\ file' = [u \in Urls |-> IF u \in Unused THEN Absent ELSE file[u]]
    /\ tmp' = NoUrls
    /\ built' = [p \in Packages |-> IF p \in marked THEN built[p] ELSE Absent]
    /\ Forget
    /\ UNCHANGED <<upstream, runs, published>>

\* It stops at the first entry that it cannot remove, in no certain order.
GcStops ==
    /\ pc = "gc"
    /\ ~opts.partly
    /\ \E gone \in SUBSET Unused, parts \in SUBSET Urls,
          old \in SUBSET (Packages \ marked) :
        /\ file' = [u \in Urls |-> IF u \in gone THEN Absent ELSE file[u]]
        /\ tmp' = [u \in Urls |-> IF u \in parts THEN Absent ELSE tmp[u]]
        /\ built' = [p \in Packages |-> IF p \in old THEN Absent ELSE built[p]]
    /\ Forget
    /\ UNCHANGED <<upstream, runs, published>>

\* A run that did not see every source leaves the cache alone; so does one
\* with a failed index, or one that fails before the clean-up.
NoGc ==
    /\ pc = "gc"
    /\ Forget
    /\ UNCHANGED <<diskVars, runs, published>>

Kill ==
    /\ pc # "idle"
    /\ Forget
    /\ UNCHANGED <<diskVars, runs, published>>

Step ==
    \/ \E u \in Urls : Reuse(u) \/ Request(u) \/ CannotBuild(u)
    \/ TryAgain \/ RequestFails \/ Answered \/ CopyFails \/ Copied
    \/ Accept \/ Reject \/ EndGets \/ Gc \/ GcStops \/ NoGc

Lists == \E s \in Sources : ListSource(s) \/ ListFails(s)

Next == StartRun \/ Lists \/ Step \/ Kill \/ \E u \in Urls : Publish(u)

Spec == Init /\ [][Next]_cacheVars

-----------------------------------------------------------------------------
(* Properties.                                                             *)

\* What get hands to the build agrees with what the source's listing said in
\* this run, whether it was cached or downloaded, even when the server changed
\* it in between: a body that broke off gets through only for sources that
\* expose no metadata (cachedMismatch, before and after the download).
HandedOutMatches ==
    \A s \in Sources, u \in Urls : got[s][u] # Absent => Agrees(s, u, got[s][u])

\* --refresh hands out nothing that an earlier run downloaded.
RefreshDownloads ==
    opts.refresh => \A s \in Sources, u \in Urls : got[s][u] # Absent => u \in fetched

\* What the get of u for t does to the file that s was handed: t's listing
\* contradicts it, or a --refresh run downloads it again for every source.
Replaces(t, s, u) ==
    /\ listed[t][u] # Absent
    /\ ~Agrees(t, u, got[s][u]) \/ (opts.refresh /\ t # s)

\* What was handed out for one source is still in the cache, as it was, when the
\* build reads it, though other sources list the same URL: unless the listing
\* of one of these contradicts it, or the run is a --refresh and so downloads
\* it again for another source, which replaces or removes the file (get).
StaysAsHandedOut ==
    \A s \in Sources, u \in Urls :
        got[s][u] # Absent =>
            file[u] = got[s][u] \/ \E t \in Sources : Replaces(t, s, u)

\* A package that a binary source hands over is built of what the source got,
\* unless another source builds a package of that name, version and
\* architecture: they share a file, and the last to write it wins (packageAs).
BuiltOfOwn ==
    \A s \in Repacked, u \in Urls :
        got[s][u] # Absent =>
            \/ built[PackageOf[s][u]] = got[s][u]
            \/ \E t \in Repacked, v \in Urls :
                 /\ <<t, v>> # <<s, u>> /\ listed[t][v] # Absent
                 /\ PackageOf[t][v] = PackageOf[s][u]

\* The clean-up keeps the entry of every URL a source resolves to, also when
\* the server could not be reached for it: an outage does not cost what is
\* cached (get marks the entry before it tries, gc).
OutageKeepsEntry ==
    [][pc = "gc" => \A s \in Sources, u \in Urls :
         listed[s][u] # Absent => file'[u] = file[u]]_cacheVars

\* Why these hold: a source gets a URL once in a run, so nothing is handed out
\* for one that is still to come or under way, nor for a source that is.
GotOnce ==
    /\ \A s \in left : listed[s] = NoUrls
    /\ \A s \in Sources, u \in Urls : got[s][u] # Absent => listed[s][u] # Absent
    /\ \A u \in todo : got[source][u] = Absent
    /\ pc \in {"request", "copy", "check"} => /\ got[source][url] = Absent
                                            /\ listed[source][url] # Absent
                                            /\ url \notin todo
    /\ pc = "check" => url \in fetched
    /\ pc = "idle" => listed = None /\ got = None

\* An entry is requested only when it cannot be used.
Contradicted ==
    (pc \in {"request", "copy"} /\ ~opts.refresh /\ file[url] # Absent)
        => ~Matches(url, file[url])

\* A URL that was listed was marked, or is to be got; one that a source gave up
\* on is missed.
MarkedWhenListed ==
    /\ \A s \in Sources, u \in Urls :
         listed[s][u] # Absent => \/ u \in used
                                  \/ s = source /\ u \in todo
                                  \/ opts.partly
    /\ pc \in {"idle", "gc"} => todo = {}

Delivered ==
    HandedOutMatches /\ RefreshDownloads /\ StaysAsHandedOut /\ BuiltOfOwn

\* The inductive invariant.
IInv == TypeOK /\ GotOnce /\ Contradicted /\ MarkedWhenListed /\ Delivered
=============================================================================
