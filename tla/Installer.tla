----------------------------- MODULE Installer -----------------------------
(***************************************************************************)
(* add.sh on a router (the templates of repohelpers.go).  The script edits *)
(* the router's feed list, a file that the user and other tools edit too:  *)
(* it removes the block it wrote before, and writes a new one line by line *)
(* as it finds the server's directories.  The server may be rebuilt and    *)
(* the network fail at any step, the router may lose power, be upgraded,   *)
(* or be pointed at another release.                                       *)
(***************************************************************************)
EXTENDS Integers, SequencesExt

CONSTANTS
    Releases,   \* the point releases of the feed, <<branch, number>>
    Kernels,    \* the kernels a router may run
    Keys,       \* the signing keys
    None,       \* no key, or no kernel found
    Servers,    \* what the feed's server may have: the feed's dirs, the feeds of
                \* each branch, the key
    InitLists,  \* the feed lists a router may start with
    UserLines,  \* lines that the user adds
    MaxLines,   \* bound: the length of a list whose old block could not be removed
    MaxRuns,    \* bound: runs of the script
    MaxChanges, \* bound: rebuilds of the server and upgrades of the router
    MaxFaults   \* bound: interruptions, failed removals and failed downloads

ASSUME InstallerAssumption ==
    /\ None \notin Kernels \cup Keys
    /\ \A s \in Servers, r \in Releases :
         \* The feeds that the build found dirs of, each one once.
         /\ s.feeds[r[1]] \in Seq(Range(s.feeds[r[1]]))
         /\ IsInjective(s.feeds[r[1]])
         /\ s.key \in Keys \cup {None}
    /\ \A c \in InitLists :
         c \in Seq(Range(c)) /\ \A l \in Range(c) : l.kind \in {"old", "user"}
    /\ MaxLines \in Nat /\ MaxRuns \in Nat /\ MaxChanges \in Nat /\ MaxFaults \in Nat

VARIABLES
    format,   \* the format of the feed: "ipk" (opkg) or "apk"
    server,   \* what the server has
    kernel,   \* the router's kernel
    keys,     \* keys[n]: the key in the file n of the router's key directory
    conf,     \* the router's feed list, a sequence of lines
    script,   \* the add.sh that runs or ran last
    pc,       \* the step it is at
    todo,     \* the feeds it has yet to look for
    kept,     \* history: the lines the user added, and not inside a block
    quiet,    \* history: the run was not disturbed
    removed,  \* history: the run did remove the earlier block
    runs, changes, faults

bounds == <<runs, changes, faults>>
routerVars == <<kernel, keys, conf, kept>>
scriptVars == <<script, pc, todo, quiet, removed, runs>>
installVars == <<format, server, routerVars, scriptVars, changes, faults>>

\* The directories of a feed.
ArchDir(branch, feed) == <<"arch", branch, feed>>
AllDir(branch, feed)  == <<"all", branch, feed>>
KmodsDir(release, k)  == <<"kmods", release, k>>
TargetsDir(release)   == <<"targets", release, None>>

Begin    == [kind |-> "begin", of |-> None]
End      == [kind |-> "end", of |-> None]
Src(dir) == [kind |-> "feed", of |-> dir]

\* A line of the format before there were blocks: marked one by one.
Old(dir) == [kind |-> "old", of |-> dir]

User(x)  == [kind |-> "user", of |-> x]

\* writeRepoHelpers: what a script was generated with, and the router's kernel
\* as the script finds it.
Script(release) ==
    [release |-> release, feeds |-> server.feeds[release[1]],
     key |-> server.key, kernel |-> kernel]

\* Without the second of a pair.
ArchOnly(s) ==
    [i \in DOMAIN s.feeds |-> <<ArchDir(s.release[1], s.feeds[i])>>]
    \o <<<<TargetsDir(s.release)>>>>

\* The directories a script asks for, in its order: the second of a pair only
\* when the first is not there.
Wanted(s) ==
    [i \in DOMAIN s.feeds |->
        <<ArchDir(s.release[1], s.feeds[i]), AllDir(s.release[1], s.feeds[i])>>]
    \o (IF s.kernel = None THEN <<>> ELSE <<<<KmodsDir(s.release, s.kernel)>>>>)
    \o <<<<TargetsDir(s.release)>>>>

OneName(key) == None

\* The file of a key: its id, or one name for all.
KeyName(key) == IF format = "ipk" THEN key ELSE None

Steps == {"idle", "key", "clean", "begin", "probe", "update", "done", "failed"}

Ended == {"idle", "done", "failed"}

\* What may be in a list.
Lines ==
    {Begin, End}
    \cup {Src(dir) : dir \in UNION {s.dirs : s \in Servers}}
    \cup {User(x) : x \in UserLines}
    \cup UNION {Range(c) : c \in InitLists}

TypeOK ==
    /\ format \in {"ipk", "apk"}
    /\ server \in Servers
    /\ kernel \in Kernels \cup {None}
    /\ keys \in [Keys \cup {None} -> Keys \cup {None}]
    /\ conf \in Seq(Lines)
    /\ script.release \in Releases
    /\ pc \in Steps
    /\ todo # <<>> => pc \notin Ended
    /\ kept \subseteq UserLines
    /\ quiet \in BOOLEAN /\ removed \in BOOLEAN
    /\ runs \in 0..MaxRuns /\ changes \in 0..MaxChanges /\ faults \in 0..MaxFaults

Init ==
    /\ format \in {"ipk", "apk"}
    /\ server \in Servers
    /\ kernel \in Kernels \cup {None}
    /\ keys = [n \in Keys \cup {None} |-> None]
    /\ conf \in {c \in InitLists :
                   format = "apk" => \A i \in DOMAIN c : c[i].kind # "old"}
    /\ script \in {Script(r) : r \in Releases}
    /\ pc = "idle" /\ todo = <<>>
    /\ kept = {} /\ quiet = FALSE /\ removed = FALSE
    /\ runs = 0 /\ changes = 0 /\ faults = 0


-----------------------------------------------------------------------------
\* What happens around the script.

\* The server is built, signed or published anew.
Change == changes < MaxChanges /\ changes' = changes + 1 /\ quiet' = FALSE

Rebuild ==
    /\ Change
    /\ server' \in Servers \ {server}
    /\ UNCHANGED <<format, routerVars, script, pc, todo, removed, runs,
                   faults>>

\* Another kernel, with another release of the router's system.
Upgrade ==
    /\ pc \in Ended
    /\ Change
    /\ kernel' \in (Kernels \cup {None}) \ {kernel}
    /\ UNCHANGED <<format, server, keys, conf, kept, script, pc, todo, removed,
                   runs, faults>>

InBlock(c, i) ==
    \E b \in 1..i : /\ c[b].kind = "begin"
                    /\ \A j \in b..(i - 1) : c[j].kind # "end"

\* The user adds a line to the list, above everything or below, at any time.
AddUserLine ==
    \E x \in UserLines \ {conf[i].of : i \in DOMAIN conf} :
        \/ /\ conf' = <<User(x)>> \o conf
           /\ kept' = kept \cup {x}
           /\ UNCHANGED <<format, server, kernel, keys, scriptVars, changes, faults>>
        \/ /\ conf' = Append(conf, User(x))
           /\ kept' = IF InBlock(conf', Len(conf')) THEN kept ELSE kept \cup {x}
           /\ UNCHANGED <<format, server, kernel, keys, scriptVars, changes, faults>>

Fault == faults < MaxFaults /\ faults' = faults + 1 /\ quiet' = FALSE

LeftToDo(p) == pc' = p /\ todo' = todo

Stopped(p) == pc' = p /\ todo' = <<>>

\* Power loss, a lost connection, or a script that arrived in part.
Interrupt ==
    /\ pc \notin Ended
    /\ Fault
    /\ Stopped("idle")
    /\ UNCHANGED <<format, server, routerVars, script, removed, runs, changes>>

-----------------------------------------------------------------------------
\* The script.

Start ==
    /\ pc \in Ended
    /\ runs < MaxRuns /\ runs' = runs + 1
    /\ \E r \in Releases : script' = Script(r)
    /\ pc' = "key"
    /\ quiet' = TRUE /\ removed' = FALSE
    /\ UNCHANGED <<format, server, routerVars, todo, changes, faults>>

\* The key of a signed feed is downloaded under the name the script has for it.
InstallKey ==
    /\ pc = "key"
    /\ pc' = "clean"
    /\ keys' = IF script.key = None \/ server.key = None THEN keys
               ELSE [keys EXCEPT ![KeyName(script.key)] = server.key]
    /\ UNCHANGED <<format, server, kernel, conf, kept, script, todo, quiet,
                   removed, bounds>>

\* A failed download is a warning; what it leaves of the file may be nothing.
NoKey ==
    /\ pc = "key" /\ script.key # None
    /\ Fault
    /\ pc' = "clean"
    /\ keys' \in {keys, [keys EXCEPT ![KeyName(script.key)] = None]}
    /\ UNCHANGED <<format, server, kernel, conf, kept, script, todo, removed,
                   runs, changes>>

\* sed: blocks, down to the end of the file when one has no end, and for opkg
\* every other line with the script's mark.
FromBeginDown(c) ==
    {i \in DOMAIN c : \/ \E b \in 1..i : c[b].kind = "begin"
                      \/ c[i].kind \in {"end", "old"}}

ClosedOnly(c) ==
    {i \in DOMAIN c : /\ InBlock(c, i)
                      /\ \E j \in i..Len(c) : c[j].kind = "end"}

Removed(c) ==
    {i \in DOMAIN c : \/ InBlock(c, i)
                      \/ format = "ipk" /\ c[i].kind \in {"begin", "end", "old"}}

Without(c, gone) ==
    LET stay    == DOMAIN c \ gone
        line(k) == CHOOSE i \in stay : Cardinality({j \in stay : j <= i}) = k
    IN  [k \in 1..Cardinality(stay) |-> c[line(k)]]

RemoveBlock ==
    /\ pc = "clean"
    /\ pc' = "begin"
    /\ conf' = Without(conf, Removed(conf))
    /\ removed' = TRUE
    /\ UNCHANGED <<format, server, kernel, keys, kept, script, todo, quiet,
                   bounds>>

\* "|| true": a list that sed cannot rewrite is written on.
RemoveFails ==
    /\ pc = "clean"
    /\ Fault
    /\ Len(conf) + 2 + Len(Wanted(script)) <= MaxLines
    /\ pc' = "begin"
    /\ UNCHANGED <<format, server, routerVars, script, todo, removed, runs,
                   changes>>

BeginBlock ==
    /\ pc = "begin"
    /\ conf' = Append(conf, Begin)
    /\ todo' = Wanted(script)
    /\ pc' = "probe"
    /\ UNCHANGED <<format, server, kernel, keys, kept, script, quiet, removed,
                   bounds>>

\* add_feed: the directory is there.
AddFeed ==
    /\ pc = "probe" /\ todo # <<>>
    /\ LET dir == Head(Head(todo))
       IN  /\ dir \in server.dirs
           /\ conf' = Append(conf, Src(dir))
    /\ todo' = Tail(todo)
    /\ UNCHANGED <<format, server, kernel, keys, kept, script, pc, quiet,
                   removed, bounds>>

\* It is not, or so it seems: the next one of the pair, or of the list.
NextFeed ==
    todo' = IF Len(Head(todo)) > 1 THEN <<Tail(Head(todo))>> \o Tail(todo)
                                   ELSE Tail(todo)

NoFeed ==
    /\ pc = "probe" /\ todo # <<>>
    /\ Head(Head(todo)) \notin server.dirs
    /\ NextFeed
    /\ UNCHANGED <<format, server, routerVars, script, pc, quiet, removed,
                   bounds>>

ProbeFails ==
    /\ pc = "probe" /\ todo # <<>>
    /\ Fault
    /\ NextFeed
    /\ UNCHANGED <<format, server, routerVars, script, pc, removed, runs,
                   changes>>

EndBlock ==
    /\ pc = "probe" /\ todo = <<>>
    /\ conf' = Append(conf, End)
    /\ pc' = "update"
    /\ UNCHANGED <<format, server, kernel, keys, kept, script, todo, quiet,
                   removed, bounds>>

\* opkg update and apk update look at every feed of the list.  The tools are
\* external: apk is told to accept unsigned feeds, opkg may be.
Listed == {conf[i].of : i \in {j \in DOMAIN conf : conf[j].kind \in {"feed", "old"}}}

Trusted ==
    \/ server.key # None /\ format = "ipk" /\ keys[server.key] = server.key
    \/ server.key # None /\ format = "apk" /\ \E n \in DOMAIN keys : keys[n] = server.key
    \/ server.key = None /\ format = "apk" /\ script.key = None

UpToTheRouter == server.key = None /\ format = "ipk"

Updatable == Listed = {} \/ (Listed \subseteq server.dirs /\ Trusted)

Update ==
    /\ pc = "update"
    /\ Updatable \/ UpToTheRouter
    /\ Stopped("done")
    /\ UNCHANGED <<format, server, routerVars, script, quiet, removed, bounds>>

UpdateFails ==
    /\ pc = "update"
    /\ \/ ~Updatable /\ UNCHANGED <<quiet, faults>>
       \/ Fault
    /\ Stopped("failed")
    /\ UNCHANGED <<format, server, routerVars, script, removed, runs, changes>>

Next ==
    \/ Rebuild \/ Upgrade \/ AddUserLine \/ Interrupt
    \/ Start \/ InstallKey \/ NoKey \/ RemoveBlock \/ RemoveFails
    \/ BeginBlock \/ AddFeed \/ NoFeed \/ ProbeFails \/ EndBlock
    \/ Update \/ UpdateFails

Spec == Init /\ [][Next]_installVars

-----------------------------------------------------------------------------
(* Properties.                                                             *)

\* A line that the user added outside of a block is never taken away, in
\* whatever order runs are interrupted, repeated and edited around; a block
\* that was cut short has no end, so what is added below it is not so safe.
UserLinesStay == kept \subseteq {conf[i].of : i \in DOMAIN conf}

\* The lines that are not the user's.
Managed == {i \in DOMAIN conf : conf[i].kind # "user"}

Placed(dir) == {i \in DOMAIN Wanted(script) : dir \in Range(Wanted(script)[i])}

\* The feeds i of the list are of this script, in its order, each one once.
InOrder(is) ==
    /\ \A i \in is : conf[i].kind = "feed" /\ Placed(conf[i].of) # {}
    /\ \A i, j \in is : i < j =>
         \A x \in Placed(conf[i].of), y \in Placed(conf[j].of) : x < y

\* Whatever earlier runs left, and whatever failed in this one: when a run that
\* could rewrite the list reaches its end, all that is managed is one block,
\* for this release, branch and kernel, with at most one line for each feed.
OneBlockOfThisRun ==
    (pc \in {"update", "done", "failed"} /\ removed) =>
        \E b, e \in Managed :
            /\ conf[b] = Begin /\ conf[e] = End
            /\ Managed \subseteq b..e
            /\ InOrder(Managed \ {b, e})

\* A run that nothing disturbs lists exactly what the server has for this
\* router, a feed under all/ only where there is none for the architecture.
QuietRunListsAll ==
    (pc \in {"update", "done", "failed"} /\ quiet) =>
        LET r == script.release
            feeds == Range(server.feeds[r[1]])
            arch(f) == ArchDir(r[1], f)
        IN  Listed = server.dirs \cap
                ({arch(f) : f \in feeds}
                 \cup {AllDir(r[1], f) : f \in {g \in feeds : arch(g) \notin server.dirs}}
                 \cup {KmodsDir(r, k) : k \in {kernel} \ {None}}
                 \cup {TargetsDir(r)})

\* After such a run against a signed server, the router's update succeeds: it
\* lists nothing that is not there, and has the key for what it lists, whatever
\* keys and lines earlier servers left.
QuietRunUpdates == (quiet /\ server.key # None) => pc # "failed"
=============================================================================
