------------------------------ MODULE SdkCache ------------------------------
(***************************************************************************)
(* Packages compiled from source (sdk.go) and the part of the cache they   *)
(* live in (download.go, gc).  Sources that share a buildroot and a build  *)
(* (release x target) are one group, compiled by a single run of the       *)
(* external make, which leaves its packages in a directory all groups of   *)
(* the release share; each source then harvests its own into its cache     *)
(* directory and marks it .done.  A marked directory is reused by the next *)
(* runs.  The process may be killed anywhere, also while it removes a      *)
(* directory, which then has lost some of its files but maybe not the mark.*)
(***************************************************************************)
EXTENDS Integers, Sequences

CONSTANTS
    Srcs,        \* the sdk sources of the config
    Builds,      \* the release x target combinations, all of one release
    Pkgs,        \* the packages the buildroot can produce
    Wants,       \* Wants[s]: the packages the include globs of s select
    Matrix,      \* Matrix[s]: the builds of s
    Name,        \* Name[s]: what its cache directory is called
    Faults,      \* which of "make", "io", "kill" may happen
    MaxMakes,    \* bound: runs of make
    MaxRuns      \* bound: runs of the feed builder

ASSUME SdkAssumption ==
    /\ Wants \in [Srcs -> SUBSET Pkgs]
    /\ Matrix \in [Srcs -> SUBSET Builds]
    /\ Faults \subseteq {"make", "io", "kill"}
    /\ MaxMakes \in Nat /\ MaxRuns \in Nat

VARIABLES
    files,    \* files[d]: the package files in cache directory d
    done,     \* the directories with a .done marker
    pc,       \* where the run is
    run,      \* its parameters and what it knows so far, see NoRun
    failed,   \* the sources it reports as failed
    out,      \* what it collected: <<source, build, file>>
    runs,     \* how many runs were started
    made,     \* history: made[i] is the build and the packages of make run i
    torn      \* history: directories whose removal was cut short

sdkVars == <<files, done, pc, run, failed, out, runs, made, torn>>

Dirs == {<<Name[s], b>> : s \in Srcs, b \in Builds}
File == [pkg: Pkgs, mk: 1..MaxMakes]

cacheDir(s, b) == <<Name[s], b>>

NoRun == [enabled |-> {}, plans |-> {}, only |-> FALSE, refresh |-> FALSE,
          todo |-> {}, build |-> CHOOSE b \in Builds : TRUE, needed |-> {},
          used |-> {}, before |-> {}, since |-> 0]

EverySource(b) == {s \in Srcs : b \in Matrix[s]}

\* The sources whose build b this run looks after.
Members(b) == {s \in run.plans : b \in Matrix[s]}

Phases == {"idle", "groups", "make", "clear", "fill", "mark", "collect",
           "end"}

TypeOK ==
    /\ files \in [Dirs -> SUBSET File]
    /\ done \subseteq Dirs
    /\ pc \in Phases
    /\ run.needed \subseteq run.plans
    /\ run.plans \subseteq run.enabled
    /\ run.enabled \subseteq Srcs
    /\ run.used \subseteq Dirs
    /\ failed \subseteq run.enabled
    /\ out \subseteq Srcs \X Builds \X File
    /\ torn \subseteq Dirs
    /\ made \in Seq([build: Builds, pkgs: SUBSET Pkgs])

Init ==
    /\ files = [d \in Dirs |-> {}]
    /\ done = {}
    /\ pc = "idle" /\ run = NoRun
    /\ failed = {} /\ out = {} /\ runs = 0
    /\ made = <<>> /\ torn = {}

-----------------------------------------------------------------------------
\* What is left of a directory when its removal fails or is cut short:
\* fewer files, and the mark either way.
Remains(d) ==
    \E left \in SUBSET files[d] :
        /\ files' = [files EXCEPT ![d] = left]
        /\ done' \in {done, done \ {d}}
        /\ torn' = torn \cup {d}

\* The removal of a set of directories.
Emptied(ds) ==
    /\ files' = [d \in Dirs |-> IF d \in ds THEN {} ELSE files[d]]
    /\ done' = done \ ds
    /\ torn' = torn \ ds

\* The run goes on with the next source to harvest, or collects.
NextSource(s) ==
    /\ run' = [run EXCEPT !.needed = @ \ {s}]
    /\ pc' = IF run.needed = {s} THEN "collect" ELSE "clear"

GiveUp(s) ==
    /\ failed' = failed \cup {s}
    /\ NextSource(s)

\* The next group, and the next source to harvest: in the order of the config,
\* which is one fixed order.
NextBuild == CHOOSE b \in run.todo : TRUE
Turn      == CHOOSE s \in run.needed : TRUE

-----------------------------------------------------------------------------
\* A run starts with the config as it is then.  Sources with a bad config are
\* reported and skipped; --only visits some sources, --refresh trusts nothing.
StartRun ==
    /\ pc = "idle" /\ runs < MaxRuns
    /\ runs' = runs + 1
    /\ \E enabled \in SUBSET Srcs, only, refresh \in BOOLEAN :
       \E visited \in IF only THEN SUBSET enabled ELSE {enabled} :
       \E bad \in SUBSET visited :
        /\ "make" \notin Faults => bad = {}
        /\ failed' = bad
        /\ run' = [NoRun EXCEPT !.enabled = enabled, !.plans = visited \ bad,
                     !.only = only, !.refresh = refresh,
                     !.before = done, !.since = Len(made),
                     !.todo = UNION {Matrix[s] : s \in visited \ bad}]
    /\ pc' = "groups"
    /\ out' = {}
    /\ UNCHANGED <<files, done, made, torn>>

\* Every directory of the group counts as used by this run.
Mark(b) == {cacheDir(s, b) : s \in Members(b)}

NeverAgain(b) == {s \in Members(b) : cacheDir(s, b) \notin done}

Needed(b) ==
    {s \in Members(b) : run.refresh \/ cacheDir(s, b) \notin done}

\* sdkCollect takes the next group and finds who has no completed build.
Group(b) ==
    /\ pc = "groups"
    /\ run.todo # {} /\ b = NextBuild
    /\ run' = [run EXCEPT !.todo = @ \ {b}, !.build = b,
                          !.needed = Needed(b),
                          !.used = @ \cup Mark(b)]
    /\ pc' = IF Needed(b) = {} THEN "collect" ELSE "make"
    /\ UNCHANGED <<files, done, failed, out, runs, made, torn>>

\* sdkRunGroup: no package of the group is compiled.
MakeFails ==
    /\ pc = "make"
    /\ "make" \in Faults
    /\ failed' = failed \cup run.needed
    /\ run' = [run EXCEPT !.needed = {}]
    /\ pc' = "collect"
    /\ UNCHANGED <<files, done, out, runs, made, torn>>

\* make compiles the packages asked for and what they depend on.  That it
\* leaves nothing of an earlier run behind is the buildroot's business.
MakeDone ==
    /\ pc = "make"
    /\ Len(made) < MaxMakes
    /\ \E pkgs \in SUBSET Pkgs :
        /\ "make" \notin Faults
               => UNION {Wants[s] : s \in run.needed} \subseteq pkgs
        /\ made' = Append(made, [build |-> run.build, pkgs |-> pkgs])
    /\ pc' = "clear"
    /\ UNCHANGED <<files, done, run, failed, out, runs, torn>>

\* What an earlier build left in the directory goes before the new one comes.
Clear ==
    /\ pc = "clear"
    /\ Emptied({cacheDir(Turn, run.build)})
    /\ pc' = "fill"
    /\ UNCHANGED <<run, failed, out, runs, made>>

ClearFails ==
    /\ pc = "clear"
    /\ "io" \in Faults
    /\ Remains(cacheDir(Turn, run.build))
    /\ GiveUp(Turn)
    /\ UNCHANGED <<out, runs, made>>

\* The package files the last run of make left in the buildroot.
Output ==
    {[pkg |-> p, mk |-> Len(made)] : p \in made[Len(made)].pkgs}

AnyPackage(s) == Output

\* sdkHarvest: the packages of s among those that were compiled.
Kept(s) == {f \in Output : f.pkg \in Wants[s]}

Fill ==
    /\ pc = "fill"
    /\ LET d == cacheDir(Turn, run.build)
       IN  files' = [files EXCEPT ![d] = @ \cup Kept(Turn)]
    /\ IF Kept(Turn) # {}
       THEN pc' = "mark" /\ UNCHANGED <<run, failed>>
       ELSE GiveUp(Turn)
    /\ UNCHANGED <<done, out, runs, made, torn>>

FillFails ==
    /\ pc = "fill"
    /\ "io" \in Faults
    /\ \E some \in SUBSET Kept(Turn) :
        files' = [files EXCEPT ![cacheDir(Turn, run.build)] = @ \cup some]
    /\ GiveUp(Turn)
    /\ UNCHANGED <<done, out, runs, made, torn>>

MarkDone ==
    /\ pc = "mark"
    /\ done' = done \cup {cacheDir(Turn, run.build)}
    /\ NextSource(Turn)
    /\ UNCHANGED <<files, failed, out, runs, made, torn>>

\* The write of the marker can fail with the file there or not.
MarkFails ==
    /\ pc = "mark"
    /\ "io" \in Faults
    /\ done' \in {done, done \cup {cacheDir(Turn, run.build)}}
    /\ GiveUp(Turn)
    /\ UNCHANGED <<files, out, runs, made, torn>>

\* sdkCollect takes every directory of the group that has a marker, also one
\* whose rebuild failed.
Collect ==
    /\ pc = "collect"
    /\ out' = out \cup UNION {{<<s, run.build, f>> :
                                 f \in files[cacheDir(s, run.build)]} :
                              s \in {m \in Members(run.build) :
                                      cacheDir(m, run.build) \in done}}
    /\ pc' = "groups"
    /\ UNCHANGED <<files, done, run, failed, runs, made, torn>>

EndGroups ==
    /\ pc = "groups"
    /\ run.todo = {}
    /\ pc' = "end"
    /\ UNCHANGED <<files, done, run, failed, out, runs, made, torn>>

-----------------------------------------------------------------------------
CleanedAlways == TRUE

\* The rest of the build.  Its last step drops the cache entries the run did
\* not use, unless the run did not see, or did not get, everything.
Cleans == ~run.only /\ failed = {}

Stale == Dirs \ run.used

EndRun ==
    /\ pc = "end"
    /\ pc' = "idle"
    /\ run' = NoRun
    /\ failed' = {}
    /\ out' = {}
    /\ \/ /\ Cleans
          /\ Emptied(Stale)
       \/ /\ ~Cleans \/ "io" \in Faults  \* an index failed, or the clean-up
          /\ UNCHANGED <<files, done, torn>>
    /\ UNCHANGED <<runs, made>>

\* Killed, while a directory is removed or at another point.
Kill ==
    /\ pc # "idle"
    /\ "kill" \in Faults
    /\ pc' = "idle"
    /\ run' = NoRun
    /\ failed' = {}
    /\ out' = {}
    /\ \/ UNCHANGED <<files, done, torn>>
       \/ pc = "clear" /\ Remains(cacheDir(Turn, run.build))
       \/ pc = "end" /\ Cleans /\ \E d \in Stale : Remains(d)
    /\ UNCHANGED <<runs, made>>

Next ==
    \/ StartRun \/ \E b \in Builds : Group(b)
    \/ MakeFails \/ MakeDone
    \/ Clear \/ ClearFails \/ Fill \/ FillFails \/ MarkDone \/ MarkFails
    \/ Collect \/ EndGroups \/ EndRun \/ Kill

Spec == Init /\ [][Next]_sdkVars

-----------------------------------------------------------------------------
(* Properties.                                                             *)

\* A marker means a completed build: the directory holds what one run of make
\* compiled for this source and this build, all of it and nothing else (the
\* comment of cacheDir).  A directory whose removal was cut short is exempt:
\* the mark may have survived some of the files.
DoneMeansComplete ==
    \A s \in Srcs, b \in Builds :
        LET d == cacheDir(s, b)
        IN  d \in done \ torn =>
              \E i \in DOMAIN made :
                /\ made[i].build = b
                /\ Wants[s] \cap made[i].pkgs # {}
                /\ files[d] = {[pkg |-> p, mk |-> i] :
                                 p \in Wants[s] \cap made[i].pkgs}

\* A source that is not reported as failed is served from every build of its
\* matrix, whatever happened to the other sources of the group; after a
\* --refresh, from packages this very run compiled (sdkCollect, sdkRunGroup).
\* Directories whose removal was cut short are exempt here too.
NotFailedIsServed ==
    pc = "end" =>
        \A s \in run.plans \ failed : \A b \in Matrix[s] :
            LET mine == {f \in File : <<s, b, f>> \in out}
            IN  cacheDir(s, b) \notin torn =>
                  /\ mine # {}
                  /\ run.refresh => \A f \in mine : f.mk > run.since

\* The clean-up at the end of a build never touches a build some enabled
\* source is configured for, also one this run did not visit (gc and the
\* conditions Build calls it under).
CleanUpKeepsConfigured ==
    [][pc = "end" => \A s \in run.enabled : \A b \in Matrix[s] :
         LET d == cacheDir(s, b)
         IN  files'[d] = files[d] /\ (d \in done <=> d \in done')]_sdkVars

\* "a failed rebuild keeps the previous completed build on disk" (sdkCollect).
FailedRebuildKeeps ==
    pc = "end" =>
        \A s \in run.plans \cap failed : \A b \in Matrix[s] :
            cacheDir(s, b) \in run.before => cacheDir(s, b) \in done
=============================================================================
