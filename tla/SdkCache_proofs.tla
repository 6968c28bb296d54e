-------------------------- MODULE SdkCache_proofs --------------------------
(***************************************************************************)
(* The cache of sdk builds, for every set of sources, builds and packages, *)
(* and any number of runs, failures and kills.  The names of the sources   *)
(* are assumed to differ: sources of one name share their directories.     *)
(***************************************************************************)
EXTENDS SdkCache, TLAPS

NamesDiffer == \A s, t \in Srcs : Name[s] = Name[t] => s = t

AnyBuild == CHOOSE b \in Builds : TRUE
Run  == [enabled: SUBSET Srcs, plans: SUBSET Srcs, only: BOOLEAN, refresh: BOOLEAN,
         todo: SUBSET Builds, build: Builds \cup {AnyBuild}, needed: SUBSET Srcs,
         used: SUBSET Dirs, before: SUBSET Dirs, since: Nat]
Make == [build: Builds, pkgs: SUBSET Pkgs]

Harvests == {"clear", "fill", "mark"}
Compiles == {"make"} \cup Harvests
InGroup  == Compiles \cup {"collect"}

Current(s) == cacheDir(s, run.build)

\* Who is in the group under way, and the result of make it harvests.
GroupInv ==
    /\ run \in Run
    /\ Len(made) <= MaxMakes /\ run.since <= Len(made)
    /\ pc \in InGroup => run.build \in Builds /\ run.build \notin run.todo
    /\ IF pc \in Compiles
       THEN run.needed # {} /\ run.needed \subseteq Members(run.build)
       ELSE run.needed = {}
    /\ pc \in Harvests => /\ Len(made) > run.since
                          /\ made[Len(made)].build = run.build

\* The directory that is being filled has no marker until it is complete.
HarvestInv ==
    /\ pc = "fill" => /\ files[Current(Turn)] = {}
                      /\ Current(Turn) \notin done \cup torn
    /\ pc = "mark" => /\ files[Current(Turn)] = Kept(Turn) /\ Kept(Turn) # {}
                      /\ Current(Turn) \notin torn

CacheInv == TypeOK /\ GroupInv /\ HarvestInv /\ DoneMeansComplete

\* A source of the group that is neither to be harvested nor failed has a
\* completed build, of this run if it refreshes.
ReadyInv ==
    pc \in InGroup =>
        \A s \in Members(run.build) \ (run.needed \cup failed) :
            Current(s) \notin torn =>
                /\ Current(s) \in done
                /\ run.refresh => \A f \in files[Current(s)] : f.mk > run.since

\* The groups that are done with, and what was collected of each.
Past(b) == b \notin run.todo /\ ~(pc \in InGroup /\ b = run.build)
Mine(s, b) == {f \in File : <<s, b, f>> \in out}

ServedInv ==
    /\ \A x \in out : Past(x[2])
    /\ pc # "idle" =>
        \A s \in run.plans \ failed : \A b \in Matrix[s] :
            Past(b) /\ cacheDir(s, b) \notin torn =>
                /\ Mine(s, b) # {}
                /\ run.refresh => \A f \in Mine(s, b) : f.mk > run.since

AllSeen == pc = "end" => run.todo = {}

\* A build is marked as used, or still to come.
UsedInv ==
    /\ \A s \in run.plans : \A b \in Matrix[s] :
         b \in run.todo \/ cacheDir(s, b) \in run.used
    /\ ~run.only => run.enabled \ run.plans \subseteq failed

-----------------------------------------------------------------------------
\* The next source to harvest is one that is still to be harvested.
LEMMA TurnIsNeeded ==
    ASSUME run.needed # {}
    PROVE  Turn \in run.needed
<1>1. \E s : s \in run.needed
    OBVIOUS
<1> QED
    BY <1>1, Zenon DEF Turn

\* A cache directory of a source and a build is a directory of the model.
LEMMA DirType ==
    ASSUME NEW s \in Srcs, NEW b \in Builds
    PROVE  cacheDir(s, b) \in Dirs
BY DEF cacheDir, Dirs

\* Sources with names of their own have directories of their own.
LEMMA DirsDiffer ==
    ASSUME NamesDiffer, NEW s \in Srcs, NEW t \in Srcs, NEW b, NEW c,
           cacheDir(s, b) = cacheDir(t, c)
    PROVE  s = t /\ b = c
BY DEF NamesDiffer, cacheDir

\* The members of a group are sources.
LEMMA MembersType ==
    ASSUME run \in Run, NEW b
    PROVE  Members(b) \subseteq run.plans /\ run.plans \subseteq Srcs
BY DEF Members, Run

\* What the newest make run left is files of that run.
LEMMA OutputType ==
    ASSUME made \in Seq(Make), Len(made) > 0, Len(made) <= MaxMakes
    PROVE  /\ made[Len(made)] \in Make
           /\ Output \subseteq File
           /\ \A f \in Output : f.mk = Len(made)
<1>1. made[Len(made)] \in Make /\ Len(made) \in 1..MaxMakes
    BY SdkAssumption
<1> QED
    BY <1>1 DEF Output, File, Make

\* The run goes on: with the next source, or to what was harvested.
LEMMA NextSourceEffect ==
    ASSUME run \in Run, NEW s \in run.needed, NextSource(s)
    PROVE  /\ run' \in Run
           /\ run'.needed = run.needed \ {s}
           /\ run'.enabled = run.enabled /\ run'.plans = run.plans
           /\ run'.only = run.only /\ run'.refresh = run.refresh
           /\ run'.todo = run.todo /\ run'.build = run.build
           /\ run'.used = run.used /\ run'.since = run.since
           /\ \/ pc' = "collect" /\ run'.needed = {}
              \/ pc' = "clear" /\ run'.needed # {}
BY DEF NextSource, Run

\* The run of a program that does not run.
LEMMA NoRunEffect ==
    /\ NoRun \in Run
    /\ NoRun.enabled = {} /\ NoRun.plans = {} /\ NoRun.needed = {}
    /\ NoRun.used = {} /\ NoRun.since = 0
BY DEF NoRun, Run, AnyBuild

\* Removing directories leaves directories of files.
LEMMA EmptiedType ==
    ASSUME TypeOK, NEW ds, Emptied(ds)
    PROVE  files' \in [Dirs -> SUBSET File] /\ done' \subseteq Dirs /\ torn' \subseteq Dirs
BY DEF TypeOK, Emptied

\* So does a removal that is cut short.
LEMMA RemainsType ==
    ASSUME TypeOK, NEW d \in Dirs, Remains(d)
    PROVE  files' \in [Dirs -> SUBSET File] /\ done' \subseteq Dirs /\ torn' \subseteq Dirs
BY DEF TypeOK, Remains

-----------------------------------------------------------------------------
\* Types, and the group under way: no step loses a source that is still to be
\* harvested, or harvests what another group's make left.
Shape == TypeOK /\ GroupInv

\* The shape holds at first ...
LEMMA InitShape == Init => Shape
BY NoRunEffect, SdkAssumption
DEF Init, Shape, TypeOK, GroupInv, Phases, InGroup, Compiles, Harvests, Make

\* A step to idle.
LEMMA IdleShape ==
    ASSUME Shape, pc' = "idle", run' = NoRun, failed' = {}, out' = {}, made' = made,
           files' \in [Dirs -> SUBSET File], done' \subseteq Dirs, torn' \subseteq Dirs
    PROVE  Shape'
<1>1. made \in Seq(Make) /\ Len(made) \in Nat
    BY DEF Shape, TypeOK, Make
<1> QED
    BY <1>1, NoRunEffect
    DEF Shape, TypeOK, GroupInv, Phases, InGroup, Compiles, Harvests, Make

\* A step that harvested the next source, or gave it up.
LEMMA NextShape ==
    ASSUME Shape, pc \in Harvests, NextSource(Turn),
           failed' = failed \/ failed' = failed \cup {Turn},
           UNCHANGED <<out, made>>,
           files' \in [Dirs -> SUBSET File], done' \subseteq Dirs, torn' \subseteq Dirs
    PROVE  Shape'
<1>1. run \in Run /\ Turn \in run.needed /\ run.needed \subseteq Members(run.build)
    BY TurnIsNeeded DEF Shape, GroupInv, Compiles
<1>2. /\ run' \in Run
      /\ run'.needed = run.needed \ {Turn}
      /\ run'.enabled = run.enabled /\ run'.plans = run.plans
      /\ run'.todo = run.todo /\ run'.build = run.build
      /\ run'.used = run.used /\ run'.since = run.since
      /\ \/ pc' = "collect" /\ run'.needed = {}
         \/ pc' = "clear" /\ run'.needed # {}
    BY <1>1, NextSourceEffect
<1>3. Members(run.build)' = Members(run.build)
    BY <1>2 DEF Members
<1>4. Turn \in run.enabled
    BY <1>1 DEF Shape, TypeOK
<1>5. TypeOK'
    BY <1>2, <1>4 DEF Shape, TypeOK, Phases
<1> QED
    BY <1>1, <1>2, <1>3, <1>5
    DEF Shape, GroupInv, Compiles, Harvests, InGroup

\* ... and when a run starts,
LEMMA StartShape == Shape /\ StartRun => Shape'
<1> SUFFICES ASSUME Shape, StartRun PROVE Shape'
    OBVIOUS
<1>1. /\ made \in Seq(Make) /\ Len(made) \in Nat /\ done \subseteq Dirs
      /\ Len(made) <= MaxMakes
    BY SMTT(30) DEF Shape, TypeOK, GroupInv, Make
<1>2. PICK enabled \in SUBSET Srcs, only, refresh \in BOOLEAN :
        \E visited \in IF only THEN SUBSET enabled ELSE {enabled} :
        \E bad \in SUBSET visited :
          /\ "make" \notin Faults => bad = {}
          /\ failed' = bad
          /\ run' = [NoRun EXCEPT !.enabled = enabled, !.plans = visited \ bad,
                       !.only = only, !.refresh = refresh,
                       !.before = done, !.since = Len(made),
                       !.todo = UNION {Matrix[s] : s \in visited \ bad}]
    BY DEF StartRun
<1>3. PICK visited \in IF only THEN SUBSET enabled ELSE {enabled} :
        \E bad \in SUBSET visited :
          /\ "make" \notin Faults => bad = {}
          /\ failed' = bad
          /\ run' = [NoRun EXCEPT !.enabled = enabled, !.plans = visited \ bad,
                       !.only = only, !.refresh = refresh,
                       !.before = done, !.since = Len(made),
                       !.todo = UNION {Matrix[s] : s \in visited \ bad}]
    BY <1>2
<1>4. PICK bad \in SUBSET visited :
          /\ "make" \notin Faults => bad = {}
          /\ failed' = bad
          /\ run' = [NoRun EXCEPT !.enabled = enabled, !.plans = visited \ bad,
                       !.only = only, !.refresh = refresh,
                       !.before = done, !.since = Len(made),
                       !.todo = UNION {Matrix[s] : s \in visited \ bad}]
    BY <1>3
<1>5. visited \subseteq enabled
    BY <1>3
<1> DEFINE todo == UNION {Matrix[s] : s \in visited \ bad}
<1>6. todo \subseteq Builds
    BY <1>5, SdkAssumption
<1> HIDE DEF todo
<1>7. run' = [NoRun EXCEPT !.enabled = enabled, !.plans = visited \ bad,
                !.only = only, !.refresh = refresh,
                !.before = done, !.since = Len(made), !.todo = todo]
    BY <1>4 DEF todo
<1>8. /\ run' \in Run /\ run'.enabled = enabled /\ run'.plans = visited \ bad
      /\ run'.needed = {} /\ run'.used = {} /\ run'.since = Len(made)
    BY <1>1, <1>5, <1>6, <1>7, NoRunEffect DEF Run
<1>9. /\ pc' = "groups" /\ out' = {} /\ UNCHANGED <<files, done, made, torn>>
    BY DEF StartRun
<1> QED
    BY <1>1, <1>4, <1>5, <1>8, <1>9
    DEF Shape, TypeOK, GroupInv, Phases, InGroup, Compiles, Harvests

\* ... when a group is taken up,
LEMMA GroupShape == Shape /\ (\E b \in Builds : Group(b)) => Shape'
<1> SUFFICES ASSUME Shape, NEW b \in Builds, Group(b) PROVE Shape'
    OBVIOUS
<1>1. run \in Run /\ Members(b) \subseteq run.plans /\ run.plans \subseteq Srcs
    BY MembersType DEF Shape, GroupInv
<1>2. Needed(b) \subseteq Members(b)
    BY DEF Needed
<1>3. Mark(b) \subseteq Dirs
    BY <1>1, DirType DEF Mark
<1>4. /\ run' \in Run /\ run'.todo = run.todo \ {b} /\ run'.build = b
      /\ run'.needed = Needed(b) /\ run'.used = run.used \cup Mark(b)
      /\ run'.plans = run.plans /\ run'.enabled = run.enabled /\ run'.since = run.since
    BY <1>1, <1>2, <1>3 DEF Group, Run
<1>5. Members(b)' = Members(b)
    BY <1>4 DEF Members
<1>6. IF Needed(b) = {} THEN pc' = "collect" ELSE pc' = "make"
    BY DEF Group
<1>7. UNCHANGED <<files, done, failed, out, runs, made, torn>>
    BY DEF Group
<1> QED
    BY <1>1, <1>2, <1>3, <1>4, <1>5, <1>6, <1>7
    DEF Shape, TypeOK, GroupInv, Phases, InGroup, Compiles, Harvests

\* ... when make ends, either way,
LEMMA MakeShape == Shape /\ (MakeDone \/ MakeFails) => Shape'
<1> SUFFICES ASSUME Shape, MakeDone \/ MakeFails PROVE Shape'
    OBVIOUS
<1>1. run \in Run /\ made \in Seq(Make) /\ Len(made) \in Nat
    BY DEF Shape, TypeOK, GroupInv, Make
<1>2. CASE MakeFails
  <2>1. /\ run' \in Run /\ run'.needed = {}
        /\ run'.todo = run.todo /\ run'.build = run.build /\ run'.used = run.used
        /\ run'.plans = run.plans /\ run'.enabled = run.enabled /\ run'.since = run.since
      BY <1>1, <1>2 DEF MakeFails, Run
  <2> QED
      BY <1>2, <2>1
      DEF MakeFails, Shape, TypeOK, GroupInv, Phases, InGroup, Compiles, Harvests
<1>3. CASE MakeDone
  <2>1. PICK pkgs \in SUBSET Pkgs : made' = Append(made, [build |-> run.build, pkgs |-> pkgs])
      BY <1>3 DEF MakeDone
  <2>2. pc = "make" /\ run.build \in Builds /\ Len(made) < MaxMakes
      BY <1>3 DEF MakeDone, Shape, GroupInv, InGroup, Compiles
  <2>3. [build |-> run.build, pkgs |-> pkgs] \in Make
      BY <2>2 DEF Make
  <2>4. /\ made' \in Seq(Make) /\ Len(made') = Len(made) + 1
        /\ made'[Len(made')].build = run.build
      BY <1>1, <2>1, <2>3
  <2>5. pc' = "clear" /\ UNCHANGED <<files, done, run, failed, out, runs, torn>>
      BY <1>3 DEF MakeDone
  <2>6. TypeOK'
      BY <2>4, <2>5 DEF Shape, TypeOK, Phases, Make
  <2>7. Members(run.build)' = Members(run.build)
      BY <2>5 DEF Members
  <2>8. Len(made') <= MaxMakes /\ Len(made') > run.since /\ run.since <= Len(made')
      BY <1>1, <2>2, <2>4, SdkAssumption DEF Shape, GroupInv, Run
  <2> QED
      BY <2>2, <2>4, <2>5, <2>6, <2>7, <2>8
      DEF Shape, GroupInv, InGroup, Compiles, Harvests
<1> QED
    BY <1>2, <1>3

\* The directory that the run fills, and what it fills it with.
LEMMA CurrentType ==
    ASSUME Shape, pc \in Harvests
    PROVE  /\ Turn \in run.needed /\ Turn \in Srcs /\ Turn \in Members(run.build)
           /\ run.build \in Builds
           /\ Current(Turn) \in Dirs
           /\ Output \subseteq File /\ Kept(Turn) \subseteq File
           /\ Len(made) \in 1..MaxMakes
<1>1. /\ run \in Run /\ Turn \in run.needed /\ run.needed \subseteq Members(run.build)
      /\ run.build \in Builds
    BY TurnIsNeeded DEF Shape, GroupInv, Compiles, InGroup
<1>2. Turn \in Srcs
    BY <1>1 DEF Run
<1>3. made \in Seq(Make) /\ Len(made) > 0 /\ Len(made) <= MaxMakes
    BY <1>1, SdkAssumption DEF Shape, TypeOK, GroupInv, Make, Run, Harvests
<1>4. Output \subseteq File /\ Kept(Turn) \subseteq File
    BY <1>3, OutputType DEF Kept
<1>5. Len(made) \in 1..MaxMakes
    BY <1>3, SdkAssumption
<1> QED
    BY <1>1, <1>2, <1>4, <1>5, DirType DEF Current

\* A file that is added to a directory.
LEMMA AddedType ==
    ASSUME files \in [Dirs -> SUBSET File], NEW d \in Dirs, NEW fs \in SUBSET File,
           files' = [files EXCEPT ![d] = @ \cup fs]
    PROVE  /\ files' \in [Dirs -> SUBSET File]
           /\ files'[d] = files[d] \cup fs
           /\ \A e \in Dirs : e # d => files'[e] = files[e]
OBVIOUS

\* ... through every file operation of a harvest,
LEMMA HarvestShape ==
    Shape /\ (Clear \/ ClearFails \/ Fill \/ FillFails \/ MarkDone \/ MarkFails) => Shape'
<1> SUFFICES ASSUME Shape, Clear \/ ClearFails \/ Fill \/ FillFails \/ MarkDone \/ MarkFails
             PROVE  Shape'
    OBVIOUS
<1>1. pc \in Harvests
    BY DEF Clear, ClearFails, Fill, FillFails, MarkDone, MarkFails, Harvests
<1>2. /\ Current(Turn) \in Dirs /\ Kept(Turn) \subseteq File
      /\ Current(Turn) = cacheDir(Turn, run.build)
    BY <1>1, CurrentType DEF Current
<1>3. TypeOK /\ files \in [Dirs -> SUBSET File] /\ done \subseteq Dirs /\ torn \subseteq Dirs
    BY DEF Shape, TypeOK
<1>4. CASE Clear
  <2>1. Emptied({Current(Turn)})
      BY <1>2, <1>4 DEF Clear
  <2>2. files' \in [Dirs -> SUBSET File] /\ done' \subseteq Dirs /\ torn' \subseteq Dirs
      BY <1>3, <2>1, EmptiedType
  <2>3. pc = "clear" /\ pc' = "fill" /\ UNCHANGED <<run, failed, out, runs, made>>
      BY <1>4 DEF Clear
  <2>4. Members(run.build)' = Members(run.build)
      BY <2>3 DEF Members
  <2> QED
      BY <2>2, <2>3, <2>4
      DEF Shape, TypeOK, GroupInv, Phases, InGroup, Compiles, Harvests
<1>5. CASE ClearFails
  <2>1. Remains(Current(Turn))
      BY <1>2, <1>5 DEF ClearFails
  <2>2. files' \in [Dirs -> SUBSET File] /\ done' \subseteq Dirs /\ torn' \subseteq Dirs
      BY <1>2, <1>3, <2>1, RemainsType
  <2> QED
      BY <1>1, <1>5, <2>2, NextShape DEF ClearFails, GiveUp
<1>6. CASE Fill
  <2>1. files' = [files EXCEPT ![Current(Turn)] = @ \cup Kept(Turn)]
      BY <1>2, <1>6 DEF Fill
  <2>2. files' \in [Dirs -> SUBSET File]
      BY <1>2, <1>3, <2>1, AddedType
  <2>3. UNCHANGED <<done, out, runs, made, torn>>
      BY <1>6 DEF Fill
  <2>4. CASE GiveUp(Turn)
      BY <1>1, <1>3, <2>2, <2>3, <2>4, NextShape DEF GiveUp
  <2>5. CASE pc' = "mark" /\ UNCHANGED <<run, failed>>
    <3>1. Members(run.build)' = Members(run.build)
        BY <2>5 DEF Members
    <3>2. pc = "fill"
        BY <1>6 DEF Fill
    <3> QED
        BY <2>2, <2>3, <2>5, <3>1, <3>2
        DEF Shape, TypeOK, GroupInv, Phases, InGroup, Compiles, Harvests
  <2> QED
      BY <1>6, <2>4, <2>5 DEF Fill
<1>7. CASE FillFails
  <2>1. PICK some \in SUBSET Kept(Turn) :
          files' = [files EXCEPT ![Current(Turn)] = @ \cup some]
      BY <1>2, <1>7 DEF FillFails
  <2>2. files' \in [Dirs -> SUBSET File]
      BY <1>2, <1>3, <2>1, AddedType
  <2> QED
      BY <1>1, <1>3, <1>7, <2>2, NextShape DEF FillFails, GiveUp
<1>8. CASE MarkDone
  <2>1. done' \subseteq Dirs
      BY <1>2, <1>3, <1>8 DEF MarkDone
  <2> QED
      BY <1>1, <1>3, <1>8, <2>1, NextShape DEF MarkDone
<1>9. CASE MarkFails
  <2>1. done' \subseteq Dirs
      BY <1>2, <1>3, <1>9 DEF MarkFails
  <2> QED
      BY <1>1, <1>3, <1>9, <2>1, NextShape DEF MarkFails, GiveUp
<1> QED
    BY <1>4, <1>5, <1>6, <1>7, <1>8, <1>9

\* ... and when a group or the run ends, or is killed;
LEMMA EndShape == Shape /\ (Collect \/ EndGroups \/ EndRun \/ Kill) => Shape'
<1> SUFFICES ASSUME Shape, Collect \/ EndGroups \/ EndRun \/ Kill PROVE Shape'
    OBVIOUS
<1>1. TypeOK /\ files \in [Dirs -> SUBSET File] /\ done \subseteq Dirs /\ torn \subseteq Dirs
    BY DEF Shape, TypeOK
<1>2. CASE Collect
  <2>1. run.build \in Builds /\ run \in Run
      BY <1>2 DEF Collect, Shape, GroupInv, InGroup
  <2>2. Members(run.build) \subseteq Srcs
      BY <2>1, MembersType
  <2>3. \A s \in Members(run.build) : files[cacheDir(s, run.build)] \subseteq File
      BY <1>1, <2>1, <2>2, DirType
  <2>4. out' \subseteq Srcs \X Builds \X File
    <3>1. \A x \in out' : x \in out \/ \E s \in Members(run.build) :
                            \E f \in files[cacheDir(s, run.build)] : x = <<s, run.build, f>>
        BY <1>2 DEF Collect
    <3> QED
        BY <2>1, <2>2, <2>3, <3>1 DEF Shape, TypeOK
  <2>5. pc = "collect" /\ pc' = "groups" /\ UNCHANGED <<files, done, run, failed, runs, made, torn>>
      BY <1>2 DEF Collect
  <2> QED
      BY <2>4, <2>5 DEF Shape, TypeOK, GroupInv, Phases, InGroup, Compiles, Harvests
<1>3. CASE EndGroups
    BY <1>3 DEF EndGroups, Shape, TypeOK, GroupInv, Phases, InGroup, Compiles, Harvests
<1>4. CASE EndRun
  <2>1. files' \in [Dirs -> SUBSET File] /\ done' \subseteq Dirs /\ torn' \subseteq Dirs
    <3>1. CASE Emptied(Stale)
        BY <1>1, <3>1, EmptiedType
    <3>2. CASE UNCHANGED <<files, done, torn>>
        BY <1>1, <3>2
    <3> QED
        BY <1>4, <3>1, <3>2 DEF EndRun
  <2> QED
      BY <1>4, <2>1, IdleShape DEF EndRun
<1>5. CASE Kill
  <2>1. files' \in [Dirs -> SUBSET File] /\ done' \subseteq Dirs /\ torn' \subseteq Dirs
    <3>1. CASE UNCHANGED <<files, done, torn>>
        BY <1>1, <3>1
    <3>2. CASE pc = "clear" /\ Remains(cacheDir(Turn, run.build))
        BY <1>1, <3>2, CurrentType, RemainsType DEF Harvests, Current
    <3>3. CASE \E d \in Stale : Remains(d)
        BY <1>1, <3>3, RemainsType DEF Stale
    <3> QED
        BY <1>5, <3>1, <3>2, <3>3 DEF Kill
  <2> QED
      BY <1>5, <2>1, IdleShape DEF Kill
<1> QED
    BY <1>2, <1>3, <1>4, <1>5

\* ... so every step keeps it.
LEMMA ShapeStep == Shape /\ [Next]_sdkVars => Shape'
<1> SUFFICES ASSUME Shape, [Next]_sdkVars PROVE Shape'
    OBVIOUS
<1>1. CASE UNCHANGED sdkVars
  <2>1. Members(run.build)' = Members(run.build)
      BY <1>1 DEF sdkVars, Members
  <2> QED
      BY <1>1, <2>1 DEF sdkVars, Shape, TypeOK, GroupInv
<1> QED
    BY <1>1, StartShape, GroupShape, MakeShape, HarvestShape, EndShape DEF Next

\* The cache keeps its declared shape, and a run knows of the sources and
\* directories it may touch.
THEOREM SdkTypeCorrect == Spec => []TypeOK
<1>1. Init => Shape
    BY InitShape
<1>2. Shape => TypeOK
    BY DEF Shape
<1> QED
    BY <1>1, <1>2, ShapeStep, PTL DEF Spec

-----------------------------------------------------------------------------
\* A removal, whole or cut short, leaves the directories it does not name as
\* they were, and none it does name both marked and whole.
Spared(ds) ==
    /\ \A d \in Dirs \ ds : files'[d] = files[d] /\ (d \in done' <=> d \in done)
                            /\ (d \in torn' <=> d \in torn)
    /\ \A d \in Dirs \cap ds : d \notin done' \ torn'

\* Clearing a directory leaves the others alone.
LEMMA EmptiedSpares ==
    ASSUME TypeOK, NEW ds, Emptied(ds)
    PROVE  Spared(ds) /\ \A d \in Dirs \cap ds : files'[d] = {} /\ d \notin done' \cup torn'
BY DEF TypeOK, Emptied, Spared

\* So does a removal that is cut short.
LEMMA RemainsSpares ==
    ASSUME TypeOK, NEW d \in Dirs, Remains(d)
    PROVE  Spared({d})
BY DEF TypeOK, Remains, Spared

\* Marked directories stay complete when others change.
LEMMA DoneStays ==
    ASSUME TypeOK, DoneMeansComplete,
           made' = made \/ \E m \in Make : made' = Append(made, m),
           \A d \in Dirs : d \in done' \ torn' => d \in done \ torn /\ files'[d] = files[d]
    PROVE  DoneMeansComplete'
<1>1. made \in Seq(Make)
    BY DEF TypeOK, Make
<1>2. \A i \in DOMAIN made : i \in DOMAIN made' /\ made'[i] = made[i]
    BY <1>1
<1> SUFFICES ASSUME NEW s \in Srcs, NEW b \in Builds,
                    cacheDir(s, b) \in done' \ torn'
             PROVE  \E i \in DOMAIN made' :
                      /\ made'[i].build = b
                      /\ Wants[s] \cap made'[i].pkgs # {}
                      /\ files'[cacheDir(s, b)] = {[pkg |-> p, mk |-> i] :
                                                     p \in Wants[s] \cap made'[i].pkgs}
    BY DEF DoneMeansComplete, cacheDir
<1>3. cacheDir(s, b) \in done \ torn /\ files'[cacheDir(s, b)] = files[cacheDir(s, b)]
    BY DirType
<1>4. PICK i \in DOMAIN made :
        /\ made[i].build = b
        /\ Wants[s] \cap made[i].pkgs # {}
        /\ files[cacheDir(s, b)] = {[pkg |-> p, mk |-> i] : p \in Wants[s] \cap made[i].pkgs}
    BY <1>3 DEF DoneMeansComplete
<1> QED
    BY <1>2, <1>3, <1>4

\* What the harvest of a source copied is what DoneMeansComplete asks for.
LEMMA KeptIsComplete ==
    ASSUME NEW s
    PROVE  Kept(s) = {[pkg |-> p, mk |-> Len(made)] : p \in Wants[s] \cap made[Len(made)].pkgs}
BY DEF Kept, Output

\* Harvesting marks a directory last, when it is complete.
LEMMA HarvestStep ==
    ASSUME NamesDiffer, Shape, HarvestInv, DoneMeansComplete, [Next]_sdkVars
    PROVE  HarvestInv' /\ DoneMeansComplete'
<1>0. TypeOK /\ files \in [Dirs -> SUBSET File]
    BY DEF Shape, TypeOK
<1>1. CASE Clear
  <2>1. /\ Current(Turn) \in Dirs /\ Emptied({Current(Turn)}) /\ pc' = "fill"
        /\ run' = run /\ made' = made
      BY <1>1, CurrentType DEF Clear, Current, Harvests
  <2>2. /\ Spared({Current(Turn)})
        /\ files'[Current(Turn)] = {} /\ Current(Turn) \notin done' \cup torn'
      BY <1>0, <2>1, EmptiedSpares
  <2>3. Current(Turn)' = Current(Turn)
      BY <2>1 DEF Current, Turn, cacheDir
  <2>4. HarvestInv'
      BY <2>1, <2>2, <2>3 DEF HarvestInv
  <2>5. DoneMeansComplete'
      BY <1>0, <2>1, <2>2, DoneStays DEF Spared
  <2> QED
      BY <2>4, <2>5
<1>2. CASE Fill
  <2>1. /\ pc = "fill" /\ Current(Turn) \in Dirs /\ Kept(Turn) \subseteq File
        /\ files' = [files EXCEPT ![Current(Turn)] = @ \cup Kept(Turn)]
        /\ UNCHANGED <<done, torn, made>>
      BY <1>2, CurrentType DEF Fill, Current, Harvests
  <2>2. /\ files'[Current(Turn)] = files[Current(Turn)] \cup Kept(Turn)
        /\ \A e \in Dirs : e # Current(Turn) => files'[e] = files[e]
      BY <1>0, <2>1, AddedType
  <2>3. files[Current(Turn)] = {} /\ Current(Turn) \notin done \cup torn
      BY <2>1 DEF HarvestInv
  <2>4. DoneMeansComplete'
      BY <1>0, <2>1, <2>2, <2>3, DoneStays
  <2>5. CASE Kept(Turn) # {}
    <3>1. pc' = "mark" /\ run' = run
        BY <1>2, <2>5 DEF Fill
    <3>2. Current(Turn)' = Current(Turn) /\ Kept(Turn)' = Kept(Turn)
        BY <2>1, <3>1 DEF Current, Turn, cacheDir, Kept, Output
    <3>3. HarvestInv'
        BY <2>1, <2>2, <2>3, <2>5, <3>1, <3>2 DEF HarvestInv
    <3> QED
        BY <2>4, <3>3
  <2>6. CASE Kept(Turn) = {}
    <3>1. NextSource(Turn)
        BY <1>2, <2>6 DEF Fill, GiveUp
    <3> QED
        BY <2>4, <3>1 DEF NextSource, HarvestInv
  <2> QED
      BY <2>5, <2>6
<1>3. CASE FillFails
  <2>1. PICK some \in SUBSET Kept(Turn) :
          files' = [files EXCEPT ![Current(Turn)] = @ \cup some]
      BY <1>3 DEF FillFails, Current
  <2>2. /\ pc = "fill" /\ Current(Turn) \in Dirs /\ Kept(Turn) \subseteq File
        /\ UNCHANGED <<done, torn, made>> /\ NextSource(Turn)
      BY <1>3, CurrentType DEF FillFails, Current, Harvests, GiveUp
  <2>3. \A e \in Dirs : e # Current(Turn) => files'[e] = files[e]
      BY <1>0, <2>1, <2>2, AddedType
  <2>4. Current(Turn) \notin done \cup torn
      BY <2>2 DEF HarvestInv
  <2>5. DoneMeansComplete'
      BY <1>0, <2>2, <2>3, <2>4, DoneStays
  <2> QED
      BY <2>2, <2>5 DEF NextSource, HarvestInv
<1>4. CASE MarkDone \/ MarkFails
  <2>1. /\ pc = "mark" /\ Turn \in Srcs /\ run.build \in Builds
        /\ Len(made) \in DOMAIN made
        /\ NextSource(Turn) /\ UNCHANGED <<files, torn, made>>
        /\ \A d \in Dirs : d \in done' => d \in done \/ d = Current(Turn)
    <3>1. pc = "mark"
        BY <1>4 DEF MarkDone, MarkFails
    <3>2. made \in Seq(Make) /\ Len(made) \in 1..MaxMakes
        BY <3>1, CurrentType DEF Shape, TypeOK, Make, Harvests
    <3>3. Turn \in Srcs /\ run.build \in Builds
        BY <3>1, CurrentType DEF Harvests
    <3>4. Len(made) \in DOMAIN made
        BY <3>2
    <3> QED
        BY <1>4, <3>1, <3>3, <3>4 DEF MarkDone, MarkFails, GiveUp, Current
  <2>2. /\ files[Current(Turn)] = Kept(Turn) /\ Kept(Turn) # {}
      BY <2>1 DEF HarvestInv
  <2>3. made[Len(made)].build = run.build
      BY <2>1 DEF Shape, GroupInv, Harvests
  <2>4. Kept(Turn) = {[pkg |-> p, mk |-> Len(made)] : p \in Wants[Turn] \cap made[Len(made)].pkgs}
      BY KeptIsComplete
  <2>5. DoneMeansComplete'
    <3> SUFFICES ASSUME NEW s \in Srcs, NEW b \in Builds,
                        cacheDir(s, b) \in done' \ torn
                 PROVE  \E i \in DOMAIN made :
                          /\ made[i].build = b
                          /\ Wants[s] \cap made[i].pkgs # {}
                          /\ files[cacheDir(s, b)] = {[pkg |-> p, mk |-> i] :
                                                        p \in Wants[s] \cap made[i].pkgs}
        BY <2>1 DEF DoneMeansComplete, cacheDir
    <3>1. CASE cacheDir(s, b) = Current(Turn)
      <4>1. s = Turn /\ b = run.build
          BY <2>1, <3>1, DirsDiffer DEF Current
      <4> QED
          BY <2>1, <2>2, <2>3, <2>4, <3>1, <4>1
    <3>2. CASE cacheDir(s, b) # Current(Turn)
      <4>1. cacheDir(s, b) \in done \ torn
          BY <2>1, <3>2, DirType
      <4> QED
          BY <4>1 DEF DoneMeansComplete
    <3> QED
        BY <3>1, <3>2
  <2>6. HarvestInv'
      BY <2>1 DEF NextSource, HarvestInv
  <2> QED
      BY <2>5, <2>6
<1>5. CASE ClearFails
  <2>1. /\ Current(Turn) \in Dirs /\ Remains(Current(Turn)) /\ NextSource(Turn)
        /\ made' = made
      BY <1>5, CurrentType DEF ClearFails, Current, Harvests, GiveUp
  <2>2. Spared({Current(Turn)})
      BY <1>0, <2>1, RemainsSpares
  <2>3. DoneMeansComplete'
      BY <1>0, <2>1, <2>2, DoneStays DEF Spared
  <2> QED
      BY <2>1, <2>3 DEF NextSource, HarvestInv
<1>6. CASE MakeDone
  <2>1. run.build \in Builds
      BY <1>6 DEF MakeDone, Shape, GroupInv, InGroup, Compiles
  <2>2. \E m \in Make : made' = Append(made, m)
      BY <1>6, <2>1 DEF MakeDone, Make
  <2>3. pc' = "clear" /\ UNCHANGED <<files, done, torn>>
      BY <1>6 DEF MakeDone
  <2>4. DoneMeansComplete'
      BY <1>0, <2>2, <2>3, DoneStays
  <2> QED
      BY <2>3, <2>4 DEF HarvestInv
<1>7. CASE EndRun \/ Kill
  <2>1. pc' = "idle" /\ made' = made
      BY <1>7 DEF EndRun, Kill
  <2>2. UNCHANGED <<files, done, torn>> \/ \E ds : Spared(ds)
    <3>1. CASE Emptied(Stale)
        BY <1>0, <3>1, EmptiedSpares
    <3>2. CASE pc = "clear" /\ Remains(cacheDir(Turn, run.build))
        BY <1>0, <3>2, CurrentType, RemainsSpares DEF Harvests, Current
    <3>3. CASE \E d \in Stale : Remains(d)
        BY <1>0, <3>3, RemainsSpares DEF Stale
    <3> QED
        BY <1>7, <3>1, <3>2, <3>3 DEF EndRun, Kill
  <2>3. DoneMeansComplete'
      BY <1>0, <2>1, <2>2, DoneStays DEF Spared
  <2> QED
      BY <2>1, <2>3 DEF HarvestInv
<1>8. CASE /\ UNCHANGED <<files, done, torn, made>>
           /\ pc' \notin {"fill", "mark"} \/ (pc' = pc /\ run' = run)
  <2>1. DoneMeansComplete'
      BY <1>0, <1>8, DoneStays
  <2>2. run' = run => Current(Turn)' = Current(Turn) /\ Kept(Turn)' = Kept(Turn)
      BY <1>8 DEF Current, Turn, cacheDir, Kept, Output
  <2> QED
      BY <1>8, <2>1, <2>2 DEF HarvestInv
<1> QED
    BY <1>1, <1>2, <1>3, <1>4, <1>5, <1>6, <1>7, <1>8
    DEF Next, StartRun, Group, MakeFails, Collect, EndGroups, sdkVars

\* The comment of cacheDir: a marker means that the directory holds what one
\* make compiled for its source and build, all of it and nothing else, however
\* make runs failed, files could not be written, and runs were killed; except
\* for a directory whose removal failed or was killed half way (torn), which
\* may have kept the marker and lost files.
THEOREM DoneCorrect ==
    ASSUME NamesDiffer
    PROVE  Spec => []DoneMeansComplete
<1>1. Init => Shape /\ HarvestInv /\ DoneMeansComplete
    BY InitShape DEF Init, HarvestInv, DoneMeansComplete
<1>2. Shape /\ HarvestInv /\ DoneMeansComplete /\ [Next]_sdkVars
        => Shape' /\ HarvestInv' /\ DoneMeansComplete'
    BY ShapeStep, HarvestStep
<1> QED
    BY <1>1, <1>2, PTL DEF Spec

-----------------------------------------------------------------------------
\* A run starts with every build of its sources still to come.
LEMMA StartUsed ==
    ASSUME StartRun
    PROVE  UsedInv' /\ run'.used = {}
<1>1. PICK enabled \in SUBSET Srcs, only, refresh \in BOOLEAN :
        \E visited \in IF only THEN SUBSET enabled ELSE {enabled} :
        \E bad \in SUBSET visited :
          /\ "make" \notin Faults => bad = {}
          /\ failed' = bad
          /\ run' = [NoRun EXCEPT !.enabled = enabled, !.plans = visited \ bad,
                       !.only = only, !.refresh = refresh,
                       !.before = done, !.since = Len(made),
                       !.todo = UNION {Matrix[s] : s \in visited \ bad}]
    BY DEF StartRun
<1>2. PICK visited \in IF only THEN SUBSET enabled ELSE {enabled} :
        \E bad \in SUBSET visited :
          /\ "make" \notin Faults => bad = {}
          /\ failed' = bad
          /\ run' = [NoRun EXCEPT !.enabled = enabled, !.plans = visited \ bad,
                       !.only = only, !.refresh = refresh,
                       !.before = done, !.since = Len(made),
                       !.todo = UNION {Matrix[s] : s \in visited \ bad}]
    BY <1>1
<1>3. PICK bad \in SUBSET visited :
          /\ "make" \notin Faults => bad = {}
          /\ failed' = bad
          /\ run' = [NoRun EXCEPT !.enabled = enabled, !.plans = visited \ bad,
                       !.only = only, !.refresh = refresh,
                       !.before = done, !.since = Len(made),
                       !.todo = UNION {Matrix[s] : s \in visited \ bad}]
    BY <1>2
<1> DEFINE todo == UNION {Matrix[s] : s \in visited \ bad}
<1>4. \A s \in visited \ bad : \A b \in Matrix[s] : b \in todo
    OBVIOUS
<1> HIDE DEF todo
<1>5. run' = [NoRun EXCEPT !.enabled = enabled, !.plans = visited \ bad,
                !.only = only, !.refresh = refresh,
                !.before = done, !.since = Len(made), !.todo = todo]
    BY <1>3 DEF todo
<1>6. /\ run'.plans = visited \ bad /\ run'.todo = todo /\ run'.used = {}
      /\ run'.enabled = enabled /\ run'.only = only
    BY <1>5, NoRunEffect DEF Run
<1>7. ~only => visited = enabled
    BY <1>2
<1> QED
    BY <1>3, <1>4, <1>6, <1>7, SMTT(30) DEF UsedInv

\* Every build of a source that a run looks after is marked or still to come.
LEMMA UsedStep ==
    ASSUME Shape, UsedInv, [Next]_sdkVars
    PROVE  UsedInv'
<1>0. run \in Run
    BY DEF Shape, GroupInv
<1>1. CASE StartRun
  <2>1. PICK enabled \in SUBSET Srcs, only, refresh \in BOOLEAN :
          \E visited \in IF only THEN SUBSET enabled ELSE {enabled} :
          \E bad \in SUBSET visited :
            /\ "make" \notin Faults => bad = {}
            /\ failed' = bad
            /\ run' = [NoRun EXCEPT !.enabled = enabled, !.plans = visited \ bad,
                         !.only = only, !.refresh = refresh,
                         !.before = done, !.since = Len(made),
                         !.todo = UNION {Matrix[s] : s \in visited \ bad}]
      BY <1>1 DEF StartRun
  <2>2. PICK visited \in IF only THEN SUBSET enabled ELSE {enabled} :
          \E bad \in SUBSET visited :
            /\ "make" \notin Faults => bad = {}
            /\ failed' = bad
            /\ run' = [NoRun EXCEPT !.enabled = enabled, !.plans = visited \ bad,
                         !.only = only, !.refresh = refresh,
                         !.before = done, !.since = Len(made),
                         !.todo = UNION {Matrix[s] : s \in visited \ bad}]
      BY <2>1
  <2>3. PICK bad \in SUBSET visited :
            /\ "make" \notin Faults => bad = {}
            /\ failed' = bad
            /\ run' = [NoRun EXCEPT !.enabled = enabled, !.plans = visited \ bad,
                         !.only = only, !.refresh = refresh,
                         !.before = done, !.since = Len(made),
                         !.todo = UNION {Matrix[s] : s \in visited \ bad}]
      BY <2>2
  <2> DEFINE todo == UNION {Matrix[s] : s \in visited \ bad}
  <2>4. \A s \in visited \ bad : \A b \in Matrix[s] : b \in todo
      OBVIOUS
  <2> HIDE DEF todo
  <2>5. run' = [NoRun EXCEPT !.enabled = enabled, !.plans = visited \ bad,
                  !.only = only, !.refresh = refresh,
                  !.before = done, !.since = Len(made), !.todo = todo]
      BY <2>3 DEF todo
  <2>6. /\ run'.plans = visited \ bad /\ run'.todo = todo
        /\ run'.enabled = enabled /\ run'.only = only
      BY <2>5, NoRunEffect DEF Run
  <2>7. ~only => visited = enabled
      BY <2>2
  <2> QED
      BY <2>3, <2>4, <2>6, <2>7 DEF UsedInv
<1>2. CASE \E b \in Builds : Group(b)
  <2>1. PICK b \in Builds : Group(b)
      BY <1>2
  <2>2. /\ run'.todo = run.todo \ {b} /\ run'.used = run.used \cup Mark(b)
        /\ run'.plans = run.plans /\ run'.enabled = run.enabled /\ run'.only = run.only
        /\ failed' = failed
      BY <1>0, <2>1 DEF Group, Run
  <2>3. \A s \in run.plans : b \in Matrix[s] => cacheDir(s, b) \in Mark(b)
    <3>1. \A s \in run.plans : s \in Srcs
        BY <1>0 DEF Run
    <3> QED
        BY <3>1 DEF Mark, Members
  <2>4. \A s, c : cacheDir(s, c)' = cacheDir(s, c)
      BY DEF cacheDir
  <2> QED
      BY <2>2, <2>3, <2>4 DEF UsedInv
<1>3. CASE MakeFails
  <2>1. /\ run'.todo = run.todo /\ run'.used = run.used
        /\ run'.plans = run.plans /\ run'.enabled = run.enabled /\ run'.only = run.only
        /\ failed \subseteq failed'
      BY <1>0, <1>3 DEF MakeFails, Run
  <2> QED
      BY <2>1 DEF UsedInv, cacheDir
<1>4. CASE pc \in Harvests /\ NextSource(Turn) /\ failed \subseteq failed'
  <2>1. /\ run'.todo = run.todo /\ run'.used = run.used
        /\ run'.plans = run.plans /\ run'.enabled = run.enabled /\ run'.only = run.only
      BY <1>0, <1>4, CurrentType, NextSourceEffect
  <2> QED
      BY <1>4, <2>1 DEF UsedInv, cacheDir
<1>5. CASE run' = run /\ failed' = failed
    BY <1>5 DEF UsedInv, cacheDir
<1>6. CASE run' = NoRun /\ failed' = {}
    BY <1>6, NoRunEffect DEF UsedInv
<1>7. (ClearFails \/ FillFails \/ MarkDone \/ MarkFails \/ Fill)
        => \/ run' = run /\ failed' = failed
           \/ pc \in Harvests /\ NextSource(Turn) /\ failed \subseteq failed'
    BY DEF ClearFails, FillFails, MarkDone, MarkFails, Fill, GiveUp, Harvests
<1> QED
    BY <1>1, <1>2, <1>3, <1>4, <1>5, <1>6, <1>7
    DEF Next, MakeDone, Clear, Collect, EndGroups, EndRun, Kill, sdkVars

\* The groups are over when no build is left to do.
LEMMA SeenStep == Shape /\ AllSeen /\ [Next]_sdkVars => AllSeen'
BY DEF AllSeen, Next, StartRun, Group, MakeFails, MakeDone, Clear, ClearFails, Fill,
       FillFails, MarkDone, MarkFails, GiveUp, NextSource, Collect, EndGroups,
       EndRun, Kill, sdkVars

\* gc and the conditions Build calls it under: a clean-up, also one that is cut
\* short, touches no directory of an enabled source, visited or not.
THEOREM CleanUpCorrect == Spec => CleanUpKeepsConfigured
<1>1. Init => Shape /\ UsedInv /\ AllSeen
    BY InitShape, NoRunEffect DEF Init, UsedInv, AllSeen
<1>2. Shape /\ UsedInv /\ AllSeen /\ [Next]_sdkVars
        => Shape' /\ UsedInv' /\ AllSeen'
    BY ShapeStep, UsedStep, SeenStep
<1>3. Shape /\ UsedInv /\ AllSeen /\ [Next]_sdkVars
        => [pc = "end" => \A s \in run.enabled : \A b \in Matrix[s] :
              LET d == cacheDir(s, b)
              IN  files'[d] = files[d] /\ (d \in done <=> d \in done')]_sdkVars
  <2> SUFFICES ASSUME Shape, UsedInv, run.todo = {}, Next, pc = "end",
                      NEW s \in run.enabled, NEW b \in Matrix[s]
               PROVE  /\ files'[cacheDir(s, b)] = files[cacheDir(s, b)]
                      /\ cacheDir(s, b) \in done <=> cacheDir(s, b) \in done'
      BY DEF sdkVars, AllSeen
  <2>1. TypeOK /\ s \in Srcs /\ b \in Builds /\ cacheDir(s, b) \in Dirs
    <3>1. s \in Srcs
        BY DEF Shape, TypeOK
    <3>2. b \in Builds
        BY <3>1, SdkAssumption
    <3> QED
        BY <3>1, <3>2, DirType DEF Shape
  <2>2. Cleans => cacheDir(s, b) \notin Stale
      BY DEF Cleans, Stale, UsedInv
  <2>3. \/ UNCHANGED <<files, done, torn>>
        \/ Cleans /\ Emptied(Stale)
        \/ Cleans /\ \E d \in Stale : Remains(d)
      BY DEF Next, StartRun, Group, MakeFails, MakeDone, Clear, ClearFails, Fill,
             FillFails, MarkDone, MarkFails, Collect, EndGroups, EndRun, Kill
  <2>4. CASE Cleans /\ Emptied(Stale)
      BY <2>1, <2>2, <2>4, EmptiedSpares DEF Spared
  <2>5. CASE Cleans /\ \E d \in Stale : Remains(d)
    <3>1. PICK d \in Stale : Remains(d)
        BY <2>5
    <3>2. Spared({d}) /\ cacheDir(s, b) # d
        BY <2>1, <2>2, <2>5, <3>1, RemainsSpares DEF Stale
    <3> QED
        BY <2>1, <3>2 DEF Spared
  <2> QED
      BY <2>3, <2>4, <2>5
<1> QED
    BY <1>1, <1>2, <1>3, PTL DEF Spec, CleanUpKeepsConfigured

-----------------------------------------------------------------------------
\* A step that harvests touches the directory of one source and build only.
LEMMA HarvestTouches ==
    ASSUME NamesDiffer, Shape,
           Clear \/ ClearFails \/ Fill \/ FillFails \/ MarkDone \/ MarkFails
    PROVE  /\ pc \in Harvests /\ pc' \in InGroup
           /\ run'.plans = run.plans /\ run'.refresh = run.refresh
           /\ run'.todo = run.todo /\ run'.build = run.build /\ run'.since = run.since
           /\ out' = out /\ failed \subseteq failed'
           /\ run.needed \cup failed \subseteq run'.needed \cup failed' \cup {Turn}
           /\ \A s \in Srcs, b \in Builds : <<s, b>> # <<Turn, run.build>> =>
                LET d == cacheDir(s, b)
                IN  files'[d] = files[d] /\ (d \in done => d \in done')
                    /\ (d \in torn' <=> d \in torn)
<1>1. pc \in Harvests
    BY DEF Clear, ClearFails, Fill, FillFails, MarkDone, MarkFails, Harvests
<1>2. /\ Turn \in run.needed /\ Turn \in Srcs /\ Current(Turn) \in Dirs
      /\ Kept(Turn) \subseteq File
      /\ run \in Run /\ TypeOK /\ files \in [Dirs -> SUBSET File]
    BY <1>1, CurrentType DEF Shape, GroupInv, TypeOK
<1>3. \A d \in Dirs : d # Current(Turn) =>
        /\ files'[d] = files[d]
        /\ d \in done => d \in done'
        /\ d \in torn' <=> d \in torn
  <2>1. CASE Clear
      BY <1>2, <2>1, EmptiedSpares DEF Clear, Current, Spared
  <2>2. CASE ClearFails
      BY <1>2, <2>2, RemainsSpares DEF ClearFails, Current, Spared
  <2>3. CASE Fill
      BY <1>2, <2>3, AddedType DEF Fill, Current
  <2>4. CASE FillFails
    <3>1. PICK some \in SUBSET Kept(Turn) :
            files' = [files EXCEPT ![Current(Turn)] = @ \cup some]
        BY <2>4 DEF FillFails, Current
    <3> QED
        BY <1>2, <2>4, <3>1, AddedType DEF FillFails
  <2>5. CASE MarkDone \/ MarkFails
      BY <2>5 DEF MarkDone, MarkFails
  <2> QED
      BY <2>1, <2>2, <2>3, <2>4, <2>5
<1>4. \A s \in Srcs, b \in Builds : <<s, b>> # <<Turn, run.build>> =>
        cacheDir(s, b) \in Dirs /\ cacheDir(s, b) # Current(Turn)
  <2> TAKE s \in Srcs, b \in Builds
  <2> HAVE <<s, b>> # <<Turn, run.build>>
  <2>1. cacheDir(s, b) \in Dirs
      BY DirType
  <2>2. cacheDir(s, b) = Current(Turn) => s = Turn /\ b = run.build
      BY <1>2, DirsDiffer DEF Current
  <2> QED
      BY <2>1, <2>2
<1>5. \/ run' = run /\ failed' = failed /\ pc' \in {"fill", "mark"}
      \/ /\ NextSource(Turn)
         /\ failed' = failed \/ failed' = failed \cup {Turn}
    BY DEF Clear, ClearFails, Fill, FillFails, MarkDone, MarkFails, GiveUp
<1>6. out' = out
    BY DEF Clear, ClearFails, Fill, FillFails, MarkDone, MarkFails
<1>7. CASE run' = run /\ failed' = failed /\ pc' \in {"fill", "mark"}
    BY <1>1, <1>3, <1>4, <1>6, <1>7 DEF InGroup, Compiles, Harvests
<1>8. CASE NextSource(Turn) /\ (failed' = failed \/ failed' = failed \cup {Turn})
  <2>1. /\ run'.needed = run.needed \ {Turn} /\ pc' \in {"clear", "collect"}
        /\ run'.plans = run.plans /\ run'.refresh = run.refresh
        /\ run'.todo = run.todo /\ run'.build = run.build /\ run'.since = run.since
      BY <1>2, <1>8, NextSourceEffect
  <2> QED
      BY <1>1, <1>3, <1>4, <1>6, <1>8, <2>1 DEF InGroup, Compiles, Harvests
<1> QED
    BY <1>5, <1>7, <1>8

\* A member of the group that needs nothing more is marked, and newly made in a --refresh run.
LEMMA ReadyStep ==
    ASSUME NamesDiffer, Shape, HarvestInv, ReadyInv, [Next]_sdkVars
    PROVE  ReadyInv'
<1>0. run \in Run
    BY DEF Shape, GroupInv
<1>1. CASE \E b \in Builds : Group(b)
  <2>1. PICK b \in Builds : Group(b)
      BY <1>1
  <2>2. /\ run'.build = b /\ run'.needed = Needed(b) /\ run'.plans = run.plans
        /\ run'.refresh = run.refresh /\ UNCHANGED <<files, done, failed, torn>>
      BY <1>0, <2>1 DEF Group, Run
  <2>3. Members(run.build)' = Members(b)
      BY <2>2 DEF Members
  <2>4. \A s \in Members(b) \ Needed(b) : cacheDir(s, b) \in done /\ ~run.refresh
      BY DEF Needed
  <2> QED
      BY <2>2, <2>3, <2>4 DEF ReadyInv, Current, cacheDir
<1>2. CASE MakeFails
  <2>1. /\ run'.needed = {} /\ run'.plans = run.plans /\ run'.build = run.build
        /\ run'.refresh = run.refresh /\ run'.since = run.since
        /\ failed' = failed \cup run.needed
        /\ UNCHANGED <<files, done, torn>> /\ pc = "make"
      BY <1>0, <1>2 DEF MakeFails, Run
  <2>2. Members(run.build)' = Members(run.build)
      BY <2>1 DEF Members
  <2> QED
      BY <2>1, <2>2 DEF ReadyInv, Current, cacheDir, InGroup, Compiles
<1>3. CASE Clear \/ ClearFails \/ Fill \/ FillFails \/ MarkDone \/ MarkFails
  <2>1. /\ pc \in InGroup /\ run.build \in Builds
        /\ Members(run.build) \subseteq Srcs /\ Turn \in Srcs
        /\ Current(Turn) \in Dirs
        /\ Members(run.build)' = Members(run.build)
        /\ run'.build = run.build /\ run'.refresh = run.refresh /\ run'.since = run.since
        /\ run.needed \cup failed \subseteq run'.needed \cup failed' \cup {Turn}
      BY <1>0, <1>3, HarvestTouches, CurrentType, MembersType
      DEF InGroup, Compiles, Members
  <2>2. \A s \in Members(run.build) \ {Turn} :
          /\ files'[Current(s)] = files[Current(s)]
          /\ Current(s) \in done => Current(s) \in done'
          /\ Current(s) \in torn' <=> Current(s) \in torn
    <3> TAKE s \in Members(run.build) \ {Turn}
    <3>1. s \in Srcs /\ <<s, run.build>> # <<Turn, run.build>>
        BY <2>1
    <3> QED
        BY <1>3, <2>1, <3>1, HarvestTouches DEF Current
  <2>3. Turn \in run'.needed \cup failed' \/
          /\ Current(Turn) \in done'
          /\ run.refresh => \A f \in files'[Current(Turn)] : f.mk > run.since
    <3>1. CASE ClearFails \/ FillFails \/ MarkFails
        BY <3>1 DEF ClearFails, FillFails, MarkFails, GiveUp
    <3>2. CASE (Clear \/ Fill) /\ run' = run
        BY <1>3, <3>2, HarvestTouches, CurrentType
    <3>3. CASE Fill /\ GiveUp(Turn)
        BY <3>3 DEF GiveUp
    <3>4. CASE MarkDone
      <4>1. pc = "mark" /\ files' = files /\ Current(Turn) \in done'
          BY <3>4 DEF MarkDone, Current
      <4>2. files[Current(Turn)] = Kept(Turn) /\ Len(made) > run.since
          BY <4>1 DEF HarvestInv, Shape, GroupInv, Harvests
      <4>3. \A f \in Kept(Turn) : f.mk = Len(made)
          BY DEF Kept, Output
      <4> QED
          BY <4>1, <4>2, <4>3
    <3> QED
        BY <1>3, <3>1, <3>2, <3>3, <3>4 DEF Clear, Fill
  <2>4. \A s : Current(s)' = Current(s)
      BY <2>1 DEF Current, cacheDir
  <2> QED
      BY <2>1, <2>2, <2>3, <2>4 DEF ReadyInv
<1>4. CASE pc' \notin InGroup
    BY <1>4 DEF ReadyInv
<1>5. CASE /\ pc \in InGroup /\ UNCHANGED <<files, done, run, failed, torn>>
  <2>1. Members(run.build)' = Members(run.build)
      BY <1>5 DEF Members
  <2> QED
      BY <1>5, <2>1 DEF ReadyInv, Current, cacheDir
<1>6. CASE StartRun \/ Collect \/ EndGroups \/ EndRun \/ Kill
  <2>1. pc' \in {"groups", "end", "idle"}
      BY <1>6 DEF StartRun, Collect, EndGroups, EndRun, Kill
  <2> QED
      BY <1>4, <2>1 DEF InGroup, Compiles, Harvests
<1>7. CASE MakeDone
    BY <1>5, <1>7 DEF MakeDone, InGroup, Compiles
<1>8. CASE UNCHANGED sdkVars
    BY <1>4, <1>5, <1>8 DEF sdkVars
<1> QED
    BY <1>1, <1>2, <1>3, <1>6, <1>7, <1>8 DEF Next

-----------------------------------------------------------------------------
\* Collecting takes every file of the directories of the group that are marked.
LEMMA CollectEffect ==
    ASSUME NamesDiffer, Shape, Collect,
           NEW s \in Members(run.build), cacheDir(s, run.build) \in done,
           \A x \in out : x[2] # run.build
    PROVE  {f \in File : <<s, run.build, f>> \in out'} = files[cacheDir(s, run.build)]
<1>1. run.build \in Builds /\ run \in Run /\ files \in [Dirs -> SUBSET File]
    BY DEF Collect, Shape, GroupInv, InGroup, TypeOK
<1>2. s \in Srcs /\ Members(run.build) \subseteq Srcs
    BY <1>1, MembersType
<1>3. files[cacheDir(s, run.build)] \subseteq File
    BY <1>1, <1>2, DirType
<1>4. \A x : x \in out' <=> \/ x \in out
                            \/ \E t \in {m \in Members(run.build) :
                                           cacheDir(m, run.build) \in done} :
                               \E f \in files[cacheDir(t, run.build)] : x = <<t, run.build, f>>
    BY DEF Collect
<1>5. \A f : <<s, run.build, f>> \notin out
    BY Zenon
<1> QED
    BY <1>2, <1>3, <1>4, <1>5

\* A group that is over has served its members, or counted them as failed.
LEMMA ServedStep ==
    ASSUME NamesDiffer, Shape, DoneMeansComplete, ReadyInv, ServedInv, [Next]_sdkVars
    PROVE  ServedInv'
<1>0. run \in Run
    BY DEF Shape, GroupInv
<1>t. \A s \in run.plans : \A b \in Matrix[s] : s \in Srcs /\ b \in Builds
    BY <1>0, SdkAssumption DEF Run
<1>1. CASE StartRun
  <2>1. out' = {} /\ pc' = "groups"
      BY <1>1 DEF StartRun
  <2>2. \A s \in run'.plans : \A b \in Matrix[s] : b \in run'.todo
      BY <1>1, StartUsed DEF UsedInv
  <2> QED
      BY <2>1, <2>2 DEF ServedInv, Past, Mine
<1>2. CASE \E b \in Builds : Group(b)
  <2>1. PICK b \in Builds : Group(b)
      BY <1>2
  <2>2. /\ run'.build = b /\ run'.todo = run.todo \ {b} /\ run'.plans = run.plans
        /\ run'.refresh = run.refresh /\ run'.since = run.since
        /\ pc = "groups" /\ pc' \in InGroup /\ b \in run.todo
        /\ UNCHANGED <<failed, out, torn>>
    <3>1. /\ run'.build = b /\ run'.todo = run.todo \ {b} /\ run'.plans = run.plans
          /\ run'.refresh = run.refresh /\ run'.since = run.since
        BY <1>0, <2>1 DEF Group, Run
    <3>2. pc = "groups" /\ pc' \in {"collect", "make"} /\ b \in run.todo
        BY <2>1 DEF Group, NextBuild
    <3> QED
        BY <2>1, <3>1, <3>2 DEF Group, InGroup, Compiles
  <2>3. \A c : Past(c)' <=> Past(c)
      BY <2>2 DEF Past, InGroup, Compiles, Harvests
  <2> QED
      BY <2>2, <2>3 DEF ServedInv, Mine, cacheDir
<1>3. CASE MakeFails \/ MakeDone \/ EndGroups
  <2>1. /\ run'.build = run.build /\ run'.todo = run.todo /\ run'.plans = run.plans
        /\ run'.refresh = run.refresh /\ run'.since = run.since
        /\ pc \in InGroup <=> pc' \in InGroup
        /\ pc # "idle" /\ failed \subseteq failed' /\ UNCHANGED <<out, torn>>
      BY <1>0, <1>3
      DEF MakeFails, MakeDone, EndGroups, Run, InGroup, Compiles, Harvests
  <2>2. \A c : Past(c)' <=> Past(c)
      BY <2>1 DEF Past
  <2> QED
      BY <2>1, <2>2 DEF ServedInv, Mine, cacheDir
<1>4. CASE Clear \/ ClearFails \/ Fill \/ FillFails \/ MarkDone \/ MarkFails
  <2>1. /\ run'.build = run.build /\ run'.todo = run.todo /\ run'.plans = run.plans
        /\ run'.refresh = run.refresh /\ run'.since = run.since
        /\ pc \in InGroup /\ pc' \in InGroup /\ pc # "idle"
        /\ failed \subseteq failed' /\ out' = out
      BY <1>4, HarvestTouches DEF InGroup, Compiles, Harvests
  <2>2. \A c : (Past(c)' <=> Past(c)) /\ (Past(c) => c # run.build)
      BY <2>1 DEF Past
  <2>3. \A s \in run.plans : \A b \in Matrix[s] :
          Past(b) => (cacheDir(s, b) \in torn' <=> cacheDir(s, b) \in torn)
    <3> TAKE s \in run.plans
    <3> TAKE b \in Matrix[s]
    <3> HAVE Past(b)
    <3>1. s \in Srcs /\ b \in Builds /\ <<s, b>> # <<Turn, run.build>>
        BY <1>t, <2>2
    <3> QED
        BY <1>4, <3>1, HarvestTouches
  <2> QED
      BY <2>1, <2>2, <2>3 DEF ServedInv, Mine, cacheDir
<1>5. CASE Collect
  <2>1. /\ pc = "collect" /\ pc' = "groups" /\ UNCHANGED <<files, done, run, failed, made, torn>>
        /\ run.build \notin run.todo /\ run.needed = {}
      BY <1>5 DEF Collect, Shape, GroupInv, InGroup, Compiles, Harvests
  <2>2. \A c : (Past(c)' <=> c \notin run.todo)
               /\ (Past(c) <=> c \notin run.todo /\ c # run.build)
      BY <2>1 DEF Past, InGroup, Compiles, Harvests
  <2>3. \A x \in out : x[2] # run.build /\ x[2] \notin run.todo
      BY <2>2 DEF ServedInv
  <2>4. \A x : x \in out' <=> \/ x \in out
                              \/ \E t \in {m \in Members(run.build) :
                                             cacheDir(m, run.build) \in done} :
                                 \E f \in files[cacheDir(t, run.build)] : x = <<t, run.build, f>>
      BY <1>5 DEF Collect
  <2>5. \A x \in out' : Past(x[2])'
      BY <2>1, <2>2, <2>3, <2>4
  <2>6. ASSUME NEW s \in run.plans \ failed, NEW b \in Matrix[s],
               b \notin run.todo, cacheDir(s, b) \notin torn
        PROVE  /\ Mine(s, b)' # {}
               /\ run.refresh => \A f \in Mine(s, b)' : f.mk > run.since
    <3>1. CASE b # run.build
      <4>1. /\ Mine(s, b) # {}
            /\ run.refresh => \A f \in Mine(s, b) : f.mk > run.since
          BY <2>1, <2>2, <2>6, <3>1 DEF ServedInv
      <4>2. \A f : <<s, b, f>> \in out' <=> <<s, b, f>> \in out
          BY <2>4, <3>1
      <4> QED
          BY <4>1, <4>2 DEF Mine
    <3>2. CASE b = run.build
      <4>1. s \in Members(run.build) /\ Current(s) = cacheDir(s, run.build)
          BY <3>2 DEF Members, Current
      <4>2. /\ Current(s) \in done \ torn
            /\ run.refresh => \A f \in files[Current(s)] : f.mk > run.since
          BY <2>1, <2>6, <3>2, <4>1 DEF ReadyInv, InGroup
      <4>3. Mine(s, b)' = files[Current(s)]
          BY <1>5, <2>3, <3>2, <4>1, <4>2, CollectEffect DEF Mine
      <4>4. files[Current(s)] # {}
        <5>1. s \in Srcs /\ b \in Builds
            BY <1>t
        <5>2. PICK i \in DOMAIN made :
                /\ Wants[s] \cap made[i].pkgs # {}
                /\ files[Current(s)] = {[pkg |-> p, mk |-> i] : p \in Wants[s] \cap made[i].pkgs}
            BY <3>2, <4>1, <4>2, <5>1 DEF DoneMeansComplete
        <5> QED
            BY <5>2
      <4> QED
          BY <4>2, <4>3, <4>4
    <3> QED
        BY <3>1, <3>2
  <2> QED
      BY <2>1, <2>2, <2>5, <2>6 DEF ServedInv, cacheDir
<1>6. CASE EndRun \/ Kill
    BY <1>6 DEF EndRun, Kill, ServedInv
<1>7. CASE UNCHANGED sdkVars
    BY <1>7 DEF sdkVars, ServedInv, Past, Mine, cacheDir
<1> QED
    BY <1>1, <1>2, <1>3, <1>4, <1>5, <1>6, <1>7 DEF Next

\* sdkCollect and sdkRunGroup: a source that is not reported as failed is served
\* from every build of its matrix, and after --refresh from what this run made,
\* except from a directory whose removal was cut short (torn).
THEOREM ServedCorrect ==
    ASSUME NamesDiffer
    PROVE  Spec => []NotFailedIsServed
<1> DEFINE Inv == /\ Shape /\ HarvestInv /\ DoneMeansComplete
                  /\ ReadyInv /\ ServedInv /\ AllSeen
<1>1. Init => Inv
    BY InitShape DEF Init, HarvestInv, DoneMeansComplete, ReadyInv, ServedInv, AllSeen,
                     InGroup, Compiles, Harvests
<1>2. Inv /\ [Next]_sdkVars => Inv'
    BY ShapeStep, HarvestStep, ReadyStep, ServedStep, SeenStep
<1>3. Inv => NotFailedIsServed
    BY DEF NotFailedIsServed, ServedInv, AllSeen, Past, Mine, InGroup, Compiles, Harvests
<1> QED
    BY <1>1, <1>2, <1>3, PTL DEF Spec
=============================================================================
