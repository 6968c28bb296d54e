--------------------------- MODULE FeedBuild_proofs ---------------------------
(***************************************************************************)
(* Proofs about FeedBuild, for every set of feed dirs, packages, versions  *)
(* and layouts, any number of candidates a run, and any faults.            *)
(***************************************************************************)
EXTENDS FeedBuild, TLAPS

-----------------------------------------------------------------------------
(* Type correctness.                                                       *)

\* The tree a run works on is a tree.
LEMMA WorkType ==
  ASSUME TypeOK
  PROVE  work \in [Dirs -> DirState]
BY DEF TypeOK, work

\* Storing a tree keeps both trees trees.
LEMMA SetWorkType ==
  ASSUME TypeOK, NEW tree \in [Dirs -> DirState], SetWork(tree)
  PROVE  out' \in [Dirs -> DirState] /\ building' \in [Dirs -> DirState]
BY DEF TypeOK, SetWork

\* Replacing the files, the index or the signature of a dir gives a tree.
LEMMA ExceptType ==
  ASSUME NEW tree \in [Dirs -> DirState], NEW d \in Dirs,
         NEW F \in SUBSET File, NEW I \in SUBSET File, NEW S \in SUBSET File
  PROVE  /\ [tree EXCEPT ![d].files = F] \in [Dirs -> DirState]
         /\ [tree EXCEPT ![d].index = I] \in [Dirs -> DirState]
         /\ [tree EXCEPT ![d].index = I, ![d].sig = S] \in [Dirs -> DirState]
BY DEF DirState

\* The empty tree is a tree.
LEMMA NoTreeType == NoTree \in [Dirs -> DirState]
BY DEF NoTree, NoDir, DirState

\* What a removal that failed half way leaves is a tree.
LEMMA LeftoverType ==
  ASSUME TypeOK, NEW lost, NEW noIndex, NEW noSig
  PROVE  Leftover(lost, noIndex, noSig) \in [Dirs -> DirState]
<1>1. work \in [Dirs -> DirState]
  BY WorkType
<1>2. ASSUME NEW d \in Dirs
      PROVE  [files |-> {f \in work[d].files : <<d, f>> \notin lost},
              index |-> IF d \in noIndex THEN {} ELSE work[d].index,
              sig   |-> IF d \in noSig THEN {} ELSE work[d].sig] \in DirState
  BY <1>1 DEF DirState
<1>. QED
  BY <1>2 DEF Leftover

\* An index whose writing stopped part way leaves trees.
LEMMA PartlyIndexedType ==
  ASSUME TypeOK, NEW d \in Dirs, PartlyIndexed(d)
  PROVE  out' \in [Dirs -> DirState] /\ building' \in [Dirs -> DirState]
<1> DEFINE S == IF d \in Apk THEN {} ELSE work[d].sig
<1>1. work \in [Dirs -> DirState]
  BY WorkType
<1>2. work[d].files \in SUBSET File /\ S \in SUBSET File
  BY <1>1 DEF DirState
<1>3. \/ SetWork([work EXCEPT ![d].index = {}])
      \/ SetWork([work EXCEPT ![d].index = work[d].files, ![d].sig = S])
  BY <1>1 DEF PartlyIndexed
<1>. QED
  BY <1>1, <1>2, <1>3, ExceptType, SetWorkType

\* A run that ends leaves the state of the process well typed.
LEMMA EndRunType ==
  ASSUME NEW how \in {"none", "ok", "error", "crash"}, EndRun(how)
  PROVE  /\ pc' \in Phases /\ run' \in RunType /\ cands' \subseteq Candidate
         /\ slots' \subseteq Dirs \X Pkgs /\ kept' \subseteq Kept
         /\ leaf' \subseteq Dirs /\ rel' \subseteq Dirs
         /\ failed' \in BOOLEAN /\ keys' \in BOOLEAN /\ gone' \subseteq Dirs
         /\ exit' \in {"none", "ok", "error", "crash"}
BY DEF EndRun, Phases, RunType, NoRun

\* What placing a slot can do: only files of its package change, and a dir
\* that gets a file is marked.
PlaceEffect(d, p, F, K) ==
    /\ SetWork([work EXCEPT ![d].files = F])
    /\ kept' = K
    /\ \A f \in File : f.pkg # p => (f \in F <=> f \in work[d].files)
    /\ \/ leaf' = leaf \union {d}
       \/ leaf' = leaf /\ F \subseteq work[d].files

\* Each outcome of placing a slot is such an effect.
LEMMA PlaceSlotEffect ==
  ASSUME TypeOK, NEW d \in Dirs, NEW p \in Pkgs, PlaceSlot(d, p)
  PROVE  \E F \in SUBSET File, K \in SUBSET Kept : PlaceEffect(d, p, F, K)
<1> DEFINE S == Slot(d, p)
<1>1. PICK lost \in SUBSET S :
        LET left == work[d].files \ Namesakes(d, lost)
        IN \/ \E c \in S :
                /\ IF InPlace(c, left)
                   THEN /\ SetWork([work EXCEPT ![d].files = left])
                        /\ UNCHANGED leaf
                   ELSE /\ SetWork([work EXCEPT ![d].files =
                             (left \ Namesakes(d, {c})) \union {FileOf(c)}])
                        /\ leaf' = leaf \union {d}
                /\ kept' = kept \union {[dir |-> d, pkg |-> p, ver |-> c.ver]}
           \/ /\ SetWork([work EXCEPT ![d].files = left])
              /\ UNCHANGED <<leaf, kept>>
  BY DEF PlaceSlot
<1> DEFINE left == work[d].files \ Namesakes(d, lost)
           With(c) == (left \ Namesakes(d, {c})) \union {FileOf(c)}
           Also(c) == kept \union {[dir |-> d, pkg |-> p, ver |-> c.ver]}
<1>2. work[d].files \in SUBSET File
  BY WorkType DEF DirState
<1>3. \A c \in S : c.pkg = p /\ c.ver \in Versions /\ FileOf(c) \in File
  BY DEF TypeOK, Slot, Candidate, FileOf, File
<1>4. /\ left \in SUBSET File /\ left \subseteq work[d].files
      /\ \A f \in File : f.pkg # p => (f \in left <=> f \in work[d].files)
  BY <1>2, <1>3 DEF Namesakes
<1>5. ASSUME NEW c \in S
      PROVE  /\ With(c) \in SUBSET File
             /\ \A f \in File : f.pkg # p => (f \in With(c) <=> f \in work[d].files)
             /\ Also(c) \in SUBSET Kept
  <2>1. FileOf(c).pkg = p
    BY <1>3 DEF FileOf
  <2>2. \A f \in Namesakes(d, {c}) : f.pkg = p
    BY <1>3 DEF Namesakes
  <2>3. Also(c) \in SUBSET Kept
    BY <1>3 DEF TypeOK, Kept
  <2>. QED
    BY <1>3, <1>4, <2>1, <2>2, <2>3
<1> HIDE DEF left, With, Also, S
<1>6. CASE SetWork([work EXCEPT ![d].files = left]) /\ UNCHANGED <<leaf, kept>>
  BY <1>4, <1>6 DEF PlaceEffect, TypeOK
<1>7. ASSUME NEW c \in S, SetWork([work EXCEPT ![d].files = left]),
             UNCHANGED leaf, kept' = Also(c)
      PROVE  \E F \in SUBSET File, K \in SUBSET Kept : PlaceEffect(d, p, F, K)
  BY <1>4, <1>5, <1>7 DEF PlaceEffect
<1>8. ASSUME NEW c \in S, SetWork([work EXCEPT ![d].files = With(c)]),
             leaf' = leaf \union {d}, kept' = Also(c)
      PROVE  \E F \in SUBSET File, K \in SUBSET Kept : PlaceEffect(d, p, F, K)
  BY <1>5, <1>8 DEF PlaceEffect
<1>. QED
  BY <1>1, <1>6, <1>7, <1>8 DEF left, With, Also, S

\* Every step keeps the types: the trees stay functions from the feed dirs to
\* package files, an index and a signature, and the process's own state stays
\* what its Go types say (buildRun, build.go).
THEOREM TypeCorrect == Spec => []TypeOK
<1>1. Init => TypeOK
  <2>1. NoRun \in RunType
    BY DEF NoRun, RunType
  <2>. QED
    BY <2>1, NoTreeType DEF Init, TypeOK, Phases
<1>2. TypeOK /\ [Next]_vars => TypeOK'
  <2> SUFFICES ASSUME TypeOK, [Next]_vars
               PROVE  TypeOK'
    OBVIOUS
  <2>0. work \in [Dirs -> DirState]
    BY WorkType
  <2>1. CASE StartRun
    <3>2. HasIndex(out) \subseteq Dirs
      BY DEF HasIndex
    <3>3. run' \in RunType
      BY <2>1, <3>2, ConstantsAssumption DEF StartRun, RunType
    <3>4. cands' \subseteq Candidate /\ slots' \subseteq Dirs \X Pkgs
      BY <2>1, OffersAssumption DEF StartRun, Candidate
    <3>5. building' \in [Dirs -> DirState]
      BY <2>1, NoTreeType DEF StartRun, Staging, TypeOK
    <3>. QED
      BY <2>1, <3>3, <3>4, <3>5 DEF StartRun, TypeOK, Phases
  <2>2. CASE RefuseRun
    BY <2>2, EndRunType, NoTreeType DEF RefuseRun, TypeOK
  <2>3. ASSUME NEW d \in Dirs, NEW p \in Pkgs, PlaceSlot(d, p)
        PROVE  TypeOK'
    <3>1. PICK F \in SUBSET File, K \in SUBSET Kept : PlaceEffect(d, p, F, K)
      BY <2>3, PlaceSlotEffect
    <3>2. out' \in [Dirs -> DirState] /\ building' \in [Dirs -> DirState]
      BY <2>0, <3>1, ExceptType, SetWorkType DEF PlaceEffect
    <3>3. leaf' \subseteq Dirs /\ kept' \subseteq Kept
      BY <3>1 DEF PlaceEffect, TypeOK
    <3>. QED
      BY <2>3, <3>2, <3>3 DEF PlaceSlot, SlotsLeft, TypeOK
  <2>4. CASE EndPlace
    BY <2>4 DEF EndPlace, TypeOK, Phases
  <2>5. CASE Prune
    <3>1. PICK removed \in SUBSET Superseded :
            /\ SetWork([d \in Dirs |-> [work[d] EXCEPT
                          !.files = {f \in @ : <<d, f>> \notin removed}]])
            /\ leaf' = leaf \union Marked(removed)
      BY <2>5 DEF Prune
    <3>2. [d \in Dirs |-> [work[d] EXCEPT
             !.files = {f \in @ : <<d, f>> \notin removed}]] \in [Dirs -> DirState]
      BY <2>0 DEF DirState
    <3>3. leaf' \subseteq Dirs
      BY <3>1 DEF Marked, Superseded, TypeOK
    <3>. QED
      BY <2>5, <3>1, <3>2, <3>3, SetWorkType DEF Prune, TypeOK, Phases
  <2>6. CASE PruneReleases
    <3>1. CASE run.full
      BY <2>6, <3>1 DEF PruneReleases, TypeOK, Phases
    <3>2. CASE ~run.full
      <4>1. PICK stuck \in SUBSET Stale(work) :
              \E lost \in SUBSET {x \in stuck \X File : x[2] \in work[x[1]].files} :
              \E noIndex \in SUBSET stuck : \E noSig \in SUBSET stuck :
                /\ stuck # {} => "prune" \in Faults
                /\ gone' = Stale(work) \ stuck
                /\ SetWork([d \in Dirs |->
                              IF d \in Stale(work) \ stuck THEN NoDir
                              ELSE Leftover(lost, noIndex, noSig)[d]])
        BY <2>6, <3>2 DEF PruneReleases
      <4>2. PICK lost, noIndex, noSig :
              SetWork([d \in Dirs |->
                         IF d \in Stale(work) \ stuck THEN NoDir
                         ELSE Leftover(lost, noIndex, noSig)[d]])
        BY <4>1
      <4>3. Leftover(lost, noIndex, noSig) \in [Dirs -> DirState]
        BY LeftoverType
      <4>4. [d \in Dirs |-> IF d \in Stale(work) \ stuck THEN NoDir
                            ELSE Leftover(lost, noIndex, noSig)[d]]
              \in [Dirs -> DirState]
        BY <4>3 DEF DirState, NoDir
      <4>5. out' \in [Dirs -> DirState] /\ building' \in [Dirs -> DirState]
        BY <4>2, <4>4, SetWorkType
      <4>6. gone' \subseteq Dirs
        BY <4>1 DEF Stale
      <4>. QED
        BY <2>6, <4>5, <4>6 DEF PruneReleases, TypeOK, Phases
    <3>. QED
      BY <3>1, <3>2
  <2>7. CASE Signing
    BY <2>7 DEF Signing, Reindexed, HasFiles, TypeOK, Phases
  <2>8. CASE Fail
    BY <2>8, EndRunType, NoTreeType DEF Fail, TypeOK
  <2>9. ASSUME NEW d \in Dirs, IndexLeaf(d)
        PROVE  TypeOK'
    <3>1. PICK sig \in Signatures(d) :
            SetWork([work EXCEPT ![d].index = work[d].files, ![d].sig = sig])
      BY <2>9 DEF IndexLeaf
    <3>2. work[d].files \in SUBSET File /\ sig \in SUBSET File
      BY <2>0 DEF Signatures, DirState
    <3>3. out' \in [Dirs -> DirState] /\ building' \in [Dirs -> DirState]
      BY <2>0, <3>1, <3>2, ExceptType, SetWorkType
    <3>. QED
      BY <2>9, <3>3 DEF IndexLeaf, TypeOK
  <2>10. ASSUME NEW d \in Dirs, IndexLeafFails(d)
         PROVE  TypeOK'
    <3>1. out' \in [Dirs -> DirState] /\ building' \in [Dirs -> DirState]
      BY <2>10, PartlyIndexedType DEF IndexLeafFails, TypeOK
    <3>. QED
      BY <2>10, <3>1 DEF IndexLeafFails, TypeOK
  <2>11. CASE EndIndex
    BY <2>11 DEF EndIndex, Announced, TypeOK, Phases, RunType
  <2>12. CASE Helpers
    BY <2>12, EndRunType DEF Helpers, TypeOK
  <2>13. CASE StageHelpers
    BY <2>13 DEF StageHelpers, TypeOK, Phases
  <2>14. CASE Swap
    BY <2>14, EndRunType, NoTreeType DEF Swap, TypeOK
  <2>15. CASE Crash
    BY <2>15, EndRunType DEF Crash, TypeOK
  <2>16. ASSUME NEW c \in Candidate, CrashCopying(c)
         PROVE  TypeOK'
    <3> DEFINE F == (work[c.dir].files \ Namesakes(c.dir, {c}))
                      \union {[FileOf(c) EXCEPT !.sum = Torn]}
    <3>1. c.dir \in Dirs /\ F \in SUBSET File
      BY <2>0 DEF Candidate, FileOf, File, DirState
    <3>2. SetWork([work EXCEPT ![c.dir].files = F])
      BY <2>0, <3>1, <2>16 DEF CrashCopying
    <3>3. out' \in [Dirs -> DirState] /\ building' \in [Dirs -> DirState]
      BY <2>0, <3>1, <3>2, ExceptType, SetWorkType
    <3>. QED
      BY <2>16, <3>3, EndRunType DEF CrashCopying, TypeOK
  <2>17. ASSUME NEW d \in Dirs, CrashIndexing(d)
         PROVE  TypeOK'
    <3>1. out' \in [Dirs -> DirState] /\ building' \in [Dirs -> DirState]
      BY <2>17, PartlyIndexedType DEF CrashIndexing
    <3>. QED
      BY <2>17, <3>1, EndRunType DEF CrashIndexing, TypeOK
  <2>18. CASE HelpersFail /\ ~Fail
    BY <2>18, EndRunType DEF HelpersFail, TypeOK
  <2>19. CASE UNCHANGED vars
    BY <2>19 DEF vars, TypeOK
  <2>. QED
    BY <2>1, <2>2, <2>3, <2>4, <2>5, <2>6, <2>7, <2>8, <2>9, <2>10, <2>11, <2>12, <2>13,
       <2>14, <2>15, <2>16, <2>17, <2>18, <2>19
       DEF Next, Step, Killed, SigningFails, ReindexFails, KeepPrevious, SwapFails
<1>. QED
  BY <1>1, <1>2, PTL DEF Spec

-----------------------------------------------------------------------------
(* The inductive invariant behind the two repair properties: of a run in     *)
(* progress, which dirs of the tree it works on may have a wrong index.     *)

\* In a --full run every dir whose index is wrong is marked, or an index has
\* failed; and a slot that is still to be placed has no file yet, so a copy
\* that fails takes nothing away.
StagingInv ==
    run.full =>
      /\ \A d \in Dirs : Described(building[d]) \/ d \in leaf \/ failed
      /\ pc = "place" =>
           \A d \in Dirs : \A f \in building[d].files : <<d, f.pkg>> \notin slots

\* Once a --reindex run has collected its leaves, the same holds of every dir
\* with packages, in either tree.
ReindexInv ==
    run.reindex /\ pc \in {"index", "helpers", "swap"} =>
      \A d \in Dirs : \/ work[d].files = {}
                      \/ Described(work[d]) \/ d \in leaf \/ failed

\* No leaf is left when the helpers are written, and no index of a --full run
\* has failed.
EndInv ==
    /\ pc \in {"helpers", "swap"} => leaf = {} /\ ~(failed /\ run.full)
    /\ pc = "swap" => run.full

RunInv == pc # "idle" => exit = "none" /\ StagingInv /\ ReindexInv /\ EndInv

IInv == TypeOK /\ RunInv

\* After a run has ended there is no run to speak of.
LEMMA EndRunInv ==
  ASSUME NEW how, EndRun(how)
  PROVE  RunInv'
BY DEF EndRun, RunInv

\* Placing keeps it: in a --full run an unplaced slot has no file to lose, so
\* a dir that is not marked does not change.
LEMMA PlaceInv ==
  ASSUME IInv, NEW d \in Dirs, NEW p \in Pkgs, PlaceSlot(d, p)
  PROVE  RunInv'
<1>1. PICK F \in SUBSET File, K \in SUBSET Kept : PlaceEffect(d, p, F, K)
  BY PlaceSlotEffect DEF IInv
<1>2. /\ pc = "place" /\ pc' = "place" /\ run' = run /\ exit' = exit /\ failed' = failed
      /\ slots' = slots \ {<<d, p>>} /\ <<d, p>> \in slots
  BY DEF PlaceSlot, SlotsLeft
<1>3. exit' = "none" /\ ReindexInv' /\ EndInv'
  BY <1>2 DEF IInv, RunInv, ReindexInv, EndInv
<1>4. ASSUME run.full
      PROVE  StagingInv'
  <2>1. work = building /\ building' = [building EXCEPT ![d].files = F]
    BY <1>1, <1>4 DEF PlaceEffect, SetWork, work
  <2>2. building \in [Dirs -> DirState]
    BY DEF IInv, TypeOK
  <2>3. \A e \in Dirs \ {d} : building'[e] = building[e]
    BY <2>1, <2>2
  <2>4. building'[d].files = F /\ building'[d].index = building[d].index
    BY <2>1, <2>2 DEF DirState
  <2>5. \A f \in building[d].files : f \in File /\ f.pkg # p
    BY <1>2, <1>4, <2>2 DEF IInv, RunInv, StagingInv, DirState
  <2>6. \A f \in F : f.pkg # p => f \in building[d].files
    BY <1>1, <2>1 DEF PlaceEffect
  <2>7. d \in leaf' \/ F = building[d].files
    BY <1>1, <2>1, <2>5 DEF PlaceEffect
  <2>8. \A e \in Dirs : e \in leaf => e \in leaf'
    BY <1>1 DEF PlaceEffect
  <2>9. \A e \in Dirs : Described(building'[e]) \/ e \in leaf' \/ failed'
    BY <1>2, <1>4, <2>3, <2>4, <2>7, <2>8 DEF IInv, RunInv, StagingInv, Described
  <2>10. \A e \in Dirs : \A f \in building'[e].files : <<e, f.pkg>> \notin slots'
    <3>1. \A f \in F : <<d, f.pkg>> \notin slots'
      BY <1>2, <1>4, <2>6 DEF IInv, RunInv, StagingInv
    <3>. QED
      BY <1>2, <1>4, <2>3, <2>4, <3>1 DEF IInv, RunInv, StagingInv
  <2>. QED
    BY <1>2, <1>4, <2>9, <2>10 DEF StagingInv
<1>. QED
  BY <1>2, <1>3, <1>4 DEF RunInv, StagingInv

\* Pruning keeps it: a dir that loses a file is marked.
LEMMA PruneInv ==
  ASSUME IInv, Prune
  PROVE  RunInv'
<1>1. PICK removed \in SUBSET Superseded :
        /\ SetWork([d \in Dirs |-> [work[d] EXCEPT
                      !.files = {f \in @ : <<d, f>> \notin removed}]])
        /\ leaf' = leaf \union Marked(removed)
  BY DEF Prune
<1>2. /\ pc = "prune" /\ pc' = "releases" /\ run' = run /\ exit' = exit
      /\ failed' = failed /\ slots' = slots
  BY DEF Prune
<1>3. exit' = "none" /\ ReindexInv' /\ EndInv'
  BY <1>2 DEF IInv, RunInv, ReindexInv, EndInv
<1>4. ASSUME run.full, NEW d \in Dirs
      PROVE  Described(building'[d]) \/ d \in leaf' \/ failed'
  <2>1. /\ building \in [Dirs -> DirState]
        /\ building' = [e \in Dirs |-> [building[e] EXCEPT
                          !.files = {f \in @ : <<e, f>> \notin removed}]]
    BY <1>1, <1>4 DEF IInv, TypeOK, SetWork, work
  <2>2. /\ building'[d].index = building[d].index
        /\ building'[d].files = {f \in building[d].files : <<d, f>> \notin removed}
    BY <2>1 DEF DirState
  <2>3. d \notin leaf' => building'[d].files = building[d].files
    BY <1>1, <2>2 DEF Marked
  <2>. QED
    BY <1>1, <1>2, <1>4, <2>2, <2>3 DEF IInv, RunInv, StagingInv, Described
<1>. QED
  BY <1>2, <1>3, <1>4 DEF RunInv, StagingInv

\* Indexing a dir makes its index right, and changes no other.
LEMMA IndexInv ==
  ASSUME IInv, NEW d \in Dirs, IndexLeaf(d)
  PROVE  RunInv'
<1>1. PICK sig \in Signatures(d) :
        SetWork([work EXCEPT ![d].index = work[d].files, ![d].sig = sig])
  BY DEF IndexLeaf
<1>2. /\ pc = "index" /\ pc' = "index" /\ run' = run /\ exit' = exit
      /\ failed' = failed /\ leaf' = leaf \ {d}
  BY DEF IndexLeaf
<1>3. work \in [Dirs -> DirState]
  BY WorkType DEF IInv
<1>4. work' = [work EXCEPT ![d].index = work[d].files, ![d].sig = sig]
  BY <1>1, <1>2 DEF SetWork, work
<1>5. \A e \in Dirs \ {d} : work'[e] = work[e]
  BY <1>3, <1>4
<1>6. Described(work'[d])
  BY <1>3, <1>4 DEF Described, DirState
<1>7. run.full => work = building /\ work' = building'
  BY <1>2 DEF work
<1>8. StagingInv'
  BY <1>2, <1>5, <1>6, <1>7 DEF IInv, RunInv, StagingInv
<1>9. ReindexInv'
  BY <1>2, <1>5, <1>6 DEF IInv, RunInv, ReindexInv
<1>. QED
  BY <1>2, <1>8, <1>9 DEF IInv, RunInv, EndInv

\* The invariant is inductive.
THEOREM Invariance == Spec => []IInv
<1>1. Init => RunInv
  BY DEF Init, RunInv
<1>2. IInv /\ TypeOK' /\ [Next]_vars => RunInv'
  <2> SUFFICES ASSUME IInv, TypeOK', [Next]_vars
               PROVE  RunInv'
    OBVIOUS
  <2>1. CASE StartRun
    <3>1. /\ pc' = "place" /\ exit' = "none" /\ leaf' = leaf
          /\ run'.full => building' = NoTree
      BY <2>1 DEF StartRun, Staging
    <3>2. \A d \in Dirs : NoTree[d].files = {} /\ Described(NoTree[d])
      BY DEF NoTree, NoDir, Described
    <3>3. StagingInv'
      BY <3>1, <3>2 DEF StagingInv, Described
    <3>. QED
      BY <3>1, <3>3 DEF RunInv, ReindexInv, EndInv
  <2>2. CASE RefuseRun
    BY <2>2, EndRunInv DEF RefuseRun
  <2>3. ASSUME NEW d \in Dirs, NEW p \in Pkgs, PlaceSlot(d, p)
        PROVE  RunInv'
    BY <2>3, PlaceInv
  <2>4. CASE EndPlace
    BY <2>4 DEF EndPlace, IInv, RunInv, StagingInv, ReindexInv, EndInv
  <2>5. CASE Prune
    BY <2>5, PruneInv
  <2>6. CASE PruneReleases
    <3>1. run.full => UNCHANGED building
      BY <2>6 DEF PruneReleases
    <3>. QED
      BY <2>6, <3>1 DEF PruneReleases, IInv, RunInv, StagingInv, ReindexInv, EndInv
  <2>7. CASE Signing
    <3>1. /\ pc = "signing" /\ pc' = "index"
          /\ UNCHANGED <<out, building, run, failed, exit>>
          /\ leaf' = leaf \union Reindexed
      BY <2>7 DEF Signing
    <3>2. work' = work
      BY <3>1 DEF work
    <3>. QED
      BY <3>1, <3>2 DEF Reindexed, HasFiles, IInv, RunInv, StagingInv, ReindexInv, EndInv
  <2>8. CASE Fail
    BY <2>8, EndRunInv DEF Fail
  <2>9. ASSUME NEW d \in Dirs, IndexLeaf(d)
        PROVE  RunInv'
    BY <2>9, IndexInv
  <2>10. ASSUME NEW d \in Dirs, IndexLeafFails(d)
         PROVE  RunInv'
    BY <2>10 DEF IndexLeafFails, IInv, RunInv, StagingInv, ReindexInv, EndInv
  <2>11. CASE EndIndex
    <3>1. work' = work
      BY <2>11 DEF EndIndex, work
    <3>. QED
      BY <2>11, <3>1 DEF EndIndex, Rejected, IInv, RunInv, StagingInv, ReindexInv, EndInv
  <2>12. CASE Helpers
    BY <2>12, EndRunInv DEF Helpers
  <2>13. CASE StageHelpers
    <3>1. work' = work
      BY <2>13 DEF StageHelpers, work
    <3>. QED
      BY <2>13, <3>1 DEF StageHelpers, IInv, RunInv, StagingInv, ReindexInv, EndInv
  <2>14. CASE Swap
    BY <2>14, EndRunInv DEF Swap
  <2>15. CASE Killed
    BY <2>15, EndRunInv DEF Killed, Crash, CrashCopying, CrashIndexing
  <2>16. CASE HelpersFail
    BY <2>16, EndRunInv DEF HelpersFail, Fail
  <2>17. CASE UNCHANGED vars
    <3>1. work' = work
      BY <2>17 DEF vars, work
    <3>. QED
      BY <2>17, <3>1 DEF vars, IInv, RunInv, StagingInv, ReindexInv, EndInv
  <2>. QED
    BY <2>1, <2>2, <2>3, <2>4, <2>5, <2>6, <2>7, <2>8, <2>9, <2>10, <2>11, <2>12, <2>13,
       <2>14, <2>15, <2>16, <2>17
       DEF Next, Step, SigningFails, ReindexFails, KeepPrevious, SwapFails
<1>. QED
  BY <1>1, <1>2, TypeCorrect, PTL DEF Spec, IInv

-----------------------------------------------------------------------------
(* What it gives: a --full run swaps in a complete feed or nothing, and a    *)
(* --reindex run that succeeds has repaired the feed, whatever fails or is   *)
(* killed before or during it.                                              *)

\* When a run works on the staging tree, only the swap touches the served one.
LEMMA FullOnlySwaps ==
  ASSUME IInv, Next, run.full, out' # out
  PROVE  Swap
<1>1. ~StartRun /\ ~RefuseRun /\ ~Fail
  <2>1. StartRun => out' = out
    BY DEF StartRun
  <2>2. RefuseRun => out' = out
    BY DEF RefuseRun
  <2>3. Fail => out' = out
    BY DEF Fail
  <2>. QED
    BY <2>1, <2>2, <2>3
<1>2. \A tree : ~SetWork(tree)
  BY DEF SetWork
<1>3. /\ \A d \in Dirs, p \in Pkgs : ~PlaceSlot(d, p)
      /\ ~EndPlace /\ ~Prune /\ ~PruneReleases /\ ~Signing
  <2>1. \A d \in Dirs, p \in Pkgs : ~PlaceSlot(d, p)
    BY <1>2, PlaceSlotEffect DEF PlaceEffect, IInv
  <2>2. ~Prune
    BY <1>2, Zenon DEF Prune
  <2>3. ~PruneReleases
    BY DEF PruneReleases
  <2>4. ~EndPlace /\ ~Signing
    BY DEF EndPlace, Signing
  <2>. QED
    BY <2>1, <2>2, <2>3, <2>4
<1>4. /\ \A d \in Dirs : ~IndexLeaf(d) /\ ~IndexLeafFails(d)
      /\ ~EndIndex /\ ~Helpers /\ ~StageHelpers /\ ~HelpersFail
  BY <1>1, <1>2 DEF IndexLeaf, IndexLeafFails, PartlyIndexed, EndIndex, Helpers,
     StageHelpers, HelpersFail
<1>5. ~Killed
  BY <1>2 DEF Killed, Crash, CrashCopying, CrashIndexing, PartlyIndexed
<1>. QED
  BY <1>1, <1>3, <1>4, <1>5 DEF Next, Step, SigningFails, ReindexFails, KeepPrevious, SwapFails

\* A --full run replaces the served tree in one step, by a tree whose every
\* index lists exactly the files of its dir.
THEOREM FullSwapsCompleteCorrect == Spec => FullSwapsComplete
<1> DEFINE A == run.full /\ out' # out =>
                  out' = building /\ \A d \in Dirs : Described(building[d])
<1>1. IInv /\ [Next]_vars => [A]_vars
  <2> SUFFICES ASSUME IInv, Next, run.full, out' # out
               PROVE  out' = building /\ \A d \in Dirs : Described(building[d])
    OBVIOUS
  <2>1. Swap
    BY FullOnlySwaps
  <2>. QED
    BY <2>1 DEF Swap, IInv, RunInv, StagingInv, EndInv
<1>. QED
  BY <1>1, Invariance, PTL DEF Spec, FullSwapsComplete

\* A run that succeeds ends with its helpers or with the swap.
LEMMA OkEnds ==
  ASSUME IInv, Next, pc # "idle", exit' = "ok"
  PROVE  Helpers \/ Swap
<1>1. exit = "none"
  BY DEF IInv, RunInv
<1>. QED
  BY <1>1 DEF Next, Step, Killed, StartRun, RefuseRun, PlaceSlot, EndPlace, Prune,
     PruneReleases, Signing, SigningFails, ReindexFails, IndexLeaf, IndexLeafFails, EndIndex,
     KeepPrevious, StageHelpers, HelpersFail, SwapFails, Crash, CrashCopying,
     CrashIndexing, Fail, EndRun

\* A --reindex run that exits 0 leaves every feed dir with packages with an
\* index of exactly these.
THEOREM ReindexHealsCorrect == Spec => ReindexHeals
<1> DEFINE A == pc # "idle" /\ exit' = "ok" /\ run.reindex =>
                  \A d \in Dirs : out'[d].files # {} => Described(out'[d])
<1>1. IInv /\ [Next]_vars => [A]_vars
  <2> SUFFICES ASSUME IInv, Next, pc # "idle", exit' = "ok", run.reindex
               PROVE  \A d \in Dirs : out'[d].files # {} => Described(out'[d])
    OBVIOUS
  <2>2. Helpers \/ Swap
    BY OkEnds
  <2>3. CASE Helpers
    <3>1. pc = "helpers" /\ out' = work /\ ~failed
      BY <2>3 DEF Helpers, work, EndRun
    <3>. QED
      BY <3>1 DEF IInv, RunInv, ReindexInv, EndInv
  <2>4. CASE Swap
    BY <2>4 DEF Swap, work, IInv, RunInv, ReindexInv, EndInv
  <2>. QED
    BY <2>2, <2>3, <2>4
<1>. QED
  BY <1>1, Invariance, PTL DEF Spec, ReindexHeals

-----------------------------------------------------------------------------
(* An unsigned --reindex run leaves no signature: each dir with packages is  *)
(* to be indexed again, and indexing it without keys removes its signature.  *)

\* While such a run indexes, a dir with packages has no signature, or is to be
\* indexed, or an index could not be made.
ClearInv ==
    pc \in {"index", "helpers", "swap"} /\ run.reindex /\ ~keys /\ ~failed =>
      \A d \in Dirs : work[d].files = {} \/ d \in leaf \/ work[d].sig = {}

\* Indexing without keys removes the signature, and changes no other dir.
LEMMA IndexClears ==
  ASSUME IInv, ClearInv, NEW d \in Dirs, IndexLeaf(d)
  PROVE  ClearInv'
<1>1. PICK sig \in Signatures(d) :
        SetWork([work EXCEPT ![d].index = work[d].files, ![d].sig = sig])
  BY DEF IndexLeaf
<1>2. /\ pc = "index" /\ run' = run /\ failed' = failed /\ keys' = keys
      /\ leaf' = leaf \ {d}
  BY DEF IndexLeaf
<1>3. work \in [Dirs -> DirState]
  BY WorkType DEF IInv
<1>4. work' = [work EXCEPT ![d].index = work[d].files, ![d].sig = sig]
  BY <1>1, <1>2 DEF SetWork, work
<1>5. \A e \in Dirs \ {d} : work'[e] = work[e]
  BY <1>3, <1>4
<1>6. ~keys => work'[d].sig = {}
  <2>1. ~keys => sig = {}
    BY DEF Signatures
  <2>2. work'[d].sig = sig
    BY <1>3, <1>4 DEF DirState
  <2>. QED
    BY <2>1, <2>2
<1>. QED
  BY <1>2, <1>5, <1>6 DEF ClearInv

LEMMA ClearStep == IInv /\ ClearInv /\ [Next]_vars => ClearInv'
<1> SUFFICES ASSUME IInv, ClearInv, [Next]_vars
             PROVE  ClearInv'
  OBVIOUS
<1>1. ASSUME NEW how, EndRun(how)
      PROVE  ClearInv'
  BY <1>1 DEF EndRun, ClearInv
<1>2. CASE Swap \/ Helpers \/ Crash \/ Fail \/ HelpersFail \/ RefuseRun
  BY <1>1, <1>2 DEF Swap, Helpers, Crash, Fail, HelpersFail, RefuseRun
<1>3. CASE StartRun \/ EndPlace \/ Prune \/ PruneReleases
  BY <1>3 DEF StartRun, EndPlace, Prune, PruneReleases, ClearInv
<1>4. ASSUME NEW d \in Dirs, NEW p \in Pkgs, PlaceSlot(d, p)
      PROVE  ClearInv'
  BY <1>4 DEF PlaceSlot, ClearInv
<1>5. CASE Signing
  <2>1. pc = "signing" /\ work' = work /\ run' = run /\ leaf' = leaf \union Reindexed
    BY <1>5 DEF Signing, work
  <2>. QED
    BY <2>1 DEF Reindexed, HasFiles, ClearInv
<1>6. CASE EndIndex \/ StageHelpers \/ UNCHANGED vars
  <2>1. work' = work /\ run' = run /\ leaf' = leaf /\ failed' = failed /\ keys' = keys
    BY <1>6 DEF EndIndex, StageHelpers, vars, work
  <2>2. pc' \in {"index", "helpers", "swap"} => pc \in {"index", "helpers", "swap"}
    BY <1>6 DEF EndIndex, StageHelpers, vars
  <2>. QED
    BY <2>1, <2>2 DEF ClearInv
<1>7. ASSUME NEW d \in Dirs, IndexLeaf(d)
      PROVE  ClearInv'
  BY <1>7, IndexClears
<1>8. ASSUME NEW d \in Dirs, IndexLeafFails(d)
      PROVE  ClearInv'
  BY <1>8 DEF IndexLeafFails, ClearInv
<1>9. CASE Killed
  BY <1>1, <1>9 DEF Killed, Crash, CrashCopying, CrashIndexing
<1>. QED
  BY <1>1, <1>2, <1>3, <1>4, <1>5, <1>6, <1>7, <1>8, <1>9
     DEF Next, Step, SigningFails, ReindexFails, KeepPrevious, SwapFails

\* An unsigned --reindex run that exits 0 leaves no signature in a feed dir
\* with packages, whatever fails or is killed before or during it.
THEOREM UnsignedReindexClearsCorrect == Spec => UnsignedReindexClears
<1> DEFINE A == pc # "idle" /\ exit' = "ok" /\ run.reindex /\ ~keys =>
                  \A d \in HasFiles(out') : out'[d].sig = {}
<1>1. Init => ClearInv
  BY DEF Init, ClearInv
<1>2. IInv /\ ClearInv /\ [Next]_vars => [A]_vars
  <2> SUFFICES ASSUME IInv, ClearInv, Next,
                      pc # "idle", exit' = "ok", run.reindex, ~keys
               PROVE  \A d \in HasFiles(out') : out'[d].sig = {}
    OBVIOUS
  <2>1. pc \in {"helpers", "swap"} /\ out' = work /\ ~failed /\ leaf = {}
    <3>1. CASE Helpers
      BY <3>1 DEF Helpers, work, EndRun, IInv, RunInv, EndInv
    <3>2. CASE Swap
      BY <3>2 DEF Swap, work, IInv, RunInv, EndInv
    <3>. QED
      BY <3>1, <3>2, OkEnds
  <2>. QED
    BY <2>1 DEF HasFiles, ClearInv
<1>. QED
  BY <1>1, <1>2, Invariance, ClearStep, PTL DEF Spec, UnsignedReindexClears
-----------------------------------------------------------------------------
(* What goes: only files that a candidate of the run supersedes or replaces. *)

\* What the run keeps, it has a candidate of; an unstarted run is no --full one.
KeptInv ==
    /\ \A k \in kept : \E c \in cands : c.dir = k.dir /\ c.pkg = k.pkg /\ c.ver = k.ver
    /\ pc = "idle" => kept = {}

\* The candidates of a run do not change while it lasts, and only placing adds
\* to what it keeps.
LEMMA KeptStep == IInv /\ KeptInv /\ [Next]_vars => KeptInv'
<1> SUFFICES ASSUME IInv, KeptInv, [Next]_vars
             PROVE  KeptInv'
  OBVIOUS
<1>1. CASE StartRun
  BY <1>1 DEF StartRun, KeptInv
<1>2. ASSUME NEW how, EndRun(how)
      PROVE  KeptInv'
  BY <1>2 DEF EndRun, KeptInv
<1>3. ASSUME NEW d \in Dirs, NEW p \in Pkgs, PlaceSlot(d, p)
      PROVE  KeptInv'
  <2>1. pc = "place" /\ pc' = "place" /\ cands' = cands
    BY <1>3 DEF PlaceSlot
  <2>2. \/ kept' = kept
        \/ \E c \in Slot(d, p) :
             kept' = kept \union {[dir |-> d, pkg |-> p, ver |-> c.ver]}
    BY <1>3 DEF PlaceSlot
  <2>3. CASE kept' = kept
    BY <2>1, <2>3 DEF KeptInv
  <2>4. ASSUME NEW c \in Slot(d, p),
               kept' = kept \union {[dir |-> d, pkg |-> p, ver |-> c.ver]}
        PROVE  KeptInv'
    <3>1. c \in cands /\ c.dir = d /\ c.pkg = p
      BY DEF Slot
    <3>. QED
      BY <2>1, <2>4, <3>1 DEF KeptInv
  <2>. QED
    BY <2>2, <2>3, <2>4
<1>4. CASE Swap \/ Helpers \/ Crash \/ Fail \/ HelpersFail \/ RefuseRun
  BY <1>2, <1>4 DEF Swap, Helpers, Crash, Fail, HelpersFail, RefuseRun
<1>5. CASE \/ EndPlace \/ Prune \/ PruneReleases \/ Signing \/ EndIndex \/ StageHelpers
           \/ UNCHANGED vars
  BY <1>5 DEF EndPlace, Prune, PruneReleases, Signing, EndIndex, StageHelpers, vars, KeptInv
<1>6. ASSUME NEW d \in Dirs, IndexLeaf(d) \/ IndexLeafFails(d)
      PROVE  KeptInv'
  BY <1>6 DEF IndexLeaf, IndexLeafFails, KeptInv
<1>7. ASSUME NEW c \in Candidate, CrashCopying(c)
      PROVE  KeptInv'
  BY <1>2, <1>7 DEF CrashCopying
<1>8. ASSUME NEW d \in Dirs, CrashIndexing(d)
      PROVE  KeptInv'
  BY <1>2, <1>8 DEF CrashIndexing
<1>. QED
  BY <1>1, <1>3, <1>4, <1>5, <1>6, <1>7, <1>8
     DEF Next, Step, Killed, SigningFails, ReindexFails, KeepPrevious, SwapFails

\* A file of dir d may go: a candidate of its package is at least as new.
MayGo(d, f) ==
    \E c \in cands : c.dir = d /\ c.pkg = f.pkg /\ Rank[c.ver] >= Rank[f.ver]

\* A candidate of the same name is as new.
LEMMA NamesakeGoes ==
  ASSUME TypeOK, NEW d \in Dirs, NEW C, NEW f \in Namesakes(d, C),
         C \subseteq cands, \A c \in C : c.dir = d
  PROVE  MayGo(d, f)
<1>1. PICK c \in C : c.pkg = f.pkg /\ c.ver = f.ver
  BY DEF Namesakes
<1>2. c \in Candidate
  BY DEF TypeOK
<1>3. Rank[c.ver] \in Nat
  BY <1>2, ConstantsAssumption DEF Candidate
<1>. QED
  BY <1>1, <1>3 DEF MayGo

\* Placing a slot takes files of the names of its candidates only.
LEMMA PlaceTakes ==
  ASSUME TypeOK, NEW d \in Dirs, NEW p \in Pkgs, PlaceSlot(d, p), ~run.full
  PROVE  \A e \in Dirs : \A f \in out[e].files \ out'[e].files : MayGo(e, f)
<1> DEFINE S == Slot(d, p)
<1>1. PICK lost \in SUBSET S :
        LET left == work[d].files \ Namesakes(d, lost)
        IN \/ \E c \in S :
                \/ SetWork([work EXCEPT ![d].files = left])
                \/ SetWork([work EXCEPT ![d].files =
                             (left \ Namesakes(d, {c})) \union {FileOf(c)}])
           \/ SetWork([work EXCEPT ![d].files = left])
  BY DEF PlaceSlot
<1> DEFINE left == work[d].files \ Namesakes(d, lost)
           With(c) == (left \ Namesakes(d, {c})) \union {FileOf(c)}
<1>2. PICK F : /\ SetWork([work EXCEPT ![d].files = F])
               /\ \/ F = left
                  \/ \E c \in S : F = With(c)
  BY <1>1
<1>3. S \subseteq cands /\ \A c \in S : c.dir = d
  BY DEF Slot
<1>4. work = out /\ out' = [out EXCEPT ![d].files = F] /\ out \in [Dirs -> DirState]
  BY <1>2 DEF SetWork, work, TypeOK
<1>5. \A f \in out[d].files \ F : \/ f \in Namesakes(d, lost)
                                  \/ \E c \in S : f \in Namesakes(d, {c})
  BY <1>2, <1>4
<1>6. \A f \in out[d].files \ F : MayGo(d, f)
  <2> SUFFICES ASSUME NEW f \in out[d].files \ F
               PROVE  MayGo(d, f)
    OBVIOUS
  <2>1. CASE f \in Namesakes(d, lost)
    BY <1>3, <2>1, NamesakeGoes
  <2>2. ASSUME NEW c \in S, f \in Namesakes(d, {c})
        PROVE  MayGo(d, f)
    BY <1>3, <2>2, NamesakeGoes
  <2>. QED
    BY <1>5, <2>1, <2>2
<1>7. ASSUME NEW e \in Dirs, NEW f \in out[e].files \ out'[e].files
      PROVE  MayGo(e, f)
  <2>1. CASE e = d
    <3>1. out'[d].files = F
      BY <1>4 DEF DirState
    <3>. QED
      BY <1>6, <1>7, <2>1, <3>1
  <2>2. CASE e # d
    BY <1>4, <1>7, <2>2
  <2>. QED
    BY <2>1, <2>2
<1>. QED
  BY <1>7

\* Pruning takes files that are older than something the run keeps.
LEMMA PruneTakes ==
  ASSUME TypeOK, KeptInv, Prune, ~run.full
  PROVE  \A d \in Dirs : \A f \in out[d].files \ out'[d].files : MayGo(d, f)
<1>1. PICK removed \in SUBSET Superseded :
        SetWork([d \in Dirs |-> [work[d] EXCEPT
                   !.files = {f \in @ : <<d, f>> \notin removed}]])
  BY DEF Prune
<1>2. /\ out' = [d \in Dirs |-> [out[d] EXCEPT
                   !.files = {f \in @ : <<d, f>> \notin removed}]]
      /\ out \in [Dirs -> DirState]
  BY <1>1 DEF SetWork, work, TypeOK
<1>3. ASSUME NEW d \in Dirs, NEW f \in out[d].files \ out'[d].files
      PROVE  MayGo(d, f)
  <2>1. out'[d].files = {g \in out[d].files : <<d, g>> \notin removed}
    BY <1>2 DEF DirState
  <2>2. <<d, f>> \in Superseded
    BY <1>3, <2>1
  <2>3. PICK k \in kept : k.dir = d /\ k.pkg = f.pkg /\ Rank[f.ver] < Rank[k.ver]
    BY <2>2 DEF Superseded, Older
  <2>4. PICK c \in cands : c.dir = k.dir /\ c.pkg = k.pkg /\ c.ver = k.ver
    BY DEF KeptInv
  <2>5. Rank[f.ver] \in Nat /\ Rank[c.ver] \in Nat
    <3>1. f \in File /\ c \in Candidate
      BY <1>2 DEF DirState, TypeOK
    <3>. QED
      BY <3>1, ConstantsAssumption DEF File, Candidate
  <2>. QED
    BY <2>3, <2>4, <2>5 DEF MayGo
<1>. QED
  BY <1>3

\* Steps that write indexes and signatures leave the files of every dir.
LEMMA FilesStay ==
  ASSUME TypeOK, NEW d \in Dirs, NEW I, NEW S,
         \/ SetWork([work EXCEPT ![d].index = I])
         \/ SetWork([work EXCEPT ![d].index = I, ![d].sig = S])
  PROVE  \A e \in Dirs : out'[e].files = out[e].files
<1>1. out \in [Dirs -> DirState]
  BY DEF TypeOK
<1>. QED
  BY <1>1 DEF SetWork, work, DirState

\* Removing release dirs leaves those the layout carries.
LEMMA CarriedStay ==
  ASSUME TypeOK, PruneReleases, NEW d \in run.carried \cap Dirs
  PROVE  /\ out'[d].files = out[d].files /\ out'[d].index = out[d].index
         /\ out'[d].sig = out[d].sig
<1>1. CASE run.full
  BY <1>1 DEF PruneReleases
<1>2. CASE ~run.full
  <2>1. PICK stuck \in SUBSET Stale(work) :
          \E lost \in SUBSET {x \in stuck \X File : x[2] \in work[x[1]].files} :
          \E noIndex \in SUBSET stuck : \E noSig \in SUBSET stuck :
            /\ stuck # {} => "prune" \in Faults
            /\ gone' = Stale(work) \ stuck
            /\ SetWork([e \in Dirs |->
                          IF e \in Stale(work) \ stuck THEN NoDir
                          ELSE Leftover(lost, noIndex, noSig)[e]])
    BY <1>2 DEF PruneReleases
  <2>2. PICK lost \in SUBSET (stuck \X File) :
          \E noIndex \in SUBSET stuck, noSig \in SUBSET stuck :
            SetWork([e \in Dirs |-> IF e \in Stale(work) \ stuck THEN NoDir
                                    ELSE Leftover(lost, noIndex, noSig)[e]])
    BY <2>1
  <2>3. PICK noIndex \in SUBSET stuck, noSig \in SUBSET stuck :
          SetWork([e \in Dirs |-> IF e \in Stale(work) \ stuck THEN NoDir
                                  ELSE Leftover(lost, noIndex, noSig)[e]])
    BY <2>2
  <2>4. d \notin Stale(work)
    BY DEF Stale
  <2>5. out'[d] = Leftover(lost, noIndex, noSig)[d] /\ work = out
    BY <1>2, <2>3, <2>4 DEF SetWork, work
  <2>6. \A f : <<d, f>> \notin lost
    BY <2>4
  <2>7. {f \in out[d].files : <<d, f>> \notin lost} = out[d].files
    BY <2>6
  <2>8. d \notin noIndex /\ d \notin noSig
    BY <2>4
  <2>9. Leftover(lost, noIndex, noSig)[d] =
          [files |-> {f \in out[d].files : <<d, f>> \notin lost},
           index |-> out[d].index, sig |-> out[d].sig]
    BY <2>5, <2>8 DEF Leftover
  <2>. QED
    BY <2>5, <2>7, <2>9
<1>. QED
  BY <1>1, <1>2

\* supersededFile and placeSlot: whatever fails or is killed, an incremental
\* run removes a package file from a dir the layout carries only when it has a
\* candidate of the package there that is at least as new.
THEOREM OnlySupersededGoCorrect == Spec => OnlySupersededGo
<1> DEFINE A == ~run.full =>
                  \A d \in run.carried : \A f \in out[d].files \ out'[d].files :
                     \E c \in cands :
                        c.dir = d /\ c.pkg = f.pkg /\ Rank[c.ver] >= Rank[f.ver]
<1>1. IInv /\ KeptInv /\ [Next]_vars => [A]_vars
  <2> SUFFICES ASSUME IInv, KeptInv, Next, ~run.full,
                      NEW d \in run.carried, NEW f \in out[d].files \ out'[d].files
               PROVE  MayGo(d, f)
    BY DEF MayGo
  <2>0. TypeOK /\ d \in Dirs /\ out' # out
    BY DEF IInv, TypeOK, RunType
  <2>1. ASSUME NEW e \in Dirs, NEW p \in Pkgs, PlaceSlot(e, p)
        PROVE  MayGo(d, f)
    BY <2>0, <2>1, PlaceTakes
  <2>2. CASE Prune
    BY <2>0, <2>2, PruneTakes
  <2>3. CASE PruneReleases
    BY <2>0, <2>3, CarriedStay
  <2>4. ASSUME NEW e \in Dirs, IndexLeaf(e)
        PROVE  FALSE
    <3>1. PICK sig : SetWork([work EXCEPT ![e].index = work[e].files, ![e].sig = sig])
      BY <2>4 DEF IndexLeaf
    <3>. QED
      BY <2>0, <3>1, FilesStay
  <2>5. ASSUME NEW e \in Dirs, PartlyIndexed(e)
        PROVE  FALSE
    <3>1. work \in [Dirs -> DirState]
      BY <2>0, WorkType
    <3>2. \/ SetWork([work EXCEPT ![e].index = {}])
          \/ SetWork([work EXCEPT ![e].index = work[e].files,
                                  ![e].sig = IF e \in Apk THEN {} ELSE work[e].sig])
      BY <2>5, <3>1 DEF PartlyIndexed
    <3>. QED
      BY <2>0, <3>2, FilesStay
  <2>6. ASSUME NEW c \in Candidate, CrashCopying(c)
        PROVE  MayGo(d, f)
    <3> DEFINE F == (out[c.dir].files \ Namesakes(c.dir, {c}))
                      \union {[FileOf(c) EXCEPT !.sum = Torn]}
    <3>1. c \in cands /\ c.dir \in Dirs /\ work = out /\ out \in [Dirs -> DirState]
      BY <2>0, <2>6 DEF CrashCopying, Candidate, work, TypeOK
    <3>2. out' = [out EXCEPT ![c.dir].files = F]
      BY <2>6, <3>1 DEF CrashCopying, SetWork
    <3>3. d = c.dir
      BY <2>0, <3>1, <3>2
    <3>4. out'[d].files = F
      BY <3>1, <3>2, <3>3 DEF DirState
    <3>5. f \in Namesakes(d, {c})
      BY <3>3, <3>4
    <3>. QED
      BY <2>0, <3>1, <3>3, <3>5, NamesakeGoes
  <2>7. ~Swap
    BY DEF Swap, IInv, RunInv, EndInv
  <2>8. /\ ~StartRun /\ ~RefuseRun /\ ~EndPlace /\ ~Signing /\ ~Fail /\ ~EndIndex
        /\ ~Helpers /\ ~StageHelpers /\ ~Crash
    BY <2>0 DEF StartRun, RefuseRun, EndPlace, Signing, Fail, EndIndex, Helpers,
       StageHelpers, Crash
  <2>9. /\ ~SigningFails /\ ~ReindexFails /\ ~KeepPrevious /\ ~SwapFails /\ ~HelpersFail
    BY <2>0, <2>8 DEF SigningFails, ReindexFails, KeepPrevious, SwapFails, HelpersFail
  <2>10. \A e \in Dirs : ~IndexLeafFails(e) /\ ~CrashIndexing(e)
    BY <2>0, <2>5 DEF IndexLeafFails, CrashIndexing
  <2>. QED
    BY <2>1, <2>2, <2>3, <2>4, <2>6, <2>7, <2>8, <2>9, <2>10 DEF Next, Step, Killed
<1>2. Init => KeptInv
  BY DEF Init, KeptInv
<1>3. Spec => []KeptInv
  BY <1>2, KeptStep, Invariance, PTL DEF Spec
<1>. QED
  BY <1>1, <1>3, Invariance, PTL DEF Spec, OnlySupersededGo
-----------------------------------------------------------------------------
(* What the helpers are told.                                               *)

\* Placing changes no index and no signature.
LEMMA PlaceLeavesIndex ==
  ASSUME TypeOK, NEW d \in Dirs, NEW p \in Pkgs, PlaceSlot(d, p)
  PROVE  \A e \in Dirs : /\ out'[e].index = out[e].index /\ out'[e].sig = out[e].sig
                         /\ building'[e].index = building[e].index
                         /\ building'[e].sig = building[e].sig
<1>1. PICK F \in SUBSET File : SetWork([work EXCEPT ![d].files = F])
  BY PlaceSlotEffect DEF PlaceEffect
<1>2. out \in [Dirs -> DirState] /\ building \in [Dirs -> DirState]
  BY DEF TypeOK
<1>3. CASE run.full
  <2>1. out' = out /\ building' = [building EXCEPT ![d].files = F]
    BY <1>1, <1>3 DEF SetWork, work
  <2>. QED
    BY <1>2, <2>1 DEF DirState
<1>4. CASE ~run.full
  <2>1. building' = building /\ out' = [out EXCEPT ![d].files = F]
    BY <1>1, <1>4 DEF SetWork, work
  <2>. QED
    BY <1>2, <2>1 DEF DirState
<1>. QED
  BY <1>3, <1>4

\* Neither does pruning.
LEMMA PruneLeavesIndex ==
  ASSUME TypeOK, Prune
  PROVE  \A e \in Dirs : /\ out'[e].index = out[e].index /\ out'[e].sig = out[e].sig
                         /\ building'[e].index = building[e].index
                         /\ building'[e].sig = building[e].sig
<1>1. PICK removed \in SUBSET Superseded :
        SetWork([d \in Dirs |-> [work[d] EXCEPT
                   !.files = {f \in @ : <<d, f>> \notin removed}]])
  BY DEF Prune
<1>2. out \in [Dirs -> DirState] /\ building \in [Dirs -> DirState]
  BY DEF TypeOK
<1>3. CASE run.full
  <2>1. /\ out' = out
        /\ building' = [d \in Dirs |-> [building[d] EXCEPT
                          !.files = {f \in @ : <<d, f>> \notin removed}]]
    BY <1>1, <1>3 DEF SetWork, work
  <2>. QED
    BY <1>2, <2>1 DEF DirState
<1>4. CASE ~run.full
  <2>1. /\ building' = building
        /\ out' = [d \in Dirs |-> [out[d] EXCEPT
                     !.files = {f \in @ : <<d, f>> \notin removed}]]
    BY <1>1, <1>4 DEF SetWork, work
  <2>. QED
    BY <1>2, <2>1 DEF DirState
<1>. QED
  BY <1>3, <1>4

\* Indexing a dir gives it an index of its files, and changes no other dir.
LEMMA IndexLeafEffect ==
  ASSUME TypeOK, NEW d \in Dirs, IndexLeaf(d)
  PROVE  /\ work[d].files # {} /\ work'[d].index = work[d].files
         /\ work'[d].files = work[d].files /\ work'[d].sig \in Signatures(d)
         /\ \A e \in Dirs : e # d => work'[e] = work[e]
         /\ IF run.full THEN out' = out ELSE building' = building
<1>1. PICK sig \in Signatures(d) :
        SetWork([work EXCEPT ![d].index = work[d].files, ![d].sig = sig])
  BY DEF IndexLeaf
<1>2. work \in [Dirs -> DirState]
  BY WorkType
<1>3. run' = run /\ work[d].files # {}
  BY DEF IndexLeaf, Indexable
<1>4. work' = [work EXCEPT ![d].index = work[d].files, ![d].sig = sig]
  BY <1>1, <1>3 DEF SetWork, work
<1>5. IF run.full THEN out' = out ELSE building' = building
  BY <1>1 DEF SetWork
<1>. QED
  BY <1>2, <1>3, <1>4, <1>5 DEF DirState

\* Of the release dirs the layout does not carry, those that are removed are
\* gone as a whole; of a --full run none is.
LEMMA ReleasesEffect ==
  ASSUME TypeOK, PruneReleases
  PROVE  IF run.full
         THEN out' = out /\ building' = building /\ gone' = gone
         ELSE /\ building' = building
              /\ gone' \subseteq Dirs \ run.carried
              /\ \A d \in gone' : out'[d] = NoDir
<1>1. CASE run.full
  BY <1>1 DEF PruneReleases
<1>2. CASE ~run.full
  <2>1. PICK stuck \in SUBSET Stale(work) :
          \E lost \in SUBSET {x \in stuck \X File : x[2] \in work[x[1]].files} :
          \E noIndex \in SUBSET stuck : \E noSig \in SUBSET stuck :
            /\ stuck # {} => "prune" \in Faults
            /\ gone' = Stale(work) \ stuck
            /\ SetWork([e \in Dirs |->
                          IF e \in Stale(work) \ stuck THEN NoDir
                          ELSE Leftover(lost, noIndex, noSig)[e]])
    BY <1>2 DEF PruneReleases
  <2>2. PICK lost, noIndex, noSig :
          /\ gone' = Stale(work) \ stuck
          /\ SetWork([e \in Dirs |-> IF e \in Stale(work) \ stuck THEN NoDir
                                     ELSE Leftover(lost, noIndex, noSig)[e]])
    BY <2>1
  <2>3. Stale(work) \subseteq Dirs \ run.carried
    BY DEF Stale
  <2>. QED
    BY <1>2, <2>2, <2>3 DEF SetWork
<1>. QED
  BY <1>1, <1>2

\* The dirs indexed so far and those that had an index at the start, against
\* the dirs of the tree the run works on; a dir that went with its release is
\* empty and stays so, for nothing is left in it to index.
HelpersInv ==
    /\ pc \in {"idle", "place", "prune", "releases"} => rel = {} /\ gone = {}
    /\ pc = "idle" => ~failed
    /\ gone \cap run.carried = {}
    /\ run.full => gone = {}
    /\ pc # "idle" /\ ~failed =>
         IF run.full
         THEN \A d \in Dirs : d \in rel <=> building[d].index # {}
         ELSE /\ \A d \in gone : out[d].files = {} /\ out[d].index = {} /\ d \notin rel
              /\ \A d \in run.carried :
                   out[d].index # {} <=>
                     d \in IF pc = "helpers" THEN rel ELSE rel \cup run.snapshot

\* Every step keeps it.
LEMMA HelpersStep == IInv /\ HelpersInv /\ [Next]_vars => HelpersInv'
<1> SUFFICES ASSUME IInv, HelpersInv, [Next]_vars
             PROVE  HelpersInv'
  OBVIOUS
<1>0. TypeOK /\ run.carried \subseteq Dirs
  BY DEF IInv, TypeOK, RunType
<1>1. CASE StartRun
  <2>1. /\ pc = "idle" /\ pc' = "place" /\ UNCHANGED <<out, rel, gone, failed>>
        /\ run'.snapshot = HasIndex(out) /\ run'.carried \subseteq Dirs
        /\ run'.full => building' = NoTree
    BY <1>1, ConstantsAssumption DEF StartRun, Staging
  <2>2. \A d \in Dirs : NoTree[d].index = {}
    BY DEF NoTree, NoDir
  <2>3. CASE run'.full
    BY <2>1, <2>2, <2>3 DEF HelpersInv
  <2>4. CASE ~run'.full
    BY <2>1, <2>4 DEF HelpersInv, HasIndex
  <2>. QED
    BY <2>3, <2>4
<1>2. ASSUME NEW how, EndRun(how)
      PROVE  HelpersInv'
  BY <1>2 DEF EndRun, HelpersInv, NoRun
<1>3. ASSUME NEW d \in Dirs, NEW p \in Pkgs, PlaceSlot(d, p)
      PROVE  HelpersInv'
  <2>1. pc = "place" /\ UNCHANGED <<pc, run, rel, gone, failed>>
    BY <1>3 DEF PlaceSlot
  <2>. QED
    BY <1>0, <1>3, <2>1, PlaceLeavesIndex DEF HelpersInv
<1>4. CASE Prune
  <2>1. pc = "prune" /\ pc' = "releases" /\ UNCHANGED <<run, rel, gone, failed>>
    BY <1>4 DEF Prune
  <2>. QED
    BY <1>0, <1>4, <2>1, PruneLeavesIndex DEF HelpersInv
<1>5. CASE PruneReleases
  <2>1. pc = "releases" /\ pc' = "signing" /\ UNCHANGED <<run, rel, failed>> /\ rel = {}
    BY <1>5 DEF PruneReleases, HelpersInv
  <2>2. \A d \in run.carried : out'[d].index = out[d].index
    BY <1>0, <1>5, CarriedStay
  <2>3. CASE run.full
    BY <1>0, <1>5, <2>1, <2>3, ReleasesEffect DEF HelpersInv
  <2>4. CASE ~run.full
    <3>1. gone' \cap run.carried = {} /\ \A d \in gone' : out'[d].files = {} /\ out'[d].index = {}
      BY <1>0, <1>5, <2>4, ReleasesEffect DEF NoDir
    <3>. QED
      BY <2>1, <2>2, <2>4, <3>1 DEF HelpersInv
  <2>. QED
    BY <2>3, <2>4
<1>6. CASE EndPlace \/ Signing
  BY <1>6 DEF EndPlace, Signing, HelpersInv
<1>7. ASSUME NEW d \in Dirs, IndexLeaf(d)
      PROVE  HelpersInv'
  <2>1. pc = "index" /\ UNCHANGED <<pc, run, gone, failed>> /\ rel' = rel \union {d}
    BY <1>7 DEF IndexLeaf
  <2>2. CASE run.full
    <3>1. /\ building[d].files # {} /\ building'[d].index = building[d].files
          /\ \A e \in Dirs : e # d => building'[e] = building[e]
      BY <1>0, <1>7, <2>1, <2>2, IndexLeafEffect DEF work
    <3>. QED
      BY <2>1, <2>2, <3>1 DEF HelpersInv
  <2>3. CASE ~run.full
    <3>1. /\ out[d].files # {} /\ out'[d].index = out[d].files
          /\ \A e \in Dirs : e # d => out'[e] = out[e]
      BY <1>0, <1>7, <2>1, <2>3, IndexLeafEffect DEF work
    <3>2. gone \subseteq Dirs
      BY <1>0 DEF TypeOK
    <3>. QED
      BY <1>0, <2>1, <2>3, <3>1, <3>2 DEF HelpersInv
  <2>. QED
    BY <2>2, <2>3
<1>8. ASSUME NEW d \in Dirs, IndexLeafFails(d)
      PROVE  HelpersInv'
  BY <1>8 DEF IndexLeafFails, HelpersInv
<1>9. CASE EndIndex
  BY <1>9 DEF EndIndex, Announced, HelpersInv
<1>10. CASE StageHelpers
  BY <1>10 DEF StageHelpers, HelpersInv
<1>11. CASE Swap \/ Helpers \/ Crash \/ Fail \/ HelpersFail \/ RefuseRun
  BY <1>2, <1>11 DEF Swap, Helpers, Crash, Fail, HelpersFail, RefuseRun
<1>12. ASSUME NEW c \in Candidate, CrashCopying(c)
       PROVE  HelpersInv'
  BY <1>2, <1>12 DEF CrashCopying
<1>13. ASSUME NEW d \in Dirs, CrashIndexing(d)
       PROVE  HelpersInv'
  BY <1>2, <1>13 DEF CrashIndexing
<1>14. CASE UNCHANGED vars
  BY <1>14 DEF vars, HelpersInv
<1>. QED
  BY <1>1, <1>3, <1>4, <1>5, <1>6, <1>7, <1>8, <1>9, <1>10, <1>11, <1>12, <1>13, <1>14
     DEF Next, Step, Killed, SigningFails, ReindexFails, KeepPrevious, SwapFails

\* withSnapshotDirs and helpers: a run that succeeds, after whatever failed or
\* was killed before it, tells routers of exactly the dirs with an index, among
\* those the layout carries and those it has removed.
THEOREM HelpersMatchCorrect == Spec => HelpersMatch
<1> DEFINE A == pc # "idle" /\ exit' = "ok" =>
                  \A d \in run.carried \cup gone : d \in named' <=> d \in HasIndex(out')
<1>1. IInv /\ HelpersInv /\ [Next]_vars => [A]_vars
  <2> SUFFICES ASSUME IInv, HelpersInv, Next, pc # "idle", exit' = "ok"
               PROVE  \A d \in run.carried \cup gone : d \in named' <=> d \in HasIndex(out')
    OBVIOUS
  <2>0. run.carried \subseteq Dirs /\ gone \subseteq Dirs
    BY DEF IInv, TypeOK, RunType
  <2>1. CASE Helpers
    <3>1. pc = "helpers" /\ ~run.full /\ ~failed /\ out' = out /\ named' = rel
      BY <2>1 DEF Helpers, EndRun
    <3>. QED
      BY <2>0, <3>1 DEF HelpersInv, HasIndex
  <2>2. CASE Swap
    <3>1. pc = "swap" /\ run.full /\ ~failed /\ out' = building /\ named' = rel
      BY <2>2 DEF Swap, IInv, RunInv, EndInv
    <3>. QED
      BY <2>0, <3>1 DEF HelpersInv, HasIndex
  <2>. QED
    BY <2>1, <2>2, OkEnds
<1>2. Init => HelpersInv
  BY DEF Init, HelpersInv, NoRun
<1>3. Spec => []HelpersInv
  BY <1>2, HelpersStep, Invariance, PTL DEF Spec
<1>. QED
  BY <1>1, <1>3, Invariance, PTL DEF Spec, HelpersMatch
=============================================================================
