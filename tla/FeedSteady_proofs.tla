---------------------------- MODULE FeedSteady_proofs ----------------------------
(***************************************************************************)
(* Proofs about FeedBuild when nothing worse happens than what Build is    *)
(* written to go on after: downloads that cannot be read, keys that are    *)
(* not there, helpers and swaps that fail.  No run is killed, no copy, no  *)
(* removal, no writing and no signing of an index fails, and keys are not  *)
(* broken.                                                                 *)
(***************************************************************************)
EXTENDS FeedBuild_proofs

Steady == Faults \subseteq {"unreadable", "nokeys", "helpers", "swap"}

\* What the work tree looks like while a run lasts: a dir whose index does not
\* list its files is marked, has files, and its format can be indexed; no file
\* was cut short.
MarkedInv ==
    /\ \A d \in Dirs : \A f \in out[d].files : f.sum # Torn
    /\ pc = "idle" \/ run.full => \A d \in Dirs : Described(out[d])
    /\ pc # "idle" =>
         /\ \A c \in cands : c.dir \in Apk => run.apkTool
         /\ \A d \in Dirs : \A f \in work[d].files : f.sum # Torn
         /\ \A d \in Dirs : \/ Described(work[d])
                            \/ /\ d \in leaf
                               /\ work[d].files # {}
                               /\ d \in Apk => run.apkTool

\* A slot is placed once, so a dir keeps one version of a package; its file is
\* there, unless its release is not carried, and nothing older after pruning.
PlacedInv ==
    /\ \A k \in kept : <<k.dir, k.pkg>> \notin slots
    /\ \A k, l \in kept : k.dir = l.dir /\ k.pkg = l.pkg => k = l
    /\ pc # "idle" =>
         \A k \in kept :
            /\ pc \in {"place", "prune"} \/ k.dir \in run.carried =>
                 \E c \in cands : /\ c.dir = k.dir /\ c.pkg = k.pkg /\ c.ver = k.ver
                                  /\ FileOf(c) \in work[k.dir].files
            /\ pc \notin {"place", "prune"} =>
                 \A f \in work[k.dir].files :
                    f.pkg = k.pkg => Rank[f.ver] >= Rank[k.ver]

\* Whatever a dir's index lists, the dir has in that version or a newer one.
NewerInv ==
    pc # "idle" /\ ~run.full =>
        \A d \in run.carried : \A f \in out[d].index :
            \E g \in out[d].files : g.pkg = f.pkg /\ Rank[g.ver] >= Rank[f.ver]

SteadyInv == MarkedInv /\ PlacedInv /\ NewerInv

-----------------------------------------------------------------------------
(* What the steps of such a run do.                                        *)

\* Versions have ranks.
LEMMA Ranked ==
  ASSUME TypeOK
  PROVE  /\ \A k \in kept : Rank[k.ver] \in Nat
         /\ \A d \in Dirs : /\ \A f \in out[d].files \cup out[d].index : Rank[f.ver] \in Nat
                            /\ \A f \in work[d].files : Rank[f.ver] \in Nat /\ f \in File
<1>1. \A f \in File : Rank[f.ver] \in Nat
  BY ConstantsAssumption DEF File
<1>2. \A k \in Kept : Rank[k.ver] \in Nat
  BY ConstantsAssumption DEF Kept
<1>3. work \in [Dirs -> DirState]
  BY WorkType
<1>. QED
  BY <1>1, <1>2, <1>3 DEF TypeOK, DirState

\* A slot is left as it is, or gets the file of a candidate in place of one of
\* its name.
LEMMA PlaceSteady ==
  ASSUME Steady, TypeOK, NEW d \in Dirs, NEW p \in Pkgs, PlaceSlot(d, p)
  PROVE  /\ IF run.full THEN out' = out ELSE building' = building
         /\ \A e \in Dirs : e # d => work'[e] = work[e]
         /\ work'[d].index = work[d].index
         /\ \/ work'[d].files = work[d].files /\ leaf' = leaf /\ kept' = kept
            \/ \E c \in Slot(d, p) :
                 /\ kept' = kept \union {[dir |-> d, pkg |-> p, ver |-> c.ver]}
                 /\ FileOf(c) \in work'[d].files
                 /\ \A f \in work[d].files :
                      f \in work'[d].files \/ (f.pkg = p /\ f.ver = c.ver)
                 /\ \A f \in work'[d].files : f \in work[d].files \/ f = FileOf(c)
                 /\ \/ work'[d].files = work[d].files /\ leaf' = leaf
                    \/ leaf' = leaf \union {d}
<1> DEFINE With(c) == (work[d].files \ Namesakes(d, {c})) \union {FileOf(c)}
<1>1. PICK bad, lost :
        /\ BadCandidates(bad, lost)
        /\ LET left == work[d].files \ Namesakes(d, lost)
           IN \/ \E c \in Slot(d, p) :
                   /\ IF InPlace(c, left)
                      THEN /\ SetWork([work EXCEPT ![d].files = left])
                           /\ UNCHANGED leaf
                      ELSE /\ SetWork([work EXCEPT ![d].files =
                                 (left \ Namesakes(d, {c})) \union {FileOf(c)}])
                           /\ leaf' = leaf \union {d}
                   /\ kept' = kept \union
                                {[dir |-> d, pkg |-> p, ver |-> c.ver]}
              \/ /\ SetWork([work EXCEPT ![d].files = left])
                 /\ UNCHANGED <<leaf, kept>>
  BY DEF PlaceSlot
<1>2. lost = {}
  BY <1>1 DEF BadCandidates, Steady
<1>3. work[d].files \ Namesakes(d, lost) = work[d].files
  BY <1>2 DEF Namesakes
<1>4. work \in [Dirs -> DirState] /\ run' = run
  BY WorkType DEF PlaceSlot
<1>5. ASSUME NEW F, SetWork([work EXCEPT ![d].files = F])
      PROVE  /\ IF run.full THEN out' = out ELSE building' = building
             /\ \A e \in Dirs : e # d => work'[e] = work[e]
             /\ work'[d].index = work[d].index /\ work'[d].files = F
  <2>1. work' = [work EXCEPT ![d].files = F]
    BY <1>4, <1>5 DEF SetWork, work
  <2>2. IF run.full THEN out' = out ELSE building' = building
    BY <1>5 DEF SetWork
  <2>. QED
    BY <1>4, <2>1, <2>2 DEF DirState
<1>6. ASSUME NEW c \in Slot(d, p)
      PROVE  /\ FileOf(c) \in With(c)
             /\ \A f \in work[d].files : f \in With(c) \/ (f.pkg = p /\ f.ver = c.ver)
             /\ \A f \in With(c) : f \in work[d].files \/ f = FileOf(c)
  <2>1. c.pkg = p
    BY DEF Slot
  <2>. QED
    BY <2>1 DEF Namesakes
<1>7. CASE SetWork([work EXCEPT ![d].files = work[d].files]) /\ UNCHANGED <<leaf, kept>>
  BY <1>5, <1>7
<1>8. ASSUME NEW c \in Slot(d, p), FileOf(c) \in work[d].files, UNCHANGED leaf,
             SetWork([work EXCEPT ![d].files = work[d].files])
      PROVE  /\ work'[d].files = work[d].files /\ leaf' = leaf
             /\ FileOf(c) \in work'[d].files
             /\ IF run.full THEN out' = out ELSE building' = building
             /\ \A e \in Dirs : e # d => work'[e] = work[e]
             /\ work'[d].index = work[d].index
  BY <1>5, <1>8
<1>9. ASSUME NEW c \in Slot(d, p), leaf' = leaf \union {d},
             SetWork([work EXCEPT ![d].files = With(c)])
      PROVE  /\ work'[d].files = With(c) /\ leaf' = leaf \union {d}
             /\ IF run.full THEN out' = out ELSE building' = building
             /\ \A e \in Dirs : e # d => work'[e] = work[e]
             /\ work'[d].index = work[d].index
  BY <1>5, <1>9
<1>10. \/ SetWork([work EXCEPT ![d].files = work[d].files]) /\ UNCHANGED <<leaf, kept>>
       \/ \E c \in Slot(d, p) :
            /\ kept' = kept \union {[dir |-> d, pkg |-> p, ver |-> c.ver]}
            /\ \/ /\ FileOf(c) \in work[d].files /\ UNCHANGED leaf
                  /\ SetWork([work EXCEPT ![d].files = work[d].files])
               \/ /\ leaf' = leaf \union {d}
                  /\ SetWork([work EXCEPT ![d].files = With(c)])
  BY <1>1, <1>3 DEF InPlace
<1> HIDE DEF With
<1>11. CASE \E c \in Slot(d, p) :
              /\ kept' = kept \union {[dir |-> d, pkg |-> p, ver |-> c.ver]}
              /\ \/ /\ FileOf(c) \in work[d].files /\ UNCHANGED leaf
                    /\ SetWork([work EXCEPT ![d].files = work[d].files])
                 \/ /\ leaf' = leaf \union {d}
                    /\ SetWork([work EXCEPT ![d].files = With(c)])
  <2>1. PICK c \in Slot(d, p) :
              /\ kept' = kept \union {[dir |-> d, pkg |-> p, ver |-> c.ver]}
              /\ \/ /\ FileOf(c) \in work[d].files /\ UNCHANGED leaf
                    /\ SetWork([work EXCEPT ![d].files = work[d].files])
                 \/ /\ leaf' = leaf \union {d}
                    /\ SetWork([work EXCEPT ![d].files = With(c)])
    BY <1>11
  <2>2. CASE /\ FileOf(c) \in work[d].files /\ UNCHANGED leaf
             /\ SetWork([work EXCEPT ![d].files = work[d].files])
    BY <1>8, <2>1, <2>2
  <2>3. CASE leaf' = leaf \union {d} /\ SetWork([work EXCEPT ![d].files = With(c)])
    BY <1>6, <1>9, <2>1, <2>3
  <2>. QED
    BY <2>1, <2>2, <2>3
<1>. QED
  BY <1>7, <1>10, <1>11

\* Pruning removes all that is superseded, and marks where it did.
LEMMA PruneSteady ==
  ASSUME Steady, TypeOK, Prune
  PROVE  /\ IF run.full THEN out' = out ELSE building' = building
         /\ \A d \in Dirs :
              /\ work'[d].index = work[d].index
              /\ work'[d].files = {f \in work[d].files : <<d, f>> \notin Superseded}
         /\ leaf' = leaf \union Marked(Superseded)
<1>1. /\ SetWork([d \in Dirs |-> [work[d] EXCEPT
                    !.files = {f \in @ : <<d, f>> \notin Superseded}]])
      /\ leaf' = leaf \union Marked(Superseded)
  BY DEF Prune, Steady
<1>2. work \in [Dirs -> DirState] /\ run' = run
  BY WorkType DEF Prune
<1>3. work' = [d \in Dirs |-> [work[d] EXCEPT
                 !.files = {f \in @ : <<d, f>> \notin Superseded}]]
  BY <1>1, <1>2 DEF SetWork, work
<1>4. IF run.full THEN out' = out ELSE building' = building
  BY <1>1 DEF SetWork
<1>. QED
  BY <1>1, <1>2, <1>3, <1>4 DEF DirState

\* Release dirs go as a whole.
LEMMA ReleasesSteady ==
  ASSUME "prune" \notin Faults, TypeOK, PruneReleases
  PROVE  /\ building' = building
         /\ \A d \in Dirs : \/ out'[d] = NoDir /\ ~run.full /\ d \notin run.carried
                            \/ /\ out'[d].files = out[d].files
                               /\ out'[d].index = out[d].index
                               /\ out'[d].sig = out[d].sig
<1>1. CASE run.full
  BY <1>1 DEF PruneReleases
<1>2. CASE ~run.full
  <2>1. PICK stuck \in SUBSET Stale(work) :
          \E lost \in SUBSET {x \in stuck \X File : x[2] \in work[x[1]].files} :
          \E noIndex \in SUBSET stuck : \E noSig \in SUBSET stuck :
            /\ stuck # {} => "prune" \in Faults
            /\ gone' = Stale(work) \ stuck
            /\ SetWork([e \in Dirs |->
                          IF e \in Stale(work) \ stuck THEN NoDir
                          ELSE Leftover(lost, noIndex, noSig)[e]])
    BY <1>2 DEF PruneReleases
  <2>2. stuck = {}
    BY <2>1
  <2>3. SetWork([e \in Dirs |-> IF e \in Stale(work) THEN NoDir
                                ELSE Leftover({}, {}, {})[e]])
    <3>1. PICK lost \in SUBSET {x \in stuck \X File : x[2] \in work[x[1]].files} :
            \E noIndex \in SUBSET stuck : \E noSig \in SUBSET stuck :
              SetWork([e \in Dirs |->
                            IF e \in Stale(work) \ stuck THEN NoDir
                            ELSE Leftover(lost, noIndex, noSig)[e]])
      BY <2>1
    <3>2. lost = {} /\ Stale(work) \ stuck = Stale(work)
      BY <2>2
    <3>. QED
      BY <3>1, <3>2
  <2>4. /\ building' = building
        /\ out' = [e \in Dirs |-> IF e \in Stale(out) THEN NoDir
                                  ELSE Leftover({}, {}, {})[e]]
    BY <1>2, <2>3 DEF SetWork, work
  <2>5. \A d \in Dirs : LET l == Leftover({}, {}, {})[d]
                        IN  l.files = out[d].files /\ l.index = out[d].index /\ l.sig = out[d].sig
    BY <1>2 DEF Leftover, work
  <2>6. Stale(out) \cap run.carried = {}
    BY DEF Stale
  <2>. QED
    BY <1>2, <2>4, <2>5, <2>6
<1>. QED
  BY <1>1, <1>2

\* A dir whose index could not be made is as it was, and could not be indexed.
LEMMA FailsSteady ==
  ASSUME "index" \notin Faults, NEW d \in Dirs, IndexLeafFails(d)
  PROVE  ~Indexable(d) /\ UNCHANGED <<out, building>>
BY DEF IndexLeafFails

\* A run changes the tree it works on; the other one stays.
OneTree == run' = run /\ IF run.full THEN out' = out ELSE building' = building

\* What keeps MarkedInv through a step of a run.
LEMMA MarkedFrom ==
  ASSUME MarkedInv, OneTree, pc # "idle", pc' # "idle", cands' = cands,
         \A d \in Dirs : \A f \in work'[d].files : f.sum # Torn,
         \A d \in Dirs : \/ Described(work'[d])
                         \/ /\ d \in leaf'
                            /\ work'[d].files # {}
                            /\ d \in Apk => run.apkTool
  PROVE  MarkedInv'
<1>1. run.full => out' = out
  BY DEF OneTree
<1>2. ~run.full => out' = work'
  BY DEF OneTree, work
<1>3. run' = run
  BY DEF OneTree
<1>4. \A d \in Dirs : \A f \in out'[d].files : f.sum # Torn
  BY <1>1, <1>2 DEF MarkedInv
<1>5. run.full => \A d \in Dirs : Described(out'[d])
  BY <1>1 DEF MarkedInv
<1>. QED
  BY <1>3, <1>4, <1>5 DEF MarkedInv, Described

-----------------------------------------------------------------------------
(* Placing.                                                                *)

\* A dir that changes is marked, and has the file that was placed in it.
LEMMA PlaceMarks ==
  ASSUME Steady, TypeOK, MarkedInv, NEW d \in Dirs, NEW p \in Pkgs, PlaceSlot(d, p)
  PROVE  MarkedInv'
<1>1. /\ pc = "place" /\ pc' = "place" /\ cands' = cands /\ run' = run
  BY DEF PlaceSlot
<1>2. OneTree
  BY <1>1, PlaceSteady DEF OneTree
<1>3. \A c \in Slot(d, p) : c \in cands /\ c.dir = d /\ FileOf(c).sum # Torn
  BY ConstantsAssumption DEF Slot, FileOf, TypeOK, Candidate
<1>4. \A f \in work'[d].files : f \in work[d].files \/ \E c \in Slot(d, p) : f = FileOf(c)
  BY PlaceSteady
<1>5. ASSUME NEW e \in Dirs, NEW f \in work'[e].files
      PROVE  f.sum # Torn
  <2>1. CASE e = d
    BY <1>1, <1>3, <1>4, <1>5, <2>1 DEF MarkedInv
  <2>2. CASE e # d
    BY <1>1, <1>5, <2>2, PlaceSteady DEF MarkedInv
  <2>. QED
    BY <2>1, <2>2
<1>6. \/ work'[d].files = work[d].files /\ leaf' = leaf
      \/ /\ \E c \in Slot(d, p) : FileOf(c) \in work'[d].files
         /\ leaf' = leaf \union {d}
  <2>1. CASE work'[d].files = work[d].files /\ leaf' = leaf
    BY <2>1
  <2>2. CASE ~(work'[d].files = work[d].files /\ leaf' = leaf)
    BY <2>2, PlaceSteady
  <2>. QED
    BY <2>1, <2>2
<1>7. ASSUME NEW e \in Dirs
      PROVE  \/ Described(work'[e])
             \/ e \in leaf' /\ work'[e].files # {} /\ (e \in Apk => run.apkTool)
  <2>0. leaf \subseteq leaf'
    BY <1>6
  <2>1. CASE e # d
    BY <1>1, <2>0, <2>1, PlaceSteady DEF MarkedInv
  <2>2. CASE e = d /\ work'[d].files = work[d].files
    BY <1>1, <2>0, <2>2, PlaceSteady DEF MarkedInv, Described
  <2>3. CASE e = d /\ work'[d].files # work[d].files
    BY <1>1, <1>3, <1>6, <2>3 DEF MarkedInv
  <2>. QED
    BY <2>1, <2>2, <2>3
<1>. QED
  BY <1>1, <1>2, <1>5, <1>7, MarkedFrom

\* A slot keeps the file it was given; other slots do not touch it.
LEMMA PlacePlaces ==
  ASSUME Steady, TypeOK, PlacedInv, NEW d \in Dirs, NEW p \in Pkgs, PlaceSlot(d, p)
  PROVE  PlacedInv'
<1>1. /\ pc = "place" /\ pc' = "place" /\ cands' = cands /\ run' = run
      /\ slots' = slots \ {<<d, p>>} /\ <<d, p>> \in slots
  BY DEF PlaceSlot, SlotsLeft
<1>2. \A k \in kept : ~(k.dir = d /\ k.pkg = p)
  BY <1>1 DEF PlacedInv
<1>3. ASSUME NEW k \in kept
      PROVE  \E c \in cands : /\ c.dir = k.dir /\ c.pkg = k.pkg /\ c.ver = k.ver
                              /\ FileOf(c) \in work'[k.dir].files
  <2>1. PICK c \in cands : /\ c.dir = k.dir /\ c.pkg = k.pkg /\ c.ver = k.ver
                           /\ FileOf(c) \in work[k.dir].files
    BY <1>1 DEF PlacedInv
  <2>2. k.dir \in Dirs
    BY DEF TypeOK, Kept
  <2>3. CASE k.dir # d
    BY <2>1, <2>2, <2>3, PlaceSteady
  <2>4. CASE k.dir = d
    <3>1. FileOf(c).pkg # p
      BY <1>2, <2>1, <2>4 DEF FileOf
    <3>2. FileOf(c) \in work'[d].files
      BY <2>1, <2>4, <3>1, PlaceSteady
    <3>. QED
      BY <2>1, <2>4, <3>2
  <2>. QED
    BY <2>3, <2>4
<1>4. CASE kept' = kept
  BY <1>1, <1>3, <1>4 DEF PlacedInv
<1>5. ASSUME NEW c \in Slot(d, p), FileOf(c) \in work'[d].files,
             kept' = kept \union {[dir |-> d, pkg |-> p, ver |-> c.ver]}
      PROVE  PlacedInv'
  <2>1. c \in cands /\ c.dir = d /\ c.pkg = p
    BY DEF Slot
  <2>2. \A k \in kept' : k \in kept \/ k = [dir |-> d, pkg |-> p, ver |-> c.ver]
    BY <1>5
  <2>3. \A k \in kept' : <<k.dir, k.pkg>> \notin slots'
    <3>1. \A k \in kept : <<k.dir, k.pkg>> \notin slots'
      BY <1>1 DEF PlacedInv
    <3>2. <<d, p>> \notin slots'
      BY <1>1
    <3>3. \A k : k = [dir |-> d, pkg |-> p, ver |-> c.ver] => k.dir = d /\ k.pkg = p
      OBVIOUS
    <3>. QED
      BY <2>2, <3>1, <3>2, <3>3
  <2>4. \A k, l \in kept' : k.dir = l.dir /\ k.pkg = l.pkg => k = l
    BY <1>2, <2>2 DEF PlacedInv
  <2>5. \A k \in kept' : \E x \in cands : /\ x.dir = k.dir /\ x.pkg = k.pkg /\ x.ver = k.ver
                                          /\ FileOf(x) \in work'[k.dir].files
    BY <1>3, <1>5, <2>1, <2>2
  <2>. QED
    BY <1>1, <2>3, <2>4, <2>5 DEF PlacedInv, FileOf
<1>6. \/ kept' = kept
      \/ \E c \in Slot(d, p) : /\ kept' = kept \union {[dir |-> d, pkg |-> p, ver |-> c.ver]}
                               /\ FileOf(c) \in work'[d].files
  <2>1. CASE kept' = kept
    BY <2>1
  <2>2. CASE kept' # kept
    BY <2>2, PlaceSteady
  <2>. QED
    BY <2>1, <2>2
<1>. QED
  BY <1>4, <1>5, <1>6

\* A file is replaced by one of its own name.
LEMMA PlaceNewer ==
  ASSUME Steady, TypeOK, NewerInv, NEW d \in Dirs, NEW p \in Pkgs, PlaceSlot(d, p)
  PROVE  NewerInv'
<1>1. /\ pc = "place" /\ pc' = "place" /\ run' = run
  BY DEF PlaceSlot
<1>2. SUFFICES ASSUME ~run.full, NEW e \in run.carried, NEW f \in out'[e].index
               PROVE  \E g \in out'[e].files : g.pkg = f.pkg /\ Rank[g.ver] >= Rank[f.ver]
  BY <1>1 DEF NewerInv
<1>3. e \in Dirs /\ work = out /\ work' = out'
  BY <1>1, <1>2 DEF TypeOK, RunType, work
<1>4. out'[e].index = out[e].index
  BY PlaceLeavesIndex, <1>3
<1>5. PICK g \in out[e].files : g.pkg = f.pkg /\ Rank[g.ver] >= Rank[f.ver]
  BY <1>1, <1>2, <1>4 DEF NewerInv
<1>6. CASE g \in out'[e].files
  BY <1>5, <1>6
<1>7. CASE g \notin out'[e].files
  <2>1. e = d
    BY <1>3, <1>7, PlaceSteady
  <2>2. PICK c \in Slot(d, p) : /\ FileOf(c) \in out'[d].files
                                /\ g.pkg = p /\ g.ver = c.ver
    BY <1>3, <1>7, <2>1, PlaceSteady
  <2>3. FileOf(c).pkg = p /\ FileOf(c).ver = g.ver
    BY <2>2 DEF FileOf, Slot
  <2>. QED
    BY <1>5, <2>1, <2>2, <2>3
<1>. QED
  BY <1>6, <1>7

-----------------------------------------------------------------------------
(* Pruning.                                                                *)

\* The file of what a run keeps is not superseded.
LEMMA KeptRemains ==
  ASSUME Steady, TypeOK, PlacedInv, Prune, NEW k \in kept
  PROVE  \E c \in cands : /\ c.dir = k.dir /\ c.pkg = k.pkg /\ c.ver = k.ver
                          /\ FileOf(c) \in work'[k.dir].files
<1>1. pc = "prune"
  BY DEF Prune
<1>2. PICK c \in cands : /\ c.dir = k.dir /\ c.pkg = k.pkg /\ c.ver = k.ver
                         /\ FileOf(c) \in work[k.dir].files
  BY <1>1 DEF PlacedInv
<1>3. k.dir \in Dirs /\ Rank[k.ver] \in Nat
  BY Ranked DEF TypeOK, Kept
<1>4. <<k.dir, FileOf(c)>> \notin Superseded
  <2> SUFFICES ASSUME NEW l \in kept, l.dir = k.dir, Older(FileOf(c), l)
               PROVE  FALSE
    BY DEF Superseded
  <2>1. l.pkg = k.pkg /\ Rank[k.ver] < Rank[l.ver]
    BY <1>2 DEF Older, FileOf
  <2>2. l = k
    BY <2>1 DEF PlacedInv
  <2>. QED
    BY <1>3, <2>1, <2>2
<1>. QED
  BY <1>2, <1>3, <1>4, PruneSteady

\* A dir that loses a file is marked, and still has what the run keeps there.
LEMMA PruneMarks ==
  ASSUME Steady, TypeOK, KeptInv, MarkedInv, PlacedInv, Prune
  PROVE  MarkedInv'
<1>1. pc = "prune" /\ pc' = "releases" /\ run' = run /\ cands' = cands
  BY DEF Prune
<1>2. OneTree
  BY <1>1, PruneSteady DEF OneTree
<1>3. \A d \in Dirs : work'[d].files \subseteq work[d].files
  BY PruneSteady
<1>4. \A d \in Dirs : \A f \in work'[d].files : f.sum # Torn
  BY <1>1, <1>3 DEF MarkedInv
<1>5. ASSUME NEW d \in Dirs
      PROVE  \/ Described(work'[d])
             \/ d \in leaf' /\ work'[d].files # {} /\ (d \in Apk => run.apkTool)
  <2>1. CASE \E f \in work[d].files : <<d, f>> \in Superseded
    <3>1. PICK f \in work[d].files : <<d, f>> \in Superseded
      BY <2>1
    <3>2. PICK k \in kept : k.dir = d
      BY <3>1 DEF Superseded
    <3>3. PICK c \in cands : c.dir = d /\ FileOf(c) \in work'[d].files
      BY <3>2, KeptRemains
    <3>4. d \in leaf'
      BY <3>1, PruneSteady DEF Marked
    <3>. QED
      BY <1>1, <3>3, <3>4 DEF MarkedInv
  <2>2. CASE ~\E f \in work[d].files : <<d, f>> \in Superseded
    <3>1. work'[d].files = work[d].files /\ work'[d].index = work[d].index
      BY <2>2, PruneSteady
    <3>2. leaf \subseteq leaf'
      BY PruneSteady
    <3>. QED
      BY <1>1, <3>1, <3>2 DEF MarkedInv, Described
  <2>. QED
    BY <2>1, <2>2
<1>. QED
  BY <1>1, <1>2, <1>4, <1>5, MarkedFrom

\* What is left is as new as what the run keeps.
LEMMA PrunePlaces ==
  ASSUME Steady, TypeOK, MarkedInv, PlacedInv, Prune
  PROVE  PlacedInv'
<1>1. /\ pc = "prune" /\ pc' = "releases" /\ run' = run /\ cands' = cands
      /\ kept' = kept /\ slots' = slots
  BY DEF Prune
<1>2. ASSUME NEW k \in kept, NEW f \in work'[k.dir].files, f.pkg = k.pkg
      PROVE  Rank[f.ver] >= Rank[k.ver]
  <2>1. k.dir \in Dirs
    BY DEF TypeOK, Kept
  <2>2. f \in work[k.dir].files /\ <<k.dir, f>> \notin Superseded
    BY <1>2, <2>1, PruneSteady
  <2>3. f.sum # Torn /\ f \in File /\ Rank[f.ver] \in Nat /\ Rank[k.ver] \in Nat
    BY <1>1, <2>1, <2>2, Ranked DEF MarkedInv
  <2>4. ~Older(f, k)
    BY <2>1, <2>2, <2>3 DEF Superseded
  <2>. QED
    BY <1>2, <2>3, <2>4 DEF Older
<1>3. \A k \in kept : \E c \in cands : /\ c.dir = k.dir /\ c.pkg = k.pkg /\ c.ver = k.ver
                                       /\ FileOf(c) \in work'[k.dir].files
  BY KeptRemains
<1>. QED
  BY <1>1, <1>2, <1>3 DEF PlacedInv, FileOf

\* A file that goes is older than the one the run keeps.
LEMMA PruneNewer ==
  ASSUME Steady, TypeOK, PlacedInv, NewerInv, Prune
  PROVE  NewerInv'
<1>1. /\ pc = "prune" /\ pc' = "releases" /\ run' = run
  BY DEF Prune
<1>2. SUFFICES ASSUME ~run.full, NEW e \in run.carried, NEW f \in out'[e].index
               PROVE  \E g \in out'[e].files : g.pkg = f.pkg /\ Rank[g.ver] >= Rank[f.ver]
  BY <1>1 DEF NewerInv
<1>3. e \in Dirs /\ work = out /\ work' = out'
  BY <1>1, <1>2 DEF TypeOK, RunType, work
<1>4. f \in out[e].index
  BY <1>2, <1>3, PruneLeavesIndex
<1>5. PICK g \in out[e].files : g.pkg = f.pkg /\ Rank[g.ver] >= Rank[f.ver]
  BY <1>1, <1>2, <1>4 DEF NewerInv
<1>6. CASE g \in out'[e].files
  BY <1>5, <1>6
<1>7. CASE g \notin out'[e].files
  <2>1. <<e, g>> \in Superseded
    BY <1>3, <1>5, <1>7, PruneSteady
  <2>2. PICK k \in kept : k.dir = e /\ g.pkg = k.pkg /\ Rank[g.ver] < Rank[k.ver]
    BY <2>1 DEF Superseded, Older
  <2>3. PICK c \in cands : /\ c.pkg = k.pkg /\ c.ver = k.ver
                           /\ FileOf(c) \in out'[e].files
    BY <1>3, <2>2, KeptRemains
  <2>4. FileOf(c).pkg = f.pkg /\ FileOf(c).ver = k.ver
    BY <1>5, <2>2, <2>3 DEF FileOf
  <2>5. Rank[f.ver] \in Nat /\ Rank[g.ver] \in Nat /\ Rank[k.ver] \in Nat
    BY <1>3, <1>4, Ranked
  <2>6. Rank[k.ver] >= Rank[f.ver]
    BY <1>5, <2>2, <2>5
  <2>. QED
    BY <2>3, <2>4, <2>6
<1>. QED
  BY <1>6, <1>7

-----------------------------------------------------------------------------
(* The other phases, and the end of a run.                                 *)

\* Removing release dirs leaves those the layout carries, and no index where it
\* removes files.
LEMMA ReleasesKeep ==
  ASSUME Steady, TypeOK, SteadyInv, PruneReleases
  PROVE  SteadyInv'
<1>1. /\ pc = "releases" /\ pc' = "signing" /\ run' = run
      /\ UNCHANGED <<cands, slots, kept, leaf>>
  BY DEF PruneReleases
<1>2. run.carried \subseteq Dirs /\ \A k \in kept : k.dir \in Dirs
  BY DEF TypeOK, RunType, Kept
<1>3. CASE run.full
  <2>1. out' = out /\ building' = building
    BY <1>3, ReleasesEffect
  <2>2. work' = work
    BY <1>1, <2>1 DEF work
  <2>. QED
    BY <1>1, <1>3, <2>1, <2>2 DEF SteadyInv, MarkedInv, PlacedInv, NewerInv
<1>4. CASE ~run.full
  <2>1. work = out /\ work' = out' /\ building' = building
    BY <1>1, <1>4, ReleasesSteady DEF Steady, work
  <2>2. \A d \in Dirs : \/ out'[d] = NoDir /\ d \notin run.carried
                        \/ out'[d].files = out[d].files /\ out'[d].index = out[d].index
    BY ReleasesSteady DEF Steady
  <2>3. MarkedInv'
    <3>1. OneTree
      BY <1>1, <1>4, <2>1 DEF OneTree
    <3>2. \A d \in Dirs : \A f \in out'[d].files : f.sum # Torn
      BY <2>2 DEF NoDir, SteadyInv, MarkedInv
    <3>3. ASSUME NEW d \in Dirs
          PROVE  \/ Described(out'[d])
                 \/ d \in leaf' /\ out'[d].files # {} /\ (d \in Apk => run.apkTool)
      <4>1. CASE out'[d] = NoDir
        BY <4>1 DEF NoDir, Described
      <4>2. CASE out'[d].files = out[d].files /\ out'[d].index = out[d].index
        BY <1>1, <2>1, <4>2 DEF SteadyInv, MarkedInv, Described
      <4>. QED
        BY <2>2, <4>1, <4>2
    <3>. QED
      BY <1>1, <2>1, <3>1, <3>2, <3>3, MarkedFrom DEF SteadyInv
  <2>4. PlacedInv'
    BY <1>1, <1>2, <2>1, <2>2 DEF NoDir, SteadyInv, PlacedInv, FileOf
  <2>5. NewerInv'
    BY <1>1, <1>2, <2>2 DEF SteadyInv, NewerInv
  <2>. QED
    BY <2>3, <2>4, <2>5 DEF SteadyInv
<1>. QED
  BY <1>3, <1>4

\* Indexing a dir lists what is in it.
LEMMA IndexKeeps ==
  ASSUME Steady, TypeOK, SteadyInv, NEW d \in Dirs, IndexLeaf(d)
  PROVE  SteadyInv'
<1>1. /\ pc = "index" /\ pc' = "index" /\ run' = run /\ leaf' = leaf \ {d}
      /\ UNCHANGED <<cands, slots, kept>>
  BY DEF IndexLeaf
<1>2. OneTree /\ \A e \in Dirs : work'[e].files = work[e].files
  BY <1>1, IndexLeafEffect DEF OneTree
<1>3. Described(work'[d])
  BY IndexLeafEffect DEF Described
<1>4. \A e \in Dirs : e # d => work'[e] = work[e]
  BY IndexLeafEffect
<1>5. MarkedInv'
  <2>1. \A e \in Dirs : \A f \in work'[e].files : f.sum # Torn
    BY <1>1, <1>2 DEF SteadyInv, MarkedInv
  <2>2. \A e \in Dirs : \/ Described(work'[e])
                        \/ e \in leaf' /\ work'[e].files # {} /\ (e \in Apk => run.apkTool)
    BY <1>1, <1>3, <1>4 DEF SteadyInv, MarkedInv
  <2>. QED
    BY <1>1, <1>2, <2>1, <2>2, MarkedFrom DEF SteadyInv
<1>6. PlacedInv'
  <2>1. \A k \in kept : work'[k.dir].files = work[k.dir].files
    BY <1>2 DEF TypeOK, Kept
  <2>. QED
    BY <1>1, <2>1 DEF SteadyInv, PlacedInv, FileOf
<1>7. NewerInv'
  <2> SUFFICES ASSUME ~run.full, NEW e \in run.carried, NEW f \in out'[e].index
               PROVE  \E g \in out'[e].files : g.pkg = f.pkg /\ Rank[g.ver] >= Rank[f.ver]
    BY <1>1 DEF NewerInv
  <2>1. e \in Dirs /\ work = out /\ work' = out'
    BY <1>1 DEF TypeOK, RunType, work
  <2>2. CASE e = d
    <3>1. f \in out'[d].files /\ f \in out[d].files
      BY <1>2, <1>3, <2>1, <2>2 DEF Described
    <3>2. Rank[f.ver] \in Nat
      BY <3>1, Ranked
    <3>. QED
      BY <2>2, <3>1, <3>2
  <2>3. CASE e # d
    BY <1>1, <1>4, <2>1, <2>3 DEF SteadyInv, NewerInv
  <2>. QED
    BY <2>2, <2>3
<1>. QED
  BY <1>5, <1>6, <1>7 DEF SteadyInv

\* A dir whose index cannot be made has the right one: it is not one the run
\* has marked for a change.
LEMMA FailsKeep ==
  ASSUME Steady, TypeOK, SteadyInv, NEW d \in Dirs, IndexLeafFails(d)
  PROVE  SteadyInv'
<1>1. /\ pc = "index" /\ pc' = "index" /\ run' = run /\ leaf' = leaf \ {d}
      /\ UNCHANGED <<cands, slots, kept>> /\ UNCHANGED <<out, building>>
  BY FailsSteady DEF Steady, IndexLeafFails
<1>2. work' = work
  BY <1>1 DEF work
<1>3. Described(work[d])
  BY <1>1, FailsSteady DEF Steady, Indexable, SteadyInv, MarkedInv
<1>4. MarkedInv'
  BY <1>1, <1>2, <1>3 DEF SteadyInv, MarkedInv, Described
<1>. QED
  BY <1>1, <1>2, <1>4 DEF SteadyInv, PlacedInv, NewerInv, FileOf

\* Steps that move on and leave the trees.
LEMMA MovesKeep ==
  ASSUME SteadyInv, EndPlace \/ Signing \/ EndIndex \/ StageHelpers \/ UNCHANGED vars
  PROVE  SteadyInv'
<1>1. /\ UNCHANGED <<out, building, run, cands, kept, slots>> /\ leaf \subseteq leaf'
      /\ pc = "idle" <=> pc' = "idle"
      /\ pc \in {"place", "prune"} <=> pc' \in {"place", "prune"}
  BY DEF EndPlace, Signing, EndIndex, StageHelpers, vars
<1>2. work' = work
  BY <1>1 DEF work
<1>. QED
  BY <1>1, <1>2 DEF SteadyInv, MarkedInv, PlacedInv, NewerInv, FileOf

\* Between runs it is about the served tree only.
LEMMA IdleKeeps ==
  ASSUME NEW how, EndRun(how),
         \A d \in Dirs : Described(out'[d]) /\ \A f \in out'[d].files : f.sum # Torn
  PROVE  SteadyInv'
<1>1. pc' = "idle" /\ kept' = {}
  BY DEF EndRun
<1>. QED
  BY <1>1 DEF SteadyInv, MarkedInv, PlacedInv, NewerInv, Described

\* At the end of a run nothing is left marked, so the served tree is described
\* whether it is the one the run worked on or not.
LEMMA EndKeeps ==
  ASSUME IInv, SteadyInv,
         RefuseRun \/ KeepPrevious \/ SwapFails \/ Helpers \/ HelpersFail \/ Swap
  PROVE  SteadyInv'
<1>1. \E how : EndRun(how)
  BY DEF RefuseRun, KeepPrevious, SwapFails, Helpers, HelpersFail, Swap, Fail
<1>2. CASE pc = "idle" \/ run.full
  <2>1. \A d \in Dirs : Described(out[d]) /\ \A f \in out[d].files : f.sum # Torn
    BY <1>2 DEF SteadyInv, MarkedInv
  <2>2. CASE ~Swap
    <3>1. out' = out
      BY <2>2 DEF RefuseRun, KeepPrevious, SwapFails, Helpers, HelpersFail, Fail
    <3>. QED
      BY <1>1, <2>1, <3>1, IdleKeeps
  <2>3. CASE Swap
    <3>1. pc = "swap" /\ run.full /\ leaf = {} /\ out' = building
      BY <2>3 DEF Swap, IInv, RunInv, EndInv
    <3>2. \A d \in Dirs : Described(out'[d]) /\ \A f \in out'[d].files : f.sum # Torn
      BY <3>1 DEF SteadyInv, MarkedInv, work
    <3>. QED
      BY <1>1, <3>2, IdleKeeps
  <2>. QED
    BY <2>2, <2>3
<1>3. CASE pc # "idle" /\ ~run.full
  <2>1. Helpers \/ HelpersFail
    BY <1>3 DEF RefuseRun, KeepPrevious, Rejected, SwapFails, Swap, IInv, RunInv, EndInv
  <2>2. pc = "helpers" /\ out' = out
    BY <2>1 DEF Helpers, HelpersFail, Fail
  <2>3. leaf = {}
    BY <2>2 DEF IInv, RunInv, EndInv
  <2>4. \A d \in Dirs : Described(out'[d]) /\ \A f \in out'[d].files : f.sum # Torn
    BY <1>3, <2>2, <2>3 DEF SteadyInv, MarkedInv, work
  <2>. QED
    BY <1>1, <2>4, IdleKeeps
<1>. QED
  BY <1>2, <1>3

\* A run starts with nothing placed and nothing to describe but what is there.
LEMMA StartKeeps ==
  ASSUME TypeOK, SteadyInv, KeptInv, StartRun
  PROVE  SteadyInv'
<1>1. /\ pc = "idle" /\ pc' = "place" /\ out' = out /\ kept' = {}
      /\ run'.full => building' = NoTree
      /\ \A c \in cands' : c.dir \in Apk => run'.apkTool
  BY DEF StartRun, Staging, KeptInv
<1>2. \A d \in Dirs : Described(out[d]) /\ \A f \in out[d].files : f.sum # Torn
  BY <1>1 DEF SteadyInv, MarkedInv
<1>3. \A d \in Dirs : Described(NoTree[d]) /\ NoTree[d].files = {}
  BY DEF NoTree, NoDir, Described
<1>4. \A d \in Dirs : Described(work'[d]) /\ \A f \in work'[d].files : f.sum # Torn
  BY <1>1, <1>2, <1>3 DEF work
<1>5. MarkedInv'
  BY <1>1, <1>2, <1>4 DEF MarkedInv, Described
<1>6. run'.carried \subseteq Dirs
  BY ConstantsAssumption DEF StartRun
<1>7. NewerInv'
  <2> SUFFICES ASSUME NEW e \in run'.carried, NEW f \in out'[e].index
               PROVE  \E g \in out'[e].files : g.pkg = f.pkg /\ Rank[g.ver] >= Rank[f.ver]
    BY DEF NewerInv
  <2>1. f \in out'[e].files /\ Rank[f.ver] \in Nat
    BY <1>1, <1>2, <1>6, Ranked DEF Described
  <2>. QED
    BY <2>1
<1>. QED
  BY <1>1, <1>5, <1>7 DEF SteadyInv, PlacedInv

\* No step of a run of this kind ends it earlier.
LEMMA NoOtherEnd ==
  ASSUME Steady
  PROVE  ~SigningFails /\ ~ReindexFails /\ ~Killed
BY DEF Steady, SigningFails, ReindexFails, Killed, Crash, CrashCopying, CrashIndexing

\* The invariant of such runs.
LEMMA SteadyInvariance ==
  ASSUME Steady
  PROVE  Spec => [](IInv /\ KeptInv /\ SteadyInv)
<1>1. Init => KeptInv /\ SteadyInv
  <2>1. \A d \in Dirs : Described(NoTree[d]) /\ NoTree[d].files = {}
    BY DEF NoTree, NoDir, Described
  <2>. QED
    BY <2>1 DEF Init, KeptInv, SteadyInv, MarkedInv, PlacedInv, NewerInv
<1>2. IInv /\ KeptInv /\ SteadyInv /\ [Next]_vars => SteadyInv'
  <2> SUFFICES ASSUME IInv, KeptInv, SteadyInv, [Next]_vars
               PROVE  SteadyInv'
    OBVIOUS
  <2>0. TypeOK
    BY DEF IInv
  <2>1. ASSUME NEW d \in Dirs, NEW p \in Pkgs, PlaceSlot(d, p)
        PROVE  SteadyInv'
    BY <2>0, <2>1, PlaceMarks, PlacePlaces, PlaceNewer DEF SteadyInv
  <2>2. CASE Prune
    BY <2>0, <2>2, PruneMarks, PrunePlaces, PruneNewer DEF SteadyInv
  <2>3. CASE PruneReleases
    BY <2>0, <2>3, ReleasesKeep
  <2>4. ASSUME NEW d \in Dirs, IndexLeaf(d) \/ IndexLeafFails(d)
        PROVE  SteadyInv'
    BY <2>0, <2>4, IndexKeeps, FailsKeep
  <2>5. CASE StartRun
    BY <2>0, <2>5, StartKeeps
  <2>. QED
    BY <2>1, <2>2, <2>3, <2>4, <2>5, MovesKeep, EndKeeps, NoOtherEnd DEF Next, Step
<1>. QED
  BY <1>1, <1>2, KeptStep, Invariance, PTL DEF Spec

-----------------------------------------------------------------------------
(* What it gives.                                                          *)

\* placeSlot, prune, pruneReleases and indexLeafs: between runs of this kind
\* every index lists exactly the package files of its dir, for any dirs,
\* packages, sources that come and go, layouts and flags.
THEOREM IndexMatchesCorrect == ASSUME Steady PROVE Spec => []IndexMatchesTree
<1>1. SteadyInv => IndexMatchesTree
  BY DEF SteadyInv, MarkedInv, IndexMatchesTree
<1>. QED
  BY <1>1, SteadyInvariance, PTL

\* placeSlot and supersededFile: no step of an incremental run of this kind
\* takes a package from a served index or replaces it by an older one.
THEOREM NoDowngradeCorrect == ASSUME Steady PROVE Spec => NoDowngrade
<1> DEFINE A == ~run.full =>
                  \A d \in run.carried : \A f \in out[d].index :
                     \E g \in out'[d].index : g.pkg = f.pkg /\ Rank[g.ver] >= Rank[f.ver]
<1>1. IInv /\ SteadyInv /\ [Next]_vars => [A]_vars
  <2> SUFFICES ASSUME IInv, SteadyInv, Next, ~run.full,
                      NEW d \in run.carried, NEW f \in out[d].index
               PROVE  \E g \in out'[d].index : g.pkg = f.pkg /\ Rank[g.ver] >= Rank[f.ver]
    OBVIOUS
  <2>0. TypeOK /\ d \in Dirs /\ work = out
    BY DEF IInv, TypeOK, RunType, work
  <2>1. Rank[f.ver] \in Nat
    BY <2>0, Ranked
  <2>2. CASE out'[d].index = out[d].index
    BY <2>1, <2>2
  <2>3. ASSUME NEW e \in Dirs, NEW p \in Pkgs, PlaceSlot(e, p)
        PROVE  out'[d].index = out[d].index
    BY <2>0, <2>3, PlaceLeavesIndex
  <2>4. CASE Prune
    BY <2>0, <2>2, <2>4, PruneLeavesIndex
  <2>5. CASE PruneReleases
    BY <2>0, <2>2, <2>5, CarriedStay
  <2>6. ASSUME NEW e \in Dirs, IndexLeaf(e)
        PROVE  \E g \in out'[d].index : g.pkg = f.pkg /\ Rank[g.ver] >= Rank[f.ver]
    <3>1. pc # "idle" /\ run' = run
      BY <2>6 DEF IndexLeaf
    <3>2. work' = out'
      BY <3>1 DEF work
    <3>3. PICK g \in out[d].files : g.pkg = f.pkg /\ Rank[g.ver] >= Rank[f.ver]
      BY <3>1 DEF SteadyInv, NewerInv
    <3>4. CASE d = e
      BY <2>0, <2>6, <3>2, <3>3, <3>4, IndexLeafEffect
    <3>5. CASE d # e
      BY <2>0, <2>2, <2>6, <3>2, <3>5, IndexLeafEffect
    <3>. QED
      BY <3>4, <3>5
  <2>7. ASSUME NEW e \in Dirs, IndexLeafFails(e)
        PROVE  out' = out
    BY <2>7, FailsSteady DEF Steady
  <2>8. ~Swap
    BY DEF Swap, IInv, RunInv, EndInv
  <2>9. CASE \/ StartRun \/ RefuseRun \/ EndPlace \/ Signing \/ KeepPrevious \/ EndIndex
             \/ Helpers \/ StageHelpers \/ HelpersFail \/ SwapFails
    <3>1. out' = out
      BY <2>9 DEF StartRun, RefuseRun, EndPlace, Signing, KeepPrevious, EndIndex, Helpers,
         StageHelpers, HelpersFail, SwapFails, Fail
    <3>. QED
      BY <2>2, <3>1
  <2>. QED
    BY <2>2, <2>3, <2>4, <2>5, <2>6, <2>7, <2>8, <2>9, NoOtherEnd DEF Next, Step
<1>. QED
  BY <1>1, SteadyInvariance, PTL DEF Spec, NoDowngrade

\* With sources that name listed releases only, packages go to dirs the layout
\* carries.
CarriedInv == pc # "idle" => \A c \in cands : c.dir \in run.carried

\* The layout and the candidates of a run stay while it lasts.
LEMMA CarriedInvariance ==
  ASSUME StrayRoutes = FALSE
  PROVE  Spec => []CarriedInv
<1>1. Init => CarriedInv
  BY DEF Init, CarriedInv
<1>2. CarriedInv /\ [Next]_vars => CarriedInv'
  <2> SUFFICES ASSUME CarriedInv, [Next]_vars
               PROVE  CarriedInv'
    OBVIOUS
  <2>1. CASE StartRun
    BY <2>1 DEF StartRun, Routable, CarriedInv
  <2>2. CASE pc' = "idle"
    BY <2>2 DEF CarriedInv
  <2>3. CASE cands' = cands /\ run' = run /\ pc # "idle"
    BY <2>3 DEF CarriedInv
  <2>4. CASE UNCHANGED vars
    BY <2>4 DEF vars, CarriedInv
  <2>5. StartRun \/ pc' = "idle" \/ (cands' = cands /\ run' = run /\ pc # "idle")
          \/ UNCHANGED vars
    BY DEF Next, Step, Killed, RefuseRun, PlaceSlot, EndPlace, Prune,
       PruneReleases, Signing, SigningFails, ReindexFails, IndexLeaf, IndexLeafFails, EndIndex,
       KeepPrevious, Helpers, StageHelpers, HelpersFail, Swap, SwapFails, Crash, CrashCopying,
       CrashIndexing, Fail, EndRun
  <2>. QED
    BY <2>1, <2>2, <2>3, <2>4, <2>5
<1>. QED
  BY <1>1, <1>2, PTL DEF Spec

\* placeSlot, prune and indexLeafs together: a run of this kind that succeeds
\* serves every package it placed or found in place, with the content of one
\* of its candidates and in no older version.
THEOREM ShippedCorrect == ASSUME Steady, StrayRoutes = FALSE PROVE Spec => ShippedIsServed
<1> DEFINE A == pc # "idle" /\ exit' = "ok" =>
                  \A k \in kept :
                     LET listed == {f \in out'[k.dir].index : f.pkg = k.pkg}
                     IN /\ \E c \in cands : c.ver = k.ver /\ FileOf(c) \in listed
                        /\ \A f \in listed : Rank[f.ver] >= Rank[k.ver]
<1>1. IInv /\ KeptInv /\ SteadyInv /\ CarriedInv /\ [Next]_vars => [A]_vars
  <2> SUFFICES ASSUME IInv, KeptInv, SteadyInv, CarriedInv, Next,
                      pc # "idle", exit' = "ok", NEW k \in kept
               PROVE  LET listed == {f \in out'[k.dir].index : f.pkg = k.pkg}
                      IN /\ \E c \in cands : c.ver = k.ver /\ FileOf(c) \in listed
                         /\ \A f \in listed : Rank[f.ver] >= Rank[k.ver]
    OBVIOUS
  <2>1. pc \in {"helpers", "swap"} /\ leaf = {} /\ out' = work
    <3>1. CASE Helpers
      BY <3>1 DEF Helpers, work, IInv, RunInv, EndInv
    <3>2. CASE Swap
      BY <3>2 DEF Swap, work, IInv, RunInv, EndInv
    <3>. QED
      BY <3>1, <3>2, OkEnds
  <2>2. k.dir \in Dirs /\ k.dir \in run.carried
    BY DEF IInv, TypeOK, Kept, KeptInv, CarriedInv
  <2>3. out'[k.dir].index = work[k.dir].files
    BY <2>1, <2>2 DEF SteadyInv, MarkedInv, Described
  <2>4. PICK c \in cands : /\ c.pkg = k.pkg /\ c.ver = k.ver
                           /\ FileOf(c) \in work[k.dir].files
    BY <2>1, <2>2 DEF SteadyInv, PlacedInv
  <2>5. \A f \in work[k.dir].files : f.pkg = k.pkg => Rank[f.ver] >= Rank[k.ver]
    BY <2>1 DEF SteadyInv, PlacedInv
  <2>6. FileOf(c).pkg = k.pkg
    BY <2>4 DEF FileOf
  <2>. QED
    BY <2>3, <2>4, <2>5, <2>6
<1>. QED
  BY <1>1, SteadyInvariance, CarriedInvariance, PTL DEF Spec, ShippedIsServed

\* No signature is of another index than the one it is next to.
SigInv == \A d \in Dirs : /\ out[d].sig \in {{}, out[d].index}
                          /\ building[d].sig \in {{}, building[d].index}

\* The faults that part an index from its signature: signLeaf fails, writing
\* the index fails or the run is killed in between, or only part of a release
\* dir is removed.
PartingFaults == {"signleaf", "index", "crash", "prune"}

\* indexLeaf signs what it has just written or removes the signature, and only
\* whole release dirs are removed: as long as none of these faults happens,
\* whatever else fails, no dir has a signature of an older index between runs.
\* After a failed signLeaf, which Build goes on after, one may have.
THEOREM NoStaleCorrect ==
  ASSUME Faults \cap PartingFaults = {} PROVE Spec => []NoStaleSignature
<1>0. /\ "prune" \notin Faults /\ "index" \notin Faults
      /\ "signleaf" \notin Faults /\ "crash" \notin Faults
  BY DEF PartingFaults
<1>1. Init => SigInv
  BY DEF Init, SigInv, NoTree, NoDir
<1>2. TypeOK /\ SigInv /\ [Next]_vars => SigInv'
  <2> SUFFICES ASSUME TypeOK, SigInv, [Next]_vars
               PROVE  SigInv'
    OBVIOUS
  <2>0. \A d \in Dirs : NoTree[d].sig = {}
    BY DEF NoTree, NoDir
  <2>1. ASSUME NEW d \in Dirs, NEW p \in Pkgs, PlaceSlot(d, p)
        PROVE  SigInv'
    BY <2>1, PlaceLeavesIndex DEF SigInv
  <2>2. CASE Prune
    BY <2>2, PruneLeavesIndex DEF SigInv
  <2>3. CASE PruneReleases
    <3>1. building' = building
      BY <1>0, <2>3, ReleasesSteady
    <3>2. ASSUME NEW d \in Dirs
          PROVE  out'[d].sig \in {{}, out'[d].index}
      <4>1. CASE out'[d] = NoDir
        BY <4>1 DEF NoDir
      <4>2. CASE out'[d].index = out[d].index /\ out'[d].sig = out[d].sig
        BY <4>2 DEF SigInv
      <4>. QED
        BY <1>0, <2>3, <4>1, <4>2, ReleasesSteady
    <3>. QED
      BY <3>1, <3>2 DEF SigInv
  <2>4. ASSUME NEW d \in Dirs, IndexLeaf(d)
        PROVE  SigInv'
    <3>1. run' = run
      BY <2>4 DEF IndexLeaf
    <3>2. Signatures(d) \subseteq {{}, work[d].files}
      BY <1>0 DEF Signatures
    <3>3. work'[d].sig \in {{}, work'[d].index}
      BY <2>4, <3>2, IndexLeafEffect
    <3>4. \A e \in Dirs : work[e].sig \in {{}, work[e].index}
      BY DEF SigInv, work
    <3>5. \A e \in Dirs : work'[e].sig \in {{}, work'[e].index}
      BY <2>4, <3>3, <3>4, IndexLeafEffect
    <3>6. IF run.full THEN out' = out /\ work' = building'
                      ELSE building' = building /\ work' = out'
      BY <2>4, <3>1, IndexLeafEffect DEF work
    <3>. QED
      BY <3>5, <3>6 DEF SigInv
  <2>5. ASSUME NEW d \in Dirs, IndexLeafFails(d)
        PROVE  SigInv'
    BY <1>0, <2>5, FailsSteady DEF SigInv
  <2>6. CASE \/ StartRun \/ RefuseRun \/ SigningFails \/ KeepPrevious
             \/ HelpersFail \/ SwapFails \/ Swap \/ Helpers
    <3>1. /\ out' = out \/ out' = building
          /\ building' = building \/ building' = NoTree
      BY <2>6 DEF StartRun, Staging, RefuseRun, SigningFails, KeepPrevious, HelpersFail, SwapFails, Swap,
         Helpers, Fail
    <3>. QED
      BY <2>0, <3>1 DEF SigInv
  <2>7. CASE EndPlace \/ Signing \/ EndIndex \/ StageHelpers \/ UNCHANGED vars
    BY <2>7 DEF EndPlace, Signing, EndIndex, StageHelpers, vars, SigInv
  <2>8. ~ReindexFails /\ ~Killed
    BY <1>0 DEF ReindexFails, Killed, Crash, CrashCopying, CrashIndexing
  <2>. QED
    BY <2>1, <2>2, <2>3, <2>4, <2>5, <2>6, <2>7, <2>8 DEF Next, Step
<1>3. SigInv => NoStaleSignature
  BY DEF SigInv, NoStaleSignature
<1>. QED
  BY <1>1, <1>2, <1>3, TypeCorrect, PTL DEF Spec
=============================================================================
