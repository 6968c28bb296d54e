------------------------ MODULE SignPublish_proofs ------------------------
(***************************************************************************)
(* Signing and publishing, for every set of feed dirs, and any number of   *)
(* builds, fetches and keys.  The indexes, signatures and helpers a        *)
(* command leaves are functions of the tree before it, so the lemmas are   *)
(* about these; the properties then need no more than the types.           *)
(***************************************************************************)
EXTENDS SignPublish, TLAPS

\* What the parts of a feed are.
LEMMA TreeParts ==
    ASSUME NEW t \in Tree
    PROVE  /\ t.index \in [Leaves -> Nat] /\ t.gz \in [Leaves -> Nat]
           /\ t.sig \in [Leaves -> [of: Nat, key: Nat]]
           /\ t.pub \in [Formats -> Nat] /\ t.keyID \in [Formats -> Nat]
           /\ t.feeds \subseteq Leaves
BY DEF Tree

\* A feed with other indexes, signatures or helpers is a feed.
LEMMA TreeExcept ==
    ASSUME NEW t \in Tree
    PROVE  /\ \A g \in [Leaves -> Nat] : [t EXCEPT !.gz = g] \in Tree
           /\ \A i, g \in [Leaves -> Nat] : [t EXCEPT !.index = i, !.gz = g] \in Tree
           /\ \A s \in [Leaves -> [of: Nat, key: Nat]] : [t EXCEPT !.sig = s] \in Tree
           /\ \A fs \in SUBSET Leaves, p, k \in [Formats -> Nat] :
                [t EXCEPT !.feeds = fs, !.pub = p, !.keyID = k] \in Tree
BY DEF Tree

\* A feed with nothing in it is a feed.
LEMMA EmptyIsTree == Empty \in Tree
BY DEF Empty, Tree, NoSig

\* The key of a dir is the public key of its format.
LEMMA KeyOfType ==
    ASSUME key \in [Formats -> 1..MaxKeys], NEW l \in Leaves
    PROVE  leafFormat(l) \in Formats /\ KeyOf(l) \in Nat \ {0}
BY SignAssumption DEF Formats, leafFormat, KeyOf

\* What signing a tree leaves are signatures.
LEMMA SignaturesType ==
    ASSUME key \in [Formats -> 1..MaxKeys], NEW t \in Tree, NEW ok
    PROVE  Signatures(t, ok) \in [Leaves -> [of: Nat, key: Nat]]
<1>1. \A l \in Leaves : t.index[l] \in Nat /\ t.sig[l] \in [of: Nat, key: Nat]
    BY TreeParts
<1> QED
    BY <1>1, KeyOfType DEF Signatures

\* So is what an unsigned build leaves.
LEMMA UnsignedType ==
    ASSUME NEW t \in Tree, NEW touched, NEW signing
    PROVE  Unsigned(t, touched, signing) \in [Leaves -> [of: Nat, key: Nat]]
<1>1. \A l \in Leaves : t.sig[l] \in [of: Nat, key: Nat]
    BY TreeParts
<1>2. NoSig \in [of: Nat, key: Nat]
    BY DEF NoSig
<1> QED
    BY <1>1, <1>2 DEF Unsigned

\* The helpers change nothing of indexes and signatures.
LEMMA HelpersEffect ==
    ASSUME key \in [Formats -> 1..MaxKeys], NEW t \in Tree, NEW signed \in BOOLEAN,
           NEW feeds \in SUBSET Leaves
    PROVE  /\ writeRepoHelpers(t, signed, feeds) \in Tree
           /\ writeRepoHelpers(t, signed, feeds).index = t.index
           /\ writeRepoHelpers(t, signed, feeds).gz = t.gz
           /\ writeRepoHelpers(t, signed, feeds).sig = t.sig
           /\ writeRepoHelpers(t, signed, feeds).feeds = feeds
           /\ signed => \A f \in LayoutFormats :
                          /\ writeRepoHelpers(t, signed, feeds).pub[f] = key[f]
                          /\ writeRepoHelpers(t, signed, feeds).keyID[f] = key[f]
<1> DEFINE p == [f \in Formats |-> IF signed /\ f \in LayoutFormats THEN key[f] ELSE t.pub[f]]
           k == [f \in Formats |-> IF signed /\ f \in LayoutFormats THEN key[f] ELSE 0]
<1>1. p \in [Formats -> Nat] /\ k \in [Formats -> Nat]
    BY TreeParts, SignAssumption
<1>2. LayoutFormats \subseteq Formats
    BY DEF LayoutFormats, leafFormat, Formats
<1>3. writeRepoHelpers(t, signed, feeds) = [t EXCEPT !.feeds = feeds, !.pub = p, !.keyID = k]
    BY DEF writeRepoHelpers
<1>4. [t EXCEPT !.feeds = feeds, !.pub = p, !.keyID = k] \in Tree
    BY <1>1, TreeExcept
<1>5. /\ signed => \A f \in LayoutFormats : p[f] = key[f] /\ k[f] = key[f]
    BY <1>2
<1> HIDE DEF p, k
<1> QED
    BY <1>3, <1>4, <1>5, TreeParts DEF Tree

\* A feed that commands leave: no signature without an index, and one file of
\* index per apk feed dir.
Sound(t) ==
    /\ t \in Tree
    /\ \A l \in Leaves : t.index[l] = 0 => t.sig[l] = NoSig
    /\ \A l \in ApkLeaves : t.gz[l] = t.index[l]

\* Helpers that are written whole describe the tree they are written in.
LEMMA SoundHelpers ==
    ASSUME key \in [Formats -> 1..MaxKeys], NEW t, Sound(t), NEW signed \in BOOLEAN,
           NEW feeds \in SUBSET Leaves
    PROVE  Sound(writeRepoHelpers(t, signed, feeds))
<1>1. t \in Tree
    BY DEF Sound
<1> QED
    BY <1>1, HelpersEffect DEF Sound

\* Signing is of what has an index.
LEMMA SoundSignatures ==
    ASSUME key \in [Formats -> 1..MaxKeys], NEW t, Sound(t),
           NEW ok \in SUBSET indexLeaves(t)
    PROVE  LET t1 == [t EXCEPT !.sig = Signatures(t, ok)]
           IN  /\ Sound(t1)
               /\ t1.index = t.index /\ t1.gz = t.gz
               /\ \A l \in ok : t1.sig[l] = [of |-> t.index[l], key |-> KeyOf(l)]
<1>1. t \in Tree
    BY DEF Sound
<1> DEFINE t1 == [t EXCEPT !.sig = Signatures(t, ok)]
<1>2. t1 \in Tree
    BY <1>1, SignaturesType, TreeExcept
<1>3. t1.sig = Signatures(t, ok) /\ t1.index = t.index /\ t1.gz = t.gz
    BY <1>1 DEF Tree
<1>4. \A l \in Leaves : l \notin ok => Signatures(t, ok)[l] = t.sig[l]
    BY DEF Signatures
<1>5. \A l \in ok : /\ l \in Leaves /\ t.index[l] # 0
                    /\ Signatures(t, ok)[l] = [of |-> t.index[l], key |-> KeyOf(l)]
    BY <1>1, TreeParts DEF Signatures, indexLeaves
<1> HIDE DEF t1
<1>6. Sound(t1)
    BY <1>2, <1>3, <1>4, <1>5 DEF Sound
<1> QED
    BY <1>3, <1>5, <1>6 DEF t1

\* What indexing the touched dirs changes.
LEMMA AllIndexedEffect ==
    ASSUME clock \in Nat, NEW t \in Tree, NEW touched \in SUBSET Leaves
    PROVE  LET t1 == AllIndexed(t, touched)
           IN  /\ t1 \in Tree /\ t1.sig = t.sig
               /\ \A l \in Leaves :
                    /\ t1.index[l] = IF l \in touched THEN clock + 1 ELSE t.index[l]
                    /\ t1.gz[l] = IF l \in touched THEN clock + 1 ELSE t.gz[l]
<1> DEFINE i == [l \in Leaves |-> IF l \in touched THEN clock + 1 ELSE t.index[l]]
           g == [l \in Leaves |-> IF l \in touched THEN clock + 1 ELSE t.gz[l]]
<1>1. i \in [Leaves -> Nat] /\ g \in [Leaves -> Nat]
    BY TreeParts
<1>2. AllIndexed(t, touched) = [t EXCEPT !.index = i, !.gz = g]
    BY DEF AllIndexed
<1>3. \A l \in Leaves :
        /\ i[l] = IF l \in touched THEN clock + 1 ELSE t.index[l]
        /\ g[l] = IF l \in touched THEN clock + 1 ELSE t.gz[l]
    OBVIOUS
<1> HIDE DEF i, g
<1>4. [t EXCEPT !.index = i, !.gz = g] \in Tree
    BY <1>1, TreeExcept
<1> QED
    BY <1>2, <1>3, <1>4 DEF Tree

\* A build's indexes: new ones in the dirs it touched, and no signature of an
\* index that is not there.
LEMMA IndexedEffect ==
    ASSUME key \in [Formats -> 1..MaxKeys], clock \in Nat, NEW t, Sound(t),
           NEW touched \in SUBSET Leaves, NEW signing \in BOOLEAN,
           NEW signed \in SUBSET touched
    PROVE  /\ Sound(Indexed(t, touched, signing, signed))
           /\ indexLeaves(Indexed(t, touched, signing, signed)) = indexLeaves(t) \cup touched
<1> DEFINE t1 == AllIndexed(t, touched)
           u  == Unsigned(t1, touched, signing)
           t2 == [t1 EXCEPT !.sig = u]
<1>0. t \in Tree /\ t.index \in [Leaves -> Nat]
    BY TreeParts DEF Sound
<1>1. /\ t1 \in Tree /\ t1.sig = t.sig
      /\ \A l \in Leaves :
           /\ t1.index[l] = IF l \in touched THEN clock + 1 ELSE t.index[l]
           /\ t1.gz[l] = IF l \in touched THEN clock + 1 ELSE t.gz[l]
    BY <1>0, AllIndexedEffect
<1> HIDE DEF t1
<1>2. u \in [Leaves -> [of: Nat, key: Nat]]
    BY <1>1, UnsignedType
<1>3. \A l \in Leaves : u[l] \in {NoSig, t1.sig[l]}
    BY DEF Unsigned
<1> HIDE DEF u
<1>4. t2 \in Tree /\ t2.sig = u /\ t2.index = t1.index /\ t2.gz = t1.gz
    BY <1>1, <1>2, TreeExcept DEF Tree
<1> HIDE DEF t2
<1>5. Sound(t2)
    BY <1>0, <1>1, <1>3, <1>4, SignAssumption DEF Sound
<1>6. indexLeaves(t2) = indexLeaves(t) \cup touched
    BY <1>0, <1>1, <1>4 DEF indexLeaves
<1>7. /\ Sound([t2 EXCEPT !.sig = Signatures(t2, signed)])
      /\ [t2 EXCEPT !.sig = Signatures(t2, signed)].index = t2.index
    BY <1>5, <1>6, SoundSignatures
<1>8. Indexed(t, touched, signing, signed) = [t2 EXCEPT !.sig = Signatures(t2, signed)]
    BY DEF Indexed, t1, t2, u
<1> QED
    BY <1>6, <1>7, <1>8 DEF indexLeaves

\* The same of indexes whose writing was cut short.
LEMMA CutShortEffect ==
    ASSUME clock \in Nat, NEW t, Sound(t), NEW cut \in SUBSET Leaves,
           NEW stale \in SUBSET (cut \ ApkLeaves), NEW broken \in SUBSET stale
    PROVE  /\ Sound(CutShort(t, cut, stale, broken))
           /\ indexLeaves(CutShort(t, cut, stale, broken)) = indexLeaves(t) \cup cut
<1> DEFINE t1 == AllIndexed(t, cut)
           u  == Unsigned(t1, cut \cap ApkLeaves, FALSE)
           t2 == [t1 EXCEPT !.sig = u]
           g  == [l \in Leaves |-> IF l \in broken THEN 0
                                   ELSE IF l \in stale THEN t.gz[l] ELSE t2.gz[l]]
<1>0. t \in Tree /\ t.index \in [Leaves -> Nat] /\ t.gz \in [Leaves -> Nat]
    BY TreeParts DEF Sound
<1>1. /\ t1 \in Tree /\ t1.sig = t.sig
      /\ \A l \in Leaves :
           /\ t1.index[l] = IF l \in cut THEN clock + 1 ELSE t.index[l]
           /\ t1.gz[l] = IF l \in cut THEN clock + 1 ELSE t.gz[l]
    BY <1>0, AllIndexedEffect
<1> HIDE DEF t1
<1>2. u \in [Leaves -> [of: Nat, key: Nat]]
    BY <1>1, UnsignedType
<1>3. \A l \in Leaves : u[l] \in {NoSig, t1.sig[l]}
    BY DEF Unsigned
<1> HIDE DEF u
<1>4. t2 \in Tree /\ t2.sig = u /\ t2.index = t1.index /\ t2.gz = t1.gz
    BY <1>1, <1>2, TreeExcept DEF Tree
<1>5. CutShort(t, cut, stale, broken) = [t2 EXCEPT !.gz = g]
    BY DEF CutShort, t1, t2, u, g
<1> HIDE DEF t2
<1>6. g \in [Leaves -> Nat]
    BY <1>0, <1>4, TreeParts
<1>7. \A l \in ApkLeaves : l \in Leaves /\ g[l] = t2.gz[l]
    BY SignAssumption
<1> HIDE DEF g
<1>8. /\ [t2 EXCEPT !.gz = g] \in Tree /\ [t2 EXCEPT !.gz = g].gz = g
      /\ [t2 EXCEPT !.gz = g].index = t1.index /\ [t2 EXCEPT !.gz = g].sig = u
    BY <1>4, <1>6, TreeExcept DEF Tree
<1>9. \A l \in Leaves : t1.index[l] = 0 => u[l] = NoSig
    BY <1>0, <1>1, <1>3 DEF Sound
<1>10. \A l \in ApkLeaves : g[l] = t1.index[l]
    BY <1>1, <1>4, <1>7 DEF Sound
<1> QED
    BY <1>0, <1>1, <1>5, <1>8, <1>9, <1>10 DEF Sound, indexLeaves

-----------------------------------------------------------------------------
\* A fetched tree, whole or cut short.
LEMMA FetchSound == TypeOK /\ Fetch => Sound(tree') /\ clock' \in 0..MaxIndexes
<1> SUFFICES ASSUME TypeOK, Fetch PROVE Sound(tree') /\ clock' \in 0..MaxIndexes
    OBVIOUS
<1>c. clock \in 0..MaxIndexes /\ clock < MaxIndexes /\ clock' = clock + 1
    BY DEF Fetch, TypeOK
<1>1. clock \in Nat /\ clock' \in 0..MaxIndexes /\ Sound(tree)
  <2>1. clock \in Nat /\ clock' \in 0..MaxIndexes
      BY <1>c, SignAssumption
  <2> QED
      BY <2>1 DEF TypeOK, Sound
<1>2. PICK there \in (SUBSET Leaves) \ {{}} :
        LET host == [Empty EXCEPT !.feeds = there,
                       !.index = [l \in Leaves |->
                                   IF l \in there THEN clock + 1 ELSE 0],
                       !.gz = [l \in Leaves |->
                                   IF l \in there THEN clock + 1 ELSE 0]]
        IN  \/ tree' = host
            \/ \E came \in SUBSET there, helpers \in {tree, host} :
               \E undeleted \in SUBSET (came \ ApkLeaves) :
               \E late \in {{}} \cup {{l} : l \in came \ ApkLeaves} :
                 tree' = [helpers EXCEPT
                           !.index = [l \in Leaves |->
                             IF l \in came THEN host.index[l] ELSE tree.index[l]],
                           !.gz = [l \in Leaves |->
                             IF l \in came \ late THEN host.gz[l] ELSE tree.gz[l]],
                           !.sig = [l \in Leaves |->
                             IF l \in came \ undeleted
                             THEN NoSig ELSE tree.sig[l]]]
    BY Zenon DEF Fetch
<1> DEFINE new  == [l \in Leaves |-> IF l \in there THEN clock + 1 ELSE 0]
           host == [Empty EXCEPT !.feeds = there, !.index = new, !.gz = new]
<1>3. new \in [Leaves -> Nat] /\ \A l \in there : new[l] # 0
    BY <1>1
<1> HIDE DEF new
<1>4. /\ host \in Tree /\ host.index = new /\ host.gz = new
      /\ host.sig = [l \in Leaves |-> NoSig]
    BY <1>3, EmptyIsTree DEF Empty, Tree
<1> HIDE DEF host
<1>5. Sound(host)
    BY <1>4, SignAssumption DEF Sound
<1>6. CASE tree' = host
    BY <1>1, <1>5, <1>6
<1>7. ASSUME NEW came \in SUBSET there, NEW helpers \in {tree, host},
             NEW undeleted \in SUBSET (came \ ApkLeaves),
             NEW late \in {{}} \cup {{l} : l \in came \ ApkLeaves},
             tree' = [helpers EXCEPT
                       !.index = [l \in Leaves |->
                         IF l \in came THEN host.index[l] ELSE tree.index[l]],
                       !.gz = [l \in Leaves |->
                         IF l \in came \ late THEN host.gz[l] ELSE tree.gz[l]],
                       !.sig = [l \in Leaves |->
                         IF l \in came \ undeleted THEN NoSig ELSE tree.sig[l]]]
      PROVE  Sound(tree')
  <2> DEFINE i == [l \in Leaves |-> IF l \in came THEN host.index[l] ELSE tree.index[l]]
             g == [l \in Leaves |-> IF l \in came \ late THEN host.gz[l] ELSE tree.gz[l]]
             s == [l \in Leaves |-> IF l \in came \ undeleted THEN NoSig ELSE tree.sig[l]]
  <2>1. tree \in Tree /\ helpers \in Tree
      BY <1>1, <1>4 DEF Sound
  <2>2. \A l \in Leaves : tree.sig[l] \in [of: Nat, key: Nat] /\ NoSig \in [of: Nat, key: Nat]
      BY <2>1, TreeParts DEF NoSig
  <2>3. i \in [Leaves -> Nat] /\ g \in [Leaves -> Nat]
      BY <1>4, <2>1, TreeParts
  <2>4. s \in [Leaves -> [of: Nat, key: Nat]]
      BY <2>2
  <2>5. /\ \A l \in Leaves : i[l] = 0 => s[l] = NoSig
        /\ \A l \in ApkLeaves : g[l] = i[l]
      BY <1>1, <1>3, <1>4, SignAssumption DEF Sound
  <2> HIDE DEF i, g, s
  <2>6. tree' = [helpers EXCEPT !.index = i, !.gz = g, !.sig = s]
      BY <1>7 DEF i, g, s
  <2>7. /\ tree' \in Tree /\ tree'.index = i /\ tree'.gz = g /\ tree'.sig = s
      BY <2>1, <2>3, <2>4, <2>6 DEF Tree
  <2> QED
      BY <2>5, <2>7 DEF Sound
<1>8. \/ tree' = host
      \/ \E came \in SUBSET there, helpers \in {tree, host} :
         \E undeleted \in SUBSET (came \ ApkLeaves) :
         \E late \in {{}} \cup {{l} : l \in came \ ApkLeaves} :
           tree' = [helpers EXCEPT
                     !.index = [l \in Leaves |->
                       IF l \in came THEN host.index[l] ELSE tree.index[l]],
                     !.gz = [l \in Leaves |->
                       IF l \in came \ late THEN host.gz[l] ELSE tree.gz[l]],
                     !.sig = [l \in Leaves |->
                       IF l \in came \ undeleted THEN NoSig ELSE tree.sig[l]]]
    BY <1>2, Zenon DEF host, new
<1> QED
    BY <1>1, <1>6, <1>7, <1>8, ZenonT(60)

\* The tree after a build, that succeeds or fails.
LEMMA BuildSound ==
    ASSUME TypeOK, NEW touched \in SUBSET Leaves, NEW signing \in BOOLEAN
    PROVE  \A signed \in IF signing THEN SUBSET touched ELSE {{}} :
             Sound(Indexed(tree, touched, signing, signed))
<1>1. Sound(tree) /\ clock \in Nat /\ key \in [Formats -> 1..MaxKeys]
    BY SignAssumption DEF TypeOK, Sound
<1> QED
    BY <1>1, IndexedEffect

\* Each command leaves a sound tree.
LEMMA SoundStep == TypeOK /\ Next => Sound(tree')
<1> SUFFICES ASSUME TypeOK, Next PROVE Sound(tree')
    OBVIOUS
<1>1. Sound(tree) /\ clock \in Nat /\ key \in [Formats -> 1..MaxKeys]
    BY SignAssumption DEF TypeOK, Sound
<1>2. \A t, touched : indexLeaves(t) \subseteq Leaves
                      /\ (touched \subseteq Leaves => Described(t, touched) \subseteq Leaves)
    BY DEF indexLeaves, Described
<1>3. CASE Build
  <2>1. PICK touched \in SUBSET Leaves, signing \in BOOLEAN :
        \E signed \in IF signing THEN SUBSET touched ELSE {{}} :
          tree' = writeRepoHelpers(Indexed(tree, touched, signing, signed),
                                   signing, Described(tree, touched))
      BY <1>3 DEF Build
  <2> QED
      BY <1>1, <1>2, <2>1, BuildSound, SoundHelpers
<1>4. CASE BuildFails
  <2>1. PICK touched \in SUBSET Leaves, signing \in BOOLEAN :
        \E cut \in SUBSET touched :
        \E signed \in IF signing THEN SUBSET (touched \ cut) ELSE {{}} :
        \E stale \in SUBSET (cut \ ApkLeaves) : \E broken \in SUBSET stale :
         LET t == CutShort(Indexed(tree, touched \ cut, signing, signed),
                           cut, stale, broken)
         IN  tree' \in {t, writeRepoHelpers(t, signing,
                                            Described(tree, touched \ cut))}
      BY <1>4 DEF BuildFails
  <2>2. PICK cut \in SUBSET touched :
        \E signed \in IF signing THEN SUBSET (touched \ cut) ELSE {{}} :
        \E stale \in SUBSET (cut \ ApkLeaves) : \E broken \in SUBSET stale :
         LET t == CutShort(Indexed(tree, touched \ cut, signing, signed),
                           cut, stale, broken)
         IN  tree' \in {t, writeRepoHelpers(t, signing,
                                            Described(tree, touched \ cut))}
      BY <2>1
  <2>3. PICK signed \in IF signing THEN SUBSET (touched \ cut) ELSE {{}},
             stale \in SUBSET (cut \ ApkLeaves) :
        \E broken \in SUBSET stale :
         LET t == CutShort(Indexed(tree, touched \ cut, signing, signed),
                           cut, stale, broken)
         IN  tree' \in {t, writeRepoHelpers(t, signing,
                                            Described(tree, touched \ cut))}
      BY <2>2
  <2>4. PICK broken \in SUBSET stale :
         LET t == CutShort(Indexed(tree, touched \ cut, signing, signed),
                           cut, stale, broken)
         IN  tree' \in {t, writeRepoHelpers(t, signing,
                                            Described(tree, touched \ cut))}
      BY <2>3
  <2>5. Sound(Indexed(tree, touched \ cut, signing, signed))
      BY BuildSound
  <2>6. Sound(CutShort(Indexed(tree, touched \ cut, signing, signed), cut, stale, broken))
      BY <1>1, <2>5, CutShortEffect
  <2>7. Sound(writeRepoHelpers(
                CutShort(Indexed(tree, touched \ cut, signing, signed), cut, stale, broken),
                signing, Described(tree, touched \ cut)))
      BY <1>1, <1>2, <2>6, SoundHelpers
  <2> QED
      BY <2>4, <2>6, <2>7
<1>5. CASE Fetch
    BY <1>5, FetchSound
<1>6. \A ok \in SUBSET indexLeaves(tree) :
        Sound([tree EXCEPT !.sig = Signatures(tree, ok)])
    BY <1>1, SoundSignatures
<1>7. CASE Sign
    BY <1>1, <1>2, <1>6, <1>7, SoundHelpers DEF Sign, LeavesToSign
<1>8. CASE SignFails
  <2>1. PICK ok \in SUBSET indexLeaves(tree) :
        LET t == [tree EXCEPT !.sig = Signatures(tree, ok)]
        IN  tree' \in {t, writeRepoHelpers(t, TRUE, ok)}
      BY <1>8 DEF SignFails
  <2>2. Sound([tree EXCEPT !.sig = Signatures(tree, ok)])
      BY <1>6
  <2>3. ok \in SUBSET Leaves
      BY <1>2
  <2>4. Sound(writeRepoHelpers([tree EXCEPT !.sig = Signatures(tree, ok)], TRUE, ok))
      BY <1>1, <2>2, <2>3, SoundHelpers
  <2> QED
      BY <2>1, <2>2, <2>4
<1>9. CASE tree' = tree
    BY <1>1, <1>9
<1> QED
    BY <1>3, <1>4, <1>5, <1>7, <1>8, <1>9 DEF Next, Publish, PublishCut, RotateKey

\* Every step keeps the shape.
LEMMA TypeStep == TypeOK /\ [Next]_signVars => TypeOK'
<1> SUFFICES ASSUME TypeOK, [Next]_signVars PROVE TypeOK'
    OBVIOUS
<1>1. CASE Next
  <2>1. Sound(tree')
      BY <1>1, SoundStep, SMTT(30)
  <2>2. server' \in Tree
      BY <1>1, EmptyIsTree, ZenonT(60)
      DEF Next, Build, BuildFails, Fetch, Sign, SignFails, Publish, PublishCut, RotateKey, TypeOK
  <2>3. whole' \in BOOLEAN
    <3>1. whole' = whole \/ whole' = TRUE \/ whole' = FALSE
        BY <1>1, ZenonT(60) DEF Next, Build, BuildFails, Fetch, Sign, SignFails, Publish, PublishCut, RotateKey
    <3> QED
        BY <3>1, Zenon DEF TypeOK
  <2>4. key' \in [Formats -> 1..MaxKeys]
    <3>1. CASE \E f \in Formats : RotateKey(f)
      <4>1. PICK f \in Formats : RotateKey(f)
          BY <3>1
      <4>2. /\ key["ipk"] \in 1..MaxKeys /\ key["apk"] \in 1..MaxKeys
            /\ MaxKeys \in Nat
          BY SignAssumption DEF TypeOK, Formats
      <4>3. key[f] + 1 \in 1..MaxKeys
          BY <4>1, <4>2 DEF RotateKey, Formats
      <4> QED
          BY <4>1, <4>3 DEF RotateKey, TypeOK
    <3> QED
        BY <1>1, <3>1, Zenon DEF Next, Build, BuildFails, Fetch, Sign, SignFails, Publish, PublishCut, TypeOK
  <2>5. last' \in {"none", "build", "sign", "publish"}
      BY <1>1, Zenon DEF Next, Build, BuildFails, Fetch, Sign, SignFails, Publish, PublishCut, RotateKey
  <2>6. clock' \in 0..MaxIndexes
    <3>1. clock \in 0..MaxIndexes
        BY DEF TypeOK
    <3>2. clock' = clock \/ (clock < MaxIndexes /\ clock' = clock + 1)
        BY <1>1, Zenon
        DEF Next, Build, BuildFails, Fetch, Sign, SignFails, Publish, PublishCut, RotateKey
    <3> QED
        BY <3>1, <3>2, SignAssumption
  <2> QED
      BY <2>1, <2>2, <2>3, <2>4, <2>5, <2>6 DEF TypeOK, Sound
<1>2. CASE UNCHANGED signVars
    BY <1>2 DEF signVars, TypeOK
<1> QED
    BY <1>1, <1>2

\* Every command leaves a feed of indexes, signatures and helpers.
THEOREM SignTypeCorrect == Spec => []TypeOK
<1>1. Init => TypeOK
  <2> SUFFICES ASSUME Init PROVE TypeOK
      OBVIOUS
  <2>1. /\ \A l \in Leaves : Empty.index[l] = 0 => Empty.sig[l] = NoSig
        /\ \A l \in ApkLeaves : Empty.gz[l] = Empty.index[l]
      BY SignAssumption DEF Empty
  <2> QED
      BY <2>1, EmptyIsTree, SignAssumption DEF Init, TypeOK
<1> QED
    BY <1>1, TypeStep, PTL DEF Spec

-----------------------------------------------------------------------------
\* Whatever `verify` lets through, a router that installed it trusts.
LEMMA VerifiedIsTrusted ==
    ASSUME TypeOK, Verify(tree), NEW l \in indexLeaves(tree),
           tree.gz[l] = tree.index[l]
    PROVE  LET f == leafFormat(l)
           IN  /\ tree.sig[l].of = tree.gz[l]
               /\ tree.sig[l].key = tree.pub[f]
               /\ tree.keyID[f] # 0
               /\ f = "ipk" => tree.keyID[f] = tree.pub[f]
<1>1. l \in Leaves
    BY DEF indexLeaves
<1>2. leafFormat(l) \in Formats /\ KeyOf(l) = key[leafFormat(l)] /\ KeyOf(l) # 0
    BY <1>1, KeyOfType DEF TypeOK, KeyOf
<1>3. LeafVerifies(tree, l) /\ PublishedVerifies(tree, leafFormat(l))
    BY DEF Verify
<1>4. tree.sig[l].of = tree.index[l] /\ tree.sig[l].key = KeyOf(l)
    BY <1>3 DEF LeafVerifies
<1> QED
    BY <1>2, <1>3, <1>4 DEF PublishedVerifies

\* `make publish`: whatever was built, fetched, signed and rotated before, a
\* router that runs the published add.sh accepts the published indexes.
THEOREM PublishedCorrect == Spec => []PublishedIsTrusted
<1>1. Init => PublishedIsTrusted
    BY SMTT(30) DEF Init, PublishedIsTrusted, indexLeaves, Empty
<1>2. TypeOK /\ PublishedIsTrusted /\ [Next]_signVars => PublishedIsTrusted'
  <2> SUFFICES ASSUME TypeOK, PublishedIsTrusted, [Next]_signVars
               PROVE  PublishedIsTrusted'
      OBVIOUS
  <2>1. CASE Publish
    <3>1. Verify(tree) /\ server' = tree
        BY <2>1 DEF Publish
    <3> QED
        BY <3>1, VerifiedIsTrusted DEF PublishedIsTrusted, RouterTrusts, indexLeaves
  <2>2. CASE PublishCut
      BY <2>2 DEF PublishCut, PublishedIsTrusted
  <2>3. CASE UNCHANGED <<server, whole>>
      BY <2>3 DEF PublishedIsTrusted, RouterTrusts, indexLeaves
  <2> QED
      BY <2>1, <2>2, <2>3
      DEF Next, Build, BuildFails, Fetch, Sign, SignFails, RotateKey, signVars
<1> QED
    BY <1>1, <1>2, SignTypeCorrect, PTL DEF Spec

\* What Sign makes of the tree: every index signed, and the helpers of all.
LEMMA SignEffect ==
    ASSUME TypeOK, Sign
    PROVE  Verify(tree)' /\ tree'.feeds = indexLeaves(tree)'
<1> DEFINE ls == indexLeaves(tree)
           t1 == [tree EXCEPT !.sig = Signatures(tree, ls)]
<1>1. Sound(tree) /\ key \in [Formats -> 1..MaxKeys] /\ ls # {} /\ ls \subseteq Leaves
    BY DEF TypeOK, Sound, Sign, indexLeaves
<1>2. /\ Sound(t1) /\ t1.index = tree.index
      /\ \A l \in ls : t1.sig[l] = [of |-> tree.index[l], key |-> KeyOf(l)]
    BY <1>1, SoundSignatures
<1>3. tree' = writeRepoHelpers(t1, TRUE, ls) /\ key' = key
    BY DEF Sign, LeavesToSign
<1> HIDE DEF t1
<1>4. /\ tree'.index = tree.index /\ tree'.sig = t1.sig /\ tree'.feeds = ls
      /\ \A f \in LayoutFormats : tree'.pub[f] = key[f] /\ tree'.keyID[f] = key[f]
  <2> DEFINE t2 == writeRepoHelpers(t1, TRUE, ls)
  <2>1. t1 \in Tree /\ ls \in SUBSET Leaves
      BY <1>1, <1>2 DEF Sound
  <2>2. /\ t2.index = t1.index /\ t2.sig = t1.sig /\ t2.feeds = ls
        /\ \A f \in LayoutFormats : t2.pub[f] = key[f] /\ t2.keyID[f] = key[f]
      BY <1>1, <2>1, HelpersEffect
  <2> HIDE DEF t2
  <2>3. tree' = t2
      BY <1>3 DEF t2
  <2> QED
      BY <1>2, <2>2, <2>3
<1>5. indexLeaves(tree)' = ls
    BY <1>4 DEF indexLeaves
<1>6. \A l \in ls : LeafVerifies(tree, l)'
    BY <1>2, <1>3, <1>4 DEF LeafVerifies, KeyOf
<1>7. \A l \in ls : leafFormat(l) \in LayoutFormats /\ key[leafFormat(l)] # 0
  <2>1. \A l \in ls : leafFormat(l) \in LayoutFormats
      BY <1>1 DEF LayoutFormats
  <2>2. \A l \in ls : key[leafFormat(l)] # 0
      BY <1>1, KeyOfType DEF KeyOf
  <2> QED
      BY <2>1, <2>2
<1>8. \A f \in {leafFormat(l) : l \in ls} : PublishedVerifies(tree, f)'
    BY <1>3, <1>4, <1>7, ZenonT(60) DEF PublishedVerifies
<1> QED
    BY <1>1, <1>4, <1>5, <1>6, <1>8 DEF Verify

\* A `sign` that reports success makes `verify` pass, whatever the tree was.
THEOREM SignMendsCorrect == Spec => []SignMends
<1>1. Init => SignMends
    BY DEF Init, SignMends
<1>2. TypeOK /\ SignMends /\ [Next]_signVars => SignMends'
  <2> SUFFICES ASSUME TypeOK, SignMends, [Next]_signVars PROVE SignMends'
      OBVIOUS
  <2>1. CASE Sign
      BY <2>1, SignEffect DEF SignMends
  <2>2. CASE last' # "sign"
      BY <2>2 DEF SignMends
  <2>3. CASE UNCHANGED signVars
    <3>1. Verify(tree)' = Verify(tree)
        BY <2>3 DEF signVars, Verify, LeafVerifies, PublishedVerifies, KeyOf,
                    indexLeaves
    <3> QED
        BY <2>3, <3>1 DEF signVars, SignMends
  <2> QED
      BY <2>1, <2>2, <2>3, Zenon
      DEF Next, Build, BuildFails, Fetch, SignFails, Publish, PublishCut, RotateKey
<1> QED
    BY <1>1, <1>2, SignTypeCorrect, PTL DEF Spec

\* withSnapshotDirs and Sign: add.sh asks for every feed dir with an index,
\* also for those the build did not touch.
THEOREM HelpersCorrect == Spec => []HelpersDescribeTree
<1>1. Init => HelpersDescribeTree
    BY DEF Init, HelpersDescribeTree
<1>2. TypeOK /\ HelpersDescribeTree /\ [Next]_signVars => HelpersDescribeTree'
  <2> SUFFICES ASSUME TypeOK, HelpersDescribeTree, [Next]_signVars
               PROVE  HelpersDescribeTree'
      OBVIOUS
  <2>1. CASE Build
    <3>1. PICK touched \in SUBSET Leaves, signing \in BOOLEAN :
          \E signed \in IF signing THEN SUBSET touched ELSE {{}} :
            tree' = writeRepoHelpers(Indexed(tree, touched, signing, signed),
                                     signing, Described(tree, touched))
        BY <2>1 DEF Build
    <3>2. PICK signed \in IF signing THEN SUBSET touched ELSE {{}} :
            tree' = writeRepoHelpers(Indexed(tree, touched, signing, signed),
                                     signing, Described(tree, touched))
        BY <3>1
    <3> DEFINE t == Indexed(tree, touched, signing, signed)
    <3>3. /\ Sound(tree) /\ clock \in Nat /\ key \in [Formats -> 1..MaxKeys]
          /\ signed \in SUBSET touched
        BY SignAssumption DEF TypeOK, Sound
    <3>4. Sound(t) /\ indexLeaves(t) = indexLeaves(tree) \cup touched
        BY <3>3, IndexedEffect
    <3> HIDE DEF t
    <3>5. Described(tree, touched) = indexLeaves(t) /\ indexLeaves(t) \subseteq Leaves
        BY <3>4 DEF Described, indexLeaves
    <3>6. tree'.feeds = indexLeaves(t) /\ tree'.index = t.index
        BY <3>2, <3>3, <3>4, <3>5, HelpersEffect DEF Sound, t
    <3> QED
        BY <3>6 DEF HelpersDescribeTree, indexLeaves
  <2>2. CASE Sign
      BY <2>2, SignEffect DEF HelpersDescribeTree
  <2>3. CASE last' \in {"none", "publish"}
      BY <2>3 DEF HelpersDescribeTree
  <2>4. CASE UNCHANGED signVars
      BY <2>4 DEF signVars, HelpersDescribeTree, indexLeaves
  <2> QED
      BY <2>1, <2>2, <2>3, <2>4, Zenon
      DEF Next, BuildFails, Fetch, SignFails, Publish, PublishCut, RotateKey
<1> QED
    BY <1>1, <1>2, SignTypeCorrect, PTL DEF Spec
=============================================================================
