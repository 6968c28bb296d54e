---------------------------- MODULE SignPublish ----------------------------
(***************************************************************************)
(* From a built feed to a published one: the `sign` and `verify` commands  *)
(* (commands.go, index.go), the helpers a build or a signing writes next   *)
(* to the indexes (repohelpers.go), and the `fetch` and `publish` targets  *)
(* of the Makefile.  A build is one step here, with every outcome it can   *)
(* have on indexes, signatures and helpers; its inside is FeedBuild.       *)
(* Commands are run one at a time, in any order, and may fail half way.    *)
(***************************************************************************)
EXTENDS FiniteSets, Integers

CONSTANTS
    Leaves,      \* the feed dirs
    ApkLeaves,   \* those of an apk branch; the others are opkg
    MaxIndexes,  \* bound: builds and fetches that bring new indexes
    MaxKeys      \* bound: key pairs there are, of both formats

ASSUME SignAssumption ==
    /\ ApkLeaves \subseteq Leaves
    /\ MaxIndexes \in Nat /\ MaxKeys \in Nat \ {0}

VARIABLES
    tree,    \* the feed on this machine, see Tree
    server,  \* the feed on the web server, when the last transfer was whole
    whole,   \* the last transfer to the server was completed
    key,     \* key[f]: the key pair the config names, per format
    last,    \* the last command, if it succeeded in full
    clock    \* how many generations of indexes there were

signVars == <<tree, server, whole, key, last, clock>>

Formats == {"ipk", "apk"}
leafFormat(leaf) == IF leaf \in ApkLeaves THEN "apk" ELSE "ipk"

\* A feed: the generation of each index (0: none) and of its compressed copy
\* (Packages.gz, 0: not readable; packages.adb has none, and counts as its
\* own), what the signature signs and with which key, the public keys served
\* at the root, and per format what add.sh was generated with: the key id, and
\* the feed dirs it asks for.
NoSig == [of |-> 0, key |-> 0]
Tree  == [index: [Leaves -> Nat], gz: [Leaves -> Nat],
          sig: [Leaves -> [of: Nat, key: Nat]], pub: [Formats -> Nat],
          keyID: [Formats -> Nat], feeds: SUBSET Leaves]
Empty == [index |-> [l \in Leaves |-> 0], gz |-> [l \in Leaves |-> 0],
          sig |-> [l \in Leaves |-> NoSig], pub |-> [f \in Formats |-> 0],
          keyID |-> [f \in Formats |-> 0], feeds |-> {}]

indexLeaves(t) == {l \in Leaves : t.index[l] > 0}

\* layout.version carries a branch of every format there is.
LayoutFormats == {leafFormat(l) : l \in Leaves}

TypeOK ==
    /\ tree \in Tree /\ server \in Tree
    /\ whole \in BOOLEAN
    /\ key \in [Formats -> 1..MaxKeys]
    /\ last \in {"none", "build", "sign", "publish"}
    /\ clock \in 0..MaxIndexes
    /\ \A l \in Leaves : tree.index[l] = 0 => tree.sig[l] = NoSig
    /\ \A l \in ApkLeaves : tree.gz[l] = tree.index[l]

Init ==
    /\ tree = Empty /\ server = Empty
    /\ whole = TRUE
    /\ key = [f \in Formats |-> 1]
    /\ last = "none"
    /\ clock = 0

-----------------------------------------------------------------------------
KeyOf(l) == key[leafFormat(l)]

\* signLeaf on the leaves ok; it fails on the leaves bad.  A signature of
\* usign is a file of its own, which a failure leaves behind.
Signatures(t, ok) ==
    [l \in Leaves |-> IF l \in ok THEN [of |-> t.index[l], key |-> KeyOf(l)]
                                  ELSE t.sig[l]]

\* writeIndex: mkndx rewrites packages.adb without a signature; an unsigned
\* opkg index loses the signature file.
Unsigned(t, touched, signing) ==
    [l \in Leaves |-> IF l \in touched /\ (l \in ApkLeaves \/ ~signing)
                      THEN NoSig ELSE t.sig[l]]

\* writeRepoHelpers: the public keys of a signed feed are copied, those of an
\* unsigned one left alone; add.sh is always generated anew.
KeysBaked(t, signed, feeds) ==
    [t EXCEPT !.feeds = feeds,
              !.keyID = [f \in Formats |->
                          IF signed /\ f \in LayoutFormats THEN key[f] ELSE 0]]

writeRepoHelpers(t, signed, feeds) ==
    [t EXCEPT !.feeds = feeds,
              !.pub = [f \in Formats |->
                        IF signed /\ f \in LayoutFormats THEN key[f] ELSE @[f]],
              !.keyID = [f \in Formats |->
                          IF signed /\ f \in LayoutFormats THEN key[f] ELSE 0]]

\* writeFormatIndex writes Packages, then Packages.gz, both in place.
AllIndexed(t, touched) ==
    LET anew(gens) == [l \in Leaves |-> IF l \in touched THEN clock + 1
                                        ELSE gens[l]]
    IN  [t EXCEPT !.index = anew(@), !.gz = anew(@)]

\* The indexes of the touched leaves are regenerated, and signed if that is
\* asked for and works.
Indexed(t, touched, signing, signed) ==
    LET t1 == AllIndexed(t, touched)
        t2 == [t1 EXCEPT !.sig = Unsigned(t1, touched, signing)]
    IN  [t2 EXCEPT !.sig = Signatures(t2, signed)]

\* indexLeaf stops part way in the leaves cut: the compressed copy is the old
\* one (stale) or broken, or only index.json is missing; a usign signature is
\* still the old one.
CutShort(t, cut, stale, broken) ==
    LET t1 == AllIndexed(t, cut)
        t2 == [t1 EXCEPT !.sig = Unsigned(t1, cut \cap ApkLeaves, FALSE)]
    IN  [t2 EXCEPT !.gz = [l \in Leaves |-> IF l \in broken THEN 0
                                            ELSE IF l \in stale THEN t.gz[l]
                                            ELSE @[l]]]

TouchedOnly(before, touched) == touched

\* withSnapshotDirs: also the feed dirs that had an index before.
Described(before, touched) == indexLeaves(before) \cup touched

-----------------------------------------------------------------------------
\* An incremental build that touched some leaves, signing or not (--sign and
\* the keys at hand).  It may fail to sign some of the indexes, which is only
\* a message.
Build ==
    /\ clock < MaxIndexes
    /\ clock' = clock + 1
    /\ \E touched \in SUBSET Leaves, signing \in BOOLEAN :
       \E signed \in IF signing THEN SUBSET touched ELSE {{}} :
        tree' = writeRepoHelpers(Indexed(tree, touched, signing, signed),
                                 signing, Described(tree, touched))
    /\ last' = "build"
    /\ UNCHANGED <<server, whole, key>>

\* A build that fails or dies: some indexes are complete, the writing of
\* others was cut short (an apk index is written next to itself and renamed).
\* It may still have written its helpers, for the complete ones.
BuildFails ==
    /\ clock < MaxIndexes
    /\ clock' = clock + 1
    /\ \E touched \in SUBSET Leaves, signing \in BOOLEAN :
       \E cut \in SUBSET touched :
       \E signed \in IF signing THEN SUBSET (touched \ cut) ELSE {{}} :
       \E stale \in SUBSET (cut \ ApkLeaves) : \E broken \in SUBSET stale :
        LET t == CutShort(Indexed(tree, touched \ cut, signing, signed),
                          cut, stale, broken)
        IN  tree' \in {t, writeRepoHelpers(t, signing,
                                           Described(tree, touched \ cut))}
    /\ last' = "none"
    /\ UNCHANGED <<server, whole, key>>

\* The tree of the build host replaces the local one (rsync --delete): it was
\* never signed.  A transfer that is cut short leaves some leaves as they
\* were, and signatures that were to be deleted; one leaf may have the new
\* Packages and the old Packages.gz.
Fetch ==
    /\ clock < MaxIndexes
    /\ clock' = clock + 1
    /\ \E there \in (SUBSET Leaves) \ {{}} :
       LET host == [Empty EXCEPT !.feeds = there,
                      !.index = [l \in Leaves |->
                                  IF l \in there THEN clock + 1 ELSE 0],
                      !.gz = [l \in Leaves |->
                                  IF l \in there THEN clock + 1 ELSE 0]]
       IN  \/ tree' = host
           \/ \E came \in SUBSET there, helpers \in {tree, host} :
              \E undeleted \in SUBSET (came \ ApkLeaves) :
              \E late \in {{}} \cup {{l} : l \in came \ ApkLeaves} :
                tree' = [helpers EXCEPT
                          !.index = [l \in Leaves |->
                            IF l \in came THEN host.index[l] ELSE tree.index[l]],
                          !.gz = [l \in Leaves |->
                            IF l \in came \ late THEN host.gz[l] ELSE tree.gz[l]],
                          !.sig = [l \in Leaves |->
                            IF l \in came \ undeleted
                            THEN NoSig ELSE tree.sig[l]]]
    /\ last' = "none"
    /\ UNCHANGED <<server, whole, key>>

\* The config gets a new key pair.
RotateKey(f) ==
    /\ key["ipk"] + key["apk"] < MaxKeys
    /\ key' = [key EXCEPT ![f] = @ + 1]
    /\ last' = "none"
    /\ UNCHANGED <<tree, server, whole, clock>>

-----------------------------------------------------------------------------
EveryDir == Leaves

UnsignedLeaves == {l \in indexLeaves(tree) : tree.sig[l] = NoSig}

\* Sign signs every index there is, signed or not.
LeavesToSign == indexLeaves(tree)

\* Sign in full: every leaf is signed and the helpers describe them all.
Sign ==
    /\ indexLeaves(tree) # {}
    /\ tree' = writeRepoHelpers(
                 [tree EXCEPT !.sig = Signatures(tree, LeavesToSign)],
                 TRUE, indexLeaves(tree))
    /\ last' = "sign"
    /\ UNCHANGED <<server, whole, key, clock>>

\* Sign that fails on some leaves: the helpers describe the others only; or
\* that dies before the helpers.
SignFails ==
    /\ indexLeaves(tree) # {}
    /\ \E ok \in SUBSET indexLeaves(tree) :
       LET t == [tree EXCEPT !.sig = Signatures(tree, ok)]
       IN  tree' \in {t, writeRepoHelpers(t, TRUE, ok)}
    /\ last' = "none"
    /\ UNCHANGED <<server, whole, key, clock>>

-----------------------------------------------------------------------------
\* verifyLeaves: every index has a signature that the configured key accepts.
LeafVerifies(t, l) == t.sig[l] = [of |-> t.index[l], key |-> KeyOf(l)]

\* verifyPublished, for one format: the served public key is the configured
\* one and add.sh has the key-install step.  For opkg it has to name the key;
\* the apk one installs the key that is served.
PublicKeyOnly(t, f) == t.pub[f] = key[f]

PublishedVerifies(t, f) ==
    /\ t.pub[f] = key[f]
    /\ IF f = "ipk" THEN t.keyID[f] = key[f] ELSE t.keyID[f] # 0

\* Verify, as its exit code.
Verify(t) ==
    /\ indexLeaves(t) # {}
    /\ \A l \in indexLeaves(t) : LeafVerifies(t, l)
    /\ \A f \in {leafFormat(l) : l \in indexLeaves(t)} : PublishedVerifies(t, f)

\* publish verifies the tree it is about to send.
Publish ==
    /\ Verify(tree)
    /\ server' = tree
    /\ whole' = TRUE
    /\ last' = "publish"
    /\ UNCHANGED <<tree, key, clock>>

\* A transfer that is cut short leaves a mix of two feeds on the server, of
\* which nothing is claimed: it is not told apart here.
PublishCut ==
    /\ Verify(tree)
    /\ server' = Empty
    /\ whole' = FALSE
    /\ last' = "none"
    /\ UNCHANGED <<tree, key, clock>>

Next ==
    \/ Build \/ BuildFails \/ Fetch \/ Sign \/ SignFails
    \/ Publish \/ PublishCut
    \/ \E f \in Formats : RotateKey(f)

Spec == Init /\ [][Next]_signVars

-----------------------------------------------------------------------------
(* Properties.                                                             *)

\* What a router needs of leaf l on the server: its index is signed, with the
\* key that add.sh installs (the key-install step of addSHTemplate and
\* addSHAPKTemplate; opkg looks the key up by its id).  The feeds add.sh
\* configures are src/gz: opkg checks the signature against what it finds in
\* Packages.gz.
RouterTrusts(l) ==
    LET f == leafFormat(l)
    IN  /\ server.sig[l].of = server.gz[l]
        /\ server.sig[l].key = server.pub[f]
        /\ server.keyID[f] # 0
        /\ f = "ipk" => server.keyID[f] = server.pub[f]

\* Whatever was built, fetched, signed, rotated and failed before: a router
\* that runs the published add.sh accepts every published index, but for those
\* whose Packages and Packages.gz differ (the run publish_gz is about them).
PublishedIsTrusted ==
    whole => \A l \in indexLeaves(server) :
                server.gz[l] = server.index[l] => RouterTrusts(l)

\* A `sign` that reports success mends every tree: the next `verify` passes,
\* after an unsigned rebuild, a fetch, a key rotation or a failed signing.
SignMends == last = "sign" => Verify(tree)

\* After a build or a signing that succeeded, add.sh asks for every feed dir
\* that has an index, also those this build did not touch.
HelpersDescribeTree ==
    last \in {"build", "sign"} => tree.feeds = indexLeaves(tree)

-----------------------------------------------------------------------------
\* `publish` "refuses unsigned/broken signatures" (Makefile): what it lets
\* through, a router accepts.  It does not: a build that fails between
\* Packages and Packages.gz leaves two different indexes, and `sign` and
\* `verify` look at Packages only.
PublishedIsAccepted ==
    whole => \A l \in indexLeaves(server) : RouterTrusts(l)
=============================================================================
