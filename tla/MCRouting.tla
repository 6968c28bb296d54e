----------------------------- MODULE MCRouting -----------------------------
(***************************************************************************)
(* Two branches, one of each format, two releases on each; two             *)
(* architectures, three targets, two kernels.  Sources are bound to a      *)
(* release of the feed, to one it does not carry, or to none.              *)
(* A behaviour is about a package, or about two versions: every pair of    *)
(* up to three characters, with a digit that may overflow as a second one. *)
(***************************************************************************)
EXTENDS Routing, Versions

\* 0 1 2 a ~ . - :
MCChars == {48, 49, 50, 97, 126, 46, 45, 58}
MCVersionStrings == UNION {[1..n -> MCChars] : n \in 0..3}

MCInit ==
    \/ Init /\ versions = <<>>
    \/ /\ versions \in MCVersionStrings \X MCVersionStrings
       /\ phase = "none" /\ item = None /\ dirs = {} /\ others = {}
       /\ archFilter = {} /\ targetFilter = {}

MCSpec == MCInit /\ [][Next /\ UNCHANGED versions]_<<routeVars, versions>>

CONSTANTS b24, b25, a53, x86, all, noarch, filogic, mt7622, mediatek, x64, k1, k2

MCVersions == {<<b24, 6>>, <<b24, 7>>, <<b25, 4>>, <<b25, 5>>}
MCKmodVersion == <<b24, 6>>
MCTargets  == {<<mediatek, filogic>>, <<mediatek, mt7622>>, <<x86, x64>>}
MCFilters  == {{}, {a53}, {a53, x86}}
MCTargetFilters == {{}, {mediatek}, {filogic}, {<<mediatek, mt7622>>}}

MCArchs == Archs \cup {archAll, archNoarch}

MCItems ==
    {i \in [format: {"ipk", "apk"}, arch: MCArchs, kmod: BOOLEAN,
            vermagic: {k1, None},
            kmodVersion: {<<b24, 7>>, <<b25, 3>>, None},
            tag: {<<b25, 4>>, <<b24, 5>>, None},
            branch: {b24, b25, None},
            sourceTarget: {<<mediatek, filogic>>, None},
            knownArch: MCArchs \cup {None},
            name: [arch: MCArchs \cup {None}, target: MCTargets \cup {None}]] :
        \* the listing and the name tell the truth, or nothing
        /\ i.knownArch \in {i.arch, None}
        /\ Truthful(i.name.arch, i.arch)
        /\ i.name.arch = None => i.name.target = None
        /\ i.vermagic # None => i.kmod
        /\ i.kmodVersion # None => i.tag = None}

MCRouters ==
    [arch: Archs, target: MCTargets, release: MCVersions, kernel: {k1, k2}]

=============================================================================
