--------------------------- MODULE MCDownloadCache ---------------------------
(***************************************************************************)
(* Two URLs, and a source of every kind over them: two see the same URL,  *)
(* two repack files into the same package.  Two contents of one size, and  *)
(* a body that breaks off.                                                 *)
(***************************************************************************)
EXTENDS Collection

CONSTANTS feed, github, html, pattern, tree, bin, upd, a, b, c1, c2, pkg, root, sub

MCMeta == [s \in Sources |-> CASE s = feed -> "sha256"
                               [] s \in {github, tree} -> "size"
                               [] OTHER -> "none"]
MCSize == c1 :> 2 @@ c2 :> 2 @@ Cut :> 1

MCKind == feed :> "feed" @@ github :> "github" @@ html :> "html" @@
          pattern :> "ipk" @@ tree :> "github_dir" @@ bin :> "github" @@ upd :> "url"
MCPlace == feed :> {a} @@ github :> {a, b} @@ html :> {a} @@
           pattern :> {a, b} @@ tree :> {a, b} @@ bin :> {a} @@ upd :> {b}

MCDirOf   == a :> root @@ b :> sub
MCSubdirs == root :> <<sub>> @@ sub :> <<>>

\* a and b are versions of one package.
MCGroup == [u \in Urls |-> pkg]
MCRank  == a :> 1 @@ b :> 2

MCPackageOf == [s \in Sources |-> [u \in Urls |-> pkg]]
MCConfigs == {{github}, {feed, html}, {pattern}, {tree}, {bin, upd}}

\* At first a is there, and b may be, both with c1.
MCInit == CollectInit /\ upstream[a] = c1 /\ upstream[b] # c2
MCSpec == MCInit /\ [][CollectNext]_collectVars
=============================================================================
