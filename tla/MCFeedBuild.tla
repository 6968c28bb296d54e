----------------------------- MODULE MCFeedBuild -----------------------------
(***************************************************************************)
(* Small instances of FeedBuild: d1 is a feed dir of a release every layout *)
(* carries, d2 one of a release the layout may drop and take up again.      *)
(* compareVersion cannot tell "2" from "2-0".                               *)
(***************************************************************************)
EXTENDS FeedBuild

CONSTANTS d1, d2

MCVersions == {"1", "2", "2-0"}
MCRank     == [v \in MCVersions |-> IF v = "1" THEN 1 ELSE 2]

MCLayouts == {{d1}, {d1, d2}}

\* The layout may also drop the only feed dir there is.
MCDropLayouts == {{}, {d1}}

\* One package in two versions for each feed dir.
MCTwoDirs ==
    [dir: {d1, d2}, pkg: {"p"}, ver: {"1", "2"}, sum: {"a"}]

MCOneDir == {c \in MCTwoDirs : c.dir = d1}

\* In one feed dir, two versions that compare as equal but have other names,
\* and one of them with two contents; in the other, an older version and a
\* package of another source.
MCMixed ==
    {[dir |-> d1, pkg |-> "p", ver |-> "2", sum |-> "a"],
     [dir |-> d1, pkg |-> "p", ver |-> "2", sum |-> "b"],
     [dir |-> d1, pkg |-> "p", ver |-> "2-0", sum |-> "a"],
     [dir |-> d2, pkg |-> "p", ver |-> "1", sum |-> "a"],
     [dir |-> d2, pkg |-> "p", ver |-> "2", sum |-> "a"],
     [dir |-> d2, pkg |-> "q", ver |-> "1", sum |-> "a"]}
=============================================================================
