---------------------------- MODULE MCInstaller ----------------------------
(***************************************************************************)
(* Two releases of one branch, two feeds, two keys, a kernel that may be   *)
(* unknown.  The server is rebuilt among three states: unsigned, with *)
(* key, with feeds that moved to all/, with one release's kernel modules.  *)
(***************************************************************************)
EXTENDS Installer

CONSTANTS b24, luci, base, k, key1, key2, u1

MCReleases == {<<b24, 6>>, <<b24, 7>>}

Luci == ArchDir(b24, luci)
MCFeeds(names) == [b \in {b24} |-> names]

MCServers ==
    {[dirs |-> {Luci}, feeds |-> MCFeeds(<<luci>>), key |-> None],
     [dirs |-> {Luci, AllDir(b24, luci), AllDir(b24, base), KmodsDir(<<b24, 6>>, k)},
      feeds |-> MCFeeds(<<base, luci>>), key |-> key1],
     [dirs |-> {ArchDir(b24, base), KmodsDir(<<b24, 7>>, k), TargetsDir(<<b24, 7>>)},
      feeds |-> MCFeeds(<<base, luci>>), key |-> key2]}

\* No list, one of the user, one with lines from before there were blocks.
MCInitLists ==
    {<<>>, <<User(None)>>, <<Old(Luci), User(None), Old(TargetsDir(<<b24, 6>>))>>}
=============================================================================
