--------------------------- MODULE MCSignPublish ---------------------------
(***************************************************************************)
(* Two opkg feed dirs, which are interchangeable, and one of apk.          *)
(***************************************************************************)
EXTENDS SignPublish, TLC

CONSTANTS base, luci, apk

OpkgSymmetry == Permutations({base, luci})
=============================================================================
