----------------------------- MODULE MCSdkCache -----------------------------
(***************************************************************************)
(* Two sources that share a build and make runs: s1 is built for both      *)
(* targets, s2 for one of them.                                            *)
(***************************************************************************)
EXTENDS SdkCache, TLC

CONSTANTS s1, s2, b1, b2, kmod, tools

MCWants  == s1 :> {kmod, tools} @@ s2 :> {tools}
MCMatrix == s1 :> {b1, b2} @@ s2 :> {b1}
MCName   == s1 :> s1 @@ s2 :> s2
=============================================================================
