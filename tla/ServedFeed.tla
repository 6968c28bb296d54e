----------------------------- MODULE ServedFeed -----------------------------
(***************************************************************************)
(* What the routers see of a feed whose builds replace it: nothing, or one *)
(* finished build, and never an older one after a newer one.               *)
(***************************************************************************)
EXTENDS Naturals

VARIABLES
    view,  \* the build that is served, 0 when there is nothing to serve
    last   \* the newest build that was ever served

Init == view = 0 /\ last = 0

Show ==
    /\ view' \in Nat \ {0}
    /\ view' >= last
    /\ last' = view'

Hide ==
    /\ view' = 0
    /\ UNCHANGED last

Next == Show \/ Hide

Spec == Init /\ [][Next]_<<view, last>>
=============================================================================
