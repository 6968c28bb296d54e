------------------------------ MODULE SwapTree ------------------------------
(***************************************************************************)
(* How a --full build replaces the served tree (build.go, Build and        *)
(* swapTree): it is staged in <output>.building; the served tree is moved  *)
(* to <output>.old, the staged one to <output>, and the old one removed.   *)
(* Any of these steps can fail, and the process can be killed between them *)
(* or in the middle of removing a tree.  An incremental build works on     *)
(* <output> itself; what it does inside is the subject of FeedBuild.       *)
(***************************************************************************)
EXTENDS Naturals

CONSTANTS
    MaxBuilds,  \* bound: builds that are started
    MaxFaults   \* bound: failed renames and removals, and kills

ASSUME BoundsAssumption == MaxBuilds \in Nat /\ MaxFaults \in Nat

\* A tree: the build it is of, and whether it holds all of that build.
\* Generation 0 is no tree at all.
Tree   == [gen: Nat, whole: BOOLEAN]
NoTree == [gen |-> 0, whole |-> FALSE]

VARIABLES
    out, building, old,  \* the three paths
    pc,                  \* where in Build the current run is
    haveOld,             \* swapTree: the served tree was moved to old
    gen,                 \* the number of the last build started
    seen,                \* history: the newest build that was served
    errors, kills        \* history: failed calls, killed runs

trees == <<out, building, old>>
vars == <<trees, pc, haveOld, gen, seen, errors, kills>>

Phases == {"idle", "staging", "swap", "moveOut", "moveIn", "rollback",
           "cleanup"}

TypeOK ==
    /\ out \in Tree /\ building \in Tree /\ old \in Tree
    /\ pc \in Phases
    /\ haveOld \in BOOLEAN
    /\ gen \in Nat /\ seen \in Nat /\ errors \in Nat /\ kills \in Nat

Init ==
    /\ out = NoTree /\ building = NoTree /\ old = NoTree
    /\ pc = "idle" /\ haveOld = FALSE
    /\ gen = 0 /\ seen = 0 /\ errors = 0 /\ kills = 0

\* What is left of a tree when its removal fails or is cut short.
Remains(tree) == {NoTree, tree, [tree EXCEPT !.whole = FALSE]}

Error ==
    /\ errors + kills < MaxFaults
    /\ errors' = errors + 1
    /\ UNCHANGED kills

Kill ==
    /\ errors + kills < MaxFaults
    /\ kills' = kills + 1
    /\ UNCHANGED errors

\* Build returns: the staged tree is removed unless it was swapped in, as far
\* as that works.
Return ==
    /\ pc' = "idle"
    /\ haveOld' = FALSE
    /\ building' \in Remains(building)

-----------------------------------------------------------------------------
\* An incremental build that runs to its end; it creates <output> if need be.
Incremental ==
    /\ pc = "idle"
    /\ gen < MaxBuilds
    /\ gen' = gen + 1
    /\ out' = [gen |-> gen + 1, whole |-> TRUE]
    /\ seen' = gen + 1
    /\ UNCHANGED <<building, old, pc, haveOld, errors, kills>>

\* A --full build removes what an earlier one left staged and starts afresh.
StartFull ==
    /\ pc = "idle"
    /\ gen < MaxBuilds
    /\ gen' = gen + 1
    /\ building' = [gen |-> gen + 1, whole |-> FALSE]
    /\ pc' = "staging"
    /\ UNCHANGED <<out, old, haveOld, seen, errors, kills>>

StartFullFails ==
    /\ pc = "idle"
    /\ Error
    /\ building' \in Remains(building)
    /\ UNCHANGED <<out, old, pc, haveOld, gen, seen>>

\* Everything is placed, indexed and helped: the tree is ready to swap in.
Staged ==
    /\ pc = "staging"
    /\ building' = [building EXCEPT !.whole = TRUE]
    /\ pc' = "swap"
    /\ UNCHANGED <<out, old, haveOld, gen, seen, errors, kills>>

SwapAnyway ==
    /\ pc = "staging"
    /\ pc' = "swap"
    /\ UNCHANGED <<trees, haveOld, gen, seen, errors, kills>>

\* A build that fails before the swap costs nothing but its staging tree.
StagingFails ==
    /\ pc = "staging"
    /\ Return
    /\ UNCHANGED <<out, old, gen, seen, errors, kills>>

\* swapTree: what an earlier swap left in old goes first.
RemoveOld ==
    /\ pc = "swap"
    /\ old' = NoTree
    /\ pc' = "moveOut"
    /\ UNCHANGED <<out, building, haveOld, gen, seen, errors, kills>>

RemoveOldFails ==
    /\ pc = "swap"
    /\ Error
    /\ old' \in Remains(old)
    /\ Return
    /\ UNCHANGED <<out, gen, seen>>

RemoveOut ==
    /\ pc = "moveOut"
    /\ pc' = "moveIn"
    /\ out' = NoTree
    /\ UNCHANGED <<building, old, haveOld, gen, seen, errors, kills>>

\* The served tree, if there is one, is moved away.
MoveOut ==
    /\ pc = "moveOut"
    /\ pc' = "moveIn"
    /\ IF out = NoTree
       THEN haveOld' = FALSE /\ UNCHANGED <<out, old>>
       ELSE haveOld' = TRUE /\ old' = out /\ out' = NoTree
    /\ UNCHANGED <<building, gen, seen, errors, kills>>

MoveOutFails ==
    /\ pc = "moveOut"
    /\ out # NoTree
    /\ Error
    /\ Return
    /\ UNCHANGED <<out, old, gen, seen>>

\* The staged tree is moved in.
MoveIn ==
    /\ pc = "moveIn"
    /\ out' = building
    /\ seen' = building.gen
    /\ building' = NoTree
    /\ pc' = "cleanup"
    /\ UNCHANGED <<old, haveOld, gen, errors, kills>>

NothingKept == FALSE
MovedAway   == haveOld

MoveInFails ==
    /\ pc = "moveIn"
    /\ Error
    /\ IF MovedAway
       THEN pc' = "rollback" /\ UNCHANGED <<building, haveOld>>
       ELSE Return
    /\ UNCHANGED <<out, old, gen, seen>>

\* Best effort: the previous feed is put back.
Rollback ==
    /\ pc = "rollback"
    /\ out' = old
    /\ seen' = old.gen
    /\ old' = NoTree
    /\ Return
    /\ UNCHANGED <<gen, errors, kills>>

RollbackFails ==
    /\ pc = "rollback"
    /\ Error
    /\ Return
    /\ UNCHANGED <<out, old, gen, seen>>

\* The old tree goes; that this fails is not even reported.
Cleanup ==
    /\ pc = "cleanup"
    /\ pc' = "idle"
    /\ haveOld' = FALSE
    /\ \/ old' = NoTree /\ UNCHANGED <<errors, kills>>
       \/ Error /\ old' \in Remains(old)
    /\ UNCHANGED <<out, building, gen, seen>>

\* Killed: nothing of the above is undone.
Crash ==
    /\ pc # "idle"
    /\ Kill
    /\ pc' = "idle"
    /\ haveOld' = FALSE
    /\ old' \in IF pc \in {"swap", "cleanup"} THEN Remains(old) ELSE {old}
    /\ UNCHANGED <<out, building, gen, seen>>

Next ==
    \/ Incremental \/ StartFull \/ StartFullFails \/ Staged \/ StagingFails
    \/ RemoveOld \/ RemoveOldFails \/ MoveOut \/ MoveOutFails
    \/ MoveIn \/ MoveInFails \/ Rollback \/ RollbackFails
    \/ Cleanup \/ Crash

Spec == Init /\ [][Next]_vars

-----------------------------------------------------------------------------
(* Properties.                                                             *)

\* The routers see nothing or a finished build, and builds only go forward:
\* no half-staged or half-removed tree is ever at <output>, and what comes
\* back after a failed swap is what was there before (swapTree).
View == IF out = NoTree THEN 0 ELSE IF out.whole THEN out.gen ELSE gen + 1
Served == INSTANCE ServedFeed WITH view <- View, last <- seen
ImplementsServedFeed == Served!Spec

\* Once a feed was served, no single failure or kill loses it: a whole tree
\* is at one of the three paths (the order of swapTree's steps).
NoSingleFaultLosesFeed ==
    errors + kills <= 1 /\ seen > 0
        => \E tree \in {out, building, old} : tree.whole

\* A single failed call never takes the feed off the air once its run has
\* returned: swapTree puts the previous feed back.
NoSingleErrorHidesFeed ==
    errors <= 1 /\ kills = 0 /\ pc = "idle" /\ seen > 0 => out.whole

\* Why the refinement holds: <output> has nothing or the newest finished
\* build, only a complete tree gets as far as the swap, and what a failed
\* swap puts back is what it took away.
IInv ==
    /\ TypeOK
    /\ seen <= gen
    /\ out = NoTree \/ (seen > 0 /\ out = [gen |-> seen, whole |-> TRUE])
    /\ pc \in {"staging", "swap", "moveOut", "moveIn", "rollback"}
        => gen > 0 /\ building.gen = gen
    /\ pc \in {"swap", "moveOut", "moveIn", "rollback"} => building.whole
    /\ pc \in {"moveIn", "rollback"} => out = NoTree
    /\ pc = "rollback" \/ (pc = "moveIn" /\ haveOld)
        => seen > 0 /\ old = [gen |-> seen, whole |-> TRUE]

\* What a feed off the air has cost: it takes a kill or two failed calls to
\* leave a run so, and it is then still at old until a staged tree is ready.
FaultInv ==
    /\ pc = "rollback" => errors > 0
    /\ pc = "cleanup" => out # NoTree
    /\ seen > 0 /\ out = NoTree =>
        /\ (pc \in {"moveIn", "rollback"} /\ haveOld) \/ errors > 1 \/ kills > 0
        /\ errors + kills <= 1 /\ pc \in {"idle", "staging", "swap"} => old.whole
=============================================================================
