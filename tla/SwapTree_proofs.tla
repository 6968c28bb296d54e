-------------------------- MODULE SwapTree_proofs --------------------------
(***************************************************************************)
(* The swap of a --full build, for every number of builds and faults: it   *)
(* implements ServedFeed.  IInv is the inductive invariant; that the view  *)
(* only goes forward follows from it, since a tree enters <output> in      *)
(* three steps only (Incremental, MoveIn, Rollback).                       *)
(***************************************************************************)
EXTENDS SwapTree, TLAPS

\* What may be left of a removed tree is a tree.
LEMMA RemainsType ==
    ASSUME NEW tree \in Tree
    PROVE  Remains(tree) \subseteq Tree
<1>1. NoTree \in Tree
    BY DEF NoTree, Tree
<1>2. [tree EXCEPT !.whole = FALSE] \in Tree
    BY DEF Tree
<1> QED
    BY <1>1, <1>2 DEF Remains

\* A step to idle: what is staged or left over may be any tree, since no run
\* relies on it.
LEMMA IdleInv ==
    ASSUME IInv, pc' = "idle", haveOld' \in BOOLEAN,
           out' = NoTree \/ (seen > 0 /\ out' = [gen |-> seen, whole |-> TRUE]),
           building' \in Tree, old' \in Tree,
           gen' = gen, seen' = seen, errors' \in Nat, kills' \in Nat
    PROVE  IInv'
<1>1. NoTree \in Tree /\ [gen |-> seen, whole |-> TRUE] \in Tree
    BY DEF IInv, TypeOK, Tree, NoTree
<1> QED
    BY <1>1 DEF IInv, TypeOK, Phases

\* The inductive step of IInv, for every action of Build and swapTree.
LEMMA IInvStep == IInv /\ [Next]_vars => IInv'
<1> SUFFICES ASSUME IInv, [Next]_vars PROVE IInv'
    OBVIOUS
<1> USE DEF trees
<1>t. /\ out \in Tree /\ building \in Tree /\ old \in Tree
      /\ haveOld \in BOOLEAN /\ errors \in Nat /\ kills \in Nat
      /\ out = NoTree \/ (seen > 0 /\ out = [gen |-> seen, whole |-> TRUE])
    BY DEF IInv, TypeOK
<1>n. NoTree \in Tree
    BY DEF NoTree, Tree
<1>h. haveOld' \in BOOLEAN
  <2>1. haveOld' = haveOld \/ haveOld' = TRUE \/ haveOld' = FALSE
      BY DEF Next, Incremental, StartFull, StartFullFails, Staged, StagingFails,
             RemoveOld, RemoveOldFails, MoveOut, MoveOutFails, MoveIn,
             MoveInFails, Rollback, RollbackFails, Cleanup, Crash, Return, vars
  <2> QED
      BY <1>t, <2>1, Zenon
<1>1. CASE Incremental
    BY <1>1 DEF Incremental, IInv, TypeOK, Tree, NoTree, Phases
<1>2. CASE StartFull
    BY <1>2 DEF StartFull, IInv, TypeOK, Tree, NoTree, Phases
<1>3. CASE StartFullFails
  <2>1. pc' = "idle"
      BY <1>3 DEF StartFullFails
  <2> QED
      BY <1>t, <1>h, <1>3, <2>1, RemainsType, IdleInv DEF StartFullFails, Error
<1>4. CASE Staged
    BY <1>4 DEF Staged, IInv, TypeOK, Tree, NoTree, Phases
<1>5. CASE StagingFails
    BY <1>t, <1>h, <1>5, RemainsType, IdleInv DEF StagingFails, Return
<1>6. CASE RemoveOld
    BY <1>6 DEF RemoveOld, IInv, TypeOK, Tree, NoTree, Phases
<1>7. CASE RemoveOldFails
    BY <1>t, <1>h, <1>7, RemainsType, IdleInv DEF RemoveOldFails, Return, Error
<1>8. CASE MoveOut
  <2>1. /\ out' = NoTree /\ old' \in Tree
        /\ haveOld' => seen > 0 /\ old' = [gen |-> seen, whole |-> TRUE]
    <3>1. CASE out = NoTree
        BY <1>t, <1>8, <3>1 DEF MoveOut
    <3>2. CASE out # NoTree
        BY <1>t, <1>8, <3>2 DEF MoveOut
    <3> QED
        BY <3>1, <3>2
  <2>2. TypeOK'
      BY <1>h, <1>n, <1>8, <2>1 DEF MoveOut, IInv, TypeOK, Phases
  <2> QED
      BY <1>8, <2>1, <2>2 DEF MoveOut, IInv
<1>9. CASE MoveOutFails
    BY <1>t, <1>h, <1>9, RemainsType, IdleInv DEF MoveOutFails, Return, Error
<1>10. CASE MoveIn
    BY <1>10 DEF MoveIn, IInv, TypeOK, Tree, NoTree, Phases
<1>11. CASE MoveInFails
  <2>1. CASE Return
      BY <1>t, <1>h, <1>11, <2>1, RemainsType, IdleInv
      DEF MoveInFails, Return, Error
  <2>2. CASE ~Return
      BY <1>11, <2>2 DEF MoveInFails, Error, MovedAway, IInv, TypeOK, Tree, NoTree, Phases
  <2> QED
      BY <2>1, <2>2
<1>12. CASE Rollback
  <2>1. out' = [gen |-> seen, whole |-> TRUE] /\ seen' = seen /\ seen > 0
      BY <1>12 DEF Rollback, IInv
  <2> QED
      BY <1>t, <1>h, <1>n, <1>12, <2>1, RemainsType, IdleInv DEF Rollback, Return
<1>13. CASE RollbackFails
    BY <1>t, <1>h, <1>13, RemainsType, IdleInv DEF RollbackFails, Return, Error
<1>14. CASE Cleanup
    BY <1>t, <1>h, <1>n, <1>14, RemainsType, IdleInv DEF Cleanup, Error
<1>15. CASE Crash
    BY <1>t, <1>h, <1>15, RemainsType, IdleInv DEF Crash, Kill
<1>16. CASE UNCHANGED vars
    BY <1>16 DEF vars, IInv, TypeOK, Tree, NoTree, Phases
<1> QED
    BY <1>1, <1>2, <1>3, <1>4, <1>5, <1>6, <1>7, <1>8, <1>9, <1>10, <1>11,
       <1>12, <1>13, <1>14, <1>15, <1>16 DEF Next

\* The swap invariant holds throughout: what is at <output> is nothing or the
\* newest finished build, and what a failed swap puts back is that build.
THEOREM SwapInvariance == Spec => []IInv
<1>1. NoTree \in Tree
    BY DEF NoTree, Tree
<1>2. Init => IInv
  <2> SUFFICES ASSUME Init PROVE IInv
      OBVIOUS
  <2>1. TypeOK
    <3>1. out \in Tree /\ building \in Tree /\ old \in Tree
        BY <1>1 DEF Init
    <3>2. haveOld \in BOOLEAN
        BY DEF Init
    <3>3. pc \in Phases
        BY DEF Init, Phases
    <3> QED
        BY <3>1, <3>2, <3>3 DEF Init, TypeOK
  <2> QED
      BY <2>1 DEF Init, IInv
<1> QED
    BY <1>2, IInvStep, PTL DEF Spec

\* Every step shows a newer build, or the same one again, or hides the feed,
\* or leaves it alone.
LEMMA StepRefines ==
    IInv /\ IInv' /\ [Next]_vars => [Served!Next]_<<View, seen>>
<1> SUFFICES ASSUME IInv, IInv', [Next]_vars
             PROVE  Served!Next \/ UNCHANGED <<View, seen>>
    OBVIOUS
<1> USE DEF IInv, TypeOK, Tree, NoTree, View
<1>1. CASE out' # NoTree /\ seen' >= seen
  <2>1. out' = [gen |-> seen', whole |-> TRUE] /\ seen' \in Nat \ {0}
      BY <1>1
  <2>2. View' = seen'
      BY <1>1, <2>1
  <2> QED
      BY <1>1, <2>1, <2>2 DEF Served!Next, Served!Show
<1>2. CASE out' = NoTree /\ seen' = seen
  <2>1. View' = 0
      BY <1>2
  <2> QED
      BY <1>2, <2>1 DEF Served!Next, Served!Hide
<1>3. (out' # NoTree /\ seen' >= seen) \/ (out' = NoTree /\ seen' = seen)
  <2>1. CASE Incremental
      BY <2>1 DEF Incremental
  <2>2. CASE MoveIn
      BY <2>2 DEF MoveIn
  <2>3. CASE Rollback
      BY <2>3 DEF Rollback, Return
  <2>4. CASE seen' = seen
      BY <2>4
  <2> QED
      BY <2>1, <2>2, <2>3, <2>4
      DEF Next, StartFull, StartFullFails, Staged, StagingFails, RemoveOld,
          RemoveOldFails, MoveOut, MoveOutFails, MoveInFails, RollbackFails,
          Cleanup, Crash, vars
<1> QED
    BY <1>1, <1>2, <1>3

\* Build's promise about --full, with any number of failures and kills: the
\* routers never see half a tree, nor an older build after a newer one.
THEOREM Refinement == Spec => ImplementsServedFeed
<1>1. Init => Served!Init
    BY DEF Init, Served!Init, View, NoTree
<1> QED
    BY <1>1, StepRefines, SwapInvariance, PTL
    DEF Spec, ImplementsServedFeed, Served!Spec

\* Every fault is counted, and no action puts a feed at <output> off the air
\* but MoveOut, after which it is at old.
LEMMA FaultInvStep == IInv /\ IInv' /\ FaultInv /\ [Next]_vars => FaultInv'
<1> SUFFICES ASSUME IInv, IInv', FaultInv, [Next]_vars PROVE FaultInv'
    OBVIOUS
<1> USE DEF trees, FaultInv
<1>t. /\ errors \in Nat /\ kills \in Nat /\ seen \in Nat
      /\ haveOld \in BOOLEAN
    BY DEF IInv, TypeOK
<1>1. CASE Incremental
    BY <1>1 DEF Incremental, NoTree
<1>2. CASE StartFull
    BY <1>2 DEF StartFull
<1>3. CASE StartFullFails
    BY <1>t, <1>3 DEF StartFullFails, Error
<1>4. CASE Staged
    BY <1>4 DEF Staged
<1>5. CASE StagingFails
    BY <1>5 DEF StagingFails, Return
<1>6. CASE RemoveOld
    BY <1>6 DEF RemoveOld
<1>7. CASE RemoveOldFails
    BY <1>t, <1>7 DEF RemoveOldFails, Return, Error
<1>8. CASE MoveOut
    BY <1>t, <1>8 DEF MoveOut
<1>9. CASE MoveOutFails
    BY <1>t, <1>9 DEF MoveOutFails, Return, Error
<1>10. CASE MoveIn
    BY <1>10 DEF MoveIn, IInv, TypeOK, NoTree, Tree
<1>11. CASE MoveInFails
    BY <1>t, <1>11 DEF MoveInFails, Return, Error, MovedAway
<1>12. CASE Rollback
    BY <1>12 DEF Rollback, Return, IInv, NoTree
<1>13. CASE RollbackFails
    BY <1>t, <1>13 DEF RollbackFails, Return, Error
<1>14. CASE Cleanup
    BY <1>t, <1>14 DEF Cleanup, Error
<1>15. CASE Crash
    BY <1>t, <1>15 DEF Crash, Kill, IInv
<1>16. CASE UNCHANGED vars
    BY <1>16 DEF vars
<1> QED
    BY <1>1, <1>2, <1>3, <1>4, <1>5, <1>6, <1>7, <1>8, <1>9, <1>10, <1>11,
       <1>12, <1>13, <1>14, <1>15, <1>16 DEF Next

\* What one fault can have left is invariant.
LEMMA FaultInvariance == Spec => []FaultInv
<1>1. Init => FaultInv
    BY DEF Init, FaultInv
<1> QED
    BY <1>1, FaultInvStep, SwapInvariance, PTL DEF Spec

\* swapTree's order of steps: while at most one call failed or one run was
\* killed, a whole tree is at one of the three paths.
THEOREM SingleFaultCorrect == Spec => []NoSingleFaultLosesFeed
<1>1. IInv /\ FaultInv => NoSingleFaultLosesFeed
  <2> SUFFICES ASSUME IInv, FaultInv, errors + kills <= 1, seen > 0
               PROVE  \E tree \in {out, building, old} : tree.whole
      BY DEF NoSingleFaultLosesFeed
  <2>1. CASE out # NoTree
      BY <2>1 DEF IInv
  <2>2. CASE out = NoTree /\ pc \in {"moveOut", "moveIn", "rollback"}
      BY <2>2 DEF IInv
  <2>3. CASE out = NoTree /\ pc \in {"idle", "staging", "swap"}
      BY <2>3 DEF FaultInv
  <2>4. CASE out = NoTree /\ pc = "cleanup"
      BY <2>4 DEF FaultInv
  <2> QED
      BY <2>1, <2>2, <2>3, <2>4 DEF IInv, TypeOK, Phases
<1> QED
    BY <1>1, SwapInvariance, FaultInvariance, PTL

\* swapTree's roll-back: a single failed call does not take the feed off the
\* air for longer than its run.
THEOREM SingleErrorCorrect == Spec => []NoSingleErrorHidesFeed
<1>1. IInv /\ FaultInv => NoSingleErrorHidesFeed
    BY DEF IInv, TypeOK, FaultInv, NoSingleErrorHidesFeed
<1> QED
    BY <1>1, SwapInvariance, FaultInvariance, PTL
=============================================================================
