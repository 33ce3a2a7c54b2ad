-------------------------- MODULE LiveTreesProofs --------------------------
(***************************************************************************)
(* Proofs about LiveTrees, for any number of faults and restores: what the *)
(* world was is never destroyed, with or without crashes; and, when at     *)
(* most one fault strikes a restore and the process is not killed, restore *)
(* implements the atomic one.                                              *)
(***************************************************************************)
EXTENDS LiveTrees, TLAPS

-----------------------------------------------------------------------------
(* The inductive invariant: what each tree's three directories hold at     *)
(* every step of the restore.                                              *)

\* Staged and not yet touched.
Ready(i) == live[i] = before[i] /\ temp[i] = wanted /\ roll[i] = "none"

\* Published, with the tree it replaced in the rollback directory.
Done(i) == live[i] = wanted /\ roll[i] = before[i]

\* Between the two renames.
Away(i) == live[i] = "none" /\ temp[i] = wanted /\ roll[i] = before[i]

\* While it copies, the live trees are those from before.
Copying ==
  /\ phase \in {"saving", "staging"} => live = before
  /\ phase = "saving" => staged = 0 /\ \A i \in Trees : i < k => before[i] \in saved[i]
  /\ phase = "staging" => staged = k - 1 /\ \A i \in Trees : i < k => Ready(i)

\* While it publishes, the trees behind k are done and those ahead are ready.
Publishing ==
  /\ phase \in {"moving", "publishing", "syncing"} =>
       /\ staged = 2
       /\ \A i \in Trees : (i < k => Done(i)) /\ (i > k => Ready(i))
  /\ phase = "moving" => Ready(k)
  /\ phase = "publishing" => Away(k)
  /\ phase = "syncing" => Done(k)
  /\ phase = "cleaning" => \A i \in Trees : live[i] = wanted

\* While it recovers, a rollback directory ahead of it holds its tree, and every other
\* tree is in place.
Undoing ==
  phase = "undoing" =>
    \A i \in Trees : IF i <= k /\ roll[i] # "none" THEN roll[i] = before[i] ELSE live[i] = before[i]

IInv == /\ TypeOK /\ NothingDestroyed /\ SavedFirst
        /\ Copying /\ Publishing /\ Undoing
        /\ \A i \in Trees : before[i] # "none"

-----------------------------------------------------------------------------

\* Init starts with a whole world, the one the history variable names.
THEOREM Initially == Init => IInv
  BY FaultAssumption, NameAssumption
     DEF Init, IInv, TypeOK, NothingDestroyed, SavedFirst, Copying, Publishing, Undoing,
         Trees, Contents, Phases, Ready, Done, Away

\* Every step of restore, every fault and every crash keeps the invariant.
THEOREM Inductive == IInv /\ [Next]_vars => IInv'
  <1> SUFFICES ASSUME IInv, [Next]_vars PROVE IInv'
    OBVIOUS
  <1> USE FaultAssumption, NameAssumption
      DEF IInv, TypeOK, NothingDestroyed, SavedFirst, Copying, Publishing, Undoing, Trees,
          Contents, Phases, Ready, Done, Away, files, run
  <1>1. CASE \E v \in Snapshots : Begin(v)
    BY <1>1 DEF Begin
  <1>2. CASE Save
    <2>1. /\ saved' \in [Trees -> SUBSET Contents]
          /\ before[k] \in saved'[k] /\ \A i \in Trees : saved[i] \subseteq saved'[i]
      BY <1>2 DEF Save
    <2>2. /\ phase' = IF k = 1 THEN "saving" ELSE "staging"
          /\ k' = IF k = 1 THEN 2 ELSE 1
          /\ UNCHANGED <<live, temp, roll, attic, staged, wanted, before, restores, faults>>
      BY <1>2 DEF Save, Advance
    <2>3. TypeOK'
      BY <2>1, <2>2
    <2>4. phase = "saving" /\ live = before
      BY <1>2 DEF Save
    <2>5. CASE k = 1
      BY <2>1, <2>2, <2>3, <2>4, <2>5
    <2>6. CASE k = 2
      BY <2>1, <2>2, <2>3, <2>4, <2>6
    <2> QED
      BY <2>5, <2>6
  <1>3. CASE SaveFails
    BY <1>3 DEF SaveFails, Fault
  <1>4. CASE Stage
    BY <1>4 DEF Stage, Advance
  <1>5. CASE StageRefused
    BY <1>5 DEF StageRefused, Recover
  <1>6. CASE StageFails
    BY <1>6 DEF StageFails, Recover, Fault
  <1>7. CASE MoveAway
    BY <1>7 DEF MoveAway
  <1>8. CASE PublishTree
    BY <1>8 DEF PublishTree
  <1>9. CASE SyncTree
    BY <1>9 DEF SyncTree
  <1>10. CASE ReplaceFails
    BY <1>10 DEF ReplaceFails, Recover, Fault
  <1>11. CASE Undo
    BY <1>11 DEF Undo, Undone, Back
  <1>12. CASE UndoLeavesTemp
    BY <1>12 DEF UndoLeavesTemp, Undone, Back, Fault
  <1>13. CASE UndoFails
    BY <1>13 DEF UndoFails, Fault
  <1>14. CASE Clean
    BY <1>14 DEF Clean, Advance, Fault
  <1>15. CASE Crash
    BY <1>15 DEF Crash
  <1>16. CASE NewPid
    BY <1>16 DEF NewPid
  <1>17. CASE UNCHANGED vars
    BY <1>17 DEF vars
  <1>18. QED
    BY <1>1, <1>2, <1>3, <1>4, <1>5, <1>6, <1>7, <1>8, <1>9, <1>10, <1>11, <1>12, <1>13,
       <1>14, <1>15, <1>16, <1>17 DEF Next

\* The invariant in its temporal form.
THEOREM Invariant == Spec => []IInv
  BY Initially, Inductive, PTL DEF Spec

\* Every directory, counter and phase keeps its type.
THEOREM TypeCorrect == Spec => []TypeOK
  BY Invariant, PTL DEF IInv

\* Whatever fails and whenever the process dies, the world from before an uncommitted
\* restore is still there, in the live trees or beside them.
THEOREM WorldKept == Spec => []NothingDestroyed
  BY Invariant, PTL DEF IInv

\* No live path is touched before the safety copy of both trees is complete.
THEOREM CopiedFirst == Spec => []SavedFirst
  BY Invariant, PTL DEF IInv

-----------------------------------------------------------------------------
(* The refinement of AtomicRestore.                                        *)

\* With one fault at most, recovery that has a tree to put back meets no other fault.
OneFault == phase = "undoing" => faults > 0 \/ \A i \in Trees : i <= k => roll[i] = "none"

\* OneFault holds from the start and every step keeps it, given the invariant.
LEMMA OneFaultInductive ==
  /\ Init => OneFault
  /\ IInv /\ OneFault /\ [Next]_vars => OneFault'
  <1>1. Init => OneFault
    BY DEF Init, OneFault
  <1>2. ASSUME IInv, OneFault, [Next]_vars PROVE OneFault'
    <2> USE <1>2, FaultAssumption
        DEF OneFault, IInv, TypeOK, Copying, Ready, Trees, files, run
    <2>1. CASE \E v \in Snapshots : Begin(v)
      BY <2>1 DEF Begin
    <2>2. CASE Save \/ SaveFails \/ Stage
      BY <2>2 DEF Save, SaveFails, Stage, Advance
    <2>3. CASE StageRefused
      BY <2>3 DEF StageRefused, Recover
    <2>4. CASE StageFails \/ ReplaceFails \/ UndoFails
      BY <2>4 DEF StageFails, ReplaceFails, UndoFails, Fault
    <2>5. CASE MoveAway \/ PublishTree \/ SyncTree \/ Clean
      BY <2>5 DEF MoveAway, PublishTree, SyncTree, Clean, Advance
    <2>6. CASE Undo
      BY <2>6 DEF Undo, Back
    <2>7. CASE UndoLeavesTemp
      BY <2>7 DEF UndoLeavesTemp, Back, Fault
    <2>8. CASE Crash \/ NewPid \/ UNCHANGED vars
      BY <2>8 DEF Crash, NewPid, vars
    <2> QED
      BY <2>1, <2>2, <2>3, <2>4, <2>5, <2>6, <2>7, <2>8 DEF Next
  <1> QED
    BY <1>1, <1>2

\* Steps of restore that leave the abstract state alone, and the two that end it.
LEMMA StepsRefine ==
  ASSUME MaxFaults <= 1, ~Crashes, IInv, OneFault, [Next]_vars
  PROVE  [Atomic!ANext]_(Atomic!avars)
  <1> USE FaultAssumption, NameAssumption
      DEF IInv, TypeOK, Trees, Contents, Phases, files, run, Committed
  <1>1. ASSUME NEW v \in Snapshots, Begin(v) PROVE Atomic!Start(v)
    BY <1>1 DEF Begin, Atomic!Start
  <1>2. ASSUME Save \/ Stage \/ MoveAway \/ PublishTree \/ NewPid \/ Clean \/ UNCHANGED vars
        PROVE  UNCHANGED Atomic!avars
    BY <1>2 DEF Save, Stage, MoveAway, PublishTree, NewPid, Clean, Advance, vars, Atomic!avars
  <1>3. ASSUME SyncTree PROVE Atomic!Succeed \/ UNCHANGED Atomic!avars
    <2>1. CASE k = 1
      BY <1>3, <2>1 DEF SyncTree, Atomic!avars
    <2>2. CASE k = 2
      <3>1. live' = [i \in Trees |-> wanted] /\ phase = "syncing" /\ phase' = "cleaning"
        BY <1>3, <2>2 DEF SyncTree, Publishing, Ready, Done
      <3> QED
        BY <3>1 DEF Atomic!Succeed
    <2> QED
      BY <2>1, <2>2
  <1>4. ASSUME SaveFails PROVE Atomic!Fail
    BY <1>4 DEF SaveFails, Copying, Atomic!Fail
  <1>5. ASSUME StageRefused \/ StageFails PROVE Atomic!Fail \/ UNCHANGED Atomic!avars
    BY <1>5 DEF StageRefused, StageFails, Recover, Copying, Atomic!Fail, Atomic!avars
  <1>6. ASSUME ReplaceFails PROVE UNCHANGED Atomic!avars
    BY <1>6 DEF ReplaceFails, Recover, Publishing, Atomic!avars
  <1>7. ASSUME Undo \/ UndoLeavesTemp PROVE Atomic!Fail \/ UNCHANGED Atomic!avars
    <2>1. /\ phase = "undoing" /\ phase' \in {"undoing", "idle"}
          /\ UNCHANGED <<wanted, before>>
          /\ live' = [live EXCEPT ![k] = Undone(k)]
          /\ phase' = "idle" => k = 1
      BY <1>7 DEF Undo, UndoLeavesTemp, Back
    <2>2. CASE phase' = "undoing"
      BY <2>1, <2>2 DEF Atomic!avars
    <2>3. CASE phase' = "idle"
      <3>1. live' = before
        BY <2>1, <2>3 DEF Undone, Undoing
      <3> QED
        BY <2>1, <2>3, <3>1 DEF Atomic!Fail
    <2> QED
      BY <2>1, <2>2, <2>3
  <1>8. ~UndoFails /\ ~Crash
    BY DEF UndoFails, Crash, Fault, OneFault
  <1> QED
    BY <1>1, <1>2, <1>3, <1>4, <1>5, <1>6, <1>7, <1>8 DEF Next, Atomic!ANext

\* When at most one fault strikes a restore and the process is not killed, restore replaces
\* both live trees or neither.
THEOREM Atomicity ==
  ASSUME MaxFaults <= 1, ~Crashes
  PROVE  Spec => ImplementsAtomic
  <1>1. Init => Atomic!AInit
    BY DEF Init, Atomic!AInit
  <1>2. IInv /\ OneFault /\ [Next]_vars => [Atomic!ANext]_(Atomic!avars)
    BY StepsRefine
  <1> QED
    BY <1>1, <1>2, Invariant, OneFaultInductive, PTL DEF Spec, ImplementsAtomic, Atomic!ASpec
=============================================================================
