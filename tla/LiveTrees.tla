------------------------------ MODULE LiveTrees ------------------------------
(***************************************************************************)
(* BackupManager.restore, backup.py: the safety copy, the staging of both  *)
(* trees beside the live ones, the four renames that publish them and the  *)
(* recovery from a failure between any two.                                *)
(*                                                                         *)
(* A fault makes one file operation fail; at most MaxFaults strike one     *)
(* restore.  A crash ends the process; the next one may have the same pid, *)
(* and then the same names for its temporary and rollback directories: in  *)
(* a container it usually does.                                            *)
(***************************************************************************)
EXTENDS Naturals

CONSTANTS
  Snapshots,   \* what a tree can hold: the contents of one of these
  MaxFaults,   \* bound on the faults in one restore
  MaxRestores, \* bound on the restores of a run
  Crashes      \* whether the process can be killed

ASSUME FaultAssumption == MaxFaults \in Nat /\ MaxRestores \in Nat /\ Crashes \in BOOLEAN
ASSUME NameAssumption  == Snapshots \cap {"none", "partial"} = {}

Trees    == {1, 2}                          \* SaveGames, then Config
Contents == Snapshots \cup {"none", "partial"}
Phases   == {"idle", "saving", "staging", "moving", "publishing", "syncing", "cleaning", "undoing"}

VARIABLES
  live,      \* the content of each live tree
  temp,      \* of its .restore-<pid> directory
  roll,      \* of its .rollback-<pid> directory
  saved,     \* what the complete safety copies of each tree hold
  attic,     \* what the rollback directories of other pids hold
  phase,     \* where restore is
  k,         \* the tree it works on
  staged,    \* len(temporaries): the trees recovery knows of
  wanted,    \* the snapshot being restored
  before,    \* the live trees when it began (history)
  faults,    \* how many faults have struck it
  restores   \* how many restores have begun

files == <<live, temp, roll, saved, attic>>
run   == <<wanted, before, restores>>
vars  == <<files, phase, k, staged, run, faults>>

Init == /\ live \in {[i \in Trees |-> v] : v \in Snapshots} /\ before = live
        /\ temp = [i \in Trees |-> "none"] /\ roll = [i \in Trees |-> "none"]
        /\ saved = [i \in Trees |-> {}] /\ attic = [i \in Trees |-> {}]
        /\ phase = "idle" /\ k = 1 /\ staged = 0 /\ faults = 0 /\ restores = 0
        /\ wanted = live[1]

\* On to the next tree, or to the first one of the next phase.
Advance(next) == IF k = 1 THEN k' = 2 /\ UNCHANGED phase ELSE k' = 1 /\ phase' = next

\* The except clause, which starts at the last tree that was staged.
Recover == /\ phase' = IF staged = 0 THEN "idle" ELSE "undoing"
           /\ k' = IF staged = 0 THEN 1 ELSE staged

Fault == faults < MaxFaults /\ faults' = faults + 1

-----------------------------------------------------------------------------

\* The preflight passes: the snapshot is valid, both live trees are directories.
Begin(v) == /\ phase = "idle" /\ restores < MaxRestores
            /\ \A i \in Trees : live[i] # "none"
            /\ phase' = "saving" /\ k' = 1 /\ staged' = 0 /\ faults' = 0
            /\ wanted' = v /\ before' = live /\ restores' = restores + 1
            /\ UNCHANGED files

\* Mutant: a safety copy of the worlds alone.
SaveWorlds == /\ phase = "saving"
              /\ saved' = [saved EXCEPT ![1] = @ \cup {live[1]}]
              /\ Advance("staging")
              /\ UNCHANGED <<live, temp, roll, attic, staged, run, faults>>

\* Copy a live tree to pre-restore-<stamp>.
Save == /\ phase = "saving"
        /\ saved' = [saved EXCEPT ![k] = @ \cup {live[k]}]
        /\ Advance("staging")
        /\ UNCHANGED <<live, temp, roll, attic, staged, run, faults>>

\* A safety copy that fails ends the restore before any live path was touched.
SaveFails == /\ phase = "saving" /\ Fault
             /\ phase' = "idle" /\ k' = 1
             /\ UNCHANGED <<files, staged, run>>

\* Copy a snapshot's tree beside the live one.
Stage == /\ phase = "staging" /\ temp[k] = "none" /\ roll[k] = "none"
         /\ temp' = [temp EXCEPT ![k] = wanted]
         /\ staged' = k
         /\ Advance("moving")
         /\ UNCHANGED <<live, roll, saved, attic, run, faults>>

\* "restore temporary path already exists"
StageRefused == /\ phase = "staging" /\ ~(temp[k] = "none" /\ roll[k] = "none")
                /\ Recover
                /\ UNCHANGED <<files, staged, run, faults>>

\* A copy that fails leaves a temporary that temporaries does not list.
StageFails == /\ phase = "staging" /\ temp[k] = "none" /\ roll[k] = "none" /\ Fault
              /\ temp' = [temp EXCEPT ![k] = "partial"]
              /\ Recover
              /\ UNCHANGED <<live, roll, saved, attic, staged, run>>

\* Mutant: the live tree is removed to make room.
RemoveLive == /\ phase = "moving"
              /\ live' = [live EXCEPT ![k] = "none"]
              /\ phase' = "publishing"
              /\ UNCHANGED <<temp, roll, saved, attic, k, staged, run, faults>>

\* os.replace(live, rollback)
MoveAway == /\ phase = "moving"
            /\ roll' = [roll EXCEPT ![k] = live[k]] /\ live' = [live EXCEPT ![k] = "none"]
            /\ phase' = "publishing"
            /\ UNCHANGED <<temp, saved, attic, k, staged, run, faults>>

\* os.replace(temporary, live)
PublishTree == /\ phase = "publishing"
               /\ live' = [live EXCEPT ![k] = temp[k]] /\ temp' = [temp EXCEPT ![k] = "none"]
               /\ phase' = "syncing"
               /\ UNCHANGED <<roll, saved, attic, k, staged, run, faults>>

\* fsync of the parent; after the second tree the restore is committed.
SyncTree == /\ phase = "syncing"
            /\ IF k = 1 THEN k' = 2 /\ phase' = "moving" ELSE k' = 1 /\ phase' = "cleaning"
            /\ UNCHANGED <<files, staged, run, faults>>

\* A rename or an fsync fails.
ReplaceFails == /\ phase \in {"moving", "publishing", "syncing"} /\ Fault
                /\ Recover
                /\ UNCHANGED <<files, staged, run>>

-----------------------------------------------------------------------------
(* Recovery and cleanup.                                                   *)

\* Mutant: recovery runs off the first tree.
BackTooFar == k' = k - 1 /\ phase' = IF k = 1 THEN "idle" ELSE phase

\* Done with tree k: the one before it is next.
Back == IF k = 1 THEN k' = 1 /\ phase' = "idle" ELSE k' = 1 /\ UNCHANGED phase

\* Mutant: recovery believes moved, which lacks the tree whose first rename failed.
UndoneUnlessPublished(i) == IF temp[i] # "none" THEN live[i] ELSE roll[i]

\* The live tree after its recovery: the rollback directory, if there is one, replaces it.
Undone(i) == IF roll[i] = "none" THEN live[i] ELSE roll[i]

Undo == /\ phase = "undoing"
        /\ live' = [live EXCEPT ![k] = Undone(k)]
        /\ roll' = [roll EXCEPT ![k] = "none"] /\ temp' = [temp EXCEPT ![k] = "none"]
        /\ Back
        /\ UNCHANGED <<saved, attic, staged, run, faults>>

\* The staged tree cannot be removed, which rmtree(ignore_errors=True) hides.
UndoLeavesTemp == /\ phase = "undoing" /\ temp[k] # "none" /\ Fault
                  /\ live' = [live EXCEPT ![k] = Undone(k)]
                  /\ roll' = [roll EXCEPT ![k] = "none"]
                  /\ temp' = [temp EXCEPT ![k] = "partial"]
                  /\ Back
                  /\ UNCHANGED <<saved, attic, staged, run>>

\* The published tree cannot be removed or the rename back fails: the exception leaves
\* the except clause, and no further tree is recovered.
UndoFails == /\ phase = "undoing" /\ roll[k] # "none" /\ Fault
             /\ \E left \in {live[k], "none", "partial"} : live' = [live EXCEPT ![k] = left]
             /\ phase' = "idle" /\ k' = 1
             /\ UNCHANGED <<temp, roll, saved, attic, staged, run>>

\* shutil.rmtree(rollback) after the commit; a failure is passed over.
Clean == /\ phase = "cleaning"
         /\ \/ roll' = [roll EXCEPT ![k] = "none"] /\ UNCHANGED faults
            \/ Fault /\ roll' = [roll EXCEPT ![k] = "partial"]
         /\ Advance("idle")
         /\ UNCHANGED <<live, temp, saved, attic, staged, run>>

\* The process is killed.
Crash == /\ Crashes /\ phase # "idle"
         /\ phase' = "idle" /\ k' = 1
         /\ UNCHANGED <<files, staged, run, faults>>

\* Another pid, to which the directories this one left are not in the way.
NewPid == /\ phase = "idle"
          /\ temp' = [i \in Trees |-> "none"] /\ roll' = [i \in Trees |-> "none"]
          /\ attic' = [i \in Trees |-> attic[i] \cup ({roll[i]} \ {"none"})]
          /\ UNCHANGED <<live, saved, phase, k, staged, run, faults>>

-----------------------------------------------------------------------------

Next == \/ \E v \in Snapshots : Begin(v)
        \/ Save \/ SaveFails \/ Stage \/ StageRefused \/ StageFails
        \/ MoveAway \/ PublishTree \/ SyncTree \/ ReplaceFails
        \/ Undo \/ UndoLeavesTemp \/ UndoFails \/ Clean \/ Crash \/ NewPid

Spec == Init /\ [][Next]_vars

-----------------------------------------------------------------------------
(* Correctness.                                                            *)

TypeOK ==
  /\ live \in [Trees -> Contents] /\ temp \in [Trees -> Contents] /\ roll \in [Trees -> Contents]
  /\ saved \in [Trees -> SUBSET Contents] /\ attic \in [Trees -> SUBSET Contents]
  /\ phase \in Phases /\ k \in Trees /\ staged \in {0, 1, 2}
  /\ wanted \in Snapshots /\ before \in [Trees -> Contents]
  /\ faults \in 0..MaxFaults /\ restores \in 0..MaxRestores

\* Until a restore is committed, what each live tree held when it began is there, whole, in
\* the live tree or beside it, whatever fails and whenever the process dies.
NothingDestroyed ==
  \A i \in Trees : \/ before[i] \in {live[i], roll[i]} \cup attic[i]
                   \/ live = [j \in Trees |-> wanted]

\* Once a live tree may be touched, a safety copy holds what both trees held before.
SavedFirst == phase \notin {"idle", "saving"} => \A i \in Trees : before[i] \in saved[i]

\* A restore has the effect of one that replaces both trees at once or fails.
Committed == phase = "cleaning"
Atomic == INSTANCE AtomicRestore WITH
            world     <- IF phase = "idle" \/ Committed THEN live ELSE before,
            restoring <- IF phase = "idle" \/ Committed THEN "none" ELSE wanted
ImplementsAtomic == Atomic!ASpec

-----------------------------------------------------------------------------
(* Known not to hold: with this formula as its INVARIANT a run shows how.  *)

\* "atomically publishing the restore": between restores, the live trees are those from
\* before the last one or those of its snapshot.
NeverMixed == phase = "idle" => live \in {before, [i \in Trees |-> wanted]}
=============================================================================
