---------------------------- MODULE AtomicRestore ----------------------------
(***************************************************************************)
(* What BackupManager.restore promises: the live world is the pair of the  *)
(* SaveGames and Config trees, and a restore replaces both by those of one *)
(* snapshot, or fails and leaves both alone.                               *)
(***************************************************************************)
CONSTANTS Snapshots,  \* contents a tree can have
          Trees

VARIABLES world,      \* the content of each live tree
          restoring   \* the snapshot being restored, or "none"

avars == <<world, restoring>>

AInit == world \in [Trees -> Snapshots] /\ restoring = "none"

Start(v) == restoring = "none" /\ restoring' = v /\ UNCHANGED world

Succeed == /\ restoring # "none" /\ restoring' = "none"
           /\ world' = [k \in Trees |-> restoring]

Fail == restoring # "none" /\ restoring' = "none" /\ UNCHANGED world

ANext == (\E v \in Snapshots : Start(v)) \/ Succeed \/ Fail

ASpec == AInit /\ [][ANext]_avars
=============================================================================
