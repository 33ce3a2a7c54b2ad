---------------------------- MODULE SnapshotStore ----------------------------
(***************************************************************************)
(* BackupManager.create_snapshot and its retention, backup.py: one         *)
(* directory of snapshots named by the second they were taken in, on a     *)
(* file system that can lose what was not flushed.                         *)
(*                                                                         *)
(* One call runs at a time: every caller holds the operation lock of its   *)
(* deployment.  A call can raise at every step, its process can be killed  *)
(* and the machine can lose power.  Names sort as the UTC seconds they     *)
(* stand for, and the clock is not set back.                               *)
(***************************************************************************)
EXTENDS Naturals, FiniteSets

CONSTANTS
  MaxStamp,  \* bound on the clock: the names a run can produce
  Retention  \* retention_count

ASSUME StampAssumption     == MaxStamp \in Nat \ {0}
ASSUME RetentionAssumption == Retention \in Nat \ {0}

Stamps == 1..MaxStamp
Parts  == {"savegames", "config", "manifest"}
Phases == {"idle", "staging", "publishing", "published", "pruning", "removing"}

VARIABLES
  now,       \* the clock
  store,     \* what backup_root holds under each snapshot name
  risk,      \* what of each name a power loss may undo: its entry, its contents
  phase,     \* where the running create_snapshot is
  name,      \* its snapshot's name
  copied,    \* the parts its staging directory holds
  flushed,   \* those of them on stable storage
  victim,    \* the snapshot retention is removing
  returned   \* names create_snapshot has returned to a caller (history)

job  == <<phase, name, copied, flushed, victim>>
vars == <<now, store, risk, job, returned>>

Listed  == {s \in Stamps : store[s] # "absent"}   \* list_snapshots
Safe(s) == store[s] = "whole" /\ risk[s] = {}     \* it survives a power loss whole

Init == /\ now = 1
        /\ store = [s \in Stamps |-> "absent"] /\ risk = [s \in Stamps |-> {}]
        /\ returned = {}
        /\ phase = "idle" /\ name = 1 /\ copied = {} /\ flushed = {} /\ victim = 1

-----------------------------------------------------------------------------

Tick == /\ now < MaxStamp
        /\ now' = now + 1
        /\ UNCHANGED <<store, risk, job, returned>>

-----------------------------------------------------------------------------
(* Staging: copy both trees, then describe what was copied.                *)

\* The preflight passes, neither name is taken, and the staging directory is made.
Begin == /\ phase = "idle" /\ store[now] = "absent"
         /\ phase' = "staging" /\ name' = now
         /\ copied' = {} /\ flushed' = {}
         /\ UNCHANGED <<now, store, risk, victim, returned>>

\* Mutant: the parent directory is flushed instead of what was written into it.
FlushParent(p) == flushed \cup {"parent"}

\* Every file, every directory and the manifest are fsynced as they are written.
Flush(p) == flushed \cup {p}

\* The savegames, the configuration, and then the manifest that describes both.
Copy(p) == /\ phase = "staging" /\ p \notin copied
           /\ p = "config" => "savegames" \in copied
           /\ p = "manifest" => {"savegames", "config"} \subseteq copied
           /\ copied' = copied \cup {p}
           /\ flushed' = Flush(p)
           /\ phase' = IF p = "manifest" THEN "publishing" ELSE "staging"
           /\ UNCHANGED <<now, store, risk, name, victim, returned>>

-----------------------------------------------------------------------------
(* Publication: os.replace, then fsync of backup_root.                     *)

\* The rename: the entry is at risk until the directory is flushed.
Publish == /\ phase = "publishing"
           /\ phase' = "published"
           /\ store' = [store EXCEPT ![name] = IF copied = Parts THEN "whole" ELSE "partial"]
           /\ risk' = [risk EXCEPT ![name] = {"entry"} \cup
                                             (IF flushed = Parts THEN {} ELSE {"contents"})]
           /\ UNCHANGED <<now, name, copied, flushed, victim, returned>>

\* Mutant: retention starts right after the rename.
NoSync == risk

\* fsync of a directory makes every earlier change of its entries durable.
SyncEntries == [s \in Stamps |-> risk[s] \ {"entry"}]

Sync == /\ phase = "published"
        /\ phase' = "pruning"
        /\ risk' = SyncEntries
        /\ UNCHANGED <<now, store, name, copied, flushed, victim, returned>>

-----------------------------------------------------------------------------
(* Retention.                                                              *)

\* Mutant: the snapshot at the limit goes too.
OverLimitByOne == Cardinality(Listed) >= Retention

OverLimit == Cardinality(Listed) > Retention

\* snapshots.pop(0)
Oldest(s) == s \in Listed /\ \A u \in Listed : s <= u

\* _remove_tree_at unlinks the contents, file by file.
StartRemoving(s) == /\ phase = "pruning" /\ OverLimit /\ Oldest(s)
                    /\ phase' = "removing"
                    /\ victim' = s
                    /\ store' = [store EXCEPT ![s] = "partial"]
                    /\ UNCHANGED <<now, risk, name, copied, flushed, returned>>

\* Its rmdir takes the entry away; no fsync follows.
FinishRemoving == /\ phase = "removing"
                  /\ phase' = "pruning"
                  /\ store' = [store EXCEPT ![victim] = "absent"]
                  /\ risk' = [risk EXCEPT ![victim] = @ \cup {"entry"}]
                  /\ UNCHANGED <<now, name, copied, flushed, victim, returned>>

\* create_snapshot returns its BackupResult.
Return == /\ phase = "pruning" /\ ~OverLimit
          /\ phase' = "idle"
          /\ returned' = returned \cup {name}
          /\ UNCHANGED <<now, store, risk, name, copied, flushed, victim>>

-----------------------------------------------------------------------------
(* Failures.                                                               *)

\* An exception or SIGKILL ends the call: the staging directory is removed or left behind,
\* under a name nobody lists; what was published stays published, and what was half
\* removed stays half removed.
Abort == /\ phase # "idle"
         /\ phase' = "idle"
         /\ UNCHANGED <<now, store, risk, name, copied, flushed, victim, returned>>

\* What a power loss can make of name s: an entry at risk appears or disappears, contents
\* at risk are damaged, and an unfinished or undone removal leaves anything behind.
AfterPowerLoss(s) ==
  {store[s]}
    \cup (IF "entry" \in risk[s] /\ store[s] # "absent" THEN {"absent"} ELSE {})
    \cup (IF "entry" \in risk[s] /\ store[s] = "absent" THEN {"partial", "whole"} ELSE {})
    \cup (IF store[s] = "partial" THEN {"whole"} ELSE {})
    \cup (IF "contents" \in risk[s] THEN {"partial"} ELSE {})

PowerLoss ==
  /\ store' \in [Stamps -> {"absent", "partial", "whole"}]
  /\ \A s \in Stamps : store'[s] \in AfterPowerLoss(s)
  /\ risk' = [s \in Stamps |-> {}]
  /\ phase' = "idle"
  /\ UNCHANGED <<now, name, copied, flushed, victim, returned>>

-----------------------------------------------------------------------------

Next == \/ Tick \/ Begin \/ (\E p \in Parts : Copy(p)) \/ Publish \/ Sync
        \/ (\E s \in Stamps : StartRemoving(s)) \/ FinishRemoving \/ Return
        \/ Abort \/ PowerLoss

Spec == Init /\ [][Next]_vars

-----------------------------------------------------------------------------
(* Correctness.                                                            *)

TypeOK ==
  /\ now \in Stamps
  /\ store \in [Stamps -> {"absent", "partial", "whole"}]
  /\ risk \in [Stamps -> SUBSET {"entry", "contents"}]
  /\ returned \subseteq Stamps
  /\ phase \in Phases /\ name \in Stamps /\ victim \in Stamps
  /\ copied \subseteq Parts /\ flushed \subseteq Parts

\* The snapshots newer than s that will be there whole after a power loss.
NewerSafe(s) == {w \in Stamps : w > s /\ Safe(w)}

\* A snapshot directory that is not whole, because retention was interrupted in it, is
\* older than some snapshot that is whole and flushed: it takes no place that retention
\* or a restore of the latest snapshot could want.
PartialIsSuperseded == \A s \in Stamps : store[s] = "partial" => NewerSafe(s) # {}

\* A snapshot that create_snapshot returned stays whole, through failures, kills and power
\* losses, until Retention newer ones are there to stay.
ReturnedIsKept ==
  \A s \in returned : Safe(s) \/ Cardinality(NewerSafe(s)) >= Retention
=============================================================================
