------------------------------ MODULE NativeOps ------------------------------
(***************************************************************************)
(* The operations of a native Linux deployment: the root scripts and the   *)
(* Python entry points, each a process of its own, that share one          *)
(* non-blocking flock and one systemd unit, palworld.service.              *)
(*                                                                         *)
(* systemd and the game are external: the game may crash, the unit then    *)
(* restarts by itself, and an accepted REST shutdown takes effect later.   *)
(* At most MaxFaults crashes, failed commands and missed deadlines happen. *)
(***************************************************************************)
EXTENDS Naturals, FiniteSets

CONSTANTS
  Runs,       \* invocations, each of one operation
  Retention,  \* BACKUP_RETENTION_COUNT
  MaxFaults,  \* bound on what goes wrong
  None

ASSUME RunAssumption       == None \notin Runs
ASSUME RetentionAssumption == Retention \in Nat \ {0}
ASSUME FaultAssumption     == MaxFaults \in Nat

\* "stop" and "restart" are those of the web UI (and the idle watcher's stop), "gracefulstop"
\* is graceful-stop-palworld.sh run by the Discord bot or by hand.
Ops == {"backup", "restore", "maintenance", "update", "start", "stop", "restart", "gracefulstop"}

\* is-active's answers; "activating" is the wait before an automatic restart.
Units == {"active", "inactive", "failed", "activating"}

VARIABLES
  lock,    \* the run whose descriptor holds the flock, or None
  unit,    \* palworld.service
  closing, \* the game has accepted a REST shutdown and still runs
  store,   \* the stamps of the listed snapshots
  clock,   \* the next stamp
  op,      \* the operation of each run
  pc,      \* where it is
  was,     \* was_active of the script
  bwas,    \* was_active of its backup
  uwas,    \* was_active of its update-palworld.sh
  good,    \* no step of it has failed
  target,  \* the snapshot a restore was given
  excuse,  \* why the server may be down although no run is to blame (history)
  faults   \* how much has gone wrong

machine == <<unit, closing, excuse>>
disk    == <<store, clock>>
flags   == <<was, bwas, uwas>>
vars    == <<lock, machine, disk, op, pc, flags, good, target, faults>>

Init == /\ lock = None /\ unit \in {"active", "inactive"} /\ closing = FALSE
        /\ excuse = (unit = "inactive")
        /\ \E n \in 1..Retention : store = 1..n /\ clock = n + 1
        /\ op \in [Runs -> Ops]
        /\ pc = [p \in Runs |-> IF op[p] = "restore" THEN "choose" ELSE "lock"]
        /\ was = [p \in Runs |-> FALSE] /\ bwas = was /\ uwas = was
        /\ good = [p \in Runs |-> TRUE] /\ target = [p \in Runs |-> 0]
        /\ faults = 0

Fault == faults < MaxFaults /\ faults' = faults + 1

\* Labels at which a run does not hold the lock.
Free == {"choose", "lock", "relock", "ended"}

\* Move on; the descriptor, and with it the lock, goes when the process ends.
Goto(p, l) == pc' = [pc EXCEPT ![p] = l] /\ lock' = IF l \in Free THEN None ELSE lock

Fail(p) == good' = [good EXCEPT ![p] = FALSE]

\* systemctl start succeeds: the server is up again, whatever had it down.
Up == unit' = "active" /\ closing' = FALSE /\ excuse' = FALSE

\* systemctl start fails: the unit's start commands did.
Down == unit' \in {"failed", "activating"} /\ closing' = FALSE /\ UNCHANGED excuse

-----------------------------------------------------------------------------
(* The unit.                                                               *)

GameCrashes == /\ unit = "active" /\ Fault
               /\ unit' \in {"activating", "failed"} /\ closing' = FALSE
               /\ UNCHANGED <<lock, excuse, disk, op, pc, flags, good, target>>

\* Restart=on-failure
AutoRestart == /\ unit = "activating"
               /\ \/ Up
                  \/ unit' = "failed" /\ UNCHANGED <<closing, excuse>>
               /\ UNCHANGED <<lock, disk, op, pc, flags, good, target, faults>>

GameCloses == /\ unit = "active" /\ closing
              /\ unit' = "inactive" /\ closing' = FALSE
              /\ UNCHANGED <<lock, excuse, disk, op, pc, flags, good, target, faults>>

-----------------------------------------------------------------------------
(* The lock.                                                               *)

First == [backup |-> "b.preflight", restore |-> "r.query", maintenance |-> "m.query",
          update |-> "u.query", start |-> "s.query", stop |-> "g.query",
          restart |-> "g.query", gracefulstop |-> "g.query"]

\* palworld-maintenance.service is activating although its script does not hold the lock.
MaintenanceShows == \E q \in Runs : op[q] = "maintenance" /\ pc[q] = "lock"

\* flock -n 9, OperationLock.__enter__
Lock(p) == /\ pc[p] \in {"lock", "relock"} /\ lock = None
           /\ lock' = p
           /\ pc' = [pc EXCEPT ![p] = IF @ = "relock" THEN "s.query" ELSE First[op[p]]]
           /\ UNCHANGED <<machine, disk, op, flags, good, target, faults>>

\* "another Palworld operation is already running": a web restart that has stopped the
\* server leaves it stopped.
Busy(p) == /\ pc[p] \in {"lock", "relock"} /\ lock # None
           /\ pc' = [pc EXCEPT ![p] = "ended"] /\ Fail(p)
           /\ excuse' = (excuse \/ pc[p] = "relock")
           /\ UNCHANGED <<lock, unit, closing, disk, op, flags, target, faults>>

\* "maintenance is active", asked under the lock.
Refuse(p) == /\ pc[p] \in {"s.query", "g.query"} /\ MaintenanceShows
             /\ op[p] # "maintenance" /\ ~uwas[p]
             /\ Goto(p, "ended") /\ Fail(p)
             /\ excuse' = (excuse \/ (op[p] = "restart" /\ pc[p] = "s.query"))
             /\ UNCHANGED <<unit, closing, disk, op, flags, target, faults>>

-----------------------------------------------------------------------------
(* palworld-control start                                                  *)

Start(p) == /\ pc[p] = "s.query"
            /\ \/ unit = "active" /\ UNCHANGED <<machine, good, faults>>
               \/ unit # "active" /\ Up /\ UNCHANGED <<good, faults>>
               \/ unit # "active" /\ Fault /\ Down /\ Fail(p)
            /\ Goto(p, "ended")
            /\ UNCHANGED <<disk, op, flags, target>>

-----------------------------------------------------------------------------
(* The graceful stop: graceful-stop-palworld.sh, inside other scripts and  *)
(* on its own, and the stop and restart of the web UI.                     *)

\* Mutant: a cleanup that this script does not have.
AfterNoStopCleanup(p) == IF uwas[p] THEN "u.cleanup"
                         ELSE IF op[p] = "maintenance" THEN "m.cleanup" ELSE "ended"

\* Where the caller goes on.
AfterStop(p) == IF uwas[p] THEN "u.prebackup"
                ELSE CASE op[p] = "restart"     -> "relock"
                       [] op[p] = "maintenance" -> "b.preflight"
                       [] OTHER                 -> "ended"
AfterNoStop(p) == IF uwas[p] THEN "u.cleanup"
                  ELSE IF op[p] = "maintenance" THEN "m.trap" ELSE "ended"

\* The web UI stops only a server that is active; the script is content with any other.
QueryStop(p) == /\ pc[p] = "g.query"
                /\ \/ unit = "active" /\ Goto(p, "g.save") /\ UNCHANGED good
                   \/ /\ unit # "active" /\ op[p] \in {"stop", "restart"}
                      /\ Goto(p, "ended") /\ Fail(p)
                   \/ /\ unit # "active" /\ op[p] \notin {"stop", "restart"}
                      /\ Goto(p, AfterStop(p)) /\ UNCHANGED good
                /\ UNCHANGED <<machine, disk, op, flags, target, faults>>

\* POST /save, which must succeed before the shutdown is requested
SaveWorld(p) == /\ pc[p] = "g.save" /\ unit = "active"
                /\ Goto(p, "g.shutdown")
                /\ UNCHANGED <<machine, disk, op, flags, good, target, faults>>

\* POST /shutdown; the web UI's stop ends here and the game with its countdown
ShutDown(p) == /\ pc[p] = "g.shutdown" /\ unit = "active"
               /\ closing' = TRUE
               /\ excuse' = (excuse \/ op[p] \in {"stop", "gracefulstop"})
               /\ Goto(p, IF op[p] = "stop" THEN "ended" ELSE "g.wait")
               /\ UNCHANGED <<unit, disk, op, flags, good, target, faults>>

\* Either request fails, or nobody is there to answer it.
StopFails(p) == /\ pc[p] \in {"g.save", "g.shutdown"}
                /\ \/ unit # "active" /\ UNCHANGED faults
                   \/ Fault
                /\ Goto(p, AfterNoStop(p)) /\ Fail(p)
                /\ UNCHANGED <<machine, disk, op, flags, target>>

\* systemctl is-active in a loop
Stopped(p) == /\ pc[p] = "g.wait" /\ unit # "active"
              /\ op[p] = "restart" => unit # "activating"
              /\ Goto(p, AfterStop(p))
              /\ UNCHANGED <<machine, disk, op, flags, good, target, faults>>

\* The deadline passes; the game still has the request and may close at any time after.
StopTimesOut(p) == /\ pc[p] = "g.wait" /\ Fault
                   /\ excuse' = TRUE
                   /\ Goto(p, AfterNoStop(p)) /\ Fail(p)
                   /\ UNCHANGED <<unit, closing, disk, op, flags, target>>

-----------------------------------------------------------------------------
(* _core_backup, run by backup-palworld.sh, alone or inside other scripts.  *)

\* Where the caller goes on.
AfterBackup(p) == CASE op[p] = "restore"     -> IF good'[p] THEN "r.publish" ELSE "r.cleanup"
                    [] op[p] = "maintenance" -> IF good'[p] THEN "u.query" ELSE "m.trap"
                    [] OTHER                 -> "ended"

\* Mutant: whatever is not active is stopped.
StoppedIfNotActive == unit # "active"

\* initial_state in {"inactive", "failed"}
StoppedForSure == unit \in {"inactive", "failed"}

\* preflight_snapshot, then service_state: only a state that is certain will do.
CheckBackup(p) ==
  /\ pc[p] = "b.preflight"
  /\ bwas' = [bwas EXCEPT ![p] = unit = "active"]
  /\ \/ unit = "active" /\ Goto(p, "b.save") /\ UNCHANGED <<good, faults>>
     \/ StoppedForSure /\ Goto(p, "b.copy") /\ UNCHANGED <<good, faults>>
     \/ unit # "active" /\ ~StoppedForSure /\ Fail(p) /\ Goto(p, AfterBackup(p)) /\ UNCHANGED faults
     \/ Fault /\ Fail(p) /\ Goto(p, AfterBackup(p))
  /\ UNCHANGED <<machine, disk, op, was, uwas, target>>

BackupSaves(p) == /\ pc[p] = "b.save"
                  /\ \/ unit = "active" /\ Goto(p, "b.stop") /\ UNCHANGED <<good, faults>>
                     \/ unit # "active" /\ Goto(p, "b.finally") /\ Fail(p) /\ UNCHANGED faults
                     \/ Fault /\ Goto(p, "b.finally") /\ Fail(p)
                  /\ UNCHANGED <<machine, disk, op, flags, target>>

\* systemctl stop, which also cancels an automatic restart; after 60 seconds Python gives up
\* on it, not systemd.
BackupStops(p) == /\ pc[p] = "b.stop"
                  /\ unit' = "inactive" /\ closing' = FALSE
                  /\ \/ Goto(p, "b.copy") /\ UNCHANGED <<good, faults>>
                     \/ Fault /\ Goto(p, "b.finally") /\ Fail(p)
                  /\ UNCHANGED <<excuse, disk, op, flags, target>>

\* The newest Retention snapshots of a set.
Newest(S) == {s \in S : Cardinality({t \in S : t > s}) < Retention}

\* create_snapshot with its pruning; it may also fail before or after it published.
BackupCopies(p) == /\ pc[p] = "b.copy"
                   /\ \/ /\ store' = Newest(store \cup {clock}) /\ clock' = clock + 1
                         /\ UNCHANGED <<good, faults>>
                      \/ /\ Fault /\ Fail(p)
                         /\ \/ UNCHANGED disk
                            \/ store' = store \cup {clock} /\ clock' = clock + 1
                   /\ Goto(p, "b.finally")
                   /\ UNCHANGED <<machine, op, flags, target>>

\* Mutant: an active server is restarted only after a snapshot was made.
RestartDueIfGood(p) == bwas[p] /\ unit # "active" /\ good[p]

\* was_active and final_state != "active"
RestartDue(p) == bwas[p] /\ unit # "active"

\* The finally clause: a state that cannot be confirmed is not acted upon.
BackupRestarts(p) ==
  /\ pc[p] = "b.finally"
  /\ \/ RestartDue(p) /\ Up /\ UNCHANGED <<good, faults>>
     \/ RestartDue(p) /\ Fault /\ Down /\ Fail(p)
     \/ ~RestartDue(p) /\ UNCHANGED <<machine, good, faults>>
     \/ Fault /\ Fail(p) /\ excuse' = TRUE /\ UNCHANGED <<unit, closing>>
  /\ Goto(p, AfterBackup(p))
  /\ UNCHANGED <<disk, op, flags, target>>

-----------------------------------------------------------------------------
(* restore-palworld.sh                                                     *)

\* --restore-preflight, before the lock
Choose(p) == /\ pc[p] = "choose"
             /\ \E s \in store : target' = [target EXCEPT ![p] = s]
             /\ pc' = [pc EXCEPT ![p] = "lock"]
             /\ UNCHANGED <<lock, machine, disk, op, flags, good, faults>>

\* if systemctl is-active: was_active=1 and systemctl stop
RestoreQueries(p) ==
  /\ pc[p] = "r.query"
  /\ was' = [was EXCEPT ![p] = unit = "active"]
  /\ Goto(p, IF unit = "active" THEN "r.stop" ELSE "b.preflight")
  /\ UNCHANGED <<machine, disk, op, bwas, uwas, good, target, faults>>

RestoreStops(p) == /\ pc[p] = "r.stop"
                   /\ \/ /\ unit' = "inactive" /\ closing' = FALSE
                         /\ Goto(p, "b.preflight") /\ UNCHANGED <<good, faults>>
                      \/ /\ Fault /\ UNCHANGED <<unit, closing>>
                         /\ Goto(p, "r.cleanup") /\ Fail(p)
                   /\ UNCHANGED <<excuse, disk, op, flags, target>>

\* --restore: the preflight again, then BackupManager.restore
RestorePublishes(p) == /\ pc[p] = "r.publish"
                       /\ \/ target[p] \in store /\ UNCHANGED <<good, faults>>
                          \/ target[p] \notin store /\ Fail(p) /\ UNCHANGED faults
                          \/ Fault /\ Fail(p)
                       /\ Goto(p, "r.cleanup")
                       /\ UNCHANGED <<machine, disk, op, flags, target>>

\* The EXIT trap
RestoreCleansUp(p) == /\ pc[p] = "r.cleanup"
                      /\ \/ was[p] /\ unit # "active" /\ Up /\ UNCHANGED <<good, faults>>
                         \/ was[p] /\ unit # "active" /\ Fault /\ Down /\ Fail(p)
                         \/ ~(was[p] /\ unit # "active") /\ UNCHANGED <<machine, good, faults>>
                      /\ Goto(p, "ended")
                      /\ UNCHANGED <<disk, op, flags, target>>

-----------------------------------------------------------------------------
(* daily-palworld-maintenance.sh, and update-palworld.sh in it or alone.    *)

\* is-active, --backup-preflight, and the graceful stop of a server that runs
MaintenanceQueries(p) ==
  /\ pc[p] = "m.query"
  /\ was' = [was EXCEPT ![p] = unit = "active"]
  /\ \/ Goto(p, IF unit = "active" THEN "g.query" ELSE "b.preflight") /\ UNCHANGED <<good, faults>>
     \/ Fault /\ Goto(p, "m.trap") /\ Fail(p)
  /\ UNCHANGED <<machine, disk, op, bwas, uwas, target>>

UpdateQueries(p) ==
  /\ pc[p] = "u.query"
  /\ uwas' = [uwas EXCEPT ![p] = unit = "active"]
  /\ Goto(p, IF unit = "active" THEN "g.query" ELSE "u.steam")
  /\ UNCHANGED <<machine, disk, op, was, bwas, good, target, faults>>

\* backup-palworld.sh --pre-update: an argument the manager's parser does not know
PreUpdate(p) == /\ pc[p] = "u.prebackup"
                /\ Goto(p, "u.cleanup") /\ Fail(p)
                /\ UNCHANGED <<machine, disk, op, flags, target, faults>>

SteamCMD(p) == /\ pc[p] = "u.steam"
               /\ \/ UNCHANGED <<good, faults>>
                  \/ Fault /\ Fail(p)
               /\ Goto(p, "u.cleanup")
               /\ UNCHANGED <<machine, disk, op, flags, target>>

\* The EXIT trap of update-palworld.sh: systemctl start || true
UpdateCleansUp(p) ==
  /\ pc[p] = "u.cleanup"
  /\ \/ uwas[p] /\ unit # "active" /\ Up /\ UNCHANGED faults
     \/ uwas[p] /\ unit # "active" /\ Fault /\ Down
     \/ ~(uwas[p] /\ unit # "active") /\ UNCHANGED <<machine, faults>>
  /\ Goto(p, IF op[p] = "update" THEN "ended" ELSE IF good[p] THEN "m.start" ELSE "m.trap")
  /\ UNCHANGED <<disk, op, flags, good, target>>

\* systemctl start after maintenance; a failure is left to the trap
MaintenanceStarts(p) ==
  /\ pc[p] = "m.start"
  /\ \/ was[p] /\ Up /\ Goto(p, "ended") /\ UNCHANGED <<good, faults>>
     \/ was[p] /\ unit # "active" /\ Fault /\ Down /\ Goto(p, "m.trap") /\ Fail(p)
     \/ ~was[p] /\ Goto(p, "ended") /\ UNCHANGED <<machine, good, faults>>
  /\ UNCHANGED <<disk, op, flags, target>>

\* restore_service_state
MaintenanceTrap(p) == /\ pc[p] = "m.trap"
                      /\ \/ was[p] /\ unit # "active" /\ Up /\ UNCHANGED faults
                         \/ was[p] /\ unit # "active" /\ Fault /\ Down
                         \/ ~(was[p] /\ unit # "active") /\ UNCHANGED <<machine, faults>>
                      /\ Goto(p, "ended")
                      /\ UNCHANGED <<disk, op, flags, good, target>>

-----------------------------------------------------------------------------

Script(p) ==
  \/ Lock(p) \/ Busy(p) \/ Refuse(p) \/ Start(p)
  \/ QueryStop(p) \/ SaveWorld(p) \/ ShutDown(p) \/ StopFails(p) \/ Stopped(p) \/ StopTimesOut(p)
  \/ CheckBackup(p) \/ BackupSaves(p) \/ BackupStops(p) \/ BackupCopies(p) \/ BackupRestarts(p)
  \/ Choose(p) \/ RestoreQueries(p) \/ RestoreStops(p) \/ RestorePublishes(p) \/ RestoreCleansUp(p)
  \/ MaintenanceQueries(p) \/ UpdateQueries(p) \/ PreUpdate(p) \/ SteamCMD(p)
  \/ UpdateCleansUp(p) \/ MaintenanceStarts(p) \/ MaintenanceTrap(p)

Next == \/ \E p \in Runs : Script(p)
        \/ GameCrashes \/ AutoRestart \/ GameCloses

Spec == Init /\ [][Next]_vars

-----------------------------------------------------------------------------
(* Correctness.                                                            *)

Labels == Free \cup
  {"s.query", "g.query", "g.save", "g.shutdown", "g.wait",
   "b.preflight", "b.save", "b.stop", "b.copy", "b.finally",
   "r.query", "r.stop", "r.publish", "r.cleanup",
   "m.query", "m.start", "m.trap", "u.query", "u.prebackup", "u.steam", "u.cleanup"}

TypeOK ==
  /\ lock \in Runs \cup {None} /\ unit \in Units /\ closing \in BOOLEAN /\ excuse \in BOOLEAN
  /\ store \in SUBSET Nat /\ clock \in Nat
  /\ op \in [Runs -> Ops] /\ pc \in [Runs -> Labels] /\ target \in [Runs -> Nat]
  /\ was \in [Runs -> BOOLEAN] /\ bwas \in [Runs -> BOOLEAN] /\ uwas \in [Runs -> BOOLEAN]
  /\ good \in [Runs -> BOOLEAN] /\ faults \in 0..MaxFaults

\* While a snapshot is copied the server does not run, whatever else is going on.
CopiedOffline == \A p \in Runs : pc[p] = "b.copy" => unit # "active"

\* Once no operation is under way, a server that is down was asked to be, or a lost lock, a
\* missed deadline or a state that could not be confirmed is on record.
NobodyStranded ==
  unit = "inactive" /\ lock = None /\ (\A p \in Runs : pc[p] # "relock") => excuse

-----------------------------------------------------------------------------
(* Known not to hold: with one of these formulas as the INVARIANT a run shows how.  *)

\* "validate the snapshot before stopping the service": the snapshot a restore was given is
\* still there when the restore gets to it.
ChosenSurvives == \A p \in Runs : pc[p] = "r.publish" => target[p] \in store

\* "The backup script sees the service stopped and therefore leaves it stopped": live trees
\* are replaced only while the server does not run.
RestoredOffline == \A p \in Runs : pc[p] = "r.publish" => unit # "active"
=============================================================================
