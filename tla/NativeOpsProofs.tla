-------------------------- MODULE NativeOpsProofs --------------------------
(***************************************************************************)
(* Proofs about NativeOps, for any set of invocations of any operations    *)
(* and any number of faults.                                               *)
(***************************************************************************)
EXTENDS NativeOps, TLAPS

-----------------------------------------------------------------------------
(* The inductive invariant.                                                *)

\* The lock is with the run that is past its flock, and nobody else is.
Held == \A p \in Runs : pc[p] \notin Free <=> lock = p

Stopping == {"g.query", "g.save", "g.shutdown", "g.wait"}
Backing  == {"b.preflight", "b.save", "b.stop", "b.copy", "b.finally"}
Updating == {"u.query", "u.prebackup", "u.steam", "u.cleanup"}

\* Which operation is where, and what its scripts have found.
Placed(p) ==
  /\ pc[p] \in {"choose", "r.query", "r.stop", "r.publish", "r.cleanup"} => op[p] = "restore"
  /\ pc[p] \in {"m.query", "m.start", "m.trap"} => op[p] = "maintenance"
  /\ pc[p] \in Backing => op[p] \in {"backup", "restore", "maintenance"}
  /\ pc[p] \in Updating => op[p] \in {"update", "maintenance"}
  /\ pc[p] = "relock" => op[p] = "restart"
  /\ pc[p] = "s.query" => op[p] \in {"start", "restart"}
  /\ pc[p] \in Stopping => \/ op[p] \in {"stop", "restart", "gracefulstop"}
                           \/ op[p] = "update" /\ uwas[p]
                           \/ op[p] = "maintenance" /\ (was[p] \/ uwas[p])
  /\ uwas[p] => op[p] \in {"update", "maintenance"}
  /\ pc[p] \in {"b.save", "b.stop"} => bwas[p]
  /\ pc[p] = "r.stop" => was[p]

\* The run has stopped the server, or may have, and will start it again.
Owes(p) ==
  \/ pc[p] \notin Free \cup {"r.query", "m.query"} /\ op[p] \in {"restore", "maintenance"} /\ was[p]
  \/ pc[p] \in {"b.save", "b.stop", "b.copy", "b.finally"} /\ bwas[p]
  \/ pc[p] \in (Stopping \cup Updating) \ {"u.query"} /\ uwas[p]
  \/ pc[p] \in {"g.wait", "relock", "s.query"} /\ op[p] = "restart"

\* A server that is down, or about to be, without an excuse is owed by some run.
Owed == /\ closing => unit = "active"
        /\ unit = "inactive" /\ ~excuse => \E p \in Runs : Owes(p)
        /\ closing /\ ~excuse => \E p \in Runs : pc[p] = "g.wait" /\ Owes(p)

\* What is stopped for sure stays stopped under the lock.
Offline == \A p \in Runs : pc[p] = "b.copy" => StoppedForSure

\* The strengthening of CopiedOffline and NobodyStranded that every step preserves.
IInv == TypeOK /\ Held /\ Offline /\ Owed /\ \A p \in Runs : Placed(p)

-----------------------------------------------------------------------------
(* What the helpers of the actions do to the types.                        *)

\* Moving on keeps the labels of the scripts and the lock's holder in range.
LEMMA Moves == ASSUME TypeOK, NEW p \in Runs, NEW l \in Labels, Goto(p, l)
               PROVE  pc' \in [Runs -> Labels] /\ lock' \in Runs \cup {None}
  BY DEF TypeOK, Goto, Labels

\* Recording a failed command keeps the record's type.
LEMMA Fails == ASSUME TypeOK, NEW p \in Runs, Fail(p) PROVE good' \in [Runs -> BOOLEAN]
  BY DEF TypeOK, Fail

\* A fault stays within the bound.
LEMMA Faults == ASSUME TypeOK, Fault PROVE faults' \in 0..MaxFaults
  BY FaultAssumption DEF TypeOK, Fault

\* Whether systemctl start succeeds or fails, the unit's state is one is-active prints.
LEMMA UpDown == ASSUME TypeOK, Up \/ Down
                PROVE  unit' \in Units /\ closing' \in BOOLEAN /\ excuse' \in BOOLEAN
  BY DEF TypeOK, Up, Down, Units

\* The places a graceful stop or a backup returns to are labels of the caller's script.
LEMMA Targets ==
  ASSUME TypeOK, NEW p \in Runs
  PROVE  /\ AfterStop(p) \in Labels /\ AfterNoStop(p) \in Labels
         /\ AfterBackup(p) \in Labels
  BY DEF TypeOK, AfterStop, AfterNoStop, AfterBackup, Labels, Free, Ops

\* is-active's answer, kept in a shell variable.
LEMMA AsFlag ==
  ASSUME NEW f \in [Runs -> BOOLEAN], NEW p \in Runs, NEW g,
         g = [f EXCEPT ![p] = unit = "active"]
  PROVE  /\ g[p] <=> unit = "active"
         /\ \A q \in Runs : q # p => g[q] = f[q]
  BY Zenon

-----------------------------------------------------------------------------
(* One lemma for each conjunct of the invariant, one step for each action. *)

\* Every step of a script keeps the types.
LEMMA TypeStep == ASSUME TypeOK, NEW p \in Runs, Script(p)
  PROVE  TypeOK'
  <1> USE Moves, Fails, Faults, UpDown, Targets DEF TypeOK, Labels, Free, machine, disk,
     flags
  <1>1. CASE Lock(p) \/ Busy(p)
    <2>1. CASE Lock(p)
      BY <1>1, <2>1 DEF Lock, First, Ops
    <2>2. CASE Busy(p)
      BY <1>1, <2>2 DEF Busy
    <2> QED
      BY <1>1, <2>1, <2>2
  <1>2. CASE Choose(p)
    BY <1>2 DEF Choose
  <1>3. CASE Refuse(p) \/ Start(p)
    BY <1>3 DEF Refuse, Start
  <1>4. CASE \/ QueryStop(p) \/ SaveWorld(p) \/ ShutDown(p)
            \/ StopFails(p) \/ Stopped(p) \/ StopTimesOut(p)
    BY <1>4 DEF QueryStop, SaveWorld, ShutDown, StopFails, Stopped, StopTimesOut
  <1>5. CASE CheckBackup(p)
    BY <1>5 DEF CheckBackup
  <1>6. CASE BackupSaves(p) \/ BackupStops(p)
    BY <1>6 DEF BackupSaves, BackupStops, Units
  <1>7. CASE BackupCopies(p) \/ BackupRestarts(p)
    <2>1. CASE BackupCopies(p)
      <3>1. Newest(store \cup {clock}) \subseteq Nat /\ store \cup {clock} \subseteq Nat
        BY DEF Newest
      <3>2. clock + 1 \in Nat
        OBVIOUS
      <3> HIDE DEF Newest
      <3>3. \/ UNCHANGED disk
            \/ /\ store' \in {Newest(store \cup {clock}), store \cup {clock}}
               /\ clock' = clock + 1
        BY <2>1 DEF BackupCopies
      <3>4. store' \in SUBSET Nat /\ clock' \in Nat
        BY <3>1, <3>2, <3>3
      <3> QED
        BY <2>1, <3>4 DEF BackupCopies
    <2>2. CASE BackupRestarts(p)
      BY <1>7, <2>2 DEF BackupRestarts
    <2> QED
      BY <1>7, <2>1, <2>2
  <1>8. CASE RestoreQueries(p)
    BY <1>8 DEF RestoreQueries
  <1>9. CASE RestoreStops(p) \/ RestorePublishes(p) \/ RestoreCleansUp(p)
    BY <1>9 DEF RestoreStops, RestorePublishes, RestoreCleansUp, Units
  <1>10. CASE MaintenanceQueries(p) \/ UpdateQueries(p)
    BY <1>10 DEF MaintenanceQueries, UpdateQueries
  <1>11. CASE PreUpdate(p) \/ SteamCMD(p) \/ UpdateCleansUp(p)
    BY <1>11 DEF PreUpdate, SteamCMD, UpdateCleansUp
  <1>12. CASE MaintenanceStarts(p) \/ MaintenanceTrap(p)
    BY <1>12 DEF MaintenanceStarts, MaintenanceTrap
  <1> QED
    BY <1>1, <1>2, <1>3, <1>4, <1>5, <1>6, <1>7, <1>8, <1>9, <1>10, <1>11, <1>12 DEF Script

\* The lock is passed only by flock and by the end of the process that has it.
LEMMA HeldStep == ASSUME TypeOK, Held, NEW p \in Runs, Script(p)
  PROVE  Held'
  <1> USE RunAssumption, Targets DEF TypeOK, Held, Free, Labels, machine, disk, flags
  <1>1. CASE Lock(p) \/ Busy(p)
    BY <1>1 DEF Lock, First, Busy, Ops
  <1>2. CASE Choose(p)
    BY <1>2 DEF Choose
  <1>3. CASE Refuse(p) \/ Start(p)
    BY <1>3 DEF Refuse, Goto, Start
  <1>4. CASE \/ QueryStop(p) \/ SaveWorld(p) \/ ShutDown(p)
            \/ StopFails(p) \/ Stopped(p) \/ StopTimesOut(p)
    BY <1>4 DEF QueryStop, Goto, SaveWorld, ShutDown, StopFails, Stopped, StopTimesOut
  <1>5. CASE CheckBackup(p)
    BY <1>5 DEF CheckBackup, Goto
  <1>6. CASE BackupSaves(p) \/ BackupStops(p)
    BY <1>6 DEF BackupSaves, Goto, BackupStops
  <1>7. CASE BackupCopies(p) \/ BackupRestarts(p)
    BY <1>7 DEF BackupCopies, Goto, BackupRestarts
  <1>8. CASE RestoreQueries(p)
    BY <1>8 DEF RestoreQueries, Goto
  <1>9. CASE RestoreStops(p) \/ RestorePublishes(p) \/ RestoreCleansUp(p)
    BY <1>9 DEF RestoreStops, Goto, RestorePublishes, RestoreCleansUp
  <1>10. CASE MaintenanceQueries(p) \/ UpdateQueries(p)
    BY <1>10 DEF MaintenanceQueries, Goto, UpdateQueries
  <1>11. CASE PreUpdate(p) \/ SteamCMD(p) \/ UpdateCleansUp(p)
    BY <1>11 DEF PreUpdate, Goto, SteamCMD, UpdateCleansUp
  <1>12. CASE MaintenanceStarts(p) \/ MaintenanceTrap(p)
    BY <1>12 DEF MaintenanceStarts, Goto, MaintenanceTrap
  <1> QED
    BY <1>1, <1>2, <1>3, <1>4, <1>5, <1>6, <1>7, <1>8, <1>9, <1>10, <1>11, <1>12 DEF Script

\* A backup copies only after an answer that is certain or its own systemctl stop, and
\* nobody else can start the server while it has the lock.
LEMMA OfflineStep == ASSUME TypeOK, Held, Offline, NEW p \in Runs, Script(p)
  PROVE  Offline'
  <1> USE RunAssumption DEF TypeOK, Held, Free, Offline, StoppedForSure, machine, disk,
     flags, Ops, Labels, Units
  <1>1. CASE Lock(p) \/ Busy(p)
    BY <1>1 DEF Lock, First, Busy, Fail
  <1>2. CASE Choose(p)
    BY <1>2 DEF Choose
  <1>3. CASE Refuse(p) \/ Start(p)
    BY <1>3 DEF Refuse, Fail, Goto, MaintenanceShows, Start, Up, Down, Fault
  <1>4. CASE \/ QueryStop(p) \/ SaveWorld(p) \/ ShutDown(p)
            \/ StopFails(p) \/ Stopped(p) \/ StopTimesOut(p)
    BY <1>4 DEF QueryStop, AfterStop, Goto, Fail, SaveWorld, ShutDown, StopFails,
       AfterNoStop, Fault, Stopped, StopTimesOut
  <1>5. CASE CheckBackup(p)
    BY <1>5 DEF CheckBackup, StoppedForSure, AfterBackup, Goto, Fail, Fault
  <1>6. CASE BackupSaves(p) \/ BackupStops(p)
    BY <1>6 DEF BackupSaves, Goto, Fail, Fault, BackupStops
  <1>7. CASE BackupCopies(p) \/ BackupRestarts(p)
    BY <1>7 DEF BackupCopies, Goto, Fail, Fault, BackupRestarts, RestartDue, AfterBackup,
       Up, Down
  <1>8. CASE RestoreQueries(p)
    BY <1>8 DEF RestoreQueries, Goto
  <1>9. CASE RestoreStops(p) \/ RestorePublishes(p) \/ RestoreCleansUp(p)
    BY <1>9 DEF RestoreStops, Goto, Fail, Fault, RestorePublishes, RestoreCleansUp, Up, Down
  <1>10. CASE MaintenanceQueries(p) \/ UpdateQueries(p)
    BY <1>10 DEF MaintenanceQueries, Goto, Fail, Fault, UpdateQueries
  <1>11. CASE PreUpdate(p) \/ SteamCMD(p) \/ UpdateCleansUp(p)
    BY <1>11 DEF PreUpdate, Goto, Fail, SteamCMD, Fault, UpdateCleansUp, Up, Down
  <1>12. CASE MaintenanceStarts(p) \/ MaintenanceTrap(p)
    BY <1>12 DEF MaintenanceStarts, Up, Down, Goto, Fail, Fault, MaintenanceTrap
  <1> QED
    BY <1>1, <1>2, <1>3, <1>4, <1>5, <1>6, <1>7, <1>8, <1>9, <1>10, <1>11, <1>12 DEF Script

\* Each script runs its own part of the code, with the flags it has set on the way.
LEMMA PlacedStep == ASSUME TypeOK, Held, \A q \in Runs : Placed(q), NEW p \in Runs, Script(p)
  PROVE  \A q \in Runs : Placed(q)'
  <1> USE RunAssumption DEF TypeOK, Held, Free, Placed, Stopping, Backing, Updating,
     machine, disk, flags, Ops, Labels, Units
  <1>1. CASE Lock(p) \/ Busy(p)
    BY <1>1 DEF Lock, First, Busy, Fail
  <1>2. CASE Choose(p)
    BY <1>2 DEF Choose
  <1>3. CASE Refuse(p) \/ Start(p)
    BY <1>3 DEF Refuse, Fail, Goto, MaintenanceShows, Start, Up, Down, Fault
  <1>4. CASE \/ QueryStop(p) \/ SaveWorld(p) \/ ShutDown(p)
            \/ StopFails(p) \/ Stopped(p) \/ StopTimesOut(p)
    BY <1>4 DEF QueryStop, AfterStop, Goto, Fail, SaveWorld, ShutDown, StopFails,
       AfterNoStop, Fault, Stopped, StopTimesOut
  <1>5. CASE CheckBackup(p)
    <2>1. /\ bwas'[p] <=> unit = "active"
          /\ \A q \in Runs : q # p => bwas'[q] = bwas[q]
      BY <1>5, AsFlag DEF CheckBackup
    <2> QED
      BY <1>5, <2>1 DEF CheckBackup, StoppedForSure, AfterBackup, Goto, Fail, Fault
  <1>6. CASE BackupSaves(p) \/ BackupStops(p)
    BY <1>6 DEF BackupSaves, Goto, Fail, Fault, BackupStops
  <1>7. CASE BackupCopies(p) \/ BackupRestarts(p)
    BY <1>7 DEF BackupCopies, Goto, Fail, Fault, BackupRestarts, RestartDue, AfterBackup,
       Up, Down
  <1>8. CASE RestoreQueries(p)
    BY <1>8 DEF RestoreQueries, Goto
  <1>9. CASE RestoreStops(p) \/ RestorePublishes(p) \/ RestoreCleansUp(p)
    BY <1>9 DEF RestoreStops, Goto, Fail, Fault, RestorePublishes, RestoreCleansUp, Up, Down
  <1>10. CASE MaintenanceQueries(p) \/ UpdateQueries(p)
    <2>1. CASE MaintenanceQueries(p)
      <3>1. /\ was'[p] <=> unit = "active"
            /\ \A q \in Runs : q # p => was'[q] = was[q]
        BY <2>1, AsFlag DEF MaintenanceQueries
      <3> QED
        BY <2>1, <3>1 DEF MaintenanceQueries, Goto, Fail, Fault
    <2>2. CASE UpdateQueries(p)
      <3>1. /\ uwas'[p] <=> unit = "active"
            /\ \A q \in Runs : q # p => uwas'[q] = uwas[q]
        BY <2>2, AsFlag DEF UpdateQueries
      <3> QED
        BY <2>2, <3>1 DEF UpdateQueries, Goto
    <2> QED
      BY <1>10, <2>1, <2>2
  <1>11. CASE PreUpdate(p) \/ SteamCMD(p) \/ UpdateCleansUp(p)
    BY <1>11 DEF PreUpdate, Goto, Fail, SteamCMD, Fault, UpdateCleansUp, Up, Down
  <1>12. CASE MaintenanceStarts(p) \/ MaintenanceTrap(p)
    BY <1>12 DEF MaintenanceStarts, Up, Down, Goto, Fail, Fault, MaintenanceTrap
  <1> QED
    BY <1>1, <1>2, <1>3, <1>4, <1>5, <1>6, <1>7, <1>8, <1>9, <1>10, <1>11, <1>12 DEF Script

\* A run that stops the server owes a start until it has made one, or excuse says why not.
LEMMA OwedStep == ASSUME TypeOK, Held, Owed, \A q \in Runs : Placed(q), NEW p \in Runs, Script(p)
  PROVE  Owed'
  <1> USE RunAssumption DEF TypeOK, Held, Free, Placed, Owed, Owes, Stopping, Backing,
     Updating, machine, disk, flags, Ops, Labels, Units
  <1>1. CASE Lock(p)
    BY <1>1 DEF Lock, First
  <1>2. CASE Busy(p)
    BY <1>2 DEF Busy, Fail
  <1>3. CASE Refuse(p)
    BY <1>3 DEF Refuse, Fail, Goto, MaintenanceShows
  <1>4. CASE Start(p)
    BY <1>4 DEF Start, Up, Down, Fault, Fail, Goto
  <1>5. CASE QueryStop(p)
    BY <1>5 DEF QueryStop, AfterStop, Goto, Fail
  <1>6. CASE SaveWorld(p) \/ StopFails(p) \/ StopTimesOut(p)
    BY <1>6 DEF SaveWorld, Goto, StopFails, AfterNoStop, Fail, Fault, StopTimesOut
  <1>7. CASE ShutDown(p)
    BY <1>7 DEF ShutDown, Goto
  <1>8. CASE Stopped(p)
    BY <1>8 DEF Stopped, AfterStop, Goto
  <1>9. CASE CheckBackup(p)
    BY <1>9 DEF CheckBackup, StoppedForSure, AfterBackup, Goto, Fail, Fault
  <1>10. CASE BackupSaves(p) \/ BackupStops(p)
    BY <1>10 DEF BackupSaves, Goto, Fail, Fault, BackupStops
  <1>11. CASE BackupCopies(p) \/ BackupRestarts(p)
    BY <1>11 DEF BackupCopies, Goto, Fail, Fault, BackupRestarts, RestartDue, AfterBackup,
       Up, Down
  <1>12. CASE RestoreQueries(p)
    <2>1. /\ was'[p] <=> unit = "active"
          /\ \A q \in Runs : q # p => was'[q] = was[q]
      BY <1>12, AsFlag DEF RestoreQueries
    <2> QED
      BY <1>12, <2>1 DEF RestoreQueries, Goto
  <1>13. CASE RestoreStops(p) \/ RestorePublishes(p) \/ RestoreCleansUp(p)
    BY <1>13 DEF RestoreStops, Goto, Fail, Fault, RestorePublishes, RestoreCleansUp, Up,
       Down
  <1>14. CASE MaintenanceQueries(p) \/ UpdateQueries(p)
    <2>1. CASE MaintenanceQueries(p)
      <3>1. /\ was'[p] <=> unit = "active"
            /\ \A q \in Runs : q # p => was'[q] = was[q]
        BY <2>1, AsFlag DEF MaintenanceQueries
      <3> QED
        BY <2>1, <3>1 DEF MaintenanceQueries, Goto, Fail, Fault
    <2>2. CASE UpdateQueries(p)
      <3>1. /\ uwas'[p] <=> unit = "active"
            /\ \A q \in Runs : q # p => uwas'[q] = uwas[q]
        BY <2>2, AsFlag DEF UpdateQueries
      <3> QED
        BY <2>2, <3>1 DEF UpdateQueries, Goto
    <2> QED
      BY <1>14, <2>1, <2>2
  <1>15. CASE PreUpdate(p) \/ SteamCMD(p) \/ UpdateCleansUp(p)
    BY <1>15 DEF PreUpdate, Goto, Fail, SteamCMD, Fault, UpdateCleansUp, Up, Down
  <1>16. CASE MaintenanceStarts(p) \/ MaintenanceTrap(p)
    BY <1>16 DEF MaintenanceStarts, Up, Down, Goto, Fail, Fault, MaintenanceTrap
  <1>17. CASE Choose(p)
    BY <1>17 DEF Choose
  <1> QED
    BY <1>1, <1>2, <1>3, <1>4, <1>5, <1>6, <1>7, <1>8, <1>9, <1>10, <1>11, <1>12, <1>13,
       <1>14, <1>15, <1>16, <1>17 DEF Script

\* Neither a crash, nor an automatic restart, nor a game that closes breaks the invariant.
LEMMA UnitStep == ASSUME IInv, GameCrashes \/ AutoRestart \/ GameCloses PROVE IInv'
  <1> USE DEF IInv, TypeOK, Held, Free, Placed, Owed, Owes, Offline, StoppedForSure, Stopping,
          Backing, Updating, Units, machine, disk, flags
  <1>1. CASE GameCrashes
    BY <1>1, Faults DEF GameCrashes
  <1>2. CASE AutoRestart
    <2>1. unit = "activating" /\ ~closing
      BY <1>2 DEF AutoRestart
    <2>2. TypeOK' /\ Held' /\ (\A p \in Runs : Placed(p)')
      BY <1>2 DEF AutoRestart, Up
    <2>3. Offline' /\ Owed'
      BY <1>2, <2>1 DEF AutoRestart, Up
    <2> QED
      BY <2>2, <2>3
  <1>3. CASE GameCloses
    BY <1>3 DEF GameCloses
  <1> QED
    BY <1>1, <1>2, <1>3

-----------------------------------------------------------------------------

\* Nothing runs, and a server that is down is so by the operator's choice.
THEOREM Initially == Init => IInv
  <1> SUFFICES ASSUME Init PROVE IInv
    OBVIOUS
  <1>1. /\ store \in SUBSET Nat /\ clock \in Nat
        /\ unit \in Units /\ excuse = (unit = "inactive") /\ closing = FALSE
    BY RetentionAssumption DEF Init, Units
  <1>2. excuse \in BOOLEAN /\ (unit = "inactive" => excuse)
    BY <1>1, Zenon
  <1>3. TypeOK
    <2>1. pc \in [Runs -> Labels]
      BY DEF Init, Labels, Free
    <2>2. lock \in Runs \cup {None} /\ op \in [Runs -> Ops] /\ target \in [Runs -> Nat]
      BY DEF Init
    <2>3. /\ was \in [Runs -> BOOLEAN] /\ bwas \in [Runs -> BOOLEAN]
          /\ uwas \in [Runs -> BOOLEAN] /\ good \in [Runs -> BOOLEAN]
      BY DEF Init
    <2>4. faults \in 0..MaxFaults
      BY FaultAssumption DEF Init
    <2> QED
      BY <1>1, <1>2, <2>1, <2>2, <2>3, <2>4 DEF TypeOK
  <1>4. Held /\ Offline
    BY RunAssumption DEF Init, Held, Free, Offline
  <1>5. Owed
    BY <1>1, <1>2 DEF Owed
  <1>6. \A p \in Runs : Placed(p)
    BY DEF Init, Placed, Stopping, Backing, Updating
  <1> QED
    BY <1>3, <1>4, <1>5, <1>6 DEF IInv

\* Every step of every script, and whatever the unit does, keeps the invariant.
THEOREM Inductive == IInv /\ [Next]_vars => IInv'
  <1>1. ASSUME IInv, NEW p \in Runs, Script(p) PROVE IInv'
    BY <1>1, TypeStep, HeldStep, OfflineStep, PlacedStep, OwedStep DEF IInv
  <1>2. ASSUME IInv, UNCHANGED vars PROVE IInv'
    BY <1>2 DEF vars, IInv, TypeOK, Held, Placed, Owed, Owes, Offline, StoppedForSure,
       machine, disk, flags
  <1> QED
    BY <1>1, <1>2, UnitStep DEF Next

\* The invariant in its temporal form.
THEOREM Invariant == Spec => []IInv
  BY Initially, Inductive, PTL DEF Spec

\* Every variable keeps its type.
THEOREM TypeCorrect == Spec => []TypeOK
  BY Invariant, PTL DEF IInv

\* However many operations are started and whatever fails, no snapshot is copied from under
\* a running server.
THEOREM Cold == Spec => []CopiedOffline
  <1>1. IInv => CopiedOffline
    BY DEF IInv, Offline, StoppedForSure, CopiedOffline
  <1> QED
    BY <1>1, Invariant, PTL

\* However many operations are started, none of them ends with the server left down that it
\* found up, but for the exceptions excuse records.
THEOREM NotStranded == Spec => []NobodyStranded
  <1>1. IInv => NobodyStranded
    BY RunAssumption DEF IInv, TypeOK, Held, Free, Owed, Owes, Stopping, Updating, NobodyStranded
  <1> QED
    BY <1>1, Invariant, PTL

-----------------------------------------------------------------------------
(* The one way a restore comes upon a running server.                      *)

\* No restore asks is-active while the unit waits for its automatic restart.  The script
\* takes every answer but "active" for stopped, and stops nothing then.
NotWaiting == \A p \in Runs : pc[p] = "r.query" => unit # "activating"

\* From its stop, or from an answer that was certain, to the publication of the trees a
\* restore finds the server stopped, and its backup has nothing to start again.
RestoreOffline ==
  \A p \in Runs :
    /\ op[p] = "restore" /\ pc[p] \in {"b.preflight", "b.copy", "b.finally", "r.publish"}
         => StoppedForSure
    /\ op[p] = "restore" /\ pc[p] \in {"b.copy", "b.finally", "r.publish"} => ~bwas[p]
    /\ op[p] = "restore" => pc[p] \notin {"b.save", "b.stop"}

\* Nobody else starts the server while the restore has the lock, and the restore itself
\* stops it first.
LEMMA RestoreOfflineStep ==
  ASSUME IInv, RestoreOffline, NotWaiting, NEW p \in Runs, Script(p)
  PROVE  RestoreOffline'
  <1> USE RunAssumption DEF IInv, TypeOK, Held, Free, RestoreOffline, StoppedForSure, machine,
     disk, flags, Ops, Labels, Units
  <1>1. CASE Lock(p) \/ Busy(p)
    BY <1>1 DEF Lock, First, Busy, Fail
  <1>2. CASE Choose(p)
    BY <1>2 DEF Choose
  <1>3. CASE Refuse(p) \/ Start(p)
    BY <1>3 DEF Refuse, Fail, Goto, MaintenanceShows, Start, Up, Down, Fault
  <1>4. CASE \/ QueryStop(p) \/ SaveWorld(p) \/ ShutDown(p)
            \/ StopFails(p) \/ Stopped(p) \/ StopTimesOut(p)
    <2>1. op[p] # "restore"
      BY <1>4 DEF QueryStop, SaveWorld, ShutDown, StopFails, Stopped, StopTimesOut, Placed,
         Stopping
    <2> QED
      BY <1>4, <2>1 DEF QueryStop, AfterStop, Goto, Fail, SaveWorld, ShutDown, StopFails,
         AfterNoStop, Fault, Stopped, StopTimesOut
  <1>5. CASE CheckBackup(p)
    <2>1. /\ bwas'[p] <=> unit = "active"
          /\ \A q \in Runs : q # p => bwas'[q] = bwas[q]
      BY <1>5, AsFlag DEF CheckBackup
    <2> QED
      BY <1>5, <2>1 DEF CheckBackup, AfterBackup, Goto, Fail, Fault
  <1>6. CASE BackupSaves(p) \/ BackupStops(p)
    BY <1>6 DEF BackupSaves, Goto, Fail, Fault, BackupStops
  <1>7. CASE BackupCopies(p) \/ BackupRestarts(p)
    BY <1>7 DEF BackupCopies, Goto, Fail, Fault, BackupRestarts, RestartDue, AfterBackup,
       Up, Down
  <1>8. CASE RestoreQueries(p)
    BY <1>8 DEF RestoreQueries, Goto, NotWaiting
  <1>9. CASE RestoreStops(p) \/ RestorePublishes(p) \/ RestoreCleansUp(p)
    BY <1>9 DEF RestoreStops, Goto, Fail, Fault, RestorePublishes, RestoreCleansUp, Up, Down
  <1>10. CASE MaintenanceQueries(p) \/ UpdateQueries(p)
    <2>1. op[p] # "restore"
      BY <1>10 DEF MaintenanceQueries, UpdateQueries, Placed, Updating
    <2> QED
      BY <1>10, <2>1 DEF MaintenanceQueries, Goto, Fail, Fault, UpdateQueries
  <1>11. CASE PreUpdate(p) \/ SteamCMD(p) \/ UpdateCleansUp(p)
    BY <1>11 DEF PreUpdate, Goto, Fail, SteamCMD, Fault, UpdateCleansUp, Up, Down
  <1>12. CASE MaintenanceStarts(p) \/ MaintenanceTrap(p)
    BY <1>12 DEF MaintenanceStarts, Up, Down, Goto, Fail, Fault, MaintenanceTrap
  <1> QED
    BY <1>1, <1>2, <1>3, <1>4, <1>5, <1>6, <1>7, <1>8, <1>9, <1>10, <1>11, <1>12 DEF Script

\* "The backup script sees the service stopped and therefore leaves it stopped": live trees
\* are replaced only while the server does not run, whatever crashes and whichever commands
\* fail, unless some restore asked is-active just when the unit waited for its restart.
THEOREM OfflineUnlessWaiting == Spec /\ []NotWaiting => []RestoredOffline
  <1>1. Init => RestoreOffline
    BY DEF Init, RestoreOffline
  <1>2. IInv /\ RestoreOffline /\ NotWaiting /\ [Next]_vars => RestoreOffline'
    <2> SUFFICES ASSUME IInv, RestoreOffline, NotWaiting, [Next]_vars PROVE RestoreOffline'
      OBVIOUS
    <2>1. CASE GameCrashes \/ AutoRestart \/ GameCloses
      BY <2>1 DEF GameCrashes, AutoRestart, GameCloses, RestoreOffline, StoppedForSure, flags
    <2>2. CASE UNCHANGED vars
      BY <2>2 DEF vars, machine, flags, RestoreOffline, StoppedForSure
    <2> QED
      BY <2>1, <2>2, RestoreOfflineStep DEF Next
  <1>3. IInv /\ RestoreOffline => RestoredOffline
    BY DEF IInv, Placed, RestoreOffline, StoppedForSure, RestoredOffline
  <1> QED
    BY <1>1, <1>2, <1>3, Invariant, PTL DEF Spec
=============================================================================
