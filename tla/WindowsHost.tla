---------------------------- MODULE WindowsHost ----------------------------
(***************************************************************************)
(* The default world of a native Windows deployment (a created world that  *)
(* was made the default: the bot's own maintenance serves only those): the *)
(* request threads of the web panel and its scheduler thread, the Discord  *)
(* bot, the game process, and the one-byte operation lock, which the panel *)
(* takes around a stop, a restart and maintenance, and which the           *)
(* PowerShell adapter takes itself when it starts the game.  The bot's     *)
(* maintenance takes no lock.                                              *)
(*                                                                         *)
(* Time is counted in minutes up to MaxTime; MinutesPerHour and            *)
(* HoursPerDay may be scaled down.                                         *)
(***************************************************************************)
EXTENDS Naturals

CONSTANTS
  Threads,       \* request threads of the panel
  UpdateTime,    \* UPDATE_TIME: a schedule
  BackupTime,    \* BACKUP_TIME
  MinutesPerHour, HoursPerDay, MaxTime,
  None

ASSUME ThreadAssumption == /\ None \notin Threads \cup {"scheduler", "bot"}
                           /\ {"scheduler", "bot"} \cap Threads = {}
ASSUME ClockAssumption  == /\ MinutesPerHour \in Nat \ {0} /\ HoursPerDay \in Nat \ {0}
                           /\ MaxTime \in Nat

\* "off", a time of the day, or every so many hours.
Schedules == [kind : {"off"}] \cup [kind : {"daily"}, at : Nat]
             \cup [kind : {"every"}, hours : Nat \ {0}]

ASSUME ScheduleAssumption == UpdateTime \in Schedules /\ BackupTime \in Schedules

Panel == Threads \cup {"scheduler"}
Procs == Panel \cup {"bot"}

VARIABLES
  game,       \* the game process
  lock,       \* who holds the operation lock in Python, or None
  flag,       \* WebDependencies.native_maintenance
  pc, op,     \* where each process is, in which operation
  was,        \* was_running
  failed,     \* what each process's operation has failed with, if it has
  now,        \* local clock
  attempted,  \* the scheduler's table: key -> slot
  begun,      \* minutes in which a scheduled update was begun, and how often (history)
  debt,       \* an operation that restarts has stopped the game (history)
  excuse      \* why the game may stay down for all that (history)

vars == <<game, lock, flag, pc, op, was, failed, now, attempted, begun, debt, excuse>>

Operations  == {"start", "stop", "restart", "backup", "update"}
Maintenance == {"backup", "update"}
Failures    == {"no", "error", "timeout"}

Init == /\ game \in {"down", "up"} /\ lock = None /\ flag = FALSE
        /\ pc = [p \in Procs |-> "idle"] /\ op = [p \in Procs |-> "none"]
        /\ was = [p \in Procs |-> FALSE] /\ failed = [p \in Procs |-> "no"]
        /\ now = 0 /\ attempted = [k \in {"update", "backup"} |-> None]
        /\ begun = [m \in 0..MaxTime |-> 0] /\ debt = FALSE /\ excuse = FALSE

-----------------------------------------------------------------------------
(* The world around.                                                       *)

\* The game crashes, or comes to the end of an announced shutdown.
GameExits == /\ game # "down" /\ game' = "down"
             /\ UNCHANGED <<lock, flag, pc, op, was, failed, now, attempted, begun, debt, excuse>>

Tick == /\ now < MaxTime /\ now' = now + 1
        /\ UNCHANGED <<game, lock, flag, pc, op, was, failed, attempted, begun, debt, excuse>>

\* WindowsServiceController.state: the status script or, when it fails, the list of tasks.
State == {"unknown", IF game = "down" THEN "inactive" ELSE "active"}

\* palworld-service.ps1 -Action start, under the lock: "ALREADY RUNNING", "STARTED", or an error,
\* when the lock is busy or the settings cannot be rendered.
StartScript(good) ==
  \/ ~good /\ excuse' = (excuse \/ debt) /\ UNCHANGED <<game, debt>>
  \/ good /\ lock = None /\ game # "down" /\ excuse' = (excuse \/ debt) /\ UNCHANGED <<game, debt>>
  \/ good /\ lock = None /\ game = "down" /\ game' = "up" /\ debt' = FALSE /\ excuse' = FALSE

\* lifecycle.graceful_stop: save, then shutdown, either of which may raise ApiError; the request
\* to shut down may have been accepted all the same.
RestStop(p, answered) ==
  \/ ~answered /\ UNCHANGED <<game, debt, excuse>>
  \/ /\ game # "down" /\ game' = "closing" /\ debt' = (op[p] # "stop")
     /\ excuse' = (op[p] # "stop" /\ (excuse \/ ~answered))

-----------------------------------------------------------------------------
(* WebDependencies.perform, trigger_maintenance, _windows_maintenance and  *)
(* the bot's commands.                                                     *)

Game == <<game, debt, excuse>>
Time == <<now, begun>>
Goto(p, l) == pc' = [pc EXCEPT ![p] = l]
Stay == UNCHANGED <<op, was, failed, attempted>>

\* Mutant: the bot begins its operations as the panel does.
FirstOfPanel(p, o) == IF o = "start" THEN "look" ELSE "lock"

\* Where an operation begins: the panel's stop, restart and maintenance ask for the lock; the
\* bot looks at the server first; "if self.native_maintenance" stands before start and update.
First(p, o) == IF o = "start" THEN "look"
               ELSE IF p \in Panel THEN "lock" ELSE IF o = "stop" THEN "stop" ELSE "examine"

Request(p) == /\ p # "scheduler" /\ pc[p] = "idle"
              /\ \E o \in Operations \ (IF p = "bot" THEN {"restart"} ELSE {}) :
                    /\ p = "bot" \/ ~(flag /\ o \in {"start", "update"})
                    /\ Goto(p, First(p, o)) /\ op' = [op EXCEPT ![p] = o]
              /\ UNCHANGED <<lock, flag, was, failed, attempted, Game, Time>>

\* schedule_slot: what identifies the minute in which a schedule is due.
ScheduleSlot(schedule, m) ==
  CASE schedule.kind = "off"   -> None
    [] schedule.kind = "daily" -> IF m % (HoursPerDay * MinutesPerHour) = schedule.at
                                  THEN m \div (HoursPerDay * MinutesPerHour) ELSE None
    [] schedule.kind = "every" -> IF m % MinutesPerHour = 0 /\ (m \div MinutesPerHour) % schedule.hours = 0
                                  THEN m \div (MinutesPerHour * schedule.hours) ELSE None

\* The operation is over.  After a success or an error the scheduler goes on with its second key,
\* for which the success of an update counts as well; it does not catch TimeoutExpired.
End(p, failure) ==
  /\ pc' = [pc EXCEPT ![p] = IF p # "scheduler" THEN "idle" ELSE IF failure = "timeout" THEN "dead" ELSE "second"]
  /\ op' = [op EXCEPT ![p] = "none"] /\ was' = [was EXCEPT ![p] = FALSE] /\ failed' = [failed EXCEPT ![p] = "no"]
  /\ attempted' = IF p = "scheduler" /\ failure = "no"
                  THEN [attempted EXCEPT !["backup"] = ScheduleSlot(BackupTime, now)] ELSE attempted

Unlocked(p) == IF lock = p THEN None ELSE lock

\* The operation fails: maintenance still has its finally clause to go through.
FailOf(p, failure) ==
  IF op[p] \in Maintenance
  THEN Goto(p, "leave") /\ failed' = [failed EXCEPT ![p] = failure] /\ UNCHANGED <<lock, op, was, attempted>>
  ELSE End(p, failure) /\ lock' = Unlocked(p)
Fail(p) == FailOf(p, "error")

\* _start: only a server known to be down is started.
Look(p) == /\ pc[p] = "look"
           /\ \E s \in State : IF s = "inactive" THEN Goto(p, "script") /\ Stay ELSE End(p, "error")
           /\ UNCHANGED <<lock, flag, Game, Time>>

\* with self.operation_lock(), or OperationLockBusy: the lock may be another program's.
Lock(p) == /\ pc[p] = "lock"
           /\ \/ lock = None /\ lock' = p /\ Goto(p, "locked") /\ Stay
              \/ End(p, "error") /\ UNCHANGED lock
           /\ UNCHANGED <<flag, Game, Time>>

\* _require_idle_maintenance, under the lock; maintenance then raises the flag.
Check(p) == /\ pc[p] = "locked"
            /\ IF flag THEN End(p, "error") /\ lock' = None /\ UNCHANGED flag
               ELSE /\ flag' = (op[p] \in Maintenance)
                    /\ Goto(p, IF op[p] \in Maintenance THEN "examine" ELSE "stop")
                    /\ Stay /\ UNCHANGED lock
            /\ UNCHANGED <<Game, Time>>

\* Mutant: a state that cannot be confirmed is taken for a stopped server.
ExaminedAny(p, s) == TRUE

\* "無法確認伺服器狀態"; the bot takes anything but ACTIVE for a stopped server.
Examined(p, s) == p = "bot" \/ s # "unknown"

\* was_running is decided.
Examine(p) ==
  /\ pc[p] = "examine"
  /\ \E s \in State :
        IF Examined(p, s)
        THEN /\ Goto(p, IF s = "active" THEN "stop" ELSE "copy")
             /\ was' = [was EXCEPT ![p] = (s = "active")] /\ UNCHANGED <<lock, op, failed, attempted>>
        ELSE Fail(p)
  /\ UNCHANGED <<flag, Game, Time>>

\* The server has been asked to shut down.
Asked(p) == IF op[p] = "stop" THEN End(p, "no") /\ lock' = Unlocked(p)
            ELSE Goto(p, "wait") /\ Stay /\ UNCHANGED lock

\* _graceful_stop: the status must be ACTIVE, then REST.  A stop or restart of the panel whose
\* REST call failed falls back on the adapter.
Stop(p) ==
  /\ pc[p] = "stop"
  /\ \/ Fail(p) /\ UNCHANGED Game
     \/ game # "down" /\ RestStop(p, TRUE) /\ Asked(p)
     \/ /\ game # "down" /\ RestStop(p, FALSE)
        /\ IF p \in Panel /\ op[p] \notin Maintenance THEN Goto(p, "fallback") /\ Stay /\ UNCHANGED lock
           ELSE Fail(p)
  /\ UNCHANGED <<flag, Time>>

\* WindowsServiceController.stop: REST once more, then the script, which asks for the lock that
\* this thread holds and is refused.
Fallback(p) == /\ pc[p] = "fallback"
               /\ \/ RestStop(p, TRUE) /\ Asked(p)
                  \/ RestStop(p, FALSE) /\ Fail(p)
               /\ UNCHANGED <<flag, Time>>

\* Mutant: the wait has no deadline.
NeverGivesUp(p) == FALSE

\* The deadline passes or, for the panel, the state is UNKNOWN.
GivesUp(p) == TRUE

\* _wait_for_inactive
Wait(p) ==
  /\ pc[p] = "wait"
  /\ \/ /\ game = "down" /\ Stay /\ UNCHANGED Game
        /\ Goto(p, IF op[p] = "restart" THEN "script" ELSE "copy")
        /\ lock' = IF op[p] = "restart" THEN None ELSE lock
     \/ GivesUp(p) /\ Fail(p) /\ excuse' = (excuse \/ debt) /\ UNCHANGED <<game, debt>>
  /\ UNCHANGED <<flag, Time>>

\* The backup, and SteamCMD after it; either may fail, and the panel's backup may overrun its time.
Copy(p) == /\ pc[p] \in {"copy", "steam"}
           /\ \/ /\ Goto(p, IF pc[p] = "copy" /\ op[p] = "update" THEN "steam" ELSE "leave")
                 /\ Stay /\ UNCHANGED lock
              \/ Fail(p)
              \/ p \in Panel /\ pc[p] = "copy" /\ FailOf(p, "timeout")
           /\ UNCHANGED <<flag, Game, Time>>

\* Mutant: what was running is started again after a success only.
RestartsIfGood(p, s) == was[p] /\ failed[p] = "no"

\* finally: if was_running.  After a failure the bot first looks whether the server is active.
Restarts(p, s) == was[p] /\ (p = "bot" /\ failed[p] # "no" => s # "active")

\* The lock is released.  The bot may find a server active that is still closing.
Leave(p) == /\ pc[p] = "leave" /\ lock' = Unlocked(p)
            /\ \E s \in State :
                  /\ Goto(p, IF Restarts(p, s) THEN "script" ELSE "unflag")
                  /\ excuse' = (excuse \/ (p = "bot" /\ s = "active" /\ debt))
            /\ Stay /\ UNCHANGED <<flag, game, debt, Time>>

\* Mutant: the flag stays up when the start fails.
FlagAfterUnlessFailed(p, good) == IF op[p] \in Maintenance /\ p \in Panel THEN ~good ELSE flag

\* finally: if owns_maintenance: self.native_maintenance = False
FlagAfter(p, good) == IF op[p] \in Maintenance /\ p \in Panel THEN FALSE ELSE flag

\* _start_server, and the end of maintenance.  A start that fails is the failure of the bot's
\* maintenance too, which then tries once more; the panel's takes the place of what went before.
Finish(p) ==
  /\ \/ pc[p] = "unflag" /\ flag' = FlagAfter(p, TRUE) /\ End(p, failed[p]) /\ UNCHANGED <<lock, Game>>
     \/ /\ pc[p] = "script"
        /\ \E good \in BOOLEAN :
              /\ StartScript(good)
              /\ IF p = "bot" /\ ~good /\ op[p] \in Maintenance /\ failed[p] = "no"
                 THEN Fail(p) /\ UNCHANGED flag
                 ELSE /\ flag' = FlagAfter(p, good) /\ End(p, IF good THEN failed[p] ELSE "error")
                      /\ UNCHANGED lock
  /\ UNCHANGED Time

-----------------------------------------------------------------------------
(* run_windows_schedules                                                   *)

Due(key, schedule) == /\ ScheduleSlot(schedule, now) # None
                      /\ attempted[key] # ScheduleSlot(schedule, now)

\* Mutant: a slot counts as attempted once its operation has been accepted.
MarkedIfAccepted(accepted) == IF accepted THEN ScheduleSlot(UpdateTime, now) ELSE attempted["update"]

\* "attempted[key] = identity" comes before the operation.
Marked(accepted) == ScheduleSlot(UpdateTime, now)

\* The first key: an update that is due is begun, unless maintenance runs already.
FirstKey == /\ pc["scheduler"] = "idle"
            /\ IF Due("update", UpdateTime)
               THEN /\ attempted' = [attempted EXCEPT !["update"] = Marked(~flag)]
                    /\ begun' = [begun EXCEPT ![now] = IF @ < 2 THEN @ + 1 ELSE @]
                    /\ Goto("scheduler", IF flag THEN "second" ELSE "lock")
                    /\ op' = [op EXCEPT !["scheduler"] = IF flag THEN "none" ELSE "update"]
               ELSE Goto("scheduler", "second") /\ UNCHANGED <<attempted, begun, op>>
            /\ UNCHANGED <<lock, flag, was, failed, now, Game>>

\* The second key: the operation it names does not exist, and AttributeError ends the thread.
SecondKey == /\ pc["scheduler"] = "second"
             /\ IF Due("backup", BackupTime)
                THEN /\ attempted' = [attempted EXCEPT !["backup"] = ScheduleSlot(BackupTime, now)]
                     /\ Goto("scheduler", "dead")
                ELSE Goto("scheduler", "idle") /\ UNCHANGED attempted
             /\ UNCHANGED <<lock, flag, op, was, failed, Game, Time>>

-----------------------------------------------------------------------------

Step(p) == \/ Look(p) \/ Lock(p) \/ Check(p) \/ Examine(p) \/ Stop(p) \/ Fallback(p) \/ Wait(p)
           \/ Copy(p) \/ Leave(p) \/ Finish(p)

Next == GameExits \/ Tick \/ FirstKey \/ SecondKey \/ (\E p \in Procs : Request(p) \/ Step(p))

\* Every call a thread waits for has a time limit.
Spec == Init /\ [][Next]_vars /\ (\A p \in Panel : WF_vars(Step(p)))

-----------------------------------------------------------------------------
(* Correctness.                                                            *)

Labels == {"idle", "look", "lock", "locked", "examine", "stop", "fallback", "wait", "copy", "steam",
           "leave", "script", "unflag", "second", "dead"}

TypeOK == /\ game \in {"down", "up", "closing"} /\ lock \in Panel \cup {None} /\ flag \in BOOLEAN
          /\ pc \in [Procs -> Labels] /\ op \in [Procs -> Operations \cup {"none"}]
          /\ was \in [Procs -> BOOLEAN] /\ failed \in [Procs -> Failures]
          /\ now \in 0..MaxTime /\ attempted \in [{"update", "backup"} -> 0..MaxTime \cup {None}]
          /\ begun \in [0..MaxTime -> 0..2] /\ debt \in BOOLEAN /\ excuse \in BOOLEAN

\* The maintenance flag is up exactly while some thread of the panel is in maintenance, whatever
\* fails: a flag left up would refuse every later operation of this world.
InMaintenance(p) == pc[p] \in {"examine", "stop", "wait", "copy", "steam", "leave", "script", "unflag"}
                    /\ op[p] \in Maintenance
FlagScoped == flag = (\E p \in Panel : InMaintenance(p))

\* The panel copies the save and updates the installation of a server that is down, although
\* the bot, which takes no lock, starts and stops the same server.
ColdCopy == \A p \in Panel : pc[p] \in {"copy", "steam"} => game = "down" /\ lock = p

\* A server that an operation has stopped in order to start it again is not left down, unless
\* the start was refused or failed, or the shutdown came after the operation had given it up.
NobodyStranded == game = "down" /\ debt /\ (\A p \in Procs : op[p] = "none") => excuse

\* A slot's update is begun once, however often the loop looks at the clock within the minute
\* and whatever becomes of it.
OncePerSlot == \A m \in 0..MaxTime : begun[m] <= 1

\* Maintenance ends, though the server never closes.
MaintenanceEnds == flag ~> ~flag

-----------------------------------------------------------------------------
(* Known not to hold: with this formula as its INVARIANT a run shows how.  *)

\* "結束面板程序則停止排程": the schedule runs until the panel ends.  A backup that is due and one
\* that overruns its time in an update both end the loop's thread.
SchedulerLives == pc["scheduler"] # "dead"
=============================================================================
