----------------------------- MODULE Supervisor -----------------------------
(***************************************************************************)
(* The container supervisor, docker/docker-supervisor.py: the process that *)
(* launches PalServer, serves the control socket, runs the schedule and    *)
(* the idle watcher, and shuts the container down.                         *)
(*                                                                         *)
(* One thread runs the main loop, one the schedule, one the idle watcher,  *)
(* and the control socket gives each request a handler thread.  Operations *)
(* run under operation_lock, but the main loop reaps the game without it,  *)
(* and the game may exit whenever it likes.                                *)
(*                                                                         *)
(* A step is what a thread does between two points at which CPython can    *)
(* switch threads: attribute reads with no call between them are one step, *)
(* a read before a call and an assignment after it are two.  Time is       *)
(* abstract: a wait may end or time out in any state.                      *)
(***************************************************************************)
EXTENDS Naturals, FiniteSets

CONSTANTS
  Handlers,   \* control-socket handler threads
  Games,      \* identities of PalServer processes; bounds how many coexist
  None

Main      == "main"               \* the thread that executes run()
Scheduler == "scheduled-backups"  \* backup_loop
Idle      == "idle-watcher"       \* idle_loop
Threads   == Handlers \cup {Main, Scheduler, Idle}

ASSUME ThreadsAssumption == Handlers \cap {Main, Scheduler, Idle} = {}
ASSUME NoneAssumption    == None \notin Games /\ None \notin Threads

Requests == {"status", "start", "stop", "restart", "backup", "restore", "update"}
Steps    == {"begin", "halt", "ask", "waitExit", "sigint", "sigterm", "sigkill",
             "presave", "snapshot", "swap", "steamcmd", "launch", "recover",
             "poll", "presaveIdle", "repoll", "done"}
Labels   == Steps \cup {"free", "wait", "dead", "exited",
                        "loop", "report", "clear", "closing", "children", "died"}
Errors   == {"caught", "subprocess"}  \* "subprocess" is CalledProcessError

VARIABLES
  game,         \* self.game: the PalServer process it tracks, or None
  alive,        \* the PalServer processes that are running
  idleStopped,  \* self.idle_stopped
  maintenance,  \* self.maintenance
  lock,         \* owner of self.operation_lock, or None
  stopping,     \* the STOPPING event
  idleSince,    \* whether the idle watcher's idle_since is set
  pc,           \* where each thread is
  op            \* what each thread's operation keeps, see Operations

(***************************************************************************)
(* req: the action asked for; was: was_running; exc: the exception that    *)
(* ends the operation; owes (history): it stopped a running game and has   *)
(* not tried to start one since.                                           *)
(***************************************************************************)
Operations == [req : Requests \cup {"drain", "idle", "none"}, was : BOOLEAN,
               exc : Errors \cup {"none"}, owes : BOOLEAN]
NoOperation == [req |-> "none", was |-> FALSE, exc |-> "none", owes |-> FALSE]

server == <<game, alive, idleStopped>>
shared == <<maintenance, lock, stopping, idleSince>>
vars   == <<server, shared, pc, op>>

GameUp    == game \in alive
Go(t, to) == pc' = [pc EXCEPT ![t] = to]
Ask(t, a) == Go(t, "wait") /\ op' = [op EXCEPT ![t].req = a]

\* run() has updated and started the game and launched every worker.
Init ==
  /\ game \in Games /\ alive = {game}
  /\ idleStopped = FALSE /\ maintenance = FALSE /\ stopping = FALSE /\ idleSince = FALSE
  /\ lock = None
  /\ pc = [t \in Threads |-> IF t = Main THEN "loop" ELSE "free"]
  /\ op = [t \in Threads |-> NoOperation]

-----------------------------------------------------------------------------
(* The environment: the game, the clock, the clients and the runtime.      *)

\* A PalServer process exits: a crash, or the end of a REST shutdown.
GameExits(g) == /\ g \in alive
                /\ alive' = alive \ {g}
                /\ UNCHANGED <<game, idleStopped, shared, pc, op>>

\* SIGTERM or SIGINT sets STOPPING.
Terminate == /\ stopping' = TRUE
             /\ UNCHANGED <<server, maintenance, lock, idleSince, pc, op>>

\* The socket server, whose thread outlives the main one, hands out a request.
Accept(h, a) == /\ pc[h] = "free" /\ pc[Main] \in {"loop", "report", "clear", "died"}
                /\ Ask(h, a)
                /\ UNCHANGED <<server, shared>>

-----------------------------------------------------------------------------
(* The main loop and the shutdown sequence of run().                       *)

\* The poll finds the tracked game dead.
MainPoll == /\ pc[Main] = "loop" /\ ~stopping
            /\ game # None /\ ~GameUp
            /\ Go(Main, "report")
            /\ UNCHANGED <<server, shared, op>>

\* self.game.returncode is read again: AttributeError if another thread cleared it.
MainReport == /\ pc[Main] = "report"
              /\ Go(Main, IF game = None THEN "died" ELSE "clear")
              /\ UNCHANGED <<server, shared, op>>

\* self.game = None, whatever self.game is by now.
MainClear == /\ pc[Main] = "clear"
             /\ Go(Main, "loop")
             /\ game' = None
             /\ UNCHANGED <<alive, idleStopped, shared, op>>

\* stop_control_socket: no further request is accepted.
MainClose == /\ pc[Main] = "loop" /\ stopping
             /\ Go(Main, "closing")
             /\ UNCHANGED <<server, shared, op>>

HandlersAbandoned == TRUE  \* mutant: daemon handler threads, which nobody joins

\* server_close joins the handler threads.
HandlersJoined == \A h \in Handlers : pc[h] = "free"

\* graceful_stop queues for the lock.
MainDrain == /\ pc[Main] = "closing" /\ HandlersJoined
             /\ Ask(Main, "drain")
             /\ UNCHANGED <<server, shared>>

\* stop_children is done: the interpreter exits and takes daemon threads with it.
MainExit == /\ pc[Main] = "children"
            /\ Go(Main, "exited")
            /\ UNCHANGED <<server, shared, op>>

-----------------------------------------------------------------------------
(* The two daemon workers between their operations.                        *)

\* backup_loop finds that a slot of UPDATE_TIME or BACKUP_TIME, not attempted yet,
\* matches the clock; it counts as attempted from now on.
TakeSlot(a) == /\ pc[Scheduler] = "free" /\ ~stopping
               /\ Ask(Scheduler, a)
               /\ UNCHANGED <<server, shared>>

\* idle_loop, without the lock: the game is down or still in its grace period.
IdleSkips == /\ pc[Idle] = "free" /\ ~stopping
             /\ idleSince' = FALSE
             /\ UNCHANGED <<server, maintenance, lock, stopping, pc, op>>

\* idle_loop, without the lock: the game looks up; queue for the lock.
IdleChecks == /\ pc[Idle] = "free" /\ ~stopping /\ GameUp
              /\ Ask(Idle, "idle")
              /\ UNCHANGED <<server, shared>>

\* STOPPING.wait returns TRUE: the worker's loop ends.
WorkerEnds(w) == /\ pc[w] = "free" /\ stopping
                 /\ Go(w, "exited")
                 /\ UNCHANGED <<server, shared, op>>

-----------------------------------------------------------------------------
(* control(): entering and leaving operation_lock.                         *)

\* Mutant: the drain timeout of graceful_stop is taken as permission to go on.
LockFreeOrTimedOut(t) == lock = None \/ t = Main

LockFree(t) == lock = None

Acquire(t) == /\ pc[t] = "wait" /\ LockFree(t)
              /\ lock' = t
              /\ Go(t, "begin")
              /\ UNCHANGED <<server, maintenance, stopping, idleSince, op>>

FirstStep == [start |-> "launch", stop |-> "halt", restart |-> "halt", backup |-> "presave",
              restore |-> "halt", update |-> "presave", drain |-> "halt", idle |-> "poll"]

\* The dispatch of control(); graceful_stop and idle_loop dispatch themselves.
Begin(t) ==
  /\ pc[t] = "begin" /\ op[t].req # "status"
  /\ IF maintenance /\ op[t].req \in {"start", "stop", "restart", "backup", "update"}
     THEN Go(t, "done") /\ op' = [op EXCEPT ![t].exc = "caught"] /\ UNCHANGED maintenance
     ELSE /\ Go(t, FirstStep[op[t].req])
          /\ maintenance' = (maintenance \/ op[t].req = "update")
          /\ op' = [op EXCEPT ![t].was = op[t].req \in {"restore", "update"} /\ GameUp]
  /\ UNCHANGED <<server, lock, stopping, idleSince>>

\* A restore whose version is not a snapshot name is refused before anything stops.
RejectVersion(t) == /\ pc[t] = "begin" /\ op[t].req = "restore"
                    /\ Go(t, "done") /\ op' = [op EXCEPT ![t].exc = "caught"]
                    /\ UNCHANGED <<server, shared>>

\* status() forgets a dead game.
Status(t) == /\ pc[t] = "begin" /\ op[t].req = "status"
             /\ Go(t, "done")
             /\ game' = IF GameUp THEN game ELSE None
             /\ UNCHANGED <<alive, idleStopped, shared, op>>

\* Mutant: an update that raises leaves the flag up (no finally).
FlagAfterUnlessRaised(t) == maintenance /\ op[t].exc # "none"

FlagAfter(t) == maintenance /\ op[t].req # "update"

\* The operation returns or raises; CalledProcessError ends backup_loop.
Release(t) ==
  /\ pc[t] = "done"
  /\ lock' = None
  /\ maintenance' = FlagAfter(t)
  /\ Go(t, IF t = Main THEN "children"
           ELSE IF t = Scheduler /\ op[t].exc = "subprocess" THEN "dead" ELSE "free")
  /\ op' = [op EXCEPT ![t] = NoOperation]
  /\ UNCHANGED <<server, stopping, idleSince>>

-----------------------------------------------------------------------------
(* _stop_game: REST save and shutdown, then signals to the process group.  *)

\* Mutant: restart goes on with the action "start" instead of start_game.
AfterHaltMistyped == [stop |-> "done", restart |-> "start", restore |-> "swap",
                      update |-> "steamcmd", drain |-> "done"]

\* Where its caller goes on.
AfterHalt == [stop |-> "done", restart |-> "launch", restore |-> "swap",
              update |-> "steamcmd", drain |-> "done"]

\* It returns, the game being down or forgotten.
Halted(t) == /\ pc[t] \in {"halt", "waitExit", "sigint", "sigterm", "sigkill"} /\ ~GameUp
             /\ game' = None
             /\ idleStopped' = (idleStopped \/ op[t].req = "stop")
             /\ op' = [op EXCEPT ![t].owes = op[t].was \/ (op[t].req = "restart" /\ pc[t] # "halt")]
             /\ Go(t, AfterHalt[op[t].req])
             /\ UNCHANGED <<alive, shared>>

\* Mutant: the last signal is SIGTERM.
NextResortPolite == [halt |-> "ask", waitExit |-> "sigint", sigint |-> "sigterm", sigterm |-> "sigterm"]

NextResort == [halt |-> "ask", waitExit |-> "sigint", sigint |-> "sigterm", sigterm |-> "sigkill"]

\* The game runs on: ask it, or the wait timed out and the next signal is sent.
Insist(t) == /\ pc[t] \in DOMAIN NextResort /\ GameUp
             /\ Go(t, NextResort[pc[t]])
             /\ UNCHANGED <<server, shared, op>>

\* REST save, then shutdown; an ApiError from either falls back to the signals.
AskToShutDown(t) == /\ pc[t] = "ask"
                    /\ Go(t, "sigint") \/ (alive # {} /\ Go(t, "waitExit"))
                    /\ UNCHANGED <<server, shared, op>>

\* SIGKILL ends the tracked process group within the last wait.
Kill(t) == /\ pc[t] = "sigkill" /\ GameUp
           /\ alive' = alive \ {game}
           /\ UNCHANGED <<game, idleStopped, shared, pc, op>>

-----------------------------------------------------------------------------
(* The work of the operations.                                             *)

\* An exception inside update goes through its except clause, others leave.
Raise(t, e) == /\ op' = [op EXCEPT ![t].exc = e]
               /\ Go(t, IF op[t].req = "update" THEN "recover" ELSE "done")

\* backup_once: REST save while the game runs, an ApiError aborts the backup.
SaveFirst(t) == /\ pc[t] = "presave"
                /\ \/ (GameUp => alive # {}) /\ Go(t, "snapshot") /\ UNCHANGED op
                   \/ GameUp /\ Raise(t, "caught")
                /\ UNCHANGED <<server, shared>>

\* Mutant: the update runs SteamCMD over the running game.
AfterSnapshotHot(t) == IF op[t].req = "update" THEN "steamcmd" ELSE "done"

AfterSnapshot(t) == IF op[t].req # "update" THEN "done"
                    ELSE IF op[t].was THEN "halt" ELSE "steamcmd"

\* create_snapshot returns, or raises SnapshotError.
Snapshot(t) == /\ pc[t] = "snapshot"
               /\ \/ Go(t, AfterSnapshot(t)) /\ UNCHANGED op
                  \/ Raise(t, "caught")
               /\ UNCHANGED <<server, shared>>

\* Mutant: a restore that raises does not start the server again.
AfterSwapUnlessRaised(t, e) == IF op[t].was /\ e = "none" THEN "launch" ELSE "done"

AfterSwap(t, e) == IF op[t].was THEN "launch" ELSE "done"

\* BackupManager.restore returns or raises.
Swap(t) == /\ pc[t] = "swap"
           /\ \E e \in {"none", "caught"} : /\ op' = [op EXCEPT ![t].exc = e]
                                            /\ Go(t, AfterSwap(t, e))
           /\ UNCHANGED <<server, shared>>

\* update_game: a failing SteamCMD raises CalledProcessError, a missing one OSError.
SteamCMD(t) == /\ pc[t] = "steamcmd"
               /\ \/ Go(t, IF op[t].was THEN "launch" ELSE "done") /\ UNCHANGED op
                  \/ \E e \in Errors : Raise(t, e)
               /\ UNCHANGED <<server, shared>>

\* start_game returns: the tracked game runs already, or a new process does now.
StartGame == \/ GameUp /\ UNCHANGED server
             \/ /\ ~GameUp
                /\ \E g \in Games \ (alive \cup {game}) : game' = g /\ alive' = alive \cup {g}
                /\ idleStopped' = FALSE

\* start_game, which also raises: no PalServer.sh, or render-settings fails.
Launch(t) == /\ pc[t] = "launch"
             /\ \/ StartGame /\ Go(t, "done") /\ op' = [op EXCEPT ![t].owes = FALSE]
                \/ /\ ~GameUp /\ UNCHANGED server
                   /\ Go(t, IF op[t].req = "update" THEN "recover" ELSE "done")
                   /\ \E e \in Errors : op' = [op EXCEPT ![t].exc = e, ![t].owes = FALSE]
             /\ UNCHANGED shared

\* The except clause of update: a server that ran and is down is started, best effort.
Recover(t) == /\ pc[t] = "recover"
              /\ Go(t, "done")
              /\ (op[t].was /\ ~GameUp /\ StartGame) \/ UNCHANGED server
              /\ op' = [op EXCEPT ![t].owes = @ /\ ~(op[t].was /\ ~GameUp)]
              /\ UNCHANGED shared

\* idle_loop's first player count: unknown and occupied reset the timer.
IdlePoll == /\ pc[Idle] = "poll"
            /\ \/ idleSince' = FALSE /\ Go(Idle, "done")
               \/ alive # {} /\ idleSince' = TRUE /\ Go(Idle, "done")
               \/ alive # {} /\ idleSince /\ Go(Idle, "presaveIdle") /\ UNCHANGED idleSince
            /\ UNCHANGED <<server, maintenance, lock, stopping, op>>

\* REST save, and the second player count: not empty, or REST fails.
IdleDefers == /\ \/ /\ pc[Idle] = "presaveIdle" /\ alive # {} /\ Go(Idle, "repoll")
                    /\ UNCHANGED idleSince
                 \/ /\ pc[Idle] \in {"presaveIdle", "repoll"} /\ Go(Idle, "done")
                    /\ idleSince' = FALSE
                 \/ pc[Idle] = "repoll" /\ alive # {} /\ Go(Idle, "done") /\ UNCHANGED idleSince
              /\ UNCHANGED <<server, maintenance, lock, stopping, op>>

\* Still empty: REST accepts the shutdown, and the thread returns for good.
IdleShutsDown == /\ pc[Idle] = "repoll" /\ alive # {}
                 /\ idleStopped' = TRUE
                 /\ lock' = None
                 /\ Go(Idle, "exited") /\ op' = [op EXCEPT ![Idle] = NoOperation]
                 /\ UNCHANGED <<game, alive, maintenance, stopping, idleSince>>

-----------------------------------------------------------------------------

Operation(t) ==
  \/ Acquire(t) \/ Begin(t) \/ RejectVersion(t) \/ Status(t) \/ Release(t)
  \/ Halted(t) \/ Insist(t) \/ AskToShutDown(t) \/ Kill(t)
  \/ SaveFirst(t) \/ Snapshot(t) \/ Swap(t) \/ SteamCMD(t) \/ Launch(t) \/ Recover(t)
MainLoop  == MainPoll \/ MainReport \/ MainClear \/ MainClose \/ MainDrain \/ MainExit
IdleWatch == IdleSkips \/ IdleChecks \/ IdlePoll \/ IdleDefers \/ IdleShutsDown
Work      == \/ \E t \in Threads : Operation(t)
             \/ MainLoop \/ IdleWatch
             \/ \E a \in {"update", "backup"} : TakeSlot(a)
             \/ \E w \in {Scheduler, Idle} : WorkerEnds(w)
Environment == \/ \E g \in Games : GameExits(g)
               \/ \E h \in Handlers, a \in Requests : Accept(h, a)
               \/ Terminate

\* Once the interpreter has exited nothing happens any more.
Up     == pc[Main] # "exited"
Exited == ~Up /\ UNCHANGED vars
Next   == (Up /\ (Environment \/ Work)) \/ Exited

(***************************************************************************)
(* Every thread that can take a step takes one some day: REST calls, waits *)
(* for the game and subprocesses return or time out.  Nothing is fair      *)
(* about the environment, and lock hand-over need not be fair either.      *)
(***************************************************************************)
Fairness == /\ \A t \in Threads : WF_vars(Up /\ Operation(t))
            /\ WF_vars(Up /\ MainLoop)
            /\ WF_vars(Up /\ IdleWatch)
            /\ \A w \in {Scheduler, Idle} : WF_vars(Up /\ WorkerEnds(w))

Spec == Init /\ [][Next]_vars /\ Fairness

-----------------------------------------------------------------------------
(* Correctness.                                                            *)

TypeOK ==
  /\ game \in Games \cup {None} /\ alive \subseteq Games
  /\ idleStopped \in BOOLEAN /\ maintenance \in BOOLEAN
  /\ stopping \in BOOLEAN /\ idleSince \in BOOLEAN
  /\ lock \in Threads \cup {None}
  /\ pc \in [Threads -> Labels]
  /\ op \in [Threads -> Operations]

\* At most one thread is inside an operation, and it owns operation_lock:
\* graceful_stop included, whose drain timeout is "an operational warning, not
\* permission to corrupt a live world tree".
OperationsExclusive == \A t \in Threads : pc[t] \in Steps => lock = t

\* While a restore replaces the live trees or SteamCMD replaces the installation,
\* the PalServer process the supervisor tracks is not running.
OfflineWhileReplacing == \A t \in Threads : pc[t] \in {"swap", "steamcmd"} => ~GameUp

\* The maintenance flag is up only while the update that raised it holds the lock:
\* left up, it would refuse every later start, stop, restart, backup and update.
MaintenanceScoped ==
  maintenance => \E t \in Threads : lock = t /\ op[t].req = "update" /\ pc[t] \in Steps

\* No restart, restore or update, however it ends, leaves a server down that it
\* stopped itself without having tried to start it again (control's except clauses).
NoServerStranded == \A t \in Threads : pc[t] = "done" => ~op[t].owes

\* When PID 1 exits, every control request has been finished, and the game it
\* tracks was stopped and not started again by a request that came late.
ExitsDrained == ~Up => ~GameUp /\ \A h \in Handlers : pc[h] = "free"

\* A container told to stop exits in the end, whatever operations are under way,
\* unless the main loop died before.
StopCompletes == stopping ~> pc[Main] \in {"exited", "died"}

-----------------------------------------------------------------------------
(* Known not to hold: with one of these formulas as the INVARIANT a run shows how.  *)

\* "this process owns every child it starts": each running PalServer is the one
\* self.game tracks, so that it can be stopped and is stopped before a restore.
OwnsEveryGame == alive \subseteq {game}

\* backup_loop runs "daily or interval backups" for the life of the container: a
\* scheduled operation that fails does not end the thread.
SchedulerSurvives == pc[Scheduler] # "dead"

\* The idle watcher goes on watching until the container stops.
IdleWatcherPersists == pc[Idle] = "exited" => stopping

\* graceful_stop: "Do not ... let PID 1 exit while one of those operations is
\* publishing filesystem state", the scheduled workers' operations included.
NoExitMidOperation ==
  ~Up => \A t \in Threads : pc[t] \notin {"snapshot", "swap", "steamcmd"}
=============================================================================
