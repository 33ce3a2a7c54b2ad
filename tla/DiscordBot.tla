---------------------------- MODULE DiscordBot -----------------------------
(***************************************************************************)
(* The Discord bot of a host deployment, its commands on the default       *)
(* world, and the maintenance workflow that /pal update sets going and     *)
(* watches: two systemd units run the same script, which reports its       *)
(* progress in one file.  Every await of a command is a step boundary.     *)
(***************************************************************************)
EXTENDS Naturals

CONSTANTS
  Users,    \* members with an admin role; each has one command under way at a time
  MaxRuns,  \* bound: activations of the two units
  MaxFaults, \* bound: writes and reads of the progress file that fail, and scripts that are killed
  None

Units    == {"manual", "scheduled"}  \* palworld-maintenance, palworld-scheduled-maintenance
Commands == {"start", "stop", "backup", "update"}

ASSUME NoneAssumption == None \notin Users \cup Units /\ "bot" \notin Users
ASSUME RunAssumption  == MaxRuns \in Nat /\ MaxFaults \in Nat

VARIABLES
  pc, cmd,   \* where each user's command is
  holder,    \* OperationCoordinator.operation_lock
  game,      \* palworld.service is active
  lock,      \* the operation lock: None, a unit, or "bot" for what a command of the bot runs
  step,      \* of each unit's script
  run,       \* of each unit: RUN_ID, 0 when it does not run
  was,       \* of each unit: was_active
  runs,      \* activations so far
  file,      \* maintenance-state.json, as read_state reads it
  faults,    \* faults so far
  mute,      \* since the last report a script has ended without one, while the file told of no
             \* outcome (history)
  prev,      \* of the update under way: previous_run_id
  received,  \* of the update under way: another run_id has been seen
  blind,     \* of the update under way: the file could not be read for it (history)
  over,      \* the runs that had ended when previous_run_id was read (history)
  own,       \* the run of the unit that was asked for (history)
  told       \* the run whose outcome was announced last, 0 when none was (history)

bot   == <<pc, cmd, holder>>
unit  == <<step, run, was, runs>>
state == <<file, faults, mute>>
watch == <<prev, received, blind, over, own>>
vars  == <<bot, game, lock, unit, state, watch, told>>

Terminal == {"completed", "failed"}
Phases   == {"starting", "stopping", "backup", "updating", "restarting"} \cup Terminal

\* What read_state makes of a file that is missing, empty or unreadable; maintenance_embed calls a
\* state without a phase "starting".
Nothing == [run |-> 0, phase |-> "starting"]

Init == /\ pc = [u \in Users |-> "idle"] /\ cmd = [u \in Users |-> "none"] /\ holder = None
        /\ game \in BOOLEAN /\ lock = None
        /\ step = [m \in Units |-> "ended"] /\ run = [m \in Units |-> 0]
        /\ was = [m \in Units |-> FALSE] /\ runs = 0
        /\ file = Nothing /\ faults = 0 /\ mute = TRUE
        /\ prev = 0 /\ received = FALSE /\ blind = FALSE /\ over = {} /\ own = 0 /\ told = 0

-----------------------------------------------------------------------------
(* The units: daily-palworld-maintenance.sh.                               *)

Moved(m, l) == step' = [step EXCEPT ![m] = l]
Named(m, id) == run' = [run EXCEPT ![m] = id]

Fault == faults < MaxFaults /\ faults' = faults + 1

\* write_state: a new file, renamed over the old one.
Report(m, phase) == file' = [run |-> run[m], phase |-> phase] /\ mute' = FALSE /\ UNCHANGED faults

\* It fails before the rename: the directory is unsafe, or mktemp, printf, chmod or mv fails.
Unreported == Fault /\ UNCHANGED file

\* Under set +e a printf that fails is followed by the rename all the same.
Emptied == Fault /\ file' = Nothing

\* A script ends without a word.
Silent == mute' = IF file'.phase \in Terminal THEN mute ELSE TRUE

\* systemctl start of a unit that does not run; one that runs goes on as it is.
Queue(m) == /\ step[m] = "ended" /\ runs < MaxRuns /\ runs' = runs + 1
            /\ Moved(m, "queued") /\ Named(m, runs + 1) /\ UNCHANGED was

\* The timer, or the panel.
Activate(m) == Queue(m) /\ UNCHANGED <<bot, game, lock, state, watch, told>>

Ended(m) == Moved(m, "ended") /\ Named(m, 0) /\ was' = [was EXCEPT ![m] = FALSE]

\* The configuration and the schedule, before anything is reported: the unit may well end here.
Configure(m) == /\ step[m] = "queued"
                /\ Ended(m) \/ (Moved(m, "lock") /\ UNCHANGED <<run, was>>)
                /\ UNCHANGED <<bot, game, lock, runs, state, watch, told>>

\* flock -n 9 || die: the EXIT trap is set by then.
Flock(m) == /\ step[m] = "lock"
            /\ \/ /\ lock = None /\ lock' = m
                  /\ \/ Report(m, "starting") /\ Moved(m, "starting")
                     \/ Unreported /\ Moved(m, "trap") /\ UNCHANGED mute
               \/ Moved(m, "trap") /\ UNCHANGED <<lock, state>>
            /\ UNCHANGED <<bot, game, run, was, runs, watch, told>>

\* A command of the script fails.
Dies(m) == Moved(m, "trap") /\ UNCHANGED <<game, state, was>>

Following(m) == CASE step[m] = "starting" -> IF was'[m] THEN "stopping" ELSE "backup"
              [] step[m] = "stopping" -> "backup"
              [] step[m] = "backup"   -> "updating"
              [] step[m] = "updating" -> IF was[m] THEN "restarting" ELSE "completed"
              [] step[m] = "restarting" -> "completed"

\* Under set -e a report that fails ends the script: in the EXIT trap, but for the last one,
\* before which the trap is taken off.
Unannounced(m) == IF Following(m) = "completed" THEN Moved(m, "completed") /\ Silent
                                                ELSE Moved(m, "trap") /\ UNCHANGED mute

\* The preflight, the stop, the backup, SteamCMD and the start, and what is reported after each.
Proceed(m) ==
  /\ step[m] \in {"starting", "stopping", "backup", "updating", "restarting"}
  /\ \/ Dies(m)
     \/ /\ was' = IF step[m] = "starting" THEN [was EXCEPT ![m] = game] ELSE was
        /\ game' = CASE step[m] = "stopping" -> FALSE [] step[m] = "restarting" -> TRUE
                     [] OTHER -> game
        /\ \/ Moved(m, Following(m)) /\ Report(m, Following(m))
           \/ Unreported /\ Unannounced(m)
  /\ UNCHANGED <<bot, lock, run, runs, watch, told>>

\* Mutant: the failure is reported before the recovery of the server is.
LastWordFirst(m) == "restarting"

\* Mutant: a phase the bot has no name for.
LastWordNew(m) == step[m]

\* "A recovery start is transitional, never the final outcome."
LastWord(m) == "failed"

\* restore_service_state: the server that was running is started again, then "failed".
Trap(m) ==
  /\ \/ /\ step[m] = "trap" /\ was[m] /\ ~game /\ game' \in BOOLEAN /\ Moved(m, "failing")
        /\ Report(m, "restarting") \/ ((Unreported \/ Emptied) /\ UNCHANGED mute)
     \/ step[m] = "trap" /\ ~(was[m] /\ ~game) /\ Moved(m, "failing") /\ UNCHANGED <<game, state>>
     \/ /\ step[m] = "failing" /\ Moved(m, "completed") /\ UNCHANGED game
        /\ Report(m, LastWord(m)) \/ ((Unreported \/ Emptied) /\ Silent)
  /\ UNCHANGED <<bot, lock, run, was, runs, watch, told>>

Exit(m) == /\ step[m] = "completed" /\ Ended(m) /\ lock' = (IF lock = m THEN None ELSE lock)
           /\ UNCHANGED <<bot, game, runs, state, watch, told>>

\* SIGKILL, or the host goes down: no trap runs.
Killed(m) == /\ step[m] # "ended" /\ Fault /\ Ended(m) /\ lock' = (IF lock = m THEN None ELSE lock)
             /\ UNCHANGED <<bot, game, runs, file, watch, told>> /\ Silent

Script(m) == Configure(m) \/ Flock(m) \/ Proceed(m) \/ Trap(m) \/ Exit(m)

-----------------------------------------------------------------------------
(* PalGroup: start, stop, backup, update.                                  *)

Goto(u, l) == pc' = [pc EXCEPT ![u] = l] /\ UNCHANGED <<cmd, holder>>

\* What an update knows ends with it.
Forget == prev' = 0 /\ received' = FALSE /\ blind' = FALSE /\ over' = {} /\ own' = 0

\* The command ends and leaves the coordinator.
Reply(u) == /\ pc' = [pc EXCEPT ![u] = "idle"] /\ cmd' = [cmd EXCEPT ![u] = "none"]
            /\ holder' = None /\ Forget

Advance(u, l) == Goto(u, l) /\ UNCHANGED watch

\* OperationCoordinator.hold: no await between the test of the lock and its acquisition.  A command
\* that still cools down is refused, and might as well not have been sent.
Hold(u, c) ==
  /\ pc[u] = "idle" /\ holder = None /\ holder' = u /\ told' = 0
  /\ pc' = [pc EXCEPT ![u] = "guard"] /\ cmd' = [cmd EXCEPT ![u] = c]
  /\ UNCHANGED <<game, lock, unit, state, watch>>

\* maintenance_service_state: a job that systemd has only queued still counts as inactive.
Running == step["manual"] \notin {"ended", "queued"}

\* maintenance_guard, and previous_run_id; no answer counts as running.  Where the file cannot be
\* read there is nothing to compare with afterwards.
Guard(u) ==
  /\ pc[u] = "guard"
  /\ \/ Reply(u) /\ UNCHANGED state
     \/ ~Running /\ cmd[u] # "update" /\ Advance(u, "status") /\ UNCHANGED state
     \/ /\ ~Running /\ cmd[u] = "update" /\ Goto(u, "countdown")
        /\ \/ prev' = file.run /\ UNCHANGED <<blind, state>>
           \/ Fault /\ prev' = 0 /\ blind' = TRUE /\ UNCHANGED <<file, mute>>
        /\ over' = {r \in 1..runs : \A m \in Units : run[m] # r}
        /\ UNCHANGED <<received, own>>
  /\ UNCHANGED <<game, lock, unit, told>>

\* The status asked by start and stop, and the announcement: many an answer ends the command.
Status(u) ==
  /\ pc[u] = "status"
  /\ \/ Reply(u)
     \/ (cmd[u] = "start" => ~game) /\ (cmd[u] = "stop" => game) /\ Advance(u, "run")
  /\ UNCHANGED <<game, lock, unit, state, told>>

\* What start_server calls refuses to start during maintenance.
StartRefused(u) == cmd[u] = "start" /\ Running

\* What is called takes the operation lock itself, and fails when it is busy.
Run(u) == /\ pc[u] = "run"
          /\ \/ Reply(u) /\ UNCHANGED lock
             \/ /\ lock = None /\ ~StartRefused(u)
                /\ lock' = "bot" /\ Advance(u, "running")
          /\ UNCHANGED <<game, unit, state, told>>

\* The server after the call: started, stopped or as it was.
Outcomes(c) == {game} \cup (CASE c = "start" -> {TRUE} [] c = "stop" -> {FALSE} [] OTHER -> {})

Ran(u) == /\ pc[u] = "running" /\ lock' = None /\ Reply(u) /\ game' \in Outcomes(cmd[u])
          /\ UNCHANGED <<unit, state, told>>

\* maintenance_countdown; then the unit is asked for, without waiting for it.
Countdown(u) == /\ pc[u] = "countdown" /\ (Reply(u) \/ Advance(u, "trigger"))
                /\ UNCHANGED <<game, lock, unit, state, told>>

Trigger(u) ==
  /\ pc[u] = "trigger"
  /\ \/ Reply(u) /\ UNCHANGED unit
     \/ /\ \/ Queue("manual")
           \/ step["manual"] # "ended" /\ UNCHANGED unit
        /\ own' = run'["manual"] /\ Goto(u, "poll") /\ UNCHANGED <<prev, received, blind, over>>
  /\ UNCHANGED <<game, lock, state, told>>

\* Mutant: any progress file is that of the run asked for.
AnyRun == TRUE

\* received_run_state: once seen, another run_id than before; a file without one has not been seen.
NewRun == received \/ file.run \notin {0, prev}

\* read_state(maintenance_state): the outcome, more progress, or nothing of this run yet, which is
\* also how a file looks that cannot be read.
Poll(u) ==
  /\ pc[u] = "poll"
  /\ \/ NewRun /\ file.phase \in Terminal /\ Reply(u) /\ told' = file.run /\ UNCHANGED state
     \/ /\ NewRun /\ file.phase \notin Terminal /\ received' = TRUE
        /\ UNCHANGED <<bot, prev, blind, over, own, told, state>>
     \/ ~NewRun /\ Advance(u, "ask") /\ UNCHANGED <<told, state>>
     \/ ~received /\ Fault /\ Advance(u, "ask") /\ UNCHANGED <<told, file, mute>>
  /\ UNCHANGED <<game, lock, unit>>

\* Mutant: the service is not asked whether it has ended before its first report.
NeverEndsEarly == FALSE

\* "A preflight or flock failure can make the oneshot service exit before it has written": then
\* the update is announced as failed.
EndsEarly == ~Running

Ask(u) == /\ pc[u] = "ask"
          /\ IF EndsEarly THEN Reply(u) ELSE Advance(u, "poll")
          /\ UNCHANGED <<game, lock, unit, state, told>>

\* Fifteen minutes have passed.
Deadline(u) == /\ pc[u] = "poll" /\ Reply(u) /\ UNCHANGED <<game, lock, unit, state, told>>

\* The bot is restarted: what it knew is gone, and the commands it ran are killed.
Restart == /\ pc' = [u \in Users |-> "idle"] /\ cmd' = [u \in Users |-> "none"] /\ holder' = None
           /\ lock' = (IF lock = "bot" THEN None ELSE lock) /\ Forget /\ told' = 0
           /\ UNCHANGED <<game, unit, state>>

Command(u) == Guard(u) \/ Status(u) \/ Run(u) \/ Ran(u) \/ Countdown(u) \/ Trigger(u) \/ Poll(u)
              \/ Ask(u)

-----------------------------------------------------------------------------

Next == \/ \E m \in Units : Activate(m) \/ Script(m) \/ Killed(m)
        \/ \E u \in Users : Command(u) \/ Deadline(u) \/ (\E c \in Commands : Hold(u, c))
        \/ Restart

\* The script's commands end, and so do the calls of the bot; the deadline is not counted on.
Spec == /\ Init /\ [][Next]_vars
        /\ (\A m \in Units : WF_vars(Script(m))) /\ (\A u \in Users : WF_vars(Command(u)))

-----------------------------------------------------------------------------
(* Correctness.                                                            *)

Held == {"guard", "status", "run", "running", "countdown", "trigger", "poll", "ask"}
Steps == Phases \cup {"ended", "queued", "lock", "trap", "failing"}

TypeOK == /\ pc \in [Users -> Held \cup {"idle"}] /\ cmd \in [Users -> Commands \cup {"none"}]
          /\ holder \in Users \cup {None}
          /\ game \in BOOLEAN /\ lock \in Units \cup {"bot", None}
          /\ step \in [Units -> Steps] /\ run \in [Units -> 0..MaxRuns]
          /\ was \in [Units -> BOOLEAN] /\ runs \in 0..MaxRuns
          /\ file \in [run : 0..MaxRuns, phase : Phases]
          /\ faults \in 0..MaxFaults /\ mute \in BOOLEAN
          /\ prev \in 0..MaxRuns /\ received \in BOOLEAN /\ blind \in BOOLEAN /\ over \subseteq 1..MaxRuns
          /\ own \in 0..MaxRuns /\ told \in 0..MaxRuns

\* The outcome announced to a user is not that of a run that was over before the request, although
\* the report of that run is still in the file while the new one starts; the file could not be
\* read before the request otherwise.
NoStaleOutcome == [][told' # told /\ told' # 0 => told' \notin over \/ blind]_vars

\* When no script is at work the file tells an outcome: a user who asks next is not shown the
\* progress of a run that is over, though two units write the one file and any other report than
\* the last may fail.  Only a script that was killed or could not write its last word leaves
\* progress behind.
AtWork(m) == step[m] \in Phases \cup {"trap", "failing"}
OutcomeAtRest == (\A m \in Units : ~AtWork(m)) => file.phase \in Terminal \/ mute

\* An update is answered, and the coordinator free for the next command, without waiting for the
\* deadline, whether the unit ran, failed before its first report, or was running already; unless
\* the bot has seen a run that ended without a word.
Polling == \E u \in Users : pc[u] = "poll"
UpdateAnswered == Polling ~> (holder = None \/ (received /\ mute))

-----------------------------------------------------------------------------
(* Known not to hold: with one of these formulas as its PROPERTY, or with  *)
(* AlwaysTerminal as its INVARIANT, a run shows how.                       *)

\* "to avoid confusing a terminal state from an earlier maintenance run with this one": what is
\* announced is the outcome of the run that was asked for.
OutcomeIsOwn == [][told' # told /\ told' # 0 => told' = own]_vars

\* The same comment's "earlier": NoStaleOutcome without its exception.
OutcomeIsNew == [][told' # told /\ told' # 0 => told' \notin over]_vars

\* "Consumers poll this file and require a terminal state": OutcomeAtRest without its exception,
\* once anything has been written.
AlwaysTerminal == (\A m \in Units : ~AtWork(m)) /\ file # Nothing => file.phase \in Terminal

\* UpdateAnswered without its exception.
AlwaysAnswered == Polling ~> holder = None
=============================================================================
