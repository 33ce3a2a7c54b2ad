# Palworld Caretaker in TLA+

TLA+ modules, TLC configurations and TLAPS proofs about the program in this repository: a
manager for a Palworld dedicated server that backs it up, restores it, updates it and shuts
it down when nobody plays, in a container, on a systemd host or on Windows.

Paths are relative to the repository. `PROJECT.json` lists the components, the runs, the
mutants, the lines each definition models, the hazards, the findings and the theorems.

## 1. Inventory

What the program must get right is always the same: a *world* (the `SaveGames` and `Config`
trees) that several actors copy, replace or run a server on, while commands fail, the game
crashes, processes are killed and requests take effect later than they are accepted.

| Component | State | Operations | Interacts with |
|---|---|---|---|
| Container supervisor, `docker/docker-supervisor.py` (PID 1) | `game`, `idle_stopped`, `maintenance`, `operation_lock`, `STOPPING`, per-thread locals | start, stop, restart, backup, restore, update, status over a Unix socket; scheduled backup and update; idle shutdown; drain and exit | game process group, REST, SteamCMD, snapshots; web UI and bot as socket clients |
| Snapshots, `src/palworld_caretaker/backup.py` (`create_snapshot`, retention) | `backup_root`: one directory per UTC second, a staging directory | stage, fsync, rename, prune, list, verify | called by the supervisor, the native manager, the web UI |
| Restore, `backup.py` (`restore`, `_replace_live_trees`) | the two live trees, `.restore-<pid>`, `.rollback-<pid>`, `pre-restore-<stamp>` | safety copy, staging, four renames, recovery, cleanup | same callers |
| Native operations, `scripts/*.sh`, `scripts/palworld_manager.py` | one flock, `palworld.service`, shell variables such as `was_active` | backup, restore, maintenance, update, start, graceful stop | each other (nested on one descriptor), systemd, REST |
| Operation lock, `operations.py` | a locked descriptor | acquire without waiting, release | every native operation |
| Host idle watcher, `scripts/palworld-idle-watcher.py` | persisted timer and lifecycle identity | poll, save, recheck, shut down | flock, REST, systemd |
| Web UI, `web.py` | sessions, a cached configuration, the world registry | perform, backup, restore, maintenance, settings, onboarding | flock, scripts, supervisor, settings store |
| Discord bot, `scripts/palworld-discord-bot.py` | coordinator, memory alert, cached registry | start, stop, backup, update, status | scripts, supervisor, `maintenance-state.json` |
| Settings transactions, `settings_store.py` | layered configuration files | publish several files, roll back | web UI, wizards |
| World registry, `worlds.py` | `worlds.json`, per-process copy | create, set default, save | web UI, bot |
| Scheduling, `scheduling.py` | attempted-slot tables of its callers | which slot is due | supervisor, Windows panel |
| Windows host, `web.py` and the bot on Windows, `scripts/windows/*` | `native_maintenance`, a one-byte operation lock, the game process | start, stop, restart, backup, update, scheduled update | panel's threads, bot, PowerShell adapters |
| Configuration layers, REST client, service adapters, audit log, Windows launcher, installation and rendering scripts | none another component relies on, or append-only | parse, call, format | everybody |

**What is hard here.**

- *Interleaving.* The supervisor has at least five threads. The main loop and half of the
  idle watcher touch `self.game` without the lock the others use. Native operations are
  processes that refuse rather than wait when the flock is taken, and release it between two
  halves of what the user sees as one operation (a web restart). On Windows the bot's own
  maintenance takes no lock at all.
- *Stale answers.* `systemctl is-active` is asked once and acted on many steps later, while
  `Restart=on-failure` brings a crashed server back by itself and an accepted REST shutdown
  takes a server away after its countdown. The registry is read once and saved whole; the
  network wizard reads a password before the lock; a progress file outlives the run it tells of.
- *Partial failure.* Every operation that stops the server owes a start on every path out,
  through traps, `finally` clauses and the callers of nested scripts. Two trees are replaced
  by four renames, and three settings files one after the other, with recovery from a failure
  of any step, the recovery's own included.
- *Crashes.* Kills and power losses between staging, renaming, flushing and pruning; a watcher
  killed between the request it sent and the note it makes of it.
- *Bounds and time.* Retention at its limit, a drain timeout, a graceful-stop deadline, an idle
  timer that must begin anew after every answer that failed, a slot that lasts a minute.

**What makes each component correct.**

- Supervisor: operations exclude each other, the final stop included; trees and installation are
  replaced only while the tracked game is down; the maintenance flag never outlives its update;
  whatever is stopped is started again; PID 1 exits with nothing half done, and does exit.
- Snapshots: what was returned stays restorable until enough newer ones are; what is half
  removed is of no use to anybody.
- Restore: both trees change or neither; nothing is destroyed before the commit; a safety copy
  precedes the first change.
- Native operations: snapshots are copied from a stopped server; no operation leaves a server
  down that it found up; a restore replaces the trees of a stopped server and finds the snapshot
  it was given.
- Settings: all files of a group or none (the code leaves a part of one it cannot encode); what
  the panel publishes the scripts accept; what the panel believes is what is on disk; the
  first-run wizard succeeds once.
- Registry: ports distinct within a registry, a file that selects one of its own worlds, a
  created world that keeps its configuration.
- Windows host: the panel copies a stopped server's save, under its lock; the maintenance flag
  comes down; a server stopped for an operation comes back; a slot is used once.
- Idle watcher: a shutdown only after an uninterrupted empty period; an invocation that is known
  to have accepted one is not asked again; an empty server is stopped in the end.
- Bot: no outcome of an earlier run is announced, the progress file ends with an outcome, and an
  update is answered.

The hazards found while reading, each with its line and with the properties that cover it,
are in `PROJECT.json`.

## 2. Modules

| Module | Models | Role |
|---|---|---|
| `Supervisor` | `docker/docker-supervisor.py` | state machine of every thread after start-up |
| `SnapshotStore` | `BackupManager.create_snapshot` and retention | state machine with failures, kills, power losses |
| `AtomicRestore` | what `BackupManager.restore` promises | abstract specification |
| `LiveTrees` | `BackupManager.restore`, `_replace_live_trees` | detailed specification, with the refinement mapping |
| `NativeOps` | the root scripts, `palworld_manager.py`'s backup, the web UI's stop and restart, `palworld.service` | state machine of processes on one flock |
| `AtomicSettings` | what `settings_store.py` promises its callers | abstract specification |
| `Settings` | `settings_store.py`, the schema, the settings endpoints of `web.py`, the scripts' validation | detailed specification, with the refinement mapping |
| `Registry` | `worlds.py` | state machine of two processes with copies of one file |
| `WindowsHost` | Windows operations of `web.py`, `_direct_maintenance` of the bot, `scheduling.py`, the Windows adapter | state machine of the panel's threads and the bot on one server |
| `IdleWatcher` | `palworld-idle-watcher.py` | state machine with a clock, kills and restarts |
| `DiscordBot` | the commands of `palworld-discord-bot.py`, the two maintenance units, `maintenance-state.json` | state machine of users' commands and units |
| `MC...` | | what TLC runs, one for each state machine |
| `...Proofs` | | theorems and proofs of `Supervisor`, `SnapshotStore`, `LiveTrees`, `NativeOps`, `WindowsHost`, `IdleWatcher`, `DiscordBot`, each in a module of its own |
| `PanelProofs` | | theorems and proofs of `Settings` and of `Registry`, the two stores the panel writes |

`NativeOps`, `WindowsHost` and `Supervisor` are the three deployments of the same operations (a
systemd host, Windows, a container); `DiscordBot` looks at the maintenance script of the first
from outside, by what it reports; `IdleWatcher` looks at one client of its lock. `Settings` and
`Registry` are the files that all of them read.

### Supervisor

State: the attributes of the `Supervisor` object (`game`, `idleStopped`, `maintenance`,
`lock`), the `STOPPING` event, whether the idle watcher's `idle_since` is set, the set of
`PalServer` processes really `alive`, a label per thread (`pc`) and the locals an operation
carries (`op`: the request, `was_running`, the exception that ends it).

| Actions | Code |
|---|---|
| `MainPoll`, `MainReport`, `MainClear` | `run`'s loop: test `self.game`, print its return code, assign `None`, all without the lock |
| `MainClose`, `MainDrain`, `Release(Main)`, `MainExit` | `stop_control_socket`, `graceful_stop`, `stop_children`, return |
| `Accept`, `Acquire`, `Begin`, `RejectVersion`, `Status`, `Release` | a handler thread's `control()` under `operation_lock` |
| `TakeSlot`, `IdleSkips`, `IdleChecks`, `WorkerEnds` | `backup_loop` and `idle_loop` between their operations |
| `Insist`, `AskToShutDown`, `Kill`, `Halted` | `_stop_game`: REST save and shutdown, SIGINT, SIGTERM, SIGKILL, each with a wait |
| `SaveFirst`, `Snapshot`, `Swap`, `SteamCMD`, `Launch`, `Recover` | `backup_once`, `BackupManager.restore`, `update_game`, `start_game`, update's except clause |
| `IdlePoll`, `IdleDefers`, `IdleShutsDown` | the two player counts, the save and the shutdown of `idle_loop` |
| `GameExits`, `Terminate` | the environment |

A step is what a thread does between two points where CPython can switch threads: a read, a
call and an assignment are separate steps where another thread's step in between matters.
Time is abstract: a wait may end or time out in any state, and a schedule slot may be due at
any time. Left out: failures before the workers are started (`Init` is the state after
`start_workers`), the contents of status replies, the reaping of the web UI and bot children.
The lock's re-entrancy is not used by the code. SIGKILL is assumed to end the process within
the last wait.

### SnapshotStore

`store` is what `backup_root` holds under each name (absent, partial, whole), `risk` what a
power loss may undo of it (its directory entry, its contents); `phase` follows the call:
`Begin`, `Copy` of each part with its fsync (`Flush`), `Publish` (rename), `Sync` (fsync of
`backup_root`), `StartRemoving` and `FinishRemoving` for each snapshot over the limit,
`Return`. `Abort` is an exception or a kill at any point; `PowerLoss` applies every
combination of what `risk` allows. One call runs at a time, as all its callers hold the lock
of their deployment. The clock is monotone and the manifest is written whole. A failed fsync
that a later call repeats is taken as effective. The path-pinning checks and the size
preflight are one nondeterministic outcome (`Begin` is taken or not), and staging directories
left by a killed call, which nothing lists, are not tracked. `returned` is a history variable.

### AtomicRestore and LiveTrees

`AtomicRestore` is the promise: a restore replaces a pair of trees at once, or fails.
`LiveTrees` is the code: for each tree the contents of the live directory, its temporary and
its rollback, the safety copies, and where `restore` is. Every file operation has a fault
variant (`SaveFails`, `StageFails`, `ReplaceFails`, `UndoFails`, `UndoLeavesTemp`, the second
disjunct of `Clean`), `StageRefused` is the refusal because of leftovers, `Crash` a kill and
`NewPid` a process whose names differ; without it the next process has the pid of the last
one, as in a container. The refinement mapping makes the live trees visible when no restore
is under way or the one under way is committed, and those from before otherwise. Partial
safety copies and the order in which a power loss could undo renames are not modelled.

### NativeOps

Each member of `Runs` is one invocation of one of eight operations; a nested script is a
stretch of labels of the outer run with a saved flag of its own (`was`, `bwas`, `uwas`):
`b.*` is `_core_backup`, `r.*` `restore-palworld.sh`, `m.*` `daily-palworld-maintenance.sh`,
`u.*` `update-palworld.sh`, `g.*` `graceful-stop-palworld.sh` or the web UI's stop, `s.*`
`palworld-control start`. `Lock` and `Busy` are the non-blocking flock, which `Goto` releases
when the process ends (and between the halves of a web restart). The unit has the four states
`is-active` can print that the scripts tell apart; `GameCrashes`, `AutoRestart` and
`GameCloses` are systemd and the game. `excuse` is a history variable: it records why a
server may be down with no operation to blame, that is

- it was down at first, or a stop was asked for and accepted;
- a web restart lost the lock, or was refused, between its stop and its start;
- a graceful stop gave up waiting and the game closed afterwards;
- `_core_backup` could not confirm the unit's state in its `finally` clause.

It is reset whenever the server comes up. Left out: kills of a script (`SIGKILL`,
`TimeoutStartSec`), `systemctl` used by hand beside the lock, the branches for a deployment
without the Python core, the unit state "deactivating" (stops are synchronous under the
lock), the player rechecks of the idle watcher (here its shutdown is a `stop`; `IdleWatcher` has
them), and `maintenance-state.json` (`DiscordBot` has it).

### AtomicSettings and Settings

`AtomicSettings` changes the three editable files by one whole group of updates at a time, until
something tears a group; a group that is cut short leaves a part, and says so. `Settings` is the
code: `base` is the protected layer, `disk` the editable files as functions from the keys they
set to values, `cache` is `WebDependencies.config`, `new`, `old`, `todo` and `attempted` are the
locals of `_publish_editable`.

| Actions | Code |
|---|---|
| `Arrive`, `ReadPassword`, `CheckOnboarded` | a POST; what `configure_network` reads before the lock |
| `Enter`, `Busy` | `with self.operation_lock()`, the store's `current`, and everything a request is refused for |
| `BackUp`, `WriteFile`, `Verify` | `_publish_editable`: copies of the originals, one file after the other, the parse afterwards |
| the last disjunct of `WriteFile` | `UnicodeEncodeError`, which that method's except clause does not name |
| `UndoFile`, `Undone` | the except clause, last file first |
| `Crash`, `Restart` | a kill of the panel; `WebServer.__init__`, which refuses a listener off the loopback without a credential |

A value stands for its class: `"reserved"` has a character with a meaning in
`PalWorldSettings.ini`, `"separator"` a Unicode line separator, at which `splitlines` of the
reader breaks a line that the writer wrote as one, `"surrogate"` a lone surrogate, which the
schema lets through (in a name, a password or a token) and `_render_updates` cannot encode.
`Accepted`, `IsText`, `IsPassword` and `IsSchedule` are the panel's schema; `ScriptsValid` and
`Preflight` are `palworld_manager.py`'s own copy of it, which also lacks the one key that only
the Windows launcher declares. `Group` is what each request publishes, `Before` in which order
its files are written. When a group cannot be encoded, `WriteFile` ends the request at the first
such file: the lock is released, the files written before stay, nothing is undone, and the panel
keeps the copy it had. `cut` and `missed` are history variables: a group was cut short in this
way after it had changed a file; the panel has not read what was published last, and answers
from the copy it had. A panel that was killed and has not read the files yet has the protected
layer as its copy. In the refinement mapping a group under way is not visible until the lock is
released; `Publishable` are the groups that can be published, `Parts` what may be left of the
others. Left out: the retention of settings backups, ownership and modes of files, the values no
other setting depends on (each behaves like `MAX_PLAYERS` or the server's name).

### Registry

`file` is `worlds.json`, `copies` what the processes in `running` loaded when they started,
`dirs` the worlds with a configuration directory; a world's number gives its three ports
(`_next_ports` adds the same stride to each). `Create` is `WorldManager.create` up to the
directories (`NewName`, `NextSlot`, `InRange`), `Finish` the rest with its cleanup, `SetDefault`
the selection by either process, which looks up "`name or self.default_world`" and stores the
name, the empty one (`Unnamed`) included; `Start`, which refuses a registry that selects no
world of its own (`Selects`), and `Die` are the life of a process. Every save writes the whole
copy. `made` is a history variable. The module's names differ from those of `Settings`
(`RegistryNext`, `RegistryTypeOK`, ...) so that `PanelProofs` can extend both. Not modelled: a
registry edited by hand, the paths of the first world.

### WindowsHost

One world of a native Windows deployment. The processes are request threads of the panel, its
scheduler thread, and the bot; `pc`, `op`, `was` and `failed` are where each is and the locals
of its operation, `lock` the one-byte lock, `flag` is `native_maintenance`. The labels of an
operation are those of `_windows_maintenance` (`lock`, `locked`, `examine`, `stop`, `wait`,
`copy`, `steam`, `leave`, `script`, `unflag`); `perform` and the bot's `_direct_maintenance` use
a part of them, the bot without `lock`. `StartScript` is the PowerShell adapter, which takes the
lock itself; `Fallback` is the adapter's stop, whose script is refused by the lock its own
caller holds. `ScheduleSlot` is `schedule_slot`, `FirstKey` and `SecondKey` are the two keys of
`run_windows_schedules`, the second of which ends the thread. `failed` tells an error, which the
scheduler catches, from the `TimeoutExpired` of the panel's backup script, which ends its thread
(`End`); errors of SteamCMD and of the service scripts reach it wrapped in `RuntimeError`s.
`begun`, `debt` and `excuse` are history variables: `debt` is set when an operation that means
to start the server again has it shut down, and `excuse` records why it may stay down all the
same (a start was refused or failed, a wait was given up and the server closed later, a REST
call reported an error although the shutdown had been accepted, the bot took a closing server
for an active one). Not modelled: the PowerShell backup and restore themselves, the launcher,
kills of the panel.

### IdleWatcher

`state` is the record in memory, `disk` is `idle-state.json`, `top` what the record said when
the pass took `now`. Time stamps are minutes since or until, counted no further than `Timeout`
and `Grace`: `Tick` ages them all at once. `Forget`, `Look`, `Lifecycle` and `Poll` are the
pass, `TakeLock`, `Recheck`, `Save`, `Final` and `Ask` are `attempt_idle_shutdown`, `EndPass`
the write, `Wake` the sleep, `Stop` and `Start` the end of the process at any point and its
restart with the configuration of the day. The server, its REST interface, the players and the
other users of the lock do what they like. A shutdown may be accepted and its answer lost
(`Told(FALSE)`): to the watcher that is an API fault, after which it starts a new window and
asks again. `quiet`, `asked`, `heard` and `lost` are history variables: minutes since anything
but "nobody plays" was seen, shutdowns this invocation has accepted, how many of them from the
first one on that the watcher knows was accepted, and whether a watcher ended with something it
had not written. Not modelled: a state file that cannot be read (then the record is a fresh one,
with a new grace), errors in the configuration.

### DiscordBot

Each user has at most one command under way; `holder` is the coordinator. `Hold`, `Guard`,
`Status`, `Run` and `Ran` are the path of start, stop and backup; `Countdown`, `Trigger`, `Poll`,
`Ask` and `Deadline` that of an update: `prev` is `previous_run_id`, `received` is
`received_run_state`. Two units, the one `/pal update` starts and the scheduled one, run the same
script: `Configure`, `Flock`, `Proceed`, `Trap`, `Exit` report to the one file. `Report` is
`write_state`, which may also fail: under `set -e` that ends the script (`Unreported`,
`Unannounced`), in its EXIT trap, or without it before the last report, for which the trap is taken
off; inside the trap, under `set +e`, it is passed over and may leave an empty file (`Emptied`).
`Killed` is a script that no trap follows. `read_state` makes nothing of a file that is missing,
empty or unreadable (`Nothing`, the failing reads of `Guard` and `Poll`). Every `await` is a
step boundary. `Restart` loses what the bot knows. `over`, `own`, `told`, `blind` (the file could
not be read for `previous_run_id`) and `mute` (the last script to end left no outcome) are history
variables. Not modelled: permissions, cooldowns (a refused command changes nothing), the
memory alert, texts, and worlds other than the default.

## 3. Runs

| Run | Bounds | Distinct states | Shows |
|---|---|---|---|
| `Supervisor` | one handler, two process identities | 401,912 | all safety properties and `StopCompletes` |
| `SnapshotStore` | four seconds, retention 2 | 1,638 | `PartialIsSuperseded`, `ReturnedIsKept` |
| `LiveTrees` | two snapshots, three restores, one fault each, no kills | 3,046 | `ImplementsAtomic` |
| `LiveTreesCrash` | two snapshots, three restores, two faults each, kills | 72,090 | `NothingDestroyed`, `SavedFirst` |
| `NativeOps` | any two operations, retention 2, two faults | 141,712 | `CopiedOffline`, `NobodyStranded` |
| `Settings` | two requests, three protected layers, one fault, one kill, a value that cannot be encoded | 939,498 | `ImplementsAtomic`, `StaysStartable`, `WizardOnce`, `CacheCurrent` |
| `Registry` | three names, two faults, three restarts, a number whose ports collide | 82,773 | `PortsDisjoint`, `MadeIsKept`, `SelectionListed` |
| `WindowsHost` | one request thread, the scheduler, the bot; three minutes of a day of four | 459,234 | `ColdCopy`, `NobodyStranded`, `FlagScoped`, `OncePerSlot`, `MaintenanceEnds` |
| `IdleWatcher` | timeout 3 minutes, grace 1, two invocations | 302,748 | `ShutdownJustified`, `AskedOnce`, `EmptyServerStopped` |
| `DiscordBot` | two users, two activations of the two units, two faults | 285,568 | `NoStaleOutcome`, `OutcomeAtRest`, `UpdateAnswered` |

Why the bounds are enough. In the supervisor one handler already competes for the lock with
the scheduler, the idle watcher and the drain, so that up to four threads contend; a second
process identity is what a tracked game and one it lost track of need. Four seconds with two
retained snapshots give two prunings, one of them interrupted. Two faults are what it takes to
fail an operation and its recovery; a third restore runs over the leftovers of the second,
whose beginning ran over those of the first. Two invocations are a holder of the lock and one
that is refused or comes next; with non-blocking locks a third adds only more of the same.
Two settings requests are one that publishes and one that has read before it, and every pair of
request kinds occurs; a group is also rolled back without a fault, when its own value makes the
files unreadable, so that one fault is enough to fail a rollback. Three names and a panel
and a bot that each restart give a stale copy that is saved after a newer one, and a world made
from it; `MCRegistry` chooses its ports so that a number must be passed over, which consecutive
ports never need. On Windows the scheduler and one request are two threads of the panel, beside
the bot; within three minutes the hourly slot comes up twice and the daily one once. A timeout of
three minutes and a grace of one leave room for a disturbance in the middle of each, and the
second invocation for a restart in every state of the watcher. Two runs of the units are one that is
over or at work and the one asked for, or the one asked for and one of the other unit beside it;
two faults lose a report and the one that would have made up for it.

The proofs below remove these bounds for the safety properties of every module.
Symmetry is used where threads (`Settings`) and names (`Registry`) are interchangeable; both runs
check safety only. `CHECK_DEADLOCK FALSE` is set where runs end: when all invocations, restores,
faults or slots are used up, or a panel cannot start any more, nothing is left to happen.

Two more runs each check one statement of the repository's own documents or comments, and TLC
finds it violated (`PROJECT.json`, "findings", quotes each one):

| Run | Property | What happens |
|---|---|---|
| `SupervisorOrphan` | `OwnsEveryGame` | the main loop clears `self.game` just after another thread stored a new process in it |
| `NativeRestorePruned` | `ChosenSurvives` | the backup made before the restore prunes the snapshot to be restored |

**Known not to hold.** Each of these formulas stands at the end of its module and says what a
document or comment of the repository says. No run checks it; written into the module's .cfg as
an INVARIANT (or a PROPERTY, where it is an action or temporal formula) TLC shows how the code
violates it.

| Formula | What happens |
|---|---|
| `Supervisor!SchedulerSurvives` | SteamCMD fails with `CalledProcessError`, which `backup_loop` does not catch: no scheduled operation runs any more |
| `Supervisor!IdleWatcherPersists` | the first idle shutdown ends the container's watcher thread |
| `Supervisor!NoExitMidOperation` | a daemon worker takes the lock after the drain and is cut off by the exit |
| `LiveTrees!NeverMixed` | (in `MCLiveTreesCrash.cfg`) a kill between the renames leaves trees of two snapshots |
| `NativeOps!RestoredOffline` | the restore finds the unit "activating", takes it for stopped, and the nested backup starts it again before the trees are replaced |
| `Settings!TemplateReplaced` | the network wizard reads the template's password, the first-run wizard completes, and the network wizard writes the template's password back; a panel that listens off the loopback then refuses to start |
| `Settings!AlwaysLoads` | the panel is killed between publishing a name with a Unicode line separator and the parse that would have rolled it back: the next one cannot read its files |
| `Settings!ImplementsWhole` | a group's second file cannot be encoded: the first stays published, nothing is rolled back, and the panel answers from its old copy |
| `Registry!Loadable` | an empty name is selected, which resolves to the current default and is saved as it is: the next process refuses the registry |
| `Registry!MadeIsRegistered` | the bot, started earlier, saves its copy over the registry and the world just made is no longer in it |
| `WindowsHost!SchedulerLives` | the scheduled backup calls a method that does not exist and `AttributeError` ends the thread; so does the `TimeoutExpired` of a scheduled update's backup |
| `IdleWatcher!NeverAskedAgain` | the answer to an accepted shutdown is lost, or the watcher is killed before it has written it down: the same invocation is asked again (the repository's `README.md:223` says never) |
| `DiscordBot!OutcomeIsOwn` | the scheduled unit reports between the request and the first report of the unit asked for, and its outcome is announced |
| `DiscordBot!OutcomeIsNew` | the file cannot be read before the countdown, so that the outcome an earlier run has left in it passes for a new one |
| `DiscordBot!AlwaysTerminal` | `completed` cannot be written, and the trap that would have reported `failed` is already off: the file tells of progress for good |
| `DiscordBot!AlwaysAnswered` | the same, or a kill, after the bot has seen the run: it asks the service no more and waits for its deadline |

For eight of them, and for `OwnsEveryGame`, a theorem says what the failure takes: the property
holds of every behaviour in which one named thing does not happen, so that a change of the code
which rules that thing out would be enough.

| Formula | holds unless | Theorem |
|---|---|---|
| `Supervisor!OwnsEveryGame` | the main loop clears `self.game` while the game it names is up | `SupervisorProofs!OwnedUnlessForgotten` |
| `NativeOps!RestoredOffline` | a restore asks `is-active` just when the unit waits for its automatic restart | `NativeOpsProofs!OfflineUnlessWaiting` |
| `Settings!TemplateReplaced` | two requests overlap, or a group is cut short | `PanelProofs!OneAtATime` |
| `Settings!AlwaysLoads` | a group is torn (a kill within it, or a rollback that failed) or cut short, or the root's own files could not be read at the outset | `PanelProofs!ReadBack` |
| `Settings!ImplementsWhole` | a request has a text that cannot be encoded | `PanelProofs!GroupsAreWhole` |
| `Registry!Loadable` | the empty name is selected | `PanelProofs!RegistryLoadable` |
| `Registry!MadeIsRegistered` | the bot saves a copy that lacks a world of the file | `PanelProofs!RegistryComplete` |
| `DiscordBot!OutcomeIsOwn` | a unit works while an update counts down, or another run than its own while it watches, or the file cannot be read for it | `DiscordBotProofs!OwnUnlessDisturbed` |
| `LiveTrees!NeverMixed` | the process is killed, or a second fault strikes the recovery | `LiveTreesProofs!Atomicity` |

One more, found by a proof that did not go through: `complete_onboarding` checks the password it
is given with `validate_ini_password` (`settings.py:360-377`), which accepts the text `CHANGE_ME`;
the scripts' preflight (`palworld_manager.py:601`) then takes it for the template's and refuses to
start the game. The theorems about `Settings` that this concerns state the hypothesis
`"CHANGE_ME" \notin Passwords`, and the run leaves it out of `Passwords`.

Each property of a passing run has a mutant beside the definition it changes (a comment
"Mutant:" says what the mistake would be); with it, TLC finds the property violated.

**Fairness.** Four modules have a liveness property, and each assumes weak fairness of the code's
own steps only:

- `Supervisor` (`StopCompletes`): each thread's operation steps, the main loop, the idle watcher
  and a worker's exit, while the interpreter is up. Every REST call, socket, wait and
  subprocess has a timeout or ends (`_stop_game` waits the announced delay and 60 seconds, then
  30, 15 and 15), and a runnable Python thread is scheduled. Nothing is assumed of the order in
  which waiting threads get the lock: the sources of new work dry up once `STOPPING` is set.
  The property allows the main thread to have died, which `MainReport` can make it do.
- `WindowsHost` (`MaintenanceEnds`): each panel thread's own steps; every call it waits for has a
  time limit (the scripts' `timeout=`, the wait for the server's deadline). The game need not close.
- `IdleWatcher` (`EmptyServerStopped`): the loop goes on and time passes. That the watcher is
  enabled and that the server stays up, empty, answering and unlocked from some time on is the
  property's premise; its conclusion is that the invocation which stays has been told (`asked` is
  reset when the server starts).
- `DiscordBot` (`UpdateAnswered`): the script's commands and the bot's calls end. The polling
  deadline of fifteen minutes is an action without fairness, so that an answer does not depend
  on it; faults and kills are such actions too. The one case it leaves to the deadline is a run that
  the bot has seen and that has ended without a word.

## 4. Proofs

The theorems hold for every value of the constants: any number of handler threads, processes,
snapshots, invocations, restores, faults, worlds, users and runs,
any timeout and any schedule. They rest on the named assumptions of the modules (disjointness of
names, bounds that are naturals), which TLC evaluates in every run, and on the hypotheses that a few
of them state.

**`SupervisorProofs`.** None of the safety properties is inductive: they speak of labels, and
say nothing of how a thread came to one. `IInv` adds, for each thread, that inside an
operation it owns the lock and its label belongs to its request (`Serving`), that a thread on
the way to a stop, a start or a swap carries a consistent `was_running` (`OnPath`), that from
the completed stop to the start the tracked game is down (`Offline`), and that whatever it
owes is owed only at labels which lead to a start (`Owing`); and that after the drain no
handler is left and the game is down (`Drained`). `Offline` survives the other threads' steps
because only the lock's owner launches a game and the main loop only clears `self.game`. Each
action has its lemma. From `IInv`: `TypeCorrect`, `Exclusion`, `OfflineReplacement`,
`FlagScoped`, `NobodyStranded`, `CleanExit`. `OwnedUnlessForgotten` looks at every assignment to
`self.game`: all but the main loop's are made under the lock, by a thread that has seen the game
down, so under `ClearsTheDead` no process is ever lost, and then "the tracked game is down" of
`OfflineReplacement` becomes "no game runs".

**`SnapshotStoreProofs`.** `ReturnedIsKept` needs to know what retention sees: during pruning
the new snapshot is durable (`Running`), names grow with the clock (`Names`), and a removal
begins only at the oldest snapshot and only when `Retention` newer ones are durable (`Kept`).
The step from "more than `Retention` are listed" to that is a counting argument with the
library's theorems about finite sets. `PartialSuperseded` and `ReturnedKept` follow.

**`LiveTreesProofs`.** The invariant says, phase by phase, which directory holds what the live
tree held (`Copying`, `Publishing`, `Undoing`), with no bound on faults, kills and changes of
pid: that is `WorldKept` and `CopiedFirst`. For the refinement, `OneFault` adds that an undo
under way has used up the fault, so that it cannot fail itself. `Atomicity` states
`Spec => Atomic!ASpec` under the assumption that `MaxFaults <= 1` and the process is not
killed; both are needed, as `NeverMixed` and a second fault in the except clause show.

**`NativeOpsProofs`.** `Held`: a run inside an operation owns the flock. `Offline`: from the
query or stop in `_core_backup` to the copy, the unit is inactive or failed and no other run
can start it. `Owed`: if the server is down without an excuse, the run that holds the lock has
a saved flag set and is at a label from which a trap or a `finally` clause must pass. `Placed`
keeps saved flags consistent with labels. `Cold` is `CopiedOffline`, `NotStranded` is
`NobodyStranded`. `OfflineUnlessWaiting` follows a restore from its query to the publication
(`RestoreOffline`): once the unit is inactive or failed it stays so, and the nested backup, which
found it stopped, has nothing to start again; the hypothesis `NotWaiting` is needed at the query
alone.

**`PanelProofs`, the settings.** `IInv` has five parts beside each other: `TypeOK`; `LockScoped`
(only the lock's owner is inside a group, and only while the panel runs); `Flight` (file by
file, what was attempted is new, what was not is as it was before the group, and what a rollback
could not restore has been recorded as torn); `Flagged` (after the wizard's first success its
flag is on disk for good, which gives `WizardFirst`); `CacheFollows` (the panel's copy is of the
files as they count, which gives `CacheIsCurrent`, unless the panel has missed the last group).
`TypeOK` itself needs the lemmas about `Group` and `ByFile`, that whatever a request publishes
lies in the file of its key and is a value its schema lets through.

The refinement rests on `PublishedStep`: a step leaves the files as they count alone, or makes
them newer by one whole group that has been read back, or by a part of one that cannot be
encoded, or tears them. Beside `IInv` it needs `Encoded`: whatever is on disk could be encoded.
`StepsRefine` maps these to a stutter, `Commit`, `CutShort` and `Tear` of `AtomicSettings`, and
`GroupsAreAtomic` is `Spec => Atomic!Spec` for any number of faults and kills. `GroupsAreWhole`
assumes of the constants that no name, edit, token or password has such a text (`OnlyText`);
then `cut` is never set, and the steps that remain are those of the promise without `CutShort`.

The same lemma carries the properties of what the files *say*. `AlwaysStartable` needs more than
"the panel's checks imply the scripts'": a request that touches other keys must not publish a
stale password, so `Presentable` adds `Clean`, that no template's text is in the panel's copy,
in what a request read before the lock, or in the group under way. `ReadBack` follows from the
read-back in every commit. A group cut short has not been parsed: its password is as good as a
whole group's (`PassAfter`), but `AlwaysStartable` has to assume that the panel can read the
files, and `ReadBack` excepts it. `OneAtATime` carries `Replaced` through each request kind
(`GroupTrusted`, `WizardTrusted`); it assumes one request thread, and that the root's own files
let the panel listen.

**`PanelProofs`, the registry.** `PortsDisjoint` of one copy says nothing of the other, so
`RegistryInv` carries it for every copy together with `CopyListed` (each copy's default is one
of its worlds, or empty) and `MakingScoped` (the world being made has its directory and its
number, and is nobody's yet). A new number is disjoint from all of the panel's own because
`NextSlot` looked at each; saving copies a registry that has the property. `RegistryKept` needs
that `Cleanup` removes the world being made only, which `NewName` never lets be one that was
made. `RegistryComplete` adds `Listed`: what was made is in the file and in the running panel's
copy. `RegistryLoadable` adds `Selected`: without the empty name every registry, in memory or on
disk, selects a world it has.

**`WindowsHostProofs`.** `Consistent` says which operation can be at which label and `Locked` that
a panel thread owns the lock through its work, `OneAtATime` that only one is in maintenance: with
these `FlagScoped` and half of `ColdCopy` are inductive. The other half, that the server is down,
survives the bot because the only way up is the start script, which asks for the lock.
`Recorded` (an update begun in this minute has marked its slot) gives `OncePerSlot`.
`DebtServed` is what `NobodyStranded` lacks: a debt without an excuse has a process that still
has `was_running` and is at a label from which the `finally` clause must pass (`OnDuty`).
`SlotsDistinct` is about `schedule_slot` itself: no two minutes in which a schedule is due have the
same slot. With `Marks` (the slot that is marked is that of a minute in which its update was
begun) it gives `NeverSkipped`, the converse of `OncePerSlot`: an update that is due is passed over
only because it was begun in that very minute.

**`DiscordBotProofs`.** `Exclusive`: one command holds the coordinator, so that there is one set of
polling variables. `Numbered`: run numbers grow and a running run is not among those that were
over. `Fresh`: the file may tell of a run that was over only as `previous_run_id`, and then
nothing has been received, unless the file could not be read: that is `NeverStale`. `Behind`: a
report that is not an outcome has a script at work which will write another, or none that will
(`mute`), which gives `AlwaysOutcomeAtRest` although the loser of the lock writes to the same file
and any other report may fail. `OwnUnlessDisturbed` adds `Mine`: until the update asks for the
unit the file is what it has read, and after that either the same or the report of its own run.

**`IdleWatcherProofs`.** `Record`: once the watcher has ended, what it had is on disk or `lost`
is set. `Known` (a shutdown known to be accepted is noted in the record), `Answers` and `Past`
tie the record to the invocation it names, and `Timed` (`Timer`, `Pass`, `Verdict`) bounds the
timer by `quiet` at every label of the pass, so that a pass that has found the timer run out
carries a proof of the whole empty period. `AlwaysJustified` assumes `Grace > 0`: with no grace
a server that restarts within a pass is dated from the pass's `now`, before it was up, and TLC
shows a request too early by the length of a pass (the configuration accepts a grace of 0; the
default is 600 seconds).

**Only model-checked:** `StopCompletes`, `MaintenanceEnds`, `EmptyServerStopped` and
`UpdateAnswered` (liveness under fairness is beyond the prover); and the violations, which are
counterexamples and need one instance. Every safety property, action property and refinement of a
passing run is a theorem.

## 5. Plan

Done, in this order: supervisor; snapshots; restore with its abstract specification; native
operations; settings with their abstract specification; the registry; the Windows host with its
schedule; the host idle watcher; the bot with the maintenance units; the proofs of each of them,
and the theorems that name the one cause of a property known not to hold. What remains:

1. **Compositions**: `NativeOps` with `SnapshotStore` for the store and with `AtomicRestore` for
   `r.publish`; a clock that is set back in `SnapshotStore`.
2. **The PowerShell restore** with its own rollback, as a second implementation of
   `AtomicRestore`.
3. **Kills of a script** by systemd's `TimeoutStartSec` in `NativeOps` (`DiscordBot` has them),
   and of the panel in `WindowsHost`.
4. **The memory alert** of the bot, and the container's idle timer, which is kept across games.

## 6. Not modelled

HTTP, authentication and HTML of the web UI (sequential per request, nothing else depends on
its state); the text of KEY=VALUE files, paths and storage locations (pure functions over
strings, unit-tested; what they accept is modelled by classes of values where `Settings` depends
on it); the REST client and most service adapters (stateless, their outcomes are nondeterministic
where they are used); the audit log (append-only); the bot's memory alert, permissions and
texts; the PowerShell backup and restore and the Windows launcher; installation, upgrade and
packaging scripts (run by hand, once, with nothing concurrent); the rendering of
`PalWorldSettings.ini` (what it refuses is `Settings.Preflight`, and its failure is a failure of a
start, which is modelled). What each modelled component leaves out is said with its module above.
