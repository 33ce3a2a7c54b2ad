---------------------------- MODULE IdleWatcher ----------------------------
(***************************************************************************)
(* The idle watcher of a host deployment: a loop which asks the game who   *)
(* is playing and shuts it down after Timeout minutes without a player.    *)
(* Its state is one record, kept in memory and written to idle-state.json  *)
(* at the end of a pass, from which a restarted watcher goes on.           *)
(*                                                                         *)
(* A time stamp is modelled by the minutes since (idle) or until (grace)   *)
(* it, counted no further than matters; "top" holds what they meant at the *)
(* beginning of the pass, when the code takes "now".                       *)
(***************************************************************************)
EXTENDS Naturals

CONSTANTS
  Timeout,      \* PALWORLD_IDLE_TIMEOUT_MINUTES
  Grace,        \* PALWORLD_STARTUP_GRACE_SECONDS
  MaxLife,      \* bound: invocations of palworld.service
  None

ASSUME TimeAssumption == Timeout \in Nat \ {0} /\ Grace \in Nat /\ MaxLife \in Nat \ {0}
ASSUME NoneAssumption == None \notin Nat

VARIABLES
  life,    \* InvocationID of palworld.service, by number
  active,  \* service_active()
  people,  \* somebody plays
  rest,    \* the REST interface answers
  busy,    \* another operation holds the operation lock
  mode,    \* the configuration the watcher started with
  pc,      \* where the watcher is
  top,     \* the pass: minutes since it began, and whether a timer or the grace had run out then
  state,   \* the record in memory
  disk,    \* idle-state.json
  quiet,   \* minutes since something else than "nobody plays" was last seen (history)
  asked,   \* how often a pass that looked at the invocation has told it to shut down, since a
           \* disabled watcher last forgot it (history)
  heard,   \* how many of these came after the first one whose acceptance the watcher learned of,
           \* that one included (history)
  lost     \* the watcher has ended with something it had not written (history)

vars == <<life, active, people, rest, busy, mode, pc, top, state, disk, quiet, asked, heard, lost>>
World == <<life, active, people, rest>>

Lives == 1..MaxLife
Times == (0..Timeout) \cup {None}
Modes == {"enabled", "dry-run", "disabled"}

Fresh(l, grace) == [life |-> l, idle |-> None, grace |-> grace, requested |-> FALSE]
Offline == Fresh(None, 0)
Older(t) == IF t = None \/ t = Timeout THEN t ELSE t + 1

\* Minutes pass for a record.
Aged(r) == [r EXCEPT !.idle = Older(@), !.grace = IF @ = 0 THEN 0 ELSE @ - 1]

Init == /\ life = 1 /\ active \in BOOLEAN /\ people = FALSE /\ rest = FALSE /\ busy = FALSE
        /\ mode \in Modes /\ pc = "loop" /\ state = Offline /\ disk = Offline
        /\ top = [since |-> 0, due |-> FALSE, graced |-> FALSE]
        /\ quiet = 0 /\ asked = 0 /\ heard = 0 /\ lost = FALSE

-----------------------------------------------------------------------------
(* The world around: the server comes and goes, players join and leave,    *)
(* other operations take the lock, time passes.                            *)

Boot == /\ ~active /\ life < MaxLife /\ life' = life + 1 /\ active' = TRUE /\ rest' = FALSE
        /\ people' = FALSE /\ asked' = 0 /\ heard' = 0 /\ quiet' = 0 /\ lost' = FALSE
        /\ UNCHANGED <<busy, mode, pc, top, state, disk>>

Close == /\ active /\ active' = FALSE /\ rest' = FALSE /\ people' = FALSE
         /\ UNCHANGED <<life, busy, mode, pc, top, state, disk, quiet, asked, heard, lost>>

Answering == /\ active /\ rest' = ~rest
             /\ UNCHANGED <<life, active, people, busy, mode, pc, top, state, disk, quiet, asked, heard, lost>>

Player == /\ active /\ people' = ~people
          /\ UNCHANGED <<life, active, rest, busy, mode, pc, top, state, disk, quiet, asked, heard, lost>>

OtherOperation == /\ pc \notin {"recheck", "save", "final", "ask"} /\ busy' = ~busy
                  /\ UNCHANGED <<World, mode, pc, top, state, disk, quiet, asked, heard, lost>>

Tick == /\ state' = Aged(state) /\ disk' = Aged(disk)
        /\ top' = [top EXCEPT !.since = Older(@)] /\ quiet' = Older(quiet)
        /\ UNCHANGED <<World, busy, mode, pc, asked, heard, lost>>

-----------------------------------------------------------------------------
(* main                                                                    *)

Goto(l) == pc' = l
Seen == UNCHANGED quiet
Unseen == quiet' = 0

\* write_state: a new file, renamed.
Saved(r) == r

\* The watcher ends, with what it had not written.
End(r) == Goto("ended") /\ lost' = (lost \/ r # disk) /\ UNCHANGED disk

\* The record is written and the pass goes on, or an error ends the watcher.
Write(r, l) == /\ state' = r
               /\ \/ disk' = Saved(r) /\ Goto(l) /\ UNCHANGED lost
                  \/ End(r)

\* "not enabled or not service_active()": whatever was known is forgotten.
Forget == /\ pc = "loop" /\ (mode = "disabled" \/ ~active) /\ Write(Offline, "sleep")
          /\ IF mode = "disabled" /\ disk' = Offline THEN asked' = 0 /\ heard' = 0
                                                    ELSE UNCHANGED <<asked, heard>>
          /\ UNCHANGED <<World, busy, mode, top, quiet>>

\* now = time.time()
Look == /\ pc = "loop" /\ mode # "disabled" /\ active /\ Goto("lifecycle")
        /\ top' = [since |-> 0, due |-> state.idle = Timeout, graced |-> state.grace > 0]
        /\ UNCHANGED <<World, busy, mode, state, disk, quiet, asked, heard, lost>>

\* Mutant: the record of a new lifecycle does not name it.
Unnamed(l) == [Fresh(l, Grace) EXCEPT !.life = None]

\* Mutant: the timeout is added to the grace.
NamedLate(l) == Fresh(l, Grace + Timeout)

\* A new lifecycle has its grace before it.
Named(l) == Fresh(l, Grace)

\* service_lifecycle(), which may be empty for a server that has stopped; a lifecycle that the
\* record does not name starts anew.
Lifecycle ==
  /\ pc = "lifecycle"
  /\ \/ /\ state.life = life /\ UNCHANGED <<state, disk, lost>>
        /\ Goto(IF top.graced \/ state.requested THEN "sleep" ELSE "poll")
     \/ \E l \in IF active THEN {life} ELSE {life, None} :
           (l = None \/ l # state.life) /\ Write(Named(l), IF Grace > 0 THEN "sleep" ELSE "poll")
  /\ UNCHANGED <<World, busy, mode, top, quiet, asked, heard>>

\* api.players(): somebody, nobody, or ApiError, which is never taken for nobody.
Somebody == rest /\ people
Nobody == rest /\ ~people

\* Mutant: an API fault leaves the timer alone.
FaultKeepsTimer(r) == r

\* except ApiError: a fresh window is required.
AfterFault(r) == [r EXCEPT !.idle = None]

AfterPlayer(r) == [r EXCEPT !.idle = None]

\* What an answer other than "nobody" does, anywhere in the pass.
Disturbed == \/ Somebody /\ state' = AfterPlayer(state)
             \/ ~rest /\ state' = AfterFault(state)

\* The poll outside the lock.
Poll ==
  /\ pc = "poll"
  /\ \/ Disturbed /\ Unseen /\ Goto("write")
     \/ /\ Nobody /\ Seen
        /\ state' = [state EXCEPT !.idle = IF @ = None THEN top.since ELSE @]
        /\ Goto(IF state.idle # None /\ top.due THEN "lock" ELSE "write")
  /\ UNCHANGED <<World, busy, mode, top, disk, asked, heard, lost>>

-----------------------------------------------------------------------------
(* attempt_idle_shutdown                                                   *)

\* OperationLockBusy: the timer is kept and the shutdown deferred.
TakeLock == /\ pc = "lock" /\ Goto(IF busy THEN "write" ELSE "recheck")
            /\ UNCHANGED <<World, busy, mode, top, state, disk, quiet, asked, heard, lost>>

\* "rechecking players before shutdown"
Recheck ==
  /\ pc = "recheck"
  /\ \/ Disturbed /\ Unseen /\ Goto("write")
     \/ Nobody /\ Seen /\ mode = "dry-run" /\ state' = [state EXCEPT !.idle = 0] /\ Goto("write")
     \/ Nobody /\ Seen /\ mode = "enabled" /\ UNCHANGED state /\ Goto("save")
  /\ UNCHANGED <<World, busy, mode, top, disk, asked, heard, lost>>

\* api.save(), and the sleep after it.
Save == /\ pc = "save"
        /\ \/ rest /\ Goto("final") /\ UNCHANGED <<state, quiet>>
           \/ ~rest /\ state' = AfterFault(state) /\ Unseen /\ Goto("write")
        /\ UNCHANGED <<World, busy, mode, top, disk, asked, heard, lost>>

\* The players are asked for again after the save.
Final == /\ pc = "final"
         /\ \/ Disturbed /\ Unseen /\ Goto("write")
            \/ Nobody /\ Seen /\ UNCHANGED state /\ Goto("ask")
         /\ UNCHANGED <<World, busy, mode, top, disk, asked, heard, lost>>

\* state["shutdown_requested"] = True
Noted(r) == [r EXCEPT !.requested = TRUE]

OneMore(n) == IF n < 2 THEN n + 1 ELSE n

\* The server accepts a shutdown, and the watcher learns of it or not.
Told(answered) ==
  IF state.life = life
  THEN asked' = OneMore(asked) /\ heard' = IF answered \/ heard > 0 THEN OneMore(heard) ELSE 0
  ELSE UNCHANGED <<asked, heard>>

\* api.shutdown(): accepted, or accepted with its answer lost, or neither.  Both of the latter are
\* the same ApiError to the caller, after which nothing says that the server has been told.
Ask == /\ pc = "ask"
       /\ \/ rest /\ Told(TRUE) /\ state' = Noted(state) /\ Seen
          \/ rest /\ Told(FALSE) /\ state' = AfterFault(state) /\ Unseen
          \/ ~rest /\ state' = AfterFault(state) /\ Unseen /\ UNCHANGED <<asked, heard>>
       /\ Goto("write") /\ UNCHANGED <<World, busy, mode, top, disk, lost>>

-----------------------------------------------------------------------------

EndPass == pc = "write" /\ Write(state, "sleep") /\ UNCHANGED <<World, busy, mode, top, quiet, asked, heard>>

\* time.sleep(), then "while not stopping".
Wake == /\ pc = "sleep" /\ Goto("loop")
        /\ UNCHANGED <<World, busy, mode, top, state, disk, quiet, asked, heard, lost>>

\* SIGTERM takes effect at the end of a sleep, SIGKILL and a call of systemctl that hangs at once.
Stop == /\ pc # "ended" /\ End(state)
        /\ UNCHANGED <<World, busy, mode, top, state, quiet, asked, heard>>

\* Mutant: a watcher starts from nothing.
LoadedNothing == Offline

\* read_state
Loaded == disk

\* The watcher is started again, with the configuration of the day and the record it left.
Start == /\ pc = "ended" /\ mode' \in Modes /\ state' = Loaded /\ Goto("loop")
         /\ UNCHANGED <<World, busy, top, disk, quiet, asked, heard, lost>>

Watcher == Forget \/ Look \/ Lifecycle \/ Poll \/ TakeLock \/ Recheck \/ Save \/ Final \/ Ask
           \/ EndPass \/ Wake

Next == Boot \/ Close \/ Answering \/ Player \/ OtherOperation \/ Tick \/ Watcher \/ Stop
        \/ Start

\* The loop goes on and time passes; nothing is asked of the game or of the other operations.
Spec == Init /\ [][Next]_vars /\ WF_vars(Watcher) /\ WF_vars(Tick)

-----------------------------------------------------------------------------
(* Correctness.                                                            *)

Records == [life : Lives \cup {None}, idle : Times, grace : 0..Grace, requested : BOOLEAN]
Labels  == {"loop", "lifecycle", "poll", "lock", "recheck", "save", "final", "ask", "write", "sleep",
            "ended"}

TypeOK == /\ life \in Lives /\ active \in BOOLEAN /\ people \in BOOLEAN /\ rest \in BOOLEAN
          /\ busy \in BOOLEAN /\ mode \in Modes /\ pc \in Labels
          /\ top \in [since : 0..Timeout, due : BOOLEAN, graced : BOOLEAN]
          /\ state \in Records /\ disk \in Records /\ quiet \in 0..Timeout /\ asked \in 0..2
          /\ heard \in 0..2 /\ lost \in BOOLEAN

\* The server is told to shut down only after Timeout minutes in which every answer was "nobody
\* plays": a player seen or an answer that failed asks for a whole new window.  (A server that
\* restarts within a pass is judged by the pass, which without a grace of its own may date its
\* timer from before it was up: Grace > 0; a watcher that is killed may lose an answer.)
ShutdownJustified == [][asked' > asked => quiet = Timeout \/ lost]_vars

\* An invocation is told to shut down once, though the watcher restarts and is told of other
\* faults: once the watcher has learned that the server accepted, it never asks that invocation
\* again, unless it ended before it could write so.  (Where the answer is lost it has learned
\* nothing, and asks again after a new window: NeverAskedAgain below.)
AskedOnce == heard <= 1 \/ lost

\* A server that stays up, empty and answering under an enabled watcher is shut down: the
\* invocation that stays is told so, whatever was asked of an earlier one.
Calm == active /\ rest /\ ~people /\ ~busy /\ mode = "enabled" /\ pc # "ended"
EmptyServerStopped == <>[]Calm => <>[](asked > 0)

-----------------------------------------------------------------------------
(* Known not to hold: with this formula as its INVARIANT a run shows how.  *)

\* "標記該 lifecycle 已送出關服，絕不重複觸發": whatever happens to the answer or to the watcher.
NeverAskedAgain == asked <= 1
=============================================================================
