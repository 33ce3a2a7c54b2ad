-------------------------- MODULE DiscordBotProofs --------------------------
(***************************************************************************)
(* The bot and the maintenance units it watches: what is announced, for    *)
(* any number of users and of activations.                                 *)
(***************************************************************************)
EXTENDS DiscordBot, TLAPS

\* Only who holds the coordinator has a command under way, and an update is being watched.
Exclusive == \A u \in Users : pc[u] # "idle" => holder = u
Watching  == received => \E u \in Users : pc[u] \in {"poll", "ask"}

\* The runs in progress are numbered, and are not among those that were over.
Numbered == /\ \A m \in Units : run[m] \in 0..runs /\ run[m] \notin over
            /\ file.run \in 0..runs /\ over \subseteq 1..runs
            /\ prev \in 0..runs

\* While the file tells of a run that was over, it is the report known before the request, and
\* nothing new has been received; or the file could not be read then.
Fresh == file.run \in over => (file.run = prev /\ ~received) \/ blind

\* A report that is not final has a script behind it, or one that ended without a word.
Behind == file.phase \notin Terminal /\ ~mute => \E m \in Units : step[m] \notin Terminal \cup {"ended", "queued", "lock"}

IInv == TypeOK /\ Exclusive /\ Watching /\ Numbered /\ Fresh /\ Behind

-----------------------------------------------------------------------------
(* Steps of the units: nothing of the bot changes, and the file is left    *)
(* alone or tells of a run in progress.                                    *)

LEMMA InitIInv == Init => IInv
<1> SUFFICES ASSUME Init PROVE IInv
  OBVIOUS
<1>1. TypeOK
  <2>1. /\ 0 \in 0..MaxRuns /\ 0 \in 0..MaxFaults /\ "ended" \in Steps
        /\ Nothing \in [run : 0..MaxRuns, phase : Phases]
    BY RunAssumption DEF Steps, Phases, Terminal, Nothing
  <2>2. /\ pc \in [Users -> Held \cup {"idle"}] /\ cmd \in [Users -> Commands \cup {"none"}]
        /\ holder \in Users \cup {None} /\ game \in BOOLEAN /\ lock \in Units \cup {"bot", None}
    BY DEF Init
  <2>3. /\ step \in [Units -> Steps] /\ run \in [Units -> 0..MaxRuns]
        /\ was \in [Units -> BOOLEAN] /\ runs \in 0..MaxRuns
    BY <2>1 DEF Init
  <2>4. /\ file \in [run : 0..MaxRuns, phase : Phases]
        /\ faults \in 0..MaxFaults /\ mute \in BOOLEAN
        /\ prev \in 0..MaxRuns /\ received \in BOOLEAN /\ blind \in BOOLEAN /\ over \subseteq 1..MaxRuns
        /\ own \in 0..MaxRuns /\ told \in 0..MaxRuns
    BY <2>1 DEF Init
  <2> QED BY <2>2, <2>3, <2>4 DEF TypeOK
<1>2. Exclusive /\ Watching /\ Numbered /\ Fresh /\ Behind
  BY DEF Init, Exclusive, Watching, Numbered, Fresh, Behind, Nothing
<1> QED BY <1>1, <1>2 DEF IInv

\* The file is left alone or emptied, or a unit reports.
Reported(m) ==
  /\ \/ file' \in {file, Nothing}
     \/ \E phase \in Phases : file' = [run |-> run[m], phase |-> phase]
  /\ faults' \in 0..MaxFaults /\ mute' \in BOOLEAN

LEMMA ReportDoes ==
  ASSUME IInv, NEW m \in Units, NEW phase \in Phases, Report(m, phase)
  PROVE  Reported(m)
BY DEF IInv, TypeOK, Report, Reported

LEMMA FaultDoes == ASSUME IInv, Fault PROVE faults' \in 0..MaxFaults
BY RunAssumption DEF IInv, TypeOK, Fault

LEMMA SilentDoes == ASSUME IInv, Silent PROVE mute' \in BOOLEAN
BY DEF IInv, TypeOK, Silent

\* A write that fails, with or without a word to come.
LEMMA FailureDoes ==
  ASSUME IInv, NEW m \in Units, Unreported \/ Emptied, UNCHANGED mute \/ Silent
  PROVE  Reported(m)
<1>1. file' \in {file, Nothing} /\ faults' \in 0..MaxFaults
  BY FaultDoes DEF Unreported, Emptied
<1>2. mute' \in BOOLEAN
  BY SilentDoes DEF IInv, TypeOK
<1> QED BY <1>1, <1>2 DEF Reported

LEMMA KeptDoes == ASSUME IInv, NEW m \in Units, UNCHANGED state PROVE Reported(m)
BY DEF IInv, TypeOK, state, Reported

\* A step of a unit that runs, up to its end, keeps all but what the file says of progress.
LEMMA UnitStep ==
  ASSUME IInv, NEW m \in Units, UNCHANGED <<bot, watch, told, runs>>, Reported(m),
         run' = run \/ run' = [run EXCEPT ![m] = 0],
         step' \in [Units -> Steps], was' \in [Units -> BOOLEAN], game' \in BOOLEAN,
         lock' \in Units \cup {"bot", None}, Behind'
  PROVE  IInv'
<1>1. /\ \A n \in Units : run'[n] \in 0..runs /\ run'[n] \notin over
      /\ run' \in [Units -> 0..MaxRuns] /\ runs \in 0..MaxRuns
  BY RunAssumption DEF IInv, TypeOK, Numbered
<1>2. /\ file' \in [run : 0..MaxRuns, phase : Phases] /\ file'.run \in 0..runs
      /\ file'.run = file.run \/ file'.run \notin over
  <2>1. Nothing \in [run : 0..MaxRuns, phase : Phases] /\ Nothing.run = 0 /\ 0 \notin over
    BY RunAssumption DEF Nothing, Phases, Terminal, IInv, Numbered
  <2> QED BY <2>1, RunAssumption DEF IInv, TypeOK, Numbered, Reported
<1>3. TypeOK'
  BY <1>1, <1>2 DEF IInv, TypeOK, bot, watch, Reported
<1>4. Exclusive' /\ Watching'
  BY DEF IInv, Exclusive, Watching, bot, watch
<1>5. Numbered' /\ Fresh'
  BY <1>1, <1>2 DEF IInv, Numbered, Fresh, watch
<1> QED BY <1>3, <1>4, <1>5 DEF IInv

\* The steps behind a report that is not final.
Busy(s) == s \notin Terminal \cup {"ended", "queued", "lock"}

\* A unit that stays at work, or that was not, leaves somebody behind the file's progress.
LEMMA BehindKept ==
  ASSUME IInv, NEW m \in Units, NEW l \in Steps, Moved(m, l), UNCHANGED state, Busy(step[m]) => Busy(l)
  PROVE  Behind'
BY DEF IInv, TypeOK, Behind, Busy, Moved, state

\* So does a unit that goes on, whatever becomes of the file,
LEMMA BehindBusy ==
  ASSUME IInv, NEW m \in Units, NEW l \in Steps, Moved(m, l), Busy(l)
  PROVE  Behind'
BY DEF IInv, TypeOK, Behind, Busy, Moved

\* and one that reports the end, or ends without a word.
LEMMA BehindEnd ==
  ASSUME Silent \/ \E m \in Units, phase \in Terminal : Report(m, phase)
  PROVE  Behind'
<1>1. file'.phase \in Terminal \/ mute' = TRUE
  <2>1. ASSUME NEW m \in Units, NEW phase \in Terminal, Report(m, phase)
        PROVE  file'.phase \in Terminal
    BY <2>1 DEF Report
  <2>2. CASE Silent
    BY <2>2 DEF Silent
  <2> QED BY <2>1, <2>2
<1> QED BY <1>1 DEF Behind

LEMMA MovedType == ASSUME IInv, NEW m \in Units, NEW l \in Steps, Moved(m, l)
                   PROVE  step' \in [Units -> Steps]
BY DEF IInv, TypeOK, Moved

LEMMA ConfigureStep == ASSUME IInv, NEW m \in Units, Configure(m) PROVE IInv'
<1>1. PICK l \in {"ended", "lock"} : Moved(m, l)
  BY DEF Configure, Ended
<1>2. l \in Steps /\ step[m] = "queued" /\ UNCHANGED state
  BY DEF Configure, Steps
<1>3. step' \in [Units -> Steps] /\ Behind'
  BY <1>1, <1>2, MovedType, BehindKept DEF Busy
<1>4. /\ UNCHANGED <<bot, game, lock, runs, state, watch, told>>
      /\ run' = run \/ run' = [run EXCEPT ![m] = 0]
      /\ was' = was \/ was' = [was EXCEPT ![m] = FALSE]
  BY DEF Configure, Ended, Named
<1> QED BY <1>3, <1>4, UnitStep, KeptDoes DEF IInv, TypeOK

LEMMA FlockStep == ASSUME IInv, NEW m \in Units, Flock(m) PROVE IInv'
<1>0. UNCHANGED <<bot, game, run, was, runs, watch, told>> /\ step[m] = "lock"
  BY DEF Flock
<1>1. /\ {"starting", "trap"} \subseteq Steps /\ "starting" \in Phases
      /\ Busy("starting") /\ Busy("trap")
  BY DEF Steps, Phases, Busy, Terminal
<1>2. \E l \in {"starting", "trap"} : Moved(m, l)
  BY DEF Flock
<1>3. step' \in [Units -> Steps] /\ Behind'
  BY <1>1, <1>2, MovedType, BehindBusy
<1>4. Reported(m)
  BY <1>1, ReportDoes, FailureDoes, KeptDoes DEF Flock
<1>5. lock' \in Units \cup {"bot", None}
  BY DEF Flock, IInv, TypeOK
<1> QED BY <1>0, <1>3, <1>4, <1>5, UnitStep DEF IInv, TypeOK

\* What a step of the script comes to: the next one, the trap or the end, and what is said of it.
LEMMA ProceedStep == ASSUME IInv, NEW m \in Units, Proceed(m) PROVE IInv'
<1>0. /\ UNCHANGED <<bot, lock, run, runs, watch, told>>
      /\ step[m] \in {"starting", "stopping", "backup", "updating", "restarting"}
      /\ {"trap", "completed"} \subseteq Steps /\ Busy("trap")
  BY DEF Proceed, Steps, Busy, Phases, Terminal
<1>1. CASE Dies(m)
  <2>1. step' \in [Units -> Steps] /\ Behind'
    BY <1>0, <1>1, MovedType, BehindBusy DEF Dies
  <2> QED BY <1>0, <1>1, <2>1, UnitStep, KeptDoes DEF IInv, TypeOK, Dies
<1>2. CASE /\ was' = IF step[m] = "starting" THEN [was EXCEPT ![m] = game] ELSE was
           /\ game' = CASE step[m] = "stopping" -> FALSE [] step[m] = "restarting" -> TRUE
                        [] OTHER -> game
           /\ \/ Moved(m, Following(m)) /\ Report(m, Following(m))
              \/ Unreported /\ Unannounced(m)
  <2>1. Following(m) \in {"stopping", "backup", "updating", "restarting", "completed"}
    BY <1>0 DEF Following
  <2>2. Following(m) \in Steps /\ Following(m) \in Phases
        /\ (Following(m) \in Terminal \/ Busy(Following(m)))
    BY <2>1 DEF Steps, Phases, Busy, Terminal
  <2>3. was' \in [Units -> BOOLEAN]
    BY <1>2 DEF IInv, TypeOK
  <2>4. game' \in BOOLEAN
    BY <1>2 DEF IInv, TypeOK
  <2>5. step' \in [Units -> Steps] /\ Behind' /\ Reported(m)
    <3>1. CASE Moved(m, Following(m)) /\ Report(m, Following(m))
      BY <3>1, <2>2, MovedType, BehindBusy, BehindEnd, ReportDoes
    <3>2. CASE Unreported /\ Moved(m, "completed") /\ Silent
      BY <1>0, <3>2, MovedType, BehindEnd, FailureDoes
    <3>3. CASE Unreported /\ Moved(m, "trap") /\ UNCHANGED mute
      BY <1>0, <3>3, MovedType, BehindBusy, FailureDoes
    <3> QED BY <1>2, <3>1, <3>2, <3>3 DEF Unannounced
  <2> QED BY <1>0, <2>3, <2>4, <2>5, UnitStep DEF IInv, TypeOK
<1> QED BY <1>1, <1>2 DEF Proceed

LEMMA TrapStep == ASSUME IInv, NEW m \in Units, Trap(m) PROVE IInv'
<1>0. /\ UNCHANGED <<bot, lock, run, was, runs, watch, told>>
      /\ {"failing", "completed"} \subseteq Steps /\ {"restarting", "failed"} \subseteq Phases
      /\ Busy("failing") /\ "failed" \in Terminal
  BY DEF Trap, Steps, Phases, Busy, Terminal
<1>1. CASE /\ game' \in BOOLEAN /\ Moved(m, "failing")
           /\ Report(m, "restarting") \/ ((Unreported \/ Emptied) /\ UNCHANGED mute)
  <2>1. step' \in [Units -> Steps] /\ Behind' /\ Reported(m)
    BY <1>0, <1>1, MovedType, BehindBusy, ReportDoes, FailureDoes
  <2> QED BY <1>0, <1>1, <2>1, UnitStep DEF IInv, TypeOK
<1>2. CASE Moved(m, "failing") /\ UNCHANGED <<game, state>>
  <2>1. step' \in [Units -> Steps] /\ Behind'
    BY <1>0, <1>2, MovedType, BehindBusy
  <2> QED BY <1>0, <1>2, <2>1, UnitStep, KeptDoes DEF IInv, TypeOK
<1>3. CASE /\ Moved(m, "completed") /\ UNCHANGED game
           /\ Report(m, "failed") \/ ((Unreported \/ Emptied) /\ Silent)
  <2>1. step' \in [Units -> Steps] /\ Behind' /\ Reported(m)
    BY <1>0, <1>3, MovedType, BehindEnd, ReportDoes, FailureDoes
  <2> QED BY <1>0, <1>3, <2>1, UnitStep DEF IInv, TypeOK
<1> QED BY <1>1, <1>2, <1>3 DEF Trap, LastWord

\* A script that is killed leaves the file as it is.
LEMMA KilledStep == ASSUME IInv, NEW m \in Units, Killed(m) PROVE IInv'
<1>1. /\ UNCHANGED <<bot, game, runs, file, watch, told>> /\ run' = [run EXCEPT ![m] = 0]
      /\ was' = [was EXCEPT ![m] = FALSE] /\ lock' \in {lock, None} /\ Moved(m, "ended")
      /\ Fault /\ Silent /\ "ended" \in Steps
  BY DEF Killed, Ended, Named, Steps
<1>2. step' \in [Units -> Steps] /\ Behind'
  BY <1>1, MovedType, BehindEnd
<1>3. Reported(m)
  BY <1>1, FaultDoes, SilentDoes DEF Reported
<1> QED BY <1>1, <1>2, <1>3, UnitStep DEF IInv, TypeOK

LEMMA ExitStep == ASSUME IInv, NEW m \in Units, Exit(m) PROVE IInv'
<1>1. /\ Moved(m, "ended") /\ step[m] = "completed" /\ "ended" \in Steps
      /\ UNCHANGED state /\ ~Busy(step[m])
  BY DEF Exit, Ended, Steps, Busy, Terminal
<1>2. step' \in [Units -> Steps] /\ Behind'
  BY <1>1, MovedType, BehindKept
<1>3. /\ UNCHANGED <<bot, game, runs, watch, told>> /\ run' = [run EXCEPT ![m] = 0]
      /\ was' = [was EXCEPT ![m] = FALSE] /\ lock' \in {lock, None}
  BY DEF Exit, Ended, Named
<1> QED BY <1>1, <1>2, <1>3, UnitStep, KeptDoes DEF IInv, TypeOK

\* A unit that is activated has a number nobody knows yet.
LEMMA QueueDoes ==
  ASSUME IInv, NEW m \in Units, Queue(m)
  PROVE  /\ runs' \in 0..MaxRuns /\ run' \in [Units -> 0..MaxRuns] /\ step' \in [Units -> Steps]
         /\ was' = was /\ runs' = runs + 1
         /\ \A n \in Units : run'[n] \in 0..runs' /\ run'[n] \notin over
         /\ UNCHANGED state => Behind'
<1>1. Moved(m, "queued") /\ run' = [run EXCEPT ![m] = runs + 1] /\ runs' = runs + 1 /\ runs < MaxRuns
      /\ step[m] = "ended" /\ was' = was
  BY DEF Queue, Named
<1>2. "queued" \in Steps /\ ~Busy(step[m])
  BY <1>1 DEF Steps, Busy
<1>3. step' \in [Units -> Steps] /\ (UNCHANGED state => Behind')
  BY <1>1, <1>2, MovedType, BehindKept
<1>4. runs \in 0..MaxRuns /\ runs + 1 \notin over
  BY RunAssumption DEF IInv, TypeOK, Numbered
<1>5. runs' \in 0..MaxRuns /\ 0..runs \subseteq 0..runs' /\ runs + 1 \in 0..runs'
  BY <1>1, <1>4, RunAssumption
<1>6. run' \in [Units -> 0..MaxRuns]
  BY <1>1, <1>5 DEF IInv, TypeOK
<1>7. \A n \in Units : run'[n] \in 0..runs' /\ run'[n] \notin over
  BY <1>1, <1>4, <1>5 DEF IInv, TypeOK, Numbered
<1> QED BY <1>1, <1>3, <1>5, <1>6, <1>7

LEMMA ActivateStep == ASSUME IInv, NEW m \in Units, Activate(m) PROVE IInv'
<1>1. Queue(m) /\ UNCHANGED <<bot, game, lock, state, watch, told>>
  BY DEF Activate
<1>2. TypeOK'
  BY <1>1, QueueDoes DEF IInv, TypeOK, bot, watch, state
<1>3. Exclusive' /\ Watching' /\ Fresh' /\ Behind'
  BY <1>1, QueueDoes DEF IInv, Exclusive, Watching, Fresh, bot, watch, state
<1>4. Numbered'
  BY <1>1, QueueDoes, RunAssumption DEF IInv, TypeOK, Numbered, watch, state
<1> QED BY <1>2, <1>3, <1>4 DEF IInv

LEMMA ScriptStep == ASSUME IInv, NEW m \in Units, Script(m) PROVE IInv'
BY ConfigureStep, FlockStep, ProceedStep, TrapStep, ExitStep DEF Script

-----------------------------------------------------------------------------
(* Steps of the bot's commands: the file and the units are left alone.     *)

\* A command that goes on; who watches an update goes on watching it.
LEMMA GotoStep ==
  ASSUME IInv, NEW u \in Users, NEW l \in Held, Goto(u, l), UNCHANGED <<unit, file, mute, watch>>,
         faults' \in 0..MaxFaults,
         pc[u] # "idle", pc[u] \in {"poll", "ask"} => l \in {"poll", "ask"},
         game' \in BOOLEAN, lock' \in Units \cup {"bot", None}, told' \in 0..MaxRuns
  PROVE  IInv'
<1>1. TypeOK'
  BY DEF IInv, TypeOK, Goto, unit, watch
<1>2. Exclusive' /\ Watching'
  BY DEF IInv, TypeOK, Exclusive, Watching, Goto, watch
<1>3. Numbered' /\ Fresh' /\ Behind'
  BY DEF IInv, Numbered, Fresh, Behind, unit, watch
<1> QED BY <1>1, <1>2, <1>3 DEF IInv

\* A command that ends takes what it knew with it.
LEMMA ReplyStep ==
  ASSUME IInv, NEW u \in Users, Reply(u), UNCHANGED <<unit, state>>, pc[u] # "idle",
         game' \in BOOLEAN, lock' \in Units \cup {"bot", None}, told' \in 0..MaxRuns
  PROVE  IInv'
<1>0. 0 \in 0..MaxRuns /\ runs \in Nat
  BY RunAssumption DEF IInv, TypeOK
<1>1. TypeOK'
  BY <1>0 DEF IInv, TypeOK, Reply, Forget, unit, state
<1>2. Exclusive' /\ Watching'
  BY DEF IInv, TypeOK, Exclusive, Watching, Reply, Forget
<1>3. Numbered' /\ Fresh' /\ Behind'
  BY <1>0 DEF IInv, Numbered, Fresh, Behind, Reply, Forget, unit, state
<1> QED BY <1>1, <1>2, <1>3 DEF IInv

\* The types a step keeps that leaves the server, the lock and the announcements alone.
LEMMA SameTypes == ASSUME IInv
                   PROVE  /\ UNCHANGED game => game' \in BOOLEAN
                          /\ UNCHANGED lock => lock' \in Units \cup {"bot", None}
                          /\ UNCHANGED told => told' \in 0..MaxRuns
                          /\ UNCHANGED state => UNCHANGED <<file, mute>> /\ faults' \in 0..MaxFaults
                          /\ Fault => faults' \in 0..MaxFaults
BY FaultDoes DEF IInv, TypeOK, state

LEMMA HoldStep == ASSUME IInv, NEW u \in Users, NEW c \in Commands, Hold(u, c) PROVE IInv'
<1>0. /\ pc[u] = "idle" /\ holder = None /\ holder' = u /\ told' = 0
      /\ pc' = [pc EXCEPT ![u] = "guard"] /\ cmd' = [cmd EXCEPT ![u] = c]
      /\ UNCHANGED <<game, lock, unit, state, watch>> /\ None \notin Users
  BY NoneAssumption DEF Hold
<1>1. TypeOK'
  BY <1>0, RunAssumption DEF IInv, TypeOK, unit, watch, state, Held
<1>2. Exclusive' /\ Watching'
  BY <1>0 DEF IInv, TypeOK, Exclusive, Watching, watch
<1>3. Numbered' /\ Fresh' /\ Behind'
  BY <1>0 DEF IInv, Numbered, Fresh, Behind, unit, watch, state
<1> QED BY <1>1, <1>2, <1>3 DEF IInv

\* What was over when an update is asked for: no run in progress, and nothing received.
LEMMA GuardStep == ASSUME IInv, NEW u \in Users, Guard(u) PROVE IInv'
<1>0. pc[u] = "guard" /\ UNCHANGED <<game, lock, unit, told>>
  BY DEF Guard
<1>1. CASE Reply(u) /\ UNCHANGED state
  BY <1>0, <1>1, ReplyStep, SameTypes
<1>2. CASE Advance(u, "status") /\ UNCHANGED state
  BY <1>0, <1>2, GotoStep, SameTypes DEF Advance, Held
<1>3. CASE /\ Goto(u, "countdown")
           /\ \/ prev' = file.run /\ UNCHANGED <<blind, state>>
              \/ Fault /\ prev' = 0 /\ blind' = TRUE /\ UNCHANGED <<file, mute>>
           /\ over' = {r \in 1..runs : \A m \in Units : run[m] # r}
           /\ UNCHANGED <<received, own>>
  <2>1. ~received
    BY <1>0 DEF IInv, Exclusive, Watching
  <2>2. over' \subseteq 1..runs /\ over' \subseteq 1..MaxRuns
    BY <1>3, RunAssumption DEF IInv, TypeOK
  <2>3. /\ UNCHANGED <<file, mute>> /\ faults' \in 0..MaxFaults
        /\ (prev' = file.run /\ blind' = blind) \/ (prev' = 0 /\ blind')
        /\ blind' \in BOOLEAN
    BY <1>3, SameTypes DEF IInv, TypeOK
  <2>4. prev' \in 0..MaxRuns /\ prev' \in 0..runs
    BY <1>3, RunAssumption DEF IInv, TypeOK, Numbered
  <2>5. TypeOK'
    BY <1>0, <1>3, <2>2, <2>3, <2>4 DEF IInv, TypeOK, Goto, unit, Held
  <2>6. Exclusive' /\ Watching'
    BY <1>0, <1>3, <2>1 DEF IInv, TypeOK, Exclusive, Watching, Goto
  <2>7. Numbered' /\ Fresh' /\ Behind'
    BY <1>0, <1>3, <2>1, <2>2, <2>3, <2>4 DEF IInv, Numbered, Fresh, Behind, unit
  <2> QED BY <2>5, <2>6, <2>7 DEF IInv
<1> QED BY <1>1, <1>2, <1>3 DEF Guard

LEMMA StatusStep == ASSUME IInv, NEW u \in Users, Status(u) PROVE IInv'
<1>0. pc[u] = "status" /\ UNCHANGED <<game, lock, unit, state, told>>
      /\ (Reply(u) \/ Advance(u, "run"))
  BY DEF Status
<1> QED BY <1>0, ReplyStep, GotoStep, SameTypes DEF Advance, Held

LEMMA RunStep == ASSUME IInv, NEW u \in Users, Run(u) PROVE IInv'
<1>0. pc[u] = "run" /\ UNCHANGED <<game, unit, state, told>>
      /\ ((Reply(u) /\ UNCHANGED lock) \/ (lock' = "bot" /\ Advance(u, "running")))
  BY DEF Run
<1> QED BY <1>0, ReplyStep, GotoStep, SameTypes DEF Advance, Held

LEMMA RanStep == ASSUME IInv, NEW u \in Users, Ran(u) PROVE IInv'
<1>1. pc[u] = "running" /\ lock' = None /\ Reply(u) /\ UNCHANGED <<unit, state, told>>
  BY DEF Ran
<1>2. game' \in BOOLEAN
  BY DEF Ran, Outcomes, IInv, TypeOK
<1> QED BY <1>1, <1>2, ReplyStep, SameTypes

LEMMA CountdownStep == ASSUME IInv, NEW u \in Users, Countdown(u) PROVE IInv'
<1>0. pc[u] = "countdown" /\ UNCHANGED <<game, lock, unit, state, told>>
      /\ (Reply(u) \/ Advance(u, "trigger"))
  BY DEF Countdown
<1> QED BY <1>0, ReplyStep, GotoStep, SameTypes DEF Advance, Held

\* The unit is activated, or goes on; its run is not among those that were over.
LEMMA TriggerStep == ASSUME IInv, NEW u \in Users, Trigger(u) PROVE IInv'
<1>0. pc[u] = "trigger" /\ UNCHANGED <<game, lock, state, told>> /\ "manual" \in Units
  BY DEF Trigger, Units
<1>1. CASE Reply(u) /\ UNCHANGED unit
  BY <1>0, <1>1, ReplyStep, SameTypes
<1>2. CASE /\ Queue("manual") \/ UNCHANGED unit
           /\ own' = run'["manual"] /\ Goto(u, "poll") /\ UNCHANGED <<prev, received, blind, over>>
  <2>1. /\ runs' \in 0..MaxRuns /\ run' \in [Units -> 0..MaxRuns] /\ step' \in [Units -> Steps]
        /\ was' = was /\ runs' \in {runs, runs + 1} /\ Behind'
        /\ \A m \in Units : run'[m] \in 0..runs' /\ run'[m] \notin over
    <3>1. CASE Queue("manual")
      BY <1>0, <3>1, QueueDoes
    <3>2. CASE UNCHANGED unit
      BY <1>0, <3>2 DEF IInv, TypeOK, Numbered, Behind, unit, state
    <3> QED BY <1>2, <3>1, <3>2
  <2>2. TypeOK'
    BY <1>0, <1>2, <2>1 DEF IInv, TypeOK, Goto, Held, state
  <2>3. Exclusive' /\ Watching' /\ Fresh'
    BY <1>0, <1>2 DEF IInv, TypeOK, Exclusive, Watching, Fresh, Goto, state
  <2>4. Numbered'
    BY <1>0, <1>2, <2>1, RunAssumption DEF IInv, TypeOK, Numbered, state
  <2> QED BY <2>1, <2>2, <2>3, <2>4 DEF IInv
<1> QED BY <1>1, <1>2 DEF Trigger

\* A report is taken for the run's own only when it is not of a run that was over,
\* as far as could be read.
LEMMA NewIsNotOver == ASSUME IInv, NewRun PROVE file.run \notin over \/ blind
BY DEF IInv, Fresh, NewRun

LEMMA PollStep == ASSUME IInv, NEW u \in Users, Poll(u) PROVE IInv'
<1>0. pc[u] = "poll" /\ UNCHANGED <<game, lock, unit>>
  BY DEF Poll
<1>1. CASE Reply(u) /\ told' = file.run /\ UNCHANGED state
  BY <1>0, <1>1, ReplyStep, SameTypes DEF IInv, TypeOK
<1>2. CASE NewRun /\ received' = TRUE /\ UNCHANGED <<bot, prev, blind, over, own, told, state>>
  <2>1. TypeOK' /\ Exclusive' /\ Numbered' /\ Behind'
    BY <1>0, <1>2 DEF IInv, TypeOK, Exclusive, Numbered, Behind, bot, unit, state
  <2>2. Watching'
    BY <1>0, <1>2 DEF Watching, bot
  <2>3. Fresh'
    BY <1>0, <1>2, NewIsNotOver DEF Fresh, state
  <2> QED BY <2>1, <2>2, <2>3 DEF IInv
<1>3. CASE Advance(u, "ask") /\ UNCHANGED <<told, file, mute>> /\ faults' \in 0..MaxFaults
  BY <1>0, <1>3, GotoStep, SameTypes DEF Advance, Held
<1> QED BY <1>1, <1>2, <1>3, SameTypes DEF Poll

LEMMA AskStep == ASSUME IInv, NEW u \in Users, Ask(u) PROVE IInv'
<1>0. pc[u] = "ask" /\ UNCHANGED <<game, lock, unit, state, told>>
      /\ (Reply(u) \/ Advance(u, "poll"))
  BY DEF Ask
<1> QED BY <1>0, ReplyStep, GotoStep, SameTypes DEF Advance, Held

LEMMA DeadlineStep == ASSUME IInv, NEW u \in Users, Deadline(u) PROVE IInv'
BY ReplyStep, SameTypes DEF Deadline

LEMMA RestartStep == ASSUME IInv, Restart PROVE IInv'
<1>0. /\ pc' = [u \in Users |-> "idle"] /\ cmd' = [u \in Users |-> "none"] /\ holder' = None
      /\ lock' \in {lock, None} /\ prev' = 0 /\ received' = FALSE /\ blind' = FALSE
      /\ over' = {} /\ own' = 0 /\ told' = 0 /\ UNCHANGED <<game, unit, state>> /\ 0 \in 0..MaxRuns /\ runs \in 0..MaxRuns
  BY RunAssumption DEF Restart, Forget, IInv, TypeOK
<1>1. TypeOK'
  BY <1>0 DEF IInv, TypeOK, unit, state
<1>2. Exclusive' /\ Watching' /\ Fresh' /\ Behind'
  BY <1>0 DEF IInv, Exclusive, Watching, Fresh, Behind, unit, state
<1>3. Numbered'
  BY <1>0 DEF IInv, Numbered, unit, state
<1> QED BY <1>1, <1>2, <1>3 DEF IInv

LEMMA NextIInv == IInv /\ [Next]_vars => IInv'
<1> SUFFICES ASSUME IInv, [Next]_vars PROVE IInv'
  OBVIOUS
<1>1. CASE UNCHANGED vars
  <2>1. TypeOK' /\ Exclusive' /\ Watching'
    BY <1>1 DEF vars, bot, unit, state, watch, IInv, TypeOK, Exclusive, Watching
  <2>2. Numbered' /\ Fresh' /\ Behind'
    BY <1>1 DEF vars, bot, unit, state, watch, IInv, Numbered, Fresh, Behind
  <2> QED BY <2>1, <2>2 DEF IInv
<1>2. ASSUME NEW m \in Units, Activate(m) \/ Script(m) \/ Killed(m) PROVE IInv'
  BY <1>2, ActivateStep, ScriptStep, KilledStep
<1>3. ASSUME NEW u \in Users, Command(u) PROVE IInv'
  BY <1>3, GuardStep, StatusStep, RunStep, RanStep, CountdownStep, TriggerStep, PollStep, AskStep DEF Command
<1>4. ASSUME NEW u \in Users, Deadline(u) \/ (\E c \in Commands : Hold(u, c)) PROVE IInv'
  BY <1>4, DeadlineStep, HoldStep
<1>5. CASE Restart
  BY <1>5, RestartStep
<1> QED BY <1>1, <1>2, <1>3, <1>4, <1>5 DEF Next

\* The inductive invariant holds in every reachable state of the bot and its units.
THEOREM IInvAlways == Spec => []IInv
BY InitIInv, NextIInv, PTL DEF Spec

-----------------------------------------------------------------------------
(* The properties of the run.                                              *)

\* The bookkeeping of the bot, the units and the progress file keeps its types.
THEOREM TypeCorrect == Spec => []TypeOK
<1>1. IInv => TypeOK
  BY DEF IInv
<1> QED BY <1>1, IInvAlways, PTL

\* When no script is at work the file tells an outcome, however the two units interleaved and
\* whatever other report failed, unless a script has ended without a word.
THEOREM AlwaysOutcomeAtRest == Spec => []OutcomeAtRest
<1>1. IInv => OutcomeAtRest
  <2> SUFFICES ASSUME IInv, file.phase \notin Terminal, ~mute, \A m \in Units : ~AtWork(m) PROVE FALSE
    BY DEF OutcomeAtRest
  <2>1. PICK m \in Units : step[m] \notin Terminal \cup {"ended", "queued", "lock"}
    BY DEF IInv, Behind
  <2>2. step[m] \in Steps
    BY DEF IInv, TypeOK
  <2> QED BY <2>1, <2>2 DEF AtWork, Steps
<1> QED BY <1>1, IInvAlways, PTL

\* Only a poll announces an outcome, and it announces none of a run that was over before the
\* request, unless the file could not be read then.
THEOREM NeverStale == Spec => NoStaleOutcome
<1>1. IInv /\ [Next]_vars => [told' # told /\ told' # 0 => told' \notin over \/ blind]_vars
  <2> SUFFICES ASSUME IInv, Next, told' # told, told' # 0 PROVE told' \notin over \/ blind
    OBVIOUS
  <2>1. CASE \E m \in Units : Activate(m) \/ Script(m) \/ Killed(m)
    BY <2>1 DEF Activate, Script, Configure, Flock, Proceed, Trap, Exit, Killed
  <2>2. CASE \E u \in Users : Poll(u)
    <3>1. NewRun /\ told' = file.run
      BY <2>2 DEF Poll
    <3> QED BY <3>1, NewIsNotOver
  <2>3. CASE \E u \in Users : Deadline(u) \/ (\E c \in Commands : Hold(u, c))
    BY <2>3 DEF Deadline, Hold
  <2>4. CASE \E u \in Users : Guard(u) \/ Status(u) \/ Run(u) \/ Ran(u) \/ Countdown(u)
                              \/ Trigger(u) \/ Ask(u)
    BY <2>4 DEF Guard, Status, Run, Ran, Countdown, Trigger, Ask
  <2>5. CASE Restart
    BY <2>5 DEF Restart
  <2> QED BY <2>1, <2>2, <2>3, <2>4, <2>5 DEF Next, Command
<1> QED BY <1>1, IInvAlways, PTL DEF Spec, NoStaleOutcome

-----------------------------------------------------------------------------
(* When the outcome announced is that of the run asked for.                *)

\* No unit has a run under way from the moment an update has read the file until it asks
\* for the unit, nor any other run than its own while it watches, and the file could be read.
\* The code sees to none of these: the timer and the panel go on activating the units.
Undisturbed ==
  /\ ~blind
  /\ \A u \in Users :
       /\ pc[u] \in {"countdown", "trigger"} => \A m \in Units : run[m] = 0
       /\ pc[u] \in {"poll", "ask"}          => \A m \in Units : run[m] \in {0, own}

\* A unit without a run executes no script; until the update asks for the unit the file
\* is what it has read, and then that or the report of its own run, unless that emptied it.
Mine == /\ \A m \in Units : run[m] = 0 => step[m] = "ended"
        /\ \A u \in Users : ~blind =>
             /\ pc[u] \in {"countdown", "trigger"} => file.run = prev
             /\ pc[u] \in {"poll", "ask"} => /\ file.run \in {prev, own, 0}
                                             /\ received => file.run \in {own, 0}

\* A script reports under the number of its own run.
LEMMA MineUnits ==
  ASSUME IInv, Mine, Undisturbed, NEW m \in Units, Activate(m) \/ Script(m) \/ Killed(m)
  PROVE  Mine'
<1>1. UNCHANGED <<bot, watch>>
  BY DEF Activate, Script, Configure, Flock, Proceed, Trap, Exit, Killed
<1>2. file' = file \/ (file'.run \in {run[m], 0} /\ run[m] # 0)
  <2>1. CASE Flock(m) \/ Trap(m) \/ Proceed(m)
    <3>1. file' \in {file, Nothing} \/ \E x : Report(m, x)
      BY <2>1 DEF Flock, Trap, Proceed, Dies, Unreported, Emptied, state
    <3>2. run[m] # 0
      BY <2>1 DEF Flock, Trap, Proceed, Mine
    <3> QED
      BY <3>1, <3>2 DEF Report, Nothing
  <2> QED
    BY <2>1 DEF Activate, Script, Configure, Exit, Killed, state
<1>3. \A n \in Units : run'[n] = 0 => step'[n] = "ended"
  <2>1. CASE Queue(m) \/ Ended(m)
    <3>1. \/ step' = [step EXCEPT ![m] = "ended"] /\ run' = [run EXCEPT ![m] = 0]
          \/ run' = [run EXCEPT ![m] = runs + 1] /\ step' = [step EXCEPT ![m] = "queued"]
      BY <2>1 DEF Queue, Ended, Moved, Named
    <3>2. runs + 1 # 0
      BY RunAssumption DEF IInv, TypeOK
    <3> QED
      BY <3>1, <3>2 DEF IInv, TypeOK, Mine
  <2>2. CASE step[m] # "ended" /\ run' = run /\ \E l \in Steps : Moved(m, l)
    BY <2>2 DEF Moved, IInv, TypeOK, Mine
  <2>3. CASE Flock(m) \/ Proceed(m) \/ Trap(m)
    <3>1. step[m] # "ended" /\ run' = run
      BY <2>3 DEF Flock, Proceed, Trap
    <3>2. \E l : Moved(m, l)
      BY <2>3 DEF Flock, Proceed, Trap, Dies, Unannounced
    <3>3. \A n \in Units : run[n] = 0 => n # m /\ step'[n] = step[n]
      BY <3>1, <3>2 DEF Moved, IInv, TypeOK, Mine
    <3> QED
      BY <3>1, <3>3 DEF Mine
  <2>4. CASE Configure(m)
    BY <2>1, <2>2, <2>4 DEF Configure, Steps
  <2> QED
    BY <2>1, <2>3, <2>4 DEF Activate, Script, Exit, Killed
<1> QED
  BY <1>1, <1>2, <1>3 DEF Mine, Undisturbed, bot, watch

\* The bot leaves the file alone, and nobody else has a command under way.
LEMMA MineBot ==
  ASSUME IInv, Mine, Undisturbed, NEW u \in Users,
         Command(u) \/ Deadline(u) \/ (\E c \in Commands : Hold(u, c))
  PROVE  Mine'
<1>1. file' = file /\ \A v \in Users : v # u => pc'[v] = pc[v]
  BY DEF Command, Guard, Status, Run, Ran, Countdown, Trigger, Poll, Ask, Deadline, Hold,
     Reply, Goto, Advance, bot, state, IInv, TypeOK
<1>2. \A v \in Users : v # u => pc'[v] = "idle"
  <2>1. holder \in {u, None} /\ None \notin Users
    BY NoneAssumption DEF Command, Guard, Status, Run, Ran, Countdown, Trigger, Poll, Ask,
       Deadline, Hold, IInv, Exclusive
  <2> QED
    BY <1>1, <2>1 DEF IInv, Exclusive
<1>3. \A n \in Units : run'[n] = 0 => step'[n] = "ended"
  <2>1. CASE Queue("manual")
    <3>1. run' = [run EXCEPT !["manual"] = runs + 1] /\ step' = [step EXCEPT !["manual"] = "queued"]
      BY <2>1 DEF Queue, Moved, Named
    <3>2. runs + 1 # 0
      BY RunAssumption DEF IInv, TypeOK
    <3> QED
      BY <3>1, <3>2 DEF IInv, TypeOK, Mine, Units
  <2>2. CASE UNCHANGED unit
    BY <2>2 DEF unit, Mine
  <2> QED
    BY <2>1, <2>2 DEF Command, Guard, Status, Run, Ran, Countdown, Trigger, Poll, Ask,
       Deadline, Hold
<1>4. ~blind' =>
        /\ pc'[u] \in {"countdown", "trigger"} => file'.run = prev'
        /\ pc'[u] \in {"poll", "ask"} => /\ file'.run \in {prev', own', 0}
                                         /\ received' => file'.run \in {own', 0}
  <2>1. CASE Reply(u) \/ \E c \in Commands : Hold(u, c)
    BY <2>1 DEF Reply, Hold, IInv, TypeOK
  <2>2. CASE Trigger(u)
    <3>1. ~received /\ pc[u] = "trigger"
      BY <2>2 DEF Trigger, IInv, Watching, Exclusive
    <3> QED
      BY <1>1, <2>1, <2>2, <3>1 DEF Trigger, Goto, IInv, TypeOK, Mine
  <2>3. CASE Poll(u)
    BY <1>1, <2>1, <2>3 DEF Poll, NewRun, Advance, Goto, bot, watch, IInv, TypeOK, Mine
  <2>4. CASE Guard(u)
    BY <1>1, <2>1, <2>4 DEF Guard, Advance, Goto, IInv, TypeOK
  <2>5. CASE Countdown(u) \/ Ask(u)
    BY <1>1, <2>1, <2>5 DEF Countdown, Ask, Advance, Goto, watch, IInv, TypeOK, Mine
  <2>6. CASE Status(u) \/ Run(u)
    BY <2>1, <2>6 DEF Status, Run, Advance, Goto, IInv, TypeOK
  <2> QED
    BY <2>1, <2>2, <2>3, <2>4, <2>5, <2>6 DEF Command, Ran, Deadline
<1> QED
  BY <1>2, <1>3, <1>4 DEF Mine

\* "To avoid confusing a terminal state from an earlier maintenance run with this one": the
\* outcome announced is that of the run that was asked for, whatever fails and however often
\* the bot is restarted, unless a unit works while the update counts down or another run
\* than its own works while it watches, or the file could not be read for the update.
THEOREM OwnUnlessDisturbed == Spec /\ []Undisturbed => OutcomeIsOwn
<1>1. Init => Mine
  BY DEF Init, Mine
<1>2. IInv /\ Mine /\ Undisturbed /\ [Next]_vars => Mine'
  <2> SUFFICES ASSUME IInv, Mine, Undisturbed, [Next]_vars PROVE Mine'
    OBVIOUS
  <2>1. CASE UNCHANGED vars
    BY <2>1 DEF vars, bot, unit, state, watch, Mine
  <2>2. CASE Restart
    BY <2>2 DEF Restart, unit, state, Mine
  <2> QED
    BY <2>1, <2>2, MineUnits, MineBot DEF Next
<1>3. IInv /\ Mine /\ Undisturbed /\ [Next]_vars => [told' # told /\ told' # 0 => told' = own]_vars
  <2> SUFFICES ASSUME IInv, Mine, Undisturbed, Next, told' # told, told' # 0 PROVE told' = own
    OBVIOUS
  <2>1. PICK u \in Users : Poll(u)
    BY DEF Next, Activate, Script, Configure, Flock, Proceed, Trap, Exit, Killed, Command, Guard, Status,
       Run, Ran, Countdown, Trigger, Ask, Deadline, Hold, Restart
  <2> QED
    BY <2>1 DEF Poll, NewRun, Mine, Undisturbed
<1> QED
  BY <1>1, <1>2, <1>3, IInvAlways, PTL DEF Spec, OutcomeIsOwn
=============================================================================
