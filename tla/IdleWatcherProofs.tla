------------------------- MODULE IdleWatcherProofs -------------------------
(***************************************************************************)
(* The safety of the idle watcher, for every timeout and any number of     *)
(* invocations of the server.                                              *)
(***************************************************************************)
EXTENDS IdleWatcher, TLAPS

\* What a watcher knows: its record in memory or, once it has ended, the one on disk.
Record == IF pc = "ended" THEN disk ELSE state

\* A record names an invocation that has been.
Past == \A r \in {state, disk} : r.life = None \/ r.life <= life

\* Only a server that is up answers.
Answers == rest => active

Asking == {"lock", "recheck", "save", "final", "ask"}

\* A server that is known to have accepted is recorded so, and not on its way to be asked again.
Known == heard > 0 /\ ~lost /\ active =>
           Record.life = life /\ Record.requested /\ pc \notin Asking \cup {"poll"}

\* The timer of the invocation that runs has seen no more minutes than there were.
Judged(r) == r.life = life /\ ~lost
Timer     == Judged(Record) /\ Record.idle # None => Record.idle <= quiet
Pass      == Judged(state) /\ pc \in {"lifecycle", "poll"} =>
               top.since <= quiet /\ (top.due /\ state.idle # None => quiet = Timeout)
Verdict   == Judged(state) /\ pc \in Asking => quiet = Timeout

\* A grace keeps a new invocation from being judged in the pass that finds it.
Timed == Grace > 0 => Timer /\ Pass /\ Verdict

IInv == TypeOK /\ AskedOnce /\ Past /\ Answers /\ Known /\ Timed

-----------------------------------------------------------------------------
(* Facts about records and their age.                                      *)

LEMMA OlderKeeps == \A t \in 0..Timeout : Older(t) \in 0..Timeout /\ Older(t) # None /\ t <= Older(t)
BY TimeAssumption, NoneAssumption DEF Older

LEMMA OlderOrder == \A a, b \in 0..Timeout : a <= b => Older(a) <= Older(b)
BY TimeAssumption, NoneAssumption DEF Older

LEMMA OlderFull == Older(Timeout) = Timeout /\ Older(None) = None
BY DEF Older

LEMMA AgedKeeps ==
  ASSUME NEW r \in Records
  PROVE  /\ Aged(r) \in Records /\ Aged(r).life = r.life /\ Aged(r).requested = r.requested
         /\ Aged(r).idle = Older(r.idle)
<1>1. Older(r.idle) \in Times
  BY OlderKeeps, OlderFull DEF Records, Times
<1>2. (IF r.grace = 0 THEN 0 ELSE r.grace - 1) \in 0..Grace
  BY TimeAssumption DEF Records
<1> QED BY <1>1, <1>2 DEF Aged, Records

\* The records a pass makes of another.
LEMMA FreshType == ASSUME NEW l \in Lives \cup {None}
                   PROVE  /\ Fresh(l, Grace) \in Records /\ Fresh(l, 0) \in Records
                          /\ Fresh(l, Grace).life = l /\ Fresh(l, Grace).idle = None
BY TimeAssumption DEF Fresh, Records, Times

LEMMA IdleType ==
  ASSUME NEW r \in Records, NEW t \in Times
  PROVE  LET s == [r EXCEPT !.idle = t]
         IN  s \in Records /\ s.life = r.life /\ s.requested = r.requested /\ s.idle = t
BY DEF Records

LEMMA NotedType == ASSUME NEW r \in Records
                   PROVE  /\ Noted(r) \in Records /\ Noted(r).life = r.life /\ Noted(r).requested
                          /\ Noted(r).idle = r.idle
BY DEF Records, Noted

\* What the invariant says of the types, for citing.
LEMMA Types == ASSUME IInv
               PROVE  /\ life \in 1..MaxLife /\ life # None /\ quiet \in 0..Timeout /\ asked \in 0..2 /\ heard \in 0..2
                      /\ state \in Records /\ disk \in Records /\ top.since \in 0..Timeout
                      /\ Timeout \in 0..Timeout /\ 0 \in 0..Timeout /\ None \in Times
                      /\ {0, Timeout} \subseteq Times /\ None \in Lives \cup {None}
BY TimeAssumption, NoneAssumption DEF IInv, TypeOK, Lives, Times

-----------------------------------------------------------------------------

LEMMA InitIInv == Init => IInv
<1> SUFFICES ASSUME Init PROVE IInv
  OBVIOUS
<1>1. TypeOK
  <2>1. Offline \in Records
    BY FreshType DEF Offline
  <2>2. life \in Lives /\ quiet \in 0..Timeout /\ asked \in 0..2 /\ heard \in 0..2
        /\ top \in [since : 0..Timeout, due : BOOLEAN, graced : BOOLEAN]
    BY TimeAssumption DEF Init, Lives
  <2> QED BY <2>1, <2>2 DEF Init, TypeOK, Labels, Modes
<1>2. AskedOnce /\ Answers /\ Known
  BY DEF Init, AskedOnce, Answers, Known
<1>3. Offline.life = None /\ Offline.idle = None
  BY DEF Offline, Fresh
<1>4. Past /\ Timed
  BY <1>3, NoneAssumption DEF Init, Past, Timed, Timer, Pass, Verdict, Judged, Record, Asking
<1> QED BY <1>1, <1>2, <1>4 DEF IInv

\* A new invocation: no record names it yet.
LEMMA BootStep == ASSUME IInv, Boot PROVE IInv'
<1>0. /\ life' = life + 1 /\ life < MaxLife /\ asked' = 0 /\ heard' = 0 /\ quiet' = 0 /\ rest' = FALSE /\ lost' = FALSE
      /\ active' = TRUE /\ people' = FALSE /\ UNCHANGED <<busy, mode, pc, top, state, disk>>
  BY DEF Boot
<1>1. TypeOK'
  <2>1. life' \in Lives /\ asked' \in 0..2 /\ heard' \in 0..2 /\ quiet' \in 0..Timeout
    BY <1>0, Types, TimeAssumption DEF Lives
  <2>2. /\ active' \in BOOLEAN /\ people' \in BOOLEAN /\ rest' \in BOOLEAN /\ lost' \in BOOLEAN
        /\ busy' \in BOOLEAN
    BY <1>0 DEF IInv, TypeOK
  <2> QED BY <1>0, <2>1, <2>2 DEF IInv, TypeOK
<1>2. AskedOnce' /\ Answers' /\ Known'
  BY <1>0 DEF AskedOnce, Answers, Known
<1>3. Past' /\ state.life # life' /\ disk.life # life'
  BY <1>0, NoneAssumption, TimeAssumption DEF IInv, TypeOK, Past, Lives, Records
<1>4. Timed'
  BY <1>0, <1>3 DEF Timed, Timer, Pass, Verdict, Judged, Record
<1> QED BY <1>1, <1>2, <1>3, <1>4 DEF IInv

\* The world around moves, but no invocation begins.
LEMMA WorldStep ==
  ASSUME IInv, active' \in BOOLEAN, rest' \in BOOLEAN, people' \in BOOLEAN, busy' \in BOOLEAN,
         active' => active, rest' => active',
         UNCHANGED <<life, mode, pc, top, state, disk, quiet, asked, heard, lost>>
  PROVE  IInv'
<1>1. TypeOK'
  BY DEF IInv, TypeOK
<1>2. AskedOnce' /\ Answers' /\ Known' /\ Past'
  BY DEF IInv, AskedOnce, Answers, Known, Past, Record
<1>3. Timed'
  BY DEF IInv, Timed, Timer, Pass, Verdict, Judged, Record
<1> QED BY <1>1, <1>2, <1>3 DEF IInv

\* A minute passes, for every stamp alike.
LEMMA TickStep == ASSUME IInv, Tick PROVE IInv'
<1>0. /\ state' = Aged(state) /\ disk' = Aged(disk) /\ quiet' = Older(quiet)
      /\ top' = [top EXCEPT !.since = Older(@)] /\ UNCHANGED <<World, busy, mode, pc, asked, heard, lost>>
  BY DEF Tick
<1>1. /\ state' \in Records /\ state'.life = state.life /\ state'.requested = state.requested
      /\ state'.idle = Older(state.idle)
      /\ disk' \in Records /\ disk'.life = disk.life /\ disk'.requested = disk.requested
      /\ disk'.idle = Older(disk.idle)
  BY <1>0, AgedKeeps, Types
<1>2. /\ quiet' \in 0..Timeout /\ top'.since = Older(top.since) /\ top'.due = top.due
      /\ top' \in [since : 0..Timeout, due : BOOLEAN, graced : BOOLEAN]
  BY <1>0, OlderKeeps DEF IInv, TypeOK
<1>3. TypeOK'
  BY <1>0, <1>1, <1>2 DEF IInv, TypeOK, World
<1>4. AskedOnce' /\ Answers' /\ Known' /\ Past'
  BY <1>0, <1>1 DEF IInv, AskedOnce, Answers, Known, Past, Record, World
<1>5. Timed'
  <2> SUFFICES ASSUME Grace > 0 PROVE Timer' /\ Pass' /\ Verdict'
    BY DEF Timed
  <2>1. Timer /\ Pass /\ Verdict
    BY DEF IInv, Timed
  <2>2. state.idle \in 0..Timeout \cup {None} /\ disk.idle \in 0..Timeout \cup {None}
        /\ Record'.idle = Older(Record.idle) /\ Record'.life = Record.life
        /\ Record.idle \in 0..Timeout \cup {None}
    BY <1>0, <1>1, Types DEF Records, Times, Record
  <2>3. Timer'
    BY <1>0, <2>1, <2>2, OlderOrder, OlderFull, Types DEF Timer, Judged, World
  <2>4. Pass'
    <3>1. top.since <= quiet => top'.since <= quiet'
      BY <1>0, <1>2, OlderOrder, Types
    <3>2. quiet = Timeout => quiet' = Timeout
      BY <1>0, OlderFull
    <3>3. state'.idle # None => state.idle # None
      BY <1>1, OlderFull
    <3> QED BY <1>0, <1>1, <1>2, <2>1, <3>1, <3>2, <3>3 DEF Pass, Judged, World
  <2>5. Verdict'
    BY <1>0, <1>1, <2>1, OlderFull DEF Verdict, Judged, World
  <2> QED BY <2>3, <2>4, <2>5
<1> QED BY <1>3, <1>4, <1>5 DEF IInv

-----------------------------------------------------------------------------
(* Steps of a pass that write nothing.                                     *)

\* The watcher has not learned that the invocation accepted a shutdown, or it is not known any more.
Unasked == ~(heard > 0 /\ ~lost /\ active)

LEMMA PassUnasked == ASSUME IInv, pc \in Asking \cup {"poll"} PROVE Unasked
BY DEF IInv, Known, Unasked

\* From one question of a pass to the next, or to its end.
LEMMA PassStep ==
  ASSUME IInv, pc \in Asking \cup {"poll"}, pc' \in Asking \cup {"write"},
         UNCHANGED <<World, busy, mode, top, disk, asked, heard, lost>>,
         state' \in Records, state'.life = state.life, quiet' \in 0..Timeout,
         Grace > 0 /\ Judged(state) => /\ state'.idle # None => state'.idle <= quiet'
                                       /\ pc' \in Asking => quiet' = Timeout
  PROVE  IInv'
<1>1. TypeOK'
  BY DEF IInv, TypeOK, World, Asking, Labels
<1>2. AskedOnce' /\ Past' /\ Answers' /\ Known'
  BY PassUnasked DEF IInv, AskedOnce, Past, Answers, Known, Unasked, World
<1>3. Timed'
  BY DEF Timed, Timer, Pass, Verdict, Judged, Record, World, Asking
<1> QED BY <1>1, <1>2, <1>3 DEF IInv

\* An answer other than "nobody plays" ends the question, and the timer.
LEMMA DisturbedStep ==
  ASSUME IInv, pc \in Asking \cup {"poll"}, state' = [state EXCEPT !.idle = None], Unseen,
         Goto("write"), UNCHANGED <<World, busy, mode, top, disk, asked, heard, lost>>
  PROVE  IInv'
<1>1. state' \in Records /\ state'.life = state.life /\ state'.idle = None
  BY IdleType, Types
<1> QED BY <1>1, PassStep, Types DEF Unseen, Goto, Asking

\* What the invariant says of the pass when it is judged.
LEMMA TimedFacts == ASSUME IInv, Grace > 0, Judged(state), pc # "ended"
                    PROVE  /\ state.idle # None => state.idle <= quiet
                           /\ pc \in Asking => quiet = Timeout
                           /\ pc \in {"lifecycle", "poll"} =>
                                top.since <= quiet /\ (top.due /\ state.idle # None => quiet = Timeout)
BY DEF IInv, Timed, Timer, Pass, Verdict, Record

\* A step that keeps the record, within a verdict or to the end of the pass.
LEMMA KeptStep ==
  ASSUME IInv, pc \in Asking, pc' \in Asking \cup {"write"},
         UNCHANGED <<World, busy, mode, top, state, disk, quiet, asked, heard, lost>>
  PROVE  IInv'
<1>1. pc # "ended"
  BY DEF Asking
<1> QED BY <1>1, PassStep, TimedFacts, Types

LEMMA PollStep == ASSUME IInv, Poll PROVE IInv'
<1>0. pc = "poll" /\ UNCHANGED <<World, busy, mode, top, disk, asked, heard, lost>>
  BY DEF Poll
<1>1. CASE Disturbed /\ Unseen /\ Goto("write")
  BY <1>0, <1>1, DisturbedStep DEF Disturbed, AfterPlayer, AfterFault
<1>2. CASE /\ Seen /\ state' = [state EXCEPT !.idle = IF @ = None THEN top.since ELSE @]
           /\ Goto(IF state.idle # None /\ top.due THEN "lock" ELSE "write")
  <2> DEFINE t == IF state.idle = None THEN top.since ELSE state.idle
  <2>1. t \in Times /\ state' = [state EXCEPT !.idle = t]
    BY <1>2, Types DEF Times, Records
  <2>2. state' \in Records /\ state'.life = state.life /\ state'.idle = t
    BY <2>1, IdleType, Types
  <2>3. Grace > 0 /\ Judged(state) => t <= quiet /\ (pc' \in Asking => quiet = Timeout)
    BY <1>0, <1>2, TimedFacts DEF Goto, Asking
  <2> QED BY <1>0, <1>2, <2>2, <2>3, PassStep, Types DEF Goto, Asking, Seen
<1> QED BY <1>1, <1>2 DEF Poll

LEMMA TakeLockStep == ASSUME IInv, TakeLock PROVE IInv'
BY KeptStep DEF TakeLock, Goto, Asking

LEMMA RecheckStep == ASSUME IInv, Recheck PROVE IInv'
<1>0. pc = "recheck" /\ UNCHANGED <<World, busy, mode, top, disk, asked, heard, lost>>
  BY DEF Recheck
<1>1. CASE Disturbed /\ Unseen /\ Goto("write")
  BY <1>0, <1>1, DisturbedStep DEF Disturbed, AfterPlayer, AfterFault, Asking
<1>2. CASE Seen /\ state' = [state EXCEPT !.idle = 0] /\ Goto("write")
  <2>1. state' \in Records /\ state'.life = state.life /\ state'.idle = 0
    BY <1>2, IdleType, Types
  <2>2. state'.idle <= quiet
    BY <2>1, Types
  <2> QED BY <1>0, <1>2, <2>1, <2>2, PassStep, Types DEF Goto, Asking, Seen
<1>3. CASE Seen /\ UNCHANGED state /\ Goto("save")
  BY <1>0, <1>3, KeptStep DEF Goto, Asking, Seen
<1> QED BY <1>1, <1>2, <1>3 DEF Recheck

LEMMA SaveStep == ASSUME IInv, Save PROVE IInv'
<1>0. pc = "save" /\ UNCHANGED <<World, busy, mode, top, disk, asked, heard, lost>>
  BY DEF Save
<1>1. CASE Goto("final") /\ UNCHANGED <<state, quiet>>
  BY <1>0, <1>1, KeptStep DEF Goto, Asking
<1>2. CASE state' = AfterFault(state) /\ Unseen /\ Goto("write")
  BY <1>0, <1>2, DisturbedStep DEF AfterFault, Asking
<1> QED BY <1>1, <1>2 DEF Save

LEMMA FinalStep == ASSUME IInv, Final PROVE IInv'
<1>0. pc = "final" /\ UNCHANGED <<World, busy, mode, top, disk, asked, heard, lost>>
  BY DEF Final
<1>1. CASE Disturbed /\ Unseen /\ Goto("write")
  BY <1>0, <1>1, DisturbedStep DEF Disturbed, AfterPlayer, AfterFault, Asking
<1>2. CASE Seen /\ UNCHANGED state /\ Goto("ask")
  BY <1>0, <1>2, KeptStep DEF Goto, Asking, Seen
<1> QED BY <1>1, <1>2 DEF Final

\* Only who answers is told to shut down, and it is up: it has not accepted before that the
\* watcher knows of, or that is lost.
LEMMA AskStep == ASSUME IInv, Ask PROVE IInv'
<1>0. pc = "ask" /\ Goto("write") /\ UNCHANGED <<World, busy, mode, top, disk, lost>>
  BY DEF Ask
<1>1. CASE rest /\ Told(TRUE) /\ state' = Noted(state) /\ Seen
  <2>1. /\ state' \in Records /\ state'.life = state.life /\ state'.requested
        /\ state'.idle = state.idle
    BY <1>1, NotedType, Types
  <2>2. Unasked /\ active
    BY <1>0, <1>1, PassUnasked DEF Asking, IInv, Answers
  <2>3. asked' \in 0..2 /\ heard' \in 0..2 /\ (heard' <= 1 \/ lost)
    BY <1>1, <2>2, Types DEF Unasked, Told, OneMore
  <2>4. heard' > 0 /\ ~lost => state.life = life
    BY <1>1, <2>2, Types DEF Unasked, Told, OneMore
  <2>5. TypeOK'
    BY <1>0, <1>1, <2>1, <2>3 DEF IInv, TypeOK, World, Goto, Labels, Seen
  <2>6. AskedOnce' /\ Past' /\ Answers'
    BY <1>0, <2>1, <2>3 DEF IInv, AskedOnce, Past, Answers, World
  <2>7. Known'
    BY <1>0, <2>1, <2>4 DEF Known, Record, Goto, Asking, World
  <2>8. Timed'
    BY <1>0, <1>1, <2>1, TimedFacts DEF Timed, Timer, Pass, Verdict, Judged, Record, World, Goto,
       Asking, Seen
  <2> QED BY <2>5, <2>6, <2>7, <2>8 DEF IInv
<1>2. CASE rest /\ Told(FALSE) /\ state' = AfterFault(state) /\ Unseen
  <2>1. state' \in Records /\ state'.life = state.life /\ state'.idle = None
    BY <1>2, IdleType, Types DEF AfterFault
  <2>2. Unasked /\ active
    BY <1>0, <1>2, PassUnasked DEF Asking, IInv, Answers
  <2>3. asked' \in 0..2 /\ heard' \in 0..2 /\ (heard' = 0 \/ lost)
    BY <1>2, <2>2, Types DEF Unasked, Told, OneMore
  <2>4. TypeOK'
    BY <1>0, <1>2, <2>1, <2>3, Types DEF IInv, TypeOK, World, Goto, Labels, Unseen
  <2>5. AskedOnce' /\ Past' /\ Answers' /\ Known'
    BY <1>0, <2>1, <2>3 DEF IInv, AskedOnce, Past, Answers, Known, World
  <2>6. Timed'
    BY <1>0, <2>1 DEF Timed, Timer, Pass, Verdict, Judged, Record, World, Goto, Asking
  <2> QED BY <2>4, <2>5, <2>6 DEF IInv
<1>3. CASE state' = AfterFault(state) /\ Unseen /\ UNCHANGED <<asked, heard>>
  BY <1>0, <1>3, DisturbedStep DEF AfterFault, Asking
<1> QED BY <1>1, <1>2, <1>3 DEF Ask

LEMMA LookStep == ASSUME IInv, Look PROVE IInv'
<1>0. /\ pc = "loop" /\ pc' = "lifecycle" /\ top' = [since |-> 0, due |-> state.idle = Timeout, graced |-> state.grace > 0]
      /\ UNCHANGED <<World, busy, mode, state, disk, quiet, asked, heard, lost>>
  BY DEF Look, Goto
<1>1. TypeOK'
  <2>1. top' \in [since : 0..Timeout, due : BOOLEAN, graced : BOOLEAN]
    BY <1>0, Types
  <2> QED BY <1>0, <2>1 DEF IInv, TypeOK, World, Labels
<1>2. AskedOnce' /\ Past' /\ Answers' /\ Known'
  BY <1>0 DEF IInv, AskedOnce, Past, Answers, Known, Record, World, Asking
<1>3. Timed'
  <2> SUFFICES ASSUME Grace > 0 PROVE Timer' /\ Pass' /\ Verdict'
    BY DEF Timed
  <2>1. Timer' /\ Verdict'
    BY <1>0 DEF IInv, Timed, Timer, Verdict, Judged, Record, World, Asking
  <2>2. ASSUME Judged(state) PROVE 0 <= quiet /\ (state.idle = Timeout => quiet = Timeout)
    BY <1>0, <2>2, TimedFacts, Types, NoneAssumption DEF Records, Times
  <2>3. Pass'
    BY <1>0, <2>2, Types DEF Pass, Judged, World
  <2> QED BY <2>1, <2>3
<1> QED BY <1>1, <1>2, <1>3 DEF IInv

LEMMA WakeStep == ASSUME IInv, Wake PROVE IInv'
<1>0. pc = "sleep" /\ pc' = "loop" /\ UNCHANGED <<World, busy, mode, top, state, disk, quiet, asked, heard, lost>>
  BY DEF Wake, Goto
<1>1. TypeOK'
  BY <1>0 DEF IInv, TypeOK, World, Labels
<1>2. AskedOnce' /\ Past' /\ Answers' /\ Known'
  BY <1>0 DEF IInv, AskedOnce, Past, Answers, Known, Record, World, Asking
<1>3. Timed'
  BY <1>0 DEF IInv, Timed, Timer, Pass, Verdict, Judged, Record, World, Asking
<1> QED BY <1>1, <1>2, <1>3 DEF IInv

-----------------------------------------------------------------------------
(* Steps that write, and those that end the watcher or start it again.     *)

\* A record that may be written: what is on disk afterwards is the record, or the loss is known.
LEMMA WriteStep ==
  ASSUME IInv, pc # "ended", NEW r \in Records, NEW l \in {"sleep", "poll"}, Write(r, l),
         UNCHANGED <<World, busy, mode, top, quiet>>, asked' \in 0..2, heard' \in 0..2, heard' <= heard,
         r.life = None \/ r.life <= life,
         heard' > 0 /\ ~lost /\ ~lost' /\ active => r.life = life /\ r.requested /\ l = "sleep",
         Grace > 0 => l = "sleep" /\ (Judged(r) /\ r.idle # None => r.idle <= quiet)
  PROVE  IInv'
<1>1. /\ state' = r /\ disk' \in {r, disk} /\ pc' \in {l, "ended"} /\ lost' \in BOOLEAN
      /\ lost => lost'
      /\ ~lost' /\ pc' = "ended" => disk' = r
  <2>1. CASE disk' = r /\ pc' = l /\ UNCHANGED lost
    BY <2>1 DEF IInv, TypeOK, Write
  <2>2. CASE pc' = "ended" /\ lost' = (lost \/ r # disk) /\ UNCHANGED disk
    BY <2>2 DEF IInv, TypeOK, Write
  <2> QED BY <2>1, <2>2 DEF Write, Saved, End, Goto
<1>2. ~lost' => Record' = r
  BY <1>1 DEF Record
<1>3. TypeOK'
  BY <1>1, Types DEF IInv, TypeOK, World, Labels
<1>4. AskedOnce'
  BY <1>1, Types DEF IInv, AskedOnce
<1>5. Past' /\ Answers'
  BY <1>1 DEF IInv, Past, Answers, World
<1>6. Known'
  BY <1>1, <1>2 DEF Known, Asking, World
<1>7. Timed'
  BY <1>1, <1>2 DEF Timed, Timer, Pass, Verdict, Judged, World, Asking
<1> QED BY <1>3, <1>4, <1>5, <1>6, <1>7 DEF IInv

\* What is forgotten belongs to a server that is down, or the watcher is disabled.
LEMMA ForgetStep == ASSUME IInv, Forget PROVE IInv'
<1>1. /\ pc = "loop" /\ (mode = "disabled" \/ ~active) /\ Write(Offline, "sleep")
      /\ UNCHANGED <<World, busy, mode, top, quiet>>
  BY DEF Forget
<1>2. Offline \in Records /\ Offline.life = None
  BY FreshType DEF Offline, Fresh
<1>3. asked' \in 0..2 /\ heard' \in 0..2 /\ heard' <= heard
  BY Types DEF Forget
<1>4. ~(heard' > 0 /\ ~lost /\ ~lost' /\ active)
  <2>1. CASE ~active
    BY <2>1
  <2>2. CASE mode = "disabled" /\ disk' = Offline
    BY <2>2 DEF Forget
  <2>3. CASE mode = "disabled" /\ disk' # Offline
    BY <1>1, <2>3 DEF Write, Saved, End
  <2> QED BY <1>1, <2>1, <2>2, <2>3
<1>5. ~Judged(Offline)
  BY <1>2, Types DEF Judged
<1> HIDE DEF Offline
<1> QED BY <1>1, <1>2, <1>3, <1>4, <1>5, WriteStep

\* The end of a pass writes what the pass has found.
LEMMA EndPassStep == ASSUME IInv, EndPass PROVE IInv'
<1>1. pc = "write" /\ Write(state, "sleep") /\ UNCHANGED <<World, busy, mode, top, quiet, asked, heard>>
  BY DEF EndPass
<1>2. state.life = None \/ state.life <= life
  BY DEF IInv, Past
<1>3. heard > 0 /\ ~lost /\ active => state.life = life /\ state.requested
  BY <1>1 DEF IInv, Known, Record
<1> QED BY <1>1, <1>2, <1>3, WriteStep, TimedFacts, Types

\* A new lifecycle starts a record of its own; one that is known keeps the record.
LEMMA LifecycleStep == ASSUME IInv, Lifecycle PROVE IInv'
<1>0. pc = "lifecycle" /\ UNCHANGED <<World, busy, mode, top, quiet, asked, heard>>
  BY DEF Lifecycle
<1>1. CASE /\ state.life = life /\ UNCHANGED <<state, disk, lost>>
           /\ Goto(IF top.graced \/ state.requested THEN "sleep" ELSE "poll")
  <2>1. TypeOK'
    BY <1>0, <1>1 DEF IInv, TypeOK, World, Labels, Goto
  <2>2. AskedOnce' /\ Past' /\ Answers' /\ Known'
    BY <1>0, <1>1 DEF IInv, AskedOnce, Past, Answers, Known, Record, World, Asking, Goto
  <2>3. Timed'
    BY <1>0, <1>1 DEF IInv, Timed, Timer, Pass, Verdict, Judged, Record, World, Asking, Goto
  <2> QED BY <2>1, <2>2, <2>3 DEF IInv
<1>2. ASSUME NEW l \in IF active THEN {life} ELSE {life, None}, l = None \/ l # state.life,
             Write(Named(l), IF Grace > 0 THEN "sleep" ELSE "poll")
      PROVE  IInv'
  <2>1. l \in Lives \cup {None} /\ (l = None \/ l <= life)
    BY <1>2, Types DEF Lives
  <2>2. Named(l) \in Records /\ Named(l).life = l /\ Named(l).idle = None
    BY <2>1, FreshType DEF Named
  <2>3. ~(heard > 0 /\ ~lost /\ active)
    BY <1>0, <1>2, Types DEF IInv, Known, Record
  <2> HIDE DEF Named
  <2> QED BY <1>0, <1>2, <2>1, <2>2, <2>3, WriteStep, Types
<1> QED BY <1>1, <1>2 DEF Lifecycle

LEMMA StopStep == ASSUME IInv, Stop PROVE IInv'
<1>0. /\ pc # "ended" /\ pc' = "ended" /\ lost' = (lost \/ state # disk)
      /\ UNCHANGED <<World, busy, mode, top, state, disk, quiet, asked, heard>>
  BY DEF Stop, End, Goto
<1>1. lost' \in BOOLEAN /\ (lost => lost') /\ (~lost' => Record' = Record)
  BY <1>0 DEF IInv, TypeOK, Record
<1>2. TypeOK'
  BY <1>0, <1>1 DEF IInv, TypeOK, World, Labels
<1>3. AskedOnce' /\ Past' /\ Answers' /\ Known'
  BY <1>0, <1>1 DEF IInv, AskedOnce, Past, Answers, Known, World, Asking
<1>4. Timed'
  BY <1>0, <1>1 DEF IInv, Timed, Timer, Pass, Verdict, Judged, World, Asking
<1> QED BY <1>2, <1>3, <1>4 DEF IInv

LEMMA StartStep == ASSUME IInv, Start PROVE IInv'
<1>0. /\ pc = "ended" /\ pc' = "loop" /\ mode' \in Modes /\ state' = disk
      /\ UNCHANGED <<World, busy, top, disk, quiet, asked, heard, lost>>
  BY DEF Start, Goto, Loaded
<1>1. Record' = Record
  BY <1>0 DEF Record
<1>2. TypeOK'
  BY <1>0 DEF IInv, TypeOK, World, Labels
<1>3. AskedOnce' /\ Past' /\ Answers' /\ Known'
  BY <1>0, <1>1 DEF IInv, AskedOnce, Past, Answers, Known, World, Asking
<1>4. Timed'
  BY <1>0, <1>1 DEF IInv, Timed, Timer, Pass, Verdict, Judged, World, Asking
<1> QED BY <1>2, <1>3, <1>4 DEF IInv

LEMMA NextIInv == IInv /\ [Next]_vars => IInv'
<1> SUFFICES ASSUME IInv, [Next]_vars PROVE IInv'
  OBVIOUS
<1>1. CASE UNCHANGED vars
  <2>1. TypeOK' /\ AskedOnce' /\ Past' /\ Answers' /\ Known'
    BY <1>1 DEF vars, IInv, TypeOK, AskedOnce, Past, Answers, Known, Record
  <2>2. Timed'
    BY <1>1 DEF vars, IInv, Timed, Timer, Pass, Verdict, Judged, Record
  <2> QED BY <2>1, <2>2 DEF IInv
<1>2. CASE Boot
  BY <1>2, BootStep
<1>3. CASE Close \/ Answering \/ Player \/ OtherOperation
  <2>0. /\ active \in BOOLEAN /\ rest \in BOOLEAN /\ people \in BOOLEAN /\ busy \in BOOLEAN
        /\ rest => active
    BY DEF IInv, TypeOK, Answers
  <2>1. CASE Close
    BY <2>0, <2>1, WorldStep DEF Close
  <2>2. CASE Answering
    BY <2>0, <2>2, WorldStep DEF Answering
  <2>3. CASE Player
    BY <2>0, <2>3, WorldStep DEF Player
  <2>4. CASE OtherOperation
    BY <2>0, <2>4, WorldStep DEF OtherOperation, World
  <2> QED BY <1>3, <2>1, <2>2, <2>3, <2>4
<1>4. CASE Tick
  BY <1>4, TickStep
<1>5. CASE Watcher
  BY <1>5, ForgetStep, LookStep, LifecycleStep, PollStep, TakeLockStep, RecheckStep, SaveStep,
     FinalStep, AskStep, EndPassStep, WakeStep DEF Watcher
<1>6. CASE Stop \/ Start
  BY <1>6, StopStep, StartStep
<1> QED BY <1>1, <1>2, <1>3, <1>4, <1>5, <1>6 DEF Next

\* The inductive invariant holds in every reachable state of the watcher.
THEOREM IInvAlways == Spec => []IInv
BY InitIInv, NextIInv, PTL DEF Spec

-----------------------------------------------------------------------------
(* The properties of the run.                                              *)

\* The record, in memory and on disk, and the bookkeeping keep their types.
THEOREM TypeCorrect == Spec => []TypeOK
<1>1. IInv => TypeOK
  BY DEF IInv
<1> QED BY <1>1, IInvAlways, PTL

\* An invocation known to have accepted a shutdown is never asked again, across restarts of the
\* watcher, unless one of them lost it.
THEOREM AlwaysAskedOnce == Spec => []AskedOnce
<1>1. IInv => AskedOnce
  BY DEF IInv
<1> QED BY <1>1, IInvAlways, PTL

\* With a grace, however short, a shutdown follows a whole window in which nobody played.
THEOREM AlwaysJustified == ASSUME Grace > 0 PROVE Spec => ShutdownJustified
<1>1. IInv /\ [Next]_vars => [asked' > asked => quiet = Timeout \/ lost]_vars
  <2> SUFFICES ASSUME IInv, Next, asked' > asked PROVE quiet = Timeout \/ lost
    OBVIOUS
  <2>1. CASE Ask
    <3>1. pc = "ask" /\ state.life = life
      BY <2>1, Types DEF Ask, Told
    <3> QED BY <3>1, TimedFacts DEF Judged, Asking
  <2>2. CASE ~Ask
    <3>1. asked' = asked \/ asked' = 0
      BY <2>2 DEF Next, Boot, Close, Answering, Player, OtherOperation, Tick, Watcher, Forget, Look,
         Lifecycle, Poll, TakeLock, Recheck, Save, Final, EndPass, Wake, Stop, Start
    <3> QED BY <3>1, Types
  <2> QED BY <2>1, <2>2
<1> QED BY <1>1, IInvAlways, PTL DEF Spec, ShutdownJustified
=============================================================================
