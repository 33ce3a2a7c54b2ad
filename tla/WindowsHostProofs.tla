------------------------- MODULE WindowsHostProofs -------------------------
(***************************************************************************)
(* The safety of a Windows host, for any number of request threads, every  *)
(* schedule and every length of the day.                                   *)
(***************************************************************************)
EXTENDS WindowsHost, TLAPS

\* What a process is doing fits the operation it carries out.
Fits(p) ==
  /\ pc[p] = "look" => op[p] = "start"
  /\ pc[p] \in {"lock", "locked"} => p \in Panel /\ op[p] \in Maintenance \cup {"stop", "restart"}
  /\ pc[p] = "examine" => op[p] \in Maintenance
  /\ pc[p] = "stop" => op[p] \in Maintenance \cup {"stop", "restart"}
  /\ pc[p] = "fallback" => p \in Panel /\ op[p] \in {"stop", "restart"}
  /\ pc[p] = "wait" => op[p] \in Maintenance \cup {"restart"}
  /\ pc[p] \in {"copy", "steam", "leave", "unflag"} => op[p] \in Maintenance
  /\ pc[p] = "script" => op[p] # "none"
  /\ pc[p] \in {"stop", "wait"} /\ op[p] \in Maintenance => was[p]
  /\ p = "bot" => op[p] # "restart"
Consistent == \A p \in Procs : Fits(p)

\* A thread of the panel holds the lock from its acquisition to the end of the work.
Owning  == {"locked", "stop", "fallback", "wait", "copy", "steam", "examine"}
Locked  == \A p \in Panel : pc[p] \in Owning => lock = p

\* One thread at a time is in maintenance, and the flag tells of it.
OneAtATime == \A p, q \in Panel : InMaintenance(p) /\ InMaintenance(q) => p = q

\* The updates begun belong to the past or to the slot that is marked.
Recorded == \A m \in 0..MaxTime : begun[m] # 0 =>
              m <= now /\ (m = now => attempted["update"] = ScheduleSlot(UpdateTime, now))

\* Somebody will start the game again, or say that it could not.
OnDuty(p) == \/ pc[p] = "wait"
             \/ pc[p] \in {"copy", "steam", "leave"} /\ was[p]
             \/ pc[p] = "script"
DebtServed == debt /\ ~excuse => \E p \in Procs : OnDuty(p)

IInv == TypeOK /\ Consistent /\ Locked /\ FlagScoped /\ OneAtATime /\ ColdCopy /\ OncePerSlot
        /\ Recorded /\ DebtServed

-----------------------------------------------------------------------------
(* What the helpers do to the process that calls them.                     *)

\* A slot is a number no greater than the time, or none.
LEMMA SlotType == ASSUME NEW s \in Schedules, NEW m \in 0..MaxTime
                  PROVE  ScheduleSlot(s, m) \in 0..MaxTime \cup {None}
<1>1. \A d \in Nat \ {0} : m \div d \in 0..MaxTime
  BY ClockAssumption, SMTT(30)
<1>2. CASE s.kind = "off"
  BY <1>2 DEF ScheduleSlot
<1>3. CASE s.kind = "daily"
  <2>1. HoursPerDay * MinutesPerHour \in Nat \ {0}
    BY ClockAssumption, SMTT(30)
  <2> QED BY <1>1, <1>3, <2>1 DEF ScheduleSlot
<1>4. CASE s.kind = "every"
  <2>1. MinutesPerHour * s.hours \in Nat \ {0}
    BY <1>4, ClockAssumption, SMTT(30) DEF Schedules
  <2> QED BY <1>1, <1>4, <2>1 DEF ScheduleSlot
<1> QED BY <1>2, <1>3, <1>4 DEF Schedules

\* One process moves, and the mark of the update stays.
Alone(p) ==
  /\ pc' \in [Procs -> Labels] /\ op' \in [Procs -> Operations \cup {"none"}]
  /\ was' \in [Procs -> BOOLEAN] /\ failed' \in [Procs -> Failures]
  /\ attempted' \in [{"update", "backup"} -> 0..MaxTime \cup {None}]
  /\ attempted'["update"] = attempted["update"]
  /\ \A q \in Procs \ {p} : pc'[q] = pc[q] /\ op'[q] = op[q] /\ was'[q] = was[q]

Went(p, l) == Alone(p) /\ pc'[p] = l /\ op'[p] = op[p] /\ was'[p] = was[p]
Over(p)    == Alone(p) /\ pc'[p] \in {"idle", "second", "dead"} /\ op'[p] = "none" /\ was'[p] = FALSE

LEMMA GotoWent == ASSUME TypeOK, NEW p \in Procs, NEW l \in Labels, Goto(p, l), Stay
                  PROVE  Went(p, l)
BY DEF TypeOK, Goto, Stay, Went, Alone

LEMMA EndOver == ASSUME TypeOK, NEW p \in Procs, NEW f, End(p, f) PROVE Over(p)
<1>1. ScheduleSlot(BackupTime, now) \in 0..MaxTime \cup {None}
  BY SlotType, ScheduleAssumption DEF TypeOK
<1>2. attempted' \in [{"update", "backup"} -> 0..MaxTime \cup {None}]
      /\ attempted'["update"] = attempted["update"]
  BY <1>1 DEF TypeOK, End
<1> QED BY <1>2 DEF TypeOK, End, Over, Alone, Labels, Failures

LEMMA FailLeaves == ASSUME TypeOK, NEW p \in Procs, NEW f \in {"error", "timeout"}, FailOf(p, f)
                    PROVE  \/ op[p] \in Maintenance /\ Went(p, "leave") /\ lock' = lock
                           \/ op[p] \notin Maintenance /\ Over(p) /\ lock' = Unlocked(p)
<1>1. CASE op[p] \in Maintenance
  BY <1>1 DEF TypeOK, Failures, FailOf, Goto, Went, Alone, Labels
<1>2. CASE op[p] \notin Maintenance
  BY <1>2, EndOver DEF FailOf
<1> QED BY <1>1, <1>2

-----------------------------------------------------------------------------
(* What a step of one process must keep for the invariant to be kept.      *)

\* The lock: taken when free, kept while the process works under it, released by its holder.
LockKept(p) == /\ lock' \in Panel \cup {None}
               /\ (p \in Panel /\ pc'[p] \in Owning) => lock' = p
               /\ lock \notin {None, p} => lock' = lock

\* The flag: raised over none, lowered by its owner, otherwise kept.
FlagKept(p) == /\ flag' \in BOOLEAN
               /\ \/ flag' = flag /\ (p \in Panel => InMaintenance(p)' = InMaintenance(p))
                  \/ p \in Panel /\ ~flag /\ flag' = InMaintenance(p)'
                  \/ p \in Panel /\ InMaintenance(p) /\ ~flag' /\ ~InMaintenance(p)'

\* The game: started under a free lock only, and down for who copies it.
GameKept(p) == /\ game' \in {"down", "up", "closing"}
               /\ game = "down" /\ lock # None => game' = "down"
               /\ p \in Panel /\ pc'[p] \in {"copy", "steam"} => game' = "down"

\* A debt is new to the process, or was another's already.
DebtKept(p) == /\ debt' \in BOOLEAN /\ excuse' \in BOOLEAN
               /\ debt' /\ ~excuse' => OnDuty(p)' \/ (debt /\ ~excuse /\ ~OnDuty(p))

\* Everything but the record of the updates that were begun.
Static == Consistent /\ Locked /\ FlagScoped /\ OneAtATime /\ ColdCopy /\ DebtServed

LEMMA StaticStep ==
  ASSUME IInv, NEW p \in Procs, Alone(p), Fits(p)', LockKept(p), FlagKept(p), GameKept(p), DebtKept(p)
  PROVE  Static'
<1> USE DEF IInv
<1>0. None \notin Panel /\ Panel \subseteq Procs
  BY ThreadAssumption DEF Panel, Procs
<1>1. Consistent'
  <2>1. ASSUME NEW q \in Procs, q # p PROVE Fits(q)'
    <3>1. Fits(q) /\ pc'[q] = pc[q] /\ op'[q] = op[q] /\ was'[q] = was[q]
      BY <2>1 DEF Consistent, Alone
    <3> QED BY <3>1 DEF Fits
  <2> QED BY <2>1 DEF Consistent
<1>2. Locked'
  BY <1>0 DEF Locked, LockKept, Alone, Owning
<1>3. FlagScoped' /\ OneAtATime'
  <2>1. \A q \in Panel \ {p} : InMaintenance(q)' = InMaintenance(q)
    BY <1>0 DEF InMaintenance, Alone
  <2> QED BY <1>0, <2>1 DEF FlagScoped, OneAtATime, FlagKept
<1>4. ColdCopy'
  BY <1>0, <1>2 DEF ColdCopy, Locked, GameKept, Alone, Owning
<1>5. DebtServed'
  BY DEF DebtServed, DebtKept, OnDuty, Alone
<1> QED BY <1>1, <1>2, <1>3, <1>4, <1>5 DEF Static

\* Time does not pass: the record stays as it is.
LEMMA RecordStep == ASSUME IInv, NEW p \in Procs, Alone(p), UNCHANGED Time
                    PROVE  OncePerSlot' /\ Recorded'
BY DEF IInv, OncePerSlot, Recorded, Time, Alone

LEMMA ProcessStep ==
  ASSUME IInv, NEW p \in Procs, Alone(p), Fits(p)', UNCHANGED Time,
         LockKept(p), FlagKept(p), GameKept(p), DebtKept(p)
  PROVE  IInv'
<1>1. TypeOK'
  BY DEF IInv, TypeOK, Alone, Time, LockKept, FlagKept, GameKept, DebtKept
<1> QED BY <1>1, StaticStep, RecordStep DEF IInv, Static

\* What the invariant says of one process.
LEMMA OfProcess ==
  ASSUME IInv, NEW p \in Procs
  PROVE  /\ TypeOK /\ Fits(p) /\ None \notin Panel /\ "bot" \notin Panel /\ Panel \subseteq Procs
         /\ p \notin Panel => p = "bot"
         /\ p \in Panel /\ pc[p] \in Owning => lock = p
         /\ p \in Panel /\ InMaintenance(p) => flag
         /\ p \in Panel /\ pc[p] \in {"copy", "steam"} => game = "down"
BY ThreadAssumption DEF IInv, Consistent, Locked, FlagScoped, ColdCopy, Panel, Procs

\* A process that goes on with its operation, the flag as it was.
LEMMA WentStep ==
  ASSUME IInv, NEW p \in Procs, NEW l \in Labels, Went(p, l), UNCHANGED <<flag, Time>>,
         Fits(p)', LockKept(p), GameKept(p), DebtKept(p),
         op[p] \in Maintenance => (InMaintenance(p)' = InMaintenance(p))
  PROVE  IInv'
<1>1. FlagKept(p)
  BY OfProcess DEF TypeOK, FlagKept, Went, InMaintenance
<1> QED BY <1>1, ProcessStep DEF Went

\* A process that ends an operation which is not maintenance, or not the panel's.
LEMMA OverStep ==
  ASSUME IInv, NEW p \in Procs, Over(p), UNCHANGED <<flag, Time>>, p \in Panel => op[p] \notin Maintenance,
         lock' \in {lock, Unlocked(p)}, GameKept(p), DebtKept(p)
  PROVE  IInv'
<1>1. FlagKept(p)
  BY OfProcess DEF TypeOK, FlagKept, Over, InMaintenance
<1>2. Fits(p)'
  BY DEF Over, Fits
<1>3. LockKept(p)
  BY OfProcess DEF TypeOK, LockKept, Over, Owning, Unlocked
<1> QED BY <1>1, <1>2, <1>3, ProcessStep DEF Over

\* An operation that fails, whatever has become of the game.
LEMMA FailStep ==
  ASSUME IInv, NEW p \in Procs, NEW f \in {"error", "timeout"}, FailOf(p, f), UNCHANGED <<flag, Time>>,
         pc[p] \in {"examine", "stop", "fallback", "wait", "copy", "steam", "script"},
         game' \in {"down", "up", "closing"}, game = "down" => game' = "down",
         debt' \in BOOLEAN, excuse' \in BOOLEAN,
         debt' /\ ~excuse' => debt /\ ~excuse /\ (OnDuty(p) => op[p] \in Maintenance /\ was[p])
  PROVE  IInv'
<1>0. TypeOK /\ Fits(p)
  BY OfProcess
<1>1. CASE op[p] \in Maintenance /\ Went(p, "leave") /\ lock' = lock
  <2>1. Fits(p)'
    BY <1>0, <1>1 DEF Fits, Went, Maintenance
  <2>2. LockKept(p) /\ GameKept(p)
    BY <1>0, <1>1 DEF TypeOK, LockKept, GameKept, Went, Owning
  <2>3. DebtKept(p)
    BY <1>1 DEF DebtKept, OnDuty, Went
  <2>4. InMaintenance(p)' = InMaintenance(p)
    BY <1>0, <1>1 DEF InMaintenance, Went, Fits, Maintenance
  <2> QED BY <1>1, <2>1, <2>2, <2>3, <2>4, WentStep DEF Labels
<1>2. CASE op[p] \notin Maintenance /\ Over(p) /\ lock' = Unlocked(p)
  <2>1. GameKept(p)
    BY <1>2 DEF GameKept, Over
  <2>2. DebtKept(p)
    BY <1>2 DEF DebtKept
  <2> QED BY <1>2, <2>1, <2>2, OverStep
<1> QED BY <1>0, <1>1, <1>2, FailLeaves

\* A step that leaves the game and its debt alone, from a place without duty.
LEMMA GameSame ==
  ASSUME IInv, NEW p \in Procs, UNCHANGED Game
  PROVE  /\ (p \in Panel /\ pc'[p] \in {"copy", "steam"} => game = "down") => GameKept(p)
         /\ (OnDuty(p) => OnDuty(p)') => DebtKept(p)
BY OfProcess DEF Game, GameKept, DebtKept, TypeOK

-----------------------------------------------------------------------------
(* The invariant, action by action.                                        *)

LEMMA RequestStep == ASSUME IInv, NEW p \in Procs, Request(p) PROVE IInv'
<1>0. TypeOK /\ Fits(p) /\ ~OnDuty(p) /\ UNCHANGED <<lock, flag, was, failed, attempted, Game, Time>>
  BY OfProcess DEF Request, OnDuty
<1>1. PICK o \in Operations \ (IF p = "bot" THEN {"restart"} ELSE {}) :
        Goto(p, First(p, o)) /\ op' = [op EXCEPT ![p] = o]
  BY DEF Request
<1>2. /\ pc'[p] = First(p, o) /\ op'[p] = o /\ was'[p] = was[p] /\ Alone(p)
      /\ First(p, o) \in {"look", "lock", "stop", "examine"} /\ pc[p] = "idle" /\ p # "scheduler"
  BY <1>0, <1>1, OfProcess DEF TypeOK, Request, Goto, First, Alone, Labels
<1>3. Fits(p)'
  BY <1>2, OfProcess DEF Fits, First, Operations, Maintenance
<1>4. LockKept(p) /\ GameKept(p) /\ DebtKept(p)
  BY <1>0, <1>2, OfProcess, GameSame DEF TypeOK, LockKept, Owning, First
<1>5. FlagKept(p)
  BY <1>0, <1>2, OfProcess DEF TypeOK, FlagKept, InMaintenance, First
<1> QED BY <1>0, <1>2, <1>3, <1>4, <1>5, ProcessStep

LEMMA LookStep == ASSUME IInv, NEW p \in Procs, Look(p) PROVE IInv'
<1>0. /\ TypeOK /\ Fits(p) /\ ~OnDuty(p) /\ pc[p] = "look" /\ op[p] = "start"
      /\ UNCHANGED <<lock, flag, Game, Time>>
  BY OfProcess DEF Look, OnDuty, Fits
<1>1. CASE Goto(p, "script") /\ Stay
  <2>1. Went(p, "script")
    BY <1>0, <1>1, GotoWent DEF Labels
  <2>2. Fits(p)' /\ LockKept(p) /\ GameKept(p) /\ DebtKept(p)
    BY <1>0, <2>1, GameSame DEF Went, Fits, LockKept, Owning, TypeOK
  <2> QED BY <1>0, <2>1, <2>2, WentStep DEF Labels, Maintenance
<1>2. CASE End(p, "error")
  <2>1. Over(p)
    BY <1>0, <1>2, EndOver
  <2>2. GameKept(p) /\ DebtKept(p)
    BY <1>0, <2>1, GameSame DEF Over
  <2> QED BY <1>0, <2>1, <2>2, OverStep DEF Maintenance
<1> QED BY <1>1, <1>2 DEF Look

LEMMA LockStep == ASSUME IInv, NEW p \in Procs, Lock(p) PROVE IInv'
<1>0. /\ TypeOK /\ Fits(p) /\ ~OnDuty(p) /\ pc[p] = "lock" /\ p \in Panel /\ ~InMaintenance(p)
      /\ UNCHANGED <<flag, Game, Time>>
  BY OfProcess DEF Lock, OnDuty, Fits, InMaintenance
<1>1. CASE lock = None /\ lock' = p /\ Goto(p, "locked") /\ Stay
  <2>1. Went(p, "locked")
    BY <1>0, <1>1, GotoWent DEF Labels
  <2>2. Fits(p)' /\ LockKept(p) /\ GameKept(p) /\ DebtKept(p)
    BY <1>0, <1>1, <2>1, GameSame DEF Went, Fits, LockKept, Owning, TypeOK
  <2> QED BY <1>0, <2>1, <2>2, WentStep DEF Labels, Went, InMaintenance
<1>2. CASE End(p, "error") /\ UNCHANGED lock
  <2>1. Over(p)
    BY <1>0, <1>2, EndOver
  <2>2. GameKept(p) /\ DebtKept(p) /\ LockKept(p) /\ FlagKept(p) /\ Fits(p)'
    BY <1>0, <1>2, <2>1, GameSame DEF Over, LockKept, FlagKept, Owning, Fits, InMaintenance, TypeOK
  <2> QED BY <1>0, <2>1, <2>2, ProcessStep DEF Over
<1> QED BY <1>1, <1>2 DEF Lock

LEMMA CheckStep == ASSUME IInv, NEW p \in Procs, Check(p) PROVE IInv'
<1>0. /\ TypeOK /\ Fits(p) /\ ~OnDuty(p) /\ pc[p] = "locked" /\ p \in Panel /\ ~InMaintenance(p)
      /\ lock = p /\ op[p] \in Maintenance \cup {"stop", "restart"}
      /\ UNCHANGED <<Game, Time>>
  BY OfProcess DEF Check, OnDuty, Fits, InMaintenance, Owning
<1>1. CASE flag
  <2>1. Over(p) /\ lock' = None /\ UNCHANGED flag
    BY <1>0, <1>1, EndOver DEF Check
  <2>2. GameKept(p) /\ DebtKept(p) /\ LockKept(p) /\ FlagKept(p) /\ Fits(p)'
    BY <1>0, <2>1, GameSame DEF Over, LockKept, FlagKept, Owning, Fits, InMaintenance, TypeOK
  <2> QED BY <1>0, <2>1, <2>2, ProcessStep DEF Over
<1>2. CASE ~flag /\ op[p] \in Maintenance
  <2>1. Went(p, "examine") /\ flag' = TRUE /\ UNCHANGED lock
    BY <1>0, <1>2, GotoWent DEF Check, Labels
  <2>2. GameKept(p) /\ DebtKept(p) /\ LockKept(p) /\ Fits(p)'
    BY <1>0, <1>2, <2>1, GameSame DEF Went, LockKept, Owning, Fits, TypeOK, Maintenance
  <2>3. FlagKept(p)
    BY <1>0, <1>2, <2>1 DEF Went, FlagKept, InMaintenance
  <2> QED BY <1>0, <2>1, <2>2, <2>3, ProcessStep DEF Went
<1>3. CASE ~flag /\ op[p] \notin Maintenance
  <2>1. Went(p, "stop") /\ flag' = flag /\ UNCHANGED lock
    BY <1>0, <1>3, GotoWent DEF Check, Labels, TypeOK
  <2>2. GameKept(p) /\ DebtKept(p) /\ LockKept(p) /\ Fits(p)'
    BY <1>0, <1>3, <2>1, GameSame DEF Went, LockKept, Owning, Fits, TypeOK, Maintenance
  <2> QED BY <1>0, <1>3, <2>1, <2>2, WentStep DEF Labels
<1> QED BY <1>1, <1>2, <1>3

LEMMA ExamineStep == ASSUME IInv, NEW p \in Procs, Examine(p) PROVE IInv'
<1>0. /\ TypeOK /\ Fits(p) /\ ~OnDuty(p) /\ pc[p] = "examine" /\ op[p] \in Maintenance
      /\ UNCHANGED <<flag, Game, Time>>
  BY OfProcess DEF Examine, OnDuty, Fits
<1>1. PICK s \in State :
        IF Examined(p, s)
        THEN /\ Goto(p, IF s = "active" THEN "stop" ELSE "copy")
             /\ was' = [was EXCEPT ![p] = (s = "active")] /\ UNCHANGED <<lock, op, failed, attempted>>
        ELSE Fail(p)
  BY DEF Examine
<1>2. CASE Examined(p, s)
  <2>1. /\ pc'[p] = IF s = "active" THEN "stop" ELSE "copy"
        /\ was'[p] = (s = "active") /\ op'[p] = op[p] /\ Alone(p) /\ lock' = lock
    BY <1>0, <1>1, <1>2 DEF TypeOK, Goto, Alone, Labels
  <2>2. Fits(p)'
    BY <1>0, <2>1 DEF Fits, Maintenance
  <2>3. LockKept(p)
    BY <1>0, <2>1, OfProcess DEF TypeOK, LockKept, Owning
  <2>4. GameKept(p) /\ DebtKept(p)
    BY <1>0, <1>2, <2>1, OfProcess, GameSame DEF Examined, State
  <2>5. FlagKept(p)
    BY <1>0, <2>1 DEF TypeOK, FlagKept, InMaintenance
  <2> QED BY <1>0, <2>1, <2>2, <2>3, <2>4, <2>5, ProcessStep
<1>3. CASE ~Examined(p, s)
  BY <1>0, <1>1, <1>3, FailStep DEF Fail, Game, TypeOK
<1> QED BY <1>2, <1>3

\* A request to shut down: the game is not started, and a debt of an unanswered one is excused.
LEMMA RestStopDoes ==
  ASSUME IInv, NEW p \in Procs, NEW answered \in BOOLEAN, RestStop(p, answered)
  PROVE  /\ game' \in {"down", "up", "closing"}
         /\ game = "down" => game' = "down"
         /\ debt' \in BOOLEAN /\ excuse' \in BOOLEAN
         /\ debt' /\ ~excuse' => (debt /\ ~excuse) \/ (answered /\ op[p] # "stop")
<1>0. game \in {"down", "up", "closing"} /\ debt \in BOOLEAN /\ excuse \in BOOLEAN
  BY OfProcess DEF TypeOK
<1>1. CASE ~answered /\ UNCHANGED <<game, debt, excuse>>
  BY <1>0, <1>1
<1>2. CASE /\ game # "down" /\ game' = "closing" /\ debt' = (op[p] # "stop")
           /\ excuse' = (op[p] # "stop" /\ (excuse \/ ~answered))
  BY <1>0, <1>2
<1> QED BY <1>1, <1>2 DEF RestStop

\* The server has been asked: the operation is over, or its process waits for the server.
LEMMA AskedStep ==
  ASSUME IInv, NEW p \in Procs, pc[p] \in {"stop", "fallback"}, RestStop(p, TRUE), Asked(p),
         UNCHANGED <<flag, Time>>
  PROVE  IInv'
<1>0. TypeOK /\ Fits(p) /\ ~OnDuty(p)
  BY OfProcess DEF OnDuty
<1>1. CASE op[p] = "stop"
  <2>1. Over(p) /\ lock' = Unlocked(p)
    BY <1>0, <1>1, EndOver DEF Asked
  <2>2. GameKept(p) /\ DebtKept(p)
    BY <1>0, <1>1, <2>1, RestStopDoes DEF GameKept, DebtKept, Over
  <2> QED BY <1>1, <2>1, <2>2, OverStep DEF Maintenance
<1>2. CASE op[p] # "stop"
  <2>1. Went(p, "wait") /\ UNCHANGED lock
    BY <1>0, <1>2, GotoWent DEF Asked, Labels
  <2>2. Fits(p)'
    BY <1>0, <1>2, <2>1 DEF Went, Fits, Maintenance
  <2>3. LockKept(p)
    BY <1>0, <2>1, OfProcess DEF TypeOK, Went, LockKept, Owning
  <2>4. GameKept(p) /\ DebtKept(p)
    BY <2>1, RestStopDoes DEF GameKept, DebtKept, OnDuty, Went
  <2>5. op[p] \in Maintenance => (InMaintenance(p)' = InMaintenance(p))
    BY <1>0, <2>1 DEF Went, InMaintenance, Fits, Maintenance
  <2> QED BY <2>1, <2>2, <2>3, <2>4, <2>5, WentStep DEF Labels
<1> QED BY <1>1, <1>2

\* The server did not answer, and the operation fails.
LEMMA UnansweredStep ==
  ASSUME IInv, NEW p \in Procs, pc[p] \in {"stop", "fallback"}, RestStop(p, FALSE), Fail(p),
         UNCHANGED <<flag, Time>>
  PROVE  IInv'
<1>1. ~OnDuty(p)
  BY DEF OnDuty
<1> QED BY <1>1, RestStopDoes, FailStep DEF Fail

LEMMA StopStep == ASSUME IInv, NEW p \in Procs, Stop(p) PROVE IInv'
<1>0. TypeOK /\ Fits(p) /\ ~OnDuty(p) /\ pc[p] = "stop" /\ UNCHANGED <<flag, Time>>
  BY OfProcess DEF Stop, OnDuty
<1>1. CASE Fail(p) /\ UNCHANGED Game
  BY <1>0, <1>1, FailStep DEF Fail, Game, TypeOK
<1>2. CASE RestStop(p, TRUE) /\ Asked(p)
  BY <1>0, <1>2, AskedStep
<1>3. CASE RestStop(p, FALSE) /\ Fail(p)
  BY <1>0, <1>3, UnansweredStep
<1>4. CASE /\ RestStop(p, FALSE) /\ p \in Panel /\ op[p] \notin Maintenance
           /\ Goto(p, "fallback") /\ Stay /\ UNCHANGED lock
  <2>1. Went(p, "fallback")
    BY <1>0, <1>4, GotoWent DEF Labels
  <2>2. Fits(p)'
    BY <1>0, <1>4, <2>1 DEF Went, Fits, Maintenance
  <2>3. LockKept(p)
    BY <1>0, <1>4, <2>1, OfProcess DEF TypeOK, Went, LockKept, Owning
  <2>4. GameKept(p) /\ DebtKept(p)
    BY <1>0, <1>4, <2>1, RestStopDoes DEF GameKept, DebtKept, Went
  <2> QED BY <1>0, <1>4, <2>1, <2>2, <2>3, <2>4, WentStep DEF Labels
<1> QED BY <1>1, <1>2, <1>3, <1>4 DEF Stop

LEMMA FallbackStep == ASSUME IInv, NEW p \in Procs, Fallback(p) PROVE IInv'
BY AskedStep, UnansweredStep DEF Fallback

LEMMA WaitStep == ASSUME IInv, NEW p \in Procs, Wait(p) PROVE IInv'
<1>0. /\ TypeOK /\ Fits(p) /\ pc[p] = "wait" /\ op[p] \in Maintenance \cup {"restart"}
      /\ (op[p] \in Maintenance => was[p]) /\ UNCHANGED <<flag, Time>>
  BY OfProcess DEF Wait, Fits
<1>1. CASE game = "down" /\ Stay /\ UNCHANGED Game /\ op[p] = "restart" /\ Goto(p, "script") /\ lock' = None
  <2>1. Went(p, "script")
    BY <1>0, <1>1, GotoWent DEF Labels
  <2>2. p \in Panel /\ lock = p
    BY <1>0, <1>1, OfProcess DEF Fits, Owning
  <2>3. Fits(p)' /\ LockKept(p) /\ GameKept(p) /\ DebtKept(p)
    BY <1>0, <1>1, <2>1, <2>2, GameSame DEF Went, Fits, LockKept, Owning, OnDuty, Maintenance
  <2> QED BY <1>0, <1>1, <2>1, <2>3, WentStep DEF Labels, Maintenance
<1>2. CASE game = "down" /\ Stay /\ UNCHANGED Game /\ op[p] # "restart" /\ Goto(p, "copy") /\ lock' = lock
  <2>1. Went(p, "copy")
    BY <1>0, <1>2, GotoWent DEF Labels
  <2>2. Fits(p)'
    BY <1>0, <1>2, <2>1 DEF Went, Fits, Maintenance
  <2>3. LockKept(p)
    BY <1>0, <1>2, <2>1, OfProcess DEF TypeOK, Went, LockKept, Owning
  <2>4. GameKept(p) /\ DebtKept(p)
    BY <1>0, <1>2, <2>1, GameSame DEF Went, OnDuty
  <2>5. op[p] \in Maintenance => (InMaintenance(p)' = InMaintenance(p))
    BY <1>0, <2>1 DEF Went, InMaintenance
  <2> QED BY <1>0, <2>1, <2>2, <2>3, <2>4, <2>5, WentStep DEF Labels
<1>3. CASE Fail(p) /\ excuse' = (excuse \/ debt) /\ UNCHANGED <<game, debt>>
  BY <1>0, <1>3, FailStep DEF Fail, TypeOK
<1> QED BY <1>1, <1>2, <1>3 DEF Wait

LEMMA CopyStep == ASSUME IInv, NEW p \in Procs, Copy(p) PROVE IInv'
<1>0. /\ TypeOK /\ Fits(p) /\ pc[p] \in {"copy", "steam"} /\ op[p] \in Maintenance
      /\ UNCHANGED <<flag, Game, Time>>
  BY OfProcess DEF Copy, Fits
<1>1. ASSUME NEW l \in {"steam", "leave"}, Goto(p, l), Stay, UNCHANGED lock PROVE IInv'
  <2>1. Went(p, l)
    BY <1>0, <1>1, GotoWent DEF Labels
  <2>2. Fits(p)'
    BY <1>0, <2>1 DEF Went, Fits, Maintenance
  <2>3. LockKept(p)
    BY <1>0, <1>1, <2>1, OfProcess DEF TypeOK, Went, LockKept, Owning
  <2>4. GameKept(p) /\ DebtKept(p)
    BY <1>0, <2>1, OfProcess, GameSame DEF Went, OnDuty
  <2>5. op[p] \in Maintenance => (InMaintenance(p)' = InMaintenance(p))
    BY <1>0, <2>1 DEF Went, InMaintenance
  <2> QED BY <1>0, <2>1, <2>2, <2>3, <2>4, <2>5, WentStep DEF Labels
<1>2. ASSUME NEW f \in {"error", "timeout"}, FailOf(p, f) PROVE IInv'
  BY <1>0, <1>2, FailStep DEF Game, TypeOK, OnDuty
<1> QED BY <1>1, <1>2 DEF Copy, Fail

LEMMA LeaveStep == ASSUME IInv, NEW p \in Procs, Leave(p) PROVE IInv'
<1>0. /\ TypeOK /\ Fits(p) /\ pc[p] = "leave" /\ op[p] \in Maintenance
      /\ lock' = Unlocked(p) /\ Stay /\ UNCHANGED <<flag, game, debt, Time>>
  BY OfProcess DEF Leave, Fits
<1>1. PICK s \in State : /\ Goto(p, IF Restarts(p, s) THEN "script" ELSE "unflag")
                         /\ excuse' = (excuse \/ (p = "bot" /\ s = "active" /\ debt))
  BY DEF Leave
<1> DEFINE l == IF Restarts(p, s) THEN "script" ELSE "unflag"
<1>2. Went(p, l)
  BY <1>0, <1>1, GotoWent DEF Labels
<1>3. Fits(p)'
  BY <1>0, <1>2 DEF Went, Fits, Maintenance
<1>4. LockKept(p)
  BY <1>0, <1>2, OfProcess DEF TypeOK, Went, LockKept, Owning, Unlocked
<1>5. GameKept(p)
  BY <1>0, <1>2 DEF TypeOK, Went, GameKept
<1>6. DebtKept(p)
  BY <1>0, <1>1, <1>2 DEF TypeOK, Went, DebtKept, OnDuty, Restarts
<1>7. InMaintenance(p)' = InMaintenance(p)
  BY <1>0, <1>2 DEF Went, InMaintenance
<1> QED BY <1>0, <1>2, <1>3, <1>4, <1>5, <1>6, <1>7, WentStep DEF Labels

\* The start script: a free lock for the game to start, and no debt left without an excuse.
LEMMA StartScriptDoes ==
  ASSUME IInv, NEW good \in BOOLEAN, StartScript(good)
  PROVE  /\ game' \in {"down", "up", "closing"}
         /\ game = "down" /\ lock # None => game' = "down"
         /\ ~good => UNCHANGED game
         /\ debt' \in BOOLEAN /\ excuse' \in BOOLEAN
         /\ ~(debt' /\ ~excuse')
<1>0. game \in {"down", "up", "closing"} /\ debt \in BOOLEAN /\ excuse \in BOOLEAN
  BY DEF IInv, TypeOK
<1>1. CASE excuse' = (excuse \/ debt) /\ UNCHANGED <<game, debt>>
  BY <1>0, <1>1
<1>2. CASE good /\ lock = None /\ game = "down" /\ game' = "up" /\ debt' = FALSE /\ excuse' = FALSE
  BY <1>2
<1> QED BY <1>1, <1>2 DEF StartScript

LEMMA FinishStep == ASSUME IInv, NEW p \in Procs, Finish(p) PROVE IInv'
<1>0. /\ TypeOK /\ Fits(p) /\ pc[p] \in {"unflag", "script"} /\ op[p] # "none"
      /\ (pc[p] = "unflag" => op[p] \in Maintenance) /\ UNCHANGED Time
  BY OfProcess DEF Finish, Fits, Maintenance
<1>1. ASSUME NEW good \in BOOLEAN, NEW f, flag' = FlagAfter(p, good), End(p, f),
             UNCHANGED lock, GameKept(p), DebtKept(p)
      PROVE  IInv'
  <2>1. Over(p)
    BY <1>0, <1>1, EndOver
  <2>2. CASE op[p] \in Maintenance /\ p \in Panel
    <3>1. FlagKept(p) /\ Fits(p)' /\ LockKept(p)
      BY <1>0, <1>1, <2>1, <2>2
         DEF FlagAfter, FlagKept, InMaintenance, Over, Fits, LockKept, Owning, TypeOK
    <3> QED BY <1>0, <1>1, <2>1, <3>1, ProcessStep DEF Over
  <2>3. CASE ~(op[p] \in Maintenance /\ p \in Panel)
    <3>1. flag' = flag
      BY <1>1, <2>3 DEF FlagAfter
    <3> QED BY <1>0, <1>1, <2>1, <2>3, <3>1, OverStep
  <2> QED BY <2>2, <2>3
<1>2. CASE pc[p] = "unflag" /\ flag' = FlagAfter(p, TRUE) /\ End(p, failed[p]) /\ UNCHANGED <<lock, Game>>
  <2>1. Over(p) /\ ~OnDuty(p)
    BY <1>0, <1>2, EndOver DEF OnDuty
  <2>2. GameKept(p) /\ DebtKept(p)
    BY <1>2, <2>1, GameSame DEF Over
  <2> QED BY <1>1, <1>2, <2>2
<1>3. ASSUME pc[p] = "script", NEW good \in BOOLEAN, StartScript(good), p = "bot", ~good, Fail(p),
             UNCHANGED flag
      PROVE  IInv'
  <2>1. game' \in {"down", "up", "closing"} /\ UNCHANGED game
        /\ debt' \in BOOLEAN /\ excuse' \in BOOLEAN /\ ~(debt' /\ ~excuse')
    BY <1>3, StartScriptDoes
  <2> QED BY <1>0, <1>3, <2>1, FailStep DEF Fail
<1>4. ASSUME pc[p] = "script", NEW good \in BOOLEAN, StartScript(good), flag' = FlagAfter(p, good),
             End(p, IF good THEN failed[p] ELSE "error"), UNCHANGED lock
      PROVE  IInv'
  <2>1. Over(p)
    BY <1>0, <1>4, EndOver
  <2>2. GameKept(p) /\ DebtKept(p)
    BY <1>4, <2>1, StartScriptDoes DEF GameKept, DebtKept, Over
  <2> QED BY <1>1, <1>4, <2>2
<1> QED BY <1>2, <1>3, <1>4 DEF Finish

LEMMA GameExitsStep == ASSUME IInv, GameExits PROVE IInv'
<1>1. UNCHANGED <<lock, flag, pc, op, was, failed, now, attempted, begun, debt, excuse>> /\ game' = "down"
  BY DEF GameExits
<1>2. TypeOK' /\ Consistent' /\ Locked' /\ ColdCopy'
  BY <1>1 DEF IInv, TypeOK, Consistent, Fits, Locked, ColdCopy
<1>3. FlagScoped' /\ OneAtATime'
  BY <1>1 DEF IInv, FlagScoped, OneAtATime, InMaintenance
<1>4. OncePerSlot' /\ Recorded' /\ DebtServed'
  BY <1>1 DEF IInv, OncePerSlot, Recorded, DebtServed, OnDuty
<1> QED BY <1>2, <1>3, <1>4 DEF IInv

\* The minute that begins has no update yet.
LEMMA TickStep == ASSUME IInv, Tick PROVE IInv'
<1>1. /\ UNCHANGED <<game, lock, flag, pc, op, was, failed, attempted, begun, debt, excuse>>
      /\ now' = now + 1 /\ now < MaxTime /\ now \in 0..MaxTime
  BY DEF Tick, IInv, TypeOK
<1>2. TypeOK' /\ Consistent' /\ Locked' /\ ColdCopy'
  BY <1>1, ClockAssumption DEF IInv, TypeOK, Consistent, Fits, Locked, ColdCopy
<1>3. FlagScoped' /\ OneAtATime'
  BY <1>1 DEF IInv, FlagScoped, OneAtATime, InMaintenance
<1>4. OncePerSlot' /\ DebtServed'
  BY <1>1 DEF IInv, OncePerSlot, DebtServed, OnDuty
<1>5. Recorded'
  BY <1>1, ClockAssumption DEF IInv, Recorded
<1> QED BY <1>2, <1>3, <1>4, <1>5 DEF IInv

\* The update that is begun is marked, so that its slot is not due again.
LEMMA FirstKeyStep == ASSUME IInv, FirstKey PROVE IInv'
<1> DEFINE slot == ScheduleSlot(UpdateTime, now)
<1>0. /\ TypeOK /\ pc["scheduler"] = "idle" /\ "scheduler" \in Panel /\ "scheduler" \in Procs
      /\ "scheduler" # "bot" /\ UNCHANGED <<lock, flag, was, failed, now, Game>>
      /\ slot \in 0..MaxTime \cup {None} /\ now \in 0..MaxTime
  BY SlotType, ScheduleAssumption DEF FirstKey, IInv, TypeOK, Panel, Procs
<1>1. CASE ~Due("update", UpdateTime)
  <2>1. Goto("scheduler", "second") /\ UNCHANGED <<attempted, begun, op>>
    BY <1>1 DEF FirstKey
  <2>2. Went("scheduler", "second") /\ UNCHANGED Time
    BY <1>0, <2>1, GotoWent DEF Labels, Stay, Time
  <2>3. Fits("scheduler")' /\ LockKept("scheduler") /\ GameKept("scheduler") /\ DebtKept("scheduler")
    BY <1>0, <2>2, GameSame DEF TypeOK, Went, Fits, LockKept, Owning, OnDuty
  <2> QED BY <1>0, <2>2, <2>3, WentStep DEF Labels, Went, InMaintenance
<1>2. CASE Due("update", UpdateTime)
  <2>1. /\ attempted' = [attempted EXCEPT !["update"] = slot] /\ attempted["update"] # slot
        /\ begun' = [begun EXCEPT ![now] = IF @ < 2 THEN @ + 1 ELSE @]
        /\ pc' = [pc EXCEPT !["scheduler"] = IF flag THEN "second" ELSE "lock"]
        /\ op' = [op EXCEPT !["scheduler"] = IF flag THEN "none" ELSE "update"]
    BY <1>2 DEF FirstKey, Marked, Due, Goto
  <2>2. begun[now] = 0
    BY <1>0, <2>1 DEF IInv, Recorded
  <2>3. begun' = [begun EXCEPT ![now] = 1]
    BY <1>0, <2>1, <2>2 DEF TypeOK
  <2>4. TypeOK'
    BY <1>0, <2>1, <2>3 DEF TypeOK, Game, Labels, Operations
  <2>5. OncePerSlot' /\ Recorded'
    BY <1>0, <2>1, <2>3 DEF IInv, TypeOK, OncePerSlot, Recorded
  <2>6. /\ \A p \in Procs : OnDuty(p)' = OnDuty(p)
        /\ \A p \in Panel : InMaintenance(p)' = InMaintenance(p)
        /\ \A p \in Panel : pc'[p] \in Owning => pc[p] \in Owning
        /\ \A p \in Panel : pc'[p] \in {"copy", "steam"} => pc[p] \in {"copy", "steam"}
    BY <1>0, <2>1 DEF TypeOK, OnDuty, InMaintenance, Owning, Panel, Procs
  <2>7. Consistent'
    BY <1>0, <2>1 DEF TypeOK, IInv, Consistent, Fits, Maintenance
  <2>8. Locked' /\ FlagScoped' /\ OneAtATime' /\ ColdCopy'
    BY <1>0, <2>6 DEF IInv, Locked, FlagScoped, OneAtATime, ColdCopy, Game
  <2>9. DebtServed'
    BY <1>0, <2>6 DEF IInv, DebtServed, Game
  <2> QED BY <2>4, <2>5, <2>7, <2>8, <2>9 DEF IInv
<1> QED BY <1>1, <1>2

\* The second key ends the pass, or the thread.
LEMMA SecondKeyStep == ASSUME IInv, SecondKey PROVE IInv'
<1>0. /\ TypeOK /\ pc["scheduler"] = "second" /\ "scheduler" \in Panel /\ "scheduler" \in Procs
      /\ UNCHANGED <<lock, flag, op, was, failed, Game, Time>>
      /\ ScheduleSlot(BackupTime, now) \in 0..MaxTime \cup {None}
  BY SlotType, ScheduleAssumption DEF SecondKey, IInv, TypeOK, Panel, Procs
<1>1. PICK l \in {"dead", "idle"} : /\ pc' = [pc EXCEPT !["scheduler"] = l]
                                    /\ \/ UNCHANGED attempted
                                       \/ attempted' = [attempted EXCEPT !["backup"] = ScheduleSlot(BackupTime, now)]
  BY DEF SecondKey, Goto
<1>2. Went("scheduler", l)
  <2>1. attempted' \in [{"update", "backup"} -> 0..MaxTime \cup {None}]
        /\ attempted'["update"] = attempted["update"]
    BY <1>0, <1>1 DEF TypeOK
  <2> QED BY <1>0, <1>1, <2>1 DEF TypeOK, Went, Alone, Labels
<1>3. Fits("scheduler")' /\ LockKept("scheduler") /\ GameKept("scheduler") /\ DebtKept("scheduler")
  BY <1>0, <1>2, GameSame DEF TypeOK, Went, Fits, LockKept, Owning, OnDuty
<1> QED BY <1>0, <1>2, <1>3, WentStep DEF Labels, Went, InMaintenance

LEMMA InitIInv == Init => IInv
<1> SUFFICES ASSUME Init PROVE IInv
  OBVIOUS
<1>1. TypeOK
  <2>1. now \in 0..MaxTime /\ begun \in [0..MaxTime -> 0..2]
    BY ClockAssumption DEF Init
  <2>2. /\ pc \in [Procs -> Labels] /\ op \in [Procs -> Operations \cup {"none"}]
        /\ was \in [Procs -> BOOLEAN] /\ failed \in [Procs -> Failures]
    BY DEF Init, Labels, Failures
  <2>3. attempted \in [{"update", "backup"} -> 0..MaxTime \cup {None}]
    BY DEF Init
  <2>4. /\ game \in {"down", "up", "closing"} /\ lock \in Panel \cup {None} /\ flag \in BOOLEAN
        /\ debt \in BOOLEAN /\ excuse \in BOOLEAN
    BY DEF Init
  <2> QED BY <2>1, <2>2, <2>3, <2>4 DEF TypeOK
<1>2. Consistent /\ Locked /\ FlagScoped /\ OneAtATime /\ ColdCopy
  BY DEF Init, Consistent, Fits, Locked, Owning, FlagScoped, OneAtATime, InMaintenance, ColdCopy,
         Panel, Procs
<1>3. OncePerSlot /\ Recorded /\ DebtServed
  BY DEF Init, OncePerSlot, Recorded, DebtServed
<1> QED BY <1>1, <1>2, <1>3 DEF IInv

LEMMA NextIInv == IInv /\ [Next]_vars => IInv'
<1> SUFFICES ASSUME IInv, [Next]_vars PROVE IInv'
  OBVIOUS
<1>1. CASE UNCHANGED vars
  <2>1. TypeOK' /\ Consistent' /\ Locked' /\ ColdCopy'
    BY <1>1 DEF vars, IInv, TypeOK, Consistent, Fits, Locked, ColdCopy
  <2>2. FlagScoped' /\ OneAtATime'
    BY <1>1 DEF vars, IInv, FlagScoped, OneAtATime, InMaintenance
  <2>3. OncePerSlot' /\ Recorded' /\ DebtServed'
    BY <1>1 DEF vars, IInv, OncePerSlot, Recorded, DebtServed, OnDuty
  <2> QED BY <2>1, <2>2, <2>3 DEF IInv
<1>2. CASE GameExits
  BY <1>2, GameExitsStep
<1>3. CASE Tick
  BY <1>3, TickStep
<1>4. CASE FirstKey
  BY <1>4, FirstKeyStep
<1>5. CASE SecondKey
  BY <1>5, SecondKeyStep
<1>6. ASSUME NEW p \in Procs, Request(p) PROVE IInv'
  BY <1>6, RequestStep
<1>7. ASSUME NEW p \in Procs, Step(p) PROVE IInv'
  BY <1>7, LookStep, LockStep, CheckStep, ExamineStep, StopStep, FallbackStep, WaitStep, CopyStep,
     LeaveStep, FinishStep DEF Step
<1> QED BY <1>1, <1>2, <1>3, <1>4, <1>5, <1>6, <1>7 DEF Next

\* The inductive invariant holds in every reachable state of the host.
THEOREM IInvAlways == Spec => []IInv
BY InitIInv, NextIInv, PTL DEF Spec

-----------------------------------------------------------------------------
(* The properties of the run.                                              *)

\* The bookkeeping of the panel, the bot and the scheduler keeps its types.
THEOREM TypeCorrect == Spec => []TypeOK
<1>1. IInv => TypeOK
  BY DEF IInv
<1> QED BY <1>1, IInvAlways, PTL

\* The maintenance flag is up exactly while a thread of the panel is in maintenance.
THEOREM AlwaysScoped == Spec => []FlagScoped
<1>1. IInv => FlagScoped
  BY DEF IInv
<1> QED BY <1>1, IInvAlways, PTL

\* The panel copies a save and updates an installation only of a server that is down.
THEOREM AlwaysCold == Spec => []ColdCopy
<1>1. IInv => ColdCopy
  BY DEF IInv
<1> QED BY <1>1, IInvAlways, PTL

\* An operation that stopped the server to start it again leaves it down with a reason only:
\* until then the process whose duty the start is has not come to its end.
THEOREM AlwaysRecovered == Spec => []NobodyStranded
<1>1. IInv => NobodyStranded
  <2> SUFFICES ASSUME IInv, debt, ~excuse, \A p \in Procs : op[p] = "none" PROVE FALSE
    BY DEF NobodyStranded
  <2>1. PICK p \in Procs : OnDuty(p)
    BY DEF IInv, DebtServed
  <2>2. Fits(p)
    BY OfProcess
  <2> QED BY <2>1, <2>2 DEF OnDuty, Fits, Maintenance
<1> QED BY <1>1, IInvAlways, PTL

\* The update of a slot is begun at most once.
THEOREM AlwaysOnce == Spec => []OncePerSlot
<1>1. IInv => OncePerSlot
  BY DEF IInv
<1> QED BY <1>1, IInvAlways, PTL

-----------------------------------------------------------------------------
(* No slot is taken for one that was attempted before it.                  *)

\* A number is its quotient and its remainder.
LEMMA Euclid ==
  ASSUME NEW m \in Nat, NEW d \in Nat \ {0}
  PROVE  m = d * (m \div d) + (m % d) /\ m \div d \in Nat /\ m % d \in 0..(d - 1)
BY SMTT(30)

\* schedule_slot names each minute in which a schedule is due differently: no day and no
\* interval of hours has two such minutes.
THEOREM SlotsDistinct ==
  ASSUME NEW s \in Schedules, NEW m \in Nat, NEW n \in Nat,
         ScheduleSlot(s, m) # None, ScheduleSlot(s, m) = ScheduleSlot(s, n)
  PROVE  m = n
<1>1. CASE s.kind = "off"
  BY <1>1 DEF ScheduleSlot
<1>2. CASE s.kind = "daily"
  <2> DEFINE day == HoursPerDay * MinutesPerHour
  <2>1. day \in Nat \ {0}
    BY ClockAssumption, SMTT(30)
  <2>2. /\ m % day = s.at /\ n % day = s.at
        /\ m \div day = n \div day
    BY <1>2 DEF ScheduleSlot
  <2> HIDE DEF day
  <2> QED
    BY <2>1, <2>2, Euclid
<1>3. CASE s.kind = "every"
  <2> DEFINE hour(i) == i \div MinutesPerHour
             interval == MinutesPerHour * s.hours
  <2>1. s.hours \in Nat \ {0} /\ MinutesPerHour \in Nat \ {0}
    BY <1>3, ClockAssumption DEF Schedules
  <2>2. /\ m % MinutesPerHour = 0 /\ hour(m) % s.hours = 0
        /\ n % MinutesPerHour = 0 /\ hour(n) % s.hours = 0
        /\ m \div interval = n \div interval
    BY <1>3 DEF ScheduleSlot
  <2>3. ASSUME NEW i \in Nat, i % MinutesPerHour = 0, hour(i) % s.hours = 0
        PROVE  i = interval * (i \div interval)
    <3>1. i = MinutesPerHour * hour(i) /\ hour(i) \in Nat
      <4>1. i = MinutesPerHour * hour(i) + 0 /\ hour(i) \in Nat
        BY <2>1, <2>3, Euclid, Zenon
      <4> QED
        BY <2>1, <4>1, SMTT(30)
    <3>2. hour(i) = s.hours * (hour(i) \div s.hours) /\ hour(i) \div s.hours \in Nat
      <4> HIDE DEF hour
      <4>1. /\ hour(i) = s.hours * (hour(i) \div s.hours) + 0
            /\ hour(i) \div s.hours \in Nat
        BY <2>1, <2>3, <3>1, Euclid, Zenon
      <4> QED
        BY <2>1, <4>1, SMTT(30)
    <3>3. PICK k \in Nat : i = MinutesPerHour * (s.hours * k)
      BY <3>1, <3>2
    <3>4. i = interval * k /\ interval \in Nat \ {0}
      BY <2>1, <3>3, SMTT(30)
    <3> HIDE DEF interval
    <3>5. i \div interval = k
      BY <3>4, SMTT(30)
    <3> QED
      BY <3>4, <3>5
  <2> HIDE DEF interval, hour
  <2> QED
    BY <2>2, <2>3
<1> QED
  BY <1>1, <1>2, <1>3 DEF Schedules

\* The slot that is marked is that of a minute in which its update was begun.
Marks == attempted["update"] # None =>
           \E m \in 0..now : attempted["update"] = ScheduleSlot(UpdateTime, m) /\ begun[m] > 0

\* A process marks no slot of the update and begins none, whatever becomes of its operation.
LEMMA MarkStays ==
  ASSUME IInv, NEW p \in Procs, Request(p) \/ Step(p)
  PROVE  attempted'["update"] = attempted["update"] /\ UNCHANGED Time
<1>1. TypeOK
  BY DEF IInv
<1>2. /\ UNCHANGED attempted \/ Stay => attempted'["update"] = attempted["update"]
      /\ \A f : End(p, f) => attempted'["update"] = attempted["update"]
      /\ \A f \in {"error", "timeout"} : FailOf(p, f) => attempted'["update"] = attempted["update"]
  BY <1>1, EndOver, FailLeaves DEF Stay, Over, Went, Alone
<1>3. ASSUME Request(p) \/ Look(p) \/ Lock(p) \/ Check(p) \/ Examine(p)
      PROVE  attempted'["update"] = attempted["update"]
  BY <1>2, <1>3 DEF Request, Look, Lock, Check, Examine, Fail
<1>4. ASSUME Stop(p) \/ Fallback(p) \/ Wait(p) \/ Copy(p) \/ Leave(p)
      PROVE  attempted'["update"] = attempted["update"]
  BY <1>2, <1>4 DEF Stop, Fallback, Asked, Wait, Copy, Leave, Fail
<1>5. ASSUME Finish(p) PROVE attempted'["update"] = attempted["update"]
  BY <1>2, <1>5 DEF Finish, Fail
<1>6. UNCHANGED Time
  BY DEF Request, Step, Look, Lock, Check, Examine, Stop, Fallback, Wait, Copy, Leave, Finish
<1> QED
  BY <1>3, <1>4, <1>5, <1>6 DEF Step

\* Only the scheduler's first key marks a slot, and begins what it marks.
LEMMA MarksStep == ASSUME IInv, Marks, [Next]_vars PROVE Marks'
<1>0. now \in 0..MaxTime /\ begun \in [0..MaxTime -> 0..2]
  BY DEF IInv, TypeOK
<1>1. ASSUME attempted'["update"] = attempted["update"], begun' = begun, now' \in {now, now + 1}
      PROVE  Marks'
  <2>1. 0..now \subseteq 0..now'
    BY <1>0, <1>1
  <2> QED
    BY <1>1, <2>1 DEF Marks
<1>2. CASE UNCHANGED vars \/ GameExits \/ Tick
  BY <1>1, <1>2 DEF vars, GameExits, Tick
<1>3. ASSUME NEW p \in Procs, Request(p) \/ Step(p) PROVE Marks'
  BY <1>1, <1>3, MarkStays DEF Time
<1>4. CASE SecondKey
  <2>1. attempted'["update"] = attempted["update"]
    BY <1>4 DEF SecondKey, IInv, TypeOK
  <2> QED
    BY <1>1, <1>4, <2>1 DEF SecondKey, Time
<1>5. CASE FirstKey
  <2>1. CASE ~Due("update", UpdateTime)
    BY <1>1, <1>5, <2>1 DEF FirstKey
  <2>2. CASE Due("update", UpdateTime)
    <3>1. /\ attempted'["update"] = ScheduleSlot(UpdateTime, now) /\ now' = now
          /\ begun'[now] = IF begun[now] < 2 THEN begun[now] + 1 ELSE begun[now]
      BY <1>0, <1>5, <2>2 DEF FirstKey, Marked, IInv, TypeOK
    <3>2. now \in 0..now' /\ begun'[now] > 0
      BY <1>0, <3>1
    <3> QED
      BY <3>1, <3>2 DEF Marks
  <2> QED
    BY <2>1, <2>2
<1> QED
  BY <1>2, <1>3, <1>4, <1>5 DEF Next

\* The scheduler passes over a minute in which an update is due only when it has attempted
\* the update in that very minute: no earlier slot is mistaken for this one.
NotSkipped == ScheduleSlot(UpdateTime, now) # None
              /\ attempted["update"] = ScheduleSlot(UpdateTime, now) => begun[now] > 0

\* So it is for every schedule and every length of the hour and the day.
THEOREM NeverSkipped == Spec => []NotSkipped
<1>1. Init => Marks
  BY DEF Init, Marks
<1>2. IInv /\ Marks => NotSkipped
  <2> SUFFICES ASSUME IInv, Marks, ScheduleSlot(UpdateTime, now) # None,
                      attempted["update"] = ScheduleSlot(UpdateTime, now)
               PROVE  begun[now] > 0
    BY DEF NotSkipped
  <2>1. PICK m \in 0..now : attempted["update"] = ScheduleSlot(UpdateTime, m) /\ begun[m] > 0
    BY DEF Marks
  <2>2. now \in Nat /\ m \in Nat
    BY <2>1, ClockAssumption DEF IInv, TypeOK
  <2>3. m = now
    BY <2>1, <2>2, SlotsDistinct, ScheduleAssumption
  <2> QED
    BY <2>1, <2>3
<1>3. IInv /\ Marks /\ [Next]_vars => Marks'
  BY MarksStep
<1> QED
  BY <1>1, <1>2, <1>3, IInvAlways, PTL DEF Spec
=============================================================================
