-------------------------- MODULE SupervisorProofs --------------------------
(***************************************************************************)
(* The safety invariants of Supervisor hold for every set of handlers and  *)
(* of processes.  They follow from one inductive invariant, IInv, that     *)
(* says which request a thread can be serving at each step, what the lock  *)
(* owner may rely on about the game, and what the drain left behind.       *)
(***************************************************************************)
EXTENDS Supervisor, TLAPS

Halting == {"halt", "ask", "waitExit", "sigint", "sigterm", "sigkill"}

\* What each thread can ask of control(), graceful_stop() or idle_loop().
RequestsOf(t) == IF t = Main THEN {"drain"}
                 ELSE IF t = Scheduler THEN {"update", "backup"}
                 ELSE IF t = Idle THEN {"idle"}
                 ELSE Requests

\* A thread keeps an operation from the moment it queues until it releases.
Serving(t) == IF pc[t] \in Steps \cup {"wait"} THEN op[t].req \in RequestsOf(t)
              ELSE op[t] = NoOperation

\* The steps of an operation are those of its request.
OnPath(t) ==
  /\ pc[t] \in {"wait", "begin"}                  => ~op[t].was /\ ~op[t].owes
  /\ pc[t] \in Halting                            => op[t].req \in DOMAIN AfterHalt
  /\ pc[t] \in {"presave", "snapshot"}            => op[t].req \in {"backup", "update"}
  /\ pc[t] = "swap"                               => op[t].req = "restore"
  /\ pc[t] \in {"steamcmd", "recover"}            => op[t].req = "update"
  /\ pc[t] \in {"poll", "presaveIdle", "repoll"}  => op[t].req = "idle"
  /\ pc[t] = "launch" => op[t].req \in {"start", "restart"} \/ op[t].was
  /\ op[t].was        => op[t].req \in {"restore", "update"}

\* A server that update found down stays down, and is down for every replacement.
Offline(t) ==
  /\ pc[t] \in {"swap", "steamcmd"} => ~GameUp
  /\ pc[t] \in {"presave", "snapshot"} /\ op[t].req = "update" /\ ~op[t].was => ~GameUp

\* A server that was stopped is owed a start only on the way to one.
Owing(t) == op[t].owes => \/ pc[t] = "launch"
                          \/ pc[t] \in {"swap", "steamcmd"} /\ op[t].was
                          \/ pc[t] = "recover" /\ op[t].was /\ ~GameUp

\* The drain starts with no request under way; after it nothing starts the game.
Drained ==
  /\ pc[Main] \in Steps \cup {"wait", "children", "exited"} =>
       \A h \in Handlers : pc[h] = "free"
  /\ pc[Main] \in {"done", "children", "exited"} => ~GameUp /\ ~op[Scheduler].was

ThreadOK(t) == Serving(t) /\ OnPath(t) /\ Offline(t) /\ Owing(t)

IInv == /\ TypeOK
        /\ OperationsExclusive
        /\ MaintenanceScoped
        /\ \A t \in Threads : ThreadOK(t)
        /\ Drained

-----------------------------------------------------------------------------
(* Facts about the constants and about updates of an operation's record.   *)

\* None is neither a thread nor a process, and the four kinds of threads are apart.
LEMMA Names == /\ None \notin Threads /\ None \notin Games
               /\ {Main, Scheduler, Idle} \subseteq Threads
               /\ Handlers \subseteq Threads
               /\ \A h \in Handlers : h \notin {Main, Scheduler, Idle}
BY ThreadsAssumption, NoneAssumption DEF Threads

\* A thread outside an operation carries nothing from its last one.
LEMMA Nothing == /\ NoOperation \in Operations /\ NoOperation.req = "none"
                 /\ ~NoOperation.was /\ ~NoOperation.owes
BY DEF NoOperation, Operations

\* t's operation keeps its request, and no other thread's operation changes; was is
\* kept or becomes what t sees of the game.
Carries(t) == /\ op' \in [Threads -> Operations]
              /\ \A u \in Threads \ {t} : op'[u] = op[u]
              /\ op'[t].req = op[t].req
              /\ op'[t].was => op[t].was \/ GameUp

\* A step that leaves op alone carries it on.
LEMMA Stays ==
  ASSUME TypeOK, NEW t \in Threads, UNCHANGED op
  PROVE  Carries(t) /\ op'[t].was = op[t].was /\ op'[t].owes = op[t].owes
BY DEF TypeOK, Carries

\* So does one that records the exception ending the operation.
LEMMA Ends ==
  ASSUME TypeOK, NEW t \in Threads, NEW e \in Errors \cup {"none"},
         op' = [op EXCEPT ![t].exc = e]
  PROVE  Carries(t) /\ op'[t].was = op[t].was /\ op'[t].owes = op[t].owes
<1> DEFINE p == [op[t] EXCEPT !.exc = e]
<1>1. p \in Operations /\ p.req = op[t].req /\ p.was = op[t].was /\ p.owes = op[t].owes
  BY DEF TypeOK, Operations
<1>2. op' = [op EXCEPT ![t] = p]
  OBVIOUS
<1> QED
  BY <1>1 DEF TypeOK, Carries

\* So does one that records whether a start is owed, with or without an exception.
LEMMA Owes ==
  ASSUME TypeOK, NEW t \in Threads, NEW b \in BOOLEAN,
         \/ op' = [op EXCEPT ![t].owes = b]
         \/ \E e \in Errors : op' = [op EXCEPT ![t].exc = e, ![t].owes = b]
  PROVE  Carries(t) /\ op'[t].was = op[t].was /\ op'[t].owes = b
<1>1. PICK p \in Operations : op' = [op EXCEPT ![t] = p] /\ p.req = op[t].req
                              /\ p.was = op[t].was /\ p.owes = b
  <2>1. CASE op' = [op EXCEPT ![t].owes = b]
    <3> DEFINE p == [op[t] EXCEPT !.owes = b]
    <3> p \in Operations /\ p.req = op[t].req /\ p.was = op[t].was /\ p.owes = b
      BY DEF TypeOK, Operations
    <3> op' = [op EXCEPT ![t] = p]
      BY <2>1
    <3> QED
      OBVIOUS
  <2>2. ASSUME NEW e \in Errors, op' = [op EXCEPT ![t].exc = e, ![t].owes = b]
        PROVE  \E p \in Operations : op' = [op EXCEPT ![t] = p] /\ p.req = op[t].req
                                     /\ p.was = op[t].was /\ p.owes = b
    <3> DEFINE q == [op[t] EXCEPT !.exc = e]
               p == [q EXCEPT !.owes = b]
    <3> q \in Operations /\ q.req = op[t].req /\ q.was = op[t].was
      BY DEF TypeOK, Operations
    <3> p \in Operations /\ p.req = q.req /\ p.was = q.was /\ p.owes = b
      BY DEF Operations
    <3> op' = [op EXCEPT ![t] = p]
      BY <2>2
    <3> QED
      OBVIOUS
  <2> QED
    BY <2>1, <2>2
<1> QED
  BY <1>1 DEF TypeOK, Carries

\* The work of t's operation goes on: t holds the lock, keeps its request, starts the
\* game only if its request says so, and does not finish the drain with the game up.
Inside(t) ==
  /\ pc[t] \in Steps /\ pc'[t] \in Steps /\ Go(t, pc'[t])
  /\ Carries(t)
  /\ UNCHANGED <<lock, stopping>>
  /\ maintenance' \in BOOLEAN /\ (maintenance' => maintenance \/ op[t].req = "update")
  /\ game' \in Games \cup {None} /\ alive' \subseteq Games
  /\ idleStopped' \in BOOLEAN /\ idleSince' \in BOOLEAN
  /\ GameUp' => GameUp \/ op[t].was \/ op[t].req \in {"start", "restart"}
  /\ pc'[t] = "done" /\ op[t].req = "drain" => ~GameUp'

\* The other threads are outside their operations, so a step inside t's disturbs only
\* what IInv says of t.
LEMMA InsideKeeps ==
  ASSUME IInv, NEW t \in Threads, Inside(t), OnPath(t)', Offline(t)', Owing(t)'
  PROVE  IInv'
<1>1. lock = t /\ \A u \in Threads \ {t} : pc[u] \notin Steps
  BY DEF IInv, OperationsExclusive, Inside
<1>2. \A u \in Threads \ {t} : pc'[u] = pc[u] /\ op'[u] = op[u]
  BY DEF Inside, Carries, Go, IInv, TypeOK
<1>3. TypeOK'
  BY DEF Inside, Carries, Go, IInv, TypeOK, Labels
<1>4. OperationsExclusive'
  BY <1>1, <1>2 DEF Inside, OperationsExclusive
<1>5. MaintenanceScoped'
  BY <1>1 DEF Inside, Carries, IInv, MaintenanceScoped
<1>6. \A u \in Threads : ThreadOK(u)'
  <2>1. ThreadOK(t)'
    BY DEF Inside, Carries, IInv, ThreadOK, Serving
  <2>2. ASSUME NEW u \in Threads \ {t} PROVE ThreadOK(u)'
    <3>1. ThreadOK(u) /\ pc'[u] \notin Steps
      BY <1>1, <1>2 DEF IInv
    <3>2. Serving(u)'
      BY <1>2, <3>1 DEF ThreadOK, Serving
    <3>3. OnPath(u)' /\ Offline(u)'
      BY <1>2, <3>1 DEF ThreadOK, OnPath, Offline, Steps
    <3>4. Owing(u)'
      BY <1>2, <3>1 DEF ThreadOK, Owing, Steps
    <3> QED
      BY <3>2, <3>3, <3>4 DEF ThreadOK
  <2> QED
    BY <2>1, <2>2
<1>7. Drained'
  <2>1. pc'[Main] \in Steps \cup {"wait", "children", "exited"} => \A h \in Handlers : pc'[h] = "free"
    BY <1>2, Names DEF Inside, IInv, Drained, Steps
  <2>2. CASE t = Main
    BY <1>1, <2>1, <2>2, Names DEF Inside, Carries, IInv, ThreadOK, Serving, OnPath,
       Drained, RequestsOf, NoOperation, Steps
  <2>3. CASE t # Main
    BY <1>2, <2>3 DEF Inside, Carries, IInv, ThreadOK, Serving, OnPath, Drained,
       RequestsOf, Steps, Threads
  <2> QED
    BY <2>2, <2>3
<1> QED
  BY <1>3, <1>4, <1>5, <1>6, <1>7 DEF IInv

-----------------------------------------------------------------------------
(* The steps inside an operation.                                          *)

\* status() may forget a dead game, and nothing else.
LEMMA StatusKeeps == ASSUME IInv, NEW t \in Threads, Status(t) PROVE IInv'
<1>1. TypeOK /\ Serving(t) /\ OnPath(t) /\ Offline(t) /\ Owing(t)
  BY DEF IInv, ThreadOK
<1>2. Carries(t) /\ op'[t].was = op[t].was /\ op'[t].owes = op[t].owes
  BY <1>1, Stays DEF Status
<1>3. Inside(t)
  BY <1>1, <1>2, Names DEF Inside, Status, Go, TypeOK, Steps, GameUp, shared
<1>4. OnPath(t)'
  BY <1>1 DEF Status, Go, Halting, OnPath
<1>5. Offline(t)'
  BY DEF Status, Go, Offline
<1>6. Owing(t)'
  BY <1>1 DEF Status, Owing
<1> QED
  BY <1>3, <1>4, <1>5, <1>6, InsideKeeps

\* _stop_game goes on to its next signal while the game runs.
LEMMA InsistKeeps == ASSUME IInv, NEW t \in Threads, Insist(t) PROVE IInv'
<1>1. TypeOK /\ Serving(t) /\ OnPath(t) /\ Offline(t) /\ Owing(t)
  BY DEF IInv, ThreadOK
<1>2. Carries(t) /\ op'[t].was = op[t].was /\ op'[t].owes = op[t].owes
  BY <1>1, Stays DEF Insist
<1>3. Inside(t)
  BY <1>1, <1>2 DEF Inside, Insist, NextResort, Go, TypeOK, Steps, server, shared
<1>4. OnPath(t)'
  BY <1>1 DEF Insist, NextResort, Go, Halting, OnPath
<1>5. Offline(t)'
  BY DEF Insist, NextResort, Go, Offline
<1>6. Owing(t)'
  BY <1>1 DEF Insist, NextResort, Owing
<1> QED
  BY <1>3, <1>4, <1>5, <1>6, InsideKeeps

\* The REST save and shutdown, whether they succeed or raise ApiError.
LEMMA AskToShutDownKeeps == ASSUME IInv, NEW t \in Threads, AskToShutDown(t) PROVE IInv'
<1>1. TypeOK /\ Serving(t) /\ OnPath(t) /\ Offline(t) /\ Owing(t)
  BY DEF IInv, ThreadOK
<1>2. Carries(t) /\ op'[t].was = op[t].was /\ op'[t].owes = op[t].owes
  BY <1>1, Stays DEF AskToShutDown
<1>3. Inside(t)
  BY <1>1, <1>2 DEF Inside, AskToShutDown, Go, TypeOK, Steps, GameUp, server, shared
<1>4. OnPath(t)'
  BY <1>1 DEF AskToShutDown, Go, TypeOK, Halting, OnPath
<1>5. Offline(t)'
  BY <1>1 DEF AskToShutDown, Go, TypeOK, Offline
<1>6. Owing(t)'
  BY <1>1 DEF AskToShutDown, Owing
<1> QED
  BY <1>3, <1>4, <1>5, <1>6, InsideKeeps

\* SIGKILL ends the tracked process.
LEMMA KillKeeps == ASSUME IInv, NEW t \in Threads, Kill(t) PROVE IInv'
<1>1. TypeOK /\ Serving(t) /\ OnPath(t) /\ Offline(t) /\ Owing(t)
  BY DEF IInv, ThreadOK
<1>2. Carries(t) /\ op'[t].was = op[t].was /\ op'[t].owes = op[t].owes
  BY <1>1, Stays DEF Kill
<1>3. Inside(t)
  BY <1>1, <1>2 DEF Inside, Kill, Go, TypeOK, Steps, shared
<1>4. OnPath(t)'
  BY <1>1 DEF Kill, OnPath
<1>5. Offline(t)'
  BY DEF Kill, Offline
<1>6. Owing(t)'
  BY <1>1 DEF Kill, Owing
<1> QED
  BY <1>3, <1>4, <1>5, <1>6, InsideKeeps

\* A restore with an invalid version name raises before anything was stopped.
LEMMA RejectVersionKeeps == ASSUME IInv, NEW t \in Threads, RejectVersion(t) PROVE IInv'
<1>1. TypeOK /\ Serving(t) /\ OnPath(t) /\ Offline(t) /\ Owing(t)
  BY DEF IInv, ThreadOK
<1>2. Carries(t) /\ op'[t].was = op[t].was /\ op'[t].owes = op[t].owes
  BY <1>1, Ends DEF RejectVersion, Errors
<1>3. Inside(t)
  BY <1>1, <1>2 DEF Inside, RejectVersion, Go, TypeOK, Steps, GameUp, server, shared
<1>4. OnPath(t)'
  BY <1>1 DEF RejectVersion, Go, Halting, OnPath
<1>5. Offline(t)'
  BY DEF RejectVersion, Go, Offline
<1>6. Owing(t)'
  BY <1>1 DEF RejectVersion, Owing
<1> QED
  BY <1>3, <1>4, <1>5, <1>6, InsideKeeps

\* backup_once saves, or raises out of the backup or into the update's except clause.
LEMMA SaveFirstKeeps == ASSUME IInv, NEW t \in Threads, SaveFirst(t) PROVE IInv'
<1>1. TypeOK /\ Serving(t) /\ OnPath(t) /\ Offline(t) /\ Owing(t)
  BY DEF IInv, ThreadOK
<1>2. Carries(t) /\ op'[t].was = op[t].was /\ op'[t].owes = op[t].owes
  BY <1>1, Stays, Ends DEF SaveFirst, Raise, Errors
<1>3. Inside(t)
  BY <1>1, <1>2 DEF Inside, SaveFirst, Raise, Go, TypeOK, Steps, OnPath, GameUp, server,
     shared
<1>4. OnPath(t)'
  BY <1>1, <1>2 DEF SaveFirst, Raise, Carries, Go, TypeOK, Halting, OnPath
<1>5. Offline(t)'
  BY <1>1 DEF SaveFirst, Raise, Go, TypeOK, Offline, GameUp, server
<1>6. Owing(t)'
  BY <1>1, <1>2 DEF SaveFirst, Owing
<1> QED
  BY <1>3, <1>4, <1>5, <1>6, InsideKeeps

\* create_snapshot returns or raises; an update that found a game running stops it next.
LEMMA SnapshotKeeps == ASSUME IInv, NEW t \in Threads, Snapshot(t) PROVE IInv'
<1>1. TypeOK /\ Serving(t) /\ OnPath(t) /\ Offline(t) /\ Owing(t)
  BY DEF IInv, ThreadOK
<1>2. Carries(t) /\ op'[t].was = op[t].was /\ op'[t].owes = op[t].owes
  BY <1>1, Stays, Ends DEF Snapshot, Raise, Errors
<1>3. Inside(t)
  BY <1>1, <1>2 DEF Inside, Snapshot, Raise, AfterSnapshot, Go, TypeOK, Steps, OnPath,
     GameUp, server, shared
<1>4. OnPath(t)'
  BY <1>1, <1>2 DEF AfterHalt, Snapshot, Raise, AfterSnapshot, Carries, Go, TypeOK,
     Halting, OnPath
<1>5. Offline(t)'
  BY <1>1 DEF Snapshot, Raise, AfterSnapshot, Go, TypeOK, Offline, GameUp, server
<1>6. Owing(t)'
  BY <1>1, <1>2 DEF Snapshot, Owing
<1> QED
  BY <1>3, <1>4, <1>5, <1>6, InsideKeeps

\* BackupManager.restore returns or raises; a server that ran is started either way.
LEMMA SwapKeeps == ASSUME IInv, NEW t \in Threads, Swap(t) PROVE IInv'
<1>1. TypeOK /\ Serving(t) /\ OnPath(t) /\ Offline(t) /\ Owing(t)
  BY DEF IInv, ThreadOK
<1>2. Carries(t) /\ op'[t].was = op[t].was /\ op'[t].owes = op[t].owes
  BY <1>1, Ends DEF Swap, Errors
<1>3. Inside(t)
  BY <1>1, <1>2 DEF Inside, Swap, AfterSwap, Go, TypeOK, Steps, OnPath, GameUp, server,
     shared
<1>4. OnPath(t)'
  BY <1>1 DEF Swap, AfterSwap, Go, Halting, OnPath
<1>5. Offline(t)'
  BY <1>1 DEF Swap, Offline, GameUp, server
<1>6. Owing(t)'
  BY <1>1 DEF Swap, AfterSwap, Go, Owing
<1> QED
  BY <1>3, <1>4, <1>5, <1>6, InsideKeeps

\* SteamCMD succeeds or raises into the update's except clause.
LEMMA SteamCMDKeeps == ASSUME IInv, NEW t \in Threads, SteamCMD(t) PROVE IInv'
<1>1. TypeOK /\ Serving(t) /\ OnPath(t) /\ Offline(t) /\ Owing(t)
  BY DEF IInv, ThreadOK
<1>2. Carries(t) /\ op'[t].was = op[t].was /\ op'[t].owes = op[t].owes
  BY <1>1, Stays, Ends DEF SteamCMD, Raise
<1>3. Inside(t)
  BY <1>1, <1>2 DEF Inside, SteamCMD, Raise, Go, TypeOK, Steps, OnPath, GameUp, server,
     shared
<1>4. OnPath(t)'
  BY <1>1, <1>2 DEF SteamCMD, Raise, Carries, Go, TypeOK, Halting, OnPath
<1>5. Offline(t)'
  BY <1>1 DEF SteamCMD, Offline, GameUp, server
<1>6. Owing(t)'
  BY <1>1, <1>2 DEF SteamCMD, Raise, Go, TypeOK, OnPath, Offline, Owing, GameUp, server
<1> QED
  BY <1>3, <1>4, <1>5, <1>6, InsideKeeps

\* _stop_game returns with the game down, which is where a start becomes owed.
LEMMA HaltedKeeps == ASSUME IInv, NEW t \in Threads, Halted(t) PROVE IInv'
<1>1. TypeOK /\ Serving(t) /\ OnPath(t) /\ Offline(t) /\ Owing(t)
  BY DEF IInv, ThreadOK
<1>2. Carries(t) /\ op'[t].was = op[t].was /\ (op'[t].owes => op[t].was \/ op[t].req = "restart")
  <2> DEFINE b == op[t].was \/ (op[t].req = "restart" /\ pc[t] # "halt")
  <2>1. Carries(t) /\ op'[t].was = op[t].was /\ op'[t].owes = b
    BY <1>1, Owes, Zenon DEF Halted
  <2> QED
    BY <2>1, Zenon
<1>3. Inside(t)
  BY <1>1, <1>2, Names DEF Inside, Halted, AfterHalt, Go, TypeOK, Steps, Halting,
     OnPath, GameUp, shared
<1>4. OnPath(t)'
  BY <1>1 DEF Halted, AfterHalt, Go, Halting, OnPath
<1>5. Offline(t)'
  BY <1>1, Names DEF Halted, TypeOK, Offline, GameUp
<1>6. Owing(t)'
  BY <1>1, <1>2 DEF Halted, AfterHalt, Go, TypeOK, OnPath, Owing
<1> QED
  BY <1>3, <1>4, <1>5, <1>6, InsideKeeps

\* start_game, which pays what is owed whether it succeeds or raises.
LEMMA LaunchKeeps == ASSUME IInv, NEW t \in Threads, Launch(t) PROVE IInv'
<1>1. TypeOK /\ Serving(t) /\ OnPath(t) /\ Offline(t) /\ Owing(t)
  BY DEF IInv, ThreadOK
<1>2. Carries(t) /\ op'[t].was = op[t].was /\ op'[t].owes = FALSE
  BY <1>1, Owes DEF Launch
<1>3. Inside(t)
  BY <1>1, <1>2 DEF Inside, Launch, StartGame, Go, TypeOK, Steps, OnPath, server,
     shared
<1>4. OnPath(t)'
  BY <1>1, <1>2 DEF Launch, Carries, Go, TypeOK, Halting, OnPath
<1>5. Offline(t)'
  BY <1>1 DEF Launch, Go, TypeOK, Offline
<1>6. Owing(t)'
  BY <1>2 DEF Owing
<1> QED
  BY <1>3, <1>4, <1>5, <1>6, InsideKeeps

\* The except clause of update starts a server that ran and is down.
LEMMA RecoverKeeps == ASSUME IInv, NEW t \in Threads, Recover(t) PROVE IInv'
<1>1. TypeOK /\ Serving(t) /\ OnPath(t) /\ Offline(t) /\ Owing(t)
  BY DEF IInv, ThreadOK
<1>2. Carries(t) /\ op'[t].was = op[t].was /\ op'[t].owes = (op[t].owes /\ ~(op[t].was /\ ~GameUp))
  BY <1>1, Owes DEF Recover
<1>3. Inside(t)
  BY <1>1, <1>2 DEF Inside, Recover, StartGame, Go, TypeOK, Steps, OnPath, GameUp,
     server, shared
<1>4. OnPath(t)'
  BY <1>1 DEF Recover, Go, Halting, OnPath
<1>5. Offline(t)'
  BY DEF Recover, Go, Offline
<1>6. Owing(t)'
  BY <1>1, <1>2 DEF Recover, Owing
<1> QED
  BY <1>3, <1>4, <1>5, <1>6, InsideKeeps

\* The idle watcher counts the players.
LEMMA IdlePollKeeps == ASSUME IInv, IdlePoll PROVE IInv'
<1>1. TypeOK /\ Serving(Idle) /\ OnPath(Idle) /\ Offline(Idle) /\ Owing(Idle)
  BY Names DEF IInv, ThreadOK
<1>2. Carries(Idle) /\ op'[Idle].was = op[Idle].was /\ op'[Idle].owes = op[Idle].owes
  BY <1>1, Names, Stays DEF IdlePoll
<1>3. Inside(Idle)
  BY <1>1, <1>2, Names DEF Inside, IdlePoll, Go, TypeOK, Steps, OnPath, GameUp, server
<1>4. OnPath(Idle)'
  BY <1>1 DEF IdlePoll, Go, TypeOK, Halting, OnPath
<1>5. Offline(Idle)'
  BY <1>1 DEF IdlePoll, Go, TypeOK, Offline
<1>6. Owing(Idle)'
  BY <1>1 DEF IdlePoll, Owing
<1> QED
  BY <1>3, <1>4, <1>5, <1>6, Names, InsideKeeps

\* The idle watcher saves and counts again, or gives the shutdown up.
LEMMA IdleDefersKeeps == ASSUME IInv, IdleDefers PROVE IInv'
<1>1. TypeOK /\ Serving(Idle) /\ OnPath(Idle) /\ Offline(Idle) /\ Owing(Idle)
  BY Names DEF IInv, ThreadOK
<1>2. Carries(Idle) /\ op'[Idle].was = op[Idle].was /\ op'[Idle].owes = op[Idle].owes
  BY <1>1, Names, Stays DEF IdleDefers
<1>3. Inside(Idle)
  BY <1>1, <1>2 DEF Inside, IdleDefers, Go, TypeOK, Steps, OnPath, GameUp, server
<1>4. OnPath(Idle)'
  BY <1>1 DEF IdleDefers, Go, TypeOK, Halting, OnPath
<1>5. Offline(Idle)'
  BY <1>1 DEF IdleDefers, Go, TypeOK, Offline
<1>6. Owing(Idle)'
  BY <1>1 DEF IdleDefers, Owing
<1> QED
  BY <1>3, <1>4, <1>5, <1>6, Names, InsideKeeps

\* control() dispatches a request: it is refused, or its first step follows.
LEMMA BeginKeeps == ASSUME IInv, NEW t \in Threads, Begin(t) PROVE IInv'
<1>1. TypeOK /\ Serving(t) /\ OnPath(t)
  BY DEF IInv, ThreadOK
<1>2. CASE maintenance /\ op[t].req \in {"start", "stop", "restart", "backup", "update"}
  <2>1. Carries(t) /\ op'[t].was = op[t].was /\ op'[t].owes = op[t].owes
    BY <1>1, <1>2, Ends DEF Begin, Errors
  <2>2. Inside(t)
    BY <1>1, <1>2, <2>1 DEF Inside, Begin, Go, TypeOK, Steps, GameUp, server
  <2>3. OnPath(t)' /\ Offline(t)' /\ Owing(t)'
    BY <1>1, <1>2, <2>1 DEF Begin, Go, TypeOK, OnPath, Offline, Owing, Halting
  <2> QED
    BY <2>2, <2>3, InsideKeeps
<1>3. CASE ~(maintenance /\ op[t].req \in {"start", "stop", "restart", "backup", "update"})
  <2> DEFINE b == op[t].req \in {"restore", "update"} /\ GameUp
             p == [op[t] EXCEPT !.was = b]
  <2>1. /\ p \in Operations /\ p.req = op[t].req /\ (p.was <=> b) /\ p.owes = op[t].owes
    BY <1>1 DEF TypeOK, Operations
  <2>2. op' = [op EXCEPT ![t] = p]
    BY <1>3 DEF Begin
  <2>3. op[t].req \in DOMAIN FirstStep
    BY <1>1 DEF Begin, Serving, Steps, RequestsOf, Requests, FirstStep
  <2>4. pc[t] = "begin" /\ pc' = [pc EXCEPT ![t] = FirstStep[op[t].req]]
    BY <1>3 DEF Begin, Go
  <2>5. op'[t] = p /\ pc'[t] = FirstStep[op[t].req] /\ \A u \in Threads \ {t} : op'[u] = op[u]
    BY <1>1, <2>2, <2>4 DEF TypeOK
  <2> HIDE DEF p, b
  <2>a. /\ b <=> op[t].req \in {"restore", "update"} /\ GameUp
        /\ GameUp' <=> GameUp
    BY DEF b, Begin, GameUp, server
  <2>6. Carries(t)
    BY <1>1, <2>a, <2>1, <2>2 DEF TypeOK, Carries
  <2>7. Inside(t)
    <3>1. pc'[t] \in Steps /\ pc'[t] # "done"
      BY <2>3, <2>5 DEF FirstStep, Steps
    <3> QED
      BY <1>1, <1>3, <2>a, <2>5, <2>6, <3>1 DEF Inside, Begin, TypeOK, Steps, server
  <2>8. OnPath(t)'
    BY <2>a, <2>1, <2>3, <2>5 DEF OnPath, Halting, FirstStep, AfterHalt
  <2>9. Offline(t)' /\ Owing(t)'
    BY <1>1, <2>a, <2>1, <2>3, <2>4, <2>5 DEF OnPath, Offline, Owing, FirstStep
  <2> QED
    BY <2>7, <2>8, <2>9, InsideKeeps
<1> QED
  BY <1>2, <1>3

-----------------------------------------------------------------------------
(* Entering and leaving an operation, and the steps outside of any.        *)

\* A thread that was waiting takes operation_lock.
LEMMA AcquireKeeps == ASSUME IInv, NEW t \in Threads, Acquire(t) PROVE IInv'
<1> USE Names DEF IInv, Acquire, LockFree, Go, GameUp, server, Steps
<1>1. TypeOK'
  BY DEF TypeOK, Labels
<1>2. OperationsExclusive'
  BY DEF OperationsExclusive, TypeOK
<1>3. MaintenanceScoped'
  BY DEF MaintenanceScoped
<1>4. \A u \in Threads : ThreadOK(u)'
  BY DEF ThreadOK, Serving, OnPath, Offline, Owing, Halting
<1>5. Drained'
  BY DEF Drained, TypeOK
<1> QED
  BY <1>1, <1>2, <1>3, <1>4, <1>5

\* t's operation ends and it gives up operation_lock.
Leaves(t) == /\ pc[t] \in Steps /\ pc' = [pc EXCEPT ![t] = pc'[t]]
             /\ pc'[t] \in {"free", "dead", "exited", "children"}
             /\ t = Main <=> pc'[t] = "children"
             /\ op' = [op EXCEPT ![t] = NoOperation]
             /\ lock' = None /\ maintenance' = FALSE
             /\ UNCHANGED <<game, alive, stopping, idleSince>> /\ idleStopped' \in BOOLEAN

\* A thread that ends its operation gives up the lock, the flag it raised and the record.
LEMMA LeavesKeeps ==
  ASSUME IInv, NEW t \in Threads, Leaves(t), t = Main => pc[t] = "done"
  PROVE  IInv'
<1> USE Names DEF IInv, Leaves, GameUp
<1>1. TypeOK'
  BY Nothing DEF TypeOK, Labels
<1>2. OperationsExclusive' /\ MaintenanceScoped'
  BY DEF OperationsExclusive, MaintenanceScoped, TypeOK, Steps
<1>3. ASSUME NEW u \in Threads PROVE ThreadOK(u)'
  <2>1. CASE u = t
    BY Nothing DEF ThreadOK, Serving, OnPath, Offline, Owing, Halting, TypeOK, Steps
  <2>2. CASE u # t
    <3>1. pc'[u] = pc[u] /\ op'[u] = op[u] /\ ThreadOK(u)
      BY <2>2 DEF TypeOK
    <3> QED
      BY <3>1 DEF ThreadOK, Serving, OnPath, Offline, Owing
  <2> QED
    BY <2>1, <2>2
<1>4. Drained'
  BY DEF Drained, TypeOK, Steps, NoOperation
<1> QED
  BY <1>1, <1>2, <1>3, <1>4

\* control() returns or raises.
LEMMA ReleaseKeeps == ASSUME IInv, NEW t \in Threads, Release(t) PROVE IInv'
<1>1. lock = t /\ maintenance' = FALSE
  BY DEF IInv, OperationsExclusive, MaintenanceScoped, Release, FlagAfter, Steps
<1>2. Leaves(t)
  BY <1>1 DEF Release, Leaves, Go, server, Steps, IInv, TypeOK
<1> QED
  BY <1>2, LeavesKeeps DEF Release

\* The idle watcher requests the shutdown and its thread returns.
LEMMA IdleShutsDownKeeps == ASSUME IInv, IdleShutsDown PROVE IInv'
<1>1. lock = Idle /\ op[Idle].req = "idle"
  BY Names DEF IInv, ThreadOK, OnPath, OperationsExclusive, IdleShutsDown, Steps
<1>2. Leaves(Idle)
  BY <1>1, Names DEF IInv, TypeOK, MaintenanceScoped, IdleShutsDown, Leaves, Go, Steps,
     Main, Idle
<1> QED
  BY <1>2, Names, LeavesKeeps DEF Main, Idle

\* t asks for an operation of its own while requests are still accepted or it is the drain.
LEMMA AskKeeps ==
  ASSUME IInv, NEW t \in Threads, NEW a \in RequestsOf(t), Ask(t, a), UNCHANGED <<server, shared>>,
         pc[t] \in {"free", "closing"}, t = Main => HandlersJoined,
         t \in Handlers => pc[Main] \notin Steps \cup {"wait", "children", "exited"}
  PROVE  IInv'
<1> USE Names DEF IInv, Ask, Go, GameUp, server, shared
<1>0. a \in Requests \cup {"drain", "idle"}
  BY DEF RequestsOf, Requests
<1>1. TypeOK'
  BY <1>0 DEF TypeOK, Labels, Operations
<1>2. OperationsExclusive' /\ MaintenanceScoped'
  BY DEF OperationsExclusive, MaintenanceScoped, Steps
<1>3. op[t] = NoOperation
  BY DEF ThreadOK, Serving, Steps
<1>4. ASSUME NEW u \in Threads PROVE ThreadOK(u)'
  <2>1. CASE u = t
    <3> DEFINE p == [NoOperation EXCEPT !.req = a]
    <3>1. p.req = a /\ ~p.was /\ ~p.owes
      BY DEF NoOperation
    <3>2. op'[t] = p /\ pc'[t] = "wait"
      BY <1>3 DEF TypeOK
    <3> QED
      BY <2>1, <3>1, <3>2 DEF ThreadOK, Serving, OnPath, Offline, Owing, Halting
  <2>2. CASE u # t
    <3>1. pc'[u] = pc[u] /\ op'[u] = op[u] /\ ThreadOK(u)
      BY <2>2 DEF TypeOK
    <3> QED
      BY <3>1 DEF ThreadOK, Serving, OnPath, Offline, Owing
  <2> QED
    BY <2>1, <2>2
<1>5. Drained'
  BY DEF Drained, HandlersJoined
<1> QED
  BY <1>1, <1>2, <1>4, <1>5

\* The requests accepted, the slots taken, the idle check and the drain are such steps.
LEMMA AsksKeep ==
  ASSUME IInv,
         \/ \E h \in Handlers, a \in Requests : Accept(h, a)
         \/ \E a \in {"update", "backup"} : TakeSlot(a)
         \/ IdleChecks \/ MainDrain
  PROVE  IInv'
<1>1. ASSUME NEW h \in Handlers, NEW a \in Requests, Accept(h, a) PROVE IInv'
  BY <1>1, Names, AskKeeps DEF Accept, RequestsOf, Steps
<1>2. ASSUME NEW a \in {"update", "backup"}, TakeSlot(a) PROVE IInv'
  BY <1>2, Names, AskKeeps DEF TakeSlot, RequestsOf, Main, Scheduler
<1>3. CASE IdleChecks
  BY <1>3, Names, AskKeeps DEF IdleChecks, RequestsOf, Main, Scheduler, Idle
<1>4. CASE MainDrain
  BY <1>4, Names, AskKeeps DEF MainDrain, RequestsOf
<1> QED
  BY <1>1, <1>2, <1>3, <1>4

\* No operation moves and no game starts: the environment, the watcher's wait, and run().
LEMMA OthersKeep ==
  ASSUME IInv,
         \/ \E g \in Games : GameExits(g)
         \/ Terminate \/ IdleSkips
         \/ MainPoll \/ MainReport \/ MainClear \/ MainClose \/ MainExit
         \/ \E w \in {Scheduler, Idle} : WorkerEnds(w)
  PROVE  IInv'
<1>1. /\ UNCHANGED <<op, lock, maintenance>> /\ alive' \subseteq alive
      /\ (game' = game \/ game' = None) /\ (GameUp' => GameUp)
      /\ \A u \in Threads : pc'[u] # pc[u] => pc[u] \notin Steps \cup {"wait"}
                                              /\ pc'[u] \notin Steps \cup {"wait", "children"}
  BY Names DEF IInv, TypeOK, GameExits, Terminate, IdleSkips, MainPoll, MainReport,
     MainClear, MainClose, MainExit, WorkerEnds, Go, GameUp, server, shared, Steps
<1>2. TypeOK'
  BY DEF IInv, TypeOK, GameExits, Terminate, IdleSkips, MainPoll, MainReport, MainClear,
     MainClose, MainExit, WorkerEnds, Go, server, shared, Labels
<1>3. OperationsExclusive' /\ MaintenanceScoped'
  BY <1>1 DEF IInv, OperationsExclusive, MaintenanceScoped
<1>4. \A u \in Threads : ThreadOK(u)'
  BY <1>1 DEF IInv, ThreadOK, Serving, OnPath, Offline, Owing, Steps, Halting
<1>5. Drained'
  <2>1. \A h \in Handlers : pc'[h] = pc[h]
    BY Names DEF IInv, TypeOK, GameExits, Terminate, IdleSkips, MainPoll, MainReport,
       MainClear, MainClose, MainExit, WorkerEnds, Go
  <2>2. pc'[Main] = "exited" => pc[Main] \in {"children", "exited"}
    BY Names DEF IInv, TypeOK, GameExits, Terminate, IdleSkips, MainPoll, MainReport,
       MainClear, MainClose, MainExit, WorkerEnds, Go, Main, Scheduler, Idle
  <2> QED
    BY <1>1, <2>1, <2>2, Names DEF IInv, Drained, Steps
<1> QED
  BY <1>2, <1>3, <1>4, <1>5 DEF IInv

-----------------------------------------------------------------------------
(* The invariant is inductive, and implies what the runs check.            *)

\* The state in which run() enters its loop satisfies the invariant.
THEOREM Initially == Init => IInv
<1> SUFFICES ASSUME Init PROVE IInv
  OBVIOUS
<1> USE Names DEF Init, GameUp
<1>1. TypeOK
  BY DEF TypeOK, Labels, Operations, NoOperation
<1>2. OperationsExclusive /\ MaintenanceScoped
  BY DEF OperationsExclusive, MaintenanceScoped, Steps
<1>3. \A t \in Threads : ThreadOK(t)
  BY DEF ThreadOK, Serving, OnPath, Offline, Owing, NoOperation, Steps, Halting
<1>4. Drained
  BY DEF Drained, Steps
<1> QED
  BY <1>1, <1>2, <1>3, <1>4 DEF IInv

\* Every step of every thread and of the environment preserves it.
THEOREM Inductive == IInv /\ [Next]_vars => IInv'
<1> SUFFICES ASSUME IInv, [Next]_vars PROVE IInv'
  OBVIOUS
<1>1. CASE UNCHANGED vars
  BY <1>1 DEF vars, server, shared, IInv, TypeOK, OperationsExclusive,
     MaintenanceScoped, ThreadOK, Serving, OnPath, Offline, Owing, Drained, GameUp
<1>2. ASSUME NEW t \in Threads, Operation(t) PROVE IInv'
  BY <1>2, AcquireKeeps, BeginKeeps, RejectVersionKeeps, StatusKeeps, ReleaseKeeps,
     HaltedKeeps, InsistKeeps, AskToShutDownKeeps, KillKeeps, SaveFirstKeeps,
     SnapshotKeeps, SwapKeeps, SteamCMDKeeps, LaunchKeeps, RecoverKeeps DEF Operation
<1>3. CASE MainLoop
  BY <1>3, OthersKeep, AsksKeep DEF MainLoop
<1>4. CASE IdleWatch
  BY <1>4, OthersKeep, AsksKeep, IdlePollKeeps, IdleDefersKeeps, IdleShutsDownKeeps
     DEF IdleWatch
<1>5. CASE Environment
  BY <1>5, OthersKeep, AsksKeep DEF Environment
<1>6. CASE Work
  BY <1>2, <1>3, <1>4, <1>6, OthersKeep, AsksKeep DEF Work
<1> QED
  BY <1>1, <1>5, <1>6 DEF Next, Exited

\* Hence it always holds.
THEOREM Invariant == Spec => []IInv
BY Initially, Inductive, PTL DEF Spec

\* It is strong enough for all six.
THEOREM Consequences ==
  IInv => /\ TypeOK /\ OperationsExclusive /\ MaintenanceScoped
          /\ OfflineWhileReplacing /\ NoServerStranded /\ ExitsDrained
BY DEF IInv, ThreadOK, OfflineWhileReplacing, NoServerStranded, ExitsDrained, Offline,
   Owing, Drained, Up

\* Every reachable state of the supervisor is well formed, for any number of handlers.
THEOREM TypeCorrect == Spec => []TypeOK
BY Invariant, Consequences, PTL

\* operation_lock serializes control(), the idle check and the drain of graceful_stop:
\* at most one thread is inside an operation.
THEOREM Exclusion == Spec => []OperationsExclusive
BY Invariant, Consequences, PTL

\* restore and SteamCMD run only while the PalServer that self.game tracks is down,
\* whatever crashes, polls and requests come between.
THEOREM OfflineReplacement == Spec => []OfflineWhileReplacing
BY Invariant, Consequences, PTL

\* self.maintenance is up only inside the update that raised it.
THEOREM FlagScoped == Spec => []MaintenanceScoped
BY Invariant, Consequences, PTL

\* No path of restart, restore and update, exceptions included, ends with a server
\* stopped by it that it has not tried to start.
THEOREM NobodyStranded == Spec => []NoServerStranded
BY Invariant, Consequences, PTL

\* At exit no request is under way and the tracked game is down, although the daemon
\* workers may still run operations between the drain and the exit.
THEOREM CleanExit == Spec => []ExitsDrained
BY Invariant, Consequences, PTL

-----------------------------------------------------------------------------
(* One cause of a game that nobody owns.                                   *)

\* The main loop forgets only a game that is down.  The code does not see to it: the
\* poll, the message and the assignment that clears self.game take no lock, and a start
\* may come between them.
ClearsTheDead == MainClear => ~GameUp

\* No PalServer process at all runs while trees or the installation are replaced.
NoneWhileReplacing == \A t \in Threads : pc[t] \in {"swap", "steamcmd"} => alive = {}

\* Every step but such a clear keeps the running processes among the tracked one: the
\* assignments under the lock forget the game only once it is down, and start_game
\* starts one only then.
LEMMA OwnedKeeps ==
  ASSUME IInv, [Next]_vars, ClearsTheDead, OwnsEveryGame
  PROVE  OwnsEveryGame'
<1> USE DEF OwnsEveryGame, GameUp, server
<1>1. CASE UNCHANGED server
  BY <1>1
<1>2. ASSUME NEW t \in Threads, Operation(t) PROVE OwnsEveryGame'
  <2>1. CASE Status(t) \/ Halted(t) \/ Kill(t)
    BY <2>1 DEF Status, Halted, Kill
  <2>2. CASE StartGame
    BY <2>2 DEF StartGame
  <2> QED
    BY <1>1, <1>2, <2>1, <2>2 DEF Operation, Acquire, Begin, RejectVersion, Release, Insist,
       AskToShutDown, SaveFirst, Snapshot, Swap, SteamCMD, Launch, Recover
<1>3. CASE MainLoop
  BY <1>1, <1>3 DEF MainLoop, MainPoll, MainReport, MainClear, MainClose, MainDrain, MainExit,
     ClearsTheDead
<1>4. CASE IdleShutsDown
  BY <1>4 DEF IdleShutsDown
<1>5. CASE IdleWatch
  BY <1>1, <1>4, <1>5 DEF IdleWatch, IdleSkips, IdleChecks, IdlePoll, IdleDefers
<1>6. ASSUME NEW g \in Games, GameExits(g) PROVE OwnsEveryGame'
  BY <1>6 DEF GameExits
<1>7. CASE Environment
  BY <1>1, <1>6, <1>7 DEF Environment, Accept, Terminate
<1>8. CASE Work
  BY <1>1, <1>2, <1>3, <1>5, <1>8 DEF Work, TakeSlot, WorkerEnds
<1> QED
  BY <1>1, <1>7, <1>8 DEF Next, Exited, vars

\* "This process owns every child it starts", and a restore or SteamCMD then meets no
\* running PalServer at all, in every behaviour whose main loop forgets only a game that
\* is down: its unlocked clear is the one step of the supervisor that can break either.
THEOREM OwnedUnlessForgotten ==
  Spec /\ [][ClearsTheDead]_vars => [](OwnsEveryGame /\ NoneWhileReplacing)
<1>1. Init => OwnsEveryGame
  BY DEF Init, OwnsEveryGame
<1>2. IInv /\ OwnsEveryGame /\ [Next]_vars /\ [ClearsTheDead]_vars => OwnsEveryGame'
  <2>1. CASE UNCHANGED vars
    BY <2>1 DEF vars, server, OwnsEveryGame
  <2> QED
    BY <2>1, OwnedKeeps
<1>3. IInv /\ OwnsEveryGame => NoneWhileReplacing
  BY Consequences DEF OfflineWhileReplacing, OwnsEveryGame, GameUp, NoneWhileReplacing
<1> QED
  BY <1>1, <1>2, <1>3, Invariant, PTL DEF Spec

=============================================================================
