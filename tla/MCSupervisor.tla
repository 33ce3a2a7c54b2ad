---------------------------- MODULE MCSupervisor ----------------------------
(***************************************************************************)
(* Supervisor on a small instance.  The handler, the scheduler and the     *)
(* draining main thread compete for the lock with the idle watcher, and    *)
(* two process identities are enough for a tracked game and one it lost.   *)
(***************************************************************************)
EXTENDS Supervisor
=============================================================================
