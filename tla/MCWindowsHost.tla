--------------------------- MODULE MCWindowsHost ---------------------------
(***************************************************************************)
(* One request thread beside the scheduler and the bot; a day of two hours *)
(* of two minutes.                                                         *)
(***************************************************************************)
EXTENDS WindowsHost, TLC

EveryHour == [kind |-> "every", hours |-> 1]
Daily     == [kind |-> "daily", at |-> 2]
=============================================================================
