--------------------------- MODULE MCIdleWatcher ---------------------------
(***************************************************************************)
(* Two invocations of the server; a timeout of three minutes and a grace of  *)
(* one.                                                                    *)
(***************************************************************************)
EXTENDS IdleWatcher, TLC
=============================================================================
