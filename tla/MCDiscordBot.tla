---------------------------- MODULE MCDiscordBot ---------------------------
(***************************************************************************)
(* Two users, two activations of the two units, and two faults.            *)
(***************************************************************************)
EXTENDS DiscordBot, TLC
=============================================================================
