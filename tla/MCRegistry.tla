----------------------------- MODULE MCRegistry -----------------------------
(***************************************************************************)
(* Three names; the REST port of the existing world is the public port of  *)
(* the second number, so that a number is passed over.                     *)
(***************************************************************************)
EXTENDS Registry, TLC

Symmetry == Permutations(WorldNames)
=============================================================================
