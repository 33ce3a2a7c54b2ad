----------------------------- MODULE MCLiveTrees -----------------------------
(* LiveTrees with the world it starts from and a snapshot and three restores; *)
(* the configurations bound the faults of each restore.                      *)
EXTENDS LiveTrees
=============================================================================
