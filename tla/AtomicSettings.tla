--------------------------- MODULE AtomicSettings ---------------------------
(***************************************************************************)
(* What the settings store promises its callers: the editable files change *)
(* by one whole group of updates at a time, until a process dies or a      *)
(* rollback fails in the middle of one.  A group that is cut short leaves  *)
(* some of its files, and says so.                                         *)
(***************************************************************************)
CONSTANTS Files,   \* the editable files
          Updates, \* the groups that are published together: file -> key -> value
          Parts    \* what may be left of a group that is cut short

VARIABLES conf,    \* the content of each file: key -> value
          torn,    \* a group was published in part, and nothing is promised any more
          cut      \* a group was cut short

vars == <<conf, torn, cut>>

\* The files after a group of updates: the keys it sets, over those the file had.
Over(f, g)   == [k \in DOMAIN f \cup DOMAIN g |-> IF k \in DOMAIN f THEN f[k] ELSE g[k]]
Merged(c, u) == [f \in Files |-> IF f \in DOMAIN u THEN Over(u[f], c[f]) ELSE c[f]]

Init == torn = FALSE /\ cut = FALSE

\* A group that changes nothing is no step.
Commit == /\ ~torn /\ conf' # conf /\ UNCHANGED <<torn, cut>>
          /\ \E u \in Updates : conf' = Merged(conf, u)

CutShort == /\ ~torn /\ conf' # conf /\ cut' = TRUE /\ UNCHANGED torn
            /\ \E u \in Parts : conf' = Merged(conf, u)

Tear == torn' = TRUE

Spec == Init /\ [][Commit \/ CutShort \/ Tear]_vars
=============================================================================
