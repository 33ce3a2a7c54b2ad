--------------------------- MODULE MCSnapshotStore ---------------------------
(* SnapshotStore with few seconds and few retained snapshots: enough for    *)
(* two snapshots beyond the limit, one of them half removed.                *)
EXTENDS SnapshotStore
=============================================================================
