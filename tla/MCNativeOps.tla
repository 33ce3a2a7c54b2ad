----------------------------- MODULE MCNativeOps -----------------------------
(* NativeOps with two invocations, of any two operations, and two faults.   *)
EXTENDS NativeOps
=============================================================================
