---------------------------- MODULE MCSeastarIO ----------------------------
(***************************************************************************)
(* Bounds for TLC: four sends fill the queue behind a write, go into the   *)
(* window between the end of a loop and its final step, and restart a loop *)
(* on a second connection, after a write that failed; two sizes and a      *)
(* limit make one buffer fit where the other does not.  Two connections    *)
(* are enough for one to replace the other, and for two loops.             *)
(***************************************************************************)
EXTENDS SeastarIO

MCSizes == {2, 3}
MCQueueMaxSizes == {0, 6}
=============================================================================
