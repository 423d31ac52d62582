----------------------------- MODULE MCPosixIO -----------------------------
(***************************************************************************)
(* Bounds for TLC: frames of two and three bytes are written in parts; a   *)
(* limit of four lets one of them wait and refuses the second; three sends *)
(* and two connections make a send meet a queue that an earlier connection *)
(* left; size_t is scaled to four bits, which keeps -1 above every size.   *)
(***************************************************************************)
EXTENDS PosixIO

MCSizes == {2, 3}
MCQueueMaxSizes == {0, 4}
=============================================================================
