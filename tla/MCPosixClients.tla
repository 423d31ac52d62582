--------------------------- MODULE MCPosixClients ---------------------------
(***************************************************************************)
(* Bounds for TLC: two turns of the loop with an event of two and one of   *)
(* three bytes, so that a turn finds what the one before left queued; a    *)
(* limit of five holds one turn's events; two refused writes leave offsets *)
(* moved back by one and by two.                                           *)
(***************************************************************************)
EXTENDS PosixClients

MCSizes         == {2, 3}
MCEventSizes    == <<2, 3>>
MCQueueMaxSizes == {0, 5}
=============================================================================
