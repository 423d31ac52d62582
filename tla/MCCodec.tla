------------------------------ MODULE MCCodec ------------------------------
(***************************************************************************)
(* Bounds for TLC: a byte has two values, so that two bytes hold lengths   *)
(* up to 3 and a string of 4 bytes is the shortest long one.  The integers *)
(* are the smallest and one that reads differently backwards.  Three       *)
(* fields behind the id: a long one displaces the second, and the third    *)
(* may then run past the end of the packet.                                *)
(***************************************************************************)
EXTENDS Codec

MCInts == {0, 6}
=============================================================================
