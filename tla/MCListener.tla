----------------------------- MODULE MCListener -----------------------------
(***************************************************************************)
(* Bounds for TLC: two frames of a connection, so that a frame follows     *)
(* another; bodies with lengths at both sides of the listener's minimum,   *)
(* two that differ only in their bytes, one that reads like a header, and  *)
(* the empty one.  The minimum is scaled down from 12, which only shortens *)
(* the bodies.                                                             *)
(***************************************************************************)
EXTENDS Listener

MCBodies == {<<>>, <<1, 2>>, <<3, 4, 5>>, <<0, 0, 0, 3>>}
=============================================================================
