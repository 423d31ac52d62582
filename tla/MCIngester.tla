----------------------------- MODULE MCIngester -----------------------------
(***************************************************************************)
(* Bounds for TLC: two workers can reorder messages and end one after the  *)
(* other; two handlers block behind a channel of two messages; four        *)
(* messages fill a batch for each worker.  The kinds are those that pass   *)
(* the listener's test of the length.                                      *)
(***************************************************************************)
EXTENDS Ingester

MCInKinds == {"good", "unknown", "bad"}
=============================================================================
