------------------------------ MODULE MCServer ------------------------------
(***************************************************************************)
(* Bounds for TLC: a build with one event, one that adds a second behind   *)
(* it, and one without the first event, which gives its number to the      *)
(* other; two processes, so that a build replaces an older or a newer one, *)
(* or runs again a set-up that failed half way; three messages, one more   *)
(* than a batch takes.                                                     *)
(***************************************************************************)
EXTENDS Server

CONSTANTS login, logout

MCInKinds     == {"good", "unknown", "bad"}
MCEvents      == {login, logout}
MCDeployments == {<<login>>, <<login, logout>>, <<logout>>}
=============================================================================
