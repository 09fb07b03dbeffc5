------------------------------- MODULE MCKbd -------------------------------
(***************************************************************************)
(* An instance of Kbd for TLC: a queue of 2 with 2-bit indices, so that    *)
(* the rings fill up and the indices wrap within a few events.             *)
(***************************************************************************)
EXTENDS Kbd

AllKinds == {"down", "up", "key", "none"}
=============================================================================
