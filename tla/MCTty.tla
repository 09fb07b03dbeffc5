------------------------------- MODULE MCTty -------------------------------
(***************************************************************************)
(* Instances of Tty for TLC: small rings, and words that wrap at twice    *)
(* their size.                                                              *)
(***************************************************************************)
EXTENDS Tty

AllKeys    == {"ch", "nl", "bs"}
AllOps     == {"readline", "getchar", "getchar_nb"}
=============================================================================
