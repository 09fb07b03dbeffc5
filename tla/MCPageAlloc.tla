---------------------------- MODULE MCPageAlloc ----------------------------
(***************************************************************************)
(* Instances of PageAlloc for TLC.                                         *)
(***************************************************************************)
EXTENDS PageAlloc, TLC

\* The handles are interchangeable.
HandleSymmetry == Permutations(Handles)

\* Runs aligned to a divisor of the 8 pages of RAM, and one that cannot fit.
FittingAligned == {<<2, 2>>, <<1, 4>>, <<0, 2>>, <<1, 0>>}
=============================================================================
