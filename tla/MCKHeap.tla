------------------------------ MODULE MCKHeap ------------------------------
(***************************************************************************)
(* Instances of KHeap for TLC, with the header, alignment and split sizes  *)
(* of the code in words of 4 bytes.                                        *)
(***************************************************************************)
EXTENDS KHeap

\* One aligned size that fits, one of size 0, one whose alignment is no power
\* of two.
SomeAligned == {<<3, 4>>, <<0, 4>>, <<3, 6>>}
=============================================================================
