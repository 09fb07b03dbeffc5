--------------------------- MODULE MCAddressSpace ---------------------------
(***************************************************************************)
(* An instance of AddressSpace for TLC: two L1 slots of two pages, the     *)
(* stack at the end of the second one.                                     *)
(***************************************************************************)
EXTENDS AddressSpace

Stack == <<<<1, 1>>>>

\* A program in the slot of the stack, one below it whose segments share a page,
\* and one that is not there.
Small   == [found |-> TRUE,  pages |-> <<<<1, 0>>>>]
Large   == [found |-> TRUE,  pages |-> <<<<0, 0>>, <<0, 0>>, <<0, 1>>>>]
Missing == [found |-> FALSE, pages |-> <<>>]
AllImages == {Small, Large, Missing}

SomeFrames == 1 .. 6
SomeObjs == 1 .. 9

\* Room for an exec beside another process of the small program; less, where
\* either of pages and heap runs out at various points; and too little to start.
SomeBoots == {[frames |-> SomeFrames, objs |-> SomeObjs, disk |-> {Small, Missing}],
              [frames |-> 1 .. 4, objs |-> SomeObjs, disk |-> AllImages],
              [frames |-> 1 .. 5, objs |-> 1 .. 6, disk |-> AllImages],
              [frames |-> SomeFrames, objs |-> {1}, disk |-> {Small}],
              [frames |-> {1}, objs |-> SomeObjs, disk |-> {Small}]}
=============================================================================
