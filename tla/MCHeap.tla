-------------------------------- MODULE MCHeap --------------------------------
(* Pages of 24 units with a header of 2 and slab objects of 6; 8 and 12 are  *)
(* taken from the block list, and 23 is rounded to more than a page holds.   *)
EXTENDS Heap
=============================================================================
