------------------------------ MODULE MCPointer ------------------------------
(* First bytes with and without sign bits and buttons, a byte that can be  *)
(* no first byte, and 9 as an amount too.  One packet crosses the screen.  *)
EXTENDS Pointer
=============================================================================
