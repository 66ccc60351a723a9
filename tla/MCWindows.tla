------------------------------ MODULE MCWindows ------------------------------
(* Two overlapping places for windows, on a screen whose coordinates wrap  *)
(* at 8: drags move windows over its edges.                                *)
EXTENDS Windows, TLC

MCSymmetry == Permutations(Titles)

MCRects == {[x |-> 0, y |-> 0, w |-> 4, h |-> 3], [x |-> 2, y |-> 1, w |-> 5, h |-> 4]}
=============================================================================
