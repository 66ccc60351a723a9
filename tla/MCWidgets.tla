------------------------------- MODULE MCWidgets -------------------------------
(* The root and three more widgets: enough for siblings on both sides of a *)
(* removed one and for a child of a child.  Positions wrap at 3.           *)
EXTENDS Widgets, TLC

Rect(x, y, w, h) == [x |-> x, y |-> y, w |-> w, h |-> h]
MCScreen == Rect(0, 0, 2, 2)
MCKinds == {[bounds |-> Rect(0, 0, 2, 2), on_event |-> "ignored"],
            [bounds |-> Rect(1, 1, 1, 1), on_event |-> "handled"]}
MCPoints == {<<1, 1>>}
MCSymmetry == Permutations(Addresses \ {Root})
=============================================================================
