----------------------------- MODULE WindowStack -----------------------------
(* What the window array promises: an ordered stack of at most MaxWindows  *)
(* windows, front first, each in its place on the screen.  Creating and    *)
(* raising put a window in front, closing removes one, and only the front  *)
(* window is ever moved.                                                   *)
EXTENDS Naturals, SequencesExt

CONSTANT MaxWindows

VARIABLE stack  \* records with a title, a place x, y and a size w, h

Create ==
    /\ Len(stack) < MaxWindows
    /\ Len(stack') = Len(stack) + 1
    /\ Tail(stack') = stack

Raise(i) == stack' = <<stack[i]>> \o RemoveAt(stack, i)

Close(i) == stack' = RemoveAt(stack, i)

Move ==
    /\ Len(stack') = Len(stack)
    /\ Tail(stack') = Tail(stack)
    /\ stack'[1] = [stack[1] EXCEPT !.x = stack'[1].x, !.y = stack'[1].y]

Next ==
    \/ Create
    \/ \E i \in 1..Len(stack) : Raise(i) \/ Close(i)
    \/ stack # <<>> /\ Move

Spec == stack = <<>> /\ [][Next]_stack
=============================================================================
