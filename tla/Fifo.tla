--------------------------------- MODULE Fifo ---------------------------------
(***************************************************************************)
(* What the keyboard driver promises its reader: a first-in first-out      *)
(* queue of bounded length that refuses new items while it is full.        *)
(***************************************************************************)
EXTENDS Naturals, Sequences

CONSTANTS Items, Capacity

VARIABLES queue, out

fifoVars == <<queue, out>>

FifoInit == queue = <<>>

Push(x) ==
    /\ Len(queue) < Capacity
    /\ queue' = Append(queue, x)
    /\ UNCHANGED out

Pop ==
    /\ queue # <<>>
    /\ out' = Head(queue)
    /\ queue' = Tail(queue)

FifoNext == Pop \/ \E x \in Items : Push(x)

FifoSpec == FifoInit /\ [][FifoNext]_fifoVars
=============================================================================
