----------------------------- MODULE AddressSpace -----------------------------
(***************************************************************************)
(* What paging promises its clients: a partial function from virtual pages *)
(* to page frames, in which no two virtual pages share a frame, changed by *)
(* one map or unmap at a time.                                             *)
(***************************************************************************)
CONSTANTS VirtPages, Frames, None

VARIABLE space

Init == space = [v \in VirtPages |-> None]

Map(v, p) ==
    /\ \A u \in VirtPages : space[u] # p
    /\ space' = [space EXCEPT ![v] = p]

Unmap(v) == space' = [space EXCEPT ![v] = None]

Next == \E v \in VirtPages : Unmap(v) \/ \E p \in Frames : Map(v, p)

Spec == Init /\ [][Next]_space
=============================================================================
