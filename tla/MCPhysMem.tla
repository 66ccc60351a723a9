----------------------------- MODULE MCPhysMem -----------------------------
(* A machine of fourteen two-byte pages whose memory map has a hole,       *)
(* unaligned entries and two overlapping usable entries.                   *)
EXTENDS PhysMem

MCMemMap == << [base |-> 1,  length |-> 5, type |-> 1],
               [base |-> 7,  length |-> 2, type |-> 2],
               [base |-> 9,  length |-> 8, type |-> 1],
               [base |-> 13, length |-> 14, type |-> 1] >>
=============================================================================
