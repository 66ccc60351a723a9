-------------------------------- MODULE MCIrq --------------------------------
(* Two or three processes; the constants are given in the cfg files. *)
EXTENDS Irq
=============================================================================
