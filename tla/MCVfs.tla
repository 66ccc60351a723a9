-------------------------------- MODULE MCVfs --------------------------------
(* One name, paths of up to three components, files of up to two bytes. *)
EXTENDS Vfs

MCChunks == {<<>>, <<2>>, <<3, 4>>}
=============================================================================
