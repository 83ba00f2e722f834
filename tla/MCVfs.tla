-------------------------------- MODULE MCVfs --------------------------------
(* Model-checking instance of Vfs: constants given in the .cfg files. *)
EXTENDS Vfs
=============================================================================
