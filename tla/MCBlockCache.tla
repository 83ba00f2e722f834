---------------------------- MODULE MCBlockCache ----------------------------
(* Model-checking instance of BlockCache: constants given in the .cfg files. *)
EXTENDS BlockCache
=============================================================================
