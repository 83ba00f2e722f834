-------------------------- MODULE MCProcessSyscalls --------------------------
(* Model-checking instance of ProcessSyscalls: constants in the .cfg files. *)
EXTENDS ProcessSyscalls
-----------------------------------------------------------------------------
MCPids == 0..2
MCPorts == {1, 3, 8}
=============================================================================
