--------------------------- MODULE MCProcessHandle ---------------------------
(* ProcessHandle.tla by itself, for what its source says of every handle.    *)
EXTENDS ProcessHandle
=============================================================================
