--------------------------- MODULE MCMemoryService ---------------------------
(* Small instances of MemoryService for TLC.                               *)
EXTENDS MemoryService, TLC
=============================================================================
