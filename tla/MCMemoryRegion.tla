---------------------------- MODULE MCMemoryRegion ---------------------------
(****************************************************************************)
(* Small instances of MemoryRegion for TLC.                                 *)
(****************************************************************************)
EXTENDS MemoryRegion
==============================================================================
