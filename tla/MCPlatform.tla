------------------------------ MODULE MCPlatform ------------------------------
(****************************************************************************)
(* Small instances of Platform for TLC.                                     *)
(****************************************************************************)
EXTENDS Platform, TLC

Symmetry == Permutations(Tasks) \cup Permutations(Devices) \cup Permutations(Archs)
==============================================================================
