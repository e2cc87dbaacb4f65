--------------------------- MODULE MCQuantumMemory ---------------------------
(****************************************************************************)
(* Small instances of QuantumMemory for TLC.                                *)
(****************************************************************************)
EXTENDS QuantumMemory, TLC

Symmetry == Permutations(Threads) \cup Permutations(Blocks)
==============================================================================
