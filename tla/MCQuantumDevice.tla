--------------------------- MODULE MCQuantumDevice ---------------------------
(****************************************************************************)
(* Small instances of QuantumDevice for TLC.                                *)
(****************************************************************************)
EXTENDS QuantumDevice, TLC

Symmetry == Permutations(Tasks) \cup Permutations(Files) \cup Permutations(Blocks)
==============================================================================
