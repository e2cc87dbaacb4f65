-------------------------- MODULE MCQuantumClassical -------------------------
(****************************************************************************)
(* Small instances of QuantumClassical for TLC.                             *)
(****************************************************************************)
EXTENDS QuantumClassical, TLC

Symmetry == Permutations(Threads)
==============================================================================
