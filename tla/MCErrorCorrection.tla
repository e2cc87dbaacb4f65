-------------------------- MODULE MCErrorCorrection --------------------------
(****************************************************************************)
(* Small instances of ErrorCorrection for TLC.                              *)
(****************************************************************************)
EXTENDS ErrorCorrection, TLC

Symmetry == Permutations(Threads) \cup Permutations(Registers)

FlipContents == {{}, {0}, {1}, {2}}
==============================================================================
