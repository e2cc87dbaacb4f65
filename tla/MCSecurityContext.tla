-------------------------- MODULE MCSecurityContext --------------------------
(****************************************************************************)
(* Small instances of SecurityContext for TLC.                              *)
(****************************************************************************)
EXTENDS SecurityContext, TLC

Symmetry == Permutations(Tasks) \cup Permutations(Contexts)
==============================================================================
