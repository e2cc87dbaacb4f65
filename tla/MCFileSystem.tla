----------------------------- MODULE MCFileSystem -----------------------------
(****************************************************************************)
(* Small instances of FileSystem for TLC.                                   *)
(****************************************************************************)
EXTENDS FileSystem, TLC

Symmetry == Permutations(Tasks) \cup Permutations(Names) \cup Permutations(Dentries)
==============================================================================
