------------------------ MODULE MCPerformanceMonitor -------------------------
(****************************************************************************)
(* Small instances of PerformanceMonitor for TLC.                           *)
(****************************************************************************)
EXTENDS PerformanceMonitor, TLC

\* All tasks are samplers, or none is.
Symmetry == Permutations(Contexts) \cup Permutations(Tasks)
==============================================================================
