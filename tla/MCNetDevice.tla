----------------------------- MODULE MCNetDevice -----------------------------
(****************************************************************************)
(* Small instances of NetDevice for TLC.                                    *)
(****************************************************************************)
EXTENDS NetDevice, TLC

Symmetry == Permutations(Senders) \cup Permutations(Valid)
==============================================================================
