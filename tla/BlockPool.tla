------------------------------ MODULE BlockPool ------------------------------
(****************************************************************************)
(* What the quantum memory manager promises to its callers: a pool of       *)
(* reference counted blocks whose qubits are charged to one account.        *)
(*                                                                          *)
(* Every operation is atomic here.  A block is granted together with its    *)
(* first reference, is shared by taking further references, and goes back   *)
(* to the pool, with the charge for its qubits, in the step that drops the  *)
(* last reference, never before and never later.  QuantumMemory implements  *)
(* this with a list, per-block counters, two global counters and a lock.    *)
(****************************************************************************)
EXTENDS Integers

CONSTANTS
  Holders,     \* whoever can hold a reference to a block
  Blocks,      \* the addresses a block can have
  Sizes        \* the numbers of qubits a block can be granted with

VARIABLES
  refs,        \* the references held: a set of <<holder, block>>
  granted,     \* granted[b]: the qubits of block b, 0 while b is in the pool
  charged      \* the number of qubits charged for all granted blocks

poolVars == <<refs, granted, charged>>

\* The holders of a reference to b among the references R.
HoldersOf(R, b) == {h \in Holders : <<h, b>> \in R}

Init ==
  /\ refs = {}
  /\ granted = [b \in Blocks |-> 0]
  /\ charged = 0

\* h is granted block b of n qubits and holds its first reference.
Acquire(h, b, n) ==
  /\ granted[b] = 0
  /\ HoldersOf(refs, b) = {}
  /\ granted' = [granted EXCEPT ![b] = n]
  /\ refs' = refs \cup {<<h, b>>}
  /\ charged' = charged + n

\* A reference to b is taken for g by a holder of one.
Share(g, b) ==
  /\ HoldersOf(refs, b) # {}
  /\ refs' = refs \cup {<<g, b>>}
  /\ UNCHANGED <<granted, charged>>

\* h drops its reference while others remain: the block stays granted.
ReleaseShared(h, b) ==
  /\ <<h, b>> \in refs
  /\ HoldersOf(refs, b) # {h}
  /\ refs' = refs \ {<<h, b>>}
  /\ UNCHANGED <<granted, charged>>

\* h drops the last reference: the block and its qubits are given back.
ReleaseLast(h, b) ==
  /\ HoldersOf(refs, b) = {h}
  /\ refs' = refs \ {<<h, b>>}
  /\ granted' = [granted EXCEPT ![b] = 0]
  /\ charged' = charged - granted[b]

\* The manager is unloaded or loaded again: everything is given back.
Reset ==
  /\ refs' = {}
  /\ granted' = [b \in Blocks |-> 0]
  /\ charged' = 0

Next ==
  \/ \E h \in Holders, b \in Blocks, n \in Sizes : Acquire(h, b, n)
  \/ \E h \in Holders, b \in Blocks :
        Share(h, b) \/ ReleaseShared(h, b) \/ ReleaseLast(h, b)
  \/ Reset

Spec == Init /\ [][Next]_poolVars
==============================================================================
