-------------------------- MODULE CorrectionRounds --------------------------
(****************************************************************************)
(* What error correction promises to callers that run at the same time: the *)
(* rounds happen one after the other.  A round measures one register into   *)
(* the ancilla qubits and corrects that same register by what it measured,  *)
(* in one step.  ErrorCorrection implements this with a lock around a       *)
(* sequence of gates, and two counters that are read without the lock.      *)
(*                                                                          *)
(* A register is seen as the set of its three qubits that read 1, and so    *)
(* are the ancilla qubits: that is all a measurement can tell.  Which       *)
(* correction is right for which measurement is no matter of this module:   *)
(* it is the function Repair.                                               *)
(****************************************************************************)
EXTENDS Integers

CONSTANTS
  Registers,   \* the quantum states that are corrected
  Repair       \* Repair[S]: the qubits flipped to correct what measured as S

VARIABLES
  bits,        \* bits[r]: the qubits of register r that read 1
  ancilla,     \* the ancilla qubits that read 1
  measured     \* the number of rounds that measured a syndrome

roundVars == <<bits, ancilla, measured>>

Qubits == 0 .. 2

Flip(S, T) == (S \ T) \cup (T \ S)

Init ==
  /\ bits \in [Registers -> {{}}]
  /\ ancilla = {}
  /\ measured = 0

\* A complete round on r.
Round(r) ==
  /\ ancilla' = Flip(ancilla, bits[r])
  /\ bits' = [bits EXCEPT ![r] = Flip(@, Repair[ancilla'])]
  /\ measured' = measured + 1

\* A round on r whose correction failed after the measurement.
RoundUncorrected(r) ==
  /\ ancilla' = Flip(ancilla, bits[r])
  /\ measured' = measured + 1
  /\ UNCHANGED bits

\* A round on r that failed when n gates of its measurement were applied.
RoundUnmeasured(r, n) ==
  /\ ancilla' = Flip(ancilla, bits[r] \cap (0 .. n - 1))
  /\ UNCHANGED <<bits, measured>>

\* The owner of r, or noise, leaves its qubits reading S.
Use(r, S) ==
  /\ bits' = [bits EXCEPT ![r] = S]
  /\ UNCHANGED <<ancilla, measured>>

\* Error correction is unloaded or loaded again.
Reset ==
  /\ ancilla' = {}
  /\ measured' = 0
  /\ UNCHANGED bits

Next ==
  \/ \E r \in Registers :
        \/ Round(r)
        \/ RoundUncorrected(r)
        \/ \E n \in 0 .. 3 : RoundUnmeasured(r, n)
        \/ \E S \in SUBSET Qubits : Use(r, S)
  \/ Reset

Spec == Init /\ [][Next]_roundVars
==============================================================================
