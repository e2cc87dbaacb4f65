--------------------------- MODULE ErrorCorrection ---------------------------
(****************************************************************************)
(* Quantum error correction, kernel/quantum/error_correction.c.             *)
(*                                                                          *)
(* Threads call ctrlxt_qec_apply on registers.                              *)
(* The gates of a round and its measurement touch the caller's register and *)
(* the ancilla qubits, which only the holder of qec.lock touches: they are  *)
(* one step, which may stop at any of its calls.  ctrlxt_qec_get_stats      *)
(* reads the two counters without the lock, so each change is a step.       *)
(*                                                                          *)
(* The quantum library is not part of the repository.  It is taken to do    *)
(* what its names say: CNOT flips the target where the control reads 1, a   *)
(* measurement stores what the qubits read and leaves them as they are, and *)
(* a call that fails changes nothing.  Noise spares a register during a     *)
(* round on it.                                                             *)
(****************************************************************************)
EXTENDS Integers, FiniteSets

CONSTANTS
  Threads,      \* the tasks that call error correction
  Registers,    \* the quantum states it is called on
  Contents,     \* the sets of qubits that users and noise leave reading 1
  NoThread,     \* nobody holds qec.lock
  NoReg,        \* the thread is in no call on a register
  LoadFaults,   \* the calls of the init function that can fail
  MaxRounds     \* bound: calls are made while error_count is below it

ASSUME QecConstants ==
  /\ IsFiniteSet(Threads)
  /\ NoThread \notin Threads
  /\ NoReg \notin Registers
  /\ {} \in Contents /\ Contents \subseteq SUBSET (0 .. 2)
  /\ MaxRounds \in Nat

VARIABLES
  qec_loaded,        \* ctrlxt_qec_init succeeded
  qec_states,        \* which of qec.ancilla and qec.syndrome are allocated
  qec_lock,          \* the thread that holds qec.lock
  bits,              \* bits[r]: the qubits of r that read 1
  ancilla,           \* the qubits of qec.ancilla that read 1
  syndrome,          \* what the last measurement stored in qec.syndrome
  error_count,       \* qec.error_count
  correction_count,  \* qec.correction_count
  pc,                \* where each thread is in its call
  reg                \* the register its call is on

qubits   == <<bits, ancilla, syndrome>>
counts   == <<error_count, correction_count>>
qecLoad  == <<qec_loaded, qec_states>>
qecVars  == <<qecLoad, qec_lock, qubits, counts, pc, reg>>

Steps == {"idle", "lock", "measure", "count_error", "correct",
          "count_correction", "unlock_ok", "unlock_error"}

At(t, step) == pc[t] = step

Goto(t, step) == pc' = [pc EXCEPT ![t] = step]

\* The threads between the measurement of a syndrome and its correction.
Measured == {t \in Threads : pc[t] \in {"count_error", "correct"}}

\* A round takes effect when its correction does: before that the ancilla
\* qubits are taken back to where they were, ...
RoundAncilla ==
  IF Measured = {} THEN ancilla
  ELSE LET S == bits[reg[CHOOSE t \in Measured : TRUE]]
       IN  (ancilla \ S) \cup (S \ ancilla)

\* ... and the error is not counted yet.
RoundCount == error_count - Cardinality({t \in Threads : At(t, "correct")})

\* The number quantum_state_get_value reads off three qubits.
SyndromeValue(S) ==
  (IF 0 \in S THEN 1 ELSE 0) + (IF 1 \in S THEN 2 ELSE 0) + (IF 2 \in S THEN 4 ELSE 0)

\* Mutant: the qubits are counted from 1.
CorrectionGateFromOne == << <<"X", 1>>, <<"X", 2>>, <<"X", 3>>,
                            <<"Z", 1>>, <<"Z", 2>>, <<"Z", 3>>, <<"Y", 1>> >>

\* The gate that apply_correction applies for each syndrome but 0.
CorrectionGate == << <<"X", 0>>, <<"X", 1>>, <<"X", 2>>,
                     <<"Z", 0>>, <<"Z", 1>>, <<"Z", 2>>, <<"Y", 0>> >>

\* The qubits that the correction of syndrome S flips: X and Y flip the qubit
\* they are applied to, Z changes its phase, which no measurement here reads.
Flipped(S) ==
  {q \in 0 .. 2 : \E g \in {"X", "Y"} : /\ S # {}
                                        /\ CorrectionGate[SyndromeValue(S)] = <<g, q>>}

\* The rounds one after the other, each with the correction of the code.
Rounds == INSTANCE CorrectionRounds WITH
  ancilla <- RoundAncilla, measured <- RoundCount,
  Repair <- [S \in SUBSET (0 .. 2) |-> Flipped(S)]

Init ==
  /\ qec_loaded = FALSE /\ qec_states = {}
  /\ qec_lock = NoThread
  /\ bits = [r \in Registers |-> {}] /\ ancilla = {} /\ syndrome = {}
  /\ error_count = 0 /\ correction_count = 0
  /\ pc = [t \in Threads |-> "idle"]
  /\ reg = [t \in Threads |-> NoReg]

(****************************************************************************)
(* ctrlxt_qec_init and qec_exit                                             *)
(****************************************************************************)
\* Both states are allocated and set to |0>.
Load ==
  /\ ~qec_loaded
  /\ qec_loaded' = TRUE
  /\ qec_states' = {"ancilla", "syndrome"}
  /\ qec_lock' = NoThread
  /\ ancilla' = {} /\ syndrome' = {}
  /\ error_count' = 0 /\ correction_count' = 0
  /\ UNCHANGED <<bits, pc, reg>>

\* An allocation fails and what the other one returned is kept; or setting a
\* state to |0> fails and both are freed.
LoadFail ==
  /\ ~qec_loaded
  /\ qec_states = {}
  /\ \/ "alloc" \in LoadFaults
        /\ \E S \in SUBSET {"ancilla", "syndrome"} :
              S # {"ancilla", "syndrome"} /\ qec_states' = S
     \/ "init" \in LoadFaults /\ qec_states' = {}
  /\ ancilla' = {} /\ syndrome' = {}
  /\ error_count' = 0 /\ correction_count' = 0
  /\ UNCHANGED <<qec_loaded, qec_lock, bits, pc, reg>>

\* qec_exit runs when no task is in the module.
Exit ==
  /\ qec_loaded
  /\ \A t \in Threads : At(t, "idle")
  /\ qec_loaded' = FALSE
  /\ qec_states' = {}
  /\ UNCHANGED <<qec_lock, qubits, counts, pc, reg>>

(****************************************************************************)
(* ctrlxt_qec_apply                                                         *)
(****************************************************************************)
\* The user of r, or noise, changes what it reads.  No round is working on r.
Use(r, S) ==
  /\ \A t \in Threads : reg[t] = r => At(t, "lock")
  /\ bits' = [bits EXCEPT ![r] = S]
  /\ UNCHANGED <<qecLoad, qec_lock, ancilla, syndrome, counts, pc, reg>>

ApplyBegin(t, r) ==
  /\ qec_loaded
  /\ At(t, "idle")
  /\ Goto(t, "lock")
  /\ reg' = [reg EXCEPT ![t] = r]
  /\ UNCHANGED <<qecLoad, qec_lock, qubits, counts>>

\* Mutant: the lock is not waited for.
LockAtOnce(t) ==
  /\ At(t, "lock")
  /\ qec_lock' = t
  /\ Goto(t, "measure")
  /\ UNCHANGED <<qecLoad, qubits, counts, reg>>

Lock(t) ==
  /\ At(t, "lock")
  /\ qec_lock = NoThread
  /\ qec_lock' = t
  /\ Goto(t, "measure")
  /\ UNCHANGED <<qecLoad, qubits, counts, reg>>

\* measure_syndrome: a CNOT from each qubit to its ancilla, and a measurement.
Measure(t) ==
  /\ At(t, "measure")
  /\ ancilla' = Rounds!Flip(ancilla, bits[reg[t]])
  /\ syndrome' = ancilla'
  /\ Goto(t, "count_error")
  /\ UNCHANGED <<qecLoad, qec_lock, bits, counts, reg>>

\* One of the calls fails when n of the CNOTs have been applied.
MeasureFail(t, n) ==
  /\ At(t, "measure")
  /\ ancilla' = Rounds!Flip(ancilla, bits[reg[t]] \cap (0 .. n - 1))
  /\ Goto(t, "unlock_error")
  /\ UNCHANGED <<qecLoad, qec_lock, bits, syndrome, counts, reg>>

\* Mutant: measure_syndrome releases the lock when it returns.
CountErrorUnlocked(t) ==
  /\ At(t, "count_error")
  /\ error_count' = error_count + 1
  /\ qec_lock' = NoThread
  /\ Goto(t, "correct")
  /\ UNCHANGED <<qecLoad, qubits, correction_count, reg>>

CountError(t) ==
  /\ At(t, "count_error")
  /\ error_count' = error_count + 1
  /\ Goto(t, "correct")
  /\ UNCHANGED <<qecLoad, qec_lock, qubits, correction_count, reg>>

\* apply_correction, by the syndrome that is stored.
Correct(t) ==
  /\ At(t, "correct")
  /\ bits' = [bits EXCEPT ![reg[t]] = Rounds!Flip(@, Flipped(syndrome))]
  /\ Goto(t, "count_correction")
  /\ UNCHANGED <<qecLoad, qec_lock, ancilla, syndrome, counts, reg>>

\* Mutant: a correction that failed is counted.
CorrectFailCounted(t) ==
  /\ At(t, "correct")
  /\ syndrome # {}
  /\ correction_count' = correction_count + 1
  /\ Goto(t, "count_correction")
  /\ UNCHANGED <<qecLoad, qec_lock, qubits, error_count, reg>>

\* The gate of the correction fails; syndrome 0 applies none.
CorrectFail(t) ==
  /\ At(t, "correct")
  /\ syndrome # {}
  /\ Goto(t, "unlock_error")
  /\ UNCHANGED <<qecLoad, qec_lock, qubits, counts, reg>>

CountCorrection(t) ==
  /\ At(t, "count_correction")
  /\ correction_count' = correction_count + 1
  /\ Goto(t, "unlock_ok")
  /\ UNCHANGED <<qecLoad, qec_lock, qubits, error_count, reg>>

Unlock(t) ==
  /\ pc[t] \in {"unlock_ok", "unlock_error"}
  /\ qec_lock' = NoThread
  /\ Goto(t, "idle")
  /\ reg' = [reg EXCEPT ![t] = NoReg]
  /\ UNCHANGED <<qecLoad, qubits, counts>>

(****************************************************************************)
(* The specification                                                        *)
(****************************************************************************)
\* What t does inside ctrlxt_qec_apply after it was called.
Inside(t) ==
  \/ Lock(t)
  \/ Measure(t)
  \/ \E n \in 0 .. 3 : MeasureFail(t, n)
  \/ CountError(t)
  \/ Correct(t)
  \/ CorrectFail(t)
  \/ CountCorrection(t)

Loading == Load \/ LoadFail \/ Exit

Next ==
  \/ Loading
  \/ \E r \in Registers, S \in Contents : Use(r, S)
  \/ \E t \in Threads :
        \/ error_count < MaxRounds /\ \E r \in Registers : ApplyBegin(t, r)
        \/ Inside(t)
        \/ Unlock(t)

Spec == Init /\ [][Next]_qecVars

(****************************************************************************)
(* Properties                                                               *)
(****************************************************************************)
TypeOK ==
  /\ qec_loaded \in BOOLEAN /\ qec_states \subseteq {"ancilla", "syndrome"}
  /\ qec_lock \in Threads \cup {NoThread}
  /\ bits \in [Registers -> SUBSET (0 .. 2)]
  /\ ancilla \subseteq 0 .. 2 /\ syndrome \subseteq 0 .. 2
  /\ error_count \in Nat /\ correction_count \in Nat
  /\ pc \in [Threads -> Steps]
  /\ reg \in [Threads -> Registers \cup {NoReg}]

\* The thread inside a round, if any, is the one that holds qec.lock, on every
\* path out of it (lines 76-95).
Holds(t) == pc[t] \in {"measure", "count_error", "correct", "count_correction",
                       "unlock_ok", "unlock_error"}

MutualExclusion == \A t \in Threads : Holds(t) <=> qec_lock = t

\* No correction is counted without a measured syndrome of its own: at every
\* step the corrections counted, together with those a thread is about to
\* make or count, stay within the errors counted (lines 92 and 121).
CorrectionsWithinErrors ==
  correction_count
    + Cardinality({t \in Threads : pc[t] \in {"correct", "count_correction"}})
    <= error_count

\* The syndrome a thread corrects by is the one it measured itself, on the
\* register it measured: from a thread's measurement to its correction no step
\* of anyone measures again, touches the ancilla qubits or changes what the
\* register of the thread reads, but for its own correction (lines 79-86).
OwnSyndrome ==
  [][\A t \in Measured :
        /\ syndrome' = syndrome /\ ancilla' = ancilla
        /\ t \in Measured' => bits'[reg[t]] = bits[reg[t]]]_qecVars

\* Rounds of threads that run at the same time happen one after the other, each
\* with the correction that the code has for what it measured (lines 76-95).
ImplementsRounds == Rounds!Spec

\* A register in which only qubit 0, or only qubit 1, is flipped has no flipped
\* qubit after its correction, when the ancilla qubits read 0 before its
\* measurement, whatever other threads do during the round.  The same is not
\* true of qubit 2: alone it reads as 4 (lines 112-117), which the correction
\* takes for a phase flip of qubit 0 (line 141), while it looks for a flip of
\* qubit 2 under 3 (line 139, and quantum_error.h:40).
CorrectsFlips ==
  [][\A t \in Threads, q \in {0, 1} :
        Correct(t) /\ ancilla = {q} /\ bits[reg[t]] = {q}
          => bits'[reg[t]] = {}]_qecVars
==============================================================================
