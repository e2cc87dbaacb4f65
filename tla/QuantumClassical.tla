-------------------------- MODULE QuantumClassical --------------------------
(****************************************************************************)
(* The quantum-classical interface, kernel/quantum/quantum_classical.c, on  *)
(* top of error correction.                                                 *)
(*                                                                          *)
(* Threads convert bytes to the one quantum state of the interface, measure *)
(* it, and apply gates to it with error correction.  Each operation holds   *)
(* qc_interface.lock from end to end, and a controlled operation takes      *)
(* qec.lock inside it: ctrlxt_qec_apply runs here step by step, as          *)
(* ErrorCorrection models it; the interface is its only caller.  The gates  *)
(* of a loop touch only the state that the lock guards, so a loop is one    *)
(* step, which may stop at any gate.                                        *)
(*                                                                          *)
(* What a gate leaves the qubits reading is open: any of the Contents.      *)
(****************************************************************************)
EXTENDS ErrorCorrection

CONSTANTS
  Iface,          \* the quantum state of the interface
  BufferSize,     \* the bytes of the classical buffer (1024)
  Sizes,          \* the sizes callers convert or measure
  GateQubits,     \* the qubits callers apply controlled operations to
  InterfaceFaults, \* the calls of ctrlxt_qc_init that can fail
  MaxConversions  \* bound: conversions and measurements begin below it

ASSUME InterfaceConstants ==
  /\ Iface \in Registers
  /\ Sizes \subseteq Nat /\ GateQubits \subseteq Int
  /\ BufferSize \in Nat /\ MaxConversions \in Nat

VARIABLES
  qc_loaded,          \* ctrlxt_qc_init returned 0
  quantum_state,      \* qc_interface.quantum_state: "null", "live" or "freed"
  classical_buffer,   \* qc_interface.classical_buffer, likewise
  qc_lock,            \* the thread that holds qc_interface.lock
  conversion_count, measurement_count,
  loc,                \* where each thread is in its call of the interface
  len,                \* the size, or the qubit, its call was given
  converted,          \* the conversions since the load all of whose gates succeeded
  controlled          \* the controlled operations that returned 0 since then

qcLoad == <<qc_loaded, quantum_state, classical_buffer>>
qcCounts == <<conversion_count, measurement_count>>
history == <<converted, controlled>>

qcVars == <<qcLoad, qc_lock, qcCounts, loc, len, history, qecVars>>

Calls == {"to_quantum", "to_classical", "control"}

Stages == {"idle", "convert", "convert_count", "read", "read_count", "gate",
           "correct", "corrected", "unlock"} \cup Calls

In(t, stage) == loc[t] = stage

To(t, stage) == loc' = [loc EXCEPT ![t] = stage]

\* The step that follows qc_interface.lock in each call.
First == [to_quantum |-> "convert", to_classical |-> "read", control |-> "gate"]

QcInit ==
  /\ qc_loaded = FALSE
  /\ quantum_state = "null" /\ classical_buffer = "null"
  /\ qc_lock = NoThread
  /\ conversion_count = 0 /\ measurement_count = 0
  /\ loc = [t \in Threads |-> "idle"] /\ len = [t \in Threads |-> 0]
  /\ converted = 0 /\ controlled = 0
  /\ Init

(****************************************************************************)
(* ctrlxt_qc_init and qc_exit                                               *)
(****************************************************************************)
\* Error correction is linked, and so loaded, first.
LoadInterface ==
  /\ ~qc_loaded /\ qec_loaded
  /\ qc_loaded' = TRUE
  /\ quantum_state' = "live" /\ classical_buffer' = "live"
  /\ qc_lock' = NoThread
  /\ conversion_count' = 0 /\ measurement_count' = 0
  /\ converted' = 0 /\ controlled' = correction_count
  /\ UNCHANGED <<loc, len, qecVars>>

\* The state is not allocated, or it cannot be set to |0> and is freed.  When
\* the buffer is not allocated the state is freed too, and ret is still the 0
\* of the call before: the module is loaded.
LoadInterfaceFail ==
  /\ ~qc_loaded /\ qec_loaded
  /\ \/ /\ "state" \in InterfaceFaults
        /\ quantum_state' = "null" /\ UNCHANGED qc_loaded
     \/ /\ "init" \in InterfaceFaults
        /\ quantum_state' = "freed" /\ UNCHANGED qc_loaded
     \/ /\ "buffer" \in InterfaceFaults
        /\ quantum_state' = "freed" /\ qc_loaded' = TRUE
  /\ classical_buffer' = "null"
  /\ qc_lock' = NoThread
  /\ conversion_count' = 0 /\ measurement_count' = 0
  /\ converted' = 0 /\ controlled' = correction_count
  /\ UNCHANGED <<loc, len, qecVars>>

\* No task is in the module.
Quiet == \A t \in Threads : In(t, "idle")

\* qc_exit frees what the pointers of the interface point to.
ExitInterface ==
  /\ qc_loaded /\ Quiet
  /\ qc_loaded' = FALSE
  /\ quantum_state' = "freed" /\ classical_buffer' = "freed"
  /\ UNCHANGED <<qc_lock, qcCounts, loc, len, history, qecVars>>

\* Error correction is loaded before the interface and unloaded after it.
LoadEC ==
  /\ ~qc_loaded
  /\ Loading
  /\ controlled' = 0
  /\ UNCHANGED <<qcLoad, qc_lock, qcCounts, loc, len, converted>>

(****************************************************************************)
(* The operations                                                           *)
(****************************************************************************)
\* The controlled operations that have yet to count an error.
Ahead ==
  {t \in Threads : \/ loc[t] \in {"control", "gate", "correct"}
                   \/ In(t, "corrected") /\ pc[t] \in {"lock", "measure", "count_error"}}

\* A call whose arguments are refused returns at once.
Begin(t, call, n) ==
  /\ qc_loaded /\ quantum_state = "live"
  /\ In(t, "idle") /\ pc[t] = "idle"
  /\ IF call = "control"
     THEN n \in GateQubits /\ error_count + Cardinality(Ahead) < MaxRounds
     ELSE /\ n \in Sizes /\ n <= BufferSize
          /\ conversion_count + measurement_count < MaxConversions
  /\ To(t, call)
  /\ len' = [len EXCEPT ![t] = n]
  /\ UNCHANGED <<qcLoad, qc_lock, qcCounts, history, qecVars>>

\* Mutant: the lock is not waited for.
LockInterfaceAtOnce(t) ==
  /\ loc[t] \in Calls
  /\ qc_lock' = t
  /\ To(t, First[loc[t]])
  /\ UNCHANGED <<qcLoad, qcCounts, len, history, qecVars>>

LockInterface(t) ==
  /\ loc[t] \in Calls
  /\ qc_lock = NoThread
  /\ qc_lock' = t
  /\ To(t, First[loc[t]])
  /\ UNCHANGED <<qcLoad, qcCounts, len, history, qecVars>>

\* Gates or measurements, if any, leave the state of the interface reading S.
Touch(any, S) ==
  /\ bits' = IF any THEN [bits EXCEPT ![Iface] = S] ELSE bits
  /\ UNCHANGED <<qecLoad, qec_lock, ancilla, syndrome, counts, pc, reg>>

\* Mutant: a conversion that failed is tried again, without end.
ConvertRetries(t, S) ==
  /\ In(t, "convert")
  /\ Touch(len[t] # 0, S)
  /\ \/ converted' = converted + 1 /\ To(t, "convert_count")
     \/ UNCHANGED <<converted, loc>>
  /\ UNCHANGED <<qcLoad, qc_lock, qcCounts, len, controlled>>

\* Mutant: a conversion is counted too when one of its gates fails.
ConvertCounted(t, S) ==
  /\ In(t, "convert")
  /\ \/ /\ Touch(len[t] # 0, S)
        /\ converted' = converted + 1
     \/ /\ len[t] # 0 /\ \E any \in BOOLEAN : Touch(any, S)
        /\ UNCHANGED converted
  /\ To(t, "convert_count")
  /\ UNCHANGED <<qcLoad, qc_lock, qcCounts, len, controlled>>

\* H, and PHASE for an odd byte, on the qubit of each byte; or up to a gate that
\* fails, which may be the first.
Convert(t, S) ==
  /\ In(t, "convert")
  /\ \/ /\ Touch(len[t] # 0, S)
        /\ converted' = converted + 1
        /\ To(t, "convert_count")
     \/ /\ len[t] # 0 /\ \E any \in BOOLEAN : Touch(any, S)
        /\ UNCHANGED converted
        /\ To(t, "unlock")
  /\ UNCHANGED <<qcLoad, qc_lock, qcCounts, len, controlled>>

ConvertCount(t) ==
  /\ In(t, "convert_count")
  /\ conversion_count' = conversion_count + 1
  /\ To(t, "unlock")
  /\ UNCHANGED <<qcLoad, qc_lock, measurement_count, len, history, qecVars>>

\* The whole state is measured for each byte, up to a measurement that fails;
\* with no byte, none is.
Read(t, S) ==
  /\ In(t, "read")
  /\ Touch(len[t] # 0, S)
  /\ \/ To(t, "read_count")
     \/ len[t] # 0 /\ To(t, "unlock")
  /\ UNCHANGED <<qcLoad, qc_lock, qcCounts, len, history>>

ReadCount(t) ==
  /\ In(t, "read_count")
  /\ measurement_count' = measurement_count + 1
  /\ To(t, "unlock")
  /\ UNCHANGED <<qcLoad, qc_lock, conversion_count, len, history, qecVars>>

\* The gate of a controlled operation is applied or fails.
Gate(t, S) ==
  /\ In(t, "gate")
  /\ \/ Touch(TRUE, S) /\ To(t, "correct")
     \/ UNCHANGED qecVars /\ To(t, "unlock")
  /\ UNCHANGED <<qcLoad, qc_lock, qcCounts, len, history>>

\* Mutant: the interface is unlocked before error correction is called.
CallCorrectionUnlocked(t) ==
  /\ In(t, "correct")
  /\ qc_lock' = NoThread
  /\ ApplyBegin(t, Iface)
  /\ To(t, "corrected")
  /\ UNCHANGED <<qcLoad, qcCounts, len, history>>

\* The controlled operation calls ctrlxt_qec_apply on the interface state.
CallCorrection(t) ==
  /\ In(t, "correct")
  /\ ApplyBegin(t, Iface)
  /\ To(t, "corrected")
  /\ UNCHANGED <<qcLoad, qc_lock, qcCounts, len, history>>

Correction(t) ==
  /\ Inside(t)
  /\ UNCHANGED <<qcLoad, qc_lock, qcCounts, loc, len, history>>

\* Mutant: an error of the correction is not looked at.
CorrectionReturnsOk(t) ==
  /\ In(t, "corrected")
  /\ Unlock(t)
  /\ controlled' = controlled + 1
  /\ To(t, "unlock")
  /\ UNCHANGED <<qcLoad, qc_lock, qcCounts, len, converted>>

\* It returns, and the controlled operation will return the same.
CorrectionReturns(t) ==
  /\ In(t, "corrected")
  /\ Unlock(t)
  /\ controlled' = IF pc[t] = "unlock_ok" THEN controlled + 1 ELSE controlled
  /\ To(t, "unlock")
  /\ UNCHANGED <<qcLoad, qc_lock, qcCounts, len, converted>>

UnlockInterface(t) ==
  /\ In(t, "unlock")
  /\ qc_lock' = NoThread
  /\ To(t, "idle")
  /\ len' = [len EXCEPT ![t] = 0]
  /\ UNCHANGED <<qcLoad, qcCounts, history, qecVars>>

(****************************************************************************)
(* The specification                                                        *)
(****************************************************************************)
\* What t does inside a call when it has, or does not need, the locks.
QcStep(t) ==
  \/ \E S \in Contents : \/ Convert(t, S)
                         \/ Read(t, S)
                         \/ Gate(t, S)
  \/ ConvertCount(t)
  \/ ReadCount(t)
  \/ CallCorrection(t)
  \/ Correction(t)
  \/ CorrectionReturns(t)
  \/ UnlockInterface(t)

QcNext ==
  \/ LoadEC
  \/ LoadInterface
  \/ LoadInterfaceFail
  \/ ExitInterface
  \/ \E t \in Threads : \/ \E c \in Calls, n \in Sizes \cup GateQubits : Begin(t, c, n)
                        \/ LockInterface(t)
                        \/ QcStep(t)

QcSpec == QcInit /\ [][QcNext]_qcVars

\* Threads are scheduled, and both spin locks are fair (the queued spin locks
\* of the kernel are): a lock that is free again and again is acquired.
QcFairness ==
  \A t \in Threads : /\ WF_qcVars(QcStep(t))
                     /\ SF_qcVars(LockInterface(t))
                     /\ SF_qcVars(Correction(t))

QcFairSpec == QcSpec /\ QcFairness

(****************************************************************************)
(* Properties                                                               *)
(****************************************************************************)
QcTypeOK ==
  /\ qc_loaded \in BOOLEAN
  /\ {quantum_state, classical_buffer} \subseteq {"null", "live", "freed"}
  /\ qc_lock \in Threads \cup {NoThread}
  /\ conversion_count \in Nat /\ measurement_count \in Nat
  /\ loc \in [Threads -> Stages]
  /\ len \in [Threads -> (0 .. BufferSize) \cup GateQubits]
  /\ converted \in Nat /\ controlled \in Nat

\* Everyone who is past its lock statement, in error correction too, is the
\* holder of qc_interface.lock: a task holds qec.lock only inside it, so the
\* two locks are always taken in one order (lines 147-163).
InInterface(t) == loc[t] \notin Calls \cup {"idle"}

LocksNest ==
  \A t \in Threads : /\ InInterface(t) <=> qc_lock = t
                     /\ qec_lock = t => qc_lock = t

\* Seen from the interface, which is the only caller of error correction,
\* correction_count is the number of controlled operations that returned 0,
\* but for the one that is about to (lines 157-165; error_correction.c:92).
CorrectionsAreControlled ==
  qc_loaded => correction_count =
    controlled + Cardinality({t \in Threads : pc[t] = "unlock_ok"})

\* The interface uses error correction as ErrorCorrection expects of its users:
\* no gate or measurement touches a state while a round works on it, no call
\* starts before error correction is loaded, and it is unloaded when no task is
\* in it.  So rounds happen one after the other here too (lines 74-165).
UsesCorrection == Spec

\* conversion_count is the number of conversions of this load all of whose gates
\* succeeded, but for the one about to be counted: each is counted once, and one
\* that failed on any of its bytes never (lines 85-105).
CountsConversions ==
  qc_loaded => converted =
    conversion_count + Cardinality({t \in Threads : In(t, "convert_count")})

\* Every call returns: no path out of an operation keeps a lock.
CallsReturn == \A t \in Threads : loc[t] # "idle" ~> loc[t] = "idle"

\* quantum_classical.c:24: "Initialize quantum-classical interface".  A module
\* that was loaded has its quantum state and its buffer.
LoadedIsReady ==
  qc_loaded => quantum_state = "live" /\ classical_buffer = "live"
==============================================================================
