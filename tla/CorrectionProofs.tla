--------------------------- MODULE CorrectionProofs ---------------------------
(****************************************************************************)
(* Proofs about ErrorCorrection and the interface that uses it, for any     *)
(* number of threads and registers.  Every correction is by the syndrome    *)
(* its own round measured and is counted after an error, and the rounds     *)
(* happen one after the other.  The interface is such a user of error       *)
(* correction, so all this holds of the two together.                       *)
(****************************************************************************)
EXTENDS QuantumClassical, FiniteSetTheorems, TLAPS

\* A thread past its measurement finds what it left in the ancilla qubits.
Stored == \A t \in Measured : syndrome = ancilla

\* The threads that have counted an error and not yet its correction.
Owing == {t \in Threads : pc[t] \in {"correct", "count_correction"}}

\* A call is on a register of a loaded module, its correction is by what it
\* measured, and an error is counted before its correction.
RoundInv ==
  /\ TypeOK
  /\ MutualExclusion
  /\ Stored
  /\ \A t \in Threads : pc[t] # "idle" => qec_loaded /\ reg[t] \in Registers
  /\ correction_count <= error_count
  /\ Owing # {} => correction_count < error_count

LEMMA RoundInvInit == Init => RoundInv
<1> SUFFICES ASSUME Init
             PROVE  RoundInv
  OBVIOUS
<1> USE QecConstants DEF Init
<1>1. TypeOK
  <2>1. bits \in [Registers -> SUBSET (0 .. 2)]
    OBVIOUS
  <2>2. pc \in [Threads -> Steps]
    BY DEF Steps
  <2>3. reg \in [Threads -> Registers \cup {NoReg}]
    OBVIOUS
  <2>4. /\ qec_loaded \in BOOLEAN /\ qec_states \subseteq {"ancilla", "syndrome"}
        /\ qec_lock \in Threads \cup {NoThread}
        /\ ancilla \subseteq 0 .. 2 /\ syndrome \subseteq 0 .. 2
    OBVIOUS
  <2>5. error_count \in Nat /\ correction_count \in Nat
    OBVIOUS
  <2>6. QED
    BY <2>1, <2>2, <2>3, <2>4, <2>5 DEF TypeOK
<1>2. QED
  BY <1>1 DEF RoundInv, MutualExclusion, Stored, Holds, Measured, Owing

\* The gates of a round leave qubits that read 1 among the three.
LEMMA FlipType ==
  ASSUME NEW S \in SUBSET (0 .. 2), NEW T \in SUBSET (0 .. 2)
  PROVE  Rounds!Flip(S, T) \in SUBSET (0 .. 2)
BY DEF Rounds!Flip

LEMMA FlippedType ==
  ASSUME NEW S
  PROVE  Flipped(S) \in SUBSET (0 .. 2)
BY DEF Flipped

LEMMA RoundInvStep == RoundInv /\ [Next]_qecVars => RoundInv'
<1> SUFFICES ASSUME RoundInv, [Next]_qecVars
             PROVE  RoundInv'
  OBVIOUS
<1> USE QecConstants DEF RoundInv, TypeOK, MutualExclusion, Stored, Holds, Measured,
        Owing, At, Goto, qecLoad, qubits, counts
<1>1. CASE Load
  BY <1>1 DEF Load
<1>2. CASE LoadFail
  <2>1. qec_states' \subseteq {"ancilla", "syndrome"}
    BY <1>2 DEF LoadFail
  <2>2. /\ UNCHANGED <<qec_loaded, qec_lock, bits, pc, reg>>
        /\ ancilla' = {} /\ syndrome' = {} /\ error_count' = 0 /\ correction_count' = 0
        /\ \A t \in Threads : pc[t] = "idle"
    BY <1>2 DEF LoadFail
  <2> HIDE DEF qecLoad, qubits, counts
  <2>3. QED
    BY <2>1, <2>2
<1>3. CASE Exit
  BY <1>3 DEF Exit
<1>4. ASSUME NEW r \in Registers, NEW S \in Contents, Use(r, S)
      PROVE  RoundInv'
  BY <1>4 DEF Use
<1>5. ASSUME NEW t \in Threads, NEW r \in Registers, ApplyBegin(t, r)
      PROVE  RoundInv'
  BY <1>5 DEF ApplyBegin, Steps
<1>6. ASSUME NEW t \in Threads, Lock(t)
      PROVE  RoundInv'
  BY <1>6 DEF Lock, Steps
<1>7. ASSUME NEW t \in Threads, Measure(t)
      PROVE  RoundInv'
  <2>1. bits[reg[t]] \in SUBSET (0 .. 2)
    BY <1>7 DEF Measure
  <2>2. ancilla' \in SUBSET (0 .. 2) /\ syndrome' = ancilla'
    BY <1>7, <2>1, FlipType DEF Measure
  <2>3. QED
    BY <1>7, <2>2 DEF Measure, Steps
<1>8. ASSUME NEW t \in Threads, NEW n \in 0 .. 3, MeasureFail(t, n)
      PROVE  RoundInv'
  <2>1. bits[reg[t]] \cap (0 .. n - 1) \in SUBSET (0 .. 2)
    BY <1>8 DEF MeasureFail
  <2>2. ancilla' \in SUBSET (0 .. 2)
    BY <1>8, <2>1, FlipType DEF MeasureFail
  <2>3. QED
    BY <1>8, <2>2 DEF MeasureFail, Steps
<1>9. ASSUME NEW t \in Threads, CountError(t)
      PROVE  RoundInv'
  BY <1>9 DEF CountError, Steps
<1>10. ASSUME NEW t \in Threads, Correct(t)
       PROVE  RoundInv'
  <2>1. bits[reg[t]] \in SUBSET (0 .. 2)
    BY <1>10 DEF Correct
  <2>2. Rounds!Flip(bits[reg[t]], Flipped(syndrome)) \in SUBSET (0 .. 2)
    BY <2>1, FlipType, FlippedType
  <2>3. bits' \in [Registers -> SUBSET (0 .. 2)]
    BY <1>10, <2>2 DEF Correct
  <2>4. QED
    BY <1>10, <2>3 DEF Correct, Steps
<1>11. ASSUME NEW t \in Threads, CorrectFail(t)
       PROVE  RoundInv'
  BY <1>11 DEF CorrectFail, Steps
<1>12. ASSUME NEW t \in Threads, CountCorrection(t)
       PROVE  RoundInv'
  BY <1>12 DEF CountCorrection, Steps
<1>13. ASSUME NEW t \in Threads, Unlock(t)
       PROVE  RoundInv'
  BY <1>13 DEF Unlock, Steps
<1>14. CASE UNCHANGED qecVars
  BY <1>14 DEF qecVars
<1>15. QED
  BY <1>1, <1>2, <1>3, <1>4, <1>5, <1>6, <1>7, <1>8, <1>9, <1>10, <1>11, <1>12,
     <1>13, <1>14
  DEF Next, Loading, Inside

LEMMA RoundInvariant == Spec => []RoundInv
BY RoundInvInit, RoundInvStep, PTL DEF Spec

\* Every variable has its type.
THEOREM QecTypes == Spec => []TypeOK
<1>1. RoundInv => TypeOK
  BY DEF RoundInv
<1>2. QED
  BY <1>1, RoundInvariant, PTL

\* The thread inside a round is the one that holds qec.lock.
THEOREM RoundsExclude == Spec => []MutualExclusion
<1>1. RoundInv => MutualExclusion
  BY DEF RoundInv
<1>2. QED
  BY <1>1, RoundInvariant, PTL

\* No step comes between a measurement and the correction by it that changes
\* what was measured, or where it is stored.
THEOREM SyndromesAreOwn == Spec => OwnSyndrome
<1> DEFINE Kept ==
      \A t \in Measured : /\ syndrome' = syndrome /\ ancilla' = ancilla
                          /\ t \in Measured' => bits'[reg[t]] = bits[reg[t]]
<1>1. RoundInv /\ [Next]_qecVars => Kept
  <2> SUFFICES ASSUME RoundInv, [Next]_qecVars, NEW t \in Measured
               PROVE  /\ syndrome' = syndrome /\ ancilla' = ancilla
                      /\ t \in Measured' => bits'[reg[t]] = bits[reg[t]]
    OBVIOUS
  <2>t. /\ t \in Threads /\ Holds(t) /\ qec_loaded /\ pc[t] \in {"count_error", "correct"}
        /\ TypeOK /\ MutualExclusion
    BY DEF Measured, Holds, RoundInv
  <2>1. CASE Loading
    BY <2>1, <2>t DEF Loading, Load, LoadFail, Exit, At
  <2>2. ASSUME NEW r \in Registers, NEW S \in Contents, Use(r, S)
        PROVE  UNCHANGED <<syndrome, ancilla>> /\ bits'[reg[t]] = bits[reg[t]]
    BY <2>2, <2>t DEF Use, At, TypeOK
  <2>3. ASSUME NEW u \in Threads, \E r \in Registers : ApplyBegin(u, r)
        PROVE  UNCHANGED qubits
    BY <2>3 DEF ApplyBegin
  \* Everyone else is outside.
  <2>4. ASSUME NEW u \in Threads, Inside(u) \/ Unlock(u)
        PROVE  \/ UNCHANGED qubits
               \/ Correct(u) /\ u = t
    <3>1. Holds(u) => u = t
      BY <2>t DEF MutualExclusion
    <3>2. CASE Lock(u) \/ Unlock(u) \/ CountError(u) \/ CorrectFail(u) \/ CountCorrection(u)
      BY <3>2 DEF Lock, Unlock, CountError, CorrectFail, CountCorrection
    <3>3. CASE Measure(u) \/ \E n \in 0 .. 3 : MeasureFail(u, n)
      BY <3>1, <3>3, <2>t DEF Measure, MeasureFail, At, Holds
    <3>4. CASE Correct(u)
      BY <3>1, <3>4 DEF Correct, At, Holds
    <3>5. QED
      BY <2>4, <3>2, <3>3, <3>4 DEF Inside
  <2>5. Correct(t) => t \notin Measured' /\ UNCHANGED <<ancilla, syndrome>>
    BY <2>t DEF Correct, Measured, Goto, TypeOK
  <2>6. CASE UNCHANGED qecVars
    BY <2>6 DEF qecVars, qubits
  <2>7. QED
    BY <2>1, <2>2, <2>3, <2>4, <2>5, <2>6 DEF Next, qubits
<1> HIDE DEF Kept
<1>2. RoundInv /\ [Next]_qecVars => [Kept]_qecVars
  BY <1>1
<1> USE DEF Kept
<1>3. QED
  BY <1>2, RoundInvariant, PTL DEF Spec, OwnSyndrome

\* A correction of a register with a flip of qubit 0 or 1 alone, measured with
\* ancilla qubits that read 0, takes the flip back.
THEOREM SingleFlipsCorrected == Spec => CorrectsFlips
<1> DEFINE Taken == \A t \in Threads, q \in {0, 1} :
                      Correct(t) /\ ancilla = {q} /\ bits[reg[t]] = {q} => bits'[reg[t]] = {}
<1>1. RoundInv => Taken
  <2> SUFFICES ASSUME RoundInv, NEW t \in Threads, NEW q \in {0, 1},
                      Correct(t), ancilla = {q}, bits[reg[t]] = {q}
               PROVE  bits'[reg[t]] = {}
    OBVIOUS
  <2>1. syndrome = {q} /\ reg[t] \in Registers
    <3>1. pc[t] = "correct"
      BY DEF Correct, At
    <3>2. syndrome = ancilla
      BY <3>1 DEF RoundInv, Stored, Measured
    <3>3. reg[t] \in Registers
      BY <3>1 DEF RoundInv
    <3>4. QED
      BY <3>2, <3>3
  <2>2. Flipped({q}) = {q}
    <3>1. SyndromeValue({q}) = q + 1
      BY DEF SyndromeValue
    <3>2. CorrectionGate[q + 1] = <<"X", q>>
      BY DEF CorrectionGate
    <3>3. QED
      BY <3>1, <3>2 DEF Flipped
  <2>3. bits'[reg[t]] = Rounds!Flip(bits[reg[t]], Flipped(syndrome))
    <3>1. bits' = [bits EXCEPT ![reg[t]] = Rounds!Flip(bits[reg[t]], Flipped(syndrome))]
      BY DEF Correct
    <3>2. bits \in [Registers -> SUBSET (0 .. 2)]
      BY DEF RoundInv, TypeOK
    <3>3. QED
      BY <2>1, <3>1, <3>2
  <2>4. QED
    BY <2>1, <2>2, <2>3 DEF Rounds!Flip
<1> HIDE DEF Taken
<1>2. RoundInv => [Taken]_qecVars
  BY <1>1
<1> USE DEF Taken
<1>3. QED
  BY <1>2, RoundInvariant, PTL DEF CorrectsFlips

\* As one thread at a time is in a round, so many are between two of its steps.
LEMMA OneAtATime ==
  ASSUME RoundInv, NEW S \in SUBSET Steps, "idle" \notin S, "lock" \notin S
  PROVE  Cardinality({t \in Threads : pc[t] \in S}) =
           IF \E t \in Threads : pc[t] \in S THEN 1 ELSE 0
<1> DEFINE A == {t \in Threads : pc[t] \in S}
<1>1. CASE A = {}
  BY <1>1, FS_EmptySet
<1>2. CASE A # {}
  <2>1. PICK t : t \in A
    BY <1>2
  <2>2. A = {t}
    BY <2>1 DEF RoundInv, MutualExclusion, Holds, TypeOK, Steps
  <2>3. Cardinality({t}) = 1
    BY FS_Singleton
  <2>4. QED
    BY <2>1, <2>2, <2>3
<1>3. QED
  BY <1>1, <1>2

\* The corrections counted, and those about to be, are within the errors counted.
THEOREM CorrectionsAreOfErrors == Spec => []CorrectionsWithinErrors
<1>1. RoundInv => CorrectionsWithinErrors
  <2> SUFFICES ASSUME RoundInv
               PROVE  CorrectionsWithinErrors
    OBVIOUS
  <2>1. Cardinality({t \in Threads : pc[t] \in {"correct", "count_correction"}}) =
          IF Owing # {} THEN 1 ELSE 0
    <3>1. {"correct", "count_correction"} \subseteq Steps
      BY DEF Steps
    <3>2. QED
      BY <3>1, OneAtATime DEF Owing
  <2>2. QED
    BY <2>1 DEF CorrectionsWithinErrors, RoundInv, TypeOK
<1>2. QED
  BY <1>1, RoundInvariant, PTL

(****************************************************************************)
(* The rounds                                                               *)
(****************************************************************************)
\* Taking a measurement back: flipping twice flips nothing.
LEMMA FlipTwice ==
  ASSUME NEW S, NEW T
  PROVE  Rounds!Flip(Rounds!Flip(S, T), T) = S
BY DEF Rounds!Flip

\* What the callers see of the ancilla qubits and the count: a thread that has
\* measured and not corrected is still before its round, the others are not.
LEMMA SeenBefore ==
  ASSUME RoundInv, NEW t \in Measured
  PROVE  RoundAncilla = Rounds!Flip(ancilla, bits[reg[t]])
<1>1. Measured = {t}
  BY DEF RoundInv, MutualExclusion, Holds, Measured
<1>2. (CHOOSE u \in Measured : TRUE) = t
  BY <1>1
<1>3. QED
  BY <1>1, <1>2 DEF RoundAncilla, Rounds!Flip

LEMMA SeenAfter == Measured = {} => RoundAncilla = ancilla
BY DEF RoundAncilla

\* The number of rounds, told from the steps.
Counted == RoundCount = IF \E t \in Threads : pc[t] = "correct" THEN error_count - 1
                        ELSE error_count

LEMMA SeenCount == RoundInv => Counted
<1> SUFFICES ASSUME RoundInv
             PROVE  Counted
  OBVIOUS
<1>1. Cardinality({t \in Threads : pc[t] \in {"correct"}}) =
        IF \E t \in Threads : pc[t] \in {"correct"} THEN 1 ELSE 0
  <2>1. {"correct"} \subseteq Steps
    BY DEF Steps
  <2>2. QED
    BY <2>1, OneAtATime
<1>2. {t \in Threads : At(t, "correct")} = {t \in Threads : pc[t] \in {"correct"}}
  BY DEF At
<1>3. RoundCount = error_count - Cardinality({t \in Threads : pc[t] \in {"correct"}})
  BY <1>2 DEF RoundCount
<1>4. error_count \in Nat
  BY DEF RoundInv, TypeOK
<1> HIDE DEF RoundInv
<1>5. QED
  BY <1>1, <1>3, <1>4 DEF Counted

\* The steps that callers do not see.
LEMMA Unseen ==
  ASSUME RoundInv, RoundInv', UNCHANGED <<bits, ancilla, error_count>>,
         Measured' = Measured, \A t \in Measured : reg'[t] = reg[t],
         (\E t \in Threads : pc[t] = "correct") <=> (\E t \in Threads : pc'[t] = "correct")
  PROVE  UNCHANGED <<bits, RoundAncilla, RoundCount>>
<1>1. RoundAncilla' = RoundAncilla
  <2>1. CASE Measured = {}
    BY <2>1, SeenAfter DEF RoundAncilla
  <2>2. CASE Measured # {}
    <3>1. PICK t : t \in Measured
      BY <2>2
    <3>2. RoundAncilla = Rounds!Flip(ancilla, bits[reg[t]])
      BY <3>1, SeenBefore
    <3>3. RoundAncilla' = Rounds!Flip(ancilla, bits[reg[t]])'
      <4>1. t \in Measured'
        BY <3>1
      <4>2. Measured' = {t}
        BY <4>1 DEF RoundInv, MutualExclusion, Holds, Measured
      <4>3. (CHOOSE u \in Measured' : TRUE) = t
        BY <4>2
      <4>4. QED
        BY <4>2, <4>3 DEF RoundAncilla, Rounds!Flip
    <3>4. QED
      BY <3>1, <3>2, <3>3 DEF Rounds!Flip
  <2>3. QED
    BY <2>1, <2>2
<1>2. RoundCount' = RoundCount
  <2>1. Counted /\ Counted'
    BY SeenCount, PTL
  <2>2. QED
    BY <2>1 DEF Counted
<1>3. QED
  BY <1>1, <1>2

\* What a round that is between measurement and correction hides.
Hidden ==
  /\ \A t \in Measured : RoundAncilla = Rounds!Flip(ancilla, bits[reg[t]])
  /\ Measured = {} => RoundAncilla = ancilla

LEMMA Hiding == RoundInv => Hidden
BY SeenBefore, SeenAfter DEF Hidden

LEMMA RoundsInit == Init => Rounds!Init
<1> SUFFICES ASSUME Init
             PROVE  Rounds!Init
  OBVIOUS
<1>1. Measured = {} /\ {t \in Threads : At(t, "correct")} = {}
  BY DEF Init, Measured, At
<1>2. RoundAncilla = {} /\ RoundCount = 0
  BY <1>1, FS_EmptySet DEF Init, RoundAncilla, RoundCount
<1>3. QED
  BY <1>2 DEF Init, Rounds!Init

LEMMA RoundsStep ==
  RoundInv /\ RoundInv' /\ [Next]_qecVars
    => [Rounds!Next]_<<bits, RoundAncilla, RoundCount>>
<1> SUFFICES ASSUME RoundInv, RoundInv', [Next]_qecVars
             PROVE  [Rounds!Next]_<<bits, RoundAncilla, RoundCount>>
  OBVIOUS
<1>c. Counted /\ Counted' /\ Hidden /\ Hidden'
  BY SeenCount, Hiding, PTL
<1>t. TypeOK /\ MutualExclusion /\ Stored
  BY DEF RoundInv
\* Inside a round there is one thread.
<1>o. ASSUME NEW t \in Threads, Holds(t)
      PROVE  \A u \in Threads : Holds(u) => u = t
  BY <1>o, <1>t DEF MutualExclusion
<1>1. CASE Load \/ LoadFail
  <2>1. \A t \in Threads : pc'[t] = "idle"
    BY <1>1 DEF Load, LoadFail, RoundInv
  <2>2. RoundAncilla' = {} /\ RoundCount' = 0 /\ bits' = bits
    BY <1>1, <1>c, <2>1 DEF Load, LoadFail, Measured, Hidden, Counted
  <2>3. Rounds!Reset
    BY <2>2 DEF Rounds!Reset
  <2>4. QED
    BY <2>3 DEF Rounds!Next
<1>2. CASE Exit
  BY <1>2, Unseen DEF Exit, Measured, qubits, counts
<1>3. ASSUME NEW r \in Registers, NEW S \in Contents, Use(r, S)
      PROVE  [Rounds!Next]_<<bits, RoundAncilla, RoundCount>>
  <2>1. /\ bits' = [bits EXCEPT ![r] = S] /\ Measured' = Measured
        /\ UNCHANGED <<ancilla, pc, reg, error_count>>
    BY <1>3 DEF Use, Measured, counts
  <2>2. \A t \in Measured : bits'[reg'[t]] = bits[reg[t]]
    BY <1>3, <2>1, <1>t DEF Use, Measured, At, TypeOK
  <2>3. RoundAncilla' = RoundAncilla /\ RoundCount' = RoundCount
    BY <2>1, <2>2, <1>c DEF Hidden, Counted, Rounds!Flip
  <2>4. S \in SUBSET Rounds!Qubits
    BY QecConstants DEF Rounds!Qubits
  <2>5. Rounds!Use(r, S)
    BY <2>1, <2>3 DEF Rounds!Use
  <2>6. QED
    BY <2>4, <2>5 DEF Rounds!Next
<1>4. ASSUME NEW t \in Threads, NEW r \in Registers, ApplyBegin(t, r)
      PROVE  [Rounds!Next]_<<bits, RoundAncilla, RoundCount>>
  BY <1>4, <1>t, Unseen DEF ApplyBegin, Measured, At, Goto, TypeOK, qubits, counts
<1>5. ASSUME NEW t \in Threads, Lock(t) \/ CountCorrection(t) \/ Unlock(t)
      PROVE  [Rounds!Next]_<<bits, RoundAncilla, RoundCount>>
  <2>1. /\ pc[t] \notin {"count_error", "correct"} /\ pc'[t] \notin {"count_error", "correct"}
        /\ UNCHANGED <<bits, ancilla, error_count>>
        /\ \A u \in Threads \ {t} : pc'[u] = pc[u] /\ reg'[u] = reg[u]
    BY <1>5, <1>t DEF Lock, CountCorrection, Unlock, At, Goto, TypeOK, qubits, counts
  <2>2. Measured' = Measured /\ \A u \in Measured : reg'[u] = reg[u]
    BY <2>1 DEF Measured
  <2>3. QED
    BY <2>1, <2>2, Unseen
<1>6. ASSUME NEW t \in Threads, Measure(t)
      PROVE  [Rounds!Next]_<<bits, RoundAncilla, RoundCount>>
  <2>1. /\ pc[t] = "measure" /\ pc'[t] = "count_error"
        /\ ancilla' = Rounds!Flip(ancilla, bits[reg[t]])
        /\ UNCHANGED <<bits, reg, error_count>>
        /\ \A u \in Threads \ {t} : pc'[u] = pc[u]
    BY <1>6, <1>t DEF Measure, At, Goto, TypeOK, counts
  <2>2. Measured = {} /\ t \in Measured' /\ \A u \in Threads : pc[u] # "correct" /\ pc'[u] # "correct"
    BY <2>1, <1>o DEF Measured, Holds
  <2>3. RoundAncilla = ancilla
    BY <2>2, <1>c DEF Hidden
  <2>4. RoundAncilla' = Rounds!Flip(Rounds!Flip(ancilla, bits[reg[t]]), bits[reg[t]])
    BY <2>1, <2>2, <1>c DEF Hidden, Rounds!Flip
  <2>5. RoundAncilla' = RoundAncilla
    BY <2>3, <2>4, FlipTwice
  <2>6. RoundCount' = RoundCount
    BY <2>1, <2>2, <1>c DEF Counted
  <2>7. QED
    BY <2>1, <2>5, <2>6
<1>7. ASSUME NEW t \in Threads, NEW n \in 0 .. 3, MeasureFail(t, n)
      PROVE  [Rounds!Next]_<<bits, RoundAncilla, RoundCount>>
  <2>1. /\ pc[t] = "measure" /\ pc'[t] = "unlock_error"
        /\ ancilla' = Rounds!Flip(ancilla, bits[reg[t]] \cap (0 .. n - 1))
        /\ UNCHANGED <<bits, error_count>> /\ reg[t] \in Registers
        /\ \A u \in Threads \ {t} : pc'[u] = pc[u]
    BY <1>7, <1>t DEF MeasureFail, At, Goto, TypeOK, RoundInv, counts
  <2>2. /\ Measured = {} /\ Measured' = {}
        /\ \A u \in Threads : pc[u] # "correct" /\ pc'[u] # "correct"
    BY <2>1, <1>o DEF Measured, Holds
  <2>3. RoundAncilla = ancilla /\ RoundAncilla' = ancilla' /\ RoundCount' = RoundCount
    BY <2>1, <2>2, <1>c DEF Hidden, Counted
  <2>4. Rounds!RoundUnmeasured(reg[t], n)
    BY <2>1, <2>3 DEF Rounds!RoundUnmeasured
  <2>5. QED
    BY <2>1, <2>4 DEF Rounds!Next
<1>8. ASSUME NEW t \in Threads, CountError(t)
      PROVE  [Rounds!Next]_<<bits, RoundAncilla, RoundCount>>
  <2>1. /\ pc[t] = "count_error" /\ pc'[t] = "correct"
        /\ error_count' = error_count + 1 /\ error_count \in Nat
        /\ UNCHANGED <<bits, ancilla, reg>>
        /\ \A u \in Threads \ {t} : pc'[u] = pc[u]
    BY <1>8, <1>t DEF CountError, At, Goto, TypeOK, qubits
  <2>2. t \in Measured /\ t \in Measured' /\ \A u \in Threads : pc[u] # "correct"
    BY <2>1, <1>o DEF Measured, Holds
  <2>3. RoundAncilla' = RoundAncilla
    BY <2>1, <2>2, <1>c DEF Hidden, Rounds!Flip
  <2>4. RoundCount' = RoundCount
    BY <2>1, <2>2, <1>c DEF Counted
  <2>5. QED
    BY <2>1, <2>3, <2>4
<1>9. ASSUME NEW t \in Threads, Correct(t) \/ CorrectFail(t)
      PROVE  [Rounds!Next]_<<bits, RoundAncilla, RoundCount>>
  <2>1. /\ pc[t] = "correct" /\ pc'[t] \in {"count_correction", "unlock_error"}
        /\ UNCHANGED <<ancilla, reg, error_count>> /\ error_count \in Nat
        /\ reg[t] \in Registers
        /\ \A u \in Threads \ {t} : pc'[u] = pc[u]
    BY <1>9, <1>t DEF Correct, CorrectFail, At, Goto, TypeOK, RoundInv, qubits, counts
  <2>2. t \in Measured /\ Measured' = {} /\ \A u \in Threads : pc'[u] # "correct"
    BY <2>1, <1>o DEF Measured, Holds
  <2>3. /\ RoundAncilla = Rounds!Flip(ancilla, bits[reg[t]]) /\ RoundAncilla' = ancilla
        /\ syndrome = ancilla
    BY <2>1, <2>2, <1>c, <1>t DEF Hidden, Stored
  <2>4. RoundAncilla' = Rounds!Flip(RoundAncilla, bits[reg[t]])
    BY <2>3, FlipTwice
  <2>5. RoundCount' = RoundCount + 1
    BY <2>1, <2>2, <1>c DEF Counted
  <2>6. CASE Correct(t)
    <3>0. RoundAncilla' \in SUBSET (0 .. 2)
      BY <2>3, <1>t DEF TypeOK
    <3>1. bits' = [bits EXCEPT ![reg[t]] =
                     Rounds!Flip(@, [S \in SUBSET (0 .. 2) |-> Flipped(S)][RoundAncilla'])]
      BY <2>3, <2>6, <3>0 DEF Correct
    <3>2. Rounds!Round(reg[t])
      BY <2>4, <2>5, <3>1 DEF Rounds!Round
    <3>3. QED
      BY <2>1, <3>2 DEF Rounds!Next
  <2>7. CASE CorrectFail(t)
    <3>1. bits' = bits
      BY <2>7 DEF CorrectFail, qubits
    <3>2. Rounds!RoundUncorrected(reg[t])
      BY <2>4, <2>5, <3>1 DEF Rounds!RoundUncorrected
    <3>3. QED
      BY <2>1, <3>2 DEF Rounds!Next
  <2>8. QED
    BY <1>9, <2>6, <2>7
<1>10. CASE UNCHANGED qecVars
  BY <1>10, Unseen DEF qecVars, Measured, qubits, counts
<1>11. QED
  BY <1>1, <1>2, <1>3, <1>4, <1>5, <1>6, <1>7, <1>8, <1>9, <1>10
  DEF Next, Loading, Inside

\* Error correction does what one round after the other would do: each takes
\* effect when it corrects, by the syndrome its own register left.
THEOREM QecImplementsRounds == Spec => ImplementsRounds
<1>1. RoundInv /\ RoundInv' /\ [Next]_qecVars => [Rounds!Next]_(Rounds!roundVars)
  BY RoundsStep DEF Rounds!roundVars
<1>2. QED
  BY <1>1, RoundsInit, RoundInvariant, PTL DEF Spec, ImplementsRounds, Rounds!Spec

(****************************************************************************)
(* The interface                                                            *)
(****************************************************************************)
\* A thread is in error correction exactly at one statement of the interface,
\* and only there it has a register; every thread in the interface that is past
\* its lock statement holds the lock.
Calling ==
  \A t \in Threads :
    /\ InInterface(t) <=> qc_lock = t
    /\ pc[t] # "idle" <=> loc[t] = "corrected"
    /\ pc[t] = "idle" => reg[t] = NoReg

\* No call of a module that is not loaded, and error correction is loaded first.
Linked ==
  /\ \A t \in Threads : loc[t] # "idle" => qc_loaded
  /\ qc_loaded => qec_loaded

\* The controlled operations that will return 0 are told from the steps.
Returning == IF \E t \in Threads : pc[t] = "unlock_ok" THEN 1 ELSE 0

\* So is the conversion about to be counted.
Counting == IF \E t \in Threads : loc[t] = "convert_count" THEN 1 ELSE 0

CallInv ==
  /\ QcTypeOK /\ Calling /\ Linked
  /\ qc_loaded => correction_count = controlled + Returning
  /\ qc_loaded => converted = conversion_count + Counting
  /\ error_count + Cardinality(Ahead) <= MaxRounds

QcInv == RoundInv /\ CallInv

\* How the number of operations that have yet to count an error moves.
LEMMA AheadFinite == IsFiniteSet(Ahead) /\ Cardinality(Ahead) \in Nat
<1>1. Ahead \subseteq Threads
  BY DEF Ahead
<1>2. QED
  BY <1>1, QecConstants, FS_Subset, FS_CardinalityType

LEMMA AheadFiniteNext == IsFiniteSet(Ahead') /\ Cardinality(Ahead') \in Nat
<1>1. Ahead' \subseteq Threads
  BY DEF Ahead
<1>2. QED
  BY <1>1, QecConstants, FS_Subset, FS_CardinalityType

LEMMA AheadShrinks == Ahead' \subseteq Ahead => Cardinality(Ahead') <= Cardinality(Ahead)
BY AheadFinite, FS_Subset

LEMMA AheadGrows ==
  ASSUME NEW t, Ahead' \subseteq Ahead \cup {t}
  PROVE  Cardinality(Ahead') <= Cardinality(Ahead) + 1
<1>1. /\ IsFiniteSet(Ahead \cup {t})
      /\ Cardinality(Ahead \cup {t}) <= Cardinality(Ahead) + 1
  <2>1. CASE t \in Ahead
    <3>1. Ahead \cup {t} = Ahead
      BY <2>1
    <3>2. Cardinality(Ahead \cup {t}) = Cardinality(Ahead) /\ IsFiniteSet(Ahead \cup {t})
      BY <3>1, AheadFinite, Zenon
    <3>3. QED
      BY <3>2, AheadFinite
  <2>2. CASE t \notin Ahead
    BY <2>2, AheadFinite, FS_AddElement
  <2>3. QED
    BY <2>1, <2>2
<1>2. Cardinality(Ahead') <= Cardinality(Ahead \cup {t})
  BY <1>1, FS_Subset
<1>3. Cardinality(Ahead \cup {t}) \in Nat
  BY <1>1, FS_CardinalityType
<1>4. QED
  BY <1>1, <1>2, <1>3, AheadFinite, AheadFiniteNext

LEMMA AheadCounted ==
  ASSUME NEW t \in Ahead, Ahead' \subseteq Ahead \ {t}
  PROVE  Cardinality(Ahead') <= Cardinality(Ahead) - 1
<1>1. IsFiniteSet(Ahead \ {t}) /\ Cardinality(Ahead \ {t}) = Cardinality(Ahead) - 1
  BY AheadFinite, FS_RemoveElement
<1>2. Cardinality(Ahead') <= Cardinality(Ahead \ {t})
  BY <1>1, FS_Subset
<1>3. QED
  BY <1>1, <1>2

LEMMA QcInvInit == QcInit => QcInv
<1> SUFFICES ASSUME QcInit
             PROVE  QcInv
  OBVIOUS
<1> USE QecConstants, InterfaceConstants DEF QcInit
<1>1. RoundInv
  BY RoundInvInit
<1>2. \A t \in Threads : pc[t] = "idle" /\ loc[t] = "idle" /\ reg[t] = NoReg
  BY DEF Init
<1>3. Ahead = {}
  BY <1>2 DEF Ahead, In
<1>4. error_count + Cardinality(Ahead) <= MaxRounds
  BY <1>3, FS_EmptySet DEF Init
<1>5. QcTypeOK
  <2>1. loc \in [Threads -> Stages]
    BY DEF Stages
  <2>2. len \in [Threads -> (0 .. BufferSize) \cup GateQubits]
    OBVIOUS
  <2>3. qc_loaded \in BOOLEAN /\ qc_lock \in Threads \cup {NoThread}
    OBVIOUS
  <2>4. {quantum_state, classical_buffer} \subseteq {"null", "live", "freed"}
    OBVIOUS
  <2>5. /\ conversion_count \in Nat /\ measurement_count \in Nat
        /\ converted \in Nat /\ controlled \in Nat
    OBVIOUS
  <2>6. QED
    BY <2>1, <2>2, <2>3, <2>4, <2>5 DEF QcTypeOK
<1>6. Calling /\ Linked
  BY <1>2 DEF Calling, Linked, InInterface
<1>7. ~qc_loaded
  OBVIOUS
<1>8. QED
  BY <1>1, <1>4, <1>5, <1>6, <1>7 DEF QcInv, CallInv

\* Whoever works on the state of the interface holds its lock, so nobody else is
\* in error correction.
LEMMA NobodyElse ==
  ASSUME CallInv, NEW t \in Threads, InInterface(t)
  PROVE  \A u \in Threads \ {t} : pc[u] = "idle" /\ reg[u] = NoReg /\ ~InInterface(u)
BY DEF CallInv, Calling, InInterface, Calls

\* Each step of the interface is one that a user of error correction may take.
LEMMA UsesStep == QcInv /\ [QcNext]_qcVars => [Next]_qecVars
<1> SUFFICES ASSUME QcInv, [QcNext]_qcVars
             PROVE  [Next]_qecVars
  OBVIOUS
<1>1. CASE LoadEC
  BY <1>1 DEF LoadEC, Next
<1>2. CASE LoadInterface \/ LoadInterfaceFail \/ ExitInterface
  BY <1>2 DEF LoadInterface, LoadInterfaceFail, ExitInterface
<1>3. ASSUME NEW t \in Threads, NEW S \in Contents, NEW any \in BOOLEAN,
             loc[t] \in {"convert", "read", "gate"}, Touch(any, S)
      PROVE  [Next]_qecVars
  <2>1. \A u \in Threads : reg[u] # Iface
    <3>1. InInterface(t) /\ pc[t] = "idle" /\ reg[t] = NoReg
      BY <1>3 DEF QcInv, CallInv, Calling, InInterface, Calls
    <3>2. \A u \in Threads \ {t} : reg[u] = NoReg
      BY <3>1, NobodyElse DEF QcInv
    <3>3. QED
      BY <3>1, <3>2, QecConstants, InterfaceConstants
  <2>2. CASE any
    BY <1>3, <2>1, <2>2, InterfaceConstants DEF Touch, Use, Next
  <2>3. CASE ~any
    BY <1>3, <2>3 DEF Touch, qecVars, qubits
  <2>4. QED
    BY <2>2, <2>3
<1>4. ASSUME NEW t \in Threads, QcStep(t)
      PROVE  [Next]_qecVars
  <2>1. ASSUME NEW S \in Contents, Convert(t, S)
        PROVE  [Next]_qecVars
    <3>1. PICK any \in BOOLEAN : Touch(any, S)
      BY <2>1 DEF Convert
    <3>2. QED
      BY <3>1, <2>1, <1>3 DEF Convert, In
  <2>2. ASSUME NEW S \in Contents, Read(t, S)
        PROVE  [Next]_qecVars
    <3>1. PICK any \in BOOLEAN : Touch(any, S)
      BY <2>2 DEF Read
    <3>2. QED
      BY <3>1, <2>2, <1>3 DEF Read, In
  <2>3. ASSUME NEW S \in Contents, Gate(t, S)
        PROVE  [Next]_qecVars
    <3>1. CASE Touch(TRUE, S)
      BY <3>1, <2>3, <1>3 DEF Gate, In
    <3>2. CASE UNCHANGED qecVars
      BY <3>2
    <3>3. QED
      BY <3>1, <3>2, <2>3 DEF Gate
  <2>4. CASE ConvertCount(t) \/ ReadCount(t) \/ UnlockInterface(t)
    BY <2>4 DEF ConvertCount, ReadCount, UnlockInterface
  <2>5. CASE CallCorrection(t)
    <3>1. t \in Ahead
      BY <2>5 DEF CallCorrection, Ahead, In
    <3>2. Cardinality(Ahead) # 0
      BY <3>1, AheadFinite, FS_EmptySet
    <3>3. error_count < MaxRounds
      BY <3>2, AheadFinite, QecConstants DEF QcInv, CallInv, RoundInv, TypeOK
    <3>4. QED
      BY <2>5, <3>3, InterfaceConstants DEF CallCorrection, Next
  <2>6. CASE Correction(t) \/ CorrectionReturns(t)
    BY <2>6 DEF Correction, CorrectionReturns, Next
  <2>7. QED
    BY <1>4, <2>1, <2>2, <2>3, <2>4, <2>5, <2>6 DEF QcStep
<1>5. ASSUME NEW t \in Threads, LockInterface(t)
      PROVE  [Next]_qecVars
  BY <1>5 DEF LockInterface
<1>6. ASSUME NEW t \in Threads, NEW c \in Calls, NEW n \in Sizes \cup GateQubits,
             Begin(t, c, n)
      PROVE  [Next]_qecVars
  BY <1>6 DEF Begin
<1>7. CASE UNCHANGED qcVars
  BY <1>7 DEF qcVars
<1>8. QED
  BY <1>1, <1>2, <1>4, <1>5, <1>6, <1>7 DEF QcNext

LEMMA QcInvStep == QcInv /\ [QcNext]_qcVars => QcInv'
<1> SUFFICES ASSUME QcInv, [QcNext]_qcVars
             PROVE  QcInv'
  OBVIOUS
<1>r. RoundInv'
  BY UsesStep, RoundInvStep DEF QcInv
<1>t. /\ RoundInv /\ CallInv /\ QcTypeOK /\ Calling /\ Linked
      /\ error_count \in Nat /\ correction_count \in Nat
      /\ pc \in [Threads -> Steps] /\ reg \in [Threads -> Registers \cup {NoReg}]
      /\ loc \in [Threads -> Stages]
  BY DEF QcInv, CallInv, RoundInv, TypeOK, QcTypeOK
<1>n. /\ qc_lock \in Threads \cup {NoThread}
      /\ conversion_count \in Nat /\ measurement_count \in Nat
      /\ converted \in Nat /\ controlled \in Nat
  BY <1>t DEF QcTypeOK
<1>c. Cardinality(Ahead) \in Nat /\ Cardinality(Ahead') \in Nat /\ MaxRounds \in Nat
  BY AheadFinite, AheadFiniteNext, QecConstants
<1> USE QecConstants, InterfaceConstants DEF QcInv, CallInv
\* Loads and unloads happen when no thread is in the interface.
<1>1. CASE LoadEC \/ LoadInterface \/ LoadInterfaceFail \/ ExitInterface
  <2>1. /\ \A t \in Threads : loc[t] = "idle" /\ pc[t] = "idle" /\ reg[t] = NoReg
        /\ UNCHANGED <<loc, pc, reg, len>>
    BY <1>1, <1>t DEF LoadEC, LoadInterface, LoadInterfaceFail, ExitInterface, Loading,
                      Load, LoadFail, Exit, Quiet, In, Linked, Calling, qecVars
  <2>2. Ahead' = {} /\ error_count' \in {0, error_count}
    <3>1. Ahead' = {}
      BY <2>1 DEF Ahead, In
    <3>2. error_count' \in {0, error_count}
      BY <1>1 DEF LoadEC, LoadInterface, LoadInterfaceFail, ExitInterface, Loading, Load,
                  LoadFail, Exit, qecVars, counts
    <3>3. QED
      BY <3>1, <3>2
  <2>3. error_count' + Cardinality(Ahead') <= MaxRounds
    BY <2>2, <1>t, <1>c, FS_EmptySet
  <2>4. QcTypeOK'
    <3>1. /\ quantum_state' \in {"null", "live", "freed"}
          /\ classical_buffer' \in {"null", "live", "freed"}
          /\ qc_loaded' \in BOOLEAN
      BY <1>1, <1>t DEF QcTypeOK, LoadEC, LoadInterface, LoadInterfaceFail, ExitInterface, qcLoad
    <3>2. /\ qc_lock' \in {qc_lock, NoThread}
          /\ conversion_count' \in {0, conversion_count}
          /\ measurement_count' \in {0, measurement_count}
          /\ converted' \in {0, converted}
          /\ controlled' \in {0, controlled, correction_count}
      BY <1>1 DEF LoadEC, LoadInterface, LoadInterfaceFail, ExitInterface, qcCounts, history
    <3>3. /\ qc_lock' \in Threads \cup {NoThread}
          /\ conversion_count' \in Nat /\ measurement_count' \in Nat
          /\ converted' \in Nat /\ controlled' \in Nat
      <4>1. qc_lock' \in Threads \cup {NoThread} /\ converted' \in Nat
        BY <3>2, <1>n
      <4>2. conversion_count' \in Nat /\ measurement_count' \in Nat
        BY <3>2, <1>n
      <4>3. controlled' \in Nat
        BY <3>2, <1>n, <1>t
      <4>4. QED
        BY <4>1, <4>2, <4>3
    <3>4. UNCHANGED <<loc, len>>
      BY <2>1
    <3>5. QED
      BY <3>1, <3>3, <3>4, <1>t DEF QcTypeOK
  <2>5. Calling'
    <3>1. qc_lock' \in {qc_lock, NoThread}
      BY <1>1 DEF LoadEC, LoadInterface, LoadInterfaceFail, ExitInterface
    <3>2. QED
      BY <3>1, <2>1, <1>t DEF Calling, InInterface
  <2>6. Linked'
    BY <1>1, <2>1 DEF Linked, LoadEC, LoadInterface, LoadInterfaceFail, ExitInterface,
                      qcLoad, qecVars, qecLoad
  <2>7. qc_loaded' => correction_count' = controlled' + Returning'
    <3>1. Returning' = 0
      BY <2>1 DEF Returning
    <3>2. qc_loaded' => correction_count' = controlled'
      BY <1>1, <1>t DEF LoadEC, LoadInterface, LoadInterfaceFail, ExitInterface, qcLoad,
                        qecVars, counts, Linked
    <3>3. QED
      BY <3>1, <3>2, <1>t, <1>r DEF RoundInv, TypeOK
  <2>8. qc_loaded' => converted' = conversion_count' + Counting'
    <3>1. Counting' = 0
      BY <2>1 DEF Counting
    <3>2. qc_loaded' => converted' = 0 /\ conversion_count' = 0
      BY <1>1, <1>t DEF LoadEC, LoadInterface, LoadInterfaceFail, ExitInterface, qcLoad
    <3>3. QED
      BY <3>1, <3>2
  <2>9. QED
    BY <1>r, <2>3, <2>4, <2>5, <2>6, <2>7, <2>8
<1>2. ASSUME NEW t \in Threads, NEW c \in Calls, NEW n \in Sizes \cup GateQubits,
             Begin(t, c, n)
      PROVE  QcInv'
  <2>1. /\ loc[t] = "idle" /\ loc' = [loc EXCEPT ![t] = c] /\ len' = [len EXCEPT ![t] = n]
        /\ UNCHANGED <<qcLoad, qc_lock, qcCounts, history, qecVars>>
        /\ qc_loaded
        /\ IF c = "control" THEN n \in GateQubits /\ error_count + Cardinality(Ahead) < MaxRounds
           ELSE n \in Sizes /\ n <= BufferSize
    BY <1>2 DEF Begin, In, To
  <2>2. UNCHANGED <<pc, reg, error_count, correction_count, qec_loaded>>
    BY <2>1 DEF qecVars, qecLoad, counts
  <2>3. error_count' + Cardinality(Ahead') <= MaxRounds
    <3>1. CASE c = "control"
      <4>1. Ahead' \subseteq Ahead \cup {t}
        BY <2>1, <2>2, <1>t DEF Ahead, In
      <4>2. Cardinality(Ahead') <= Cardinality(Ahead) + 1
        BY <4>1, AheadGrows
      <4>3. error_count' = error_count /\ error_count + Cardinality(Ahead) < MaxRounds
        BY <3>1, <2>1, <2>2
      <4>4. QED
        BY <4>2, <4>3, <1>t, <1>c
    <3>2. CASE c # "control"
      <4>1. Ahead' \subseteq Ahead
        BY <3>2, <2>1, <2>2, <1>t DEF Ahead, In, Calls
      <4>2. QED
        BY <4>1, <2>2, <1>t, <1>c, AheadShrinks
    <3>3. QED
      BY <3>1, <3>2
  <2>4. QcTypeOK'
    BY <1>t, <2>1 DEF QcTypeOK, qcLoad, qcCounts, history, Stages
  <2>5. Calling' /\ Linked'
    BY <1>t, <2>1, <2>2 DEF Calling, Linked, InInterface, Calls, qcLoad
  <2>6. qc_loaded' => correction_count' = controlled' + Returning'
    BY <2>1, <2>2 DEF Returning, qcLoad, history
  <2>7. qc_loaded' => converted' = conversion_count' + Counting'
    BY <1>t, <2>1 DEF Counting, history, qcCounts, qcLoad, Calls
  <2>8. QED
    BY <1>r, <2>3, <2>4, <2>5, <2>6, <2>7
<1>3. ASSUME NEW t \in Threads, LockInterface(t)
      PROVE  QcInv'
  <2>1. /\ loc[t] \in Calls /\ loc' = [loc EXCEPT ![t] = First[loc[t]]]
        /\ First[loc[t]] \in {"convert", "read", "gate"}
        /\ loc[t] = "control" <=> First[loc[t]] = "gate"
        /\ qc_lock = NoThread /\ qc_lock' = t
        /\ UNCHANGED <<qcLoad, qcCounts, len, history, qecVars>>
    BY <1>3 DEF LockInterface, To, First, Calls
  <2>2. UNCHANGED <<pc, reg, error_count, correction_count, qec_loaded>>
    BY <2>1 DEF qecVars, qecLoad, counts
  <2>3. Ahead' = Ahead
    BY <2>1, <2>2, <1>t DEF Ahead, In, Calls
  <2>4. QcTypeOK'
    BY <1>t, <2>1 DEF QcTypeOK, qcLoad, qcCounts, history, Stages
  <2>5. Calling' /\ Linked'
    BY <1>t, <2>1, <2>2 DEF Calling, Linked, InInterface, Calls, qcLoad
  <2>6. qc_loaded' => correction_count' = controlled' + Returning'
    BY <2>1, <2>2 DEF Returning, qcLoad, history
  <2>7. qc_loaded' => converted' = conversion_count' + Counting'
    BY <1>t, <2>1 DEF Counting, history, qcCounts, qcLoad, Calls
  <2>8. QED
    BY <1>r, <1>c, <2>2, <2>3, <2>4, <2>5, <2>6, <2>7
\* Work on the state of the interface: t goes on inside the interface, without
\* error correction, or leaves it with the lock.
<1>a. ASSUME NEW t \in Threads, InInterface(t), pc[t] = "idle",
             UNCHANGED <<pc, reg, error_count, correction_count, qec_loaded>>,
             UNCHANGED <<qcLoad, controlled>>, QcTypeOK',
             NEW stage \in Stages, loc' = [loc EXCEPT ![t] = stage],
             \/ stage \notin Calls \cup {"idle", "corrected"} /\ qc_lock' = qc_lock
             \/ stage = "idle" /\ qc_lock' = NoThread,
             stage = "gate" => loc[t] = "gate",
             stage = "correct" => loc[t] = "gate",
             converted' - conversion_count' - (IF stage = "convert_count" THEN 1 ELSE 0)
               = converted - conversion_count - (IF loc[t] = "convert_count" THEN 1 ELSE 0)
      PROVE  QcInv'
  <2>1. Ahead' \subseteq Ahead
    BY <1>a, <1>t DEF Ahead, In, Calls
  <2>2. error_count' + Cardinality(Ahead') <= MaxRounds
    BY <1>a, <2>1, <1>t, <1>c, AheadShrinks
  <2>e. \A u \in Threads \ {t} : ~InInterface(u)
    BY <1>a, NobodyElse
  <2>3. Calling'
    <3>1. qc_lock = t
      BY <1>a, <1>t DEF Calling
    <3>2. QED
      BY <1>a, <1>t, <2>e, <3>1 DEF Calling, InInterface
  <2>4. Linked'
    BY <1>a, <1>t DEF Linked, qcLoad, InInterface
  <2>5. qc_loaded' => correction_count' = controlled' + Returning'
    BY <1>a DEF Returning, qcLoad
  <2>6. qc_loaded' => converted' = conversion_count' + Counting'
    <3>1. Counting = IF loc[t] = "convert_count" THEN 1 ELSE 0
      BY <2>e DEF Counting, InInterface, Calls
    <3>2. Counting' = IF stage = "convert_count" THEN 1 ELSE 0
      BY <1>a, <1>t, <2>e DEF Counting, InInterface, Calls
    <3>3. conversion_count' \in Nat /\ converted' \in Nat
      BY <1>a DEF QcTypeOK
    <3>4. /\ converted' - conversion_count' - (IF stage = "convert_count" THEN 1 ELSE 0)
               = converted - conversion_count - (IF loc[t] = "convert_count" THEN 1 ELSE 0)
          /\ qc_loaded' = qc_loaded
      BY <1>a DEF qcLoad
    <3>5. qc_loaded => converted = conversion_count + Counting
      BY <1>t
    <3>6. PICK k \in Int : k = IF stage = "convert_count" THEN 1 ELSE 0
      OBVIOUS
    <3>7. PICK l \in Int : l = IF loc[t] = "convert_count" THEN 1 ELSE 0
      OBVIOUS
    <3>8. qc_loaded => converted' = conversion_count' + k
      <4>1. qc_loaded => converted = conversion_count + l
        BY <3>1, <3>5, <3>7
      <4>2. converted' - conversion_count' - k = converted - conversion_count - l
        BY <3>4, <3>6, <3>7
      <4>3. PICK c \in Int, d \in Int : c = converted' /\ d = conversion_count'
        BY <3>3
      <4>4. c - d - k = converted - conversion_count - l
        BY <4>2, <4>3
      <4>5. converted = conversion_count + l => c = d + k
        BY <1>n, <4>4
      <4>6. QED
        BY <4>1, <4>3, <4>5
    <3>9. QED
      BY <3>2, <3>4, <3>6, <3>8
  <2>7. QED
    BY <1>r, <1>a, <2>2, <2>3, <2>4, <2>5, <2>6
<1>4. ASSUME NEW t \in Threads, NEW S \in Contents, Convert(t, S)
      PROVE  QcInv'
  <2>1. /\ loc[t] = "convert" /\ InInterface(t) /\ pc[t] = "idle"
        /\ UNCHANGED <<pc, reg, error_count, correction_count, qec_loaded>>
        /\ UNCHANGED <<qcLoad, qc_lock, qcCounts, len, controlled>>
    BY <1>4, <1>t DEF Convert, Touch, In, InInterface, Calls, Calling, qecLoad, counts
  <2>2. PICK stage \in {"convert_count", "unlock"} :
          /\ loc' = [loc EXCEPT ![t] = stage]
          /\ converted' = converted + (IF stage = "convert_count" THEN 1 ELSE 0)
    BY <1>4, <1>n DEF Convert, To
  <2>3. QcTypeOK'
    BY <1>t, <1>n, <2>1, <2>2 DEF QcTypeOK, Stages, qcLoad, qcCounts
  <2>4. converted' - conversion_count' - (IF stage = "convert_count" THEN 1 ELSE 0)
          = converted - conversion_count - (IF loc[t] = "convert_count" THEN 1 ELSE 0)
    BY <1>n, <2>1, <2>2 DEF qcCounts
  <2>5. stage \in Stages /\ stage \notin Calls \cup {"idle", "corrected"} /\ qc_lock' = qc_lock
    BY <2>1, <2>2 DEF Stages, Calls
  <2>6. QED
    BY <2>1, <2>2, <2>3, <2>4, <2>5, <1>a
<1>5. ASSUME NEW t \in Threads, NEW S \in Contents, Read(t, S) \/ Gate(t, S)
      PROVE  QcInv'
  <2>1. /\ loc[t] \in {"read", "gate"} /\ InInterface(t) /\ pc[t] = "idle"
        /\ UNCHANGED <<pc, reg, error_count, correction_count, qec_loaded>>
        /\ UNCHANGED <<qcLoad, qc_lock, qcCounts, len, history>>
    BY <1>5, <1>t DEF Read, Gate, Touch, In, InInterface, Calls, Calling, qecLoad,
                      counts, qecVars
  <2>2. PICK stage \in {"read_count", "correct", "unlock"} :
          /\ loc' = [loc EXCEPT ![t] = stage]
          /\ stage = "correct" => loc[t] = "gate"
    BY <1>5 DEF Read, Gate, To, In
  <2>3. QcTypeOK'
    BY <1>t, <2>1, <2>2 DEF QcTypeOK, Stages, qcLoad, qcCounts, history
  <2>4. QED
    BY <2>1, <2>2, <2>3, <1>a DEF Stages, Calls, history, qcCounts
<1>6. ASSUME NEW t \in Threads, ConvertCount(t) \/ ReadCount(t) \/ UnlockInterface(t)
      PROVE  QcInv'
  <2>1. /\ loc[t] \in {"convert_count", "read_count", "unlock"} /\ InInterface(t) /\ pc[t] = "idle"
        /\ UNCHANGED <<pc, reg, error_count, correction_count, qec_loaded>>
        /\ UNCHANGED <<qcLoad, converted, controlled>>
    BY <1>6, <1>t DEF ConvertCount, ReadCount, UnlockInterface, In, InInterface, Calls, Calling,
                      qecVars, qecLoad, counts, history
  <2>2. CASE ConvertCount(t) \/ ReadCount(t)
    <3>1. /\ loc' = [loc EXCEPT ![t] = "unlock"] /\ UNCHANGED <<qc_lock, len>>
          /\ conversion_count' =
               conversion_count + (IF loc[t] = "convert_count" THEN 1 ELSE 0)
          /\ measurement_count' \in {measurement_count, measurement_count + 1}
      BY <2>2, <1>n DEF ConvertCount, ReadCount, To, In
    <3>2. QcTypeOK'
      BY <1>t, <1>n, <2>1, <3>1 DEF QcTypeOK, Stages, qcLoad
    <3> DEFINE stage == "unlock"
    <3>3. converted' - conversion_count' - (IF stage = "convert_count" THEN 1 ELSE 0)
            = converted - conversion_count - (IF loc[t] = "convert_count" THEN 1 ELSE 0)
      BY <1>n, <2>1, <3>1
    <3>4. /\ stage \in Stages /\ stage \notin Calls \cup {"idle", "corrected"}
          /\ stage \notin {"gate", "correct"} /\ loc' = [loc EXCEPT ![t] = stage]
      BY <3>1 DEF Stages, Calls
    <3> HIDE DEF stage
    <3>5. QED
      BY <2>1, <3>1, <3>2, <3>3, <3>4, <1>a
  <2>3. CASE UnlockInterface(t)
    <3>1. /\ loc[t] = "unlock" /\ loc' = [loc EXCEPT ![t] = "idle"]
          /\ len' = [len EXCEPT ![t] = 0]
          /\ qc_lock' = NoThread /\ UNCHANGED qcCounts
      BY <2>3 DEF UnlockInterface, To, In
    <3>2. QcTypeOK'
      BY <1>t, <2>1, <3>1, InterfaceConstants DEF QcTypeOK, Stages, qcLoad, qcCounts
    <3>3. QED
      BY <2>1, <3>1, <3>2, <1>a DEF Stages, Calls, qcCounts
  <2>4. QED
    BY <1>6, <2>2, <2>3
<1>7. ASSUME NEW t \in Threads, CallCorrection(t)
      PROVE  QcInv'
  <2>1. /\ loc[t] = "correct" /\ loc' = [loc EXCEPT ![t] = "corrected"]
        /\ pc[t] = "idle" /\ pc' = [pc EXCEPT ![t] = "lock"]
        /\ reg' = [reg EXCEPT ![t] = Iface]
        /\ UNCHANGED <<qcLoad, qc_lock, qcCounts, len, history>>
        /\ UNCHANGED <<error_count, correction_count, qec_loaded>>
    BY <1>7 DEF CallCorrection, ApplyBegin, At, Goto, In, To, qecLoad, counts
  <2>2. Ahead' \subseteq Ahead
    BY <2>1, <1>t DEF Ahead, In
  <2>3. error_count' + Cardinality(Ahead') <= MaxRounds
    BY <2>1, <2>2, <1>t, <1>c, AheadShrinks
  <2>4. QcTypeOK'
    BY <2>1, <1>t DEF QcTypeOK, Stages, qcLoad, qcCounts, history
  <2>5. Calling' /\ Linked'
    BY <2>1, <1>t DEF Calling, Linked, InInterface, Calls, qcLoad
  <2>6. qc_loaded' => correction_count' = controlled' + Returning'
    <3>1. \A u \in Threads : pc'[u] = "unlock_ok" <=> pc[u] = "unlock_ok"
      BY <2>1, <1>t
    <3>2. Returning' = Returning
      BY <3>1 DEF Returning
    <3>3. QED
      BY <3>2, <2>1 DEF qcLoad, history
  <2>7. qc_loaded' => converted' = conversion_count' + Counting'
    BY <1>t, <2>1 DEF Counting, history, qcCounts, qcLoad
  <2>8. QED
    BY <1>r, <2>3, <2>4, <2>5, <2>6, <2>7
\* A step inside error correction.
<1>8. ASSUME NEW t \in Threads, Correction(t)
      PROVE  QcInv'
  <2>1. /\ UNCHANGED <<qcLoad, qc_lock, qcCounts, loc, len, history>>
        /\ Inside(t)
    BY <1>8 DEF Correction
  <2>2. /\ UNCHANGED <<reg, qec_loaded>>
        /\ pc' = [pc EXCEPT ![t] = pc'[t]] /\ pc'[t] \notin {"idle", "lock"}
        /\ pc'[t] = "measure" => pc[t] = "lock"
        /\ pc'[t] = "count_error" => pc[t] = "measure"
        /\ pc'[t] = "unlock_ok" => CountCorrection(t)
        /\ pc[t] \notin {"idle", "unlock_ok", "unlock_error"}
        /\ error_count' = error_count \/ CountError(t)
        /\ correction_count' = correction_count \/ CountCorrection(t)
    <3>1. CASE Lock(t)
      BY <3>1, <1>t DEF Lock, At, Goto, qecLoad, counts
    <3>2. CASE Measure(t)
      BY <3>2, <1>t DEF Measure, At, Goto, qecLoad, counts
    <3>3. CASE \E n \in 0 .. 3 : MeasureFail(t, n)
      BY <3>3, <1>t DEF MeasureFail, At, Goto, qecLoad, counts
    <3>4. CASE CountError(t)
      BY <3>4, <1>t DEF CountError, At, Goto, qecLoad
    <3>5. CASE Correct(t)
      BY <3>5, <1>t DEF Correct, At, Goto, qecLoad, counts
    <3>6. CASE CorrectFail(t)
      BY <3>6, <1>t DEF CorrectFail, At, Goto, qecLoad, counts
    <3>7. CASE CountCorrection(t)
      BY <3>7, <1>t DEF CountCorrection, At, Goto, qecLoad
    <3>8. QED
      BY <2>1, <3>1, <3>2, <3>3, <3>4, <3>5, <3>6, <3>7 DEF Inside
  <2>3. loc[t] = "corrected" /\ InInterface(t)
    BY <2>2, <1>t DEF Calling, InInterface, Calls
  <2>4. \A u \in Threads \ {t} : pc[u] = "idle" /\ pc'[u] = "idle"
    BY <2>2, <2>3, <1>t, NobodyElse
  <2>5. error_count' + Cardinality(Ahead') <= MaxRounds
    <3>1. CASE CountError(t)
      <4>1. t \in Ahead /\ error_count' = error_count + 1 /\ pc'[t] = "correct"
        BY <3>1, <2>3, <1>t DEF CountError, At, Goto, Ahead, In
      <4>2. Ahead' \subseteq Ahead \ {t}
        BY <4>1, <2>1, <2>2, <2>3, <2>4 DEF Ahead, In
      <4>3. Cardinality(Ahead') <= Cardinality(Ahead) - 1
        BY <4>1, <4>2, AheadCounted
      <4>4. QED
        BY <4>1, <4>3, <1>t, <1>c
    <3>2. CASE error_count' = error_count
      <4>1. Ahead' \subseteq Ahead
        BY <2>1, <2>2, <2>3, <2>4, <1>t DEF Ahead, In
      <4>2. QED
        BY <3>2, <4>1, <1>t, <1>c, AheadShrinks
    <3>3. QED
      BY <2>2, <3>1, <3>2
  <2>6. QcTypeOK'
    BY <2>1, <1>t DEF QcTypeOK, qcLoad, qcCounts, history
  <2>7. Calling' /\ Linked'
    BY <2>1, <2>2, <2>3, <2>4, <1>t DEF Calling, Linked, InInterface, qcLoad
  <2>8. qc_loaded' => correction_count' = controlled' + Returning'
    <3>1. Returning = 0
      BY <2>2, <2>4 DEF Returning
    <3>2. CASE CountCorrection(t)
      <4>1. correction_count' = correction_count + 1 /\ pc'[t] = "unlock_ok"
        BY <3>2, <1>t DEF CountCorrection, Goto
      <4>2. Returning' = 1
        BY <4>1 DEF Returning
      <4>3. QED
        BY <2>1, <3>1, <4>1, <4>2, <1>t, <1>n DEF qcLoad, history
    <3>3. CASE ~CountCorrection(t)
      <4>1. correction_count' = correction_count /\ pc'[t] # "unlock_ok"
        BY <3>3, <2>2, <1>t
      <4>2. Returning' = 0
        BY <4>1, <2>4 DEF Returning
      <4>3. QED
        BY <2>1, <3>1, <4>1, <4>2 DEF qcLoad, history
    <3>4. QED
      BY <3>2, <3>3
  <2>9. qc_loaded' => converted' = conversion_count' + Counting'
    BY <1>t, <2>1 DEF Counting, history, qcCounts, qcLoad
  <2>10. QED
    BY <1>r, <2>5, <2>6, <2>7, <2>8, <2>9
<1>9. ASSUME NEW t \in Threads, CorrectionReturns(t)
      PROVE  QcInv'
  <2>1. /\ loc[t] = "corrected" /\ loc' = [loc EXCEPT ![t] = "unlock"]
        /\ pc[t] \in {"unlock_ok", "unlock_error"} /\ pc' = [pc EXCEPT ![t] = "idle"]
        /\ reg' = [reg EXCEPT ![t] = NoReg]
        /\ controlled' = IF pc[t] = "unlock_ok" THEN controlled + 1 ELSE controlled
        /\ UNCHANGED <<qcLoad, qc_lock, qcCounts, len, converted>>
        /\ UNCHANGED <<error_count, correction_count, qec_loaded>>
    BY <1>9 DEF CorrectionReturns, Unlock, Goto, In, To, qecLoad, counts
  <2>2. InInterface(t) /\ \A u \in Threads \ {t} : pc[u] = "idle" /\ pc'[u] = "idle"
    BY <2>1, <1>t, NobodyElse DEF InInterface, Calls
  <2>3. Ahead' \subseteq Ahead
    BY <2>1, <1>t DEF Ahead, In
  <2>4. error_count' + Cardinality(Ahead') <= MaxRounds
    BY <2>1, <2>3, <1>t, <1>c, AheadShrinks
  <2>5. QcTypeOK'
    <3>1. controlled' \in Nat
      BY <2>1, <1>n
    <3>2. QED
      BY <2>1, <3>1, <1>t DEF QcTypeOK, Stages, qcLoad, qcCounts
  <2>6. Calling' /\ Linked'
    BY <2>1, <1>t DEF Calling, Linked, InInterface, Calls, qcLoad
  <2>7. qc_loaded' => correction_count' = controlled' + Returning'
    <3>1. Returning' = 0
      BY <2>1, <2>2, <1>t DEF Returning
    <3>2. Returning = IF pc[t] = "unlock_ok" THEN 1 ELSE 0
      BY <2>2 DEF Returning
    <3>3. QED
      BY <2>1, <3>1, <3>2, <1>t, <1>n DEF qcLoad
  <2>8. qc_loaded' => converted' = conversion_count' + Counting'
    BY <1>t, <2>1 DEF Counting, qcCounts, qcLoad
  <2>9. QED
    BY <1>r, <2>4, <2>5, <2>6, <2>7, <2>8
<1>10. CASE UNCHANGED qcVars
  <2>1. UNCHANGED <<qcLoad, qc_lock, qcCounts, loc, len, history, pc, reg, error_count,
                    correction_count, qec_loaded>>
    BY <1>10 DEF qcVars, qecVars, qecLoad, counts
  <2>2. Ahead' = Ahead /\ Returning' = Returning /\ Counting' = Counting
    BY <2>1 DEF Ahead, In, Returning, Counting
  <2>3. QcTypeOK' /\ Calling' /\ Linked'
    BY <2>1, <1>t DEF QcTypeOK, Calling, Linked, InInterface, qcLoad, qcCounts, history
  <2>4. QED
    BY <1>r, <2>1, <2>2, <2>3 DEF qcLoad, history, qcCounts
<1>11. QED
  BY <1>1, <1>2, <1>3, <1>4, <1>5, <1>6, <1>7, <1>8, <1>9, <1>10 DEF QcNext, QcStep

LEMMA QcInvariant == QcSpec => []QcInv
BY QcInvInit, QcInvStep, PTL DEF QcSpec

\* The variables of the interface keep their types.
THEOREM InterfaceTypes == QcSpec => []QcTypeOK
<1>1. QcInv => QcTypeOK
  BY DEF QcInv, CallInv
<1>2. QED
  BY <1>1, QcInvariant, PTL

\* Whoever is past a lock statement of the interface holds its lock, and
\* qec.lock is taken only inside it.
THEOREM InterfaceLocksNest == QcSpec => []LocksNest
<1>1. QcInv => LocksNest
  <2> SUFFICES ASSUME QcInv, NEW t \in Threads, qec_lock = t
               PROVE  qc_lock = t
    BY DEF QcInv, CallInv, Calling, LocksNest
  <2>1. pc[t] # "idle"
    BY DEF QcInv, RoundInv, MutualExclusion, Holds
  <2>2. InInterface(t)
    BY <2>1 DEF QcInv, CallInv, Calling, InInterface, Calls
  <2>3. QED
    BY <2>2 DEF QcInv, CallInv, Calling
<1>2. QED
  BY <1>1, QcInvariant, PTL

\* The corrections counted are the controlled operations that returned 0, and
\* the one that is about to.
THEOREM CorrectionsCountControl == QcSpec => []CorrectionsAreControlled
<1>1. QcInv => CorrectionsAreControlled
  <2> SUFFICES ASSUME QcInv
               PROVE  CorrectionsAreControlled
    OBVIOUS
  <2>1. Cardinality({t \in Threads : pc[t] \in {"unlock_ok"}}) =
          IF \E t \in Threads : pc[t] \in {"unlock_ok"} THEN 1 ELSE 0
    <3>1. {"unlock_ok"} \subseteq Steps
      BY DEF Steps
    <3>2. QED
      BY <3>1, OneAtATime DEF QcInv
  <2>2. {t \in Threads : pc[t] \in {"unlock_ok"}} = {t \in Threads : pc[t] = "unlock_ok"}
    OBVIOUS
  <2>3. Cardinality({t \in Threads : pc[t] = "unlock_ok"}) = Returning
    BY <2>1, <2>2 DEF Returning
  <2>4. QED
    BY <2>3 DEF CorrectionsAreControlled, QcInv, CallInv
<1>2. QED
  BY <1>1, QcInvariant, PTL

\* conversion_count is the number of conversions all of whose gates succeeded,
\* but for the one that is about to be counted.
THEOREM ConversionsCounted == QcSpec => []CountsConversions
<1>1. QcInv => CountsConversions
  <2> SUFFICES ASSUME QcInv
               PROVE  CountsConversions
    OBVIOUS
  <2> DEFINE A == {t \in Threads : In(t, "convert_count")}
  <2>1. Cardinality(A) = Counting
    <3>1. CASE A = {}
      BY <3>1, FS_EmptySet DEF Counting, In
    <3>2. CASE A # {}
      <4>1. PICK t : t \in A
        BY <3>2
      <4>2. t \in Threads /\ InInterface(t) /\ loc[t] = "convert_count"
        BY <4>1 DEF InInterface, Calls, In
      <4>3. A = {t}
        BY <4>1, <4>2, NobodyElse DEF QcInv, InInterface, Calls, In
      <4>4. QED
        BY <4>2, <4>3, FS_Singleton DEF Counting
    <3>3. QED
      BY <3>1, <3>2
  <2>2. QED
    BY <2>1 DEF CountsConversions, QcInv, CallInv
<1>2. QED
  BY <1>1, QcInvariant, PTL

\* The interface keeps to the rules of ErrorCorrection for its users.
THEOREM InterfaceUsesCorrection == QcSpec => UsesCorrection
<1>1. QcInit => Init
  BY DEF QcInit
<1>2. QED
  BY <1>1, UsesStep, QcInvariant, PTL DEF QcSpec, UsesCorrection, Spec

\* So the rounds of controlled operations happen one after the other.
THEOREM ControlledInRounds == QcSpec => ImplementsRounds
BY InterfaceUsesCorrection, QecImplementsRounds DEF UsesCorrection
==============================================================================
