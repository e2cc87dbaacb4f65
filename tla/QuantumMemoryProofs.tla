------------------------- MODULE QuantumMemoryProofs -------------------------
(****************************************************************************)
(* Proofs about QuantumMemory, for any number of threads and blocks and any *)
(* limits: types, mutual exclusion, the reference counts, the accounting of *)
(* qubits, the bound on overcommitment, and the refinement of BlockPool.    *)
(****************************************************************************)
EXTENDS QuantumMemory, FiniteSetTheorems, TLAPS

PerBlock == QMEM_MAX_QUBITS_PER_BLOCK

(****************************************************************************)
(* Counting by tokens                                                       *)
(****************************************************************************)
\* The tokens of a finite set are finitely many, and at most PerBlock for each
\* of its elements.
LEMMA TokensFinite ==
  ASSUME NEW S, IsFiniteSet(S), NEW n
  PROVE  /\ IsFiniteSet(Tokens(S, n))
         /\ Cardinality(Tokens(S, n)) \in Nat
         /\ Cardinality(Tokens(S, n)) <= Cardinality(S) * PerBlock
<1>1. PerBlock \in Nat \ {0}
  BY QMemConstants DEF PerBlock
<1>2. IsFiniteSet(1 .. PerBlock) /\ Cardinality(1 .. PerBlock) = PerBlock
  BY <1>1, FS_Interval, SMT
<1>3. /\ IsFiniteSet(S \X (1 .. PerBlock))
      /\ Cardinality(S \X (1 .. PerBlock)) = Cardinality(S) * PerBlock
  BY <1>2, FS_Product
<1>4. Tokens(S, n) \subseteq S \X (1 .. PerBlock)
  BY DEF Tokens, PerBlock
<1>5. QED
  BY <1>3, <1>4, FS_Subset, FS_CardinalityType

\* An empty set has no tokens.
LEMMA TokensEmpty ==
  ASSUME NEW n
  PROVE  Cardinality(Tokens({}, n)) = 0
<1>1. Tokens({}, n) = {}
  BY DEF Tokens
<1>2. QED
  BY <1>1, FS_EmptySet

\* The tokens of S depend on the amounts of the elements of S only.
LEMMA TokensAgree ==
  ASSUME NEW S, NEW n, NEW m, \A x \in S : n[x] = m[x]
  PROVE  Tokens(S, n) = Tokens(S, m)
BY DEF Tokens

\* An element paired with k numbers has k tokens.
LEMMA TokensOfOne ==
  ASSUME NEW e, NEW k \in Nat
  PROVE  IsFiniteSet({e} \X (1 .. k)) /\ Cardinality({e} \X (1 .. k)) = k
<1>1. IsFiniteSet(1 .. k) /\ Cardinality(1 .. k) = k
  BY FS_Interval
<1>2. IsFiniteSet({e}) /\ Cardinality({e}) = 1
  BY FS_Singleton
<1>3. QED
  BY <1>1, <1>2, FS_Product

\* One element more adds as many tokens as its amount.
LEMMA TokensAdd ==
  ASSUME NEW S, IsFiniteSet(S), NEW n, NEW e, e \notin S,
         n[e] \in 0 .. PerBlock
  PROVE  Cardinality(Tokens(S \cup {e}, n)) = Cardinality(Tokens(S, n)) + n[e]
<1>1. PICK k \in Nat : k = n[e] /\ k <= PerBlock
  BY QMemConstants DEF PerBlock
<1> DEFINE New == {e} \X (1 .. k)
<1>2. IsFiniteSet(New) /\ Cardinality(New) = k
  BY TokensOfOne
<1>3. Tokens(S \cup {e}, n) = Tokens(S, n) \cup New
  <2>1. ASSUME NEW x \in Tokens(S \cup {e}, n)
        PROVE  x \in Tokens(S, n) \cup New
    BY <2>1, <1>1 DEF Tokens, PerBlock
  <2>2. Tokens(S, n) \subseteq Tokens(S \cup {e}, n)
    BY DEF Tokens
  <2>3. New \subseteq Tokens(S \cup {e}, n)
    BY <1>1, QMemConstants DEF Tokens, PerBlock
  <2>4. QED
    BY <2>1, <2>2, <2>3
<1>4. Tokens(S, n) \cap New = {}
  BY DEF Tokens
<1>5. IsFiniteSet(Tokens(S, n)) /\ Cardinality(Tokens(S, n)) \in Nat
  BY TokensFinite
<1> HIDE DEF New
<1>6. Cardinality(Tokens(S, n) \cup New)
        = Cardinality(Tokens(S, n)) + Cardinality(New) - Cardinality({})
  BY <1>2, <1>4, <1>5, FS_Union
<1>7. Cardinality({}) = 0
  BY FS_EmptySet
<1>8. Cardinality(Tokens(S, n) \cup New) = Cardinality(Tokens(S, n)) + k
  BY <1>2, <1>5, <1>6, <1>7
<1>9. QED
  BY <1>1, <1>3, <1>8

\* One element less removes as many tokens as its amount.
LEMMA TokensRemove ==
  ASSUME NEW S, IsFiniteSet(S), NEW n, NEW e \in S, n[e] \in 0 .. PerBlock
  PROVE  Cardinality(Tokens(S \ {e}, n)) = Cardinality(Tokens(S, n)) - n[e]
<1>1. IsFiniteSet(S \ {e})
  BY FS_RemoveElement
<1>2. (S \ {e}) \cup {e} = S
  OBVIOUS
<1>3. Cardinality(Tokens(S, n)) = Cardinality(Tokens(S \ {e}, n)) + n[e]
  BY <1>1, <1>2, TokensAdd
<1>4. Cardinality(Tokens(S \ {e}, n)) \in Nat /\ n[e] \in Int
  BY <1>1, TokensFinite
<1>5. QED
  BY <1>3, <1>4

\* Fewer elements have no more tokens.
LEMMA TokensMonotone ==
  ASSUME NEW S, IsFiniteSet(S), NEW T, T \subseteq S, NEW n
  PROVE  Cardinality(Tokens(T, n)) <= Cardinality(Tokens(S, n))
<1>1. Tokens(T, n) \subseteq Tokens(S, n)
  BY DEF Tokens
<1>2. QED
  BY <1>1, TokensFinite, FS_Subset

(****************************************************************************)
(* Types and the lock                                                       *)
(****************************************************************************)
\* The number an allocation works with has passed the argument check, and the
\* block it has listed has that size.
CallArgs ==
  \A t \in Threads :
    /\ pc[t] \in {"alloc_check", "alloc_lock", "alloc_block", "alloc_state",
                  "alloc_total", "alloc_allocated"} => ValidSize(arg[t])
    /\ pc[t] \in {"alloc_total", "alloc_allocated"} =>
         blk[t] \in Blocks /\ size[blk[t]] = arg[t]
    /\ pc[t] \in {"alloc_state", "free_lock", "free_dec", "free_total",
                  "free_allocated", "free_kfree"} => blk[t] \in Blocks
    /\ pc[t] = "max_set" => arg[t] \in MaxRequests

\* Without the module there are no blocks, no references and no calls.
Unloaded ==
  ~loaded => /\ used_blocks = {}
             /\ held = {}
             /\ \A t \in Threads : pc[t] = "idle"

BaseInv == TypeOK /\ CallArgs /\ Unloaded /\ MutualExclusion

LEMMA BaseInit == Init => BaseInv
<1> SUFFICES ASSUME Init
             PROVE  BaseInv
  OBVIOUS
<1>1. 0 \in 0 .. QMEM_MAX_QUBITS_PER_BLOCK
  BY QMemConstants
<1>2. TypeOK
  <2>1. /\ pc \in [Threads -> Steps]
        /\ arg \in [Threads -> Nat] /\ seen \in [Threads -> Int]
    BY DEF Init, Steps
  <2>2. blk \in [Threads -> Blocks \cup {NoBlock}]
    BY DEF Init
  <2>3. /\ size \in [Blocks -> 0 .. QMEM_MAX_QUBITS_PER_BLOCK]
        /\ ref_count \in [Blocks -> Int]
    BY <1>1 DEF Init
  <2>4. /\ total_qubits \in Int /\ allocated_qubits \in Int
        /\ max_qubits \in Int
    BY DEF Init
  <2>5. /\ loaded \in BOOLEAN /\ lock \in Threads \cup {NoThread}
        /\ used_blocks \subseteq Blocks /\ live \subseteq Blocks
        /\ states \subseteq Blocks
        /\ held \subseteq Threads \X Blocks
    BY Zenon DEF Init
  <2>6. QED
    BY <2>1, <2>2, <2>3, <2>4, <2>5 DEF TypeOK
<1>3. CallArgs /\ Unloaded
  BY DEF Init, CallArgs, Unloaded
<1>4. MutualExclusion
  BY QMemConstants DEF Init, MutualExclusion, Critical
<1>5. QED
  BY <1>2, <1>3, <1>4 DEF BaseInv

LEMMA BaseStep == BaseInv /\ [Next]_vars => BaseInv'
<1> SUFFICES ASSUME BaseInv, [Next]_vars
             PROVE  BaseInv'
  OBVIOUS
<1> USE QMemConstants DEF BaseInv, TypeOK, CallArgs, Unloaded,
        MutualExclusion, Critical, Steps, Goto, At, Return, heap, counters,
        locals
<1>1. CASE ModInit
  BY <1>1 DEF ModInit
<1>2. CASE ModExit
  BY <1>2 DEF ModExit
<1>3. ASSUME NEW t \in Threads, NEW n \in Requests, AllocBegin(t, n)
      PROVE  BaseInv'
  BY <1>3 DEF AllocBegin, ValidSize
<1>4. ASSUME NEW t \in Threads, AllocCheck(t)
      PROVE  BaseInv'
  BY <1>4 DEF AllocCheck
<1>5. ASSUME NEW t \in Threads, AllocLock(t)
      PROVE  BaseInv'
  BY <1>5 DEF AllocLock
<1>6. ASSUME NEW t \in Threads, AllocFail(t)
      PROVE  BaseInv'
  BY <1>6 DEF AllocFail
<1>6a. ASSUME NEW t \in Threads, NEW b \in Blocks, AllocKzalloc(t, b)
      PROVE  BaseInv'
  BY <1>6a DEF AllocKzalloc
<1>6b. ASSUME NEW t \in Threads, AllocStateFail(t)
      PROVE  BaseInv'
  BY <1>6b DEF AllocStateFail
<1>7. ASSUME NEW t \in Threads, AllocBlock(t)
      PROVE  BaseInv'
  BY <1>7 DEF AllocBlock, ValidSize
<1>8. ASSUME NEW t \in Threads, AllocAddTotal(t)
      PROVE  BaseInv'
  BY <1>8 DEF AllocAddTotal
<1>9. ASSUME NEW t \in Threads, AllocAddAllocated(t)
      PROVE  BaseInv'
  BY <1>9 DEF AllocAddAllocated
<1>10. ASSUME NEW t \in Threads, NEW b \in Blocks, FreeBegin(t, b)
      PROVE  BaseInv'
  BY <1>10 DEF FreeBegin
<1>11. ASSUME NEW t \in Threads, FreeLock(t)
      PROVE  BaseInv'
  BY <1>11 DEF FreeLock
<1>12. ASSUME NEW t \in Threads, FreeDec(t)
      PROVE  BaseInv'
  BY <1>12 DEF FreeDec
<1>13. ASSUME NEW t \in Threads, FreeSubTotal(t)
      PROVE  BaseInv'
  BY <1>13 DEF FreeSubTotal
<1>14. ASSUME NEW t \in Threads, FreeSubAllocated(t)
      PROVE  BaseInv'
  BY <1>14 DEF FreeSubAllocated
<1>15. ASSUME NEW t \in Threads, FreeKfree(t)
      PROVE  BaseInv'
  BY <1>15 DEF FreeKfree
<1>16. ASSUME NEW t \in Threads, Unlock(t)
      PROVE  BaseInv'
  BY <1>16 DEF Unlock
<1>17. ASSUME NEW t \in Threads, NEW m \in MaxRequests, SetMaxBegin(t, m)
      PROVE  BaseInv'
  BY <1>17 DEF SetMaxBegin
<1>18. ASSUME NEW t \in Threads, SetMax(t)
      PROVE  BaseInv'
  BY <1>18 DEF SetMax, ToInt
<1>19. ASSUME NEW t \in Threads, NEW u \in Threads, NEW b \in Blocks, Get(t, u, b)
      PROVE  BaseInv'
  BY <1>19 DEF Get
<1>20. CASE UNCHANGED vars
  BY <1>20 DEF vars
<1>21. QED
  BY <1>1, <1>2, <1>3, <1>4, <1>5, <1>6, <1>7, <1>8, <1>9, <1>10, <1>11, <1>12, <1>13, <1>14, <1>15, <1>16, <1>17, <1>18, <1>19, <1>20,
     <1>6a, <1>6b
  DEF Next, AllocStep, FreeStep, SetMaxStep, GetStep

LEMMA BaseInvariant == Spec => []BaseInv
BY BaseInit, BaseStep, PTL DEF Spec

\* Every variable has its type: sizes of blocks, counters and arguments of
\* calls stay in range whatever is allocated, freed, shared or limited.
THEOREM TypeCorrectness == Spec => []TypeOK
<1>1. BaseInv => TypeOK
  BY DEF BaseInv
<1>2. QED
  BY <1>1, BaseInvariant, PTL

\* A thread is between spin_lock and spin_unlock exactly when it holds qmem.lock,
\* so two threads never are, and every path through alloc and free unlocks.
THEOREM LockExcludes == Spec => []MutualExclusion
<1>1. BaseInv => MutualExclusion
  BY DEF BaseInv
<1>2. QED
  BY <1>1, BaseInvariant, PTL

(****************************************************************************)
(* Reference counts                                                         *)
(****************************************************************************)
\* The holders of a block are finitely many.
LEMMA HoldersFinite ==
  ASSUME NEW b
  PROVE  IsFiniteSet(HoldersOf(b)) /\ Cardinality(HoldersOf(b)) \in Nat
<1>1. HoldersOf(b) \subseteq Threads
  BY DEF HoldersOf
<1>2. QED
  BY <1>1, QMemConstants, FS_Subset, FS_CardinalityType

LEMMA RefInit == Init => RefSafety
BY DEF Init, RefSafety, Owns

LEMMA RefStep == BaseInv /\ RefSafety /\ [Next]_vars => RefSafety'
<1> SUFFICES ASSUME BaseInv, RefSafety, [Next]_vars
             PROVE  RefSafety'
  OBVIOUS
<1> USE QMemConstants DEF BaseInv, TypeOK, CallArgs, Unloaded,
        MutualExclusion, Critical, Goto, At, Return, heap, counters, locals,
        Owns
<1> DEFINE CountOK(b) == /\ ref_count[b] = Cardinality(HoldersOf(b))
                         /\ ref_count[b] > 0
           InListed    == /\ used_blocks \subseteq live
                          /\ \A t \in Threads, b \in Blocks :
                               <<t, b>> \in held => b \in used_blocks
           CallOK      == \A t \in Threads :
             /\ pc[t] \in {"free_lock", "free_dec"} => <<t, blk[t]>> \in held
             /\ Owns(t) => blk[t] \in live \ used_blocks
<1>a. RefSafety <=> InListed /\ CallOK /\ \A b \in used_blocks : CountOK(b)
  BY DEF RefSafety
<1>b. RefSafety' <=> /\ InListed' /\ CallOK'
                     /\ \A b \in used_blocks' : CountOK(b)'
  BY DEF RefSafety
<1>c. ASSUME held' = held, ref_count' = ref_count, used_blocks' \subseteq used_blocks
      PROVE  \A b \in used_blocks' : CountOK(b)'
  BY <1>c, <1>a DEF HoldersOf
<1> HIDE DEF CountOK
<1>1. CASE ModInit
  BY <1>1, <1>a, <1>b, <1>c DEF ModInit
<1>2. CASE ModExit
  BY <1>2, <1>a, <1>b DEF ModExit
<1>3. ASSUME NEW t \in Threads, NEW n \in Requests, AllocBegin(t, n)
      PROVE  RefSafety'
  BY <1>3, <1>a, <1>b, <1>c DEF AllocBegin
<1>4. ASSUME NEW t \in Threads, AllocCheck(t)
      PROVE  RefSafety'
  BY <1>4, <1>a, <1>b, <1>c DEF AllocCheck
<1>5. ASSUME NEW t \in Threads, AllocLock(t)
      PROVE  RefSafety'
  BY <1>5, <1>a, <1>b, <1>c DEF AllocLock
<1>6. ASSUME NEW t \in Threads, AllocFail(t)
      PROVE  RefSafety'
  BY <1>6, <1>a, <1>b, <1>c DEF AllocFail
<1>6a. ASSUME NEW t \in Threads, NEW b \in Blocks, AllocKzalloc(t, b)
      PROVE  RefSafety'
  BY <1>6a, <1>a, <1>b, <1>c DEF AllocKzalloc
<1>6b. ASSUME NEW t \in Threads, AllocStateFail(t)
      PROVE  RefSafety'
  <2>1. /\ lock = t /\ blk[t] \in live \ used_blocks
        /\ \A u \in Threads : Owns(u) => u = t
    BY <1>6b, <1>a DEF AllocStateFail
  <2>2. InListed'
    BY <1>6b, <1>a, <2>1 DEF AllocStateFail
  <2>3. CallOK'
    BY <1>6b, <1>a, <2>1 DEF AllocStateFail
  <2>4. QED
    BY <1>6b, <1>a, <1>b, <1>c, <2>2, <2>3 DEF AllocStateFail
<1>7. ASSUME NEW t \in Threads, AllocBlock(t)
      PROVE  RefSafety'
  <2>0. PICK b \in Blocks : b = blk[t] /\ pc[t] = "alloc_state" /\ lock = t
    BY <1>7 DEF AllocBlock
  <2>1. /\ b \in live /\ b \notin used_blocks
        /\ \A u \in Threads : <<u, b>> \notin held
    BY <1>7, <1>a, <2>0
  <2>2. InListed' /\ CallOK'
    BY <1>7, <1>a, <2>0, <2>1 DEF AllocBlock
  <2>3. CountOK(b)'
    <3>1. HoldersOf(b)' = {t}
      BY <1>7, <2>0, <2>1 DEF AllocBlock, HoldersOf
    <3>2. Cardinality({t}) = 1
      BY FS_Singleton
    <3>3. ref_count'[b] = 1
      BY <1>7, <2>0 DEF AllocBlock
    <3>4. QED
      BY <3>1, <3>2, <3>3 DEF CountOK
  <2>4. ASSUME NEW c \in used_blocks
        PROVE  CountOK(c)'
    <3>1. c # b /\ c \in Blocks
      BY <2>1
    <3>2. HoldersOf(c)' = HoldersOf(c) /\ ref_count'[c] = ref_count[c]
      BY <1>7, <2>0, <3>1 DEF AllocBlock, HoldersOf
    <3>3. QED
      BY <3>2, <1>a DEF CountOK
  <2>5. QED
    BY <1>7, <1>b, <2>0, <2>2, <2>3, <2>4 DEF AllocBlock
<1>8. ASSUME NEW t \in Threads, AllocAddTotal(t)
      PROVE  RefSafety'
  BY <1>8, <1>a, <1>b, <1>c DEF AllocAddTotal
<1>9. ASSUME NEW t \in Threads, AllocAddAllocated(t)
      PROVE  RefSafety'
  BY <1>9, <1>a, <1>b, <1>c DEF AllocAddAllocated
<1>10. ASSUME NEW t \in Threads, NEW b \in Blocks, FreeBegin(t, b)
      PROVE  RefSafety'
  BY <1>10, <1>a, <1>b, <1>c DEF FreeBegin
<1>11. ASSUME NEW t \in Threads, FreeLock(t)
      PROVE  RefSafety'
  BY <1>11, <1>a, <1>b, <1>c DEF FreeLock
<1>12. ASSUME NEW t \in Threads, FreeDec(t)
      PROVE  RefSafety'
  <2>0. PICK b \in Blocks : b = blk[t]
    BY <1>12 DEF FreeDec
  <2> DEFINE last == ref_count[b] = 1
  <2>1. /\ <<t, b>> \in held /\ b \in used_blocks
        /\ pc[t] = "free_dec" /\ lock = t
    BY <1>12, <1>a, <2>0 DEF FreeDec
  <2>2. CountOK(b)
    BY <2>1, <1>a
  <2>3. /\ held' = held \ {<<t, b>>}
        /\ ref_count' = [ref_count EXCEPT ![b] = @ - 1]
        /\ used_blocks' = IF last THEN used_blocks \ {b} ELSE used_blocks
        /\ pc' = [pc EXCEPT ![t] = IF last THEN "free_total" ELSE "unlock"]
        /\ UNCHANGED <<live, blk>>
    BY <1>12, <2>0 DEF FreeDec
  <2>4. HoldersOf(b)' = HoldersOf(b) \ {t} /\ t \in HoldersOf(b)
    BY <2>1, <2>3 DEF HoldersOf
  <2>5. Cardinality(HoldersOf(b)') = Cardinality(HoldersOf(b)) - 1
    <3>1. IsFiniteSet(HoldersOf(b))
      BY HoldersFinite
    <3>2. Cardinality(HoldersOf(b) \ {t}) = Cardinality(HoldersOf(b)) - 1
      BY <3>1, <2>4, FS_RemoveElement
    <3>3. QED
      BY <3>2, <2>4
  <2>6. last => HoldersOf(b)' = {}
    <3>1. IsFiniteSet(HoldersOf(b)')
      BY <2>4, HoldersFinite, FS_RemoveElement
    <3>2. last => Cardinality(HoldersOf(b)') = 0
      BY <2>2, <2>5 DEF CountOK
    <3>3. QED
      BY <3>1, <3>2, FS_EmptySet
  <2>7. InListed'
    BY <1>a, <2>1, <2>3, <2>6 DEF HoldersOf
  <2>8. CallOK'
    <3> SUFFICES ASSUME NEW u \in Threads
                 PROVE  /\ pc'[u] \in {"free_lock", "free_dec"}
                             => <<u, blk'[u]>> \in held'
                        /\ pc'[u] \in {"alloc_state", "free_total",
                                       "free_allocated", "free_kfree"}
                             => blk'[u] \in live' \ used_blocks'
      BY Zenon
    <3>1. CASE u = t
      BY <3>1, <2>0, <2>1, <2>3, <1>a
    <3>2. CASE u # t
      BY <3>2, <2>1, <2>3, <1>a
    <3>3. QED
      BY <3>1, <3>2
  <2>9. ASSUME NEW c \in used_blocks'
        PROVE  CountOK(c)'
    <3>1. CASE c = b
      <4>1. ~last /\ ref_count'[b] = ref_count[b] - 1 /\ ref_count[b] \in Int
        BY <3>1, <2>1, <2>3
      <4>2. ref_count[b] = Cardinality(HoldersOf(b)) /\ ref_count[b] > 1
        BY <4>1, <2>2 DEF CountOK
      <4>3. ref_count'[b] = Cardinality(HoldersOf(b)') /\ ref_count'[b] > 0
        BY <4>1, <4>2, <2>5
      <4>4. QED
        BY <3>1, <4>3 DEF CountOK
    <3>2. CASE c # b
      <4>1. HoldersOf(c)' = HoldersOf(c) /\ ref_count'[c] = ref_count[c]
        BY <3>2, <2>3 DEF HoldersOf
      <4>2. QED
        BY <4>1, <2>3, <1>a DEF CountOK
    <3>3. QED
      BY <3>1, <3>2
  <2>10. QED
    BY <2>7, <2>8, <2>9, <1>b
<1>13. ASSUME NEW t \in Threads, FreeSubTotal(t)
      PROVE  RefSafety'
  BY <1>13, <1>a, <1>b, <1>c DEF FreeSubTotal
<1>14. ASSUME NEW t \in Threads, FreeSubAllocated(t)
      PROVE  RefSafety'
  BY <1>14, <1>a, <1>b, <1>c DEF FreeSubAllocated
<1>15. ASSUME NEW t \in Threads, FreeKfree(t)
      PROVE  RefSafety'
  <2>1. /\ lock = t /\ blk[t] \in live \ used_blocks
        /\ \A u \in Threads : Owns(u) => u = t
    BY <1>15, <1>a DEF FreeKfree
  <2>2. InListed'
    BY <1>15, <1>a, <2>1 DEF FreeKfree
  <2>3. CallOK'
    BY <1>15, <1>a, <2>1 DEF FreeKfree
  <2>4. QED
    BY <1>15, <1>a, <1>b, <1>c, <2>2, <2>3 DEF FreeKfree
<1>16. ASSUME NEW t \in Threads, Unlock(t)
      PROVE  RefSafety'
  BY <1>16, <1>a, <1>b, <1>c DEF Unlock
<1>17. ASSUME NEW t \in Threads, NEW m \in MaxRequests, SetMaxBegin(t, m)
      PROVE  RefSafety'
  BY <1>17, <1>a, <1>b, <1>c DEF SetMaxBegin
<1>18. ASSUME NEW t \in Threads, SetMax(t)
      PROVE  RefSafety'
  BY <1>18, <1>a, <1>b, <1>c DEF SetMax
<1>19. ASSUME NEW t \in Threads, NEW u \in Threads, NEW b \in Blocks, Get(t, u, b)
      PROVE  RefSafety'
  <2>1. b \in used_blocks /\ CountOK(b)
    BY <1>19, <1>a DEF Get
  <2>2. InListed' /\ CallOK'
    BY <1>19, <1>a, <2>1 DEF Get
  <2>3. CountOK(b)'
    <3>1. HoldersOf(b)' = HoldersOf(b) \cup {u} /\ u \notin HoldersOf(b)
      BY <1>19 DEF Get, HoldersOf
    <3>2. Cardinality(HoldersOf(b)') = Cardinality(HoldersOf(b)) + 1
      <4>1. IsFiniteSet(HoldersOf(b))
        BY HoldersFinite
      <4>2. Cardinality(HoldersOf(b) \cup {u}) = Cardinality(HoldersOf(b)) + 1
        BY <4>1, <3>1, FS_AddElement
      <4>3. QED
        BY <4>2, <3>1
    <3>3. ref_count'[b] = ref_count[b] + 1
      BY <1>19 DEF Get
    <3>4. QED
      BY <3>2, <3>3, <2>1, HoldersFinite DEF CountOK
  <2>4. ASSUME NEW c \in used_blocks, c # b
        PROVE  CountOK(c)'
    <3>1. HoldersOf(c)' = HoldersOf(c) /\ ref_count'[c] = ref_count[c]
      BY <1>19, <2>4 DEF Get, HoldersOf
    <3>2. QED
      BY <3>1, <1>a DEF CountOK
  <2>5. QED
    BY <1>19, <1>b, <2>2, <2>3, <2>4 DEF Get
<1>20. CASE UNCHANGED vars
  BY <1>20, <1>a, <1>b, <1>c DEF vars
<1>21. QED
  BY <1>1, <1>2, <1>3, <1>4, <1>5, <1>6, <1>7, <1>8, <1>9, <1>10, <1>11, <1>12, <1>13, <1>14, <1>15, <1>16, <1>17, <1>18, <1>19, <1>20,
     <1>6a, <1>6b
  DEF Next, AllocStep, FreeStep, SetMaxStep, GetStep

\* No use after free and no reference to a freed block: a listed block was not
\* freed, its ref_count is the number of its holders and is positive, and a
\* thread inside free works on a block that was not freed.
THEOREM ReferencesAreSafe == Spec => []RefSafety
BY BaseInvariant, RefInit, RefStep, PTL DEF Spec

LEMMA LastPutStep ==
  ASSUME BaseInv, RefSafety, [Next]_vars, NEW b \in used_blocks \ used_blocks',
         loaded'
  PROVE  Cardinality(HoldersOf(b)) = 1 /\ HoldersOf(b)' = {}
<1>1. PICK t \in Threads : FreeDec(t)
  BY DEF Next, AllocStep, FreeStep, SetMaxStep, GetStep, BaseInv, Unloaded,
         ModInit, ModExit, AllocBegin, AllocCheck, AllocLock, AllocFail,
         AllocKzalloc, AllocStateFail, AllocBlock, AllocAddTotal, AllocAddAllocated, Get, FreeBegin, FreeLock,
         FreeSubTotal, FreeSubAllocated, FreeKfree, Unlock, SetMaxBegin, SetMax,
         heap, vars
<1>2. /\ b = blk[t] /\ ref_count[b] = 1
      /\ held' = held \ {<<t, b>>} /\ <<t, b>> \in held
  BY <1>1 DEF FreeDec, At, RefSafety
<1>3. Cardinality(HoldersOf(b)) = 1 /\ IsFiniteSet(HoldersOf(b))
  BY <1>2, HoldersFinite DEF RefSafety
<1>4. t \in HoldersOf(b) /\ HoldersOf(b)' = HoldersOf(b) \ {t}
  BY <1>2 DEF HoldersOf, BaseInv, TypeOK
<1>5. HoldersOf(b) = {t}
  BY <1>3, <1>4, FS_Singleton
<1>6. QED
  BY <1>3, <1>4, <1>5

\* A block leaves the list in the step that drops its last reference, or when
\* the module is unloaded, and at no other time.
THEOREM UnlistedOnlyByLastPut == Spec => UnlistedByLastPut
<1>1. BaseInv /\ RefSafety /\ [Next]_vars =>
        [\A b \in used_blocks \ used_blocks' :
           loaded' => /\ Cardinality(HoldersOf(b)) = 1
                      /\ HoldersOf(b)' = {}]_vars
  BY LastPutStep
<1>2. QED
  BY <1>1, BaseInvariant, ReferencesAreSafe, PTL DEF Spec, UnlistedByLastPut

(****************************************************************************)
(* Leaks                                                                    *)
(****************************************************************************)
\* The two halves of NoLeak: blocks and quantum states.
BlocksKept == \A b \in live \ used_blocks : \E t \in Threads : Owns(t) /\ blk[t] = b
StatesKept == states = used_blocks

LEMMA LeakForm == NoLeak <=> BlocksKept /\ StatesKept
BY DEF NoLeak, BlocksKept, StatesKept

LEMMA LeakInit == Init => NoLeak
BY DEF Init, NoLeak

\* A state is allocated when its block is listed and freed when it is unlisted.
LEMMA StatesStep == BaseInv /\ StatesKept /\ [Next]_vars => StatesKept'
<1> SUFFICES ASSUME BaseInv, StatesKept, [Next]_vars
             PROVE  StatesKept'
  OBVIOUS
<1> USE DEF StatesKept, BaseInv, Unloaded, heap
<1>1. CASE ModInit
  BY <1>1 DEF ModInit
<1>2. CASE ModExit
  BY <1>2 DEF ModExit
<1>3. ASSUME NEW t \in Threads, AllocStep(t)
      PROVE  StatesKept'
  BY <1>3 DEF AllocStep, AllocBegin, AllocCheck, AllocLock, AllocFail, AllocKzalloc,
              AllocStateFail, AllocBlock, AllocAddTotal, AllocAddAllocated
<1>4. ASSUME NEW t \in Threads, FreeStep(t)
      PROVE  StatesKept'
  BY <1>4 DEF FreeStep, FreeBegin, FreeLock, FreeDec, FreeSubTotal,
              FreeSubAllocated, FreeKfree
<1>5. ASSUME NEW t \in Threads, Unlock(t) \/ SetMaxStep(t) \/ GetStep(t)
      PROVE  StatesKept'
  BY <1>5 DEF Unlock, SetMaxStep, SetMaxBegin, SetMax, GetStep, Get
<1>6. CASE UNCHANGED vars
  BY <1>6 DEF vars
<1>7. QED
  BY <1>1, <1>2, <1>3, <1>4, <1>5, <1>6 DEF Next

LEMMA BlocksStep == BaseInv /\ BlocksKept /\ [Next]_vars => BlocksKept'
<1> SUFFICES ASSUME BaseInv, BlocksKept, [Next]_vars,
                    NEW b \in live' \ used_blocks'
             PROVE  \E u \in Threads : Owns(u)' /\ blk'[u] = b
  BY DEF BlocksKept
<1> DEFINE Kept(t) == \A u \in Threads \ {t} : Owns(u)' = Owns(u) /\ blk'[u] = blk[u]
<1>a. b \in live \ used_blocks => \E u \in Threads : Owns(u) /\ blk[u] = b
  BY DEF BlocksKept
<1> USE DEF BaseInv, TypeOK, Goto, At, Return, heap, counters, locals, Owns
<1>1. CASE ModInit
  BY <1>1, <1>a DEF ModInit, Unloaded
<1>2. CASE ModExit
  BY <1>2, <1>a DEF ModExit
<1>3. ASSUME NEW t \in Threads, Unlock(t) \/ SetMaxStep(t) \/ GetStep(t)
      PROVE  \E u \in Threads : Owns(u)' /\ blk'[u] = b
  <2>1. b \in live \ used_blocks /\ ~Owns(t) /\ Kept(t)
    BY <1>3 DEF Unlock, SetMaxStep, SetMaxBegin, SetMax, GetStep, Get
  <2>2. QED
    BY <2>1, <1>a
\* What kzalloc gave out is kept by the call, until it is listed or, on the
\* error path, freed.
<1>4. ASSUME NEW t \in Threads, AllocStep(t)
      PROVE  \E u \in Threads : Owns(u)' /\ blk'[u] = b
  <2>1. ASSUME NEW c \in Blocks, AllocKzalloc(t, c)
        PROVE  \E u \in Threads : Owns(u)' /\ blk'[u] = b
    <3>1. CASE b = c
      <4>1. Owns(t)' /\ blk'[t] = b
        BY <2>1, <3>1 DEF AllocKzalloc
      <4>2. QED
        BY <4>1
    <3>2. CASE b # c
      <4>1. b \in live \ used_blocks /\ ~Owns(t) /\ Kept(t)
        BY <2>1, <3>2 DEF AllocKzalloc
      <4>2. QED
        BY <4>1, <1>a
    <3>3. QED
      BY <3>1, <3>2
  <2>2. CASE AllocStateFail(t) \/ AllocBlock(t)
    <3>1. b \in live \ used_blocks /\ b # blk[t] /\ Kept(t)
      BY <2>2 DEF AllocStateFail, AllocBlock
    <3>2. QED
      BY <3>1, <1>a
  <2>3. CASE \/ \E n \in Requests : AllocBegin(t, n)
             \/ AllocCheck(t) \/ AllocLock(t) \/ AllocFail(t)
             \/ AllocAddTotal(t) \/ AllocAddAllocated(t)
    <3>1. b \in live \ used_blocks /\ ~Owns(t) /\ Kept(t)
      BY <2>3 DEF AllocBegin, AllocCheck, AllocLock, AllocFail, AllocAddTotal,
                  AllocAddAllocated
    <3>2. QED
      BY <3>1, <1>a
  <2>4. QED
    BY <1>4, <2>1, <2>2, <2>3 DEF AllocStep
\* Only the last put takes a block off the list, and it keeps the pointer.
<1>5. ASSUME NEW t \in Threads, FreeStep(t)
      PROVE  \E u \in Threads : Owns(u)' /\ blk'[u] = b
  <2>1. CASE FreeDec(t)
    <3>1. CASE b \in used_blocks
      <4>1. b = blk[t] /\ ref_count[blk[t]] = 1
        BY <2>1, <3>1 DEF FreeDec
      <4>2. Owns(t)' /\ blk'[t] = b
        BY <2>1, <4>1 DEF FreeDec
      <4>3. QED
        BY <4>2
    <3>2. CASE b \notin used_blocks
      <4>1. b \in live \ used_blocks /\ ~Owns(t) /\ Kept(t)
        BY <2>1, <3>2 DEF FreeDec
      <4>2. QED
        BY <4>1, <1>a
    <3>3. QED
      BY <3>1, <3>2
  <2>2. CASE FreeKfree(t)
    <3>1. b \in live \ used_blocks /\ b # blk[t] /\ Kept(t)
      BY <2>2 DEF FreeKfree
    <3>2. QED
      BY <3>1, <1>a
  <2>3. CASE FreeSubTotal(t) \/ FreeSubAllocated(t)
    <3>1. b \in live \ used_blocks /\ Owns(t)' /\ blk' = blk /\ Kept(t)
      BY <2>3 DEF FreeSubTotal, FreeSubAllocated
    <3>2. QED
      BY <3>1, <1>a
  <2>4. CASE FreeLock(t) \/ \E c \in Blocks : FreeBegin(t, c)
    <3>1. b \in live \ used_blocks /\ ~Owns(t) /\ Kept(t)
      BY <2>4 DEF FreeLock, FreeBegin
    <3>2. QED
      BY <3>1, <1>a
  <2>5. QED
    BY <1>5, <2>1, <2>2, <2>3, <2>4 DEF FreeStep
<1>6. CASE UNCHANGED vars
  BY <1>6, <1>a DEF vars
<1>7. QED
  BY <1>1, <1>2, <1>3, <1>4, <1>5, <1>6 DEF Next

\* Whatever kzalloc gave out is listed or in the hands of a call that lists it or
\* frees it, and a block has a quantum state exactly while it is listed: no path
\* through alloc, its error paths, put, load or unload leaks a block or a state.
THEOREM NothingLeaks == Spec => []NoLeak
<1>1. BaseInv /\ NoLeak /\ [Next]_vars => NoLeak'
  BY LeakForm, StatesStep, BlocksStep DEF StatesKept, BlocksKept, NoLeak
<1>2. QED
  BY <1>1, BaseInvariant, LeakInit, PTL DEF Spec

(****************************************************************************)
(* Accounting                                                               *)
(****************************************************************************)
LEMMA BlocksFinite == IsFiniteSet(Blocks)
BY QMemConstants

\* The qubits of the listed blocks when one is added, and when one is removed.
LEMMA QubitsAdd ==
  ASSUME BaseInv, NEW b \in Blocks, b \notin used_blocks,
         NEW k \in 0 .. PerBlock,
         size' = [size EXCEPT ![b] = k],
         used_blocks' = used_blocks \cup {b}
  PROVE  QubitsInUse' = QubitsInUse + k
<1>1. /\ used_blocks \subseteq Blocks
      /\ size'[b] = k /\ size'[b] \in 0 .. PerBlock
      /\ \A c \in used_blocks : size'[c] = size[c]
  BY DEF BaseInv, TypeOK
<1>2. IsFiniteSet(used_blocks)
  BY <1>1, BlocksFinite, FS_Subset
<1>3. Cardinality(Tokens(used_blocks \cup {b}, size'))
        = Cardinality(Tokens(used_blocks, size')) + size'[b]
  <2>1. ASSUME NEW n, n[b] \in 0 .. PerBlock
        PROVE  Cardinality(Tokens(used_blocks \cup {b}, n))
                 = Cardinality(Tokens(used_blocks, n)) + n[b]
    BY <1>2, <2>1, TokensAdd
  <2>2. QED
    BY <1>1, <2>1
<1>4. Tokens(used_blocks, size') = Tokens(used_blocks, size)
  BY <1>1, TokensAgree
<1>5. QED
  BY <1>1, <1>3, <1>4 DEF QubitsInUse

LEMMA QubitsRemove ==
  ASSUME BaseInv, NEW b \in used_blocks, size' = size,
         used_blocks' = used_blocks \ {b}
  PROVE  QubitsInUse' = QubitsInUse - size[b]
<1>1. used_blocks \subseteq Blocks /\ size[b] \in 0 .. PerBlock
  BY DEF BaseInv, TypeOK, PerBlock
<1>2. IsFiniteSet(used_blocks)
  BY <1>1, BlocksFinite, FS_Subset
<1>3. Cardinality(Tokens(used_blocks \ {b}, size))
        = Cardinality(Tokens(used_blocks, size)) - size[b]
  BY <1>1, <1>2, TokensRemove
<1>4. QED
  BY <1>3 DEF QubitsInUse

LEMMA QubitsNat ==
  ASSUME BaseInv
  PROVE  QubitsInUse \in Nat
<1>1. IsFiniteSet(used_blocks)
  BY BlocksFinite, FS_Subset DEF BaseInv, TypeOK
<1>2. QED
  BY <1>1, TokensFinite DEF QubitsInUse

LEMMA AccountingInit == Init => Accounting
BY DEF Init, Accounting

LEMMA AccountingStep ==
  BaseInv /\ RefSafety /\ Accounting /\ [Next]_vars => Accounting'
<1> SUFFICES ASSUME BaseInv, RefSafety, Accounting, [Next]_vars
             PROVE  Accounting'
  OBVIOUS
<1> USE QMemConstants DEF BaseInv, TypeOK, CallArgs, Unloaded,
        MutualExclusion, Critical, Goto, At, Return, heap, counters, locals
<1>a. UNCHANGED <<used_blocks, size>> => QubitsInUse' = QubitsInUse
  BY DEF QubitsInUse
<1>b. QubitsInUse \in Nat
  BY QubitsNat
<1>1. CASE ModInit
  <2>1. QubitsInUse' = 0
    BY <1>1, TokensEmpty DEF ModInit, QubitsInUse
  <2>2. OwedTotal' = 0 /\ OwedAllocated' = 0
    BY <1>1 DEF ModInit, OwedTotal, OwedAllocated, Owed
  <2>3. QED
    BY <1>1, <2>1, <2>2 DEF ModInit, Accounting
<1>2. CASE ModExit
  BY <1>2 DEF ModExit, Accounting
<1>3. ASSUME NEW t \in Threads, NEW n \in Requests, AllocBegin(t, n)
      PROVE  Accounting'
  BY <1>3, <1>a, <1>b DEF AllocBegin, Accounting, OwedTotal, OwedAllocated, Owed
<1>4. ASSUME NEW t \in Threads, AllocCheck(t)
      PROVE  Accounting'
  BY <1>4, <1>a, <1>b DEF AllocCheck, Accounting, OwedTotal, OwedAllocated, Owed
<1>5. ASSUME NEW t \in Threads, AllocLock(t)
      PROVE  Accounting'
  BY <1>5, <1>a, <1>b DEF AllocLock, Accounting, OwedTotal, OwedAllocated, Owed
<1>6. ASSUME NEW t \in Threads, AllocFail(t)
      PROVE  Accounting'
  BY <1>6, <1>a, <1>b DEF AllocFail, Accounting, OwedTotal, OwedAllocated, Owed
<1>6a. ASSUME NEW t \in Threads, NEW b \in Blocks, AllocKzalloc(t, b)
      PROVE  Accounting'
  BY <1>6a, <1>a, <1>b DEF AllocKzalloc, Accounting, OwedTotal, OwedAllocated, Owed
<1>6b. ASSUME NEW t \in Threads, AllocStateFail(t)
      PROVE  Accounting'
  BY <1>6b, <1>a, <1>b DEF AllocStateFail, Accounting, OwedTotal, OwedAllocated, Owed
<1>7. ASSUME NEW t \in Threads, AllocBlock(t)
      PROVE  Accounting'
  <2>0. PICK b \in Blocks : b = blk[t]
    BY <1>7 DEF AllocBlock
  <2>1. arg[t] \in 0 .. PerBlock /\ b \notin used_blocks
    <3>1. arg[t] \in 0 .. PerBlock
      BY <1>7 DEF AllocBlock, ValidSize, PerBlock
    <3>2. Owns(t)
      BY <1>7 DEF AllocBlock, Owns
    <3>3. b \notin used_blocks
      BY <2>0, <3>2 DEF RefSafety
    <3>4. QED
      BY <3>1, <3>3
  <2>2. QubitsInUse' = QubitsInUse + arg[t]
    BY <1>7, <2>0, <2>1, QubitsAdd DEF AllocBlock
  <2>3. /\ OwedTotal = 0 /\ OwedTotal' = arg[t]
        /\ OwedAllocated = 0 /\ OwedAllocated' = arg[t]
    BY <1>7 DEF AllocBlock, OwedTotal, OwedAllocated, Owed
  <2>4. QED
    BY <1>7, <1>b, <2>2, <2>3 DEF AllocBlock, Accounting
<1>8. ASSUME NEW t \in Threads, AllocAddTotal(t)
      PROVE  Accounting'
  BY <1>8, <1>a, <1>b DEF AllocAddTotal, Accounting, OwedTotal, OwedAllocated, Owed
<1>9. ASSUME NEW t \in Threads, AllocAddAllocated(t)
      PROVE  Accounting'
  BY <1>9, <1>a, <1>b DEF AllocAddAllocated, Accounting, OwedTotal, OwedAllocated, Owed
<1>10. ASSUME NEW t \in Threads, NEW b \in Blocks, FreeBegin(t, b)
      PROVE  Accounting'
  BY <1>10, <1>a, <1>b DEF FreeBegin, Accounting, OwedTotal, OwedAllocated, Owed
<1>11. ASSUME NEW t \in Threads, FreeLock(t)
      PROVE  Accounting'
  BY <1>11, <1>a, <1>b DEF FreeLock, Accounting, OwedTotal, OwedAllocated, Owed
<1>12. ASSUME NEW t \in Threads, FreeDec(t)
      PROVE  Accounting'
  <2>1. PICK b \in Blocks : b = blk[t]
    BY <1>12 DEF FreeDec
  <2>2. b \in used_blocks /\ size[b] \in Int
    <3>1. <<t, b>> \in held /\ pc[t] = "free_dec"
      BY <1>12, <2>1 DEF FreeDec, RefSafety
    <3>2. b \in used_blocks
      BY <3>1 DEF RefSafety
    <3>3. size[b] \in 0 .. QMEM_MAX_QUBITS_PER_BLOCK
      OBVIOUS
    <3>4. QED
      BY <3>2, <3>3
  <2>3. OwedTotal = 0 /\ OwedAllocated = 0
    BY <1>12 DEF FreeDec, OwedTotal, OwedAllocated, Owed
  <2>4. CASE ref_count[b] = 1
    <3>1. QubitsInUse' = QubitsInUse - size[b]
      BY <1>12, <2>1, <2>2, <2>4, QubitsRemove DEF FreeDec
    <3>2. OwedTotal' = -size[b] /\ OwedAllocated' = -size[b]
      BY <1>12, <2>1, <2>4 DEF FreeDec, OwedTotal, OwedAllocated, Owed
    <3>3. QED
      BY <1>12, <1>b, <2>2, <2>3, <3>1, <3>2 DEF FreeDec, Accounting
  <2>5. CASE ref_count[b] # 1
    <3>1. OwedTotal' = 0 /\ OwedAllocated' = 0
      BY <1>12, <2>1, <2>5 DEF FreeDec, OwedTotal, OwedAllocated, Owed
    <3>2. QED
      BY <1>12, <1>a, <2>1, <2>3, <2>5, <3>1 DEF FreeDec, Accounting
  <2>6. QED
    BY <2>4, <2>5
<1>13. ASSUME NEW t \in Threads, FreeSubTotal(t)
      PROVE  Accounting'
  BY <1>13, <1>a, <1>b DEF FreeSubTotal, Accounting, OwedTotal, OwedAllocated, Owed
<1>14. ASSUME NEW t \in Threads, FreeSubAllocated(t)
      PROVE  Accounting'
  BY <1>14, <1>a, <1>b DEF FreeSubAllocated, Accounting, OwedTotal, OwedAllocated, Owed
<1>15. ASSUME NEW t \in Threads, FreeKfree(t)
      PROVE  Accounting'
  BY <1>15, <1>a, <1>b DEF FreeKfree, Accounting, OwedTotal, OwedAllocated, Owed
<1>16. ASSUME NEW t \in Threads, Unlock(t)
      PROVE  Accounting'
  BY <1>16, <1>a, <1>b DEF Unlock, Accounting, OwedTotal, OwedAllocated, Owed
<1>17. ASSUME NEW t \in Threads, NEW m \in MaxRequests, SetMaxBegin(t, m)
      PROVE  Accounting'
  BY <1>17, <1>a, <1>b DEF SetMaxBegin, Accounting, OwedTotal, OwedAllocated, Owed
<1>18. ASSUME NEW t \in Threads, SetMax(t)
      PROVE  Accounting'
  BY <1>18, <1>a, <1>b DEF SetMax, Accounting, OwedTotal, OwedAllocated, Owed
<1>19. ASSUME NEW t \in Threads, NEW u \in Threads, NEW b \in Blocks, Get(t, u, b)
      PROVE  Accounting'
  BY <1>19, <1>a, <1>b DEF Get, Accounting, OwedTotal, OwedAllocated, Owed
<1>20. CASE UNCHANGED vars
  BY <1>20, <1>a DEF vars, Accounting, OwedTotal, OwedAllocated, Owed
<1>21. QED
  BY <1>1, <1>2, <1>3, <1>4, <1>5, <1>6, <1>7, <1>8, <1>9, <1>10, <1>11,
     <1>12, <1>13, <1>14, <1>15, <1>16, <1>17, <1>18, <1>19, <1>20,
     <1>6a, <1>6b
  DEF Next, AllocStep, FreeStep, SetMaxStep, GetStep

\* The two global counters are the qubits of the listed blocks, up to the
\* update in progress under the lock: no interleaving of alloc, free, get and
\* set_max and no error path loses or doubles a charge.
THEOREM AccountingIsExact == Spec => []Accounting
BY BaseInvariant, ReferencesAreSafe, AccountingInit, AccountingStep, PTL DEF Spec

(****************************************************************************)
(* Overcommitment                                                           *)
(****************************************************************************)
\* The threads whose allocation has passed the quota check for limits up to c,
\* or will pass it, and is not yet counted in allocated_qubits.
Pending(c) ==
  {t \in Threads :
     \/ pc[t] \in {"alloc_lock", "alloc_block", "alloc_state", "alloc_total",
                  "alloc_allocated"}
     \/ pc[t] = "alloc_check" /\ seen[t] + arg[t] <= c}

Slack == (Cardinality(Threads) - 1) * PerBlock

\* What is allocated, with all that pending calls will still add, stays within
\* the bound.
OvercommitAt(c) ==
  /\ max_qubits \in 0 .. c
  /\ allocated_qubits + Cardinality(Tokens(Pending(c), arg)) <= c + Slack

OvercommitInv == \A c \in 0 .. INT_MAX : LimitsBelow(c) => OvercommitAt(c)

LEMMA PendingFinite ==
  ASSUME NEW c
  PROVE  IsFiniteSet(Pending(c))
<1>1. Pending(c) \subseteq Threads
  BY DEF Pending
<1>2. QED
  BY <1>1, QMemConstants, FS_Subset

\* All threads but one have no more than Slack tokens.
LEMMA SlackBounds ==
  ASSUME NEW t \in Threads, NEW S, S \subseteq Threads \ {t}, NEW n
  PROVE  /\ Cardinality(Tokens(S, n)) \in Nat
         /\ Cardinality(Tokens(S, n)) <= Slack
         /\ Slack \in Nat
<1>1. /\ IsFiniteSet(Threads \ {t})
      /\ Cardinality(Threads \ {t}) = Cardinality(Threads) - 1
      /\ Cardinality(Threads \ {t}) \in Nat
  BY QMemConstants, FS_RemoveElement, FS_CardinalityType
<1>2. /\ Cardinality(Tokens(Threads \ {t}, n)) \in Nat
      /\ Cardinality(Tokens(Threads \ {t}, n)) <= Slack
  BY <1>1, TokensFinite DEF Slack
<1>3. Slack \in Int
  BY <1>1, QMemConstants DEF Slack, PerBlock
<1>4. IsFiniteSet(S) /\ Cardinality(Tokens(S, n)) \in Nat
  BY <1>1, FS_Subset, TokensFinite
<1>5. Cardinality(Tokens(S, n)) <= Cardinality(Tokens(Threads \ {t}, n))
  BY <1>1, TokensMonotone
<1>6. QED
  BY <1>2, <1>3, <1>4, <1>5

LEMMA SlackNat == Slack \in Nat
<1>1. PICK t \in Threads : TRUE
  BY QMemConstants
<1>2. {} \subseteq Threads \ {t}
  OBVIOUS
<1>3. QED
  BY <1>2, SlackBounds

\* A limit an int can hold is stored as it is.
LEMMA ToIntSmall ==
  ASSUME NEW u \in 0 .. INT_MAX
  PROVE  ToInt(u) = u
<1>1. \A d \in Nat \ {0} : u < d => u % d = u
  BY QMemConstants
<1>2. 2 * (INT_MAX + 1) \in Nat \ {0} /\ u < 2 * (INT_MAX + 1)
  BY QMemConstants
<1>3. QED
  BY <1>1, <1>2, QMemConstants DEF ToInt

LEMMA OvercommitInit == Init => OvercommitInv
<1> SUFFICES ASSUME Init, NEW c \in 0 .. INT_MAX, LimitsBelow(c)
             PROVE  OvercommitAt(c)
  BY DEF OvercommitInv
<1>1. Pending(c) = {}
  BY DEF Init, Pending
<1>2. Cardinality(Tokens(Pending(c), arg)) = 0
  BY <1>1, TokensEmpty
<1>3. QED
  BY <1>2, SlackNat, QMemConstants DEF Init, OvercommitAt

\* A step that neither allocates nor admits a call keeps the bound.
LEMMA OvercommitQuiet ==
  ASSUME BaseInv, BaseInv', NEW c \in 0 .. INT_MAX, OvercommitAt(c),
         max_qubits' \in 0 .. c, allocated_qubits' <= allocated_qubits,
         Pending(c)' \subseteq Pending(c),
         \A t \in Pending(c)' : arg'[t] = arg[t]
  PROVE  OvercommitAt(c)'
<1> DEFINE P == Pending(c)'
<1>1. IsFiniteSet(Pending(c)) /\ IsFiniteSet(P)
  BY PendingFinite, FS_Subset
<1>2. Tokens(P, arg') = Tokens(P, arg)
  BY TokensAgree
<1>3. /\ Cardinality(Tokens(P, arg)) \in Nat
      /\ Cardinality(Tokens(Pending(c), arg)) \in Nat
      /\ Cardinality(Tokens(P, arg)) <= Cardinality(Tokens(Pending(c), arg))
  BY <1>1, TokensFinite, TokensMonotone
<1>4. Slack' = Slack
  BY DEF Slack, PerBlock
<1>5. allocated_qubits \in Int /\ allocated_qubits' \in Int
  BY DEF BaseInv, TypeOK
<1> HIDE DEF P
<1>6. allocated_qubits' + Cardinality(Tokens(P, arg)) <= c + Slack
  BY <1>3, <1>5, SlackNat DEF OvercommitAt
<1>7. QED
  BY <1>2, <1>4, <1>6 DEF OvercommitAt, P

LEMMA OvercommitStep == BaseInv /\ OvercommitInv /\ [Next]_vars => OvercommitInv'
<1> SUFFICES ASSUME BaseInv, OvercommitInv, [Next]_vars,
                    NEW c \in 0 .. INT_MAX, LimitsBelow(c)
             PROVE  OvercommitAt(c)'
  BY DEF OvercommitInv, LimitsBelow
<1>a. OvercommitAt(c) /\ BaseInv'
  BY BaseStep DEF OvercommitInv
<1>b. /\ max_qubits \in 0 .. c /\ 0 \in 0 .. c /\ QMEM_MAX_QUBITS \in 0 .. c
      /\ allocated_qubits \in Int /\ 0 <= allocated_qubits - allocated_qubits
  BY <1>a, QMemConstants DEF OvercommitAt, LimitsBelow, BaseInv, TypeOK
<1> DEFINE Quiet == /\ max_qubits' \in 0 .. c
                    /\ allocated_qubits' <= allocated_qubits
                    /\ Pending(c)' \subseteq Pending(c)
                    /\ \A t \in Pending(c)' : arg'[t] = arg[t]
<1>c. Quiet => OvercommitAt(c)'
  BY <1>a, OvercommitQuiet
<1> HIDE DEF OvercommitInv
<1> USE QMemConstants DEF BaseInv, TypeOK, CallArgs, Unloaded,
        MutualExclusion, Critical, Goto, At, Return, heap, counters, locals,
        Pending
<1>1. CASE ModInit
  <2>1. Pending(c)' = {} /\ allocated_qubits' = 0 /\ max_qubits' \in 0 .. c
    BY <1>1, <1>b DEF ModInit
  <2>2. Cardinality(Tokens(Pending(c)', arg')) = 0
    BY <2>1, TokensEmpty
  <2>3. Slack' = Slack
    BY DEF Slack, PerBlock
  <2>4. QED
    BY <2>1, <2>2, <2>3, SlackNat DEF OvercommitAt
<1>2. CASE ModExit
  BY <1>2, <1>b, <1>c DEF ModExit
<1>3. ASSUME NEW t \in Threads, NEW n \in Requests, AllocBegin(t, n)
      PROVE  OvercommitAt(c)'
  <2>1. CASE allocated_qubits + n <= c
    <3> DEFINE S == Pending(c)
    <3>1. /\ S \subseteq Threads \ {t} /\ Pending(c)' = S \cup {t}
          /\ arg'[t] = n /\ n \in 0 .. PerBlock
          /\ \A u \in S : arg'[u] = arg[u]
      BY <1>3, <2>1 DEF AllocBegin, ValidSize, PerBlock
    <3> HIDE DEF S
    <3>2. /\ Cardinality(Tokens(S, arg')) \in Nat
          /\ Cardinality(Tokens(S, arg')) <= Slack
      BY <3>1, SlackBounds
    <3>3. IsFiniteSet(S) /\ t \notin S
      BY <3>1, PendingFinite DEF S
    <3>4. Cardinality(Tokens(S \cup {t}, arg'))
            = Cardinality(Tokens(S, arg')) + n
      <4>1. ASSUME NEW f, f[t] \in 0 .. PerBlock
            PROVE  Cardinality(Tokens(S \cup {t}, f))
                     = Cardinality(Tokens(S, f)) + f[t]
        BY <3>3, <4>1, TokensAdd
      <4>2. QED
        BY <3>1, <4>1
    <3>5. Slack' = Slack
      BY DEF Slack, PerBlock
    <3>6. UNCHANGED <<max_qubits, allocated_qubits>> /\ n \in Nat
      BY <1>3 DEF AllocBegin
    <3> HIDE DEF Pending
    <3>7. allocated_qubits' + Cardinality(Tokens(Pending(c)', arg'))
            <= c + Slack
      BY <1>b, <2>1, <3>1, <3>2, <3>4, <3>6, SlackNat
    <3>8. QED
      BY <1>b, <3>5, <3>6, <3>7 DEF OvercommitAt
  <2>2. CASE ~(allocated_qubits + n <= c)
    BY <1>3, <2>2, <1>b, <1>c DEF AllocBegin
  <2>3. QED
    BY <2>1, <2>2
<1>4. ASSUME NEW t \in Threads, AllocCheck(t)
      PROVE  OvercommitAt(c)'
  <2>1. CASE ExceedsLimit(seen[t] + arg[t], max_qubits)
    BY <1>4, <2>1, <1>b, <1>c DEF AllocCheck
  <2>2. CASE ~ExceedsLimit(seen[t] + arg[t], max_qubits)
    <3>1. seen[t] + arg[t] <= c
      BY <2>2, <1>b DEF ExceedsLimit
    <3>2. QED
      BY <1>4, <2>2, <3>1, <1>b, <1>c DEF AllocCheck
  <2>3. QED
    BY <2>1, <2>2
<1>5. ASSUME NEW t \in Threads, AllocLock(t)
      PROVE  OvercommitAt(c)'
  BY <1>5, <1>b, <1>c DEF AllocLock
<1>6. ASSUME NEW t \in Threads, AllocFail(t)
      PROVE  OvercommitAt(c)'
  BY <1>6, <1>b, <1>c DEF AllocFail
<1>6a. ASSUME NEW t \in Threads, NEW b \in Blocks, AllocKzalloc(t, b)
      PROVE  OvercommitAt(c)'
  BY <1>6a, <1>b, <1>c DEF AllocKzalloc
<1>6b. ASSUME NEW t \in Threads, AllocStateFail(t)
      PROVE  OvercommitAt(c)'
  BY <1>6b, <1>b, <1>c DEF AllocStateFail
<1>7. ASSUME NEW t \in Threads, AllocBlock(t)
      PROVE  OvercommitAt(c)'
  BY <1>7, <1>b, <1>c DEF AllocBlock
<1>8. ASSUME NEW t \in Threads, AllocAddTotal(t)
      PROVE  OvercommitAt(c)'
  BY <1>8, <1>b, <1>c DEF AllocAddTotal
<1>9. ASSUME NEW t \in Threads, AllocAddAllocated(t)
      PROVE  OvercommitAt(c)'
  <2> DEFINE S == Pending(c)
  <2>1. /\ t \in S /\ Pending(c)' = S \ {t}
        /\ arg' = arg /\ arg[t] \in 0 .. PerBlock
        /\ max_qubits' = max_qubits
        /\ allocated_qubits' = allocated_qubits + arg[t]
    BY <1>9 DEF AllocAddAllocated, ValidSize, PerBlock
  <2> HIDE DEF S
  <2>2. IsFiniteSet(S)
    BY PendingFinite DEF S
  <2>3. Cardinality(Tokens(S \ {t}, arg)) = Cardinality(Tokens(S, arg)) - arg[t]
    BY <2>1, <2>2, TokensRemove
  <2>4. Cardinality(Tokens(S, arg)) \in Nat
    BY <2>2, TokensFinite
  <2>5. Slack' = Slack
    BY DEF Slack, PerBlock
  <2>6. allocated_qubits + Cardinality(Tokens(S, arg)) <= c + Slack
    BY <1>a DEF OvercommitAt, S
  <2>7. arg[t] \in Nat
    OBVIOUS
  <2> HIDE DEF Pending
  <2>8. allocated_qubits' + Cardinality(Tokens(Pending(c)', arg')) <= c + Slack
    BY <1>b, <2>1, <2>3, <2>4, <2>6, <2>7, SlackNat
  <2>9. QED
    BY <1>b, <2>1, <2>5, <2>8 DEF OvercommitAt
<1>10. ASSUME NEW t \in Threads, NEW b \in Blocks, FreeBegin(t, b)
      PROVE  OvercommitAt(c)'
  BY <1>10, <1>b, <1>c DEF FreeBegin
<1>11. ASSUME NEW t \in Threads, FreeLock(t)
      PROVE  OvercommitAt(c)'
  BY <1>11, <1>b, <1>c DEF FreeLock
<1>12. ASSUME NEW t \in Threads, FreeDec(t)
      PROVE  OvercommitAt(c)'
  BY <1>12, <1>b, <1>c DEF FreeDec
<1>13. ASSUME NEW t \in Threads, FreeSubTotal(t)
      PROVE  OvercommitAt(c)'
  BY <1>13, <1>b, <1>c DEF FreeSubTotal
<1>14. ASSUME NEW t \in Threads, FreeSubAllocated(t)
      PROVE  OvercommitAt(c)'
  <2>1. size[blk[t]] \in Nat
    BY <1>14 DEF FreeSubAllocated
  <2>2. QED
    BY <1>14, <2>1, <1>b, <1>c DEF FreeSubAllocated
<1>15. ASSUME NEW t \in Threads, FreeKfree(t)
      PROVE  OvercommitAt(c)'
  BY <1>15, <1>b, <1>c DEF FreeKfree
<1>16. ASSUME NEW t \in Threads, Unlock(t)
      PROVE  OvercommitAt(c)'
  BY <1>16, <1>b, <1>c DEF Unlock
<1>17. ASSUME NEW t \in Threads, NEW m \in MaxRequests, SetMaxBegin(t, m)
      PROVE  OvercommitAt(c)'
  BY <1>17, <1>b, <1>c DEF SetMaxBegin
<1>18. ASSUME NEW t \in Threads, SetMax(t)
      PROVE  OvercommitAt(c)'
  <2>1. arg[t] \in 0 .. c /\ arg[t] \in 0 .. INT_MAX
    BY <1>18 DEF SetMax, LimitsBelow
  <2>2. max_qubits' = arg[t]
    BY <1>18, <2>1, ToIntSmall DEF SetMax
  <2>3. QED
    BY <1>18, <2>1, <2>2, <1>b, <1>c DEF SetMax
<1>19. ASSUME NEW t \in Threads, NEW u \in Threads, NEW b \in Blocks, Get(t, u, b)
      PROVE  OvercommitAt(c)'
  BY <1>19, <1>b, <1>c DEF Get
<1>20. CASE UNCHANGED vars
  BY <1>20, <1>b, <1>c DEF vars
<1>21. QED
  BY <1>1, <1>2, <1>3, <1>4, <1>5, <1>6, <1>7, <1>8, <1>9, <1>10, <1>11,
     <1>12, <1>13, <1>14, <1>15, <1>16, <1>17, <1>18, <1>19, <1>20,
     <1>6a, <1>6b
  DEF Next, AllocStep, FreeStep, SetMaxStep, GetStep

\* With limits that fit an int, the allocated qubits exceed the largest limit by
\* at most one block for each thread but one, in whatever order the unlocked
\* quota checks of alloc and set_max run.
THEOREM OvercommitIsBounded == Spec => []Overcommit
<1>1. BaseInv /\ OvercommitInv => Overcommit
  <2> SUFFICES ASSUME BaseInv, OvercommitInv, NEW c \in 0 .. INT_MAX,
                      LimitsBelow(c)
               PROVE  allocated_qubits <= c + Slack
    BY DEF Overcommit, Slack, PerBlock
  <2>1. OvercommitAt(c)
    BY DEF OvercommitInv
  <2>2. Cardinality(Tokens(Pending(c), arg)) \in Nat
    BY PendingFinite, TokensFinite
  <2>3. allocated_qubits \in Int
    BY DEF BaseInv, TypeOK
  <2>4. QED
    BY <2>1, <2>2, <2>3, SlackNat DEF OvercommitAt
<1>2. Spec => []OvercommitInv
  BY BaseInvariant, OvercommitInit, OvercommitStep, PTL DEF Spec
<1>3. QED
  BY <1>1, <1>2, BaseInvariant, PTL

(****************************************************************************)
(* Refinement                                                               *)
(****************************************************************************)
LEMMA PoolInit == Init => Pool!Init
BY DEF Init, Pool!Init, Granted, Charged

LEMMA PoolStep ==
  BaseInv /\ RefSafety /\ [Next]_vars => [Pool!Next]_<<held, Granted, Charged>>
<1> SUFFICES ASSUME BaseInv, RefSafety, [Next]_vars
             PROVE  [Pool!Next]_<<held, Granted, Charged>>
  OBVIOUS
<1> USE QMemConstants DEF BaseInv, TypeOK, CallArgs, Unloaded,
        MutualExclusion, Critical, Goto, At, Return, heap, counters, locals
<1>a. UNCHANGED <<used_blocks, size>> => Granted' = Granted
  BY DEF Granted
<1>b. Granted = [b \in Blocks |-> IF b \in used_blocks THEN size[b] ELSE 0]
  BY DEF Granted
<1>c. Granted' = [b \in Blocks |-> IF b \in used_blocks' THEN size'[b] ELSE 0]
  BY DEF Granted
<1>1. CASE ModInit
  <2>1. Charged' = 0 /\ Charged = 0 /\ Granted' = Granted
    BY <1>1, <1>b, <1>c DEF ModInit, Charged, OwedAllocated, Owed
  <2>2. QED
    BY <1>1, <2>1 DEF ModInit
<1>2. CASE ModExit
  <2>1. Charged' = 0 /\ Granted' = [b \in Blocks |-> 0] /\ held' = {}
    BY <1>2, <1>c DEF ModExit, Charged
  <2>2. QED
    BY <2>1 DEF Pool!Next, Pool!Reset
<1>3. ASSUME NEW t \in Threads, NEW n \in Requests, AllocBegin(t, n)
      PROVE  [Pool!Next]_<<held, Granted, Charged>>
  <2>1. Charged' = Charged
    BY <1>3 DEF AllocBegin, Charged, OwedAllocated, Owed
  <2>2. QED
    BY <1>3, <2>1, <1>a DEF AllocBegin
<1>4. ASSUME NEW t \in Threads, AllocCheck(t)
      PROVE  [Pool!Next]_<<held, Granted, Charged>>
  <2>1. Charged' = Charged
    BY <1>4 DEF AllocCheck, Charged, OwedAllocated, Owed
  <2>2. QED
    BY <1>4, <2>1, <1>a DEF AllocCheck
<1>5. ASSUME NEW t \in Threads, AllocLock(t)
      PROVE  [Pool!Next]_<<held, Granted, Charged>>
  <2>1. Charged' = Charged
    BY <1>5 DEF AllocLock, Charged, OwedAllocated, Owed
  <2>2. QED
    BY <1>5, <2>1, <1>a DEF AllocLock
<1>6. ASSUME NEW t \in Threads, AllocFail(t)
      PROVE  [Pool!Next]_<<held, Granted, Charged>>
  <2>1. Charged' = Charged
    BY <1>6 DEF AllocFail, Charged, OwedAllocated, Owed
  <2>2. QED
    BY <1>6, <2>1, <1>a DEF AllocFail
<1>6a. ASSUME NEW t \in Threads, NEW b \in Blocks, AllocKzalloc(t, b)
      PROVE  [Pool!Next]_<<held, Granted, Charged>>
  <2>1. Charged' = Charged
    BY <1>6a DEF AllocKzalloc, Charged, OwedAllocated, Owed
  <2>2. QED
    BY <1>6a, <2>1, <1>a DEF AllocKzalloc
<1>6b. ASSUME NEW t \in Threads, AllocStateFail(t)
      PROVE  [Pool!Next]_<<held, Granted, Charged>>
  <2>1. Charged' = Charged
    BY <1>6b DEF AllocStateFail, Charged, OwedAllocated, Owed
  <2>2. QED
    BY <1>6b, <2>1, <1>a DEF AllocStateFail
<1>7. ASSUME NEW t \in Threads, AllocBlock(t)
      PROVE  [Pool!Next]_<<held, Granted, Charged>>
  <2>0. PICK b \in Blocks : b = blk[t]
    BY <1>7 DEF AllocBlock
  <2>1. b \notin used_blocks /\ \A u \in Threads : <<u, b>> \notin held
    BY <1>7, <2>0 DEF AllocBlock, RefSafety, Owns
  <2>2. arg[t] \in 1 .. QMEM_MAX_QUBITS_PER_BLOCK
    BY <1>7 DEF AllocBlock, ValidSize
  <2>3. Charged' = Charged + arg[t]
    BY <1>7 DEF AllocBlock, Charged, OwedAllocated, Owed
  <2>4. Granted[b] = 0 /\ Granted' = [Granted EXCEPT ![b] = arg[t]]
    BY <1>7, <2>0, <2>1, <1>b, <1>c DEF AllocBlock
  <2>5. Pool!HoldersOf(held, b) = {}
    BY <2>1 DEF Pool!HoldersOf
  <2>6. held' = held \cup {<<t, b>>}
    BY <1>7, <2>0 DEF AllocBlock
  <2>7. Pool!Acquire(t, b, arg[t])
    BY <2>3, <2>4, <2>5, <2>6 DEF Pool!Acquire
  <2>8. QED
    BY <2>2, <2>7 DEF Pool!Next
<1>8. ASSUME NEW t \in Threads, AllocAddTotal(t)
      PROVE  [Pool!Next]_<<held, Granted, Charged>>
  <2>1. Charged' = Charged
    BY <1>8 DEF AllocAddTotal, Charged, OwedAllocated, Owed
  <2>2. QED
    BY <1>8, <2>1, <1>a DEF AllocAddTotal
<1>9. ASSUME NEW t \in Threads, AllocAddAllocated(t)
      PROVE  [Pool!Next]_<<held, Granted, Charged>>
  <2>1. Charged' = Charged
    BY <1>9 DEF AllocAddAllocated, Charged, OwedAllocated, Owed
  <2>2. QED
    BY <1>9, <2>1, <1>a DEF AllocAddAllocated
<1>10. ASSUME NEW t \in Threads, NEW b \in Blocks, FreeBegin(t, b)
      PROVE  [Pool!Next]_<<held, Granted, Charged>>
  <2>1. Charged' = Charged
    BY <1>10 DEF FreeBegin, Charged, OwedAllocated, Owed
  <2>2. QED
    BY <1>10, <2>1, <1>a DEF FreeBegin
<1>11. ASSUME NEW t \in Threads, FreeLock(t)
      PROVE  [Pool!Next]_<<held, Granted, Charged>>
  <2>1. Charged' = Charged
    BY <1>11 DEF FreeLock, Charged, OwedAllocated, Owed
  <2>2. QED
    BY <1>11, <2>1, <1>a DEF FreeLock
<1>12. ASSUME NEW t \in Threads, FreeDec(t)
      PROVE  [Pool!Next]_<<held, Granted, Charged>>
  <2>0. PICK b \in Blocks : b = blk[t]
    BY <1>12 DEF FreeDec
  <2>1. /\ <<t, b>> \in held /\ b \in used_blocks
        /\ pc[t] = "free_dec" /\ lock = t
    BY <1>12, <2>0 DEF FreeDec, RefSafety
  <2>2. /\ held' = held \ {<<t, b>>}
        /\ ref_count[b] = Cardinality(HoldersOf(b))
    BY <1>12, <2>0, <2>1 DEF FreeDec, RefSafety
  <2>3. t \in HoldersOf(b) /\ HoldersOf(b) = Pool!HoldersOf(held, b)
    BY <2>1 DEF HoldersOf, Pool!HoldersOf
  <2>4. HoldersOf(b) = {t} <=> Cardinality(HoldersOf(b)) = 1
    <3>1. IsFiniteSet(HoldersOf(b))
      BY HoldersFinite
    <3>2. Cardinality({t}) = 1
      BY FS_Singleton
    <3>3. ASSUME Cardinality(HoldersOf(b)) = 1
          PROVE  HoldersOf(b) = {t}
      <4>1. PICK x : HoldersOf(b) = {x}
        BY <3>1, <3>3, FS_Singleton
      <4>2. QED
        BY <4>1, <2>3
    <3>4. QED
      BY <3>2, <3>3
  <2>5. Charged = allocated_qubits
    BY <1>12 DEF FreeDec, Charged, OwedAllocated, Owed
  <2>6. CASE ref_count[b] = 1
    <3>1. Charged' = allocated_qubits - size[b]
      BY <1>12, <2>0, <2>6 DEF FreeDec, Charged, OwedAllocated, Owed
    <3>2. Granted[b] = size[b] /\ Granted' = [Granted EXCEPT ![b] = 0]
      BY <1>12, <2>0, <2>1, <2>6, <1>b, <1>c DEF FreeDec
    <3>3. Pool!ReleaseLast(t, b)
      BY <2>2, <2>3, <2>4, <2>5, <2>6, <3>1, <3>2 DEF Pool!ReleaseLast
    <3>4. QED
      BY <3>3 DEF Pool!Next
  <2>7. CASE ref_count[b] # 1
    <3>1. Charged' = allocated_qubits
      BY <1>12, <2>0, <2>7 DEF FreeDec, Charged, OwedAllocated, Owed
    <3>2. Granted' = Granted
      BY <1>12, <2>0, <2>7, <1>a DEF FreeDec
    <3>3. Pool!ReleaseShared(t, b)
      BY <2>1, <2>2, <2>3, <2>4, <2>5, <2>7, <3>1, <3>2 DEF Pool!ReleaseShared
    <3>4. QED
      BY <3>3 DEF Pool!Next
  <2>8. QED
    BY <2>6, <2>7
<1>13. ASSUME NEW t \in Threads, FreeSubTotal(t)
      PROVE  [Pool!Next]_<<held, Granted, Charged>>
  <2>1. Charged' = Charged
    BY <1>13 DEF FreeSubTotal, Charged, OwedAllocated, Owed
  <2>2. QED
    BY <1>13, <2>1, <1>a DEF FreeSubTotal
<1>14. ASSUME NEW t \in Threads, FreeSubAllocated(t)
      PROVE  [Pool!Next]_<<held, Granted, Charged>>
  <2>1. Charged' = Charged
    BY <1>14 DEF FreeSubAllocated, Charged, OwedAllocated, Owed
  <2>2. QED
    BY <1>14, <2>1, <1>a DEF FreeSubAllocated
<1>15. ASSUME NEW t \in Threads, FreeKfree(t)
      PROVE  [Pool!Next]_<<held, Granted, Charged>>
  <2>1. Charged' = Charged
    BY <1>15 DEF FreeKfree, Charged, OwedAllocated, Owed
  <2>2. QED
    BY <1>15, <2>1, <1>a DEF FreeKfree
<1>16. ASSUME NEW t \in Threads, Unlock(t)
      PROVE  [Pool!Next]_<<held, Granted, Charged>>
  <2>1. Charged' = Charged
    BY <1>16 DEF Unlock, Charged, OwedAllocated, Owed
  <2>2. QED
    BY <1>16, <2>1, <1>a DEF Unlock
<1>17. ASSUME NEW t \in Threads, NEW m \in MaxRequests, SetMaxBegin(t, m)
      PROVE  [Pool!Next]_<<held, Granted, Charged>>
  <2>1. Charged' = Charged
    BY <1>17 DEF SetMaxBegin, Charged, OwedAllocated, Owed
  <2>2. QED
    BY <1>17, <2>1, <1>a DEF SetMaxBegin
<1>18. ASSUME NEW t \in Threads, SetMax(t)
      PROVE  [Pool!Next]_<<held, Granted, Charged>>
  <2>1. Charged' = Charged
    BY <1>18 DEF SetMax, Charged, OwedAllocated, Owed
  <2>2. QED
    BY <1>18, <2>1, <1>a DEF SetMax
<1>19. ASSUME NEW t \in Threads, NEW u \in Threads, NEW b \in Blocks, Get(t, u, b)
      PROVE  [Pool!Next]_<<held, Granted, Charged>>
  <2>1. /\ t \in Pool!HoldersOf(held, b) /\ held' = held \cup {<<u, b>>}
    BY <1>19 DEF Get, Pool!HoldersOf
  <2>2. Charged' = Charged /\ Granted' = Granted
    BY <1>19, <1>a DEF Get, Charged, OwedAllocated, Owed
  <2>3. Pool!Share(u, b)
    BY <2>1, <2>2 DEF Pool!Share
  <2>4. QED
    BY <2>3 DEF Pool!Next
<1>20. CASE UNCHANGED vars
  <2>1. Charged' = Charged
    BY <1>20 DEF vars, Charged, OwedAllocated, Owed
  <2>2. QED
    BY <1>20, <2>1, <1>a DEF vars
<1>21. QED
  BY <1>1, <1>2, <1>3, <1>4, <1>5, <1>6, <1>7, <1>8, <1>9, <1>10, <1>11,
     <1>12, <1>13, <1>14, <1>15, <1>16, <1>17, <1>18, <1>19, <1>20,
     <1>6a, <1>6b
  DEF Next, AllocStep, FreeStep, SetMaxStep, GetStep

\* The manager implements the pool of reference counted blocks: seen from the
\* holders, each call takes effect in one step, the grant, the charge and the
\* first reference appear together, and they disappear with the last reference.
THEOREM MemoryImplementsPool == Spec => ImplementsPool
<1>1. BaseInv /\ RefSafety /\ [Next]_vars => [Pool!Next]_(Pool!poolVars)
  BY PoolStep DEF Pool!poolVars
<1>2. QED
  BY <1>1, PoolInit, BaseInvariant, ReferencesAreSafe, PTL
  DEF Spec, ImplementsPool, Pool!Spec
==============================================================================
