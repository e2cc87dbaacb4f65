---------------------------- MODULE QuantumMemory ----------------------------
(****************************************************************************)
(* The quantum memory manager, kernel/quantum/quantum_memory.c.             *)
(*                                                                          *)
(* Threads call ctrlxt_qmem_alloc, _get, _put/_free and _set_max_qubits.    *)
(* What a call reads or writes outside qmem.lock is a step of its own, and  *)
(* so is every write inside it that code without the lock can see: the      *)
(* atomics total_qubits, allocated_qubits, max_qubits and ref_count are     *)
(* read and changed by threads that do not hold the lock.  A call that ends *)
(* with an error before it changes anything is a stuttering step.           *)
(*                                                                          *)
(* The callers keep the contract of a reference count: a thread puts only   *)
(* references it holds, and takes a new one only on a block it holds.       *)
(*                                                                          *)
(* A definition whose comment starts with "Mutant" is a plausible fault in  *)
(* the definition that follows it.  Nothing uses it: it is there to show    *)
(* that a property notices the fault.                                       *)
(****************************************************************************)
EXTENDS Integers, FiniteSets

CONSTANTS
  Threads,                    \* the tasks that call the manager
  Blocks,                     \* addresses of struct quantum_memory_block
  Requests,                   \* num_qubits arguments callers pass to alloc
  MaxRequests,                \* arguments callers pass to set_max_qubits
  QMEM_MAX_QUBITS,            \* the limit at load time (1024)
  QMEM_MAX_QUBITS_PER_BLOCK,  \* the largest block (64)
  INT_MAX,                    \* the largest value of an atomic_t
  NoThread, NoBlock           \* nobody holds the lock; a null block pointer

ASSUME QMemConstants ==
  /\ IsFiniteSet(Threads) /\ Threads # {}
  /\ IsFiniteSet(Blocks)
  /\ Requests \subseteq Nat
  /\ MaxRequests \subseteq Nat
  /\ INT_MAX \in Nat
  /\ QMEM_MAX_QUBITS \in 0 .. INT_MAX
  /\ QMEM_MAX_QUBITS_PER_BLOCK \in Nat \ {0}
  /\ NoThread \notin Threads
  /\ NoBlock \notin Blocks

VARIABLES
  loaded,            \* ctrlxt_qmem_init succeeded: the pool is allocated
  lock,              \* the thread that holds qmem.lock
  used_blocks,       \* qmem.used_blocks
  live,              \* the blocks kzalloc gave out and kfree did not take back
  states,            \* the blocks whose block->state is an allocated state
  size,              \* block->size
  ref_count,         \* block->ref_count
  total_qubits,      \* qmem.total_qubits
  allocated_qubits,  \* qmem.allocated_qubits
  max_qubits,        \* qmem.max_qubits
  pc,                \* where each thread is in its call
  arg,               \* the number the call was given: num_qubits, max_qubits
  seen,              \* the allocated_qubits a pending alloc has read
  blk,               \* the block the call works on
  held               \* the references callers hold: a set of <<thread, block>>

counters == <<total_qubits, allocated_qubits>>
locals   == <<arg, seen, blk>>
heap     == <<used_blocks, live, states, size, ref_count, held>>
vars     == <<loaded, lock, heap, counters, max_qubits, pc, locals>>

(****************************************************************************)
(* Helpers                                                                  *)
(****************************************************************************)
Steps == {"idle", "alloc_check", "alloc_lock", "alloc_block", "alloc_state",
          "alloc_total", "alloc_allocated", "free_lock", "free_dec",
          "free_total", "free_allocated", "free_kfree", "unlock", "max_set"}

Goto(t, step) == pc' = [pc EXCEPT ![t] = step]

At(t, step) == pc[t] = step

\* The call of t returns and its locals go out of scope.
Return(t) ==
  /\ Goto(t, "idle")
  /\ arg'  = [arg  EXCEPT ![t] = 0]
  /\ seen' = [seen EXCEPT ![t] = 0]
  /\ blk'  = [blk  EXCEPT ![t] = NoBlock]

\* The threads that hold a reference to b.
HoldersOf(b) == {t \in Threads : <<t, b>> \in held}

\* The sizes that pass the argument check of ctrlxt_qmem_alloc.
ValidSize(n) == n # 0 /\ n <= QMEM_MAX_QUBITS_PER_BLOCK

\* atomic_set takes an int: an unsigned long loses its high bits and the
\* rest is read as a two's complement number.
ToInt(u) ==
  LET r == u % (2 * (INT_MAX + 1))
  IN  IF r <= INT_MAX THEN r ELSE r - 2 * (INT_MAX + 1)

\* atomic_read(&allocated) + num_qubits > atomic_read(&max): the sum is a
\* size_t, so the limit is compared as an unsigned number and a negative
\* limit is larger than any sum.
ExceedsLimit(sum, limit) == limit >= 0 /\ sum > limit

(****************************************************************************)
(* Loading and unloading                                                    *)
(****************************************************************************)
Init ==
  /\ loaded = FALSE
  /\ lock = NoThread
  /\ used_blocks = {}
  /\ live = {}
  /\ states = {}
  /\ size = [b \in Blocks |-> 0]
  /\ ref_count = [b \in Blocks |-> 0]
  /\ total_qubits = 0
  /\ allocated_qubits = 0
  /\ max_qubits = 0
  /\ pc = [t \in Threads |-> "idle"]
  /\ arg = [t \in Threads |-> 0]
  /\ seen = [t \in Threads |-> 0]
  /\ blk = [t \in Threads |-> NoBlock]
  /\ held = {}

\* ctrlxt_qmem_init with a successful kzalloc of the pool.  When kzalloc
\* fails the module is not loaded: nothing a caller can see has changed.
ModInit ==
  /\ ~loaded
  /\ loaded' = TRUE
  /\ lock' = NoThread
  /\ used_blocks' = {}
  /\ total_qubits' = 0
  /\ allocated_qubits' = 0
  /\ max_qubits' = QMEM_MAX_QUBITS
  /\ UNCHANGED <<live, states, size, ref_count, held, pc, locals>>

\* qmem_exit: every listed block is freed, whoever still refers to it, and the
\* counters stay as they are.  A module is unloaded only when no task runs its
\* code and its users are gone, and their references with them.
ModExit ==
  /\ loaded
  /\ \A t \in Threads : At(t, "idle")
  /\ live' = live \ used_blocks
  /\ states' = states \ used_blocks
  /\ used_blocks' = {}
  /\ held' = {}
  /\ loaded' = FALSE
  /\ UNCHANGED <<lock, size, ref_count, counters, max_qubits, pc, locals>>

(****************************************************************************)
(* ctrlxt_qmem_alloc                                                        *)
(****************************************************************************)
\* The argument check, and the read of allocated_qubits for the quota check.
AllocBegin(t, n) ==
  /\ loaded
  /\ At(t, "idle")
  /\ ValidSize(n)
  /\ arg'  = [arg  EXCEPT ![t] = n]
  /\ seen' = [seen EXCEPT ![t] = allocated_qubits]
  /\ Goto(t, "alloc_check")
  /\ UNCHANGED <<loaded, lock, heap, counters, max_qubits, blk>>

\* Mutant: only what is allocated is compared with the limit, not the sum.
AllocCheckOld(t) ==
  /\ At(t, "alloc_check")
  /\ IF ExceedsLimit(seen[t], max_qubits)
     THEN Return(t)
     ELSE Goto(t, "alloc_lock") /\ UNCHANGED locals
  /\ UNCHANGED <<loaded, lock, heap, counters, max_qubits>>

\* The read of max_qubits, and the quota check, before the lock is taken.
AllocCheck(t) ==
  /\ At(t, "alloc_check")
  /\ IF ExceedsLimit(seen[t] + arg[t], max_qubits)
     THEN Return(t)
     ELSE Goto(t, "alloc_lock") /\ UNCHANGED locals
  /\ UNCHANGED <<loaded, lock, heap, counters, max_qubits>>

AllocLock(t) ==
  /\ At(t, "alloc_lock")
  /\ lock = NoThread
  /\ lock' = t
  /\ Goto(t, "alloc_block")
  /\ UNCHANGED <<loaded, heap, counters, max_qubits, locals>>

\* Mutant: the error path returns without unlocking.
AllocFailLocked(t) ==
  /\ At(t, "alloc_block")
  /\ Return(t)
  /\ UNCHANGED <<loaded, lock, heap, counters, max_qubits>>

\* kzalloc of the block fails: unlock, return -ENOMEM.
AllocFail(t) ==
  /\ At(t, "alloc_block")
  /\ lock' = NoThread
  /\ Return(t)
  /\ UNCHANGED <<loaded, heap, counters, max_qubits>>

\* kzalloc gives out the block b, at a free address.
AllocKzalloc(t, b) ==
  /\ At(t, "alloc_block")
  /\ b \notin live
  /\ live' = live \cup {b}
  /\ blk' = [blk EXCEPT ![t] = b]
  /\ Goto(t, "alloc_state")
  /\ UNCHANGED <<loaded, lock, used_blocks, states, size, ref_count, held,
                 counters, max_qubits, arg, seen>>

\* Mutant: the error path does not free the block.
AllocStateFailLeaks(t) ==
  /\ At(t, "alloc_state")
  /\ lock' = NoThread
  /\ Return(t)
  /\ UNCHANGED <<loaded, heap, counters, max_qubits>>

\* quantum_state_alloc fails: the block is freed, unlock, return -ENOMEM.
AllocStateFail(t) ==
  /\ At(t, "alloc_state")
  /\ live' = live \ {blk[t]}
  /\ lock' = NoThread
  /\ Return(t)
  /\ UNCHANGED <<loaded, used_blocks, states, size, ref_count, held, counters,
                 max_qubits>>

\* The block gets its state, is set up and listed.  The caller owns the
\* reference that ref_count starts with.
AllocBlock(t) ==
  LET b == blk[t]
  IN  /\ At(t, "alloc_state")
      /\ states' = states \cup {b}
      /\ size' = [size EXCEPT ![b] = arg[t]]
      /\ ref_count' = [ref_count EXCEPT ![b] = 1]
      /\ used_blocks' = used_blocks \cup {b}
      /\ held' = held \cup {<<t, b>>}
      /\ Goto(t, "alloc_total")
      /\ UNCHANGED <<loaded, lock, live, counters, max_qubits, locals>>

AllocAddTotal(t) ==
  /\ At(t, "alloc_total")
  /\ total_qubits' = total_qubits + arg[t]
  /\ Goto(t, "alloc_allocated")
  /\ UNCHANGED <<loaded, lock, heap, allocated_qubits, max_qubits, locals>>

AllocAddAllocated(t) ==
  /\ At(t, "alloc_allocated")
  /\ allocated_qubits' = allocated_qubits + arg[t]
  /\ Goto(t, "unlock")
  /\ UNCHANGED <<loaded, lock, heap, total_qubits, max_qubits, locals>>

(****************************************************************************)
(* ctrlxt_qmem_get, without the lock: t, which holds b, takes a reference   *)
(* for u, that then shares the block.                                       *)
(****************************************************************************)
\* Mutant: the pointer is handed on without a reference being taken.
GetUncounted(t, u, b) ==
  /\ At(t, "idle")
  /\ <<t, b>> \in held
  /\ <<u, b>> \notin held
  /\ held' = held \cup {<<u, b>>}
  /\ UNCHANGED <<loaded, lock, used_blocks, live, states, size, ref_count,
                 counters, max_qubits, pc, locals>>

Get(t, u, b) ==
  /\ At(t, "idle")
  /\ <<t, b>> \in held
  /\ <<u, b>> \notin held
  /\ ref_count' = [ref_count EXCEPT ![b] = @ + 1]
  /\ held' = held \cup {<<u, b>>}
  /\ UNCHANGED <<loaded, lock, used_blocks, live, states, size, counters,
                 max_qubits, pc, locals>>

(****************************************************************************)
(* ctrlxt_qmem_free; ctrlxt_qmem_put is the same call.                      *)
(****************************************************************************)
FreeBegin(t, b) ==
  /\ At(t, "idle")
  /\ <<t, b>> \in held
  /\ blk' = [blk EXCEPT ![t] = b]
  /\ Goto(t, "free_lock")
  /\ UNCHANGED <<loaded, lock, heap, counters, max_qubits, arg, seen>>

FreeLock(t) ==
  /\ At(t, "free_lock")
  /\ lock = NoThread
  /\ lock' = t
  /\ Goto(t, "free_dec")
  /\ UNCHANGED <<loaded, heap, counters, max_qubits, locals>>

\* Mutant: the block is freed whether or not the reference was the last.
FreeDecAlways(t) ==
  LET b == blk[t]
  IN  /\ At(t, "free_dec")
      /\ ref_count' = [ref_count EXCEPT ![b] = @ - 1]
      /\ held' = held \ {<<t, b>>}
      /\ used_blocks' = used_blocks \ {b}
      /\ states' = states \ {b}
      /\ Goto(t, "free_total")
      /\ UNCHANGED <<loaded, lock, live, size, counters, max_qubits, locals>>

\* atomic_dec_and_test: the reference is gone; the thread that drops the last
\* one takes the block off the list and frees its quantum state.
FreeDec(t) ==
  LET b    == blk[t]
      last == ref_count[b] = 1
  IN  /\ At(t, "free_dec")
      /\ ref_count' = [ref_count EXCEPT ![b] = @ - 1]
      /\ held' = held \ {<<t, b>>}
      /\ used_blocks' = IF last THEN used_blocks \ {b} ELSE used_blocks
      /\ states' = IF last THEN states \ {b} ELSE states
      /\ Goto(t, IF last THEN "free_total" ELSE "unlock")
      /\ UNCHANGED <<loaded, lock, live, size, counters, max_qubits, locals>>

\* Mutant: one qubit is given back, not the size of the block.
FreeSubTotalOne(t) ==
  /\ At(t, "free_total")
  /\ total_qubits' = total_qubits - 1
  /\ Goto(t, "free_allocated")
  /\ UNCHANGED <<loaded, lock, heap, allocated_qubits, max_qubits, locals>>

FreeSubTotal(t) ==
  /\ At(t, "free_total")
  /\ total_qubits' = total_qubits - size[blk[t]]
  /\ Goto(t, "free_allocated")
  /\ UNCHANGED <<loaded, lock, heap, allocated_qubits, max_qubits, locals>>

\* Mutant: the charge is left behind.
FreeKeepAllocated(t) ==
  /\ At(t, "free_allocated")
  /\ Goto(t, "free_kfree")
  /\ UNCHANGED <<loaded, lock, heap, counters, max_qubits, locals>>

FreeSubAllocated(t) ==
  /\ At(t, "free_allocated")
  /\ allocated_qubits' = allocated_qubits - size[blk[t]]
  /\ Goto(t, "free_kfree")
  /\ UNCHANGED <<loaded, lock, heap, total_qubits, max_qubits, locals>>

FreeKfree(t) ==
  /\ At(t, "free_kfree")
  /\ live' = live \ {blk[t]}
  /\ Goto(t, "unlock")
  /\ UNCHANGED <<loaded, lock, used_blocks, states, size, ref_count, held,
                 counters, max_qubits, locals>>

\* spin_unlock_irqrestore and return, of alloc and of free.
Unlock(t) ==
  /\ At(t, "unlock")
  /\ lock' = NoThread
  /\ Return(t)
  /\ UNCHANGED <<loaded, heap, counters, max_qubits>>

(****************************************************************************)
(* ctrlxt_qmem_set_max_qubits, without the lock: the new limit is compared  *)
(* with allocated_qubits in one step and stored in another.                 *)
(****************************************************************************)
SetMaxBegin(t, m) ==
  /\ loaded
  /\ At(t, "idle")
  /\ m >= allocated_qubits
  /\ arg' = [arg EXCEPT ![t] = m]
  /\ Goto(t, "max_set")
  /\ UNCHANGED <<loaded, lock, heap, counters, max_qubits, seen, blk>>

SetMax(t) ==
  /\ At(t, "max_set")
  /\ max_qubits' = ToInt(arg[t])
  /\ Return(t)
  /\ UNCHANGED <<loaded, lock, heap, counters>>

(****************************************************************************)
(* The specification                                                        *)
(****************************************************************************)
AllocStep(t) ==
  \/ \E n \in Requests : AllocBegin(t, n)
  \/ AllocCheck(t)
  \/ AllocLock(t)
  \/ AllocFail(t)
  \/ \E b \in Blocks : AllocKzalloc(t, b)
  \/ AllocStateFail(t)
  \/ AllocBlock(t)
  \/ AllocAddTotal(t)
  \/ AllocAddAllocated(t)

FreeStep(t) ==
  \/ \E b \in Blocks : FreeBegin(t, b)
  \/ FreeLock(t)
  \/ FreeDec(t)
  \/ FreeSubTotal(t)
  \/ FreeSubAllocated(t)
  \/ FreeKfree(t)

SetMaxStep(t) ==
  \/ \E m \in MaxRequests : SetMaxBegin(t, m)
  \/ SetMax(t)

GetStep(t) == \E u \in Threads, b \in Blocks : Get(t, u, b)

Next ==
  \/ ModInit
  \/ ModExit
  \/ \E t \in Threads :
        AllocStep(t) \/ FreeStep(t) \/ Unlock(t) \/ SetMaxStep(t) \/ GetStep(t)

Spec == Init /\ [][Next]_vars

\* A thread inside a call is scheduled until the call returns, and the queued
\* spinlock hands the lock to waiters in turn, so a waiter is not passed over
\* for ever.  No thread has to start a call.
Fairness ==
  \A t \in Threads :
    /\ WF_vars(AllocCheck(t))
    /\ SF_vars(AllocLock(t))
    /\ WF_vars(AllocFail(t) \/ \E b \in Blocks : AllocKzalloc(t, b))
    /\ WF_vars(AllocStateFail(t) \/ AllocBlock(t))
    /\ WF_vars(AllocAddTotal(t) \/ AllocAddAllocated(t))
    /\ SF_vars(FreeLock(t))
    /\ WF_vars(FreeDec(t) \/ FreeSubTotal(t) \/ FreeSubAllocated(t)
                 \/ FreeKfree(t))
    /\ WF_vars(Unlock(t))
    /\ WF_vars(SetMax(t))

FairSpec == Spec /\ Fairness

(****************************************************************************)
(* Properties                                                               *)
(****************************************************************************)
TypeOK ==
  /\ loaded \in BOOLEAN
  /\ lock \in Threads \cup {NoThread}
  /\ used_blocks \subseteq Blocks
  /\ live \subseteq Blocks
  /\ states \subseteq Blocks
  /\ size \in [Blocks -> 0 .. QMEM_MAX_QUBITS_PER_BLOCK]
  /\ ref_count \in [Blocks -> Int]
  /\ total_qubits \in Int
  /\ allocated_qubits \in Int
  /\ max_qubits \in Int
  /\ pc \in [Threads -> Steps]
  /\ arg \in [Threads -> Nat]
  /\ seen \in [Threads -> Int]
  /\ blk \in [Threads -> Blocks \cup {NoBlock}]
  /\ held \subseteq Threads \X Blocks

\* The lock protects what it should: a thread is inside the critical section
\* exactly when it is the recorded holder of qmem.lock.
Critical == {"alloc_block", "alloc_state", "alloc_total", "alloc_allocated",
             "free_dec", "free_total", "free_allocated", "free_kfree", "unlock"}

MutualExclusion == \A t \in Threads : pc[t] \in Critical <=> lock = t

\* Counting by tokens: the set of <<x, i>> with x in S and i in 1..n(x), one
\* for each of the n(x) qubits of x.
Tokens(S, n) ==
  {x \in S \X (1 .. QMEM_MAX_QUBITS_PER_BLOCK) : x[2] <= n[x[1]]}

\* The qubits of all listed blocks.
QubitsInUse == Cardinality(Tokens(used_blocks, size))

\* What the thread inside the critical section has still to add to total_qubits
\* and allocated_qubits (or, negative, to subtract) for the block it lists or
\* unlists.
Owed(adding, subtracting) ==
  IF lock = NoThread THEN 0
  ELSE IF pc[lock] \in adding THEN size[blk[lock]]
  ELSE IF pc[lock] \in subtracting THEN -size[blk[lock]]
  ELSE 0

OwedTotal     == Owed({"alloc_total"}, {"free_total"})
OwedAllocated == Owed({"alloc_total", "alloc_allocated"},
                      {"free_total", "free_allocated"})

\* Both global counters equal the qubits of the listed blocks, up to the
\* update the lock holder has in progress: no call, in any interleaving and on
\* any error path, loses or doubles a charge (alloc and free, lines 100-130).
Accounting ==
  loaded => /\ total_qubits + OwedTotal = QubitsInUse
            /\ allocated_qubits + OwedAllocated = QubitsInUse

\* The calls inside the lock that own the block they work on: alloc before it
\* lists the block, the last put after it has unlisted it.
Owns(t) == pc[t] \in {"alloc_state", "free_total", "free_allocated", "free_kfree"}

\* The reference count of a listed block is the number of its holders and is
\* never zero, every reference is to a listed block that was not freed, and a
\* thread works only on blocks that were not freed (no use after kfree).
RefSafety ==
  /\ used_blocks \subseteq live
  /\ \A b \in used_blocks :
        /\ ref_count[b] = Cardinality(HoldersOf(b))
        /\ ref_count[b] > 0
  /\ \A t \in Threads, b \in Blocks : <<t, b>> \in held => b \in used_blocks
  /\ \A t \in Threads :
        /\ pc[t] \in {"free_lock", "free_dec"} => <<t, blk[t]>> \in held
        /\ Owns(t) => blk[t] \in live \ used_blocks

\* Every limit in force is at most c: the load-time one, and those callers set.
LimitsBelow(c) == QMEM_MAX_QUBITS <= c /\ \A m \in MaxRequests : m <= c

\* The quota check is made before the lock is taken, so it admits too much
\* (quantum_memory.c:72), but not without bound: whatever limits are set in the
\* meantime, each thread but one can overshoot the largest by one block.
Overcommit ==
  \A c \in 0 .. INT_MAX :
    LimitsBelow(c) =>
      allocated_qubits
        <= c + (Cardinality(Threads) - 1) * QMEM_MAX_QUBITS_PER_BLOCK

\* No call leaks memory, on its error paths or otherwise: whatever kzalloc gave
\* out is listed or in the hands of a call that will list or kfree it, and the
\* blocks with a quantum state are the listed ones.
NoLeak ==
  /\ \A b \in live \ used_blocks : \E t \in Threads : Owns(t) /\ blk[t] = b
  /\ states = used_blocks

\* A block leaves the list only in the step that drops its last reference, or
\* when the module is unloaded.
UnlistedByLastPut ==
  [][\A b \in used_blocks \ used_blocks' :
        loaded' => /\ Cardinality(HoldersOf(b)) = 1
                   /\ HoldersOf(b)' = {}]_vars

\* Every call returns: no thread waits for ever for the lock, and no path
\* leaves the critical section without releasing it.
CallsReturn == \A t \in Threads : ~At(t, "idle") ~> At(t, "idle")

(****************************************************************************)
(* The manager implements the pool of reference counted blocks.             *)
(****************************************************************************)
Granted == [b \in Blocks |-> IF b \in used_blocks THEN size[b] ELSE 0]
Charged == IF loaded THEN allocated_qubits + OwedAllocated ELSE 0

Pool == INSTANCE BlockPool WITH
          Holders <- Threads,
          Sizes   <- 1 .. QMEM_MAX_QUBITS_PER_BLOCK,
          refs    <- held,
          granted <- Granted,
          charged <- Charged

\* Every step of the manager is a step of the pool or changes nothing the pool
\* shows: grants and charges appear and disappear together with the references.
ImplementsPool == Pool!Spec
==============================================================================
