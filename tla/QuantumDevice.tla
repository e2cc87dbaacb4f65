---------------------------- MODULE QuantumDevice ----------------------------
(****************************************************************************)
(* The character device driver, drivers/quantum/quantum_device.c, on top of *)
(* the pool of blocks that the quantum memory manager implements.           *)
(*                                                                          *)
(* The device can be open once: open counts itself in, and counts itself    *)
(* out again when it was not the first.  The tasks that share the open file *)
(* call ioctl without any lock (dev->lock is initialised and never taken),  *)
(* so each access to dev->memory, which every task reads and writes, is a   *)
(* step.  Those accesses race, and a value read twice in the source may be  *)
(* read once in the build: either reading is a step here.                   *)
(*                                                                          *)
(* The VFS keeps a file open while an ioctl on it runs, and an open pins    *)
(* the module, so exit runs with no file open and no open in progress.      *)
(*                                                                          *)
(* "Mutant" marks a plausible fault in the definition that follows it.      *)
(****************************************************************************)
EXTENDS Integers, FiniteSets

CONSTANTS
  Tasks,        \* the tasks that call ioctl
  Files,        \* the struct files that opens of the device create
  Blocks,       \* addresses of quantum memory blocks
  Sizes,        \* the num_qubits the manager accepts
  Null, Error,  \* a null pointer, and an ERR_PTR
  NoFile,       \* the task is in no ioctl
  InitFaults,   \* the calls of the init function that can fail
  MaxOps        \* bound: ioctls are issued while operation_count is below it

ASSUME DeviceConstants ==
  /\ IsFiniteSet(Files)
  /\ Sizes \subseteq Nat
  /\ Null \notin Blocks /\ Error \notin Blocks /\ Null # Error
  /\ NoFile \notin Files
  /\ MaxOps \in Nat

VARIABLES
  dev,              \* struct ctrlxt_quantum_device: "none", "live" or "freed"
  loading,          \* the call the init function makes next, "no" if none
  registered,       \* what is registered with the kernel for the device
  open_count,       \* dev->open_count
  operation_count,  \* dev->operation_count
  memory,           \* dev->memory
  file,             \* "closed", "rejected" (about to return -EBUSY) or "open"
  pc,               \* where each task is in its ioctl
  fd,               \* the file the ioctl of a task is on
  ptr,              \* the pointer an ioctl has in its hands
  bad,              \* where a pointer to no block was given to qmem_free
  careful,          \* history: callers have kept to the discipline below
  refs, granted, charged   \* the pool of blocks

pool == <<refs, granted, charged>>
load == <<dev, loading, registered>>
calls == <<pc, fd, ptr, careful>>
vars == <<load, open_count, operation_count, memory, file, calls, bad, pool>>

Pool == INSTANCE BlockPool WITH Holders <- {"driver"}

Pointers == Blocks \cup {Null, Error}

Steps == {"idle", "state_op", "alloc_store", "alloc_test", "alloc_error",
          "free_call", "free_clear", "count"}

At(t, step) == pc[t] = step

Goto(t, step) == pc' = [pc EXCEPT ![t] = step]

Enter(t, f, step) == Goto(t, step) /\ fd' = [fd EXCEPT ![t] = f]

Return(t) == Enter(t, NoFile, "idle") /\ ptr' = [ptr EXCEPT ![t] = Null]

\* The driver runs: its structure is allocated and nothing has crashed it.
Running == dev = "live" /\ bad = "no"

Open == {f \in Files : file[f] = "open"}

Init ==
  /\ dev = "none" /\ loading = "no" /\ registered = {}
  /\ open_count = 0 /\ operation_count = 0 /\ memory = Null
  /\ file = [f \in Files |-> "closed"]
  /\ pc = [t \in Tasks |-> "idle"]
  /\ fd = [t \in Tasks |-> NoFile]
  /\ ptr = [t \in Tasks |-> Null]
  /\ bad = "no"
  /\ careful = TRUE
  /\ Pool!Init

(****************************************************************************)
(* ctrlxt_quantum_device_init and quantum_exit                              *)
(****************************************************************************)
\* The call that follows each call of the init function.
NextCall == [state |-> "region", region |-> "cdev", cdev |-> "class",
             class |-> "device", device |-> "no"]

\* The structure is allocated, zeroed and initialised.  A load that failed and
\* left nothing behind can be tried again.
LoadBegin ==
  /\ dev # "live" /\ loading = "no" /\ bad = "no"
  /\ registered = {}
  /\ dev' = "live"
  /\ loading' = "state"
  /\ open_count' = 0
  /\ operation_count' = 0
  /\ memory' = Null
  /\ UNCHANGED <<registered, file, calls, bad, pool>>

\* The next call succeeds.
LoadStep ==
  /\ Running
  /\ loading # "no"
  /\ registered' = registered \cup ({loading} \ {"state"})
  /\ loading' = NextCall[loading]
  /\ UNCHANGED <<dev, open_count, operation_count, memory, file, calls, bad,
                 pool>>

\* ctrlxt_qmem_free(p), called from the ioctl, load or exit code: a null pointer
\* is ignored, and what is not a block is taken for one.
QmemFree(p, where) ==
  \/ p = Null /\ UNCHANGED <<bad, pool>>
  \/ Pool!ReleaseLast("driver", p) /\ UNCHANGED bad
  \/ p # Null /\ <<"driver", p>> \notin refs /\ bad' = where /\ UNCHANGED pool

\* A call fails: the error path frees the structure and what it points to, and
\* undoes nothing that was registered before.  From there on the
\* character device, if it was added, is part of a freed structure: what an open of
\* it or an ioctl in progress does is undefined and no step of the model.
LoadFail ==
  /\ Running
  /\ loading \in InitFaults
  /\ QmemFree(memory, "load")
  /\ dev' = "freed"
  /\ memory' = Null
  /\ loading' = "no"
  /\ UNCHANGED <<registered, open_count, operation_count, file, calls>>

\* Mutant: cdev_del is forgotten.
ExitRegistered ==
  /\ Running
  /\ loading = "no"
  /\ \A f \in Files : file[f] = "closed"
  /\ registered' = {"cdev"}
  /\ QmemFree(memory, "exit")
  /\ memory' = Null
  /\ dev' = "none"
  /\ UNCHANGED <<loading, open_count, operation_count, file, calls>>

\* quantum_exit, with the module out of use: what is registered goes first.
Exit ==
  /\ Running
  /\ loading = "no"
  /\ \A f \in Files : file[f] = "closed"
  /\ registered' = {}
  /\ QmemFree(memory, "exit")
  /\ memory' = Null
  /\ dev' = "none"
  /\ UNCHANGED <<loading, open_count, operation_count, file, calls>>

(****************************************************************************)
(* quantum_open and quantum_release                                         *)
(****************************************************************************)
\* Mutant: the second open is let in too.
OpenBeginTwice(f) ==
  /\ Running
  /\ "cdev" \in registered
  /\ file[f] = "closed"
  /\ open_count' = open_count + 1
  /\ file' = [file EXCEPT ![f] = IF open_count' > 2 THEN "rejected" ELSE "open"]
  /\ UNCHANGED <<load, operation_count, memory, calls, bad, pool>>

\* atomic_inc_return: whoever finds the count above one is rejected.  The device
\* can be opened from the moment cdev_add registers it.
OpenBegin(f) ==
  /\ Running
  /\ "cdev" \in registered
  /\ file[f] = "closed"
  /\ open_count' = open_count + 1
  /\ file' = [file EXCEPT ![f] = IF open_count' > 1 THEN "rejected" ELSE "open"]
  /\ UNCHANGED <<load, operation_count, memory, calls, bad, pool>>

\* Mutant: the rejected open does not count itself out.
OpenRejectCounted(f) ==
  /\ Running
  /\ file[f] = "rejected"
  /\ file' = [file EXCEPT ![f] = "closed"]
  /\ UNCHANGED <<load, open_count, operation_count, memory, calls, bad, pool>>

\* atomic_dec, return -EBUSY.
OpenReject(f) ==
  /\ Running
  /\ file[f] = "rejected"
  /\ open_count' = open_count - 1
  /\ file' = [file EXCEPT ![f] = "closed"]
  /\ UNCHANGED <<load, operation_count, memory, calls, bad, pool>>

Release(f) ==
  /\ Running
  /\ file[f] = "open"
  /\ \A t \in Tasks : fd[t] # f
  /\ open_count' = open_count - 1
  /\ file' = [file EXCEPT ![f] = "closed"]
  /\ UNCHANGED <<load, operation_count, memory, calls, bad, pool>>

(****************************************************************************)
(* quantum_ioctl                                                            *)
(****************************************************************************)
\* An ioctl of t on f can begin.
MayCall(t, f) ==
  /\ Running
  /\ At(t, "idle")
  /\ f \in Open
  /\ operation_count < MaxOps

\* The discipline: one ioctl at a time, and ok, that a block is allocated when
\* there is none and freed when there is one.
Keep(ok) == careful' = (careful /\ ok /\ \A t \in Tasks : At(t, "idle"))

\* INIT, MEASURE and APPLY_GATE: the quantum state library works on dev->state.
\* A parameter block that cannot be copied returns before anything happens.
StateOp(t, f) ==
  /\ MayCall(t, f)
  /\ Enter(t, f, "state_op")
  /\ Keep(TRUE)
  /\ UNCHANGED <<load, open_count, operation_count, memory, file, ptr, bad,
                 pool>>

\* The library returns 0, or an error that the ioctl returns.
StateOpDone(t) ==
  /\ Running
  /\ At(t, "state_op")
  /\ \/ Goto(t, "count") /\ UNCHANGED <<fd, ptr>>
     \/ Return(t)
  /\ UNCHANGED <<load, open_count, operation_count, memory, file, careful, bad,
                 pool>>

\* ALLOC_MEMORY calls ctrlxt_qmem_alloc, which grants a block or fails.
Alloc(t, f) ==
  /\ MayCall(t, f)
  /\ Keep(memory \notin Blocks)
  /\ Enter(t, f, "alloc_store")
  /\ \/ \E b \in Blocks, n \in Sizes : /\ Pool!Acquire("driver", b, n)
                                       /\ ptr' = [ptr EXCEPT ![t] = b]
     \/ ptr' = [ptr EXCEPT ![t] = Error] /\ UNCHANGED pool
  /\ UNCHANGED <<load, open_count, operation_count, memory, file, bad>>

\* Mutant: the result is dropped when dev->memory is in use.
AllocStoreOnce(t) ==
  /\ Running
  /\ At(t, "alloc_store")
  /\ memory' = IF memory = Null THEN ptr[t] ELSE memory
  /\ Goto(t, "alloc_test")
  /\ UNCHANGED <<load, open_count, operation_count, file, fd, ptr, careful, bad,
                 pool>>

\* The result is stored in dev->memory, whatever was there.
AllocStore(t) ==
  /\ Running
  /\ At(t, "alloc_store")
  /\ memory' = ptr[t]
  /\ Goto(t, "alloc_test")
  /\ UNCHANGED <<load, open_count, operation_count, file, fd, ptr, careful, bad,
                 pool>>

\* Mutant: the result is not tested.
AllocTestNot(t) ==
  /\ Running
  /\ At(t, "alloc_test")
  /\ Goto(t, "count")
  /\ UNCHANGED <<load, open_count, operation_count, memory, file, fd, ptr,
                 careful, bad, pool>>

\* IS_ERR(dev->memory): of what the task stored, or of what is there now.
AllocTest(t) ==
  /\ Running
  /\ At(t, "alloc_test")
  /\ \E v \in {ptr[t], memory} :
        Goto(t, IF v = Error THEN "alloc_error" ELSE "count")
  /\ UNCHANGED <<load, open_count, operation_count, memory, file, fd, ptr,
                 careful, bad, pool>>

\* ret = PTR_ERR(dev->memory), read once more: 0 if the pointer is null by now.
AllocError(t) ==
  /\ Running
  /\ At(t, "alloc_error")
  /\ \E v \in {ptr[t], memory} :
        IF v = Null THEN Goto(t, "count") /\ UNCHANGED <<fd, ptr>>
        ELSE Return(t)
  /\ UNCHANGED <<load, open_count, operation_count, memory, file, careful, bad,
                 pool>>

\* FREE_MEMORY tests dev->memory.
FreeTest(t, f) ==
  /\ MayCall(t, f)
  /\ Keep(memory \in Blocks)
  /\ Enter(t, f, IF memory = Null THEN "count" ELSE "free_call")
  /\ ptr' = [ptr EXCEPT ![t] = memory]
  /\ UNCHANGED <<load, open_count, operation_count, memory, file, bad, pool>>

\* ctrlxt_qmem_free(dev->memory): of what was tested, or of what is there now.
FreeCall(t) ==
  /\ Running
  /\ At(t, "free_call")
  /\ \E v \in {ptr[t], memory} : QmemFree(v, "ioctl")
  /\ Goto(t, "free_clear")
  /\ UNCHANGED <<load, open_count, operation_count, memory, file, fd, ptr,
                 careful>>

\* Mutant: dev->memory keeps pointing to the freed block.
FreeClearNot(t) ==
  /\ Running
  /\ At(t, "free_clear")
  /\ Goto(t, "count")
  /\ UNCHANGED <<load, open_count, operation_count, memory, file, fd, ptr,
                 careful, bad, pool>>

FreeClear(t) ==
  /\ Running
  /\ At(t, "free_clear")
  /\ memory' = Null
  /\ Goto(t, "count")
  /\ UNCHANGED <<load, open_count, operation_count, file, fd, ptr, careful, bad,
                 pool>>

\* ret is 0: the operation is counted, and the ioctl returns.
Count(t) ==
  /\ Running
  /\ At(t, "count")
  /\ operation_count' = operation_count + 1
  /\ Return(t)
  /\ UNCHANGED <<load, open_count, memory, file, careful, bad, pool>>

(****************************************************************************)
(* The specification                                                        *)
(****************************************************************************)
IoctlStep(t) ==
  \/ \E f \in Files : StateOp(t, f) \/ Alloc(t, f) \/ FreeTest(t, f)
  \/ StateOpDone(t)
  \/ AllocStore(t)
  \/ AllocTest(t)
  \/ AllocError(t)
  \/ FreeCall(t)
  \/ FreeClear(t)
  \/ Count(t)

OpenStep(f) == OpenBegin(f) \/ OpenReject(f) \/ Release(f)

Next ==
  \/ LoadBegin
  \/ LoadStep
  \/ LoadFail
  \/ Exit
  \/ \E f \in Files : OpenStep(f)
  \/ \E t \in Tasks : IoctlStep(t)

Spec == Init /\ [][Next]_vars

(****************************************************************************)
(* Properties                                                               *)
(****************************************************************************)
TypeOK ==
  /\ dev \in {"none", "live", "freed"}
  /\ loading \in {"no", "state", "region", "cdev", "class", "device"}
  /\ registered \subseteq {"region", "cdev", "class", "device"}
  /\ open_count \in Int
  /\ operation_count \in Nat
  /\ memory \in Pointers
  /\ file \in [Files -> {"closed", "rejected", "open"}]
  /\ pc \in [Tasks -> Steps]
  /\ fd \in [Tasks -> Files \cup {NoFile}]
  /\ ptr \in [Tasks -> Pointers]
  /\ bad \in {"no", "ioctl", "load", "exit"}
  /\ careful \in BOOLEAN
  /\ refs \subseteq {"driver"} \X Blocks
  /\ granted \in [Blocks -> Int]
  /\ charged \in Int

\* open_count counts the open file and the opens about to be rejected, so two
\* files are never open at once, however opens and releases interleave, and the
\* device can be opened again after the last of them (lines 34-53).
OpenCounts ==
  dev = "live" => open_count = Cardinality({f \in Files : file[f] # "closed"})

ExclusiveOpen == \A f, g \in Open : f = g

\* The character device while it is registered, and every file on it, is part of
\* a structure that was not freed.  A load in which class_create or device_create
\* fails breaks this: it reports the failure ("Failed to create device", line 173)
\* and frees the structure, with the cdev in it, and never calls cdev_del (lines
\* 164-176 and 181-189).
Backed ==
  "cdev" \in registered \/ (\E f \in Files : file[f] # "closed") => dev = "live"

\* Nothing else takes the structure away from under the character device or a
\* file: not an unload and not a load that fails before cdev_add, however opens
\* and ioctls on a device that is still being loaded come in between.
BackedUnlessLoadFails ==
  [][Backed /\ ~Backed' => LoadFail /\ "cdev" \in registered]_vars

\* With disciplined callers no block is orphaned: what the manager granted is
\* what dev->memory points to, or what an ioctl in progress has in its hands,
\* through closes and new opens too.  When the module is gone, every block is
\* back (lines 78-94 and 209-210), unless the load failed with the device in use.
NoOrphan ==
  careful /\ Backed => \A b \in Blocks :
    <<"driver", b>> \in refs =>
      /\ dev = "live"
      /\ memory = b \/ \E t \in Tasks : At(t, "alloc_store") /\ ptr[t] = b

\* With disciplined callers, dev->memory points to a block only as long as the
\* block is granted, but for the instant between its put and the assignment.
NoDangling ==
  careful /\ memory \in Blocks => \/ <<"driver", memory>> \in refs
                                  \/ \E t \in Tasks : At(t, "free_clear")

\* Disciplined callers have ctrlxt_qmem_free given blocks only (quantum_memory.h:43-44: "Free quantum
\* memory block", of a struct quantum_memory_block).
FreesBlocks == careful => bad = "no"

\* With disciplined callers, an allocation that failed is not counted as an
\* operation: operation_count goes up for what returned 0 on its own account.
CountsSuccesses ==
  [][\A t \in Tasks : careful /\ At(t, "count") /\ operation_count' # operation_count
                        => ptr[t] # Error]_vars
==============================================================================
