------------------------- MODULE QuantumDeviceProofs -------------------------
(****************************************************************************)
(* Proofs about QuantumDevice, for any number of tasks, files and blocks:   *)
(* types, that the device is open at most once, that only a load failing    *)
(* late frees the structure of a registered device, and what the driver     *)
(* promises to careful callers, whichever calls of the init function fail.  *)
(****************************************************************************)
EXTENDS QuantumDevice, FiniteSetTheorems, TLAPS

\* The files with an open that was not counted out again.
Counted == {f \in Files : file[f] # "closed"}

\* A file is counted only while the character device is registered.
OpenInv ==
  /\ TypeOK
  /\ Counted # {} => "cdev" \in registered
  /\ OpenCounts
  /\ ExclusiveOpen

LEMMA CountedFinite ==
  /\ IsFiniteSet(Counted) /\ Cardinality(Counted) \in Nat
  /\ Cardinality(Counted) = 0 <=> Counted = {}
<1>1. Counted \subseteq Files
  BY DEF Counted
<1>2. IsFiniteSet(Counted)
  BY <1>1, DeviceConstants, FS_Subset
<1>3. QED
  BY <1>2, FS_CardinalityType, FS_EmptySet

LEMMA OpenInvInit == Init => OpenInv
<1> SUFFICES ASSUME Init
             PROVE  OpenInv
  OBVIOUS
<1>1. TypeOK
  <2>1. /\ file \in [Files -> {"closed", "rejected", "open"}]
        /\ pc \in [Tasks -> Steps]
        /\ fd \in [Tasks -> Files \cup {NoFile}]
        /\ ptr \in [Tasks -> Pointers]
    BY DEF Init, Steps, Pointers
  <2>2. /\ refs \subseteq {"driver"} \X Blocks /\ granted \in [Blocks -> Int]
        /\ charged \in Int
    BY DEF Init, Pool!Init
  <2>3. QED
    BY <2>1, <2>2 DEF Init, TypeOK, Pointers
<1>2. Counted = {} /\ Open = {}
  BY DEF Init, Counted, Open
<1>3. QED
  BY <1>1, <1>2 DEF Init, OpenInv, OpenCounts, ExclusiveOpen

\* What the pool does for the driver keeps the types of the pool.
PoolType == /\ refs \subseteq {"driver"} \X Blocks
            /\ granted \in [Blocks -> Int]
            /\ charged \in Int

LEMMA AcquireType ==
  ASSUME PoolType, NEW b \in Blocks, NEW n \in Sizes,
         Pool!Acquire("driver", b, n)
  PROVE  PoolType'
<1>1. n \in Int
  BY DeviceConstants
<1>2. refs' \subseteq {"driver"} \X Blocks
  BY DEF Pool!Acquire, PoolType
<1>3. granted' \in [Blocks -> Int] /\ charged' \in Int
  BY <1>1 DEF Pool!Acquire, PoolType
<1>4. QED
  BY <1>2, <1>3 DEF PoolType

LEMMA QmemFreeType ==
  ASSUME PoolType, bad \in {"no", "ioctl", "load", "exit"},
         NEW p \in Pointers, NEW where \in {"ioctl", "load", "exit"},
         QmemFree(p, where)
  PROVE  PoolType' /\ bad' \in {"no", "ioctl", "load", "exit"}
<1>1. CASE Pool!ReleaseLast("driver", p) /\ UNCHANGED bad
  <2>1. <<"driver", p>> \in refs /\ p \in Blocks
    BY <1>1 DEF Pool!ReleaseLast, Pool!HoldersOf, PoolType
  <2>2. QED
    BY <1>1, <2>1 DEF Pool!ReleaseLast, PoolType
<1>2. CASE p = Null /\ UNCHANGED <<bad, pool>>
  BY <1>2 DEF pool, PoolType
<1>3. CASE p # Null /\ <<"driver", p>> \notin refs /\ bad' = where /\ UNCHANGED pool
  BY <1>3 DEF pool, PoolType
<1>4. QED
  BY <1>1, <1>2, <1>3 DEF QmemFree

LEMMA TypeStep == TypeOK /\ [Next]_vars => TypeOK'
<1> SUFFICES ASSUME TypeOK, [Next]_vars
             PROVE  TypeOK'
  OBVIOUS
<1>a. PoolType
  BY DEF TypeOK, PoolType
<1> USE DeviceConstants DEF TypeOK, Steps, Pointers, At, Goto, Enter, Return,
        load, calls, pool, Running, MayCall, Open
<1>b. ASSUME NEW ok, Keep(ok)
      PROVE  careful' \in BOOLEAN
  BY <1>b, Zenon DEF Keep
<1>1. CASE LoadBegin
  BY <1>1 DEF LoadBegin
<1>2. CASE LoadStep
  BY <1>2 DEF LoadStep, NextCall
<1>3. CASE LoadFail
  <2>1. PoolType' /\ bad' \in {"no", "ioctl", "load", "exit"}
    BY <1>3, <1>a, QmemFreeType DEF LoadFail
  <2>2. QED
    BY <1>3, <2>1 DEF LoadFail, PoolType
<1>4. CASE Exit
  <2>1. PoolType' /\ bad' \in {"no", "ioctl", "load", "exit"}
    BY <1>4, <1>a, QmemFreeType DEF Exit
  <2>2. QED
    BY <1>4, <2>1 DEF Exit, PoolType
<1>5. ASSUME NEW f \in Files, OpenBegin(f)
      PROVE  TypeOK'
  BY <1>5 DEF OpenBegin
<1>6. ASSUME NEW f \in Files, OpenReject(f)
      PROVE  TypeOK'
  BY <1>6 DEF OpenReject
<1>7. ASSUME NEW f \in Files, Release(f)
      PROVE  TypeOK'
  BY <1>7 DEF Release
<1>8. ASSUME NEW t \in Tasks, NEW f \in Files, StateOp(t, f)
      PROVE  TypeOK'
  BY <1>8, <1>b DEF StateOp
<1>9. ASSUME NEW t \in Tasks, NEW f \in Files, Alloc(t, f)
      PROVE  TypeOK'
  <2>0. careful' \in BOOLEAN
    BY <1>9, <1>b DEF Alloc
  <2>1. CASE UNCHANGED pool
    BY <1>9, <2>1, <2>0 DEF Alloc
  <2>2. ASSUME NEW b \in Blocks, NEW n \in Sizes,
               Pool!Acquire("driver", b, n), ptr' = [ptr EXCEPT ![t] = b]
        PROVE  TypeOK'
    <3>1. PoolType'
      BY <2>2, <1>a, AcquireType
    <3>2. QED
      BY <1>9, <2>0, <2>2, <3>1 DEF Alloc, PoolType
  <2>3. QED
    BY <1>9, <2>1, <2>2 DEF Alloc
<1>10. ASSUME NEW t \in Tasks, NEW f \in Files, FreeTest(t, f)
      PROVE  TypeOK'
  BY <1>10, <1>b DEF FreeTest
<1>11. ASSUME NEW t \in Tasks, StateOpDone(t)
      PROVE  TypeOK'
  BY <1>11 DEF StateOpDone
<1>12. ASSUME NEW t \in Tasks, AllocStore(t)
      PROVE  TypeOK'
  BY <1>12 DEF AllocStore
<1>13. ASSUME NEW t \in Tasks, AllocTest(t)
      PROVE  TypeOK'
  BY <1>13 DEF AllocTest
<1>14. ASSUME NEW t \in Tasks, AllocError(t)
      PROVE  TypeOK'
  BY <1>14 DEF AllocError
<1>15. ASSUME NEW t \in Tasks, FreeCall(t)
      PROVE  TypeOK'
  <2>1. PoolType' /\ bad' \in {"no", "ioctl", "load", "exit"}
    BY <1>15, <1>a, QmemFreeType DEF FreeCall
  <2>2. QED
    BY <1>15, <2>1 DEF FreeCall, PoolType
<1>16. ASSUME NEW t \in Tasks, FreeClear(t)
      PROVE  TypeOK'
  BY <1>16 DEF FreeClear
<1>17. ASSUME NEW t \in Tasks, Count(t)
      PROVE  TypeOK'
  BY <1>17 DEF Count
<1>18. CASE UNCHANGED vars
  BY <1>18 DEF vars
<1>19. QED
  BY <1>1, <1>2, <1>3, <1>4, <1>5, <1>6, <1>7, <1>8,
     <1>9, <1>10, <1>11, <1>12, <1>13, <1>14, <1>15, <1>16, <1>17, <1>18
  DEF Next, OpenStep, IoctlStep

LEMMA OpenInvStep == OpenInv /\ [Next]_vars => OpenInv'
<1> SUFFICES ASSUME OpenInv, [Next]_vars
             PROVE  OpenInv'
  OBVIOUS
<1>a. /\ TypeOK /\ ExclusiveOpen
      /\ Counted # {} => "cdev" \in registered
      /\ dev = "live" => open_count = Cardinality(Counted)
  BY DEF OpenInv, OpenCounts, Counted
<1>b. TypeOK'
  BY <1>a, TypeStep
<1>c. ASSUME Counted' # {} => "cdev" \in registered',
             dev' = "live" => open_count' = Cardinality(Counted'),
             \A f, g \in Open' : f = g
      PROVE  OpenInv'
  BY <1>b, <1>c DEF OpenInv, OpenCounts, ExclusiveOpen, Counted
<1>d. ASSUME UNCHANGED <<file, open_count>>, registered \subseteq registered',
             dev' = "live" => dev = "live"
      PROVE  OpenInv'
  BY <1>a, <1>b, <1>c, <1>d DEF Counted, Open, ExclusiveOpen
<1> USE <1>a, DeviceConstants DEF load, calls, ExclusiveOpen
<1>1. CASE LoadBegin
  <2>1. Counted' = {} /\ Open' = {} /\ open_count' = 0
    BY <1>1 DEF LoadBegin, Counted, Open
  <2>2. Cardinality(Counted') = 0
    BY <2>1, FS_EmptySet
  <2>3. QED
    BY <2>1, <2>2, <1>b, <1>c
<1>2. CASE LoadStep
  BY <1>2, <1>d DEF LoadStep, MayCall, Running
<1>3. CASE LoadFail
  BY <1>3, <1>d DEF LoadFail, MayCall, Running
<1>4. CASE Exit
  <2>1. Counted' = {} /\ Open' = {} /\ dev' = "none"
    BY <1>4 DEF Exit, Counted, Open
  <2>2. QED
    BY <2>1, <1>b, <1>c
<1>5. ASSUME NEW f \in Files, OpenBegin(f)
      PROVE  OpenInv'
  <2>1. /\ f \notin Counted /\ Counted' = Counted \cup {f} /\ dev = "live"
        /\ "cdev" \in registered' /\ dev' = "live"
        /\ open_count' = open_count + 1
    BY <1>5 DEF OpenBegin, Counted, Running, TypeOK
  <2>2. Cardinality(Counted \cup {f}) = Cardinality(Counted) + 1
    <3>1. IsFiniteSet(Counted)
      BY CountedFinite
    <3>2. QED
      BY <2>1, <3>1, FS_AddElement
  <2>3. open_count' = Cardinality(Counted')
    BY <2>1, <2>2
  <2>4. \A g, h \in Open' : g = h
    <3>1. CASE open_count' > 1
      <4>1. Open' = Open
        BY <1>5, <3>1 DEF OpenBegin, Open, TypeOK
      <4>2. QED
        BY <4>1
    <3>2. CASE ~(open_count' > 1)
      <4>1. Counted = {}
        BY <2>1, <3>2, CountedFinite
      <4>2. Open' = {f}
        BY <1>5, <3>2, <4>1 DEF OpenBegin, Open, Counted, TypeOK
      <4>3. QED
        BY <4>2
    <3>3. QED
      BY <3>1, <3>2
  <2>5. QED
    BY <2>1, <2>3, <2>4, <1>b, <1>c
<1>6. ASSUME NEW f \in Files, OpenReject(f)
      PROVE  OpenInv'
  <2>1. /\ f \in Counted /\ Counted' = Counted \ {f} /\ dev' = "live"
        /\ Open' \subseteq Open
        /\ open_count' = open_count - 1 /\ registered' = registered
    BY <1>6 DEF OpenReject, Counted, Open, Running, load, TypeOK
  <2>2. IsFiniteSet(Counted)
    BY CountedFinite
  <2>3. Cardinality(Counted \ {f}) = Cardinality(Counted) - 1
    BY <2>1, <2>2, FS_RemoveElement
  <2>4. open_count' = Cardinality(Counted')
    BY <1>6, <2>1, <2>3, <1>a DEF OpenReject, Running
  <2>5. QED
    BY <2>1, <2>4, <1>a, <1>b, <1>c
<1>7. ASSUME NEW f \in Files, Release(f)
      PROVE  OpenInv'
  <2>1. /\ f \in Counted /\ Counted' = Counted \ {f} /\ dev' = "live"
        /\ Open' \subseteq Open
        /\ open_count' = open_count - 1 /\ registered' = registered
    BY <1>7 DEF Release, Counted, Open, Running, load, TypeOK
  <2>2. IsFiniteSet(Counted)
    BY CountedFinite
  <2>3. Cardinality(Counted \ {f}) = Cardinality(Counted) - 1
    BY <2>1, <2>2, FS_RemoveElement
  <2>4. open_count' = Cardinality(Counted')
    BY <1>7, <2>1, <2>3, <1>a DEF Release, Running
  <2>5. QED
    BY <2>1, <2>4, <1>a, <1>b, <1>c
<1>8. ASSUME NEW t \in Tasks, NEW f \in Files, StateOp(t, f)
      PROVE  OpenInv'
  BY <1>8, <1>d DEF StateOp, MayCall, Running
<1>9. ASSUME NEW t \in Tasks, NEW f \in Files, Alloc(t, f)
      PROVE  OpenInv'
  BY <1>9, <1>d DEF Alloc, MayCall, Running
<1>10. ASSUME NEW t \in Tasks, NEW f \in Files, FreeTest(t, f)
      PROVE  OpenInv'
  BY <1>10, <1>d DEF FreeTest, MayCall, Running
<1>11. ASSUME NEW t \in Tasks, StateOpDone(t)
      PROVE  OpenInv'
  BY <1>11, <1>d DEF StateOpDone, MayCall, Running
<1>12. ASSUME NEW t \in Tasks, AllocStore(t)
      PROVE  OpenInv'
  BY <1>12, <1>d DEF AllocStore, MayCall, Running
<1>13. ASSUME NEW t \in Tasks, AllocTest(t)
      PROVE  OpenInv'
  BY <1>13, <1>d DEF AllocTest, MayCall, Running
<1>14. ASSUME NEW t \in Tasks, AllocError(t)
      PROVE  OpenInv'
  BY <1>14, <1>d DEF AllocError, MayCall, Running
<1>15. ASSUME NEW t \in Tasks, FreeCall(t)
      PROVE  OpenInv'
  BY <1>15, <1>d DEF FreeCall, MayCall, Running
<1>16. ASSUME NEW t \in Tasks, FreeClear(t)
      PROVE  OpenInv'
  BY <1>16, <1>d DEF FreeClear, MayCall, Running
<1>17. ASSUME NEW t \in Tasks, Count(t)
      PROVE  OpenInv'
  BY <1>17, <1>d DEF Count, MayCall, Running
<1>18. CASE UNCHANGED vars
  BY <1>18, <1>d DEF vars
<1>19. QED
  BY <1>1, <1>2, <1>3, <1>4, <1>5, <1>6, <1>7, <1>8,
     <1>9, <1>10, <1>11, <1>12, <1>13, <1>14, <1>15, <1>16, <1>17, <1>18
  DEF Next, OpenStep, IoctlStep

LEMMA OpenInvariant == Spec => []OpenInv
BY OpenInvInit, OpenInvStep, PTL DEF Spec

\* Every variable of the driver has its type.
THEOREM DeviceTypes == Spec => []TypeOK
<1>1. OpenInv => TypeOK
  BY DEF OpenInv
<1>2. QED
  BY <1>1, OpenInvariant, PTL

\* open_count is the number of files that are open or about to be rejected,
\* however opens, rejections and releases interleave.
THEOREM OpenCountIsExact == Spec => []OpenCounts
<1>1. OpenInv => OpenCounts
  BY DEF OpenInv
<1>2. QED
  BY <1>1, OpenInvariant, PTL

\* The increment and test of quantum_open lets one file in at a time.
THEOREM DeviceIsExclusive == Spec => []ExclusiveOpen
<1>1. OpenInv => ExclusiveOpen
  BY DEF OpenInv
<1>2. QED
  BY <1>1, OpenInvariant, PTL

(****************************************************************************)
(* Loads, failed loads and unloads                                          *)
(****************************************************************************)
\* A structure that is not live holds no memory, and an ioctl in progress is on
\* an open file.
LoadInv ==
  /\ OpenInv
  /\ dev # "live" => memory = Null
  /\ \A t \in Tasks : pc[t] # "idle" => fd[t] \in Open

\* A live structure is behind whatever there is, and without a character device
\* there is nothing for it to be behind.
LEMMA BackedWhen ==
  ASSUME OpenInv, dev = "live" \/ "cdev" \notin registered
  PROVE  Backed
BY DEF OpenInv, Backed, Counted

LEMMA LoadInvInit == Init => LoadInv
BY OpenInvInit DEF LoadInv, Init

\* Without a character device no file is open, and no ioctl in progress.
LEMMA QuietLoad ==
  ASSUME LoadInv, "cdev" \notin registered \/ \A f \in Files : file[f] = "closed"
  PROVE  \A t \in Tasks : pc[t] = "idle"
<1>1. Open = {}
  BY DEF LoadInv, OpenInv, Counted, Open
<1>2. QED
  BY <1>1 DEF LoadInv

LEMMA LoadInvStep == LoadInv /\ [Next]_vars => LoadInv'
<1> SUFFICES ASSUME LoadInv, [Next]_vars
             PROVE  LoadInv'
  OBVIOUS
<1>a. OpenInv'
  BY OpenInvStep DEF LoadInv
<1>t. TypeOK /\ TypeOK'
  BY <1>a DEF LoadInv, OpenInv
<1>b. ASSUME UNCHANGED <<load, file>>, dev = "live",
             NEW t \in Tasks, \A u \in Tasks \ {t} : UNCHANGED <<pc[u], fd[u]>>,
             pc'[t] # "idle" => fd'[t] \in Open
      PROVE  LoadInv'
  <2>1. Open' = Open
    BY <1>b DEF Open
  <2>2. \A u \in Tasks : pc'[u] # "idle" => fd'[u] \in Open'
    BY <1>b, <2>1 DEF LoadInv
  <2>3. QED
    BY <1>a, <1>b, <2>2 DEF LoadInv, load
<1>c. ASSUME NEW t \in Tasks, NEW step, pc' = [pc EXCEPT ![t] = step], pc[t] # "idle",
             UNCHANGED <<load, file, fd>>, dev = "live"
      PROVE  LoadInv'
  BY <1>b, <1>c, <1>t DEF LoadInv, TypeOK
<1>d. ASSUME NEW t \in Tasks, Return(t), UNCHANGED <<load, file>>, dev = "live"
      PROVE  LoadInv'
  BY <1>b, <1>d, <1>t DEF Return, Enter, Goto, TypeOK
<1>e. ASSUME NEW t \in Tasks, NEW f \in Open, NEW step, Enter(t, f, step),
             UNCHANGED <<load, file>>, dev = "live"
      PROVE  LoadInv'
  BY <1>b, <1>e, <1>t DEF Enter, Goto, TypeOK
<1>1. CASE LoadBegin
  <2>1. \A t \in Tasks : pc[t] = "idle"
    BY <1>1, QuietLoad DEF LoadBegin
  <2>2. QED
    BY <1>1, <1>a, <2>1 DEF LoadBegin, LoadInv, calls
<1>2. CASE LoadStep
  BY <1>2, <1>a DEF LoadStep, LoadInv, Open, Running, calls
<1>3. CASE LoadFail
  BY <1>3, <1>a DEF LoadFail, LoadInv, Open, calls
<1>4. CASE Exit
  <2>1. \A t \in Tasks : pc'[t] = "idle"
    BY <1>4, QuietLoad DEF Exit, calls
  <2>2. QED
    BY <1>4, <1>a, <2>1 DEF Exit, LoadInv
<1>5. ASSUME NEW f \in Files, OpenStep(f)
      PROVE  LoadInv'
  <2>1. \A t \in Tasks : pc[t] # "idle" => fd[t] # f \/ file'[f] = "open"
    BY <1>5, <1>t DEF OpenStep, OpenBegin, OpenReject, Release, LoadInv, Open, TypeOK
  <2>2. \A g \in Files : g # f => file'[g] = file[g]
    BY <1>5, <1>t DEF OpenStep, OpenBegin, OpenReject, Release, TypeOK
  <2>3. UNCHANGED <<load, calls, memory>>
    BY <1>5 DEF OpenStep, OpenBegin, OpenReject, Release
  <2>4. QED
    BY <1>a, <2>1, <2>2, <2>3 DEF LoadInv, load, calls, Open
<1>6. ASSUME NEW t \in Tasks, NEW f \in Files, StateOp(t, f) \/ Alloc(t, f) \/ FreeTest(t, f)
      PROVE  LoadInv'
  BY <1>6, <1>e DEF StateOp, Alloc, FreeTest, MayCall, Running
<1>7. ASSUME NEW t \in Tasks, StateOpDone(t) \/ AllocError(t) \/ Count(t)
      PROVE  LoadInv'
  <2>1. pc[t] # "idle" /\ UNCHANGED <<load, file>> /\ dev = "live"
    BY <1>7 DEF StateOpDone, AllocError, Count, At, Running
  <2>2. Return(t) \/ (pc' = [pc EXCEPT ![t] = "count"] /\ UNCHANGED fd)
    BY <1>7 DEF StateOpDone, AllocError, Count, Goto
  <2>3. QED
    BY <2>1, <2>2, <1>c, <1>d
<1>8. ASSUME NEW t \in Tasks,
             AllocStore(t) \/ AllocTest(t) \/ FreeCall(t) \/ FreeClear(t)
      PROVE  LoadInv'
  <2>1. pc[t] # "idle" /\ UNCHANGED <<load, file, fd>> /\ dev = "live"
    BY <1>8 DEF AllocStore, AllocTest, FreeCall, FreeClear, At, Running
  <2>2. \E step : pc' = [pc EXCEPT ![t] = step]
    BY <1>8 DEF AllocStore, AllocTest, FreeCall, FreeClear, Goto
  <2>3. QED
    BY <2>1, <2>2, <1>c
<1>9. CASE UNCHANGED vars
  BY <1>9, <1>a DEF vars, LoadInv, load, calls, Open
<1>10. QED
  BY <1>1, <1>2, <1>3, <1>4, <1>5, <1>6, <1>7, <1>8, <1>9 DEF Next, IoctlStep

LEMMA LoadInvariant == Spec => []LoadInv
BY LoadInvInit, LoadInvStep, PTL DEF Spec

\* The structure behind the character device or a file is freed by nothing but a
\* load that fails after cdev_add.
THEOREM OnlyLateFailuresUnback == Spec => BackedUnlessLoadFails
<1>1. ASSUME OpenInv, OpenInv', [Next]_vars, Backed, ~Backed'
      PROVE  LoadFail /\ "cdev" \in registered
  <2>1. dev' # "live" /\ "cdev" \in registered'
    BY <1>1, BackedWhen DEF OpenInv, Backed, Counted
  <2>2. CASE LoadFail
    BY <2>1, <2>2 DEF LoadFail
  <2>3. CASE UNCHANGED vars
    BY <1>1, <2>3 DEF vars, load, Backed
  <2>4. CASE LoadBegin \/ LoadStep \/ Exit
    BY <2>1, <2>4 DEF LoadBegin, LoadStep, Exit, Running
  <2>5. ASSUME NEW f \in Files, OpenStep(f)
        PROVE  FALSE
    BY <2>1, <2>5 DEF OpenStep, OpenBegin, OpenReject, Release, Running, load
  <2>6. ASSUME NEW t \in Tasks, IoctlStep(t)
        PROVE  FALSE
    BY <2>1, <2>6 DEF IoctlStep, StateOp, Alloc, FreeTest, MayCall, StateOpDone,
       AllocStore, AllocTest, AllocError, FreeCall, FreeClear, Count, Running, load
  <2>7. QED
    BY <1>1, <2>2, <2>3, <2>4, <2>5, <2>6 DEF Next
<1>2. OpenInv /\ OpenInv' /\ [Next]_vars =>
        [Backed /\ ~Backed' => LoadFail /\ "cdev" \in registered]_vars
  BY <1>1
<1>3. QED
  BY <1>2, OpenInvariant, PTL DEF Spec, BackedUnlessLoadFails

(****************************************************************************)
(* Careful callers                                                          *)
(****************************************************************************)
Granted(b) == <<"driver", b>> \in refs

Alone == \A t, u \in Tasks : pc[t] # "idle" /\ pc[u] # "idle" => t = u

\* What a task in an ioctl knows of dev->memory and of the pointer it has.
Hand(t) ==
  /\ pc[t] \in {"idle", "state_op"} => ptr[t] = Null
  /\ pc[t] = "alloc_store" =>
        /\ memory \notin Blocks /\ ptr[t] # Null
        /\ ptr[t] \in Blocks => Granted(ptr[t])
  /\ pc[t] \in {"alloc_test", "alloc_error"} => ptr[t] = memory /\ ptr[t] # Null
  /\ pc[t] = "alloc_error" => ptr[t] = Error
  /\ pc[t] = "free_call" => ptr[t] = memory /\ memory \in Blocks
  /\ pc[t] = "free_clear" => refs = {}
  /\ pc[t] \in {"free_clear", "count"} => ptr[t] # Error

CarefulInv ==
  careful /\ Backed => Alone /\ (\A t \in Tasks : Hand(t)) /\ NoOrphan /\ NoDangling

LEMMA CarefulInvInit == Init => CarefulInv
BY DeviceConstants DEF Init, CarefulInv, Alone, Hand, NoOrphan, NoDangling, Pool!Init

\* A put of what the driver holds a reference to takes this reference away, and
\* of a pointer to no block none.
LEMMA QmemFreeRefs ==
  ASSUME TypeOK, NEW p, NEW where, QmemFree(p, where)
  PROVE  /\ refs' \subseteq refs
         /\ <<"driver", p>> \notin refs'
<1>1. \A x \in refs : x[1] = "driver" /\ x[2] \in Blocks /\ x = <<x[1], x[2]>>
  BY DEF TypeOK
<1>2. CASE p = Null /\ UNCHANGED <<bad, pool>>
  BY <1>2, DeviceConstants DEF TypeOK, pool
<1>3. CASE Pool!ReleaseLast("driver", p) /\ UNCHANGED bad
  BY <1>3 DEF Pool!ReleaseLast
<1>4. CASE p # Null /\ <<"driver", p>> \notin refs /\ bad' = where /\ UNCHANGED pool
  BY <1>4 DEF pool
<1>5. QED
  BY <1>2, <1>3, <1>4 DEF QmemFree

\* A set of references of the driver is empty if it has none to any block.
LEMMA NoRefs ==
  ASSUME TypeOK', \A b \in Blocks : ~Granted(b)'
  PROVE  refs' = {}
BY DEF TypeOK, Granted

\* When no ioctl is in progress, freeing dev->memory leaves no reference.
LEMMA LastFree ==
  ASSUME TypeOK, TypeOK', CarefulInv, careful, Backed,
         \A t \in Tasks : pc[t] = "idle", NEW where, QmemFree(memory, where)
  PROVE  refs' = {}
<1>1. \A b \in Blocks : Granted(b) => memory = b
  BY DEF CarefulInv, NoOrphan, Granted, At
<1>2. refs' \subseteq refs /\ <<"driver", memory>> \notin refs'
  BY QmemFreeRefs
<1>3. \A b \in Blocks : ~Granted(b)'
  BY <1>1, <1>2 DEF Granted
<1>4. QED
  BY <1>3, NoRefs

\* While one task moves, the others are idle and stay so.
LEMMA OthersIdle ==
  ASSUME CarefulInv, careful, Backed, NEW t \in Tasks,
         \A u \in Tasks \ {t} :
            pc[u] = "idle" /\ pc'[u] = "idle" /\ ptr'[u] = ptr[u],
         Hand(t)', NoOrphan', NoDangling'
  PROVE  CarefulInv'
<1>1. \A u \in Tasks \ {t} : ptr'[u] = Null
  BY DEF CarefulInv, Hand
<1>2. \A u \in Tasks \ {t} : Hand(u)'
  BY <1>1 DEF Hand
<1>3. Alone'
  BY DEF Alone
<1>4. QED
  BY <1>2, <1>3 DEF CarefulInv

\* An ioctl that begins with the discipline kept.
LEMMA BeginKeeps ==
  ASSUME LoadInv, TypeOK', CarefulInv, careful', NEW t \in Tasks, NEW f \in Files,
         StateOp(t, f) \/ Alloc(t, f) \/ FreeTest(t, f)
  PROVE  CarefulInv'
<1>t. TypeOK
  BY DEF LoadInv, OpenInv
<1>0. dev = "live" /\ Backed
  BY BackedWhen DEF LoadInv, StateOp, Alloc, FreeTest, MayCall, Running
<1>1. /\ careful /\ Backed /\ \A u \in Tasks : pc[u] = "idle"
      /\ dev' = "live" /\ memory' = memory
  BY <1>0 DEF StateOp, Alloc, FreeTest, Keep, At, MayCall, Running, load
<1>2. \A u \in Tasks : ptr[u] = Null
  BY <1>1 DEF CarefulInv, Hand
<1>3. \A b \in Blocks : Granted(b) => memory = b
  BY <1>1 DEF CarefulInv, NoOrphan, Granted, At
<1>4. memory \in Blocks => Granted(memory)
  BY <1>1 DEF CarefulInv, NoDangling, Granted, At
<1>a. ASSUME Hand(t)', NoOrphan', NoDangling', NEW step, pc' = [pc EXCEPT ![t] = step],
             \A u \in Tasks \ {t} : ptr'[u] = ptr[u]
      PROVE  CarefulInv'
  <2>1. \A u \in Tasks \ {t} : pc'[u] = "idle"
    BY <1>a, <1>1, <1>t DEF TypeOK
  <2>2. QED
    BY <1>a, <2>1, <1>1, OthersIdle
<1>b. ASSUME refs' = refs
      PROVE  NoOrphan' /\ NoDangling'
  BY <1>b, <1>1, <1>3, <1>4 DEF NoOrphan, NoDangling, Granted
<1>5. CASE StateOp(t, f)
  <2>1. /\ pc' = [pc EXCEPT ![t] = "state_op"] /\ ptr' = ptr /\ refs' = refs
        /\ pc'[t] = "state_op" /\ ptr'[t] = Null
    BY <1>5, <1>2, <1>t DEF StateOp, Enter, Goto, pool, TypeOK
  <2>2. Hand(t)'
    BY <2>1 DEF Hand
  <2>3. QED
    BY <2>1, <2>2, <1>a, <1>b
<1>6. CASE FreeTest(t, f)
  <2>1. memory \in Blocks
    BY <1>6 DEF FreeTest, Keep
  <2>2. /\ pc' = [pc EXCEPT ![t] = "free_call"] /\ ptr' = [ptr EXCEPT ![t] = memory]
        /\ refs' = refs /\ pc'[t] = "free_call" /\ ptr'[t] = memory
    BY <1>6, <2>1, <1>t, DeviceConstants DEF FreeTest, Enter, Goto, pool, TypeOK
  <2>3. Hand(t)'
    BY <2>1, <2>2, <1>1 DEF Hand
  <2>4. \A u \in Tasks \ {t} : ptr'[u] = ptr[u]
    BY <2>2, <1>t DEF TypeOK
  <2>5. QED
    BY <2>2, <2>3, <2>4, <1>a, <1>b
<1>7. CASE Alloc(t, f)
  <2>1. memory \notin Blocks /\ refs = {}
    <3>1. memory \notin Blocks
      BY <1>7 DEF Alloc, Keep
    <3>2. QED
      BY <3>1, <1>3, <1>t DEF TypeOK, Granted
  <2>2. pc' = [pc EXCEPT ![t] = "alloc_store"] /\ pc'[t] = "alloc_store"
    BY <1>7, <1>t DEF Alloc, Enter, Goto, TypeOK
  <2>3. CASE ptr' = [ptr EXCEPT ![t] = Error] /\ UNCHANGED pool
    <3>1. ptr'[t] = Error /\ refs' = refs /\ \A u \in Tasks \ {t} : ptr'[u] = ptr[u]
      BY <2>3, <1>t DEF pool, TypeOK
    <3>2. Hand(t)'
      BY <3>1, <2>1, <2>2, <1>1, DeviceConstants DEF Hand
    <3>3. QED
      BY <3>1, <3>2, <2>2, <1>a, <1>b
  <2>4. ASSUME NEW b \in Blocks, NEW n \in Sizes, Pool!Acquire("driver", b, n),
               ptr' = [ptr EXCEPT ![t] = b]
        PROVE  CarefulInv'
    <3>1. /\ ptr'[t] = b /\ refs' = {<<"driver", b>>}
          /\ \A u \in Tasks \ {t} : ptr'[u] = ptr[u]
      BY <2>1, <2>4, <1>t DEF Pool!Acquire, TypeOK
    <3>2. Hand(t)'
      BY <3>1, <2>1, <2>2, <1>1, DeviceConstants DEF Hand, Granted
    <3>3. NoOrphan' /\ NoDangling'
      BY <3>1, <2>1, <2>2, <1>1 DEF NoOrphan, NoDangling, At
    <3>4. QED
      BY <3>1, <3>2, <3>3, <2>2, <1>a
  <2>5. QED
    BY <1>7, <2>3, <2>4 DEF Alloc
<1>8. QED
  BY <1>5, <1>6, <1>7

\* An ioctl that goes on while no other is in progress.
LEMMA StepKeeps ==
  ASSUME LoadInv, TypeOK', CarefulInv, careful', NEW t \in Tasks,
         \/ StateOpDone(t) \/ AllocStore(t) \/ AllocTest(t) \/ AllocError(t)
         \/ FreeCall(t) \/ FreeClear(t) \/ Count(t)
  PROVE  CarefulInv'
<1>t. TypeOK
  BY DEF LoadInv, OpenInv
<1>0. careful /\ pc[t] # "idle" /\ dev' = "live" /\ dev = "live"
  BY DEF StateOpDone, AllocStore, AllocTest, AllocError, FreeCall, FreeClear, Count,
         At, Running, load
<1>1. careful /\ Backed /\ pc[t] # "idle" /\ dev' = "live" /\ dev = "live"
  BY <1>0, BackedWhen DEF LoadInv
<1>2. \A u \in Tasks \ {t} : pc[u] = "idle"
  BY <1>1 DEF CarefulInv, Alone
<1>3. Hand(t) /\ NoOrphan /\ NoDangling
  BY <1>1 DEF CarefulInv
<1>4. \A b \in Blocks : Granted(b) =>
        memory = b \/ (pc[t] = "alloc_store" /\ ptr[t] = b)
  BY <1>1, <1>2, <1>3 DEF NoOrphan, Granted, At
<1>5. memory \in Blocks /\ pc[t] # "free_clear" => Granted(memory)
  BY <1>1, <1>2, <1>3 DEF NoDangling, Granted, At
<1>a. ASSUME Hand(t)', NoOrphan', NoDangling',
             pc' = [pc EXCEPT ![t] = pc'[t]], ptr' = [ptr EXCEPT ![t] = ptr'[t]]
      PROVE  CarefulInv'
  <2>1. \A u \in Tasks \ {t} : pc'[u] = "idle" /\ ptr'[u] = ptr[u]
    BY <1>a, <1>2, <1>t DEF TypeOK
  <2>2. QED
    BY <1>a, <2>1, <1>1, <1>2, OthersIdle
<1>b. ASSUME refs' = refs, memory' = memory, pc[t] \notin {"alloc_store", "free_clear"}
      PROVE  NoOrphan' /\ NoDangling'
  BY <1>b, <1>1, <1>4, <1>5 DEF NoOrphan, NoDangling, Granted
<1>6. CASE AllocStore(t)
  <2>1. /\ pc[t] = "alloc_store" /\ pc' = [pc EXCEPT ![t] = "alloc_test"] /\ ptr' = ptr
        /\ memory' = ptr[t] /\ refs' = refs /\ pc'[t] = "alloc_test"
    BY <1>6, <1>t DEF AllocStore, At, Goto, pool, TypeOK
  <2>2. Hand(t)'
    BY <2>1, <1>3 DEF Hand
  <2>3. NoOrphan' /\ NoDangling'
    BY <2>1, <1>1, <1>3, <1>4 DEF NoOrphan, NoDangling, Granted, Hand
  <2>4. ptr' = [ptr EXCEPT ![t] = ptr'[t]]
    BY <2>1, <1>t DEF TypeOK
  <2>5. QED
    BY <2>1, <2>2, <2>3, <2>4, <1>a
<1>7. CASE AllocTest(t)
  <2>1. /\ pc[t] = "alloc_test" /\ ptr' = ptr /\ memory' = memory /\ refs' = refs
        /\ pc'[t] = (IF ptr[t] = Error THEN "alloc_error" ELSE "count")
        /\ pc' = [pc EXCEPT ![t] = pc'[t]]
    BY <1>7, <1>3, <1>t DEF AllocTest, At, Goto, pool, TypeOK, Hand
  <2>2. Hand(t)'
    BY <2>1, <1>3 DEF Hand
  <2>3. ptr' = [ptr EXCEPT ![t] = ptr'[t]]
    BY <2>1, <1>t DEF TypeOK
  <2>4. QED
    BY <2>1, <2>2, <2>3, <1>a, <1>b
<1>8. CASE FreeCall(t)
  <2>1. /\ pc[t] = "free_call" /\ ptr' = ptr /\ memory' = memory
        /\ pc' = [pc EXCEPT ![t] = "free_clear"] /\ pc'[t] = "free_clear"
        /\ ptr[t] = memory /\ memory \in Blocks
    BY <1>8, <1>3, <1>t DEF FreeCall, At, Goto, TypeOK, Hand
  <2>2. QmemFree(memory, "ioctl")
    BY <1>8, <2>1 DEF FreeCall
  <2>3. \A b \in Blocks : ~Granted(b)'
    <3>1. refs' \subseteq refs /\ <<"driver", memory>> \notin refs'
      BY <2>2, <1>t, QmemFreeRefs
    <3>2. QED
      BY <1>4, <2>1, <3>1 DEF Granted
  <2>4. refs' = {}
    BY <2>3, NoRefs
  <2>5. Hand(t)'
    BY <2>1, <2>4, DeviceConstants DEF Hand
  <2>6. NoOrphan' /\ NoDangling'
    BY <2>1, <2>4 DEF NoOrphan, NoDangling, At
  <2>7. ptr' = [ptr EXCEPT ![t] = ptr'[t]]
    BY <2>1, <1>t DEF TypeOK
  <2>8. QED
    BY <2>1, <2>5, <2>6, <2>7, <1>a
<1>9. CASE FreeClear(t)
  <2>1. /\ pc[t] = "free_clear" /\ ptr' = ptr /\ memory' = Null /\ refs' = refs
        /\ pc' = [pc EXCEPT ![t] = "count"] /\ pc'[t] = "count"
    BY <1>9, <1>t DEF FreeClear, At, Goto, TypeOK, pool
  <2>2. Hand(t)' /\ refs' = {}
    BY <2>1, <1>3 DEF Hand
  <2>3. NoOrphan' /\ NoDangling'
    BY <2>1, <2>2, DeviceConstants DEF NoOrphan, NoDangling
  <2>4. ptr' = [ptr EXCEPT ![t] = ptr'[t]]
    BY <2>1, <1>t DEF TypeOK
  <2>5. QED
    BY <2>1, <2>2, <2>3, <2>4, <1>a
<1>10. CASE StateOpDone(t) \/ AllocError(t) \/ Count(t)
  <2>1. /\ pc[t] \in {"state_op", "alloc_error", "count"}
        /\ memory' = memory /\ refs' = refs
    BY <1>10 DEF StateOpDone, AllocError, Count, At, pool
  <2>2. CASE Return(t)
    <3>1. /\ pc' = [pc EXCEPT ![t] = pc'[t]] /\ pc'[t] = "idle"
          /\ ptr' = [ptr EXCEPT ![t] = ptr'[t]] /\ ptr'[t] = Null
      BY <2>2, <1>t DEF Return, Enter, Goto, TypeOK
    <3>2. Hand(t)'
      BY <3>1 DEF Hand
    <3>3. QED
      BY <2>1, <3>1, <3>2, <1>a, <1>b
  <2>3. CASE ~Return(t)
    <3>1. pc[t] = "state_op" /\ pc' = [pc EXCEPT ![t] = "count"] /\ ptr' = ptr
      BY <1>10, <2>3, <1>3, DeviceConstants
      DEF StateOpDone, AllocError, Count, Goto, At, Hand
    <3>2. /\ pc' = [pc EXCEPT ![t] = pc'[t]] /\ pc'[t] = "count"
          /\ ptr' = [ptr EXCEPT ![t] = ptr'[t]] /\ ptr'[t] = Null
      BY <3>1, <1>3, <1>t DEF TypeOK, Hand
    <3>3. Hand(t)'
      BY <3>2, DeviceConstants DEF Hand
    <3>4. QED
      BY <2>1, <3>2, <3>3, <1>a, <1>b
  <2>4. QED
    BY <2>2, <2>3
<1>11. QED
  BY <1>6, <1>7, <1>8, <1>9, <1>10

LEMMA CarefulInvStep == LoadInv /\ LoadInv' /\ CarefulInv /\ [Next]_vars => CarefulInv'
<1> SUFFICES ASSUME LoadInv, LoadInv', CarefulInv, [Next]_vars, careful', Backed'
             PROVE  CarefulInv'
  BY DEF CarefulInv
<1>t. TypeOK /\ TypeOK'
  BY DEF LoadInv, OpenInv
<1>a. ASSUME UNCHANGED calls, refs' = {}, memory' = Null, \A t \in Tasks : pc[t] = "idle",
             Backed
      PROVE  CarefulInv'
  <2>1. careful
    BY <1>a DEF calls
  <2>2. \A t \in Tasks : pc'[t] = "idle" /\ ptr'[t] = Null
    BY <1>a, <2>1 DEF calls, CarefulInv, Hand
  <2>3. Alone' /\ \A t \in Tasks : Hand(t)'
    BY <2>2 DEF Alone, Hand
  <2>4. NoOrphan' /\ NoDangling'
    BY <1>a, DeviceConstants DEF NoOrphan, NoDangling
  <2>5. QED
    BY <2>3, <2>4 DEF CarefulInv
<1>b. ASSUME UNCHANGED <<calls, refs, memory, dev>>, Backed
      PROVE  CarefulInv'
  BY <1>b DEF calls, CarefulInv, Alone, Hand, NoOrphan, NoDangling, Granted, At
<1>1. CASE LoadBegin
  <2>1. (\A t \in Tasks : pc[t] = "idle") /\ dev # "live" /\ careful /\ Backed
    BY <1>1, QuietLoad, BackedWhen DEF LoadBegin, calls, LoadInv
  <2>2. NoOrphan
    BY <2>1 DEF CarefulInv
  <2>3. refs' = {}
    <3>1. \A b \in Blocks : ~Granted(b)'
      BY <1>1, <2>1, <2>2 DEF NoOrphan, LoadBegin, pool, Granted
    <3>2. QED
      BY <3>1, <1>t, NoRefs
  <2>4. QED
    BY <1>1, <1>a, <2>1, <2>3 DEF LoadBegin
<1>2. CASE LoadFail
  <2>1. "cdev" \notin registered
    BY <1>2 DEF LoadFail, Backed
  <2>2. (\A t \in Tasks : pc[t] = "idle") /\ careful /\ Backed
    BY <1>2, <2>1, QuietLoad, BackedWhen DEF LoadFail, calls, LoadInv
  <2>3. refs' = {}
    BY <1>2, <2>2, <1>t, LastFree DEF LoadFail
  <2>4. QED
    BY <1>2, <1>a, <2>2, <2>3 DEF LoadFail
<1>3. CASE Exit
  <2>1. (\A t \in Tasks : pc[t] = "idle") /\ careful /\ Backed
    BY <1>3, QuietLoad, BackedWhen DEF Exit, calls, LoadInv, Running
  <2>2. refs' = {}
    BY <1>3, <2>1, <1>t, LastFree DEF Exit
  <2>3. QED
    BY <1>3, <1>a, <2>1, <2>2 DEF Exit
<1>4. CASE LoadStep
  BY <1>4, <1>b, BackedWhen DEF LoadStep, pool, LoadInv, Running
<1>5. ASSUME NEW f \in Files, OpenStep(f)
      PROVE  CarefulInv'
  BY <1>5, <1>b, BackedWhen
  DEF OpenStep, OpenBegin, OpenReject, Release, pool, load, LoadInv, Running
<1>6. ASSUME NEW t \in Tasks, IoctlStep(t)
      PROVE  CarefulInv'
  BY <1>6, <1>t, BeginKeeps, StepKeeps DEF IoctlStep
<1>7. CASE UNCHANGED vars
  BY <1>7, <1>b DEF vars, load, pool, Backed
<1>8. QED
  BY <1>1, <1>2, <1>3, <1>4, <1>5, <1>6, <1>7 DEF Next

LEMMA CarefulInvariant == Spec => [](LoadInv /\ CarefulInv)
BY LoadInvariant, CarefulInvInit, CarefulInvStep, PTL DEF Spec

\* With careful callers no block is lost, through closes, unloads and failed
\* loads, but in a load that fails after cdev_add.
THEOREM NoBlockIsLost == Spec => []NoOrphan
<1>1. CarefulInv => NoOrphan
  BY DEF CarefulInv, NoOrphan
<1>2. QED
  BY <1>1, CarefulInvariant, PTL

\* With careful callers dev->memory points to no block that was given back, but
\* between its put and the assignment, whatever fails.
THEOREM MemoryIsGranted == Spec => []NoDangling
<1>1. LoadInv /\ CarefulInv => NoDangling
  BY BackedWhen, DeviceConstants DEF LoadInv, CarefulInv, NoDangling
<1>2. QED
  BY <1>1, CarefulInvariant, PTL

\* With careful callers an allocation that failed is not counted, whatever fails.
THEOREM SuccessesAreCounted == Spec => CountsSuccesses
<1>1. ASSUME LoadInv, CarefulInv, [Next]_vars, NEW t \in Tasks, careful,
             At(t, "count"), operation_count' # operation_count
      PROVE  ptr[t] # Error
  <2>1. dev = "live" \/ LoadBegin
    BY <1>1 DEF Next, LoadStep, LoadFail, Exit, OpenStep, OpenBegin, OpenReject,
       Release, IoctlStep, StateOp, Alloc, FreeTest, MayCall, StateOpDone,
       AllocStore, AllocTest, AllocError, FreeCall, FreeClear, Count, Running, vars
  <2>2. Backed
    BY <1>1, <2>1, BackedWhen DEF LoadInv, LoadBegin
  <2>3. QED
    BY <1>1, <2>2 DEF CarefulInv, Hand, At
<1>2. LoadInv /\ CarefulInv /\ [Next]_vars =>
        [\A t \in Tasks : careful /\ At(t, "count") /\ operation_count' # operation_count
                             => ptr[t] # Error]_vars
  BY <1>1
<1>3. QED
  BY <1>2, CarefulInvariant, PTL DEF Spec, CountsSuccesses
==============================================================================
