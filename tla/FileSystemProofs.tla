--------------------------- MODULE FileSystemProofs ---------------------------
(****************************************************************************)
(* Proofs about FileSystem, for any number of tasks, names and dentries: a  *)
(* failed mount leaves nothing, and the counters account for the files.     *)
(****************************************************************************)
EXTENDS FileSystem, FiniteSetTheorems, TLAPS

\* A task in a call is in a mounted file system, a task that removes has a dentry in
\* its hands, and a task that creates an inode until it has linked or put it.
CallsMounted ==
  \A t \in Tasks :
    /\ pc[t] # "idle" => stage = "mounted"
    /\ pc[t] \in {"unlink", "delete", "dec_inode", "dec_dentry"} => found[t] \in Dentries
    /\ t \in loose <=> pc[t] = "alloc_dentry"

\* The counters are zero when the file system is about to be mounted.
FreshMount == stage = "mounting" => inode_count = 0 /\ dentry_count = 0 /\ races = 0

Base == TypeOK /\ MountUndone /\ CallsMounted /\ FreshMount

LEMMA BaseInit == Init => Base
<1> SUFFICES ASSUME Init
             PROVE  Base
  OBVIOUS
<1>1. TypeOK
  <2>1. name \in [Dentries -> Names \cup {NoName}]
    BY DEF Init
  <2>2. pc \in [Tasks -> Steps]
    BY DEF Init, Steps
  <2>3. found \in [Tasks -> Dentries \cup {NoDentry}]
    BY DEF Init
  <2>4. /\ stage \in {"unloaded", "mounting", "mounted"}
        /\ registered \in BOOLEAN /\ sb \in {"null", "live"} /\ pinned \in BOOLEAN
    BY DEF Init
  <2>5. inode_count \in Int /\ dentry_count \in Int /\ races \in Nat /\ loose \subseteq Tasks
    BY DEF Init
  <2>6. QED
    BY <2>1, <2>2, <2>3, <2>4, <2>5 DEF TypeOK
<1>2. Files = {}
  BY DEF Init, Files
<1>3. MountUndone /\ CallsMounted /\ FreshMount
  BY <1>2 DEF Init, MountUndone, CallsMounted, FreshMount, At
<1>4. QED
  BY <1>1, <1>3 DEF Base

LEMMA BaseStep == Base /\ [Next]_vars => Base'
<1> SUFFICES ASSUME Base, [Next]_vars
             PROVE  Base'
  OBVIOUS
<1> USE FileConstants DEF Base, TypeOK, MountUndone, CallsMounted, FreshMount, Steps,
        At, Goto, Files, mount, counters
<1>1. CASE Register
  BY <1>1 DEF Register
<1>2. CASE MountFs
  BY <1>2 DEF MountFs
<1>3. CASE MountFails
  BY <1>3 DEF MountFails
<1>4. CASE Exit
  BY <1>4 DEF Exit
<1>5. ASSUME NEW t \in Tasks, NEW n \in Names, Add(t, n)
      PROVE  Base'
  BY <1>5 DEF Add
<1>5a. ASSUME NEW t \in Tasks, NewInode(t) \/ AddFails(t)
       PROVE  Base'
  BY <1>5a DEF NewInode, AddFails
<1>6. ASSUME NEW t \in Tasks, NEW n \in Names, LookUp(t, n)
      PROVE  Base'
  BY <1>6 DEF LookUp
<1>7. ASSUME NEW t \in Tasks, IncInode(t)
      PROVE  Base'
  BY <1>7 DEF IncInode
<1>8. ASSUME NEW t \in Tasks, IncDentry(t)
      PROVE  Base'
  BY <1>8 DEF IncDentry
<1>9. ASSUME NEW t \in Tasks, Unlink(t)
      PROVE  Base'
  BY <1>9 DEF Unlink
<1>10. ASSUME NEW t \in Tasks, UnlinkFails(t)
      PROVE  Base'
  BY <1>10 DEF UnlinkFails
<1>11. ASSUME NEW t \in Tasks, Delete(t)
      PROVE  Base'
  BY <1>11 DEF Delete
<1>12. ASSUME NEW t \in Tasks, DecInode(t)
      PROVE  Base'
  BY <1>12 DEF DecInode
<1>13. ASSUME NEW t \in Tasks, DecDentry(t)
      PROVE  Base'
  BY <1>13 DEF DecDentry
<1>14. CASE UNCHANGED vars
  BY <1>14 DEF vars
<1>15. QED
  BY <1>1, <1>2, <1>3, <1>4, <1>5, <1>5a, <1>6, <1>7, <1>8, <1>9, <1>10, <1>11, <1>12,
     <1>13, <1>14
  DEF Next, CallStep

LEMMA BaseInvariant == Spec => []Base
BY BaseInit, BaseStep, PTL DEF Spec

\* Every variable has its type.
THEOREM FileTypes == Spec => []TypeOK
<1>1. Base => TypeOK
  BY DEF Base
<1>2. QED
  BY <1>1, BaseInvariant, PTL

\* A load that could not mount the file system leaves nothing registered.
THEOREM MountIsUndone == Spec => []MountUndone
<1>1. Base => MountUndone
  BY DEF Base
<1>2. QED
  BY <1>1, BaseInvariant, PTL

(****************************************************************************)
(* The counters                                                             *)
(****************************************************************************)
\* One task that goes to another step changes the numbers of tasks at a set of
\* steps as it leaves it, enters it, or neither.
LEMMA CountMoves ==
  ASSUME pc \in [Tasks -> Steps], NEW t \in Tasks, NEW step \in Steps, Goto(t, step),
         NEW S
  PROVE  /\ Count(S) \in Nat /\ Count(S)' \in Nat
         /\ pc[t] \in S /\ step \in S => Count(S)' = Count(S)
         /\ pc[t] \notin S /\ step \notin S => Count(S)' = Count(S)
         /\ pc[t] \in S /\ step \notin S => Count(S)' = Count(S) - 1
         /\ pc[t] \notin S /\ step \in S => Count(S)' = Count(S) + 1
<1> DEFINE A == {u \in Tasks : pc[u] \in S}
           B == {u \in Tasks : pc'[u] \in S}
<1>1. pc'[t] = step /\ \A u \in Tasks \ {t} : pc'[u] = pc[u]
  BY DEF Goto
<1>2. Count(S) = Cardinality(A) /\ Count(S)' = Cardinality(B)
  BY DEF Count
<1>3. IsFiniteSet(A) /\ IsFiniteSet(B)
  <2>1. A \subseteq Tasks /\ B \subseteq Tasks
    OBVIOUS
  <2>2. QED
    BY <2>1, FileConstants, FS_Subset
<1>4. /\ pc[t] \in S /\ step \in S => B = A
      /\ pc[t] \notin S /\ step \notin S => B = A
      /\ pc[t] \in S /\ step \notin S => B = A \ {t} /\ t \in A
      /\ pc[t] \notin S /\ step \in S => B = A \cup {t} /\ t \notin A
  BY <1>1
<1> HIDE DEF A, B
<1>5. Cardinality(A) \in Nat /\ Cardinality(B) \in Nat
  BY <1>3, FS_CardinalityType
<1>6. Cardinality(A \ {t}) = IF t \in A THEN Cardinality(A) - 1 ELSE Cardinality(A)
  BY <1>3, FS_RemoveElement
<1>7. Cardinality(A \cup {t}) = IF t \in A THEN Cardinality(A) ELSE Cardinality(A) + 1
  BY <1>3, FS_AddElement
<1>8. QED
  BY <1>2, <1>4, <1>5, <1>6, <1>7

LEMMA FilesFinite == IsFiniteSet(Files) /\ Cardinality(Files) \in Nat
<1>1. Files \subseteq Dentries
  BY DEF Files
<1>2. IsFiniteSet(Files)
  BY <1>1, FileConstants, FS_Subset
<1>3. QED
  BY <1>2, FS_CardinalityType

LEMMA FileAdded ==
  ASSUME NEW d \in Dentries, NEW n \in Names, name \in [Dentries -> Names \cup {NoName}],
         name' = [name EXCEPT ![d] = n], d \notin Files
  PROVE  Cardinality(Files)' = Cardinality(Files) + 1
<1>1. Files' = Files \cup {d}
  BY FileConstants DEF Files
<1>2. QED
  BY <1>1, FilesFinite, FS_AddElement

LEMMA FileDeleted ==
  ASSUME NEW d \in Dentries, name \in [Dentries -> Names \cup {NoName}],
         name' = [name EXCEPT ![d] = NoName]
  PROVE  Cardinality(Files)' =
           IF name[d] = NoName THEN Cardinality(Files) ELSE Cardinality(Files) - 1
<1>1. Files' = Files \ {d} /\ (d \in Files <=> name[d] # NoName)
  BY DEF Files
<1>2. QED
  BY <1>1, FilesFinite, FS_RemoveElement

LEMMA CountType ==
  ASSUME NEW S
  PROVE  Count(S) \in Nat
<1>1. {t \in Tasks : pc[t] \in S} \subseteq Tasks
  OBVIOUS
<1>2. QED
  BY <1>1, FileConstants, FS_Subset, FS_CardinalityType DEF Count

\* The four numbers of tasks in Accounting, named.
DecI == Count({"dec_inode"})
IncI == Count({"inc_inode"})
DecD == Count({"dec_inode", "dec_dentry"})
IncD == Count({"inc_inode", "inc_dentry"})

\* What Accounting says of a moment at which calls may run.
Counters ==
  /\ inode_count = Cardinality(Files) - races + DecI - IncI
  /\ dentry_count = Cardinality(Files) - races + DecD - IncD

LEMMA AccountingStep == Base /\ Base' /\ Accounting /\ [Next]_vars => Accounting'
<1> SUFFICES ASSUME Base, Base', Accounting, [Next]_vars, stage' = "mounted"
             PROVE  Counters'
  BY DEF Accounting, Counters, DecI, IncI, DecD, IncD
<1>a. stage = "mounted" => Counters
  BY DEF Accounting, Counters, DecI, IncI, DecD, IncD
<1>t. TypeOK /\ CallsMounted /\ MountUndone /\ FreshMount
  BY DEF Base
<1>n. inode_count \in Int /\ dentry_count \in Int /\ races \in Int /\ Cardinality(Files) \in Nat
  BY <1>t, FilesFinite DEF TypeOK
\* How a task that goes to another step moves the four numbers.
<1>m. ASSUME NEW t \in Tasks, NEW step \in Steps, Goto(t, step), NEW S
      PROVE  /\ Count(S) \in Nat /\ Count(S)' \in Nat
             /\ pc[t] \in S /\ step \in S => Count(S)' = Count(S)
             /\ pc[t] \notin S /\ step \notin S => Count(S)' = Count(S)
             /\ pc[t] \in S /\ step \notin S => Count(S)' = Count(S) - 1
             /\ pc[t] \notin S /\ step \in S => Count(S)' = Count(S) + 1
  BY <1>m, <1>t, CountMoves DEF TypeOK
<1>c. DecI \in Nat /\ IncI \in Nat /\ DecD \in Nat /\ IncD \in Nat
  BY CountType DEF DecI, IncI, DecD, IncD
<1>f. ASSUME UNCHANGED name
      PROVE  Cardinality(Files)' = Cardinality(Files)
  BY <1>f DEF Files
<1>1. CASE Register \/ MountFails \/ Exit
  BY <1>1 DEF Register, MountFails, Exit
<1>2. CASE MountFs
  <2>1. Files' = {} /\ \A t \in Tasks : pc'[t] = "idle"
    BY <1>2, <1>t DEF MountFs, MountUndone, Files, At
  <2>2. Cardinality(Files') = 0
    BY <2>1, FS_EmptySet
  <2>3. DecI' = 0 /\ IncI' = 0 /\ DecD' = 0 /\ IncD' = 0
    <3>1. ASSUME NEW S, "idle" \notin S
          PROVE  Count(S)' = 0
      <4>1. {t \in Tasks : pc'[t] \in S} = {}
        BY <2>1, <3>1
      <4>2. QED
        BY <4>1, FS_EmptySet DEF Count
    <3>2. QED
      BY <3>1 DEF DecI, IncI, DecD, IncD
  <2>4. inode_count' = 0 /\ dentry_count' = 0 /\ races' = 0
    BY <1>2, <1>t DEF MountFs, FreshMount, counters
  <2>5. QED
    BY <2>2, <2>3, <2>4 DEF Counters
<1>3. ASSUME NEW t \in Tasks, NEW n \in Names, Add(t, n)
      PROVE  Counters'
  <2>1. PICK d \in Dentries : Free(d) /\ name' = [name EXCEPT ![d] = n]
    BY <1>3 DEF Add
  <2>2. Cardinality(Files)' = Cardinality(Files) + 1
    BY <2>1, <1>t, FileAdded DEF Free, TypeOK
  <2>3. Goto(t, "inc_inode") /\ "inc_inode" \in Steps /\ pc[t] = "alloc_dentry"
    BY <1>3 DEF Add, At, Steps
  <2>4. DecI' = DecI /\ IncI' = IncI + 1 /\ DecD' = DecD /\ IncD' = IncD + 1
    BY <2>3, <1>m DEF DecI, IncI, DecD, IncD
  <2>5. UNCHANGED <<inode_count, dentry_count, races>> /\ stage = "mounted"
    BY <1>3, <2>3, <1>t DEF Add, counters, CallsMounted
  <2>6. QED
    BY <2>2, <2>4, <2>5, <1>a, <1>n, <1>c DEF Counters
<1>3a. ASSUME NEW t \in Tasks, NewInode(t) \/ AddFails(t)
       PROVE  Counters'
  <2>1. \E step \in Steps : Goto(t, step) /\ step \in {"idle", "alloc_dentry"}
    BY <1>3a DEF NewInode, AddFails, Steps
  <2>2. pc[t] \in {"idle", "alloc_dentry"} /\ stage = "mounted"
    BY <1>3a, <1>t DEF NewInode, AddFails, At, CallsMounted
  <2>3. DecI' = DecI /\ IncI' = IncI /\ DecD' = DecD /\ IncD' = IncD
    BY <2>1, <2>2, <1>m DEF DecI, IncI, DecD, IncD
  <2>4. UNCHANGED <<inode_count, dentry_count, races, name>>
    BY <1>3a DEF NewInode, AddFails, counters
  <2>5. QED
    BY <2>2, <2>3, <2>4, <1>a, <1>f DEF Counters
<1>4. ASSUME NEW t \in Tasks, NEW n \in Names, LookUp(t, n)
      PROVE  Counters'
  <2>1. Goto(t, "unlink") /\ "unlink" \in Steps /\ pc[t] = "idle"
    BY <1>4 DEF LookUp, At, Steps
  <2>2. DecI' = DecI /\ IncI' = IncI /\ DecD' = DecD /\ IncD' = IncD
    BY <2>1, <1>m DEF DecI, IncI, DecD, IncD
  <2>3. UNCHANGED <<inode_count, dentry_count, races, name>> /\ stage = "mounted"
    BY <1>4 DEF LookUp, counters
  <2>4. QED
    BY <2>2, <2>3, <1>a, <1>f DEF Counters
<1>5. ASSUME NEW t \in Tasks, IncInode(t)
      PROVE  Counters'
  <2>1. Goto(t, "inc_dentry") /\ "inc_dentry" \in Steps /\ pc[t] = "inc_inode"
    BY <1>5 DEF IncInode, At, Steps
  <2>2. DecI' = DecI /\ IncI' = IncI - 1 /\ DecD' = DecD /\ IncD' = IncD
    BY <2>1, <1>m DEF DecI, IncI, DecD, IncD
  <2>3. /\ inode_count' = inode_count + 1
        /\ UNCHANGED <<dentry_count, races, name>> /\ stage = "mounted"
    BY <1>5, <2>1, <1>t DEF IncInode, CallsMounted
  <2>4. QED
    BY <2>2, <2>3, <1>a, <1>f, <1>n, <1>c DEF Counters
<1>6. ASSUME NEW t \in Tasks, IncDentry(t)
      PROVE  Counters'
  <2>1. Goto(t, "idle") /\ "idle" \in Steps /\ pc[t] = "inc_dentry"
    BY <1>6 DEF IncDentry, At, Steps
  <2>2. DecI' = DecI /\ IncI' = IncI /\ DecD' = DecD /\ IncD' = IncD - 1
    BY <2>1, <1>m DEF DecI, IncI, DecD, IncD
  <2>3. /\ dentry_count' = dentry_count + 1
        /\ UNCHANGED <<inode_count, races, name>> /\ stage = "mounted"
    BY <1>6, <2>1, <1>t DEF IncDentry, CallsMounted
  <2>4. QED
    BY <2>2, <2>3, <1>a, <1>f, <1>n, <1>c DEF Counters
<1>7. ASSUME NEW t \in Tasks, Unlink(t) \/ UnlinkFails(t)
      PROVE  Counters'
  <2>1. /\ Goto(t, "delete") \/ Goto(t, "idle")
        /\ "delete" \in Steps /\ "idle" \in Steps /\ pc[t] = "unlink"
    BY <1>7 DEF Unlink, UnlinkFails, At, Steps
  <2>2. DecI' = DecI /\ IncI' = IncI /\ DecD' = DecD /\ IncD' = IncD
    BY <2>1, <1>m DEF DecI, IncI, DecD, IncD
  <2>3. UNCHANGED <<inode_count, dentry_count, races, name>> /\ stage = "mounted"
    BY <1>7, <2>1, <1>t DEF Unlink, UnlinkFails, counters, CallsMounted
  <2>4. QED
    BY <2>2, <2>3, <1>a, <1>f DEF Counters
<1>8. ASSUME NEW t \in Tasks, Delete(t)
      PROVE  Counters'
  <2>1. Goto(t, "dec_inode") /\ "dec_inode" \in Steps /\ pc[t] = "delete"
    BY <1>8 DEF Delete, At, Steps
  <2>2. DecI' = DecI + 1 /\ IncI' = IncI /\ DecD' = DecD + 1 /\ IncD' = IncD
    BY <2>1, <1>m DEF DecI, IncI, DecD, IncD
  <2>3. UNCHANGED <<inode_count, dentry_count>> /\ stage = "mounted"
    BY <1>8, <2>1, <1>t DEF Delete, counters, CallsMounted
  <2>4. Cardinality(Files)' - races' = Cardinality(Files) - races - 1
    <3>1. found[t] \in Dentries
      BY <2>1, <1>t DEF CallsMounted
    <3>2. Cardinality(Files)' = IF name[found[t]] = NoName THEN Cardinality(Files)
                                ELSE Cardinality(Files) - 1
      BY <1>8, <3>1, <1>t, FileDeleted DEF Delete, TypeOK
    <3>3. races' = IF name[found[t]] = NoName THEN races + 1 ELSE races
      BY <1>8 DEF Delete
    <3>4. QED
      BY <3>2, <3>3, <1>n
  <2>5. QED
    BY <2>2, <2>3, <2>4, <1>a, <1>n, <1>c DEF Counters
<1>9. ASSUME NEW t \in Tasks, DecInode(t)
      PROVE  Counters'
  <2>1. Goto(t, "dec_dentry") /\ "dec_dentry" \in Steps /\ pc[t] = "dec_inode"
    BY <1>9 DEF DecInode, At, Steps
  <2>2. DecI' = DecI - 1 /\ IncI' = IncI /\ DecD' = DecD /\ IncD' = IncD
    BY <2>1, <1>m DEF DecI, IncI, DecD, IncD
  <2>3. /\ inode_count' = inode_count - 1
        /\ UNCHANGED <<dentry_count, races, name>> /\ stage = "mounted"
    BY <1>9, <2>1, <1>t DEF DecInode, CallsMounted
  <2>4. QED
    BY <2>2, <2>3, <1>a, <1>f, <1>n, <1>c DEF Counters
<1>10. ASSUME NEW t \in Tasks, DecDentry(t)
      PROVE  Counters'
  <2>1. Goto(t, "idle") /\ "idle" \in Steps /\ pc[t] = "dec_dentry"
    BY <1>10 DEF DecDentry, At, Steps
  <2>2. DecI' = DecI /\ IncI' = IncI /\ DecD' = DecD - 1 /\ IncD' = IncD
    BY <2>1, <1>m DEF DecI, IncI, DecD, IncD
  <2>3. /\ dentry_count' = dentry_count - 1
        /\ UNCHANGED <<inode_count, races, name>> /\ stage = "mounted"
    BY <1>10, <2>1, <1>t DEF DecDentry, CallsMounted
  <2>4. QED
    BY <2>2, <2>3, <1>a, <1>f, <1>n, <1>c DEF Counters
<1>11. CASE UNCHANGED vars
  <2>1. UNCHANGED <<stage, name, inode_count, dentry_count, pc, races>>
    BY <1>11 DEF vars, mount, counters
  <2>2. QED
    BY <2>1, <1>a DEF Counters, Files, DecI, IncI, DecD, IncD, Count
<1>12. QED
  BY <1>1, <1>2, <1>3, <1>3a, <1>4, <1>5, <1>6, <1>7, <1>8, <1>9, <1>10, <1>11
  DEF Next, CallStep

\* The counters of files follow the directory exactly, but for the calls that
\* have yet to count and for double unlinks.
THEOREM CountersAreExact == Spec => []Accounting
<1>1. Init => Accounting
  BY DEF Init, Accounting
<1>2. QED
  BY <1>1, BaseInvariant, AccountingStep, PTL DEF Spec
==============================================================================
