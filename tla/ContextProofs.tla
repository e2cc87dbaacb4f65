---------------------------- MODULE ContextProofs ----------------------------
(****************************************************************************)
(* Proofs about the two modules that keep reference counted contexts, for   *)
(* any number of tasks and contexts.  In both every reference is counted    *)
(* and none is to a freed context.  In SecurityContext the check of the     *)
(* policy, which reads level and flags apart, denies and grants for a       *)
(* reason; in PerformanceMonitor the statistics agree with each other, and  *)
(* a duration lies within the sampling it measures.                         *)
(****************************************************************************)
EXTENDS SecurityContext, PerformanceMonitor, FiniteSetTheorems, TLAPS

(****************************************************************************)
(* References                                                               *)
(****************************************************************************)
\* There is a global context while the module is loaded; before and after, no
\* task holds any.
Published ==
  /\ loaded => global_context # NoContext /\ leaving = NoContext
  /\ ~loaded => global_context = NoContext /\ \A t \in Tasks : held[t] = {}

RefInv == RefsOK /\ RefsCounted /\ NoDangling /\ Published

LEMMA HoldersFinite ==
  ASSUME NEW c
  PROVE  IsFiniteSet(Holders(c)) /\ Cardinality(Holders(c)) \in Nat
<1>1. Holders(c) \subseteq Tasks
  BY DEF Holders
<1>2. QED
  BY <1>1, ContextConstants, FS_Subset, FS_CardinalityType

\* A task that takes a reference is one more holder, ...
LEMMA HolderAdded ==
  ASSUME RefsOK, NEW t \in Tasks, NEW c \in Contexts, Hold(t, c), c \notin held[t]
  PROVE  /\ Cardinality(Holders(c))' = Cardinality(Holders(c)) + 1
         /\ \A d : d # c => Holders(d)' = Holders(d)
<1>1. Holders(c)' = Holders(c) \cup {t} /\ t \notin Holders(c)
  BY DEF Holders, Hold, RefsOK
<1>2. \A d : d # c => Holders(d)' = Holders(d)
  BY DEF Holders, Hold, RefsOK
<1>3. QED
  BY <1>1, <1>2, HoldersFinite, FS_AddElement

\* ... and one that drops its reference is one less.
LEMMA HolderRemoved ==
  ASSUME RefsOK, NEW t \in Tasks, NEW c \in Contexts, c \in held[t],
         held' = [held EXCEPT ![t] = @ \ {c}]
  PROVE  /\ Cardinality(Holders(c))' = Cardinality(Holders(c)) - 1
         /\ t \notin Holders(c)' /\ Holders(c)' \subseteq Holders(c)
         /\ Cardinality(Holders(c))' = 0 => Holders(c)' = {}
         /\ \A d : d # c => Holders(d)' = Holders(d)
<1>1. Holders(c)' = Holders(c) \ {t} /\ t \in Holders(c)
  BY DEF Holders, RefsOK
<1>2. \A d : d # c => Holders(d)' = Holders(d)
  BY DEF Holders, RefsOK
<1>3. Cardinality(Holders(c) \ {t}) = Cardinality(Holders(c)) - 1
  BY <1>1, HoldersFinite, FS_RemoveElement
<1>4. IsFiniteSet(Holders(c) \ {t})
  BY HoldersFinite, FS_Subset
<1>5. QED
  BY <1>1, <1>2, <1>3, <1>4, FS_EmptySet

LEMMA RefInvInit == RefsInit => RefInv
<1> SUFFICES ASSUME RefsInit
             PROVE  RefInv
  OBVIOUS
<1>1. RefsOK
  BY DEF RefsInit, RefsOK
<1>2. QED
  BY <1>1 DEF RefsInit, RefInv, RefsCounted, NoDangling, Published

LEMMA PublishKeeps ==
  ASSUME RefInv, NEW c \in Contexts, Publish(c)
  PROVE  RefInv'
<1> USE ContextConstants DEF RefInv, Publish
<1>1. RefsOK'
  BY DEF RefsOK
<1>2. NoDangling' /\ Published'
  BY DEF RefsOK, NoDangling, Published
<1>3. \A d : Holders(d)' = {}
  BY DEF Published, Holders
<1>4. ASSUME NEW d \in live'
      PROVE  /\ ref_count'[d] = Cardinality(Holders(d))'
                                 + (IF d \in {global_context', leaving'} THEN 1 ELSE 0)
             /\ ref_count'[d] > 0
  <2>1. Cardinality(Holders(d)') = 0
    BY <1>3, FS_EmptySet
  <2>2. CASE d = c
    BY <2>1, <2>2 DEF RefsOK
  <2>3. CASE d # c
    <3>1. d \in live /\ Holders(d) = {} /\ d \notin {global_context, leaving}
      BY <2>3 DEF Published, Holders, RefsOK
    <3>2. Cardinality(Holders(d)) = 0
      BY <3>1, FS_EmptySet
    <3>3. QED
      BY <3>1, <3>2 DEF RefsCounted
  <2>4. QED
    BY <2>2, <2>3
<1>5. QED
  BY <1>1, <1>2, <1>4 DEF RefsCounted

LEMMA ExitKeeps == RefInv /\ (Unpublish \/ Release) => RefInv'
<1> SUFFICES ASSUME RefInv, Unpublish \/ Release
             PROVE  RefInv'
  OBVIOUS
<1> USE ContextConstants DEF RefInv, Unpublish, Release
<1>1. RefsOK' /\ NoDangling' /\ Published'
  <2>1. RefsOK'
    BY DEF RefsOK
  <2>2. CASE Unpublish
    <3>1. /\ ~loaded' /\ global_context' = NoContext /\ leaving' = global_context
          /\ live' = live /\ held' = held /\ \A t \in Tasks : held[t] = {}
      BY <2>2
    <3>2. {global_context, leaving} \ {NoContext} \subseteq live
      BY DEF NoDangling
    <3>3. QED
      BY <2>1, <3>1, <3>2 DEF NoDangling, Published
  <2>3. CASE Release
    <3>1. /\ ~loaded /\ global_context = NoContext /\ \A t \in Tasks : held[t] = {}
          /\ UNCHANGED <<loaded, global_context, held>> /\ leaving' = NoContext
      BY <2>3 DEF Published
    <3>2. QED
      BY <2>1, <3>1 DEF NoDangling, Published
  <2>4. QED
    BY <2>2, <2>3
<1>2. \A d : Holders(d)' = Holders(d)
  BY DEF Holders
<1>3. ASSUME NEW c \in live'
      PROVE  /\ c \in live /\ ref_count'[c] = ref_count[c]
             /\ c \in {global_context', leaving'} <=> c \in {global_context, leaving}
  <2>1. c \in live /\ c # NoContext /\ ref_count'[c] = ref_count[c]
    BY <1>3 DEF RefsOK
  <2>2. CASE Unpublish
    <3>1. leaving = NoContext /\ leaving' = global_context /\ global_context' = NoContext
      BY <2>2 DEF Published
    <3>2. QED
      BY <2>1, <3>1
  <2>3. CASE Release
    <3>1. /\ global_context = NoContext /\ global_context' = NoContext
          /\ leaving' = NoContext /\ c # leaving
      BY <1>3, <2>3 DEF Published
    <3>2. QED
      BY <2>1, <3>1
  <2>4. QED
    BY <2>2, <2>3
<1>4. RefsCounted'
  BY <1>2, <1>3 DEF RefsCounted
<1>5. QED
  BY <1>1, <1>4

LEMMA CreateKeeps ==
  ASSUME RefInv, NEW t \in Tasks, NEW c \in Contexts, Create(t, c)
  PROVE  RefInv'
<1> USE ContextConstants DEF RefInv, Create
<1>1. c \notin held[t] /\ c \notin {global_context, leaving}
  BY DEF NoDangling, RefsOK
<1>2. /\ Cardinality(Holders(c))' = Cardinality(Holders(c)) + 1
      /\ \A d : d # c => Holders(d)' = Holders(d)
  BY <1>1, HolderAdded
<1>3. Cardinality(Holders(c)) = 0
  <2>1. Holders(c) = {}
    BY DEF NoDangling, Holders
  <2>2. QED
    BY <2>1, FS_EmptySet
<1>4. RefsOK'
  BY DEF RefsOK, Hold
<1>5. NoDangling' /\ Published'
  BY DEF NoDangling, Published, Hold, RefsOK
<1>6. RefsCounted'
  BY <1>1, <1>2, <1>3 DEF RefsCounted, RefsOK
<1>7. QED
  BY <1>4, <1>5, <1>6

LEMMA GetKeeps ==
  ASSUME RefInv, NEW t \in Tasks, Get(t)
  PROVE  RefInv'
<1> USE ContextConstants DEF RefInv, Get
<1>1. global_context \in live /\ global_context \in Contexts /\ loaded
  BY DEF NoDangling, RefsOK, Published
<1>2. /\ Cardinality(Holders(global_context))' = Cardinality(Holders(global_context)) + 1
      /\ \A d : d # global_context => Holders(d)' = Holders(d)
  <2>1. PICK c : c = global_context
    OBVIOUS
  <2>2. /\ Cardinality(Holders(c))' = Cardinality(Holders(c)) + 1
        /\ \A d : d # c => Holders(d)' = Holders(d)
    BY <1>1, <2>1, HolderAdded
  <2>3. QED
    BY <2>1, <2>2
<1>3. RefsOK'
  BY <1>1 DEF RefsOK, Hold
<1>4. NoDangling' /\ Published'
  BY <1>1 DEF NoDangling, Published, Hold, RefsOK
<1>5. RefsCounted'
  BY <1>1, <1>2, HoldersFinite DEF RefsCounted, RefsOK
<1>6. QED
  BY <1>3, <1>4, <1>5

LEMMA PutKeeps ==
  ASSUME RefInv, NEW t \in Tasks, NEW c \in Contexts, Put(t, c)
  PROVE  RefInv'
<1> USE ContextConstants DEF RefInv, Put
<1>1. /\ c \in live /\ loaded /\ leaving = NoContext
      /\ ref_count[c] \in Nat /\ ref_count[c] > 0 /\ ref_count'[c] = ref_count[c] - 1
  BY DEF NoDangling, RefsOK, RefsCounted, Published
<1>2. /\ Cardinality(Holders(c))' = Cardinality(Holders(c)) - 1
      /\ Holders(c)' \subseteq Holders(c)
      /\ Cardinality(Holders(c))' = 0 => Holders(c)' = {}
      /\ \A d : d # c => Holders(d)' = Holders(d)
  BY HolderRemoved
<1>3. Cardinality(Holders(c)) \in Nat /\ Cardinality(Holders(c))' \in Nat
  <2>1. IsFiniteSet(Holders(c)')
    BY <1>2, HoldersFinite, FS_Subset
  <2>2. QED
    BY <2>1, HoldersFinite, FS_CardinalityType
<1>4. ref_count[c] = Cardinality(Holders(c)) + (IF c = global_context THEN 1 ELSE 0)
  BY <1>1 DEF RefsCounted, RefsOK
<1>5. /\ ref_count'[c] = Cardinality(Holders(c))' + (IF c = global_context THEN 1 ELSE 0)
      /\ ref_count'[c] = 0 => c # global_context /\ Holders(c)' = {}
  BY <1>1, <1>2, <1>3, <1>4
<1>6. RefsOK'
  BY <1>1 DEF RefsOK
<1>7. Published'
  BY <1>1 DEF Published
<1>8. NoDangling'
  <2>1. \A u \in Tasks : held'[u] \subseteq held[u] /\ held[u] \subseteq live
    BY DEF NoDangling, RefsOK
  <2>2. ref_count'[c] = 0 => \A u \in Tasks : c \notin held'[u]
    BY <1>5 DEF Holders
  <2>3. QED
    BY <2>1, <2>2, <1>1, <1>5 DEF NoDangling
<1>9. RefsCounted'
  <2>1. ASSUME NEW d \in live'
        PROVE  /\ ref_count'[d] = Cardinality(Holders(d))'
                                   + (IF d \in {global_context', leaving'} THEN 1 ELSE 0)
               /\ ref_count'[d] > 0
    <3>1. CASE d = c
      BY <3>1, <1>1, <1>5 DEF RefsOK
    <3>2. CASE d # c
      BY <3>2, <1>2 DEF RefsCounted, RefsOK
    <3>3. QED
      BY <3>1, <3>2
  <2>2. QED
    BY <2>1 DEF RefsCounted
<1>10. QED
  BY <1>6, <1>7, <1>8, <1>9

LEMMA RefInvStep == RefInv /\ [Next]_vars => RefInv'
<1> SUFFICES ASSUME RefInv, [Next]_vars
             PROVE  RefInv'
  OBVIOUS
<1>1. ASSUME UNCHANGED refVars
      PROVE  RefInv'
  BY <1>1 DEF refVars, RefInv, RefsOK, RefsCounted, NoDangling, Published, Holders
<1>2. QED
  BY <1>1, PublishKeeps, ExitKeeps, CreateKeeps, GetKeeps, PutKeeps
  DEF Next, vars, Load, Exit, Operation, CreateContext, GetContext, PutContext,
      SetLevel, SetFlags, CheckLevel, CheckFlags

LEMMA RefInvariant == Spec => []RefInv
<1>1. Init => RefInv
  BY RefInvInit DEF Init
<1>2. QED
  BY <1>1, RefInvStep, PTL DEF Spec

\* Every context has as many references as its count says, and one that nobody
\* can put has been freed.
THEOREM EveryReferenceCounts == Spec => []RefsCounted
<1>1. RefInv => RefsCounted
  BY DEF RefInv
<1>2. QED
  BY <1>1, RefInvariant, PTL

\* No task holds, or can get, a context that was freed.
THEOREM NoFreedContext == Spec => []NoDangling
<1>1. RefInv => NoDangling
  BY DEF RefInv
<1>2. QED
  BY <1>1, RefInvariant, PTL

(****************************************************************************)
(* The check of the policy                                                  *)
(****************************************************************************)
ValuesOK ==
  /\ security_level \in [Contexts -> 0 .. 4]
  /\ flags \in [Contexts -> SUBSET Flags]
  /\ checking \in [Tasks -> Contexts \cup {NoContext}]
  /\ met \in [Tasks -> SUBSET (BOOLEAN \X BOOLEAN)]
  /\ verdict \in [Tasks -> {"none", "granted", "denied"}]

\* Whether c meets the policy now.
Now(c) == Meets(security_level[c], flags[c])

\* A check in progress has seen the context as it is now, and a level that was
\* high enough.
Half(t) ==
  checking[t] # NoContext =>
    /\ checking[t] \in held[t] /\ verdict[t] = "none"
    /\ Now(checking[t]) \in met[t]
    /\ \E m \in met[t] : m[1]

Denied(t) == verdict[t] = "denied" => \E m \in met[t] : m # <<TRUE, TRUE>>

Granted(t) ==
  /\ verdict[t] = "granted"
  /\ (\A m \in met[t] : m[1]) \/ (\A m \in met[t] : m[2])
  => <<TRUE, TRUE>> \in met[t]

PolicyInv == ValuesOK /\ \A t \in Tasks : Half(t) /\ Denied(t) /\ Granted(t)

\* A pair that says whether level and flags are enough.
LEMMA PairIsTrue ==
  ASSUME NEW p \in BOOLEAN \X BOOLEAN
  PROVE  p = <<TRUE, TRUE>> <=> p[1] /\ p[2]
<1>1. p = <<p[1], p[2]>> /\ p[1] \in BOOLEAN /\ p[2] \in BOOLEAN
  OBVIOUS
<1>2. ASSUME p[1], p[2]
      PROVE  p = <<TRUE, TRUE>>
  <2>1. p[1] = TRUE /\ p[2] = TRUE
    BY <1>1, <1>2, Zenon
  <2>2. QED
    BY <2>1, <1>1
<1>3. ASSUME p = <<TRUE, TRUE>>
      PROVE  p[1] /\ p[2]
  <2>1. p[1] = TRUE /\ p[2] = TRUE
    BY <1>3
  <2>2. QED
    BY <2>1, Zenon
<1>4. QED
  BY <1>2, <1>3, Zenon

LEMMA MeetsType ==
  ASSUME NEW l \in Int, NEW f
  PROVE  /\ Meets(l, f) \in BOOLEAN \X BOOLEAN
         /\ Meets(l, f)[1] <=> l >= MinLevel
         /\ Meets(l, f)[2] <=> Required \subseteq f
<1>1. PICK a : a = (l >= MinLevel)
  BY Zenon
<1>2. PICK b : b = (Required \subseteq f)
  BY Zenon
<1>3. Meets(l, f) = <<a, b>>
  BY <1>1, <1>2, Zenon DEF Meets
<1>4. (l >= MinLevel) \in BOOLEAN
  BY SecurityConstants
<1>5. (Required \subseteq f) \in BOOLEAN
  BY Zenon
<1>6. a \in BOOLEAN /\ b \in BOOLEAN
  BY <1>1, <1>2, <1>4, <1>5, Zenon
<1>7. Meets(l, f) \in BOOLEAN \X BOOLEAN /\ Meets(l, f)[1] = a /\ Meets(l, f)[2] = b
  BY <1>3, <1>6
<1>8. QED
  BY <1>1, <1>2, <1>7, Zenon

\* A task whose checks an action leaves alone keeps what is said of it, ...
LEMMA Untouched ==
  ASSUME NEW t \in Tasks, Half(t), Denied(t), Granted(t),
         checking'[t] = checking[t], met'[t] = met[t], verdict'[t] = verdict[t],
         checking[t] # NoContext =>
           /\ checking[t] \in held'[t]
           /\ UNCHANGED <<security_level[checking[t]], flags[checking[t]]>>
  PROVE  Half(t)' /\ Denied(t)' /\ Granted(t)'
<1>1. Half(t)'
  <2>1. checking[t] # NoContext => Now(checking[t])' = Now(checking[t])
    BY DEF Now, Meets
  <2>2. QED
    BY <2>1 DEF Half
<1>2. Denied(t)'
  BY DEF Denied
<1>3. Granted(t)'
  <2>1. SUFFICES ASSUME verdict[t] = "granted",
                        (\A m \in met[t] : m[1]) \/ (\A m \in met[t] : m[2])
                 PROVE  <<TRUE, TRUE>> \in met[t]
    BY Zenon DEF Granted
  <2>2. QED
    BY <2>1, Zenon DEF Granted
<1>4. QED
  BY <1>1, <1>2, <1>3

\* ... and so does a check whose context is given new values.
LEMMA SeenKeeps ==
  ASSUME PolicyInv, NEW c \in Contexts, NEW l \in 0 .. 4, NEW f \in SUBSET Flags,
         SetValues(c, l, f), Seen(c, l, f), UNCHANGED <<held, checking, verdict>>
  PROVE  PolicyInv'
<1> USE DEF PolicyInv
<1>1. ASSUME NEW t \in Tasks
      PROVE  met'[t] = IF checking[t] = c THEN met[t] \cup {Meets(l, f)} ELSE met[t]
  BY DEF Seen
<1>2. ValuesOK'
  <2>1. security_level' \in [Contexts -> 0 .. 4] /\ flags' \in [Contexts -> SUBSET Flags]
    BY DEF ValuesOK, SetValues
  <2>2. Meets(l, f) \in BOOLEAN \X BOOLEAN
    BY MeetsType
  <2>3. met' \in [Tasks -> SUBSET (BOOLEAN \X BOOLEAN)]
    BY <2>2 DEF ValuesOK, Seen
  <2>4. QED
    BY <2>1, <2>3 DEF ValuesOK
<1>3. security_level'[c] = l /\ flags'[c] = f
  BY DEF ValuesOK, SetValues
<1>4. ASSUME NEW t \in Tasks
      PROVE  Half(t)' /\ Denied(t)' /\ Granted(t)'
  <2>1. CASE checking[t] = c
    <3>1. met'[t] = met[t] \cup {Meets(l, f)} /\ checking'[t] = c
      BY <2>1, <1>1
    <3>2. CASE c = NoContext
      BY <3>2, ContextConstants
    <3>3. CASE c # NoContext
      <4>1. verdict'[t] = "none" /\ c \in held'[t] /\ \E m \in met[t] : m[1]
        BY <2>1, <3>3 DEF Half
      <4>2. Now(c)' = Meets(l, f)
        BY <1>3 DEF Now, Meets
      <4>3. QED
        BY <3>1, <4>1, <4>2 DEF Half, Denied, Granted
    <3>4. QED
      BY <3>2, <3>3
  <2>2. CASE checking[t] # c
    <3>1. met'[t] = met[t]
      BY <2>2, <1>1
    <3>2. checking[t] # NoContext =>
            UNCHANGED <<security_level[checking[t]], flags[checking[t]]>>
      BY <2>2 DEF SetValues, ValuesOK
    <3>3. QED
      BY <3>1, <3>2, Untouched DEF Half
  <2>3. QED
    BY <2>1, <2>2
<1>5. QED
  BY <1>2, <1>4

LEMMA PolicyInvInit == Init => PolicyInv
<1> SUFFICES ASSUME Init
             PROVE  PolicyInv
  OBVIOUS
<1>1. ValuesOK
  BY DEF Init, ValuesOK
<1>2. ASSUME NEW t \in Tasks
      PROVE  Half(t) /\ Denied(t) /\ Granted(t)
  BY DEF Init, Half, Denied, Granted
<1>3. QED
  BY <1>1, <1>2 DEF PolicyInv

\* A new context is one that no check is looking at.
LEMMA NewValuesKeep ==
  ASSUME PolicyInv, RefInv, NEW c \in Contexts \ live, NEW l \in 0 .. 4,
         NEW f \in SUBSET Flags, SetValues(c, l, f), UNCHANGED checks,
         \A t \in Tasks : held[t] \subseteq held'[t]
  PROVE  PolicyInv'
<1> USE DEF PolicyInv
<1>1. ValuesOK'
  BY DEF ValuesOK, SetValues, checks
<1>2. ASSUME NEW t \in Tasks
      PROVE  Half(t)' /\ Denied(t)' /\ Granted(t)'
  <2>1. checking[t] # NoContext => checking[t] \in held'[t] /\ checking[t] # c
    BY DEF Half, RefInv, NoDangling
  <2>2. checking[t] # NoContext =>
          UNCHANGED <<security_level[checking[t]], flags[checking[t]]>>
    BY <2>1 DEF SetValues, ValuesOK, checks
  <2>3. checking'[t] = checking[t] /\ met'[t] = met[t] /\ verdict'[t] = verdict[t]
    BY DEF checks
  <2>4. QED
    BY <2>1, <2>2, <2>3, Untouched
<1>3. QED
  BY <1>1, <1>2

LEMMA CheckLevelKeeps ==
  ASSUME PolicyInv, RefInv, NEW t \in Tasks, NEW c \in Contexts, CheckLevel(t, c)
  PROVE  PolicyInv'
<1> USE DEF PolicyInv
<1>1. /\ met' = [met EXCEPT ![t] = {Now(c)}]
      /\ UNCHANGED <<held, security_level, flags>> /\ c \in held[t]
  BY DEF CheckLevel, Now, refVars, values
<1>2. Now(c) \in BOOLEAN \X BOOLEAN /\ (Now(c)[1] <=> security_level[c] >= MinLevel)
  BY MeetsType DEF Now, ValuesOK
<1>3. met' \in [Tasks -> SUBSET (BOOLEAN \X BOOLEAN)] /\ met'[t] = {Now(c)}
  BY <1>1, <1>2 DEF ValuesOK
<1>4. ValuesOK'
  BY <1>1, <1>3 DEF ValuesOK, CheckLevel
<1>5. security_level[c] \in Int /\ MinLevel \in Int
  BY SecurityConstants DEF ValuesOK
<1>6. Half(t)' /\ Denied(t)' /\ Granted(t)'
  <2>1. CASE security_level[c] < MinLevel
    <3>1. verdict'[t] = "denied" /\ checking'[t] = NoContext
      BY <2>1, <1>5 DEF CheckLevel, ValuesOK
    <3>2. Now(c) # <<TRUE, TRUE>>
      <4>1. ~(security_level[c] >= MinLevel)
        BY <2>1, <1>5
      <4>2. QED
        BY <4>1, <1>2, PairIsTrue, Zenon
    <3>3. QED
      BY <3>1, <3>2, <1>3 DEF Half, Denied, Granted
  <2>2. CASE security_level[c] >= MinLevel
    <3>1. verdict'[t] = "none" /\ checking'[t] = c
      BY <2>2, <1>5 DEF CheckLevel, ValuesOK
    <3>2. Now(c)' = Now(c)
      BY <1>1 DEF Now, Meets
    <3>3. Now(c)[1]
      BY <2>2, <1>2
    <3>4. QED
      BY <3>1, <3>2, <3>3, <1>1, <1>3 DEF Half, Denied, Granted
  <2>3. QED
    BY <2>1, <2>2, <1>5
<1>7. ASSUME NEW u \in Tasks, u # t
      PROVE  Half(u)' /\ Denied(u)' /\ Granted(u)'
  <2>1. checking'[u] = checking[u] /\ met'[u] = met[u] /\ verdict'[u] = verdict[u]
    BY <1>7 DEF CheckLevel, ValuesOK
  <2>2. QED
    BY <2>1, <1>1, Untouched DEF Half
<1>8. QED
  BY <1>4, <1>6, <1>7

LEMMA CheckFlagsKeeps ==
  ASSUME PolicyInv, RefInv, NEW t \in Tasks, CheckFlags(t)
  PROVE  PolicyInv'
<1> USE DEF PolicyInv
<1>1. /\ UNCHANGED <<held, security_level, flags, met>>
      /\ verdict'[t] = IF Required \subseteq flags[checking[t]] THEN "granted" ELSE "denied"
      /\ checking'[t] = NoContext
  BY DEF CheckFlags, refVars, values, ValuesOK
<1>2. ValuesOK'
  BY DEF ValuesOK, CheckFlags, values
<1>n. PICK seen : seen = Now(checking[t])
  OBVIOUS
<1>3. /\ seen \in met[t] /\ seen \in BOOLEAN \X BOOLEAN
      /\ seen[2] <=> Required \subseteq flags[checking[t]]
      /\ \E m \in met[t] : m[1]
      /\ \A m \in met[t] : m = <<TRUE, TRUE>> <=> m[1] /\ m[2]
  <2>1. checking[t] \in Contexts /\ security_level[checking[t]] \in Int
    BY DEF CheckFlags, ValuesOK
  <2>2. seen \in met[t] /\ \E m \in met[t] : m[1]
    BY <1>n DEF CheckFlags, Half
  <2>3. seen \in BOOLEAN \X BOOLEAN /\ (seen[2] <=> Required \subseteq flags[checking[t]])
    BY <1>n, <2>1, MeetsType DEF Now
  <2>4. met[t] \subseteq BOOLEAN \X BOOLEAN
    BY DEF ValuesOK
  <2>5. QED
    BY <2>2, <2>3, <2>4, PairIsTrue
<1>4. Half(t)' /\ Denied(t)' /\ Granted(t)'
  <2>1. CASE Required \subseteq flags[checking[t]]
    <3>1. seen[2]
      BY <2>1, <1>3, Zenon
    <3>2. ASSUME \A m \in met[t] : m[1]
          PROVE  <<TRUE, TRUE>> \in met[t]
      BY <3>1, <3>2, <1>3, Zenon
    <3>3. ASSUME \A m \in met[t] : m[2]
          PROVE  <<TRUE, TRUE>> \in met[t]
      BY <3>3, <1>3, Zenon
    <3>4. QED
      BY <2>1, <3>2, <3>3, <1>1 DEF Half, Denied, Granted
  <2>2. CASE ~(Required \subseteq flags[checking[t]])
    <3>1. seen # <<TRUE, TRUE>>
      BY <2>2, <1>3, Zenon
    <3>2. QED
      BY <2>2, <3>1, <1>1, <1>3 DEF Half, Denied, Granted
  <2>3. QED
    BY <2>1, <2>2
<1>5. ASSUME NEW u \in Tasks, u # t
      PROVE  Half(u)' /\ Denied(u)' /\ Granted(u)'
  <2>1. checking'[u] = checking[u] /\ verdict'[u] = verdict[u]
    BY <1>5 DEF CheckFlags, ValuesOK
  <2>2. QED
    BY <2>1, <1>1, Untouched DEF Half
<1>6. QED
  BY <1>2, <1>4, <1>5

\* The references of a check in progress outlive the actions that touch no check.
LEMMA HeldKeeps ==
  ASSUME PolicyInv, UNCHANGED <<values, checks>>,
         \A t \in Tasks : checking[t] \in held[t] => checking[t] \in held'[t]
  PROVE  PolicyInv'
<1> USE DEF PolicyInv
<1>1. ValuesOK'
  BY DEF ValuesOK, values, checks
<1>2. ASSUME NEW t \in Tasks
      PROVE  Half(t)' /\ Denied(t)' /\ Granted(t)'
  <2>1. checking[t] # NoContext => checking[t] \in held'[t]
    BY DEF Half
  <2>2. QED
    BY <2>1, Untouched DEF values, checks
<1>3. QED
  BY <1>1, <1>2

LEMMA PolicyInvStep == RefInv /\ PolicyInv /\ [Next]_vars => PolicyInv'
<1> SUFFICES ASSUME RefInv, PolicyInv, [Next]_vars
             PROVE  PolicyInv'
  OBVIOUS
<1> USE ContextConstants, SecurityConstants
<1>h. ValuesOK /\ RefsOK
  BY DEF PolicyInv, RefInv
<1>1. ASSUME NEW c \in Contexts, Load(c)
      PROVE  PolicyInv'
  BY <1>1, NewValuesKeep DEF Load, Publish
<1>2. CASE Exit
  BY <1>2, HeldKeeps DEF Exit, Unpublish, Release
<1>3. ASSUME NEW t \in Tasks, GetContext(t)
      PROVE  PolicyInv'
  <2>1. UNCHANGED <<values, checks>> /\ Hold(t, global_context)
    BY <1>3 DEF GetContext, Get
  <2>2. QED
    BY <2>1, <1>h, HeldKeeps DEF Hold, RefsOK
<1>4. ASSUME NEW t \in Tasks, NEW c \in Contexts, NEW l \in Levels, NEW f \in SUBSET Flags,
             CreateContext(t, c, l, f)
      PROVE  PolicyInv'
  <2>1. /\ l \in 0 .. 4 /\ c \in Contexts \ live /\ SetValues(c, l, f)
        /\ UNCHANGED checks /\ Hold(t, c)
    BY <1>4 DEF CreateContext, Create, ValidLevel
  <2>2. \A u \in Tasks : held[u] \subseteq held'[u]
    BY <2>1, <1>h DEF Hold, RefsOK
  <2>3. QED
    BY <2>1, <2>2, NewValuesKeep
<1>5. ASSUME NEW t \in Tasks, NEW c \in Contexts, PutContext(t, c)
      PROVE  PolicyInv'
  <2>1. /\ UNCHANGED <<values, checks>> /\ checking[t] = NoContext
        /\ held' = [held EXCEPT ![t] = @ \ {c}]
    BY <1>5 DEF PutContext, Put
  <2>2. \A u \in Tasks : checking[u] \in held[u] => checking[u] \in held'[u]
    BY <2>1, <1>h DEF RefsOK
  <2>3. QED
    BY <2>1, <2>2, HeldKeeps
<1>6. ASSUME NEW t \in Tasks, NEW c \in Contexts, NEW l \in Levels, SetLevel(t, c, l)
      PROVE  PolicyInv'
  <2>1. /\ l \in 0 .. 4 /\ flags[c] \in SUBSET Flags /\ SetValues(c, l, flags[c])
        /\ Seen(c, l, flags[c]) /\ UNCHANGED <<held, checking, verdict>>
    BY <1>6, <1>h DEF SetLevel, ValidLevel, SetValues, ValuesOK, refVars
  <2>2. QED
    BY <2>1, SeenKeeps
<1>7. ASSUME NEW t \in Tasks, NEW c \in Contexts, NEW f \in SUBSET Flags, SetFlags(t, c, f)
      PROVE  PolicyInv'
  <2>1. /\ security_level[c] \in 0 .. 4 /\ SetValues(c, security_level[c], f)
        /\ Seen(c, security_level[c], f) /\ UNCHANGED <<held, checking, verdict>>
    BY <1>7, <1>h DEF SetFlags, SetValues, ValuesOK, refVars
  <2>2. QED
    BY <2>1, SeenKeeps
<1>8. CASE UNCHANGED vars
  BY <1>8, HeldKeeps DEF vars, refVars
<1>9. QED
  BY <1>1, <1>2, <1>3, <1>4, <1>5, <1>6, <1>7, <1>8, CheckLevelKeeps, CheckFlagsKeeps
  DEF Next, Operation

LEMMA PolicyInvariant == Spec => [](RefInv /\ PolicyInv)
BY PolicyInvInit, PolicyInvStep, RefInvariant, PTL DEF Spec

\* Every variable has its type.
THEOREM SecurityTypes == Spec => []TypeOK
<1>1. RefInv /\ PolicyInv => TypeOK
  BY DEF RefInv, PolicyInv, ValuesOK, TypeOK
<1>2. QED
  BY <1>1, PolicyInvariant, PTL

\* A check denies a context that, at some moment of the check, did not meet the
\* policy, however other tasks change it meanwhile.
THEOREM DenialsAreEarned == Spec => []DeniesUnmet
<1>1. PolicyInv => DeniesUnmet
  BY DEF PolicyInv, Denied, DeniesUnmet
<1>2. QED
  BY <1>1, PolicyInvariant, PTL

\* A check grants a context that met the policy at some moment of the check, if
\* its level or its flags were enough at all of them.
THEOREM GrantsAreSteady == Spec => []GrantsSteady
<1>1. PolicyInv => GrantsSteady
  BY DEF PolicyInv, Granted, GrantsSteady
<1>2. QED
  BY <1>1, PolicyInvariant, PTL

(****************************************************************************)
(* The performance monitor                                                  *)
(****************************************************************************)
LEMMA PerfRefInvStep == RefInv /\ [PerfNext]_perfVars => RefInv'
<1> SUFFICES ASSUME RefInv, [PerfNext]_perfVars
             PROVE  RefInv'
  OBVIOUS
<1>1. ASSUME UNCHANGED refVars
      PROVE  RefInv'
  BY <1>1 DEF refVars, RefInv, RefsOK, RefsCounted, NoDangling, Published, Holders
<1>2. ASSUME NEW c \in Contexts, LoadMonitor(c) \/ ContextCall(c)
      PROVE  RefInv'
  BY <1>2, PublishKeeps, ExitKeeps, GetKeeps, PutKeeps DEF LoadMonitor, ContextCall
<1>3. ASSUME NEW t \in Tasks, NEW c \in Contexts, CreatePerfContext(t, c)
      PROVE  RefInv'
  BY <1>3, CreateKeeps DEF CreatePerfContext
<1>4. ASSUME NEW t \in Tasks, StatsStep(t) \/ SamplingStep(t)
      PROVE  UNCHANGED refVars
  <2>1. CASE StatsStep(t)
    BY <2>1 DEF StatsStep, SetThreshold, Update, Lock, CountMetric, Date, StoreDate,
                Compare, ResetStats
  <2>2. CASE SamplingStep(t)
    BY <2>2 DEF SamplingStep, StartTest, StopTest, DurationTest, Activate, Start, StoreStart,
                Deactivate, Duration
  <2>3. QED
    BY <1>4, <2>1, <2>2
<1>5. CASE Tick \/ (\E m \in Metrics : CreateMetric(m)) \/ UNCHANGED perfVars
  BY <1>1, <1>5 DEF Tick, CreateMetric, perfVars
<1>6. QED
  BY <1>1, <1>2, <1>3, <1>4, <1>5 DEF PerfNext

LEMMA PerfRefInvariant == PerfSpec => []RefInv
<1>1. PerfInit => RefInv
  BY RefInvInit DEF PerfInit
<1>2. QED
  BY <1>1, PerfRefInvStep, PTL DEF PerfSpec

\* The contexts of the performance monitor have as many references as they
\* count, ...
THEOREM PerfReferencesCount == PerfSpec => []RefsCounted
<1>1. RefInv => RefsCounted
  BY DEF RefInv
<1>2. QED
  BY <1>1, PerfRefInvariant, PTL

\* ... and none of the references is to a context that was freed.
THEOREM PerfNoFreedContext == PerfSpec => []NoDangling
<1>1. RefInv => NoDangling
  BY DEF RefInv
<1>2. QED
  BY <1>1, PerfRefInvariant, PTL

\* The stages of an update, those under perf_lock, and those of sampling, which
\* all work on a context.
Updating == {"lock", "count", "date", "store_date", "compare"}

Locked == {"count", "date", "store_date", "compare"}

Sampled == {"activate", "start", "store_start", "deactivate",
            "clock_first", "start_first"}

\* Each task has the arguments its stage needs, and calls are made only while
\* the module is loaded.
Arguments(t) ==
  /\ pc[t] \in Updating => metric[t] \in Metrics
  /\ pc[t] \in Sampled => t \in Samplers /\ ctx[t] \in held[t]
  /\ pc[t] # "idle" => loaded
  /\ pc[t] \in Locked <=> perf_lock = t
  /\ pc[t] = "store_date" => clock[t] # 0

MonitorInv == PerfTypeOK /\ \A t \in Tasks : Arguments(t)

LEMMA MonitorInvInit == PerfInit => MonitorInv
<1> SUFFICES ASSUME PerfInit
             PROVE  MonitorInv
  OBVIOUS
<1> USE PerformanceConstants, ContextConstants DEF PerfInit
<1>1. RefsOK
  BY RefInvInit DEF RefInv
<1>2. /\ value \in [Metrics -> Nat] /\ threshold \in [Metrics -> Nat]
  OBVIOUS
<1>3. /\ sampling_active \in [Contexts -> BOOLEAN] /\ sampling_start \in [Contexts -> 0 .. MaxTime]
      /\ began \in [Contexts -> 0 .. MaxTime]
      /\ mixed \subseteq Contexts
  OBVIOUS
<1>4. /\ metric \in [Tasks -> Metrics \cup {NoMetric}] /\ ctx \in [Tasks -> Contexts \cup {NoContext}]
      /\ given \in [Tasks -> Nat] /\ clock \in [Tasks -> 0 .. MaxTime]
  OBVIOUS
<1>5. pc \in [Tasks -> Stages]
  BY DEF Stages
<1>6. PerfTypeOK
  BY <1>1, <1>2, <1>3, <1>4, <1>5 DEF PerfTypeOK
<1>7. \A t \in Tasks : Arguments(t)
  BY DEF Arguments, Updating, Sampled, Locked
<1>8. QED
  BY <1>6, <1>7 DEF MonitorInv

\* An action of t that leaves the contexts alone and moves it to another stage.
LEMMA TaskMoves ==
  ASSUME RefInv, MonitorInv, PerfTypeOK', NEW t \in Tasks, NEW stage \in Stages,
         Goto(t, stage), UNCHANGED refVars, loaded,
         \A u \in Tasks \ {t} : /\ metric'[u] = metric[u] /\ ctx'[u] = ctx[u]
                                /\ clock'[u] = clock[u]
                                /\ perf_lock' = u <=> perf_lock = u,
         Arguments(t)'
  PROVE  MonitorInv'
<1>1. \A u \in Tasks \ {t} : pc'[u] = pc[u]
  BY DEF Goto, MonitorInv, PerfTypeOK
<1>2. ASSUME NEW u \in Tasks \ {t}
      PROVE  Arguments(u)'
  BY <1>1, <1>2 DEF Arguments, MonitorInv, refVars
<1>3. QED
  BY <1>2 DEF MonitorInv

LEMMA MonitorInvStep == RefInv /\ MonitorInv /\ [PerfNext]_perfVars => MonitorInv'
<1> SUFFICES ASSUME RefInv, MonitorInv, [PerfNext]_perfVars
             PROVE  MonitorInv'
  OBVIOUS
<1>r. RefInv' /\ RefsOK'
  BY PerfRefInvStep DEF RefInv
<1>t. PerfTypeOK /\ \A t \in Tasks : Arguments(t)
  BY DEF MonitorInv
<1>n. /\ now \in 0 .. MaxTime
      /\ began \in [Contexts -> 0 .. MaxTime]
      /\ sampling_active \in [Contexts -> BOOLEAN] /\ pc \in [Tasks -> Stages]
      /\ mixed \subseteq Contexts
  BY <1>t, PerformanceConstants DEF PerfTypeOK
<1> USE PerformanceConstants, ContextConstants
<1>1. CASE Tick
  <2>1. now' \in 1 .. MaxTime /\ UNCHANGED <<refVars, perf_lock, stats, metrics, sampling, pc, call>>
    BY <1>1, <1>t DEF Tick, PerfTypeOK
  <2>2. PerfTypeOK'
    BY <2>1, <1>t, <1>r DEF PerfTypeOK, stats, metrics, sampling, sampleHistory, call
  <2>3. \A t \in Tasks : Arguments(t)'
    BY <2>1, <1>t DEF Arguments, refVars, call
  <2>4. QED
    BY <2>2, <2>3 DEF MonitorInv
<1>2. ASSUME NEW c \in Contexts, LoadMonitor(c)
      PROVE  MonitorInv'
  <2>1. PerfTypeOK'
    BY <1>2, <1>t, <1>r DEF LoadMonitor, Zeroed, Others, PerfTypeOK, metrics, call
  <2>2. /\ loaded' /\ UNCHANGED <<perf_lock, pc, metric, ctx, clock, held>>
    BY <1>2 DEF LoadMonitor, Publish, Others, call
  <2>3. QED
    BY <2>1, <2>2, <1>t DEF MonitorInv, Arguments
<1>3. ASSUME NEW c \in Contexts, ContextCall(c)
      PROVE  MonitorInv'
  <2>1. PerfTypeOK'
    BY <1>3, <1>t, <1>r DEF ContextCall, Others, PerfTypeOK, metrics, call, stats, sampling, sampleHistory
  <2>2. UNCHANGED <<perf_lock, pc, metric, ctx, clock>>
    BY <1>3 DEF ContextCall, Others, call
  <2>3. \A t \in Tasks : /\ pc[t] # "idle" => loaded' = loaded
                         /\ pc[t] # "idle" => held'[t] = held[t]
    <3>1. CASE (\A t \in Tasks : At(t, "idle")) /\ Unpublish
      BY <3>1 DEF At
    <3>2. CASE Release
      BY <3>2 DEF Release
    <3>3. ASSUME NEW t \in Tasks, At(t, "idle"), Get(t) \/ Put(t, c)
          PROVE  \A u \in Tasks : /\ pc[u] # "idle" => loaded' = loaded
                                  /\ pc[u] # "idle" => held'[u] = held[u]
      BY <3>3 DEF At, Get, Put, Hold, RefInv, RefsOK
    <3>4. QED
      BY <1>3, <3>1, <3>2, <3>3 DEF ContextCall
  <2>4. QED
    BY <2>1, <2>2, <2>3, <1>t DEF MonitorInv, Arguments, Sampled
<1>4. ASSUME NEW t \in Tasks, NEW c \in Contexts, CreatePerfContext(t, c)
      PROVE  MonitorInv'
  <2>1. PerfTypeOK'
    BY <1>4, <1>t, <1>r DEF CreatePerfContext, Zeroed, Others, PerfTypeOK, metrics, call, stats
  <2>2. UNCHANGED <<perf_lock, pc, metric, ctx, clock, loaded>>
    BY <1>4 DEF CreatePerfContext, Create, Others, call
  <2>3. \A u \in Tasks : held[u] \subseteq held'[u]
    BY <1>4 DEF CreatePerfContext, Create, Hold, RefInv, RefsOK
  <2>4. QED
    BY <2>1, <2>2, <2>3, <1>t DEF MonitorInv, Arguments
<1>5. ASSUME NEW m \in Metrics, CreateMetric(m)
      PROVE  MonitorInv'
  <2>1. PerfTypeOK'
    BY <1>5, <1>t, <1>r DEF CreateMetric, PerfTypeOK, call, stats, sampling, sampleHistory
  <2>2. UNCHANGED <<perf_lock, pc, metric, ctx, clock, loaded, held>>
    BY <1>5 DEF CreateMetric, refVars, call
  <2>3. QED
    BY <2>1, <2>2, <1>t DEF MonitorInv, Arguments
<1>6. ASSUME NEW t \in Tasks, NEW m \in Metrics, NEW v \in Values, SetThreshold(t, m, v)
      PROVE  MonitorInv'
  <2>1. PerfTypeOK'
    BY <1>6, <1>t, <1>r DEF SetThreshold, PerfTypeOK, call, stats, sampling, sampleHistory
  <2>2. UNCHANGED <<perf_lock, pc, metric, ctx, clock, loaded, held>>
    BY <1>6 DEF SetThreshold, refVars, call
  <2>3. QED
    BY <2>1, <2>2, <1>t DEF MonitorInv, Arguments
<1>7. ASSUME NEW t \in Tasks, ResetStats(t)
      PROVE  MonitorInv'
  <2>1. PerfTypeOK'
    BY <1>7, <1>t, <1>r DEF ResetStats, PerfTypeOK, call, metrics, sampling, sampleHistory
  <2>2. UNCHANGED <<perf_lock, pc, metric, ctx, clock, loaded, held>>
    BY <1>7 DEF ResetStats, refVars, call
  <2>3. QED
    BY <2>1, <2>2, <1>t DEF MonitorInv, Arguments
<1>8. ASSUME NEW t \in Tasks, NEW m \in Metrics, NEW v \in Values, Update(t, m, v)
      PROVE  MonitorInv'
  <2>1. PerfTypeOK'
    BY <1>8, <1>t, <1>r DEF Update, Goto, PerfTypeOK, Stages, stats, sampling, sampleHistory
  <2>2. /\ Goto(t, "lock") /\ UNCHANGED refVars /\ loaded /\ pc[t] = "idle"
        /\ metric' = [metric EXCEPT ![t] = m] /\ UNCHANGED <<ctx, clock, perf_lock>>
    BY <1>8 DEF Update, At
  <2>3. Arguments(t)'
    BY <2>2, <1>t DEF Arguments, Goto, Updating, Locked, Sampled, PerfTypeOK, refVars
  <2>4. QED
    BY <2>1, <2>2, <2>3, <1>t, TaskMoves DEF Stages, PerfTypeOK
<1>9. ASSUME NEW t \in Tasks, Lock(t) \/ CountMetric(t)
      PROVE  MonitorInv'
  <2>1. CASE Lock(t)
    <3>1. PerfTypeOK'
      BY <2>1, <1>t, <1>r DEF Lock, Goto, PerfTypeOK, Stages, stats, sampling, sampleHistory, call, metrics
    <3>2. /\ Goto(t, "count") /\ UNCHANGED refVars /\ pc[t] = "lock"
          /\ UNCHANGED <<metric, ctx, clock>> /\ perf_lock = NoTask /\ perf_lock' = t
      BY <2>1 DEF Lock, At, call
    <3>3. Arguments(t)' /\ loaded
      BY <3>2, <1>t DEF Arguments, Goto, Updating, Locked, Sampled, PerfTypeOK, refVars
    <3>4. QED
      BY <3>1, <3>2, <3>3, <1>t, TaskMoves DEF Stages
  <2>2. CASE CountMetric(t)
    <3>1. PerfTypeOK'
      BY <2>2, <1>t, <1>r DEF CountMetric, Goto, PerfTypeOK, Stages, metrics, sampling, sampleHistory, call
    <3>2. /\ Goto(t, "date") /\ UNCHANGED refVars /\ pc[t] = "count"
          /\ UNCHANGED <<metric, ctx, clock, perf_lock>>
      BY <2>2 DEF CountMetric, At, call
    <3>3. Arguments(t)' /\ loaded
      BY <3>2, <1>t DEF Arguments, Goto, Updating, Locked, Sampled, PerfTypeOK, refVars
    <3>4. QED
      BY <3>1, <3>2, <3>3, <1>t, TaskMoves DEF Stages
  <2>3. QED
    BY <1>9, <2>1, <2>2
<1>10. ASSUME NEW t \in Tasks, Date(t) \/ StoreDate(t) \/ Compare(t)
       PROVE  MonitorInv'
  <2>1. CASE Date(t)
    <3>1. PerfTypeOK'
      BY <2>1, <1>t, <1>r DEF Date, Goto, PerfTypeOK, Stages, stats, metrics, sampling, sampleHistory
    <3>2. /\ Goto(t, "store_date") /\ UNCHANGED refVars /\ pc[t] = "date"
          /\ UNCHANGED <<metric, ctx, perf_lock>> /\ clock' = [clock EXCEPT ![t] = now]
      BY <2>1 DEF Date, At
    <3>3. Arguments(t)' /\ loaded
      BY <3>2, <1>t DEF Arguments, Goto, Updating, Locked, Sampled, PerfTypeOK, refVars
    <3>4. QED
      BY <3>1, <3>2, <3>3, <1>t, TaskMoves DEF Stages, PerfTypeOK
  <2>2. CASE StoreDate(t)
    <3>1. PerfTypeOK'
      BY <2>2, <1>t, <1>r DEF StoreDate, Goto, PerfTypeOK, Stages, metrics, sampling, sampleHistory, call
    <3>2. /\ Goto(t, "compare") /\ UNCHANGED refVars /\ pc[t] = "store_date"
          /\ UNCHANGED <<metric, ctx, clock, perf_lock>>
      BY <2>2 DEF StoreDate, At, call
    <3>3. Arguments(t)' /\ loaded
      BY <3>2, <1>t DEF Arguments, Goto, Updating, Locked, Sampled, PerfTypeOK, refVars
    <3>4. QED
      BY <3>1, <3>2, <3>3, <1>t, TaskMoves DEF Stages
  <2>3. CASE Compare(t)
    <3>1. PerfTypeOK'
      BY <2>3, <1>t, <1>r DEF Compare, Goto, PerfTypeOK, Stages, metrics, sampling, sampleHistory
    <3>2. /\ Goto(t, "idle") /\ UNCHANGED refVars /\ pc[t] = "compare" /\ perf_lock' = NoTask
          /\ metric' = [metric EXCEPT ![t] = NoMetric] /\ UNCHANGED ctx
          /\ clock' = [clock EXCEPT ![t] = 0]
      BY <2>3 DEF Compare, At
    <3>3. Arguments(t)' /\ loaded /\ perf_lock = t
      BY <3>2, <1>t DEF Arguments, Goto, Updating, Locked, Sampled, PerfTypeOK, refVars
    <3>4. QED
      BY <3>1, <3>2, <3>3, <1>t, TaskMoves DEF Stages, PerfTypeOK
  <2>4. QED
    BY <1>10, <2>1, <2>2, <2>3
<1>11. ASSUME NEW t \in Tasks, NEW c \in Contexts,
              StartTest(t, c) \/ StopTest(t, c) \/ DurationTest(t, c)
       PROVE  MonitorInv'
  <2>1. PICK stage \in {"activate", "deactivate", "clock_first", "start_first"} :
          /\ MaySample(t, c) /\ Enter(t, c, stage)
          /\ UNCHANGED <<refVars, now, perf_lock, stats, metrics, metric, given>>
          /\ UNCHANGED <<sampling_active, sampling_start, began>>
          /\ mixed' \subseteq Contexts
          /\ \E d \in 0 .. MaxTime : clock' = [clock EXCEPT ![t] = d]
    <3>1. PerfTypeOK
      BY <1>t
    <3>2. clock = [clock EXCEPT ![t] = clock[t]] /\ clock[t] \in 0 .. MaxTime
      BY <3>1 DEF PerfTypeOK
    <3>3. now \in 0 .. MaxTime /\ sampling_start[c] \in 0 .. MaxTime
      BY <3>1 DEF PerfTypeOK
    <3>4. QED
      BY <1>11, <1>n, <3>2, <3>3
      DEF StartTest, StopTest, DurationTest, Mix, sampling, sampleHistory
  <2>2. /\ Goto(t, stage) /\ stage \in Stages /\ pc[t] = "idle" /\ t \in Samplers /\ c \in held[t]
        /\ ctx' = [ctx EXCEPT ![t] = c]
    BY <2>1 DEF MaySample, Enter, At, Stages
  <2>3. PerfTypeOK'
    BY <2>1, <2>2, <1>t, <1>r DEF Goto, PerfTypeOK, stats, metrics
  <2>4. loaded
    BY <2>2 DEF RefInv, Published
  <2>5. Arguments(t)'
    BY <2>1, <2>2, <2>4, <1>t DEF Arguments, Goto, Updating, Locked, Sampled, PerfTypeOK, refVars
  <2>6. QED
    BY <2>1, <2>2, <2>3, <2>4, <2>5, <1>t, TaskMoves DEF PerfTypeOK
<1>12. ASSUME NEW t \in Tasks, Activate(t)
       PROVE  MonitorInv'
  <2>1. /\ Goto(t, "start") /\ pc[t] = "activate"
        /\ sampling_active' = [sampling_active EXCEPT ![ctx[t]] = TRUE]
        /\ began' = [began EXCEPT ![ctx[t]] = now]
        /\ UNCHANGED <<refVars, now, perf_lock, stats, metrics, sampling_start, mixed, call>>
    BY <1>12 DEF Activate, At
  <2>2. PerfTypeOK'
    <3>1. sampling_active' \in [Contexts -> BOOLEAN] /\ began' \in [Contexts -> 0 .. MaxTime]
      BY <2>1, <1>n
    <3>2. QED
      BY <2>1, <3>1, <1>t, <1>r DEF Goto, PerfTypeOK, Stages, stats, metrics, call
  <2>3. Arguments(t)' /\ loaded
    BY <2>1, <1>t DEF Arguments, Goto, Updating, Locked, Sampled, PerfTypeOK, refVars, call
  <2>4. QED
    BY <2>1, <2>2, <2>3, <1>t, TaskMoves DEF Stages, call
<1>16. ASSUME NEW t \in Tasks, Start(t)
       PROVE  MonitorInv'
  <2>1. /\ Goto(t, "store_start") /\ pc[t] = "start"
        /\ clock' = [clock EXCEPT ![t] = now]
        /\ UNCHANGED <<refVars, now, perf_lock, stats, metrics, sampling, metric, ctx, given>>
    BY <1>16 DEF Start, At
  <2>2. PerfTypeOK'
    BY <2>1, <1>n, <1>t, <1>r DEF Goto, PerfTypeOK, Stages, stats, metrics, sampling, sampleHistory
  <2>3. Arguments(t)' /\ loaded
    BY <2>1, <1>t DEF Arguments, Goto, Updating, Locked, Sampled, PerfTypeOK, refVars
  <2>4. QED
    BY <2>1, <2>2, <2>3, <1>t, TaskMoves DEF Stages, PerfTypeOK
<1>13. ASSUME NEW t \in Tasks, StoreStart(t) \/ Deactivate(t) \/ Duration(t)
       PROVE  MonitorInv'
  <2>1. /\ Leave(t) /\ pc[t] \in {"store_start", "deactivate", "clock_first", "start_first"}
        /\ UNCHANGED <<refVars, now, perf_lock, stats, metrics, sampleHistory, metric, given>>
    BY <1>13 DEF StoreStart, Deactivate, Duration, Measuring, At, sampling
  <2>2. PerfTypeOK'
    <3>1. /\ sampling_start' \in [Contexts -> 0 .. MaxTime]
          /\ sampling_active' \in [Contexts -> BOOLEAN]
      BY <1>13, <1>t DEF StoreStart, Deactivate, Duration, sampling, PerfTypeOK
    <3>2. QED
      BY <2>1, <3>1, <1>t, <1>r DEF Leave, Goto, PerfTypeOK, Stages, stats, metrics, sampleHistory
  <2>3. Arguments(t)' /\ loaded
    BY <2>1, <1>t DEF Arguments, Leave, Goto, Updating, Locked, Sampled, PerfTypeOK, refVars
  <2>4. QED
    BY <2>1, <2>2, <2>3, <1>t, TaskMoves DEF Stages, Leave, PerfTypeOK
<1>14. CASE UNCHANGED perfVars
  <2>1. PerfTypeOK'
    BY <1>14, <1>t, <1>r DEF perfVars, PerfTypeOK, stats, metrics, sampling, sampleHistory, call
  <2>2. UNCHANGED <<perf_lock, pc, metric, ctx, clock, loaded, held>>
    BY <1>14 DEF perfVars, refVars, call
  <2>3. QED
    BY <2>1, <2>2, <1>t DEF MonitorInv, Arguments
<1>15. QED
  BY <1>1, <1>2, <1>3, <1>4, <1>5, <1>6, <1>7, <1>8, <1>9, <1>10, <1>11, <1>12, <1>13, <1>14, <1>16
  DEF PerfNext, StatsStep, SamplingStep

LEMMA MonitorInvariant == PerfSpec => [](RefInv /\ MonitorInv)
BY MonitorInvInit, MonitorInvStep, PerfRefInvariant, PTL DEF PerfSpec

\* The variables of the performance monitor keep their types.
THEOREM PerformanceTypes == PerfSpec => []PerfTypeOK
<1>1. MonitorInv => PerfTypeOK
  BY DEF MonitorInv
<1>2. QED
  BY <1>1, MonitorInvariant, PTL

\* What the holder of perf_lock has done to the statistics so far: between the
\* count of an update and its date they do not agree.
Counting(t) ==
  /\ pc[t] \in {"date", "store_date", "compare"} => threshold_exceeded < total_metrics
  /\ pc[t] = "count" => (total_metrics = 0 <=> last_update = 0)
  /\ pc[t] = "compare" => last_update # 0

StatsInv == StatsConsistent /\ \A t \in Tasks : Counting(t)

\* While a task is under perf_lock, no other is.
LEMMA OneLocked ==
  ASSUME MonitorInv, NEW t \in Tasks, pc[t] \in Locked
  PROVE  perf_lock = t /\ \A u \in Tasks \ {t} : pc[u] \notin Locked
BY DEF MonitorInv, Arguments

\* Actions that are not about the statistics.
LEMMA StatsKept ==
  ASSUME StatsInv, UNCHANGED <<stats, perf_lock>>,
         \A t \in Tasks : pc'[t] = pc[t] \/ pc'[t] \notin Locked
  PROVE  StatsInv'
<1>1. StatsConsistent'
  BY DEF StatsInv, StatsConsistent, stats
<1>2. ASSUME NEW t \in Tasks
      PROVE  Counting(t)'
  BY DEF StatsInv, Counting, stats, Locked
<1>3. QED
  BY <1>1, <1>2 DEF StatsInv

LEMMA StatsInvStep == RefInv /\ MonitorInv /\ StatsInv /\ [PerfNext]_perfVars => StatsInv'
<1> SUFFICES ASSUME RefInv, MonitorInv, StatsInv, [PerfNext]_perfVars
             PROVE  StatsInv'
  OBVIOUS
<1>t. /\ total_metrics \in Nat /\ threshold_exceeded \in Nat /\ pc \in [Tasks -> Stages]
      /\ \A t \in Tasks : Arguments(t) /\ Counting(t)
      /\ StatsConsistent
  BY DEF MonitorInv, PerfTypeOK, StatsInv
<1> USE PerformanceConstants
<1>1. CASE Tick \/ (\E m \in Metrics : CreateMetric(m)) \/ UNCHANGED perfVars
  <2>1. UNCHANGED <<stats, perf_lock, pc>>
    BY <1>1 DEF Tick, CreateMetric, perfVars
  <2>2. QED
    BY <2>1, StatsKept
<1>2. ASSUME NEW c \in Contexts, LoadMonitor(c)
      PROVE  StatsInv'
  <2>1. total_metrics' = 0 /\ threshold_exceeded' = 0 /\ last_update' = 0 /\ pc' = pc /\ ~loaded
    BY <1>2 DEF LoadMonitor, Publish, Others
  <2>2. \A t \in Tasks : pc'[t] = "idle"
    BY <2>1, <1>t DEF Arguments
  <2>3. QED
    BY <2>1, <2>2 DEF StatsInv, StatsConsistent, Counting
<1>3. ASSUME NEW c \in Contexts, ContextCall(c) \/ \E t \in Tasks : CreatePerfContext(t, c)
      PROVE  StatsInv'
  <2>1. UNCHANGED <<stats, perf_lock, pc>>
    BY <1>3 DEF ContextCall, CreatePerfContext, Others
  <2>2. QED
    BY <2>1, StatsKept
<1>4. ASSUME NEW t \in Tasks, SamplingStep(t)
      PROVE  StatsInv'
  <2>1. PICK stage : /\ UNCHANGED <<stats, perf_lock>> /\ Goto(t, stage) /\ stage \notin Locked
    <3>1. CASE \E c \in Contexts : StartTest(t, c) \/ StopTest(t, c) \/ DurationTest(t, c)
      BY <3>1 DEF StartTest, StopTest, DurationTest, Enter, Locked
    <3>2. CASE Activate(t) \/ Start(t)
      BY <3>2 DEF Activate, Start, Locked
    <3>3. CASE StoreStart(t) \/ Deactivate(t) \/ Duration(t)
      BY <3>3 DEF StoreStart, Deactivate, Duration, Leave, Locked
    <3>4. QED
      BY <1>4, <3>1, <3>2, <3>3 DEF SamplingStep
  <2>2. QED
    BY <2>1, <1>t, StatsKept DEF Goto
<1>5. ASSUME NEW t \in Tasks, NEW m \in Metrics, NEW v \in Values,
             SetThreshold(t, m, v) \/ Update(t, m, v)
      PROVE  StatsInv'
  <2>1. UNCHANGED <<stats, perf_lock>> /\ (pc' = pc \/ Goto(t, "lock"))
    BY <1>5 DEF SetThreshold, Update
  <2>2. QED
    BY <2>1, <1>t, StatsKept DEF Goto, Locked
<1>6. ASSUME NEW t \in Tasks, ResetStats(t)
      PROVE  StatsInv'
  <2>1. /\ total_metrics' = 0 /\ threshold_exceeded' = 0 /\ last_update' = 0
        /\ pc' = pc /\ perf_lock = NoTask
    BY <1>6 DEF ResetStats
  <2>2. \A u \in Tasks : pc'[u] \notin Locked
    BY <2>1, <1>t DEF Arguments
  <2>3. QED
    BY <2>1, <2>2 DEF StatsInv, StatsConsistent, Counting, Locked
<1>7. ASSUME NEW t \in Tasks, Lock(t)
      PROVE  StatsInv'
  <2>1. UNCHANGED stats /\ perf_lock = NoTask /\ perf_lock' = t /\ pc' = [pc EXCEPT ![t] = "count"]
    BY <1>7 DEF Lock, Goto
  <2>2. total_metrics = 0 <=> last_update = 0
    BY <2>1, <1>t DEF StatsConsistent
  <2>3. StatsConsistent' /\ \A u \in Tasks : Counting(u)'
    BY <2>1, <2>2, <1>t DEF StatsConsistent, Counting, stats
  <2>4. QED
    BY <2>3 DEF StatsInv
\* The rest of an update, by the holder of the lock.
<1>8. ASSUME NEW t \in Tasks, CountMetric(t) \/ Date(t) \/ StoreDate(t) \/ Compare(t)
      PROVE  StatsInv'
  <2>1. perf_lock = t /\ \A u \in Tasks \ {t} : pc[u] \notin Locked
    BY <1>8, OneLocked DEF CountMetric, Date, StoreDate, Compare, At, Locked
  <2>2. \A u \in Tasks \ {t} : pc'[u] = pc[u]
    BY <1>8, <1>t DEF CountMetric, Date, StoreDate, Compare, Goto
  <2>3. \A u \in Tasks \ {t} : Counting(u)'
    BY <2>1, <2>2 DEF Counting, Locked
  <2>4. CASE CountMetric(t)
    <3>1. /\ total_metrics' = total_metrics + 1 /\ UNCHANGED <<threshold_exceeded, perf_lock>>
          /\ pc'[t] = "date"
      BY <2>4, <1>t DEF CountMetric, Goto
    <3>2. QED
      BY <2>1, <2>3, <3>1, <1>t DEF StatsInv, StatsConsistent, Counting
  <2>5. CASE Date(t)
    <3>1. UNCHANGED <<stats, perf_lock>> /\ pc[t] = "date" /\ pc'[t] = "store_date"
      BY <2>5, <1>t DEF Date, At, Goto
    <3>2. QED
      BY <2>1, <2>3, <3>1, <1>t DEF StatsInv, StatsConsistent, Counting, stats
  <2>6. CASE StoreDate(t)
    <3>1. /\ UNCHANGED <<total_metrics, threshold_exceeded, perf_lock>>
          /\ last_update' = clock[t] /\ clock[t] # 0
          /\ pc[t] = "store_date" /\ pc'[t] = "compare"
      BY <2>6, <1>t DEF StoreDate, At, Goto, Arguments
    <3>2. QED
      BY <2>1, <2>3, <3>1, <1>t DEF StatsInv, StatsConsistent, Counting
  <2>7. CASE Compare(t)
    <3>1. /\ UNCHANGED <<total_metrics, last_update>>
          /\ threshold_exceeded' \in {threshold_exceeded, threshold_exceeded + 1}
          /\ pc[t] = "compare" /\ pc'[t] = "idle"
      BY <2>7, <1>t DEF Compare, At, Goto
    <3>2. threshold_exceeded < total_metrics /\ last_update # 0
      BY <3>1, <1>t DEF Counting
    <3>3. StatsConsistent'
      BY <3>1, <3>2, <1>t DEF StatsConsistent
    <3>4. QED
      BY <2>3, <3>1, <3>3 DEF StatsInv, Counting
  <2>8. QED
    BY <1>8, <2>4, <2>5, <2>6, <2>7
<1>9. QED
  BY <1>1, <1>2, <1>3, <1>4, <1>5, <1>6, <1>7, <1>8 DEF PerfNext, StatsStep

\* Whoever finds perf_lock free reads statistics that agree with each other.
THEOREM StatsAgree == PerfSpec => []StatsConsistent
<1>1. PerfInit => StatsInv
  BY DEF PerfInit, StatsInv, StatsConsistent, Counting
<1>2. StatsInv => StatsConsistent
  BY DEF StatsInv
<1>3. QED
  BY <1>1, <1>2, StatsInvStep, MonitorInvariant, PTL DEF PerfSpec

\* A start that overlaps another start or a duration mixes the context.
Apart ==
  \A t, u \in Tasks :
    /\ t # u /\ ctx[t] = ctx[u]
    /\ pc[t] \in Starting /\ pc[u] \in Starting \cup Measuring
    => ctx[t] \in mixed

\* The times of a context are of the past, and the start of an active sampling is
\* stored, unless a task is about to store it.
Stamped(c) ==
  /\ began[c] <= now /\ sampling_start[c] <= now
  /\ sampling_active[c] /\ (\A t \in Tasks : pc[t] \in {"start", "store_start"} => ctx[t] # c)
       => began[c] <= sampling_start[c]

\* The times a task has read lie between the moment the context became active
\* and now.
Reading(t) ==
  /\ pc[t] = "clock_first" => began[ctx[t]] <= sampling_start[ctx[t]]
                              /\ sampling_start[ctx[t]] <= clock[t]
  /\ pc[t] \in Measuring \cup {"store_start"} => began[ctx[t]] <= clock[t] /\ clock[t] <= now

SamplingInv ==
  /\ Apart
  /\ \A c \in Contexts \ mixed : Stamped(c)
  /\ \A t \in Tasks : ctx[t] \notin mixed => Reading(t)

\* What the proofs below use of the types.
LEMMA SamplingTypes ==
  ASSUME RefInv, MonitorInv
  PROVE  /\ now \in Int /\ began \in [Contexts -> Int] /\ sampling_start \in [Contexts -> Int]
         /\ sampling_active \in [Contexts -> BOOLEAN] /\ mixed \subseteq Contexts
         /\ clock \in [Tasks -> Int] /\ ctx \in [Tasks -> Contexts \cup {NoContext}]
         /\ pc \in [Tasks -> Stages]
         /\ \A t \in Tasks : pc[t] \in Sampled => ctx[t] \in Contexts
<1>1. /\ now \in Int /\ began \in [Contexts -> Int] /\ sampling_start \in [Contexts -> Int]
      /\ sampling_active \in [Contexts -> BOOLEAN] /\ mixed \subseteq Contexts
      /\ clock \in [Tasks -> Int] /\ ctx \in [Tasks -> Contexts \cup {NoContext}]
      /\ pc \in [Tasks -> Stages]
  BY PerformanceConstants DEF MonitorInv, PerfTypeOK
<1>2. \A t \in Tasks : pc[t] \in Sampled => ctx[t] \in Contexts
  BY DEF MonitorInv, Arguments, RefInv, RefsOK
<1>3. QED
  BY <1>1, <1>2

\* Actions that are not about sampling.
LEMMA SamplingKept ==
  ASSUME SamplingInv, RefInv, MonitorInv,
         UNCHANGED <<sampling_active, sampling_start, began, mixed, ctx>>,
         now' \in {now, now + 1},
         \A t \in Tasks : \/ pc[t] \notin Sampled /\ pc'[t] \notin Sampled
                          \/ pc'[t] = pc[t] /\ clock'[t] = clock[t]
  PROVE  SamplingInv'
<1>t. /\ now \in Int /\ began \in [Contexts -> Int] /\ sampling_start \in [Contexts -> Int]
      /\ clock \in [Tasks -> Int] /\ \A t \in Tasks : pc[t] \in Sampled => ctx[t] \in Contexts
  BY SamplingTypes
<1>1. Apart'
  BY DEF SamplingInv, Apart, Starting, Measuring, Sampled
<1>2. ASSUME NEW c \in Contexts, c \notin mixed
      PROVE  Stamped(c)'
  BY <1>2, <1>t DEF SamplingInv, Stamped, Sampled
<1>3. ASSUME NEW t \in Tasks, ctx[t] \notin mixed
      PROVE  Reading(t)'
  BY <1>3, <1>t DEF SamplingInv, Reading, Sampled, Measuring
<1>4. QED
  BY <1>1, <1>2, <1>3 DEF SamplingInv

\* A context that is allocated is one that no task samples.
LEMMA SamplingZeroed ==
  ASSUME SamplingInv, RefInv, MonitorInv, NEW c \in Contexts \ live, Zeroed(c),
         UNCHANGED <<now, pc, ctx, clock>>
  PROVE  SamplingInv'
<1>1. \A t \in Tasks : pc[t] \in Sampled => ctx[t] # c /\ ctx[t] \in Contexts
  BY DEF MonitorInv, Arguments, RefInv, NoDangling, RefsOK
<1>2. now \in 1 .. MaxTime /\ MaxTime \in Nat
      /\ began \in [Contexts -> 0 .. MaxTime] /\ sampling_start \in [Contexts -> 0 .. MaxTime]
      /\ sampling_active \in [Contexts -> BOOLEAN]
  BY PerformanceConstants DEF MonitorInv, PerfTypeOK
<1>3. ~sampling_active'[c] /\ began'[c] = 0 /\ sampling_start'[c] = 0 /\ mixed' = mixed \ {c}
  BY <1>2 DEF Zeroed
<1>4. \A d \in Contexts \ {c} : /\ began'[d] = began[d] /\ sampling_start'[d] = sampling_start[d]
                                /\ sampling_active'[d] = sampling_active[d]
  BY <1>2 DEF Zeroed
<1>5. ASSUME NEW d \in Contexts, d \notin mixed'
      PROVE  Stamped(d)'
  <2>1. CASE d = c
    BY <2>1, <1>2, <1>3 DEF Stamped
  <2>2. CASE d # c
    BY <1>5, <2>2, <1>3, <1>4 DEF SamplingInv, Stamped
  <2>3. QED
    BY <2>1, <2>2
<1>6. ASSUME NEW t \in Tasks, ctx'[t] \notin mixed'
      PROVE  Reading(t)'
  BY <1>6, <1>1, <1>3, <1>4 DEF SamplingInv, Reading, Sampled, Measuring
<1>7. Apart'
  BY <1>1, <1>3 DEF SamplingInv, Apart, Starting, Sampled
<1>8. QED
  BY <1>5, <1>6, <1>7 DEF SamplingInv

LEMMA SamplingInvStep ==
  RefInv /\ MonitorInv /\ SamplingInv /\ [PerfNext]_perfVars => SamplingInv'
<1> SUFFICES ASSUME RefInv, MonitorInv, SamplingInv, [PerfNext]_perfVars
             PROVE  SamplingInv'
  OBVIOUS
<1>t. /\ now \in Int /\ began \in [Contexts -> Int] /\ sampling_start \in [Contexts -> Int]
      /\ sampling_active \in [Contexts -> BOOLEAN] /\ mixed \subseteq Contexts
      /\ clock \in [Tasks -> Int] /\ ctx \in [Tasks -> Contexts \cup {NoContext}]
      /\ pc \in [Tasks -> Stages]
      /\ \A t \in Tasks : pc[t] \in Sampled => ctx[t] \in Contexts
  BY SamplingTypes
<1>s. /\ Apart /\ \A c \in Contexts \ mixed : Stamped(c)
      /\ \A t \in Tasks : ctx[t] \notin mixed => Reading(t)
  BY DEF SamplingInv
<1>1. CASE Tick \/ (\E m \in Metrics : CreateMetric(m)) \/ UNCHANGED perfVars
  <2>1. /\ UNCHANGED <<sampling_active, sampling_start, began, mixed, ctx, pc, clock>>
        /\ now' \in {now, now + 1}
    BY <1>1 DEF Tick, CreateMetric, perfVars, sampling, sampleHistory, call
  <2>2. QED
    BY <2>1, SamplingKept
<1>2. ASSUME NEW c \in Contexts, LoadMonitor(c) \/ \E t \in Tasks : CreatePerfContext(t, c)
      PROVE  SamplingInv'
  <2>1. c \in Contexts \ live /\ Zeroed(c) /\ UNCHANGED <<now, pc, ctx, clock>>
    BY <1>2 DEF LoadMonitor, CreatePerfContext, Publish, Create, Others, call
  <2>2. QED
    BY <2>1, SamplingZeroed
<1>3. ASSUME NEW c \in Contexts, ContextCall(c)
      PROVE  SamplingInv'
  <2>1. UNCHANGED <<sampling_active, sampling_start, began, mixed, ctx, pc, clock, now>>
    BY <1>3 DEF ContextCall, Others, sampling, sampleHistory, call
  <2>2. QED
    BY <2>1, SamplingKept
<1>4. ASSUME NEW t \in Tasks, StatsStep(t)
      PROVE  SamplingInv'
  <2>1. /\ UNCHANGED <<sampling_active, sampling_start, began, mixed, ctx, now>>
        /\ \A u \in Tasks \ {t} : pc'[u] = pc[u] /\ clock'[u] = clock[u]
        /\ pc[t] \notin Sampled /\ pc'[t] \notin Sampled
    <3> USE DEF sampling, sampleHistory, call
    <3>1. CASE \E m \in Metrics, v \in Values : SetThreshold(t, m, v) \/ Update(t, m, v)
      BY <3>1, <1>t DEF SetThreshold, Update, At, Goto, Sampled
    <3>2. CASE Lock(t) \/ CountMetric(t)
      BY <3>2, <1>t DEF Lock, CountMetric, At, Goto, Sampled
    <3>3. CASE Date(t) \/ StoreDate(t) \/ Compare(t)
      BY <3>3, <1>t DEF Date, StoreDate, Compare, At, Goto, Sampled
    <3>4. CASE ResetStats(t)
      BY <3>4, <1>t DEF ResetStats, At, Sampled
    <3>5. QED
      BY <1>4, <3>1, <3>2, <3>3, <3>4 DEF StatsStep
  <2>2. QED
    BY <2>1, SamplingKept
\* A call begins: what was mixed stays mixed, and it mixes what it overlaps.
<1>5. ASSUME NEW t \in Tasks, NEW c \in Contexts,
             StartTest(t, c) \/ StopTest(t, c) \/ DurationTest(t, c)
      PROVE  SamplingInv'
  <2>1. /\ pc[t] = "idle"
        /\ UNCHANGED <<sampling_active, sampling_start, began, now>>
        /\ pc'[t] \in {"activate", "deactivate", "clock_first", "start_first"}
        /\ ctx'[t] = c
        /\ \A u \in Tasks \ {t} : pc'[u] = pc[u] /\ ctx'[u] = ctx[u] /\ clock'[u] = clock[u]
        /\ mixed \subseteq mixed' /\ mixed' \subseteq mixed \cup {c}
    BY <1>5, <1>t DEF StartTest, StopTest, DurationTest, MaySample, At, Enter, Goto, Mix,
                      sampling, sampleHistory
  <2>2. /\ pc'[t] \in Starting /\ c \notin mixed' =>
             \A u \in Tasks : pc[u] \in Starting \cup Measuring => ctx[u] # c
        /\ pc'[t] \in Measuring /\ c \notin mixed' =>
             \A u \in Tasks : pc[u] \in Starting => ctx[u] # c
    BY <1>5, <2>1, <1>t DEF StartTest, StopTest, DurationTest, Enter, Goto, Mix, Overlaps,
                            Starting, Measuring
  <2>3. Apart'
    BY <2>1, <2>2, <1>s DEF Apart, Starting, Measuring
  <2>4. ASSUME NEW d \in Contexts, d \notin mixed'
        PROVE  Stamped(d)'
    BY <2>4, <2>1, <1>s DEF Stamped
  <2>5. ASSUME c \notin mixed'
        PROVE  Reading(t)'
    <3>1. CASE ~DurationTest(t, c)
      BY <3>1, <1>5, <1>t DEF StartTest, StopTest, Enter, Goto, Reading, Measuring
    <3>2. CASE DurationTest(t, c)
      <4>1. sampling_active[c] /\ \/ pc'[t] = "clock_first" /\ clock'[t] = now
                                  \/ pc'[t] = "start_first" /\ clock'[t] = sampling_start[c]
        BY <3>2, <1>t DEF DurationTest, Enter, Goto
      <4>2. Stamped(c) /\ \A u \in Tasks : pc[u] \in Starting => ctx[u] # c
        BY <4>1, <2>1, <2>2, <2>5, <1>s DEF Measuring
      <4>3. began[c] <= sampling_start[c] /\ sampling_start[c] <= now
        BY <4>1, <4>2 DEF Stamped, Starting
      <4>4. QED
        BY <4>1, <4>3, <2>1, <1>t DEF Reading, Measuring
    <3>3. QED
      BY <3>1, <3>2
  <2>6. ASSUME NEW u \in Tasks, ctx'[u] \notin mixed'
        PROVE  Reading(u)'
    BY <2>1, <2>5, <2>6, <1>s DEF Reading
  <2>7. QED
    BY <2>3, <2>4, <2>6 DEF SamplingInv
<1>6. ASSUME NEW t \in Tasks, Activate(t)
      PROVE  SamplingInv'
  <2>1. /\ pc[t] = "activate" /\ pc' = [pc EXCEPT ![t] = "start"]
        /\ sampling_active' = [sampling_active EXCEPT ![ctx[t]] = TRUE]
        /\ began' = [began EXCEPT ![ctx[t]] = now]
        /\ UNCHANGED <<now, sampling_start, mixed, ctx, clock>>
    BY <1>6 DEF Activate, At, Goto, call
  <2>2. ctx[t] \in Contexts
    BY <2>1, <1>t DEF Sampled
  <2>3. Apart'
    BY <2>1, <1>t, <1>s DEF Apart, Starting, Measuring
  <2>4. ASSUME NEW d \in Contexts, d \notin mixed
        PROVE  Stamped(d)'
    <3>1. CASE d = ctx[t]
      BY <3>1, <2>1, <2>4, <1>t, <1>s DEF Stamped
    <3>2. CASE d # ctx[t]
      BY <3>2, <2>1, <2>4, <1>t, <1>s DEF Stamped
    <3>3. QED
      BY <3>1, <3>2
  <2>5. ASSUME NEW u \in Tasks, ctx[u] \notin mixed
        PROVE  Reading(u)'
    <3>1. u # t /\ pc[u] \in Starting \cup Measuring => ctx[u] # ctx[t]
      BY <2>1, <2>5, <1>s DEF Apart, Starting
    <3>2. QED
      BY <3>1, <2>1, <2>2, <2>5, <1>t, <1>s DEF Reading, Starting, Measuring
  <2>6. QED
    BY <2>1, <2>3, <2>4, <2>5 DEF SamplingInv
<1>7. ASSUME NEW t \in Tasks, Start(t)
      PROVE  SamplingInv'
  <2>1. /\ pc[t] = "start" /\ pc' = [pc EXCEPT ![t] = "store_start"]
        /\ clock' = [clock EXCEPT ![t] = now]
        /\ UNCHANGED <<now, sampling_start, sampling_active, began, mixed, ctx>>
    BY <1>7 DEF Start, At, Goto, sampling, sampleHistory
  <2>2. Apart'
    BY <2>1, <1>t, <1>s DEF Apart, Starting, Measuring
  <2>3. ASSUME NEW d \in Contexts, d \notin mixed
        PROVE  Stamped(d)'
    BY <2>1, <2>3, <1>t, <1>s DEF Stamped
  <2>4. ASSUME NEW u \in Tasks, ctx[u] \notin mixed
        PROVE  Reading(u)'
    <3>1. CASE u = t
      <4>1. ctx[t] \in Contexts /\ ctx[t] \notin mixed
        BY <3>1, <2>1, <2>4, <1>t DEF Sampled
      <4>2. began[ctx[t]] <= now
        BY <4>1, <1>s DEF Stamped
      <4>3. QED
        BY <3>1, <4>2, <2>1, <1>t DEF Reading, Measuring
    <3>2. CASE u # t
      BY <3>2, <2>1, <2>4, <1>t, <1>s DEF Reading
    <3>3. QED
      BY <3>1, <3>2
  <2>5. QED
    BY <2>1, <2>2, <2>3, <2>4 DEF SamplingInv
<1>8. ASSUME NEW t \in Tasks, StoreStart(t)
      PROVE  SamplingInv'
  <2>1. /\ pc[t] = "store_start" /\ pc'[t] = "idle"
        /\ sampling_start' = [sampling_start EXCEPT ![ctx[t]] = clock[t]]
        /\ UNCHANGED <<now, sampling_active, began, mixed>>
        /\ ctx'[t] = NoContext
        /\ \A u \in Tasks \ {t} : pc'[u] = pc[u] /\ ctx'[u] = ctx[u] /\ clock'[u] = clock[u]
    BY <1>8, <1>t DEF StoreStart, At, Leave, Goto, sampleHistory
  <2>2. ctx[t] \in Contexts
    BY <2>1, <1>t DEF Sampled
  <2>3. Apart'
    BY <2>1, <1>s DEF Apart, Starting, Measuring
  <2>4. ASSUME NEW d \in Contexts, d \notin mixed
        PROVE  Stamped(d)'
    <3>1. CASE d = ctx[t]
      <4>1. began[d] <= clock[t] /\ clock[t] <= now
        BY <3>1, <2>1, <2>4, <1>s DEF Reading
      <4>2. QED
        BY <3>1, <4>1, <2>1, <2>4, <1>t, <1>s DEF Stamped
    <3>2. CASE d # ctx[t]
      BY <3>2, <2>1, <2>4, <1>t, <1>s DEF Stamped
    <3>3. QED
      BY <3>1, <3>2
  <2>5. ASSUME NEW u \in Tasks, ctx'[u] \notin mixed
        PROVE  Reading(u)'
    <3>1. u # t /\ pc[u] \in Measuring => ctx[u] # ctx[t] \/ ctx[u] \in mixed
      BY <2>1, <1>s DEF Apart, Starting
    <3>2. QED
      BY <3>1, <2>1, <2>5, <1>t, <1>s DEF Reading, Measuring
  <2>6. QED
    BY <2>1, <2>3, <2>4, <2>5 DEF SamplingInv
<1>9. ASSUME NEW t \in Tasks, Deactivate(t) \/ Duration(t)
      PROVE  SamplingInv'
  <2>1. /\ pc[t] \in Sampled \ Starting
        /\ pc'[t] = "idle"
        /\ UNCHANGED <<now, sampling_start, began, mixed>>
        /\ sampling_active' \in {sampling_active, [sampling_active EXCEPT ![ctx[t]] = FALSE]}
        /\ \A u \in Tasks \ {t} : pc'[u] = pc[u] /\ ctx'[u] = ctx[u] /\ clock'[u] = clock[u]
    BY <1>9, <1>t DEF Deactivate, Duration, Measuring, At, Leave, Goto, Sampled,
                      Starting, sampling, sampleHistory, call
  <2>2. Apart'
    BY <2>1, <1>s DEF Apart, Starting, Measuring
  <2>3. ASSUME NEW d \in Contexts, d \notin mixed
        PROVE  Stamped(d)'
    <3>1. sampling_active'[d] => sampling_active[d]
      BY <2>1, <1>t
    <3>2. (\A u \in Tasks : pc'[u] \in {"start", "store_start"} => ctx'[u] # d)
            => \A u \in Tasks : pc[u] \in {"start", "store_start"} => ctx[u] # d
      BY <2>1 DEF Starting
    <3>3. QED
      BY <3>1, <3>2, <2>1, <2>3, <1>s DEF Stamped
  <2>4. ASSUME NEW u \in Tasks, ctx'[u] \notin mixed
        PROVE  Reading(u)'
    BY <2>1, <2>4, <1>s DEF Reading, Measuring
  <2>5. QED
    BY <2>1, <2>2, <2>3, <2>4 DEF SamplingInv
<1>10. QED
  BY <1>1, <1>2, <1>3, <1>4, <1>5, <1>6, <1>7, <1>8, <1>9 DEF PerfNext, SamplingStep

\* A duration is not negative and not longer than the sampling it measures, as
\* long as no start of the context overlaps another start or a duration.
THEOREM DurationsWithinSampling == PerfSpec => DurationWithinSampling
<1>1. PerfInit => SamplingInv
  <2> SUFFICES ASSUME PerfInit
               PROVE  SamplingInv
    OBVIOUS
  <2>1. \A t \in Tasks : pc[t] = "idle"
    BY DEF PerfInit
  <2>2. Apart /\ \A t \in Tasks : Reading(t)
    BY <2>1 DEF Apart, Reading, Starting, Measuring
  <2>3. \A c \in Contexts : Stamped(c)
    BY DEF PerfInit, Stamped
  <2>4. QED
    BY <2>2, <2>3 DEF SamplingInv
<1>2. RefInv /\ MonitorInv /\ SamplingInv /\ [PerfNext]_perfVars =>
        [\A t \in Tasks : Duration(t) /\ ctx[t] \notin mixed => Within(t)]_perfVars
  <2> SUFFICES ASSUME RefInv, MonitorInv, SamplingInv, NEW t \in Tasks, Duration(t),
                      ctx[t] \notin mixed
               PROVE  Within(t)
    OBVIOUS
  <2>1. pc[t] \in Measuring /\ Reading(t)
    BY DEF Duration, SamplingInv
  <2>2. ctx[t] \in Contexts
    BY <2>1, SamplingTypes DEF Sampled, Measuring
  <2>3. /\ now \in Int /\ began[ctx[t]] \in Int /\ sampling_start[ctx[t]] \in Int
        /\ clock[t] \in Int
    BY <2>2, SamplingTypes
  <2>4. QED
    BY <2>1, <2>3 DEF Reading, Measuring, Within, Elapsed, At
<1>3. QED
  BY <1>1, <1>2, SamplingInvStep, MonitorInvariant, PTL DEF PerfSpec, DurationWithinSampling
==============================================================================
