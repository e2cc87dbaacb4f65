---------------------------- MODULE PlatformProofs ----------------------------
(****************************************************************************)
(* Proofs about Platform, for any number of tasks, devices, architectures   *)
(* and loads: the device and the class a load created are destroyed, in     *)
(* order, the cpufreq driver of an architecture is taken away by its own    *)
(* unload alone, and the exit that walks the list of devices comes to live  *)
(* devices only.                                                            *)
(****************************************************************************)
EXTENDS Platform, WellFoundedInduction, TLAPS

\* Where the UHAL driver and the architectures are: what each step of a load or an
\* exit has created or not destroyed yet.
Registered ==
  /\ driver \in {"unloaded", "device", "chrdev", "loaded", "destroy_device", "destroy_class"}
  /\ class \in BOOLEAN /\ device \in BOOLEAN
  /\ class <=> driver # "unloaded"
  /\ device <=> driver \in {"chrdev", "loaded", "destroy_device"}
  /\ arch \subseteq Archs
  /\ cpufreq \in Archs \cup {Free, Other}
  /\ cpufreq \in Archs => cpufreq \in arch

LEMMA RegisteredInit == Init => Registered
<1> SUFFICES ASSUME Init
             PROVE  Registered
  OBVIOUS
<1>1. /\ cpufreq \in Archs \cup {Free, Other} /\ arch \subseteq Archs
      /\ cpufreq \in Archs => cpufreq \in arch
  BY PlatformConstants DEF Init
<1>2. class = FALSE /\ device = FALSE /\ driver = "unloaded"
  BY DEF Init
<1>3. QED
  BY <1>1, <1>2 DEF Registered

LEMMA RegisteredStep == Registered /\ [Next]_vars => Registered'
<1> SUFFICES ASSUME Registered, [Next]_vars
             PROVE  Registered'
  OBVIOUS
<1> USE PlatformConstants DEF Registered, boot, uhal
<1>1. CASE UNCHANGED <<uhal, arch, cpufreq>>
  BY <1>1
<1>2. CASE CreateClass \/ CreateDevice \/ DeviceFails
  <2>1. UNCHANGED <<arch, cpufreq>>
    BY <1>2 DEF CreateClass, CreateDevice, DeviceFails
  <2>2. CASE CreateClass
    <3>1. driver' = "device" /\ class' /\ class' \in BOOLEAN
      BY <2>2 DEF CreateClass
    <3>2. driver = "unloaded" /\ device' = device
      BY <2>2 DEF CreateClass
    <3>3. ~device /\ device' \in BOOLEAN
      BY <3>2
    <3>4. ~device'
      BY <3>2, <3>3
    <3>5. QED
      BY <2>1, <3>1, <3>3, <3>4
  <2>3. CASE CreateDevice
    <3>1. driver' = "chrdev" /\ device' /\ device' \in BOOLEAN
      BY <2>3 DEF CreateDevice
    <3>2. driver = "device" /\ class' = class
      BY <2>3 DEF CreateDevice
    <3>3. class /\ class' \in BOOLEAN
      BY <3>2
    <3>4. class'
      BY <3>2, <3>3
    <3>5. QED
      BY <2>1, <3>1, <3>3, <3>4
  <2>4. CASE DeviceFails
    <3>1. driver = "device" /\ driver' = "destroy_class" /\ UNCHANGED <<class, device>>
      BY <2>4 DEF DeviceFails
    <3>2. QED
      BY <2>1, <3>1
  <2>5. QED
    BY <1>2, <2>2, <2>3, <2>4
<1>3. CASE RegisterChrdev \/ ChrdevFails \/ UhalExit
  <2>1. /\ driver \in {"chrdev", "loaded"} /\ driver' \in {"loaded", "destroy_device"}
        /\ UNCHANGED <<class, device, arch, cpufreq>>
    BY <1>3 DEF RegisterChrdev, ChrdevFails, UhalExit
  <2>2. class /\ device
    BY <2>1
  <2>3. class' /\ device'
    BY <2>1, <2>2
  <2>4. QED
    BY <2>1, <2>3
<1>4. CASE DestroyDevice \/ DestroyClass
  <2>1. UNCHANGED <<arch, cpufreq>>
    BY <1>4 DEF DestroyDevice, DestroyClass
  <2>2. CASE DestroyDevice
    <3>1. driver' = "destroy_class" /\ ~device' /\ device' \in BOOLEAN
      BY <2>2 DEF DestroyDevice
    <3>2. driver = "destroy_device" /\ class' = class
      BY <2>2 DEF DestroyDevice
    <3>3. class /\ class' \in BOOLEAN
      BY <3>2
    <3>4. class'
      BY <3>2, <3>3
    <3>5. QED
      BY <2>1, <3>1, <3>3, <3>4
  <2>3. CASE DestroyClass
    <3>1. driver' = "unloaded" /\ ~class' /\ class' \in BOOLEAN
      BY <2>3 DEF DestroyClass
    <3>2. driver = "destroy_class" /\ device' = device
      BY <2>3 DEF DestroyClass
    <3>3. ~device /\ device' \in BOOLEAN
      BY <3>2
    <3>4. ~device'
      BY <3>2, <3>3
    <3>5. QED
      BY <2>1, <3>1, <3>3, <3>4
  <2>4. QED
    BY <1>4, <2>2, <2>3
<1>5. CASE UhalOpen \/ UhalRelease
  BY <1>5 DEF UhalOpen, UhalRelease
<1>6. ASSUME NEW a \in Archs, ArchInit(a) \/ ArchExit(a)
      PROVE  Registered'
  BY <1>6 DEF ArchInit, ArchExit
<1>7. CASE OtherDriver
  BY <1>7 DEF OtherDriver
<1>8. QED
  BY <1>1, <1>2, <1>3, <1>4, <1>5, <1>6, <1>7 DEF Next, vars, Boot, IoctlInit

\* The rest of the types.
Counted ==
  /\ lists \in BOOLEAN /\ quantum_enabled \in BOOLEAN
  /\ majors \in Nat /\ files \in Nat

LEMMA CountedStep == Counted /\ [Next]_vars => Counted'
<1> SUFFICES ASSUME Counted, [Next]_vars
             PROVE  Counted'
  OBVIOUS
<1>1. lists' \in BOOLEAN /\ quantum_enabled' \in BOOLEAN
  <2>1. CASE Boot \/ IoctlInit
    BY <2>1 DEF Counted, Boot, IoctlInit
  <2>2. CASE UNCHANGED boot
    BY <2>2 DEF Counted, boot
  <2>3. QED
    BY <2>1, <2>2
    DEF Next, vars, CreateClass, CreateDevice, DeviceFails, RegisterChrdev, ChrdevFails,
        UhalExit, DestroyDevice, DestroyClass, UhalOpen, UhalRelease, ArchInit, ArchExit,
        OtherDriver
<1>2. majors' \in Nat /\ files' \in Nat
  BY DEF Counted, Next, vars, uhal, Boot, IoctlInit, CreateClass, CreateDevice,
     DeviceFails, RegisterChrdev, ChrdevFails, UhalExit, DestroyDevice, DestroyClass,
     UhalOpen, UhalRelease, ArchInit, ArchExit, OtherDriver
<1>3. QED
  BY <1>1, <1>2 DEF Counted

LEMMA CountedInvariant == Spec => []Counted
<1>1. Init => Counted
  <2> SUFFICES ASSUME Init
               PROVE  Counted
    OBVIOUS
  <2>1. lists \in BOOLEAN /\ quantum_enabled \in BOOLEAN
    BY Zenon DEF Init
  <2>2. majors \in Nat /\ files \in Nat
    BY DEF Init
  <2>3. QED
    BY <2>1, <2>2 DEF Counted
<1>2. QED
  BY <1>1, CountedStep, PTL DEF Spec

LEMMA RegisteredInvariant == Spec => []Registered
BY RegisteredInit, RegisteredStep, PTL DEF Spec

\* Wherever a load fails, and at every moment of an exit, the device does not
\* outlive its class, and in the end both are destroyed.
THEOREM UhalIsUndone == Spec => []UhalUndone
<1>1. Registered => UhalUndone
  BY DEF Registered, UhalUndone
<1>2. QED
  BY <1>1, RegisteredInvariant, PTL

\* Only the unload of an architecture takes its cpufreq driver from the kernel.
THEOREM CpufreqIsOwned == Spec => CpufreqOwned
<1>1. ASSUME Registered, Registered', [Next]_vars, NEW a \in Archs
      PROVE  /\ cpufreq' = a => a \in arch'
             /\ cpufreq = a /\ cpufreq' # a => a \in arch \ arch'
  <2>1. cpufreq' = a => a \in arch'
    BY <1>1 DEF Registered
  <2>2. ASSUME cpufreq = a, cpufreq' # a
        PROVE  a \in arch \ arch'
    <3>1. PICK b \in Archs : ArchExit(b)
      BY <1>1, <2>2, PlatformConstants
      DEF Next, vars, boot, uhal, Boot, CreateClass, CreateDevice, DeviceFails, RegisterChrdev,
          ChrdevFails, UhalExit, DestroyDevice, DestroyClass, UhalOpen, UhalRelease, IoctlInit,
          ArchInit, OtherDriver
    <3>2. b = a
      BY <3>1, <2>2 DEF ArchExit
    <3>3. QED
      BY <3>1, <3>2 DEF ArchExit
  <2>3. QED
    BY <2>1, <2>2
<1>2. Registered /\ Registered' /\ [Next]_vars =>
        [\A a \in Archs :
           /\ cpufreq' = a => a \in arch'
           /\ cpufreq = a /\ cpufreq' # a => a \in arch \ arch']_vars
  BY <1>1
<1>3. QED
  BY <1>2, RegisteredInvariant, PTL DEF Spec, CpufreqOwned

(****************************************************************************)
(* The list of devices                                                      *)
(****************************************************************************)
InHand(d) == \E t \in Tasks : pc[t] # "idle" /\ dev[t] = d

\* R holds the devices a walk may come to.  Their links lead to the head, as each
\* step goes down in rank, and no init that is in progress touches them, but for
\* the back link of the first.
Ring(R, rank) ==
  /\ R \subseteq Devices /\ rank \in [Devices -> Nat]
  /\ next[Head] \in R \cup {Head}
  /\ \A d \in R :
        /\ state[d] = "live" /\ ~InHand(d)
        /\ next[d] # Head => next[d] \in R /\ rank[next[d]] < rank[d]
  /\ \A t \in Tasks :
        /\ pc[t] # "idle" => first[t] \in R \cup {Head}
        /\ pc[t] = "publish" => next[dev[t]] = first[t] /\ prev[dev[t]] = Head
  /\ next[Head] # Head =>
        \/ prev[next[Head]] = Head
        \/ \E t \in Tasks : pc[t] = "publish" /\ first[t] = next[Head]

\* Tasks hold devices of their own, and the exit is at the front of the ring.
Held ==
  /\ \A t \in Tasks : pc[t] # "idle" =>
        /\ module = "loaded"
        /\ dev[t] \in Devices /\ state[dev[t]] = "live"
        /\ \A u \in Tasks : pc[u] # "idle" /\ dev[u] = dev[t] => u = t
  /\ module = "exiting" => cursor = next[Head]

Ringed == module # "unloaded" => \E R, rank : Ring(R, rank)

ListInv == ListTypeOK /\ Held /\ Ringed

LEMMA ListInvInit == Init => ListInv
<1> SUFFICES ASSUME Init
             PROVE  ListInv
  OBVIOUS
<1> USE ListConstants DEF Init, ListInit
<1>1. ListTypeOK
  <2>1. next \in [Nodes -> Nodes \cup {None}] /\ prev \in [Nodes -> Nodes \cup {None}]
    OBVIOUS
  <2>2. state \in [Devices -> {"none", "live", "freed"}]
    OBVIOUS
  <2>3. pc \in [Tasks -> {"idle", "link", "publish"}]
    OBVIOUS
  <2>4. dev \in [Tasks -> Devices \cup {None}] /\ first \in [Tasks -> Nodes \cup {None}]
    OBVIOUS
  <2>5. module = "unloaded" /\ cursor \in Nodes \cup {None} /\ overlapped \in BOOLEAN
    OBVIOUS
  <2>6. QED
    BY <2>1, <2>2, <2>3, <2>4, <2>5 DEF ListTypeOK
<1>2. Held /\ Ringed
  BY DEF Held, Ringed
<1>3. QED
  BY <1>1, <1>2 DEF ListInv

LEMMA LoadListKeeps == ListInv /\ LoadList => ListInv'
<1> SUFFICES ASSUME ListInv, LoadList
             PROVE  ListInv'
  OBVIOUS
<1> USE ListConstants DEF ListInv, LoadList, call, Nodes
<1>1. ListTypeOK'
  BY DEF ListTypeOK
<1>2. Held'
  BY DEF Held
<1>3. Ring({}, [d \in Devices |-> 0])'
  <2>1. \A t \in Tasks : pc'[t] = "idle"
    BY DEF Held
  <2>2. next'[Head] = Head
    BY DEF ListTypeOK
  <2>3. QED
    BY <2>1, <2>2 DEF Ring
<1>4. QED
  BY <1>1, <1>2, <1>3 DEF Ringed

LEMMA InitBeginKeeps ==
  ASSUME ListInv, NEW t \in Tasks, NEW d \in Devices, InitBegin(t, d)
  PROVE  ListInv'
<1> USE ListConstants DEF ListInv, InitBegin, Nodes
<1>1. PICK R, rank : Ring(R, rank)
  BY DEF Ringed
<1>2. ListTypeOK'
  BY DEF ListTypeOK
<1>3. Held'
  BY DEF Held, ListTypeOK
<1>4. Ring(R, rank)'
  <2>1. /\ pc'[t] = "link" /\ dev'[t] = d /\ first'[t] = next[Head]
        /\ \A u \in Tasks \ {t} : pc'[u] = pc[u] /\ dev'[u] = dev[u] /\ first'[u] = first[u]
    BY DEF ListTypeOK
  <2>2. d \notin R /\ next' = next /\ prev' = prev /\ next[Head] \in R \cup {Head}
    BY <1>1 DEF Ring
  <2>3. ASSUME NEW e \in R
        PROVE  /\ state'[e] = "live" /\ ~InHand(e)'
               /\ next'[e] # Head => next'[e] \in R /\ rank[next'[e]] < rank[e]
    BY <1>1, <2>1, <2>2 DEF Ring, InHand, ListTypeOK
  <2>4. ASSUME NEW u \in Tasks
        PROVE  /\ pc'[u] # "idle" => first'[u] \in R \cup {Head}
               /\ pc'[u] = "publish" => next'[dev'[u]] = first'[u] /\ prev'[dev'[u]] = Head
    <3>1. CASE u = t
      BY <3>1, <2>1, <2>2
    <3>2. CASE u # t
      BY <3>2, <1>1, <2>1, <2>2 DEF Ring
    <3>3. QED
      BY <3>1, <3>2
  <2>5. \A u \in Tasks : pc[u] = "publish" => u # t
    OBVIOUS
  <2>6. next'[Head] # Head =>
          \/ prev'[next'[Head]] = Head
          \/ \E u \in Tasks : pc'[u] = "publish" /\ first'[u] = next'[Head]
    BY <1>1, <2>1, <2>2, <2>5 DEF Ring
  <2>7. R \subseteq Devices /\ rank \in [Devices -> Nat]
    BY <1>1 DEF Ring
  <2>8. QED
    BY <2>2, <2>3, <2>4, <2>6, <2>7 DEF Ring
<1>5. QED
  BY <1>2, <1>3, <1>4 DEF Ringed

LEMMA LinkKeeps ==
  ASSUME ListInv, NEW t \in Tasks, Link(t)
  PROVE  ListInv'
<1> USE ListConstants DEF ListInv, Link, Nodes
<1>1. PICK R, rank : Ring(R, rank)
  BY DEF Ringed, Held
<1>2. /\ first[t] \in R \cup {Head} /\ dev[t] \in Devices \ R
      /\ R \subseteq Devices
  BY <1>1 DEF Ring, InHand, Held
<1>3. /\ next' = [next EXCEPT ![dev[t]] = first[t]]
      /\ prev' = [prev EXCEPT ![first[t]] = dev[t], ![dev[t]] = Head]
  OBVIOUS
<1>4. /\ next'[dev[t]] = first[t] /\ prev'[dev[t]] = Head
      /\ \A n \in Nodes : n # dev[t] => next'[n] = next[n]
      /\ \A n \in Nodes : n # dev[t] /\ n # first[t] => prev'[n] = prev[n]
  BY <1>2, <1>3 DEF ListTypeOK
<1>5. ListTypeOK'
  BY <1>2 DEF ListTypeOK
<1>6. Held'
  BY DEF Held, ListTypeOK
<1>7. Ring(R, rank)'
  <2>1. /\ R \subseteq Devices /\ rank \in [Devices -> Nat]
        /\ next'[Head] \in R \cup {Head} /\ next'[Head] = next[Head]
    BY <1>1, <1>2, <1>4 DEF Ring
  <2>2. ASSUME NEW d \in R
        PROVE  /\ state'[d] = "live" /\ ~InHand(d)'
               /\ next'[d] # Head => next'[d] \in R /\ rank[next'[d]] < rank[d]
    BY <1>1, <1>2, <1>4 DEF Ring, InHand, ListTypeOK
  <2>3. ASSUME NEW u \in Tasks
        PROVE  /\ pc'[u] # "idle" => first'[u] \in R \cup {Head}
               /\ pc'[u] = "publish" => next'[dev'[u]] = first'[u] /\ prev'[dev'[u]] = Head
    <3>1. CASE u = t
      BY <3>1, <1>2, <1>4
    <3>2. CASE u # t
      <4>1. pc'[u] = pc[u] /\ dev'[u] = dev[u] /\ first'[u] = first[u]
        BY <3>2 DEF ListTypeOK
      <4>2. pc[u] = "publish" =>
              dev[u] \in Devices /\ dev[u] # dev[t] /\ dev[u] # first[t]
        BY <3>2, <1>1, <1>2 DEF Held, Ring, InHand
      <4>3. QED
        BY <4>1, <4>2, <1>1, <1>4 DEF Ring
    <3>3. QED
      BY <3>1, <3>2
  <2>4. ASSUME next'[Head] # Head
        PROVE  \/ prev'[next'[Head]] = Head
               \/ \E u \in Tasks : pc'[u] = "publish" /\ first'[u] = next'[Head]
    <3>1. CASE first[t] = next[Head]
      BY <3>1, <2>1 DEF ListTypeOK
    <3>2. CASE first[t] # next[Head]
      <4>1. prev'[next[Head]] = prev[next[Head]]
        BY <3>2, <2>4, <2>1, <1>2, <1>4
      <4>2. \A u \in Tasks : pc[u] = "publish" => pc'[u] = "publish"
        BY DEF ListTypeOK
      <4>3. QED
        BY <4>1, <4>2, <2>1, <2>4, <1>1 DEF Ring
    <3>3. QED
      BY <3>1, <3>2
  <2>5. QED
    BY <2>1, <2>2, <2>3, <2>4 DEF Ring
<1>8. QED
  BY <1>5, <1>6, <1>7 DEF Ringed

LEMMA PublishKeeps ==
  ASSUME ListInv, NEW t \in Tasks, Publish(t)
  PROVE  ListInv'
<1> USE ListConstants DEF ListInv, Publish, Nodes
<1>1. PICK R, rank : Ring(R, rank)
  BY DEF Ringed, Held
<1>d. PICK d : d = dev[t]
  OBVIOUS
<1>s. PICK S : S = R \cup {d}
  OBVIOUS
<1>o. PICK order :
        order = [rank EXCEPT ![d] = IF first[t] = Head THEN 0 ELSE rank[first[t]] + 1]
  OBVIOUS
<1>2. /\ first[t] \in R \cup {Head} /\ d \in Devices \ R /\ state[d] = "live"
      /\ R \subseteq Devices /\ next[d] = first[t] /\ prev[d] = Head
  BY <1>1, <1>d DEF Ring, InHand, Held
<1>3. ListTypeOK'
  BY <1>2, <1>d DEF ListTypeOK
<1>4. Held'
  BY DEF Held, ListTypeOK
<1>5. /\ next'[Head] = d /\ \A n \in Devices : next'[n] = next[n]
      /\ prev' = prev /\ state' = state
  BY <1>2, <1>d DEF ListTypeOK
<1>6. /\ pc'[t] = "idle"
      /\ \A u \in Tasks \ {t} : pc'[u] = pc[u] /\ dev'[u] = dev[u] /\ first'[u] = first[u]
  BY DEF ListTypeOK
<1>7. /\ order \in [Devices -> Nat]
      /\ \A e \in R : order[e] = rank[e]
      /\ first[t] # Head => order[first[t]] < order[d]
  <2>1. rank \in [Devices -> Nat]
    BY <1>1 DEF Ring
  <2>2. first[t] # Head => rank[first[t]] \in Nat
    BY <2>1, <1>2
  <2>3. \A e \in R : order[e] = rank[e]
    BY <2>1, <1>2, <1>o
  <2>4. order[d] = IF first[t] = Head THEN 0 ELSE rank[first[t]] + 1
    BY <2>1, <1>2, <1>o
  <2>5. QED
    BY <2>1, <2>2, <2>3, <2>4, <1>2, <1>o
<1>8. ASSUME NEW e \in S
      PROVE  /\ state'[e] = "live" /\ ~InHand(e)'
             /\ next'[e] # Head => next'[e] \in S /\ order[next'[e]] < order[e]
  <2>1. CASE e = d
    <3>1. ~InHand(d)'
      BY <1>6, <1>d DEF InHand, Held
    <3>2. QED
      BY <2>1, <3>1, <1>2, <1>5, <1>7, <1>s
  <2>2. CASE e \in R
    <3>1. ~InHand(e)'
      BY <2>2, <1>1, <1>6 DEF Ring, InHand
    <3>2. QED
      BY <2>2, <3>1, <1>1, <1>2, <1>5, <1>7, <1>s DEF Ring
  <2>3. QED
    BY <2>1, <2>2, <1>s
<1>9. ASSUME NEW u \in Tasks
      PROVE  /\ pc'[u] # "idle" => first'[u] \in S \cup {Head}
             /\ pc'[u] = "publish" => next'[dev'[u]] = first'[u] /\ prev'[dev'[u]] = Head
  <2>1. CASE u = t
    BY <2>1, <1>6
  <2>2. CASE u # t
    BY <2>2, <1>1, <1>5, <1>6, <1>s DEF Ring, Held
  <2>3. QED
    BY <2>1, <2>2
<1>10. Ring(S, order)'
  <2>1. S \subseteq Devices /\ next'[Head] \in S \cup {Head}
    BY <1>2, <1>5, <1>s
  <2>2. prev'[next'[Head]] = Head
    BY <1>2, <1>5
  <2>3. QED
    BY <2>1, <2>2, <1>7, <1>8, <1>9 DEF Ring
<1>11. QED
  BY <1>3, <1>4, <1>10 DEF Ringed

LEMMA ExitBeginKeeps == ListInv /\ ExitBegin => ListInv'
<1> SUFFICES ASSUME ListInv, ExitBegin
             PROVE  ListInv'
  OBVIOUS
<1> USE ListConstants DEF ListInv, ExitBegin, call, Nodes
<1>1. PICK R, rank : Ring(R, rank)
  BY DEF Ringed
<1>2. ListTypeOK'
  BY DEF ListTypeOK
<1>3. Held'
  BY DEF Held
<1>4. Ring(R, rank)'
  BY <1>1 DEF Ring, InHand
<1>5. QED
  BY <1>2, <1>3, <1>4 DEF Ringed

\* The front of the ring is a live device with the head on both its sides, and
\* what is behind it is the ring without it.
LEMMA CleanupKeeps == ListInv /\ Cleanup => ListInv' /\ state[cursor] = "live"
<1> SUFFICES ASSUME ListInv, Cleanup
             PROVE  ListInv' /\ state[cursor] = "live"
  OBVIOUS
<1> USE ListConstants DEF ListInv, Cleanup, call, Nodes
<1>1. PICK R, rank : Ring(R, rank)
  BY DEF Ringed
<1>2. /\ cursor \in R /\ R \subseteq Devices /\ state[cursor] = "live"
      /\ \A t \in Tasks : pc[t] = "idle"
      /\ prev[cursor] = Head /\ cursor = next[Head]
      /\ next[cursor] # Head => next[cursor] \in R /\ rank[next[cursor]] < rank[cursor]
  BY <1>1 DEF Ring, Held
<1>s. PICK S : S = {d \in R : rank[d] < rank[cursor]}
  OBVIOUS
<1>3. cursor \notin S /\ S \subseteq R /\ next[cursor] \in S \cup {Head}
  BY <1>1, <1>2, <1>s DEF Ring
<1>4. /\ next'[Head] = next[cursor] /\ \A d \in S : next'[d] = next[d]
      /\ next[cursor] # Head => prev'[next[cursor]] = Head
      /\ \A d \in S : state'[d] = state[d]
  BY <1>2, <1>3 DEF ListTypeOK
<1>5. ListTypeOK'
  BY <1>2 DEF ListTypeOK
<1>6. Held'
  BY <1>2, <1>4 DEF Held
<1>7. ASSUME NEW d \in S
      PROVE  /\ state'[d] = "live" /\ ~InHand(d)'
             /\ next'[d] # Head => next'[d] \in S /\ rank[next'[d]] < rank[d]
  <2>1. d \in R /\ rank[d] < rank[cursor] /\ rank \in [Devices -> Nat]
    BY <1>1, <1>s DEF Ring
  <2>2. next[d] # Head =>
          /\ next[d] \in R /\ rank[next[d]] < rank[d]
          /\ rank[next[d]] \in Nat /\ rank[d] \in Nat /\ rank[cursor] \in Nat
    BY <2>1, <1>1, <1>2 DEF Ring
  <2>3. state'[d] = "live" /\ ~InHand(d)'
    BY <2>1, <1>1, <1>2, <1>4 DEF Ring, InHand
  <2>4. next[d] # Head => rank[next[d]] < rank[cursor]
    BY <2>1, <2>2
  <2>5. next[d] # Head => next[d] \in S
    BY <2>2, <2>4, <1>s
  <2>6. next'[d] = next[d]
    BY <1>4
  <2>7. QED
    BY <2>2, <2>3, <2>5, <2>6
<1>8. Ring(S, rank)'
  <2>1. S \subseteq Devices /\ rank \in [Devices -> Nat] /\ next'[Head] \in S \cup {Head}
    BY <1>1, <1>2, <1>3, <1>4 DEF Ring
  <2>2. \A t \in Tasks : pc'[t] = "idle"
    BY <1>2
  <2>3. next'[Head] # Head => prev'[next'[Head]] = Head
    BY <1>4
  <2>4. QED
    BY <2>1, <2>2, <2>3, <1>7 DEF Ring
<1>9. QED
  BY <1>2, <1>5, <1>6, <1>8 DEF Ringed

LEMMA ExitEndKeeps == ListInv /\ ExitEnd => ListInv'
BY ListConstants DEF ListInv, ExitEnd, call, ListTypeOK, Held, Ringed, Nodes

LEMMA ListInvStep == ListInv /\ [Next]_vars => ListInv'
<1> SUFFICES ASSUME ListInv, [Next]_vars
             PROVE  ListInv'
  OBVIOUS
<1>1. CASE ListStep
  BY <1>1, LoadListKeeps, InitBeginKeeps, LinkKeeps, PublishKeeps, ExitBeginKeeps,
     CleanupKeeps, ExitEndKeeps
  DEF ListStep
<1>2. CASE UNCHANGED listVars
  <2>1. UNCHANGED <<module, next, prev, state, pc, dev, first, cursor, overlapped>>
    BY <1>2 DEF listVars, call
  <2>2. ListTypeOK' /\ Held'
    BY <2>1 DEF ListInv, ListTypeOK, Held
  <2>3. ASSUME NEW R, NEW rank, Ring(R, rank)
        PROVE  Ring(R, rank)'
    BY <2>1, <2>3 DEF Ring, InHand
  <2>4. QED
    BY <2>1, <2>2, <2>3 DEF ListInv, Ringed
<1>3. QED
  BY <1>1, <1>2
  DEF Next, vars, Boot, CreateClass, CreateDevice, RegisterChrdev, DeviceFails,
      ChrdevFails, UhalExit, DestroyDevice, DestroyClass, UhalOpen, UhalRelease, IoctlInit, ArchInit, ArchExit, OtherDriver

LEMMA ListInvariant == Spec => []ListInv
BY ListInvInit, ListInvStep, PTL DEF Spec

\* Every variable has its type.
THEOREM PlatformTypes == Spec => []TypeOK
<1>1. ListInv /\ Registered /\ Counted => TypeOK
  BY DEF ListInv, Registered, Counted, TypeOK
<1>2. QED
  BY <1>1, ListInvariant, RegisteredInvariant, CountedInvariant, PTL

\* Whatever initialisations overlapped, the exit comes to devices with a state
\* only, so it frees none twice and follows no link of a device it freed.
THEOREM ExitFreesLive == Spec => [][Cleanup => state[cursor] = "live"]_vars
<1>1. ListInv /\ [Next]_vars => [Cleanup => state[cursor] = "live"]_vars
  BY CleanupKeeps
<1>2. QED
  BY <1>1, ListInvariant, PTL DEF Spec

(****************************************************************************)
(* The walk                                                                 *)
(****************************************************************************)
Below == {p \in Nat \X Nat : p[1] < p[2]}

\* A set of numbers that is not empty has a least one.
LEMMA LeastNumber ==
  ASSUME NEW S \in SUBSET Nat, S # {}
  PROVE  \E n \in S : \A m \in S : ~(m < n)
<1>1. IsWellFoundedOn(Below, Nat)
  BY NatLessThanWellFounded DEF OpToRel, Below
<1>2. PICK n \in S : \A m \in S : <<m, n>> \notin Below
  BY <1>1, WFMin
<1>3. ASSUME NEW m \in S
      PROVE  ~(m < n)
  <2>1. m \in Nat /\ n \in Nat
    OBVIOUS
  <2>2. QED
    BY <2>1, <1>2 DEF Below
<1>4. QED
  BY <1>3

\* What is walked is a closed set, ...
LEMMA WalkedClosed ==
  ASSUME ListTypeOK
  PROVE  Closed(Walked) /\ Walked \subseteq Nodes \cup {None}
<1>1. next[Head] \in Nodes \cup {None} /\ \A d \in Devices : next[d] \in Nodes \cup {None}
  BY DEF ListTypeOK, Nodes
<1>2. QED
  BY <1>1 DEF Walked, Closed

\* ... and the least of them.
LEMMA WalkedLeast ==
  ASSUME NEW S \in SUBSET (Nodes \cup {None}), Closed(S)
  PROVE  Walked \subseteq S
BY DEF Walked

\* A set without the head that the walk does not leave would have a device of
\* least rank.
LEMMA RingLeads ==
  ASSUME NEW R, NEW rank, Ring(R, rank), NEW S, Closed(S)
  PROVE  Head \in S
<1> SUFFICES ASSUME Head \notin S
             PROVE  FALSE
  OBVIOUS
<1>1. /\ R \subseteq Devices /\ next[Head] \in S \cap R
      /\ \A d \in S \cap R : next[d] \in S \cap R /\ rank[next[d]] < rank[d]
  BY DEF Ring, Closed
<1>r. \A d \in R : rank[d] \in Nat
  BY <1>1 DEF Ring
<1>2. PICK d \in S \cap R : \A e \in S \cap R : ~(rank[e] < rank[d])
  <2>1. PICK T : T = {rank[d] : d \in S \cap R}
    OBVIOUS
  <2>2. T \in SUBSET Nat /\ T # {}
    BY <2>1, <1>1, <1>r
  <2>3. PICK n \in T : \A m \in T : ~(m < n)
    BY <2>2, LeastNumber
  <2>4. QED
    BY <2>1, <2>3
<1>3. QED
  BY <1>1, <1>2

\* So the walk comes to the head, and on the way to devices of the ring only.
LEMMA WalkedRing ==
  ASSUME ListInv, module # "unloaded"
  PROVE  /\ Head \in Walked
         /\ \A d \in Walked \ {Head} : d \in Devices /\ state[d] = "live" /\ ~InHand(d)
         /\ next[Head] \in Walked /\ \A n \in Walked : next[n] \in Walked
<1> USE ListConstants
<1>1. PICK R, rank : Ring(R, rank)
  BY DEF ListInv, Ringed
<1>2. Closed(Walked)
  BY WalkedClosed DEF ListInv
<1>3. Head \in Walked
  BY <1>1, <1>2, RingLeads
<1>4. R \subseteq Devices /\ Closed(R \cup {Head})
  BY <1>1 DEF Ring, Closed
<1>5. Walked \subseteq R \cup {Head}
  BY <1>4, WalkedLeast DEF Nodes
<1>6. QED
  BY <1>1, <1>2, <1>3, <1>4, <1>5 DEF Ring, Closed

\* Whatever initialisations overlapped, a walk of the list comes back to the
\* head and finds allocated states only.
THEOREM WalksEnd == Spec => []WalkEnds
<1>1. ListInv => WalkEnds
  BY WalkedRing DEF WalkEnds
<1>2. QED
  BY <1>1, ListInvariant, PTL

\* A walk whose links are as they were comes to the same nodes.
LEMMA WalkedSame ==
  ASSUME ListTypeOK, ListTypeOK', next'[Head] = next[Head],
         \A d \in Walked \cap Devices : next'[d] = next[d]
  PROVE  Walked' = Walked
<1>1. /\ Closed(Walked) /\ Walked \subseteq Nodes \cup {None}
      /\ Closed(Walked)' /\ Walked' \subseteq Nodes \cup {None}
  <2>1. Closed(Walked) /\ Walked \subseteq Nodes \cup {None}
    BY WalkedClosed
  <2>2. next'[Head] \in Nodes \cup {None} /\ \A d \in Devices : next'[d] \in Nodes \cup {None}
    BY DEF ListTypeOK, Nodes
  <2>3. Closed(Walked)' /\ Walked' \subseteq Nodes \cup {None}
    BY <2>2 DEF Walked, Closed
  <2>4. QED
    BY <2>1, <2>3
<1>2. Walked' \subseteq Walked
  BY <1>1 DEF Walked, Closed
<1>3. Walked \subseteq Walked'
  <2>1. Closed(Walked')
    BY <1>1, <1>2 DEF Closed
  <2>2. QED
    BY <1>1, <2>1, WalkedLeast
<1>4. QED
  BY <1>2, <1>3

(****************************************************************************)
(* Initialisations that do not overlap                                      *)
(****************************************************************************)
\* As long as none have overlapped, one task at a time has a device in hand and
\* has read what still follows the head, every other device with a state is on
\* the walk, and each link back undoes the one forward, but for the link to a
\* device about to be published.
InLine ==
  ~overlapped =>
    /\ \A t, u \in Tasks : pc[t] # "idle" /\ pc[u] # "idle" => t = u
    /\ \A t \in Tasks : pc[t] # "idle" => first[t] = next[Head]
    /\ \A t \in Tasks : pc[t] = "publish" => prev[first[t]] = dev[t]
    /\ (\A t \in Tasks : pc[t] # "publish") /\ module # "unloaded" => prev[next[Head]] = Head
    /\ module # "unloaded" =>
         /\ \A d \in Devices : state[d] = "live" => d \in Walked \/ InHand(d)
         /\ \A d \in Walked \cap Devices : prev[next[d]] = d
    /\ module = "unloaded" => \A d \in Devices : state[d] # "live"

LEMMA InLineInit == Init => InLine
BY DEF Init, ListInit, InLine

LEMMA LoadListInLine == ListInv /\ InLine /\ LoadList => InLine'
<1> SUFFICES ASSUME ListInv, InLine, LoadList, ~overlapped
             PROVE  InLine'
  BY DEF LoadList, InLine
<1> USE ListConstants
<1>1. \A t \in Tasks : pc'[t] = "idle"
  BY DEF ListInv, Held, LoadList, call
<1>2. next'[Head] = Head /\ prev'[Head] = Head
  BY DEF ListInv, ListTypeOK, LoadList, Nodes
<1>3. \A d \in Devices : state'[d] # "live"
  BY DEF InLine, LoadList
<1>4. Walked' \cap Devices = {}
  BY <1>2 DEF Walked, Closed, Nodes
<1>5. QED
  BY <1>1, <1>2, <1>3, <1>4 DEF InLine, LoadList

LEMMA InitBeginInLine ==
  ASSUME ListInv, InLine, NEW t \in Tasks, NEW d \in Devices, InitBegin(t, d)
  PROVE  InLine'
<1> SUFFICES ASSUME ~overlapped'
             PROVE  InLine'
  BY DEF InLine
<1> USE ListConstants
<1>1. ~overlapped /\ \A u \in Tasks : pc[u] = "idle"
  BY DEF InitBegin
<1>2. /\ module = "loaded" /\ UNCHANGED <<module, next, prev>>
      /\ pc'[t] = "link" /\ dev'[t] = d /\ first'[t] = next[Head]
      /\ \A u \in Tasks \ {t} : pc'[u] = "idle"
      /\ \A e \in Devices : state'[e] = "live" => state[e] = "live" \/ e = d
  BY <1>1 DEF InitBegin, ListInv, ListTypeOK
<1>3. Walked' = Walked
  BY <1>2 DEF Walked, Closed
<1>4. \A e \in Devices : state'[e] = "live" => e \in Walked' \/ InHand(e)'
  BY <1>1, <1>2, <1>3 DEF InLine, InHand
<1>5. QED
  BY <1>1, <1>2, <1>3, <1>4 DEF InLine

LEMMA LinkInLine ==
  ASSUME ListInv, InLine, NEW t \in Tasks, Link(t)
  PROVE  InLine'
<1> SUFFICES ASSUME ~overlapped
             PROVE  InLine'
  BY DEF InLine, Link
<1> USE ListConstants
<1>0. pc[t] = "link" /\ module = "loaded"
  BY DEF Link, ListInv, Held
<1>1. /\ Walked \subseteq Nodes /\ Head \in Walked
      /\ \A d \in Walked \cap Devices : ~InHand(d)
      /\ next[Head] \in Walked /\ \A n \in Walked : next[n] \in Walked
  BY <1>0, WalkedRing DEF Nodes
<1>2. /\ dev[t] \in Devices \ Walked /\ first[t] = next[Head] /\ first[t] \in Nodes
      /\ \A u \in Tasks \ {t} : pc[u] = "idle"
  BY <1>0, <1>1 DEF ListInv, Held, InHand, InLine
<1>3. /\ pc'[t] = "publish" /\ \A u \in Tasks \ {t} : pc'[u] = "idle"
      /\ UNCHANGED <<module, state, dev, first, overlapped>>
  BY <1>2 DEF Link, ListInv, ListTypeOK
<1>4. /\ prev'[first[t]] = dev[t]
      /\ \A n \in Nodes : n # dev[t] => next'[n] = next[n]
      /\ \A n \in Nodes : n # dev[t] /\ n # first[t] => prev'[n] = prev[n]
  BY <1>1, <1>2 DEF Link, ListInv, ListTypeOK, Nodes
<1>5. Walked' = Walked
  <2>1. ListTypeOK'
    BY LinkKeeps DEF ListInv
  <2>2. next'[Head] = next[Head] /\ \A d \in Walked \cap Devices : next'[d] = next[d]
    BY <1>2, <1>4 DEF Nodes
  <2>3. QED
    BY <2>1, <2>2, WalkedSame DEF ListInv
<1>6. ASSUME NEW d \in Walked \cap Devices
      PROVE  prev'[next'[d]] = d
  <2>1. prev[next[d]] = d /\ next'[d] = next[d] /\ next[d] \in Walked
    BY <1>0, <1>1, <1>2, <1>4 DEF InLine, Nodes
  <2>2. next[d] # first[t]
    <3>1. prev[next[Head]] = Head
      BY <1>0, <1>2 DEF InLine
    <3>2. QED
      BY <2>1, <3>1, <1>2
  <2>3. QED
    BY <2>1, <2>2, <1>1, <1>2, <1>4
<1>7. ASSUME NEW d \in Devices, state'[d] = "live"
      PROVE  d \in Walked' \/ InHand(d)'
  BY <1>0, <1>2, <1>3, <1>5, <1>7 DEF InLine, InHand
<1>8. next'[Head] = first'[t] /\ prev'[first'[t]] = dev'[t]
  BY <1>2, <1>3, <1>4 DEF Nodes
<1>9. QED
  BY <1>0, <1>3, <1>5, <1>6, <1>7, <1>8 DEF InLine

\* The walk takes in the device that is published.
LEMMA PublishInLine ==
  ASSUME ListInv, InLine, NEW t \in Tasks, Publish(t)
  PROVE  InLine'
<1> SUFFICES ASSUME ~overlapped
             PROVE  InLine'
  BY DEF InLine, Publish
<1> USE ListConstants
<1>0. pc[t] = "publish" /\ module = "loaded"
  BY DEF Publish, ListInv, Held
<1>d. PICK d : d = dev[t]
  OBVIOUS
<1>1. /\ Walked \subseteq Nodes /\ Head \in Walked
      /\ \A e \in Walked \cap Devices : ~InHand(e)
      /\ next[Head] \in Walked /\ \A n \in Walked : next[n] \in Walked
  BY <1>0, WalkedRing DEF Nodes
<1>2. /\ d \in Devices \ Walked /\ first[t] = next[Head] /\ prev[first[t]] = d
      /\ \A u \in Tasks \ {t} : pc[u] = "idle"
  BY <1>0, <1>1, <1>d DEF ListInv, Held, InHand, InLine
<1>3. next[d] = next[Head] /\ prev[d] = Head
  BY <1>0, <1>2, <1>d DEF ListInv, Ringed, Ring
<1>4. /\ \A u \in Tasks : pc'[u] = "idle"
      /\ UNCHANGED <<module, state, prev, overlapped>>
      /\ next'[Head] = d /\ \A e \in Devices : next'[e] = next[e]
  BY <1>2, <1>d DEF Publish, ListInv, ListTypeOK, Nodes
<1>5. Walked' = Walked \cup {d}
  <2>w. PICK W : W = Walked
    OBVIOUS
  <2>1. Closed(W \cup {d})'
    BY <1>1, <1>2, <1>3, <1>4, <2>w DEF Closed
  <2>2. Walked' \subseteq Walked \cup {d}
    <3>1. W \cup {d} \in SUBSET (Nodes \cup {None})
      BY <1>1, <1>2, <2>w DEF Nodes
    <3>2. QED
      BY <2>1, <2>w, <3>1 DEF Walked, Closed
  <2>3. ListTypeOK'
    BY PublishKeeps DEF ListInv
  <2>4. Closed(Walked)' /\ Walked' \subseteq Nodes \cup {None}
    <3>1. next'[Head] \in Nodes \cup {None} /\ \A e \in Devices : next'[e] \in Nodes \cup {None}
      BY <2>3 DEF ListTypeOK, Nodes
    <3>2. QED
      BY <3>1 DEF Walked, Closed
  <2>5. d \in Walked' /\ Closed(Walked')
    BY <2>4, <1>2, <1>3, <1>4 DEF Closed
  <2>6. Walked \subseteq Walked'
    BY <2>4, <2>5, WalkedLeast
  <2>7. QED
    BY <2>2, <2>5, <2>6
<1>6. ASSUME NEW e \in Walked' \cap Devices
      PROVE  prev'[next'[e]] = e
  <2>1. CASE e = d
    BY <2>1, <1>2, <1>3, <1>4
  <2>2. CASE e # d
    BY <2>2, <1>0, <1>4, <1>5 DEF InLine
  <2>3. QED
    BY <2>1, <2>2
<1>7. ASSUME NEW e \in Devices, state'[e] = "live"
      PROVE  e \in Walked'
  BY <1>0, <1>2, <1>4, <1>5, <1>7, <1>d DEF InLine, InHand
<1>8. prev'[next'[Head]] = Head
  BY <1>3, <1>4
<1>9. QED
  BY <1>0, <1>4, <1>6, <1>7, <1>8 DEF InLine

\* The walk loses the device that is cleaned up.
LEMMA CleanupInLine == ListInv /\ InLine /\ Cleanup => InLine'
<1> SUFFICES ASSUME ListInv, InLine, Cleanup
             PROVE  InLine'
  OBVIOUS
<1>o. overlapped' = overlapped
  BY DEF Cleanup
<1> SUFFICES ASSUME ~overlapped
             PROVE  InLine'
  BY <1>o DEF InLine
<1> USE ListConstants
<1>c. PICK c : c = cursor
  OBVIOUS
<1>0. /\ module = "exiting" /\ c # Head /\ c = next[Head]
      /\ \A t \in Tasks : pc[t] = "idle"
  BY <1>c DEF Cleanup, ListInv, Held
<1>1. /\ Walked \subseteq Nodes /\ Head \in Walked /\ c \in Walked \cap Devices
      /\ \A n \in Walked : next[n] \in Walked
  BY <1>0, WalkedRing DEF Nodes
<1>2. /\ prev[c] = Head
      /\ \A d \in Walked \cap Devices : prev[next[d]] = d
      /\ \A d \in Devices : state[d] = "live" => d \in Walked
  BY <1>0 DEF InLine, InHand
<1>3. \A d \in Walked \cap Devices : next[d] # c
  BY <1>1, <1>2
<1>4. /\ next' = [next EXCEPT ![Head] = next[c], ![c] = None]
      /\ prev' = [prev EXCEPT ![next[c]] = Head, ![c] = None]
      /\ UNCHANGED <<module, pc, dev, first, overlapped>>
      /\ state' = [state EXCEPT ![c] = "freed"]
  BY <1>2, <1>c DEF Cleanup, call
<1>5. /\ next'[Head] = next[c] /\ \A d \in Devices \ {c} : next'[d] = next[d]
      /\ prev'[next[c]] = Head
      /\ \A n \in Nodes : n # c /\ n # next[c] => prev'[n] = prev[n]
  BY <1>1, <1>3, <1>4 DEF ListInv, ListTypeOK, Nodes
<1>6. Walked' = Walked \ {c}
  <2>w. PICK W : W = Walked
    OBVIOUS
  <2>1. Closed(W \ {c})'
    BY <1>1, <1>3, <1>5, <2>w DEF Closed
  <2>2. Walked' \subseteq Walked \ {c}
    <3>1. W \ {c} \in SUBSET (Nodes \cup {None})
      BY <1>1, <2>w DEF Nodes
    <3>2. QED
      BY <2>1, <2>w, <3>1 DEF Walked, Closed
  <2>3. ListTypeOK'
    BY CleanupKeeps DEF ListInv
  <2>4. Closed(Walked)' /\ Walked' \subseteq Nodes \cup {None}
    <3>1. next'[Head] \in Nodes \cup {None} /\ \A e \in Devices : next'[e] \in Nodes \cup {None}
      BY <2>3 DEF ListTypeOK, Nodes
    <3>2. QED
      BY <3>1 DEF Walked, Closed
  <2>5. Closed(Walked' \cup {c})
    BY <2>2, <2>4, <1>0, <1>5 DEF Closed
  <2>6. Walked \subseteq Walked' \cup {c}
    <3>1. Walked' \cup {c} \in SUBSET (Nodes \cup {None})
      BY <2>4, <1>1 DEF Nodes
    <3>2. QED
      BY <2>5, <3>1, WalkedLeast
  <2>7. QED
    BY <2>2, <2>6
<1>7. ASSUME NEW d \in Walked' \cap Devices
      PROVE  prev'[next'[d]] = d
  <2>1. d \in Walked \cap Devices /\ d # c /\ next'[d] = next[d]
    BY <1>5, <1>6
  <2>2. next[d] \in Nodes /\ next[d] # c /\ next[d] # next[c]
    BY <2>1, <1>1, <1>2, <1>3
  <2>3. QED
    BY <2>1, <2>2, <1>2, <1>5
<1>8. ASSUME NEW d \in Devices, state'[d] = "live"
      PROVE  d \in Walked'
  BY <1>1, <1>2, <1>4, <1>6, <1>8 DEF ListInv, ListTypeOK
<1>9. QED
  BY <1>0, <1>4, <1>5, <1>7, <1>8 DEF InLine

LEMMA ExitInLine == ListInv /\ InLine /\ (ExitBegin \/ ExitEnd) => InLine'
<1> SUFFICES ASSUME ListInv, InLine, ExitBegin \/ ExitEnd, ~overlapped
             PROVE  InLine'
  BY DEF InLine, ExitBegin, ExitEnd
<1> USE ListConstants
<1>1. /\ UNCHANGED <<next, prev, state, pc, dev, first, overlapped>>
      /\ module # "unloaded" /\ \A t \in Tasks : pc[t] = "idle"
  BY DEF ExitBegin, ExitEnd, call, ListInv, Held
<1>2. Walked' = Walked
  BY <1>1 DEF Walked, Closed
<1>3. CASE ExitBegin
  BY <1>1, <1>2, <1>3 DEF InLine, InHand, ExitBegin
<1>4. CASE ExitEnd
  <2>1. next[Head] = Head
    BY <1>4 DEF ExitEnd, ListInv, Held
  <2>2. Walked \cap Devices = {}
    BY <2>1 DEF Walked, Closed, Nodes
  <2>3. \A d \in Devices : state[d] # "live"
    BY <2>2, <1>1 DEF InLine, InHand
  <2>4. QED
    BY <1>1, <1>4, <2>3 DEF InLine, ExitEnd
<1>5. QED
  BY <1>3, <1>4

LEMMA InLineStep == ListInv /\ InLine /\ [Next]_vars => InLine'
<1> SUFFICES ASSUME ListInv, InLine, [Next]_vars
             PROVE  InLine'
  OBVIOUS
<1>1. CASE ListStep
  BY <1>1, LoadListInLine, InitBeginInLine, LinkInLine, PublishInLine, CleanupInLine, ExitInLine
  DEF ListStep
<1>2. CASE UNCHANGED listVars
  <2>1. UNCHANGED <<module, next, prev, state, pc, dev, first, overlapped>>
    BY <1>2 DEF listVars, call
  <2>2. Walked' = Walked /\ \A d : InHand(d)' = InHand(d)
    BY <2>1 DEF Walked, Closed, InHand
  <2>3. QED
    BY <2>1, <2>2 DEF InLine
<1>3. QED
  BY <1>1, <1>2
  DEF Next, vars, Boot, CreateClass, CreateDevice, RegisterChrdev, DeviceFails,
      ChrdevFails, UhalExit, DestroyDevice, DestroyClass, UhalOpen, UhalRelease, IoctlInit, ArchInit, ArchExit, OtherDriver

\* As long as no two initialisations overlapped, the ring holds both ways, each
\* initialised device is on it, and the unload frees every state.
THEOREM NoDeviceLost == Spec => []NoneLost
<1>1. ListInv /\ InLine => NoneLost
  <2> SUFFICES ASSUME ListInv, InLine, ~overlapped, \A t \in Tasks : pc[t] = "idle"
               PROVE  /\ module = "loaded" =>
                           /\ \A n \in Walked : prev[next[n]] = n
                           /\ \A d \in Devices : state[d] = "live" => d \in Walked
                      /\ module = "unloaded" => \A d \in Devices : state[d] # "live"
    BY DEF NoneLost
  <2>1. module = "loaded" => Walked \subseteq Devices \cup {Head}
    BY WalkedRing
  <2>2. QED
    BY <2>1 DEF InLine, InHand
<1>2. QED
  BY <1>1, InLineInit, InLineStep, ListInvariant, PTL DEF Spec
==============================================================================
