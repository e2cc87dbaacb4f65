------------------------------ MODULE DeviceList ------------------------------
(****************************************************************************)
(* The list of quantum devices, quantum/quantum.c: a doubly linked ring     *)
(* through the devices and a head, without a lock.                          *)
(*                                                                          *)
(* list_add reads what follows the head, links the device and publishes it; *)
(* two calls of quantum_device_init may do so at the same time.  The device *)
(* belongs to the caller of init, who keeps it until the module is unloaded *)
(* and does not initialise it twice.  An init that gets no memory changes   *)
(* nothing.  Gates and measurements are stubs.  Callers pin the module.     *)
(****************************************************************************)
EXTENDS Integers, FiniteSets

CONSTANTS
  Tasks,    \* the callers of quantum_device_init
  Devices,  \* struct quantum_device
  Head,     \* quantum_devices
  None      \* no node

ASSUME ListConstants ==
  Head \notin Devices /\ None \notin Devices \cup {Head} /\ IsFiniteSet(Devices)

Nodes == Devices \cup {Head}

VARIABLES
  module,      \* "unloaded", "loaded" or "exiting"
  next, prev,  \* the list_head of each node
  state,       \* the quantum state of each device: "none", "live" or "freed"
  pc, dev,     \* where each task is, and with which device
  first,       \* what it read behind the head
  cursor,      \* where the walk of quantum_exit is
  overlapped   \* history: two inits ran at the same time

call == <<pc, dev, first>>
listVars == <<module, next, prev, state, call, cursor, overlapped>>

ListInit ==
  /\ module = "unloaded"
  /\ next = [n \in Nodes |-> None] /\ prev = [n \in Nodes |-> None]
  /\ state = [d \in Devices |-> "none"]
  /\ pc = [t \in Tasks |-> "idle"]
  /\ dev = [t \in Tasks |-> None] /\ first = [t \in Tasks |-> None]
  /\ cursor = None
  /\ overlapped = FALSE

\* The module is loaded with an empty list, and devices that an exit cleaned up
\* are new ones.
LoadList ==
  /\ module = "unloaded"
  /\ module' = "loaded"
  /\ next' = [next EXCEPT ![Head] = Head]
  /\ prev' = [prev EXCEPT ![Head] = Head]
  /\ state' = [d \in Devices |-> IF state[d] = "freed" THEN "none" ELSE state[d]]
  /\ UNCHANGED <<call, cursor, overlapped>>

\* quantum_device_init allocates the state, and list_add reads the first device.
InitBegin(t, d) ==
  /\ module = "loaded" /\ pc[t] = "idle"
  /\ state[d] = "none"
  /\ state' = [state EXCEPT ![d] = "live"]
  /\ dev' = [dev EXCEPT ![t] = d]
  /\ first' = [first EXCEPT ![t] = next[Head]]
  /\ pc' = [pc EXCEPT ![t] = "link"]
  /\ overlapped' = (overlapped \/ \E u \in Tasks : pc[u] # "idle")
  /\ UNCHANGED <<module, next, prev, cursor>>

\* Mutant: the links are set after the device is published, if at all.
LinkBackOnly(t) ==
  /\ pc[t] = "link"
  /\ prev' = [prev EXCEPT ![first[t]] = dev[t], ![dev[t]] = Head]
  /\ pc' = [pc EXCEPT ![t] = "publish"]
  /\ UNCHANGED <<module, next, state, dev, first, cursor, overlapped>>

\* Mutant: the links of a list with one direction.
LinkForwardOnly(t) ==
  /\ pc[t] = "link"
  /\ prev' = [prev EXCEPT ![dev[t]] = Head]
  /\ next' = [next EXCEPT ![dev[t]] = first[t]]
  /\ pc' = [pc EXCEPT ![t] = "publish"]
  /\ UNCHANGED <<module, state, dev, first, cursor, overlapped>>

\* first->prev = dev; dev->next = first; dev->prev = head.
Link(t) ==
  /\ pc[t] = "link"
  /\ prev' = [prev EXCEPT ![first[t]] = dev[t], ![dev[t]] = Head]
  /\ next' = [next EXCEPT ![dev[t]] = first[t]]
  /\ pc' = [pc EXCEPT ![t] = "publish"]
  /\ UNCHANGED <<module, state, dev, first, cursor, overlapped>>

\* head->next = dev.
Publish(t) ==
  /\ pc[t] = "publish"
  /\ next' = [next EXCEPT ![Head] = dev[t]]
  /\ pc' = [pc EXCEPT ![t] = "idle"]
  /\ dev' = [dev EXCEPT ![t] = None]
  /\ first' = [first EXCEPT ![t] = None]
  /\ UNCHANGED <<module, prev, state, cursor, overlapped>>

\* quantum_exit walks the list ...
ExitBegin ==
  /\ module = "loaded" /\ \A t \in Tasks : pc[t] = "idle"
  /\ module' = "exiting"
  /\ cursor' = next[Head]
  /\ UNCHANGED <<next, prev, state, call, overlapped>>

\* ... and cleans up each device: its state is freed, then it leaves the list.
Cleanup ==
  /\ module = "exiting" /\ cursor # Head
  /\ state' = [state EXCEPT ![cursor] = "freed"]
  /\ next' = [next EXCEPT ![prev[cursor]] = next[cursor], ![cursor] = None]
  /\ prev' = [prev EXCEPT ![next[cursor]] = prev[cursor], ![cursor] = None]
  /\ cursor' = next[cursor]
  /\ UNCHANGED <<module, call, overlapped>>

ExitEnd ==
  /\ module = "exiting" /\ cursor = Head
  /\ module' = "unloaded" /\ cursor' = None
  /\ UNCHANGED <<next, prev, state, call, overlapped>>

ListStep ==
  \/ LoadList
  \/ \E t \in Tasks : (\E d \in Devices : InitBegin(t, d)) \/ Link(t) \/ Publish(t)
  \/ ExitBegin \/ Cleanup \/ ExitEnd

(****************************************************************************)
(* Properties                                                               *)
(****************************************************************************)
ListTypeOK ==
  /\ module \in {"unloaded", "loaded", "exiting"}
  /\ next \in [Nodes -> Nodes \cup {None}] /\ prev \in [Nodes -> Nodes \cup {None}]
  /\ state \in [Devices -> {"none", "live", "freed"}]
  /\ pc \in [Tasks -> {"idle", "link", "publish"}]
  /\ dev \in [Tasks -> Devices \cup {None}]
  /\ first \in [Tasks -> Nodes \cup {None}]
  /\ cursor \in Nodes \cup {None}
  /\ overlapped \in BOOLEAN

\* A set that a walk from the head does not leave, until it is back at the head.
Closed(S) == next[Head] \in S /\ \A d \in S \cap Devices : next[d] \in S

\* The nodes such a walk comes to: the least of these sets.
Walked ==
  {n \in Nodes \cup {None} :
     \A S \in SUBSET (Nodes \cup {None}) : Closed(S) => n \in S}

\* A walk of the list comes back to the head, and finds only devices whose state
\* is allocated, whatever inits ran at the same time: exit ends, and frees no
\* state twice (lines 22 and 112-114).
WalkEnds ==
  module # "unloaded" =>
    /\ Head \in Walked
    /\ \A d \in Walked \ {Head} : d \in Devices /\ state[d] = "live"

\* As long as no two inits have overlapped, the ring holds in both directions
\* when no init runs, a device that was initialised is on it, and unloading
\* leaves no state behind (lines 17-22, 37-40 and 107-114).
NoneLost ==
  ~overlapped /\ (\A t \in Tasks : pc[t] = "idle") =>
    /\ module = "loaded" =>
         /\ \A n \in Walked : prev[next[n]] = n
         /\ \A d \in Devices : state[d] = "live" => d \in Walked
    /\ module = "unloaded" => \A d \in Devices : state[d] # "live"
==============================================================================
