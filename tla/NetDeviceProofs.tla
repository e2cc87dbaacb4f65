---------------------------- MODULE NetDeviceProofs ----------------------------
(****************************************************************************)
(* Proofs about NetDevice, for any number of senders and any packets: no    *)
(* update of the statistics is lost, a copy of them is off by one packet at *)
(* most, an open device has a valid address, and only a call that the exit  *)
(* or a failed load overlaps may find its device freed.                     *)
(****************************************************************************)
EXTENDS NetDevice, TLAPS

\* The sender that holds the queue is the one that transmits, and what it has
\* read is what it will add to.
Exclusive ==
  \A s \in Senders :
    /\ pc[s] # "idle" <=> queue = s
    /\ pc[s] = "packets" => read[s] = tx_packets
    /\ pc[s] = "bytes" => read[s] = tx_bytes
    /\ pc[s] # "idle" => len[s] \in Lens

\* The statistics, with the transmit in progress named by the queue.
Exact ==
  /\ tx_packets = sent \/ tx_packets = sent + 1
  /\ \A s \in Senders : queue = s => (pc[s] = "bytes" <=> tx_packets = sent + 1)
  /\ queue = Nobody => tx_packets = sent
  /\ tx_bytes = bytes

\* The kernel finds the device, and transmits on it, only while it is allocated and
\* not unregistered; and it does not call ctrlxt_net_open without a valid address.
Placed ==
  /\ registered => dev = "live"
  /\ stage = "registering" => dev = "live"
  /\ stage = "in" => registered
  /\ registered => stage \in {"registering", "in"}
  /\ queue # Nobody => registered
  /\ call.op = "open" /\ call.on # "freed" => addr \in Valid
  /\ call.op # "none" /\ call.on = "unregistered" => stage = "unregistered"

Base == TypeOK /\ Placed /\ UpIsReady /\ Exclusive /\ Exact

LEMMA BaseInit == Init => Base
<1> SUFFICES ASSUME Init
             PROVE  Base
  OBVIOUS
<1> USE NetConstants
<1>1. TypeOK
  <2>1. pc \in [Senders -> {"idle", "packets", "bytes"}]
    BY DEF Init
  <2>2. len \in [Senders -> Nat] /\ read \in [Senders -> Nat]
    BY DEF Init
  <2>3. /\ copy \in [packets : Nat, bytes : Nat] /\ owed \in [packets : Nat, bytes : Nat]
        /\ copied \in {"none", "packets", "all"}
    BY DEF Init
  <2>4. /\ stage \in {"out", "registering", "in", "unregistered"}
        /\ call \in [op : {"none", "open", "stop", "set_mac"}, addr : Addrs,
                    on : {"registered", "unregistered", "freed"}]
        /\ dev \in {"null", "live", "freed"} /\ registered \in BOOLEAN /\ up \in BOOLEAN
        /\ addr \in Addrs /\ queue \in Senders \cup {Nobody}
    BY DEF Init, NoCall
  <2>5. tx_packets \in Nat /\ tx_bytes \in Nat /\ sent \in Nat /\ bytes \in Nat
    BY DEF Init
  <2>6. QED
    BY <2>1, <2>2, <2>3, <2>4, <2>5 DEF TypeOK
<1>2. Placed /\ UpIsReady /\ Exclusive /\ Exact
  BY DEF Init, NoCall, Placed, UpIsReady, Exclusive, Exact
<1>3. QED
  BY <1>1, <1>2 DEF Base

LEMMA BaseStep == Base /\ [Next]_vars => Base'
<1> SUFFICES ASSUME Base, [Next]_vars
             PROVE  Base'
  OBVIOUS
<1> USE NetConstants DEF Base, TypeOK, Placed, UpIsReady, Exclusive, Exact,
        device, stats, xmit, history, reader, NoCall, Enter
<1>1. CASE AllocDev
  <2>1. TypeOK'
    BY <1>1 DEF AllocDev
  <2>2. Placed' /\ UpIsReady'
    BY <1>1 DEF AllocDev
  <2>3. Exclusive'
    BY <1>1 DEF AllocDev
  <2>4. Exact'
    BY <1>1 DEF AllocDev
  <2>5. QED
    BY <2>1, <2>2, <2>3, <2>4
<1>2. CASE AllocDevFails
  BY <1>2 DEF AllocDevFails
<1>3. CASE ListDev
  BY <1>3 DEF ListDev
<1>4. CASE Loaded
  BY <1>4 DEF Loaded
<1>5. CASE Unregister
  BY <1>5 DEF Unregister
<1>6. CASE FreeDev
  BY <1>6 DEF FreeDev
<1>7. CASE OpenBegin
  BY <1>7 DEF OpenBegin
<1>8. CASE OpenEnd
  BY <1>8 DEF OpenEnd
<1>9. CASE StopBegin
  BY <1>9 DEF StopBegin
<1>10. CASE StopEnd
  BY <1>10 DEF StopEnd
<1>11. ASSUME NEW a \in Addrs, SetMacBegin(a)
      PROVE  Base'
  BY <1>11 DEF SetMacBegin
<1>12. CASE SetMacEnd
  BY <1>12 DEF SetMacEnd
<1>13. ASSUME NEW s \in Senders, NEW n \in Lens, XmitBegin(s, n)
      PROVE  Base'
  BY <1>13 DEF XmitBegin
<1>14. ASSUME NEW s \in Senders, XmitPackets(s)
      PROVE  Base'
  BY <1>14 DEF XmitPackets
<1>15. ASSUME NEW s \in Senders, XmitBytes(s)
      PROVE  Base'
  BY <1>15 DEF XmitBytes
<1>16. CASE CopyPackets
  BY <1>16 DEF CopyPackets
<1>17. CASE CopyBytes
  BY <1>17 DEF CopyBytes
<1>18. CASE UNCHANGED vars
  BY <1>18 DEF vars
<1>19. QED
  BY <1>1, <1>2, <1>3, <1>4, <1>5, <1>6, <1>7, <1>8, <1>9, <1>10,
     <1>11, <1>12, <1>13, <1>14, <1>15, <1>16, <1>17, <1>18
  DEF Next, Module, Callback

LEMMA BaseInvariant == Spec => []Base
BY BaseInit, BaseStep, PTL DEF Spec

\* Every variable has its type.
THEOREM NetTypes == Spec => []TypeOK
<1>1. Base => TypeOK
  BY DEF Base
<1>2. QED
  BY <1>1, BaseInvariant, PTL

\* The transmit queue alone makes the plain updates of the statistics exact.
THEOREM NoUpdateLost == Spec => []StatsExact
<1>1. Base => StatsExact
  <2> SUFFICES ASSUME Base
               PROVE  StatsExact
    OBVIOUS
  <2> USE NetConstants DEF Base, TypeOK, Exclusive, Exact
  <2>1. CASE \E s \in Senders : pc[s] = "bytes"
    <3>1. PICK s \in Senders : pc[s] = "bytes"
      BY <2>1
    <3>2. tx_packets = sent + 1
      BY <3>1
    <3>3. QED
      BY <2>1, <3>2 DEF StatsExact
  <2>2. CASE ~\E s \in Senders : pc[s] = "bytes"
    <3>1. tx_packets = sent
      BY <2>2
    <3>2. QED
      BY <2>2, <3>1 DEF StatsExact
  <2>3. QED
    BY <2>1, <2>2
<1>2. QED
  BY <1>1, BaseInvariant, PTL

\* Whatever overlaps without a common lock, an open device has a valid address, and
\* only a call that the exit or a failed load overlaps may find its device freed.
THEOREM OpenIsReady == Spec => []UpIsReady
<1>1. Base => UpIsReady
  BY DEF Base
<1>2. QED
  BY <1>1, BaseInvariant, PTL

(****************************************************************************)
(* Copies of the statistics                                                 *)
(****************************************************************************)
\* From its first step on, the copy of a reader has packets enough, and the bytes it
\* has yet to copy are not fewer than it is owed.
Owed ==
  copied # "none" =>
    /\ copy.packets \in {owed.packets, owed.packets + 1}
    /\ owed.bytes <= bytes
    /\ copied = "all" => owed.bytes <= copy.bytes /\ copy.bytes <= bytes
    /\ stage \in {"registering", "in"}

LEMMA OwedStep == Base /\ Base' /\ Owed /\ [Next]_vars => Owed'
<1> SUFFICES ASSUME Base, Base', Owed, [Next]_vars
             PROVE  Owed'
  OBVIOUS
<1>t. TypeOK /\ TypeOK' /\ Placed /\ Exact
  BY DEF Base
<1>1. CASE Module
  BY <1>1, <1>t DEF Module, AllocDev, AllocDevFails, ListDev, Loaded, Unregister,
     FreeDev, Owed, Placed, history, reader
<1>2. CASE OpenBegin \/ OpenEnd \/ StopBegin \/ StopEnd
           \/ (\E a \in Addrs : SetMacBegin(a)) \/ SetMacEnd
  BY <1>2 DEF OpenBegin, OpenEnd, StopBegin, StopEnd, SetMacBegin, SetMacEnd, Owed,
     history, reader
<1>3. ASSUME NEW s \in Senders, NEW n \in Lens, XmitBegin(s, n)
      PROVE  Owed'
  BY <1>3 DEF XmitBegin, Owed, device, history, reader
<1>4. ASSUME NEW s \in Senders, XmitPackets(s)
      PROVE  Owed'
  BY <1>4 DEF XmitPackets, Owed, device, history, reader
<1>5. ASSUME NEW s \in Senders, XmitBytes(s)
      PROVE  Owed'
  <2>1. /\ bytes' = bytes + len[s] /\ len[s] \in Nat
        /\ UNCHANGED <<copied, copy, owed, stage>>
    BY <1>5, <1>t DEF XmitBytes, TypeOK, reader, device
  <2>2. bytes <= bytes' /\ bytes \in Nat /\ bytes' \in Nat
    BY <2>1, <1>t DEF TypeOK
  <2>3. owed.bytes \in Nat /\ copy.bytes \in Nat
    BY <1>t DEF TypeOK
  <2>4. QED
    BY <2>1, <2>2, <2>3 DEF Owed
<1>6. CASE CopyPackets
  <2>1. /\ copied' = "packets" /\ copy'.packets = tx_packets
        /\ owed' = [packets |-> sent, bytes |-> bytes]
        /\ registered /\ UNCHANGED <<bytes, stage>>
    BY <1>6, <1>t DEF CopyPackets, device, history, TypeOK
  <2>2. tx_packets \in {sent, sent + 1} /\ stage \in {"registering", "in"}
    BY <2>1, <1>t DEF Exact, Placed
  <2>3. QED
    BY <2>1, <2>2, <1>t DEF Owed, TypeOK
<1>7. CASE CopyBytes
  <2>1. /\ copied = "packets" /\ copy' = [copy EXCEPT !.bytes = tx_bytes]
        /\ UNCHANGED <<owed, stage, bytes>>
    BY <1>7 DEF CopyBytes, device, history
  <2>2. copy'.packets = copy.packets /\ copy'.bytes = bytes
    BY <2>1, <1>t DEF Exact, TypeOK
  <2>3. QED
    BY <2>1, <2>2, <1>t DEF Owed, TypeOK
<1>8. CASE UNCHANGED vars
  BY <1>8 DEF vars, device, history, reader, Owed
<1>9. QED
  BY <1>1, <1>2, <1>3, <1>4, <1>5, <1>6, <1>7, <1>8 DEF Next, Callback

\* A reader that copies the statistics without a lock misses the bytes of one packet
\* at most, the one whose transmit was in progress.
THEOREM CopyIsClose == Spec => []CopyFits
<1>1. Init => Owed
  BY DEF Init, Owed
<1>2. Owed => CopyFits
  BY DEF Owed, CopyFits
<1>3. QED
  BY <1>1, <1>2, BaseInvariant, OwedStep, PTL DEF Spec
==============================================================================
