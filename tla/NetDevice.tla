------------------------------- MODULE NetDevice -------------------------------
(****************************************************************************)
(* The network device, net/ctrlxt_net.c.                                    *)
(*                                                                          *)
(* The driver takes no lock (ctrlxt_net.lock is initialised and not used).  *)
(* What orders its callbacks is the kernel: alloc_etherdev gives the device *)
(* one transmit queue, and the kernel calls ndo_start_xmit with the lock of *)
(* the queue held, on a device that is registered and up; it opens, stops   *)
(* and addresses the device under its rtnl lock, one call at a time, and    *)
(* stops transmitting before it calls ndo_stop or unregisters.  The module  *)
(* registers and unregisters the device without the rtnl lock, so that a    *)
(* load that fails and the exit may overlap with a call.  Readers copy the  *)
(* statistics, of which ctrlxt_net_get_stats hands out the address, field   *)
(* by field, without a lock; a copy that the exit overlaps is dropped.      *)
(****************************************************************************)
EXTENDS Integers

CONSTANTS
  Senders,         \* the processors that transmit
  Lens,            \* the lengths of packets
  Addrs,           \* hardware addresses, ...
  Valid,           \* ... those is_valid_ether_addr accepts, ...
  Zero,            \* ... and what alloc_etherdev leaves
  Nobody,          \* the queue is free
  MaxPackets       \* bound: transmits start while fewer were sent

ASSUME NetConstants ==
  /\ Nobody \notin Senders
  /\ Lens \subseteq Nat
  /\ Valid \subseteq Addrs /\ Zero \in Addrs \ Valid
  /\ MaxPackets \in Nat

VARIABLES
  stage,                 \* where the load or the exit of the module is
  dev,                   \* ctrlxt_net.dev: "null", "live" or "freed"
  registered,            \* the kernel finds the device
  up,                    \* it is open, and its queue started
  addr,                  \* dev->dev_addr
  call,                  \* the call under the rtnl lock: its callback, its address,
                         \* and what became of the device it was called on
  queue,                 \* the holder of the lock of the transmit queue
  tx_packets, tx_bytes,  \* ctrlxt_net.stats
  pc, len, read,         \* of a transmit: where it is, its packet, what it read
  sent, bytes,           \* history: finished transmits and their lengths
  copied, copy,          \* what a reader has copied: "none", "packets", "all"
  owed                   \* history: sent and bytes as the reader copied tx_packets

device == <<stage, dev, registered, up, addr, call>>
stats == <<tx_packets, tx_bytes>>
xmit == <<queue, pc, len, read>>
history == <<sent, bytes>>
reader == <<copied, copy, owed>>
vars == <<device, stats, xmit, history, reader>>

NoCall == [op |-> "none", addr |-> Zero, on |-> "registered"]

Init ==
  /\ stage = "out" /\ dev = "null" /\ registered = FALSE /\ up = FALSE
  /\ addr = Zero /\ call = NoCall
  /\ tx_packets = 0 /\ tx_bytes = 0
  /\ queue = Nobody
  /\ pc = [s \in Senders |-> "idle"]
  /\ len = [s \in Senders |-> 0]
  /\ read = [s \in Senders |-> 0]
  /\ sent = 0 /\ bytes = 0
  /\ copied = "none" /\ copy = [packets |-> 0, bytes |-> 0]
  /\ owed = [packets |-> 0, bytes |-> 0]

(****************************************************************************)
(* Load and exit                                                            *)
(****************************************************************************)
\* The module is loaded with its statistics zero, and its device allocated ...
AllocDev ==
  /\ stage = "out"
  /\ stage' = "registering" /\ dev' = "live" /\ up' = FALSE /\ addr' = Zero
  /\ tx_packets' = 0 /\ tx_bytes' = 0 /\ sent' = 0 /\ bytes' = 0
  /\ UNCHANGED <<registered, call, xmit, reader>>

\* ... or not, and the load returns -ENOMEM.
AllocDevFails ==
  /\ stage = "out"
  /\ dev' = "null"
  /\ UNCHANGED <<stage, registered, up, addr, call, stats, xmit, history, reader>>

\* register_netdevice: from here the kernel finds the device, ...
ListDev ==
  /\ stage = "registering" /\ ~registered
  /\ registered' = TRUE
  /\ UNCHANGED <<stage, dev, up, addr, call, stats, xmit, history, reader>>

\* ... and the load succeeds.
Loaded ==
  /\ stage = "registering" /\ registered
  /\ stage' = "in"
  /\ UNCHANGED <<dev, registered, up, addr, call, stats, xmit, history, reader>>

\* Mutant: net_exit frees the device before it unregisters it.
UnregisterFreed ==
  /\ stage \in {"registering", "in"} /\ queue = Nobody
  /\ IF dev = "live"
     THEN dev' = "freed" /\ UNCHANGED <<stage, registered, up, copied>>
     ELSE /\ stage' = "unregistered" /\ registered' = FALSE /\ up' = FALSE
          /\ copied' = "none" /\ UNCHANGED dev
  /\ UNCHANGED <<addr, call, stats, xmit, history, copy, owed>>

\* The kernel stops the device and no longer finds it: in net_exit, or because
\* registering failed, before or after it was listed.  A call in progress goes on.
Unregister ==
  /\ stage \in {"registering", "in"} /\ queue = Nobody
  /\ stage' = "unregistered" /\ registered' = FALSE /\ up' = FALSE
  /\ call' = IF call.op = "none" \/ call.on = "freed"
               THEN call
               ELSE [call EXCEPT !.on = "unregistered"]
  /\ copied' = "none"
  /\ UNCHANGED <<dev, addr, stats, xmit, history, copy, owed>>

\* free_netdev, in net_exit or in the load that failed; the pointer is left.
FreeDev ==
  /\ stage = "unregistered"
  /\ stage' = "out" /\ dev' = "freed"
  /\ call' = IF call.op = "none" THEN call ELSE [call EXCEPT !.on = "freed"]
  /\ UNCHANGED <<registered, up, addr, stats, xmit, history, reader>>

(****************************************************************************)
(* Callbacks                                                                *)
(****************************************************************************)
\* A call under the rtnl lock finds the device.
Enter(op, a) ==
  /\ registered /\ call.op = "none"
  /\ call' = [op |-> op, addr |-> a, on |-> "registered"]

\* The kernel calls ndo_validate_addr, then ctrlxt_net_open ...
OpenBegin ==
  /\ ~up /\ addr \in Valid
  /\ Enter("open", Zero)
  /\ UNCHANGED <<stage, dev, registered, up, addr, stats, xmit, history, reader>>

\* ... which starts the queue of the device it was given.
OpenEnd ==
  /\ call.op = "open"
  /\ up' = (up \/ call.on # "freed")
  /\ call' = NoCall
  /\ UNCHANGED <<stage, dev, registered, addr, stats, xmit, history, reader>>

\* The kernel lets the transmits end, then calls ctrlxt_net_stop.
StopBegin ==
  /\ up /\ queue = Nobody
  /\ up' = FALSE
  /\ Enter("stop", Zero)
  /\ UNCHANGED <<stage, dev, registered, addr, stats, xmit, history, reader>>

StopEnd ==
  /\ call.op = "stop"
  /\ call' = NoCall
  /\ UNCHANGED <<stage, dev, registered, up, addr, stats, xmit, history, reader>>

\* ctrlxt_net_set_mac is called, on a device that is up or not ...
SetMacBegin(a) ==
  /\ Enter("set_mac", a)
  /\ UNCHANGED <<stage, dev, registered, up, addr, stats, xmit, history, reader>>

\* Mutant: any address is taken.
SetMacAny ==
  /\ call.op = "set_mac"
  /\ addr' = IF call.on # "freed" THEN call.addr ELSE addr
  /\ call' = NoCall
  /\ UNCHANGED <<stage, dev, registered, up, stats, xmit, history, reader>>

\* ... and refuses the address or writes it to the device it was given.
SetMacEnd ==
  /\ call.op = "set_mac"
  /\ addr' = IF call.addr \in Valid /\ call.on # "freed" THEN call.addr ELSE addr
  /\ call' = NoCall
  /\ UNCHANGED <<stage, dev, registered, up, stats, xmit, history, reader>>

\* Mutant: the device has a queue for each processor.
XmitBeginQueues(s, n) ==
  /\ registered /\ up /\ pc[s] = "idle" /\ sent < MaxPackets
  /\ queue' = s
  /\ pc' = [pc EXCEPT ![s] = "packets"]
  /\ len' = [len EXCEPT ![s] = n]
  /\ read' = [read EXCEPT ![s] = tx_packets]
  /\ UNCHANGED <<device, stats, history, reader>>

\* ctrlxt_net_xmit is called with a packet: tx_packets++ reads ...
XmitBegin(s, n) ==
  /\ registered /\ up /\ queue = Nobody /\ sent < MaxPackets
  /\ queue' = s
  /\ pc' = [pc EXCEPT ![s] = "packets"]
  /\ len' = [len EXCEPT ![s] = n]
  /\ read' = [read EXCEPT ![s] = tx_packets]
  /\ UNCHANGED <<device, stats, history, reader>>

\* ... and writes; tx_bytes += skb->len reads ...
XmitPackets(s) ==
  /\ pc[s] = "packets"
  /\ tx_packets' = read[s] + 1
  /\ read' = [read EXCEPT ![s] = tx_bytes]
  /\ pc' = [pc EXCEPT ![s] = "bytes"]
  /\ UNCHANGED <<device, tx_bytes, queue, len, history, reader>>

\* ... and writes; the packet is freed, and the kernel unlocks the queue.
XmitBytes(s) ==
  /\ pc[s] = "bytes"
  /\ tx_bytes' = read[s] + len[s]
  /\ sent' = sent + 1 /\ bytes' = bytes + len[s]
  /\ queue' = Nobody
  /\ pc' = [pc EXCEPT ![s] = "idle"]
  /\ UNCHANGED <<device, tx_packets, len, read, reader>>

\* A reader of the statistics copies tx_packets first ...
CopyPackets ==
  /\ registered
  /\ copied' = "packets"
  /\ copy' = [copy EXCEPT !.packets = tx_packets]
  /\ owed' = [packets |-> sent, bytes |-> bytes]
  /\ UNCHANGED <<device, stats, xmit, history>>

\* ... and then tx_bytes.
CopyBytes ==
  /\ copied = "packets"
  /\ copied' = "all"
  /\ copy' = [copy EXCEPT !.bytes = tx_bytes]
  /\ UNCHANGED <<owed, device, stats, xmit, history>>

Module ==
  AllocDev \/ AllocDevFails \/ ListDev \/ Loaded \/ Unregister \/ FreeDev

Callback ==
  \/ OpenBegin \/ OpenEnd \/ StopBegin \/ StopEnd
  \/ \E a \in Addrs : SetMacBegin(a)
  \/ SetMacEnd
  \/ \E s \in Senders :
        (\E n \in Lens : XmitBegin(s, n)) \/ XmitPackets(s) \/ XmitBytes(s)
  \/ CopyPackets \/ CopyBytes

Next == Module \/ Callback

Spec == Init /\ [][Next]_vars

(****************************************************************************)
(* Properties                                                               *)
(****************************************************************************)
TypeOK ==
  /\ stage \in {"out", "registering", "in", "unregistered"}
  /\ dev \in {"null", "live", "freed"}
  /\ registered \in BOOLEAN /\ up \in BOOLEAN
  /\ addr \in Addrs
  /\ call \in [op : {"none", "open", "stop", "set_mac"}, addr : Addrs,
              on : {"registered", "unregistered", "freed"}]
  /\ tx_packets \in Nat /\ tx_bytes \in Nat
  /\ queue \in Senders \cup {Nobody}
  /\ pc \in [Senders -> {"idle", "packets", "bytes"}]
  /\ len \in [Senders -> Nat] /\ read \in [Senders -> Nat]
  /\ sent \in Nat /\ bytes \in Nat
  /\ copied \in {"none", "packets", "all"}
  /\ copy \in [packets : Nat, bytes : Nat]
  /\ owed \in [packets : Nat, bytes : Nat]

\* No update of the statistics is lost, although each is a plain read and a
\* plain write (lines 119-120): they count every finished transmit, and
\* tx_packets the one in progress as soon as it has written it.
StatsExact ==
  /\ tx_packets = sent + (IF \E s \in Senders : pc[s] = "bytes" THEN 1 ELSE 0)
  /\ tx_bytes = bytes

\* A copy of the statistics may be torn, but by one packet at most: it counts the
\* packets whose transmits were finished when it read tx_packets, and perhaps
\* the one in progress, and its bytes are at least those of all the finished ones
\* (lines 119-120 and 138-141).
CopyFits ==
  copied = "all" =>
    /\ copy.packets \in {owed.packets, owed.packets + 1}
    /\ owed.bytes <= copy.bytes /\ copy.bytes <= bytes

\* A device that is up has a valid address, whatever is opened, addressed,
\* unloaded and loaded again meanwhile; and a call that no exit and no failed load
\* overlap finds the device registered and allocated to its end.  Lines 79-80
\* and 166-167 take no rtnl lock, and a call they overlap may find it freed.
UpIsReady ==
  /\ up => addr \in Valid
  /\ call.op # "none" /\ call.on = "registered" => registered /\ dev = "live"
==============================================================================
