# A TLA+ model of the CTRLxT kernel

CTRLxT is a set of Linux kernel modules, in C, for quantum devices. This
directory models the parts of it that keep state under concurrency and failure,
model-checks them on small instances with TLC, and proves what matters most for
every instance with TLAPS. Paths below are relative to `src/kernel/`.

- [The system](#the-system): every part, its state, operations and hazards
- [The modules](#the-modules) and how they correspond to the code
- [The runs](#the-runs): what TLC checks, with which bounds, and what it shows
- [Fairness](#fairness)
- [The proofs](#the-proofs)
- [Where the code does not do what it
  says](#where-the-code-does-not-do-what-it-says)
- [What is not modelled](#what-is-not-modelled) and [the plan](#the-plan)

`PROJECT.json` lists the same as data: components, runs, the lines of source
behind each definition, hazards, findings and theorems.

## The system

The headers and the C files have drifted apart (`security.h` declares a context
with a field `level` and an atomic count, `security.c` uses `security_level` and
a plain one). The models follow the C files and take constants from the headers.

| Component | State | Operations | What is hard | What makes it correct |
| --- | --- | --- | --- | --- |
| Quantum memory manager, `quantum/quantum_memory.c` | a locked list of blocks, a reference count in each, four atomics (total, allocated and maximal qubits) | init, alloc, free/put, get, set_max_qubits, get_stats, exit | references are taken and the quota is read without the lock; failures inside it | no block is used after it is freed, none is lost, the counters equal the listed blocks, the quota is overshot within a bound |
| Quantum device driver, `drivers/quantum/quantum_device.c` | one device structure, its open count, one pointer to a memory block, registrations with the kernel | init with rollback, open, release, five ioctls, exit | opens race; ioctls on one file race on the pointer; a lock that is never taken; failed registrations | the device is open once, the open count recovers, blocks are given back; the character device has a structure behind it, but after some failed loads |
| Error correction, `quantum/error_correction.c` | three ancilla qubits, a syndrome, a lock, two atomics | init, apply (measure, correct), get_stats, exit | every call of the library can fail with the lock held; the statistics are read without it; the ancilla carry over | rounds do not mix, a round corrects by its own measurement, counters are consistent; a flip is corrected, which is true of two of the three qubits |
| Quantum-classical interface, `quantum/quantum_classical.c` | one quantum state of eight qubits, a buffer, a lock, two atomics | init, classical-to-quantum, quantum-to-classical, controlled operation, get_stats, exit | calls error correction, and so takes its lock, inside its own; loops that fail half way | locks nest and are always released, a gate and its correction are one operation, counts match |
| Memory management, `mm/memory.c` | a list of regions, a bump pointer in the quantum region | init, alloc, free, exit | pieces freed in any order; the end of the region; a failed load | pieces do not overlap, what is freed is free again |
| Security, `security/security.c` | a global reference counted context, private ones, a level and flags in each | init, exit, create, get, put, set and get of level and flags, check_policy, init of mechanisms | the last put races with get and exit; level and flags are read apart | references are counted, none dangles; a check grants only what met the policy |
| Performance monitoring, `performance/performance.c` | contexts as in Security, metrics, global statistics, sampling of a context | as above for contexts; create, update, threshold of metrics; get and reset of statistics; start, stop and duration of sampling | statistics are updated under a lock, metrics and sampling without one | statistics fit a sequence of whole updates; durations lie within the sampling |
| File system, `fs/ctrlxt_fs.c` | a mount, a directory of files, two atomic counters; no lock | init with rollback, mount, create, remove, exit | a file can be found before it is counted; files share names; two removals unlink one file, as nobody holds the lock of the directory; a path reference that is never put | the counters follow the files, a failed load is undone |
| Network device, `net/ctrlxt_net.c` | a network device, its address and statistics; a lock that is never taken | init with rollback, open, stop, xmit, get_stats, set_mac, exit | statistics are plain fields; the address changes while the device is up; load and exit do not take the lock that orders the callbacks | no update is lost, a device that is up has a valid address |
| UHAL driver, `drivers/uhal/uhal_driver.c` | a class, a device and a character device | init with rollback, open, release, ioctl, exit | any of three calls fails; the exit names another major than the load was given | a failed load and an unload leave no class and no device; the major stays |
| Quantum device list, `quantum/quantum.c` | a doubly linked list of devices, a state in each | init, initialisation and cleanup of a device, gates and measurement (stubs that return 0), exit | the list has no lock | the exit walks it to its end and frees no state twice; no device is lost |
| Boot, `init/main.c` | two lists that stay empty, a flag, parameters nothing reads | calls the initialisation of three parts in order | no call can fail as written | order |
| Architecture support, `arch/*/arch.c` | a registration with the kernel, which takes one at a time | init, exit | a failed registration is only logged and is undone all the same | an architecture loses its registration by its own unload only |

They interact by direct calls. The device driver allocates and frees blocks of
the memory manager. The quantum-classical interface calls error correction under
its own lock. An ioctl of the UHAL driver calls the boot initialisation again.
Every module is loaded in link order (`Makefile`) and its exit runs when its
users are gone. All of them call a quantum library (`quantum_state_*`,
`quantum_gate_apply`) that is not in the repository.

## The modules

| Module | Models | Builds on |
| --- | --- | --- |
| `BlockPool` | abstract: a pool of reference counted blocks, each operation atomic | |
| `QuantumMemory` | `quantum_memory.c`, step by step | implements `BlockPool` |
| `QuantumDevice` | `quantum_device.c` | uses `BlockPool`, which `QuantumMemory` implements |
| `CorrectionRounds` | abstract: rounds of correction, one after the other | |
| `ErrorCorrection` | `error_correction.c`, step by step | implements `CorrectionRounds` |
| `QuantumClassical` | `quantum_classical.c` | extends `ErrorCorrection` and keeps to its rules for users |
| `MemoryRegion` | `memory.c` | |
| `ContextRefs` | the context life cycle that `security.c` and `performance.c` share | |
| `SecurityContext` | `security.c` | extends `ContextRefs` |
| `PerformanceMonitor` | `performance.c` | extends `ContextRefs` |
| `FileSystem` | `ctrlxt_fs.c` | |
| `NetDevice` | `ctrlxt_net.c` | |
| `DeviceList` | `quantum.c` | |
| `Platform` | `uhal_driver.c`, `main.c`, `arch/*/arch.c` | extends `DeviceList` |
| `QuantumMemoryProofs`, `QuantumDeviceProofs`, `MemoryRegionProofs`, `FileSystemProofs`, `NetDeviceProofs`, `PlatformProofs` | theorems | the module each is named for |
| `CorrectionProofs` | theorems | `QuantumClassical`, and so `ErrorCorrection` |
| `ContextProofs` | theorems | `SecurityContext` and `PerformanceMonitor` |
| `MC...` | instances for TLC | |

Conventions common to all:

- Variables have the names of the fields they model. `pc` (`loc` in
  `QuantumClassical`) says where each thread is in its call; an action is what
  the code does between two points at which another thread can notice it. Code
  inside a lock that nobody reads without the lock is one step with the lock or
  with the statement before it; each access to an atomic or an unlocked field is
  a step of its own. The memory is sequentially consistent.
- A call whose arguments are refused changes nothing and has no step.
- Failures of the calls the code makes (`kzalloc`, `quantum_state_alloc`, gates,
  registrations) are choices. For loads, a constant names the calls that fail in
  a run, so that a run can leave out a failure whose handling is a known
  finding and look past it.
- A definition whose comment says *Mutant* is a plausible fault of the next
  definition. No specification uses it; put in the place of the definition, it
  makes the property named in `PROJECT.json` fail, which shows that the property
  depends on that code.

### QuantumMemory

`alloc` reads `allocated_qubits` (`AllocBegin`), then `max_qubits`
(`AllocCheck`), then takes the lock (`AllocLock`). `kzalloc` gives out a block or
fails (`AllocKzalloc`, `AllocFail`); its quantum state is allocated and it is
listed, or it is freed again (`AllocBlock`, `AllocStateFail`). Then the two
counters are added to in two steps and the lock is released. `live` has the
blocks that are allocated and `states` those whose quantum state is, so what an
error path forgets would show in `NoLeak`.
`free` takes the lock, drops a reference (`FreeDec`), and when it was the last
subtracts in two steps, frees and unlocks. `Get` increments without the lock.
`set_max_qubits` compares, then stores: the `unsigned long` becomes an `int`
(`ToInt`), and the quota check compares a signed with an unsigned number
(`ExceedsLimit`). Callers keep the contract of a reference count: they put what
they hold and take references only on what somebody holds for them. `held` is
that history. The refinement mapping to `BlockPool` counts a block as granted
while it is listed, and charges it when it is listed, although the counters
follow later (`Charged`).

### QuantumDevice

The kernel's file layer is modelled by its rules: a file is open from a
successful open to its release, ioctls run on open files, exit runs with no file
open. `OpenBegin` increments the count, `OpenReject` takes it back.
`ALLOC_MEMORY` stores what the manager returned in `dev->memory` and then tests
`dev->memory`, which another task may have changed; `FREE_MEMORY` tests, frees
and clears. `careful` is history: so far the callers have run one ioctl at a
time, allocated a block only when the device had none and freed one only when it
had. What the driver promises only to such callers (`NoOrphan`, `NoDangling`,
`CountsSuccesses`) is stated with `careful` as its condition, so one run covers
all callers, but these properties say nothing of two ioctls that race.
`LoadStep` and `LoadFail` follow the init function call by call. A load that
fails after `cdev_add` leaves the character device on a freed structure:
`Backed` is lost then, and that it is lost in no other way is
`BackedUnlessLoadFails`. What an open of such a device does is undefined and no
step. `bad` records that the driver gave something other than a block to
`ctrlxt_qmem_free`, after which the driver takes no step.

### ErrorCorrection and QuantumClassical

The qubits of a register that read 1 are a set, and so are those of the ancilla.
`Measure` and `MeasureFail` apply up to three CNOTs, which flip ancilla qubits,
and store what they read in `syndrome`; `Correct` applies the table of lines
133-151 (`CorrectionGate`), which it enters with the number that three qubits
read as (`SyndromeValue`). `CorrectionRounds` has no such table: which qubits a
round flips for which measurement is its constant `Repair`, and that the code's
is right is a question of its own. `CorrectsFlips` answers it for the single
flips of qubits 0 and 1; of qubit 2 it is false. The error counter and the
correction counter are steps of their own, because `get_stats`, which changes
nothing and is left out, reads them without the lock. The refinement mapping to
`CorrectionRounds` lets a round take effect when its correction does: until then
`RoundAncilla` takes the CNOTs of a round back and `RoundCount` does not count
its error.

`QuantumClassical` extends `ErrorCorrection`, with the state of the interface
(`Iface`) as one of its registers. `CallCorrection` is the call of
`ctrlxt_qec_apply`, `Correction` its steps, `CorrectionReturns` its unlock and
return. What gates and measurements leave the qubits reading is open, among
`Contents` (`Touch`). `converted` and `controlled` are history: the conversions
all of whose gates succeeded, and the controlled operations that returned 0.
`ErrorCorrection` states what its users may do: load it once, call it when it is
loaded, unload it when no call is in it, and leave a register alone while a
round works on it. That the interface does no more than that is
`UsesCorrection`, so what holds of error correction holds here. `Ahead` is there
for the bound: a controlled operation begins only if its round will be within
`MaxRounds`.

Assumed of the quantum library: CNOT flips the target where the control reads 1;
a measurement leaves the qubits as they are; a call that fails changes nothing.
Noise spares a register during a round on it (it may come before and after).

### MemoryRegion

Both functions hold one lock from end to end, so a call is a step. `pieces` is
what callers know, and `ordered` remembers whether they freed the last piece
first every time.

### ContextRefs, SecurityContext, PerformanceMonitor

Get and put are wholly inside the lock: one step each. Exit is two, because it
frees after the unlock. `held` is what callers know; they hold no references at
the exit, for which nothing in the code waits (a hazard in `PROJECT.json`).
`SecurityContext` splits the check of the policy at its two reads and keeps as
history (`met`) how level and flags met the policy at each moment of the check.
`PerformanceMonitor` leaves out what no code reads (the type and the time of a
metric, the end of a sampling). It splits the statistics and sampling at each
assignment, with a step of its own for what `ktime_get` returned and has yet to
be stored, has a clock that only advances, and lets the compiler choose which
argument of `ktime_sub` it reads first. `began` is history, and so is `mixed`:
the contexts on which, since they were allocated, a start overlapped another
start or a duration. On those a duration can be counted from an older start, by
the order of the assignments, and `DurationWithinSampling` says nothing of them.

### FileSystem

A file is a dentry with a name. A creation takes an inode (`NewInode`), and
`Add` makes the file visible or `AddFails` puts the inode (`loose` has the
inodes in no directory); `IncInode` and `IncDentry` count it. `LookUp` takes a
dentry in hand, `Unlink` is the test of `vfs_unlink`, `Delete` its unlink;
between them another removal can do the same, because `remove_quantum_file` does
not hold the lock of the directory. `races` counts, as history, the unlinks of
what was already unlinked. Whether the address of a dentry is used again matters
to nobody who holds it (`Free`).

### NetDevice

`tx_packets++` and `tx_bytes += skb->len` are a read and a write each
(`XmitBegin`, `XmitPackets`, `XmitBytes`). What keeps them apart is not in the
driver: a device of `alloc_etherdev` has one transmit queue, and the kernel
holds the lock of the queue (`queue`) while it calls `ndo_start_xmit`. That
open, stop and address changes come one at a time, under the rtnl lock (`call`),
that the device is quiet when it is stopped or unregistered, and that
`ndo_validate_addr` comes before `ndo_open` are rules of the kernel too.

Load and exit call `register_netdevice`, `unregister_netdevice` and `free_netdev`
without that lock, so `ListDev`, `Unregister` and `FreeDev` may come while a call
is in progress, and `call.on` remembers that they did. What a call then does to
freed memory is no step. A reader copies the statistics from
where `ctrlxt_net_get_stats` points, a field at a time; `owed` is history: what was
finished when it read the packets.

### DeviceList and Platform

`list_add` is three assignments to links and one that publishes the device;
`InitBegin` reads what is behind the head, `Link` and `Publish` write. Two calls
that overlap read the same first device, and the one that publishes first is
lost. The exit walks the list and cleans up device by device. `Walked`, the least
set closed under the links from the head, is what the exit will come to.
`overlapped` is history. A device stays where it is until
the exit.

`Platform` adds the boot, the UHAL driver call by call, and the architectures
with the one cpufreq driver of the kernel (`cpufreq`, which drivers of others
take as well). `DestroyDevice` and `DestroyClass` are steps of the exit and of the
error paths. `majors` counts the character devices registered as "uhal".

## The runs

All are exhaustive. Model values stand for threads, blocks, files, registers and
contexts; symmetry is used where nothing tells them apart and no liveness is
checked.

| Run | Bounds | Shows |
| --- | --- | --- |
| `qmem` | 2 threads, 3 blocks, requests of 0, 2 and 3 qubits against blocks of at most 2, limits 3 and 1 | reference counts, accounting, no leak, bounded overcommitment; the manager implements `BlockPool`; every call returns |
| `device` | 2 tasks, 3 files, 2 blocks, 3 counted operations, any callers, loads that fail at any call | the device is open once and its count recovers; only a load that fails after `cdev_add` frees the structure of a registered character device; careful callers lose no block and free none twice, and failures are not counted |
| `device_exit` | the same, 2 operations, no load fails | finding |
| `qec` | 2 threads, 2 registers, no qubit or one qubit flipped, 2 errors | nobody measures or changes the register between a measurement and its correction, a flip of qubit 0 or 1 is taken back, counters are consistent, and rounds implement `CorrectionRounds` under failures anywhere |
| `interface` | 2 threads, sizes 0, 2 and 1025, 2 conversions or measurements, 2 errors | nested locks, what is counted is what succeeded, in both components, the rules of error correction for its users; every call returns |
| `interface_load` | 2 threads, the buffer is not allocated | finding |
| `region` | 7 pages, pieces of 1 to 3, up to 2 pages past the end | pieces are disjoint in every order of frees; after frees that took the last piece first, everything is free and given back |
| `security` | 2 tasks, 2 contexts, levels below and at the minimum and outside the range, 2 flags | references are counted, none dangles; a check denies only what did not meet the policy, and grants only what met it when one of level and flags was enough throughout |
| `perf` | 2 tasks that both update and sample, 1 metric, values and thresholds 80 and 95, 2 contexts, 2 clock values, updates begin while none is counted | statistics fit whole updates, whatever resets, reloads and new thresholds come between; durations lie within the sampling, through stops at any moment, restarts, and contexts that are shared, freed and allocated again, unless a start overlapped a start or a duration |
| `files` | 3 tasks, 2 names, 3 dentries, 2 double unlinks | the counters follow the files; a failed mount is undone and a failed creation keeps no inode |
| `net` | 2 processors, packets of 2 lengths, 2 valid addresses and zero, 3 packets | no update is lost; a copy has the bytes of all transmits finished before it, and counts one packet more at most; a device that is up has a valid address, and only a call that the exit or a failed load overlaps may find its device gone |
| `platform` | 2 tasks, 3 devices, 3 architectures, 2 loads of the driver, 1 open file | the walk of the exit ends on live devices; only overlapping calls lose devices; loads that fail and unloads leave no class and no device; an architecture's cpufreq driver is taken away by its own unload only |

Where a type invariant or a lock invariant is proved for all instances, the runs
do not check it again; nor do they repeat for `performance.c` what `security` checks
of the life cycle of contexts, of which both have the same text and both theorems.

Why these are enough to be of interest: every hazard the runs are for needs two
actors (a check and a change, two takers of a lock, two openers and a third that
comes after) or a sequence of two rounds or two loads, and the bounds allow
that. The safety properties of every run are also proved for any number of
threads, tasks, blocks, files and devices, and for blocks of different sizes,
which `qmem` does not have. `Next` of every module also unloads and loads again,
so stale state across a reload is covered. Bounds on counters are guards of the
call that would count on (`MaxOps`, `MaxRounds`, `MaxConversions`, `MaxUpdates`,
`MaxTime`, `Limit`); the modules name each.

Deadlock is checked except in the two device runs: there a bad free, or a load
that fails with the character device in use, stops the driver for good, as it
would stop the kernel.

## Fairness

Only `CallsReturn` of `qmem` and `interface` needs any. A task inside a call
is scheduled (weak fairness of its steps); spin locks are the queued spin locks
of Linux, which serve waiters in turn, so a lock that is free again and again is
acquired (strong fairness of taking it). No task is made to start a call and no
module to load.

## The proofs

Checked by TLAPS for any number of threads, tasks, blocks, files, devices and
processors, and any sizes, requests and limits that satisfy the assumptions
named in the modules (`QMemConstants`, `DeviceConstants`, `FileConstants`, ...:
finite sets, numbers where numbers are meant, distinct null values).

`QuantumMemoryProofs`:

- `TypeCorrectness` and `LockExcludes` come from `BaseInv`: types, the lock
  invariant, and two facts types alone do not give (`CallArgs`: what a call at
  each step knows of its arguments; `Unloaded`: an unloaded manager has no
  block, reference or call).
- `ReferencesAreSafe`: `RefSafety` is inductive relative to `BaseInv`. The heart
  of it is that `Get` needs a holder, so the put that sees the last reference
  cannot meet one. `UnlistedOnlyByLastPut` is an action property from the same
  invariant.
- `AccountingIsExact`: the counters equal the number of *tokens* of the listed
  blocks, one for each qubit. Counting a set instead of summing over one avoids
  recursion; the lemmas on `Tokens` say how the count changes when a block is
  added or removed.
- `OvercommitIsBounded`: the unlocked quota check overshoots by at most one
  block for each thread but one. The invariant (`OvercommitInv`) adds to the
  allocated qubits what every call that has passed the check, or will pass it
  with the count it has read, is still going to add.
- `NothingLeaks` needs of `BaseInv` only that one thread is in the critical
  section: a block that is allocated and not listed is in that thread's `blk`
  (`BlocksKept`), and the states are those of the listed blocks (`StatesKept`).
- `MemoryImplementsPool`: initial states map to initial states, and each step
  maps to a step of `BlockPool` or leaves its variables alone.

`QuantumDeviceProofs`: `DeviceTypes`, and from `OpenInv` the theorems
`OpenCountIsExact` and `DeviceIsExclusive`. That at most one file is open is not
inductive alone: it needs that `open_count` counts the files open or about to be
rejected, and that files are counted only while the character device is
registered, so that a load cannot reset a count in use.

Four more come from `LoadInv` (a structure that is not live holds no memory, and
an ioctl in progress is on an open file), wherever loads fail.
`OnlyLateFailuresUnback` goes through the steps: a live structure backs all there
is, and without a character device there is nothing to back (`BackedWhen`), which
leaves the load that fails with one. `MemoryIsGranted`, `NoBlockIsLost` and
`SuccessesAreCounted` come from `CarefulInv`: while callers are careful at most one
ioctl is in progress (`Alone`), and what `dev->memory` holds at each of its steps
is known (`Hand`), so the driver's one reference is the one in the field or the
one in the hand of that ioctl.

`CorrectionProofs`, first part, `ErrorCorrection`: `RoundInv` says that the
thread inside a round holds the lock and is alone (`RoundsExclude`), works on a
register of a loaded module, and finds in `syndrome` what the ancilla qubits
read. `SyndromesAreOwn` is the action property: since a thread past its
measurement is alone in its round, no step of another measures, touches the
ancilla qubits or changes its register. `SingleFlipsCorrected` adds to it what
the table has for the syndromes 1 and 2. That corrections are within errors
(`CorrectionsAreOfErrors`) needs one more fact: while a thread owes a
correction, they are strictly fewer. For `QecImplementsRounds` the mapping is
unfolded by `Hidden` and `Counted`: `RoundAncilla` is the ancilla with the flips
of the one measured register taken back, and flipping twice changes nothing;
then every step is a round or a stutter.

`CorrectionProofs`, second part, `QuantumClassical`: `QcInv` is `RoundInv` and
`CallInv`, which relates the two modules: a thread is inside error correction
exactly at one statement of the interface, whoever is past a lock statement of
the interface holds its lock (`Calling`), modules are loaded in their order
(`Linked`), and what is counted below is what is counted above plus the call
about to return (`Returning`). `InterfaceTypes`, `InterfaceLocksNest`,
`CorrectionsCountControl` and `ConversionsCounted` follow.
`InterfaceUsesCorrection` is the composition: under `QcInv` each step of the
interface is a step of `ErrorCorrection` or leaves it alone (`UsesStep`). The case
that matters is a gate or measurement, which the holder of `qc_interface.lock`
makes: nobody else can be in a round then (`NobodyElse`). With
`QecImplementsRounds` it gives `ControlledInRounds`: controlled operations of any
number of threads implement rounds that happen one after the other.

`MemoryRegionProofs`: `PiecesAreDisjoint` follows from the order in which pieces
are cut and is kept by removing any of them from the sequence (`WithoutOne`).
`OrderedFreesGiveBack` and `ExitGivesBack` need `Stacked`: as long as frees were
in order, each piece begins where the one before ends, without gaps.

`ContextProofs`, first part, the contexts and `SecurityContext`: `RefInv`
(types, counts, nothing freed is held, and who is published when) gives
`EveryReferenceCounts` and `NoFreedContext`; the lemmas on `Holders` say how
their number moves. `PolicyInv` adds, for a check between its two reads, that
its history holds the present moment and one at which the level was enough;
`DenialsAreEarned` and `GrantsAreSteady` follow.

`ContextProofs`, second part, `PerformanceMonitor`: the steps of `ContextRefs`
are the same, so `RefInv` holds here too (`PerfReferencesCount`,
`PerfNoFreedContext`). `MonitorInv` has the types and what each step of a call
knows (`Arguments`: the lock, the metric, the context), which gives
`PerformanceTypes`. `StatsConsistent` is false inside an update, so `Counting`
says how far off it is at each step: after the count and before the comparison
one more update is counted than can have exceeded, and after the count and
before the assignment the time is still to come. `StatsAgree` follows.
`SamplingInv` says where the start and the clock a task has read lie between
`began` and `now`, on contexts that are not `mixed`: the start of an active
sampling is stored, unless a task is about to (`Stamped`), and no other start or
duration meets that task (`Apart`). `DurationsWithinSampling` follows for any
number of tasks that sample.

`FileSystemProofs`: `Base` (types, `MountUndone`, calls run only when mounted
and each has the inode it took, counters are zero before) gives `FileTypes` and
`MountIsUndone`. `CountersAreExact` is inductive relative to it; the work is in
`CountMoves`, how the number of tasks at a set of steps changes when one task
goes from one step to another, and in the lemmas on the number of files.

`NetDeviceProofs`: `Exclusive` says that the one task inside a transmit holds
the queue and that what it read is still so, which is why no update is lost
(`Exact`, `NoUpdateLost`). `CopyIsClose` needs `Owed`: from the read of the packets
on, the bytes yet to be copied are at least those finished by then. `OpenIsReady`
needs `Placed`: at which stage of a load or an exit the device is registered and
allocated, and that an open in progress on a device not freed has a valid address,
since the one call that could change it waits for the rtnl lock.

`PlatformProofs`: `Registered`, which says at which step of a load or an exit class
and device exist and that a registered architecture is loaded, gives
`UhalIsUndone` and the action property `CpufreqIsOwned`. For the
list, `Ring(R, rank)` says that there is a set of live devices a walk may come
to, that each link goes down in a rank until the head, and that no call in
progress touches them but for the back link of the first. The witnesses change
with each step: `Publish` puts its device on top of the devices behind it, a
device that is lost leaves the set, `Cleanup` takes away the first. From it
`ExitFreesLive`: each step of the exit finds a device whose state is allocated,
so none is freed twice, even after inits that overlapped. `WalksEnd` says the same
of the whole walk: the set of the ring is closed, so all that is walked is in it,
and a closed set has a member of least rank, whose link can only be the head. For
`NoDeviceLost` the witness is fixed: while no inits overlap, `InLine` says that
every live device but the one in the hand of an init is in the ring, and that
the back links mirror the links but for the link to a device about to be published.

Only model-checked: liveness (`CallsReturn` of `qmem` and `interface`), which is
beyond this prover. Every invariant and every other temporal property of a
passing run is also a theorem, without assumptions but those on the types of
the constants.

## Where the code does not do what it says

Each of these two is a run that ends in a violation; `PROJECT.json` has the lines.

- `device_exit`: the `ERR_PTR` of a failed allocation stays in `dev->memory`
  and is given to `ctrlxt_qmem_free` at exit.
- `interface_load`: when the buffer cannot be allocated the init function frees
  its quantum state and returns 0, so the module is loaded without both.

What else a reader of the code should know, from writing the models. No run ends
in a violation of these; where a property would claim otherwise, it names them as
its exception:

- Two allocations can pass the unlocked quota check together, so the maximum of
  qubits is not one. By how much it can be exceeded is `Overcommit`, which is
  proved.
- A check of the policy that reads level and flags apart can grant what met it
  at no moment, when both change. `GrantsSteady` is what can be relied on, and is
  proved.
- `remove_quantum_file` calls `vfs_unlink` without the lock of the directory:
  two removals of one file both count it, and the counters stay too low
  (`races` in `Accounting`). Files can share a name, as nobody looks.
- `mount_fs` never puts the reference to the path of the mount point (`pinned`).
- `uhal_driver_exit` unregisters major 0 and not the one `register_chrdev`
  returned, although the comment above says "Unregister character device" (line
  95): each unload leaves a character device whose operations are gone. The model
  counts them (`majors`), and `UhalUndone` is about the class and the device only.
  No open of such a device is modelled.
- The ioctl `UHAL_CMD_INIT` calls code marked `__init`, which the kernel frees
  after boot. The lists it empties again hold nothing in this repository.
- Two inits of quantum devices that overlap can lose one: it is not cleaned up
  at exit (`NoneLost`). And the list keeps the addresses of devices whose owners
  may be gone, as in `tests/test_kernel.c`, where they are on the stack; the
  model assumes owners who keep them.
- `register_netdevice` and `unregister_netdevice` are called without the lock
  the kernel asks of their callers. A call that an exit or a failed load
  overlaps may find its device gone; `UpIsReady` is about the others.
- `set_max_qubits` stores a limit above `INT_MAX` as another one, perhaps
  negative (`ToInt`).
- A load of the driver that fails after its first registration frees the device
  behind its registrations (`LoadFail`). The run `device` lets every call of the
  load fail, and `BackedUnlessLoadFails` says that nothing else does this;
  `NoOrphan` ends there.
- The ancilla qubits are not reset between rounds, so a round corrects by the
  parity of all flips since the load; and the table of corrections numbers
  errors 1, 2, 3 where the measurement gives a bit for each qubit, so a flip on
  qubit 2 reads as 4 and is taken for a phase flip on qubit 0, and two flips, on
  qubits 0 and 1, for one on qubit 2 (`error_correction.c:139`,
  `quantum_error.h:40`). `CorrectsFlips` is about the other two qubits, with
  ancilla qubits that read 0.
- When one of the two allocations of error correction fails, the other is kept;
  a load of memory management that fails at the quantum region keeps the first.
- `ctrlxt_qec_get_stats` divides by zero before the first round. It reads
  `error_count` first; read second, `CorrectionsWithinErrors` would keep the
  rate within 100 percent.
- A conversion accepts more bytes than the state has qubits.
- Pieces of the region freed out of order are lost, and the end of the region is
  not looked at.
- Between two tasks that start, stop and read sampling, a duration can be
  counted from an older start, as the context is active before its start is stored.
  `DurationWithinSampling` leaves out the contexts on which a start met another
  start or a duration.

## What is not modelled

- Functions that change nothing: the `get_stats` of memory manager, error
  correction, interface and performance, the getters, and the functions that
  initialise security mechanisms.
- The ioctls that reach the device's quantum state at the same time: what then
  happens is up to the library.
- Overflow of 32 bit counters after millions of operations.
- Weak memory: the atomics and plain fields are sequentially consistent.
- The tests, the tools under `scripts/` and the configuration headers, which are
  not program logic. In the parts that are modelled: the stubs that print and
  return 0 (gates and measurement of `quantum.c`, detection of hardware,
  quantum networking), the parameters and counters that are set once and never
  read, and the commands of the UHAL driver that call functions no file defines.
- Memory that is used after it is freed. The models say who would use it and
  stop there.

## The plan

Every part that keeps state has its module, and every safety property of a
passing run its theorem. What would add most from here: `get_stats` of the
memory manager and of error correction as torn reads, against the states those
were in, with the invariants `Accounting` and `CorrectionsWithinErrors` as the
base of what such a read may report.
