------------------------------- MODULE Platform -------------------------------
(****************************************************************************)
(* The parts that bring up the hardware: boot (init/main.c), the UHAL       *)
(* driver whose ioctl repeats a part of it (drivers/uhal/uhal_driver.c),    *)
(* the architectures (arch/*/arch.c), which differ in their names only, and *)
(* the list of quantum devices.                                             *)
(*                                                                          *)
(* An open of the character device pins the driver.  The kernel has one     *)
(* cpufreq driver at a time: it refuses a second, and refuses to unregister *)
(* one that is not registered.                                              *)
(****************************************************************************)
EXTENDS DeviceList

CONSTANTS
  Archs,         \* x86, arm, riscv
  Free, Other,   \* no cpufreq driver, and one of somebody else
  MaxLoads,      \* bound: the driver is loaded while fewer majors are registered
  MaxFiles       \* bound: files open at a time

ASSUME PlatformConstants ==
  Free \notin Archs /\ Other \notin Archs \cup {Free}
  /\ MaxLoads \in Nat /\ MaxFiles \in Nat

VARIABLES
  lists,            \* kernel.devices and quantum_devices are initialised
  quantum_enabled,  \* kernel.quantum_enabled
  driver,           \* "unloaded", "loaded", or the next step of its load or exit
  class, device,    \* uhal_class and uhal_device exist
  majors,           \* character devices registered under the name "uhal"
  files,            \* open files of the device
  arch,             \* the architectures that are loaded
  cpufreq           \* the cpufreq driver of the kernel

boot == <<lists, quantum_enabled>>
uhal == <<driver, class, device, majors, files>>
vars == <<listVars, boot, uhal, arch, cpufreq>>

Init ==
  /\ ListInit
  /\ lists = FALSE /\ quantum_enabled = FALSE
  /\ driver = "unloaded" /\ class = FALSE /\ device = FALSE
  /\ majors = 0 /\ files = 0
  /\ arch = {}
  /\ cpufreq = Free

\* ctrlxt_kernel_init: uhal_init, quantum_init, with CONFIG_QUANTUM or without
\* it (quantum_arch_init returns 0), and performance_init, which does nothing.
Boot ==
  /\ ~lists
  /\ lists' = TRUE
  /\ quantum_enabled' \in BOOLEAN
  /\ UNCHANGED <<listVars, uhal, arch, cpufreq>>

(****************************************************************************)
(* uhal_driver_init, uhal_driver_exit and the file operations               *)
(****************************************************************************)
\* The driver is linked after boot.
CreateClass ==
  /\ lists
  /\ driver = "unloaded" /\ majors < MaxLoads
  /\ driver' = "device" /\ class' = TRUE
  /\ UNCHANGED <<listVars, boot, device, majors, files, arch, cpufreq>>

CreateDevice ==
  /\ driver = "device"
  /\ driver' = "chrdev" /\ device' = TRUE
  /\ UNCHANGED <<listVars, boot, class, majors, files, arch, cpufreq>>

\* Mutant: the load returns at once.
DeviceFailsAtOnce ==
  /\ driver = "device"
  /\ driver' = "unloaded"
  /\ UNCHANGED <<listVars, boot, class, device, majors, files, arch, cpufreq>>

\* device_create fails.
DeviceFails ==
  /\ driver = "device"
  /\ driver' = "destroy_class"
  /\ UNCHANGED <<listVars, boot, class, device, majors, files, arch, cpufreq>>

\* register_chrdev takes a free major, which the driver does not keep, ...
RegisterChrdev ==
  /\ driver = "chrdev"
  /\ driver' = "loaded" /\ majors' = majors + 1
  /\ UNCHANGED <<listVars, boot, class, device, files, arch, cpufreq>>

\* ... or fails.
ChrdevFails ==
  /\ driver = "chrdev"
  /\ driver' = "destroy_device"
  /\ UNCHANGED <<listVars, boot, class, device, majors, files, arch, cpufreq>>

\* unregister_chrdev(0, "uhal") names a major that is not the driver's.
UhalExit ==
  /\ driver = "loaded" /\ files = 0
  /\ driver' = "destroy_device"
  /\ UNCHANGED <<listVars, boot, class, device, majors, files, arch, cpufreq>>

\* Mutant: the class is destroyed first.
DestroyClassFirst ==
  /\ driver = "destroy_device"
  /\ IF class
     THEN class' = FALSE /\ UNCHANGED <<driver, device>>
     ELSE driver' = "destroy_class" /\ device' = FALSE /\ UNCHANGED class
  /\ UNCHANGED <<listVars, boot, majors, files, arch, cpufreq>>

\* A late failure of the load and the exit destroy the device, ...
DestroyDevice ==
  /\ driver = "destroy_device"
  /\ driver' = "destroy_class" /\ device' = FALSE
  /\ UNCHANGED <<listVars, boot, class, majors, files, arch, cpufreq>>

\* ... and then, as an earlier one does, the class.
DestroyClass ==
  /\ driver = "destroy_class"
  /\ driver' = "unloaded" /\ class' = FALSE
  /\ UNCHANGED <<listVars, boot, device, majors, files, arch, cpufreq>>

UhalOpen ==
  /\ driver = "loaded" /\ files < MaxFiles
  /\ files' = files + 1
  /\ UNCHANGED <<listVars, boot, driver, class, device, majors, arch, cpufreq>>

UhalRelease ==
  /\ files > 0
  /\ files' = files - 1
  /\ UNCHANGED <<listVars, boot, driver, class, device, majors, arch, cpufreq>>

\* UHAL_CMD_INIT calls uhal_init again: it empties lists to which nothing is
\* ever added.  The other commands call what is not in this code.
IoctlInit ==
  /\ files > 0
  /\ lists' = TRUE
  /\ UNCHANGED <<listVars, quantum_enabled, uhal, arch, cpufreq>>

(****************************************************************************)
(* Architectures                                                            *)
(****************************************************************************)
\* A registration that is refused is only warned of.
ArchInit(a) ==
  /\ a \notin arch
  /\ arch' = arch \cup {a}
  /\ cpufreq' \in {cpufreq, IF cpufreq = Free THEN a ELSE cpufreq}
  /\ UNCHANGED <<listVars, boot, uhal>>

\* Mutant: the cpufreq driver is not unregistered.
ArchExitQuietly(a) ==
  /\ a \in arch
  /\ arch' = arch \ {a}
  /\ UNCHANGED <<listVars, boot, uhal, cpufreq>>

\* The driver is unregistered whether or not it was registered.
ArchExit(a) ==
  /\ a \in arch
  /\ arch' = arch \ {a}
  /\ cpufreq' = IF cpufreq = a THEN Free ELSE cpufreq
  /\ UNCHANGED <<listVars, boot, uhal>>

\* Drivers outside this code come and go.
OtherDriver ==
  /\ cpufreq \in {Free, Other}
  /\ cpufreq' \in {Free, Other} \ {cpufreq}
  /\ UNCHANGED <<listVars, boot, uhal, arch>>

Next ==
  \/ ListStep /\ UNCHANGED <<boot, uhal, arch, cpufreq>>
  \/ Boot
  \/ CreateClass \/ CreateDevice \/ RegisterChrdev \/ DeviceFails \/ ChrdevFails
  \/ UhalExit \/ DestroyDevice \/ DestroyClass
  \/ UhalOpen \/ UhalRelease \/ IoctlInit
  \/ \E a \in Archs : ArchInit(a) \/ ArchExit(a)
  \/ OtherDriver

Spec == Init /\ [][Next]_vars

(****************************************************************************)
(* Properties                                                               *)
(****************************************************************************)
TypeOK ==
  /\ ListTypeOK
  /\ lists \in BOOLEAN /\ quantum_enabled \in BOOLEAN
  /\ driver \in {"unloaded", "device", "chrdev", "loaded", "destroy_device", "destroy_class"}
  /\ class \in BOOLEAN /\ device \in BOOLEAN
  /\ majors \in Nat /\ files \in Nat
  /\ arch \subseteq Archs
  /\ cpufreq \in Archs \cup {Free, Other}

\* Wherever the load fails, and at every moment of the exit, the device does not
\* outlive its class; and an unloaded driver leaves neither behind (lines 72-86
\* and 99-100), so that it can be loaded again.
UhalUndone ==
  /\ device => class
  /\ driver = "unloaded" => ~class /\ ~device

\* The cpufreq driver of an architecture is registered only while that
\* architecture is loaded, and it is taken away by its own unload alone, although
\* neither the load nor the unload of an architecture looks at whether its
\* registration succeeded (arch/x86/arch.c:27-29 and 101-105).
CpufreqOwned ==
  [][\A a \in Archs :
       /\ cpufreq' = a => a \in arch'
       /\ cpufreq = a /\ cpufreq' # a => a \in arch \ arch']_vars
==============================================================================
