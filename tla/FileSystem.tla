------------------------------ MODULE FileSystem ------------------------------
(****************************************************************************)
(* The file system, fs/ctrlxt_fs.c.                                         *)
(*                                                                          *)
(* A file is a dentry in the root directory.  create_quantum_file does not  *)
(* look whether the name is in use, so files may share one.  Neither it nor *)
(* remove_quantum_file holds the lock of the directory, which the VFS       *)
(* leaves to its callers: two removals can find one dentry, both pass the   *)
(* test of vfs_unlink, and both unlink it.  The counters follow each of     *)
(* them in steps of their own.                                              *)
(*                                                                          *)
(* A call that fails before it has changed anything has no step.  Callers   *)
(* pin the module, so exit runs with no call in progress.                   *)
(****************************************************************************)
EXTENDS Integers, FiniteSets

CONSTANTS
  Tasks,             \* the callers of create and remove
  Names,             \* file names
  Dentries,          \* addresses of directory entries
  NoName, NoDentry,  \* no file behind a dentry, no dentry in hand
  MaxRaces           \* bound: removals start while races is below it

ASSUME FileConstants ==
  /\ IsFiniteSet(Tasks) /\ IsFiniteSet(Dentries)
  /\ NoName \notin Names /\ NoDentry \notin Dentries
  /\ MaxRaces \in Nat

VARIABLES
  stage,         \* "unloaded", "mounting" (in mount_fs) or "mounted"
  registered,    \* ctrlxt_fs_type is registered
  sb,            \* ctrlxt_fs.sb: "null", or "live" with a mount behind it
  pinned,        \* a reference to the path /ctrlxt is kept
  name,          \* the name of the file of each dentry
  inode_count,   \* ctrlxt_fs.inode_count
  dentry_count,  \* ctrlxt_fs.dentry_count
  pc, found,     \* where each task is, and the dentry it has looked up
  loose,         \* the tasks whose inode is allocated and in no dentry
  races          \* history: unlinks of what was already unlinked

mount == <<stage, registered, sb, pinned>>
counters == <<inode_count, dentry_count>>
vars == <<mount, name, counters, pc, found, loose, races>>

Steps == {"idle", "alloc_dentry", "inc_inode", "inc_dentry",
          "unlink", "delete", "dec_inode", "dec_dentry"}

At(t, step) == pc[t] = step

Goto(t, step) == pc' = [pc EXCEPT ![t] = step]

Files == {d \in Dentries : name[d] # NoName}

\* Neither in the directory nor in the hands of a task.
Free(d) == d \notin Files /\ \A t \in Tasks : found[t] # d

Init ==
  /\ stage = "unloaded" /\ registered = FALSE /\ sb = "null" /\ pinned = FALSE
  /\ name = [d \in Dentries |-> NoName]
  /\ inode_count = 0 /\ dentry_count = 0
  /\ pc = [t \in Tasks |-> "idle"]
  /\ found = [t \in Tasks |-> NoDentry]
  /\ loose = {} /\ races = 0

(****************************************************************************)
(* Load and exit                                                            *)
(****************************************************************************)
\* ctrlxt_fs_init resets the counters and registers the file system.
Register ==
  /\ stage = "unloaded"
  /\ stage' = "mounting"
  /\ registered' = TRUE
  /\ inode_count' = 0 /\ dentry_count' = 0
  /\ races' = 0
  /\ UNCHANGED <<sb, pinned, name, pc, found, loose>>

\* mount_fs: kern_path takes a reference that nothing puts.
MountFs ==
  /\ stage = "mounting"
  /\ stage' = "mounted" /\ sb' = "live" /\ pinned' = TRUE
  /\ UNCHANGED <<registered, name, counters, pc, found, loose, races>>

\* Mutant: the file system stays registered.
MountFailsQuietly ==
  /\ stage = "mounting"
  /\ stage' = "unloaded"
  /\ pinned' \in {pinned, TRUE}
  /\ UNCHANGED <<registered, sb, name, counters, pc, found, loose, races>>

\* kern_path or, after it, vfs_kern_mount fails: the registration is undone.
MountFails ==
  /\ stage = "mounting"
  /\ stage' = "unloaded" /\ registered' = FALSE
  /\ pinned' \in {pinned, TRUE}
  /\ UNCHANGED <<sb, name, counters, pc, found, loose, races>>

\* fs_exit: the superblock is killed with the files on it, and the memory of the
\* module, counters included, goes.
Exit ==
  /\ stage = "mounted"
  /\ \A t \in Tasks : At(t, "idle")
  /\ stage' = "unloaded" /\ registered' = FALSE /\ sb' = "null"
  /\ name' = [d \in Dentries |-> NoName]
  /\ UNCHANGED <<pinned, counters, pc, found, loose, races>>

(****************************************************************************)
(* create_quantum_file                                                      *)
(****************************************************************************)
\* new_inode ...
NewInode(t) ==
  /\ stage = "mounted" /\ At(t, "idle")
  /\ loose' = loose \cup {t}
  /\ Goto(t, "alloc_dentry")
  /\ UNCHANGED <<mount, name, counters, found, races>>

\* ... and d_alloc_name: the inode is linked, and the file can be found.
Add(t, n) ==
  /\ At(t, "alloc_dentry")
  /\ \E d \in Dentries : Free(d) /\ name' = [name EXCEPT ![d] = n]
  /\ loose' = loose \ {t}
  /\ Goto(t, "inc_inode")
  /\ UNCHANGED <<mount, counters, found, races>>

\* Mutant: the inode is not put.
AddFailsAtOnce(t) ==
  /\ At(t, "alloc_dentry")
  /\ Goto(t, "idle")
  /\ UNCHANGED <<mount, name, counters, found, loose, races>>

\* There is no dentry, and the inode is put.
AddFails(t) ==
  /\ At(t, "alloc_dentry")
  /\ loose' = loose \ {t}
  /\ Goto(t, "idle")
  /\ UNCHANGED <<mount, name, counters, found, races>>

IncInode(t) ==
  /\ At(t, "inc_inode")
  /\ inode_count' = inode_count + 1
  /\ Goto(t, "inc_dentry")
  /\ UNCHANGED <<mount, name, dentry_count, found, loose, races>>

IncDentry(t) ==
  /\ At(t, "inc_dentry")
  /\ dentry_count' = dentry_count + 1
  /\ Goto(t, "idle")
  /\ UNCHANGED <<mount, name, inode_count, found, loose, races>>

(****************************************************************************)
(* remove_quantum_file                                                      *)
(****************************************************************************)
\* lookup_one_len finds a file and takes a reference to its dentry.
LookUp(t, n) ==
  /\ stage = "mounted" /\ At(t, "idle")
  /\ races < MaxRaces
  /\ \E d \in Dentries : name[d] = n /\ found' = [found EXCEPT ![t] = d]
  /\ Goto(t, "unlink")
  /\ UNCHANGED <<mount, name, counters, loose, races>>

\* vfs_unlink tests the dentry.
Unlink(t) ==
  /\ At(t, "unlink")
  /\ name[found[t]] # NoName
  /\ Goto(t, "delete")
  /\ UNCHANGED <<mount, name, counters, found, loose, races>>

\* Mutant: the result of vfs_unlink is not looked at.
UnlinkFailsCounted(t) ==
  /\ At(t, "unlink")
  /\ Goto(t, "dec_inode")
  /\ UNCHANGED <<mount, name, counters, found, loose, races>>

\* vfs_unlink refuses: the file is gone, or the file system does not allow it.
UnlinkFails(t) ==
  /\ At(t, "unlink")
  /\ Goto(t, "idle")
  /\ found' = [found EXCEPT ![t] = NoDentry]
  /\ UNCHANGED <<mount, name, counters, loose, races>>

\* vfs_unlink unlinks, whatever happened since its test.
Delete(t) ==
  /\ At(t, "delete")
  /\ name' = [name EXCEPT ![found[t]] = NoName]
  /\ races' = IF name[found[t]] = NoName THEN races + 1 ELSE races
  /\ Goto(t, "dec_inode")
  /\ UNCHANGED <<mount, counters, found, loose>>

DecInode(t) ==
  /\ At(t, "dec_inode")
  /\ inode_count' = inode_count - 1
  /\ Goto(t, "dec_dentry")
  /\ UNCHANGED <<mount, name, dentry_count, found, loose, races>>

\* ... and dput.
DecDentry(t) ==
  /\ At(t, "dec_dentry")
  /\ dentry_count' = dentry_count - 1
  /\ Goto(t, "idle")
  /\ found' = [found EXCEPT ![t] = NoDentry]
  /\ UNCHANGED <<mount, name, inode_count, loose, races>>

CallStep(t) ==
  \/ \E n \in Names : Add(t, n) \/ LookUp(t, n)
  \/ NewInode(t) \/ AddFails(t) \/ IncInode(t) \/ IncDentry(t)
  \/ Unlink(t) \/ UnlinkFails(t) \/ Delete(t)
  \/ DecInode(t) \/ DecDentry(t)

Next ==
  \/ Register \/ MountFs \/ MountFails \/ Exit
  \/ \E t \in Tasks : CallStep(t)

Spec == Init /\ [][Next]_vars

(****************************************************************************)
(* Properties                                                               *)
(****************************************************************************)
TypeOK ==
  /\ stage \in {"unloaded", "mounting", "mounted"}
  /\ registered \in BOOLEAN /\ sb \in {"null", "live"} /\ pinned \in BOOLEAN
  /\ name \in [Dentries -> Names \cup {NoName}]
  /\ inode_count \in Int /\ dentry_count \in Int
  /\ pc \in [Tasks -> Steps]
  /\ found \in [Tasks -> Dentries \cup {NoDentry}]
  /\ loose \subseteq Tasks /\ races \in Nat

Count(steps) == Cardinality({t \in Tasks : pc[t] \in steps})

\* The counters follow the files in the directory (lines 130-131 and 155-156):
\* they lag by the calls that have yet to count, in either direction, so that a
\* file removed while its creation is counted can take them below zero; and an
\* unlink of what was unlinked is the one thing that makes them drift.
Accounting ==
  stage = "mounted" =>
    /\ inode_count = Cardinality(Files) - races
                       + Count({"dec_inode"}) - Count({"inc_inode"})
    /\ dentry_count = Cardinality(Files) - races
                       + Count({"dec_inode", "dec_dentry"})
                       - Count({"inc_inode", "inc_dentry"})

\* Nothing is registered or mounted, and there is no file and no inode that was
\* allocated for one, but for a load in progress or done: a load that failed to
\* mount can be repeated (line 65), and no create that failed for want of a dentry
\* leaves an inode on the superblock that the exit kills (lines 121-124 and 173).
MountUndone ==
  /\ stage = "unloaded" => ~registered
  /\ sb = "live" <=> stage = "mounted"
  /\ stage # "mounted" => Files = {} /\ loose = {} /\ \A t \in Tasks : At(t, "idle")
==============================================================================
