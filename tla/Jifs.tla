-------------------------------- MODULE Jifs --------------------------------
(***************************************************************************)
(* The file system JIFS, JIFS/super.c.  Its files are those of lwnfs; its  *)
(* super block has a private part with mount options, it is mounted on a   *)
(* device, unmounted as a disk file system is, and its inodes are freed by *)
(* an RCU callback.                                                        *)
(***************************************************************************)
EXTENDS CounterFile

CONSTANTS
  Masks,        \* values of the dbgmask option
  MaxFailed     \* failed mounts that are counted

VARIABLES
  users,        \* users[s]: how often the device s is mounted
  objects,      \* objects[s]: the dentries and inodes of s that are in memory
  stray,        \* dentries and inodes that unmounted super blocks left behind
  sbi,          \* jifs_sb_info structures in memory
  failed,       \* (history) mounts that failed once sbi was allocated
  dbgmask,      \* jifs_dbgmask, one for all mounts
  pending,      \* calls of jifs_i_callback that RCU still owes
  loaded,       \* the module is loaded
  fault         \* the kernel followed a bad pointer

vars == <<fileVars, users, objects, stray, sbi, failed, dbgmask, pending, loaded, fault>>

Parts == {"root", "counter", "subdir", "subcounter"}
Dentry(n) == <<"dentry", n>>
Inode(n) == <<"inode", n>>
Allocations == {Dentry(n) : n \in Parts} \cup {Inode(n) : n \in Parts}

\* One allocation of a mount fails, or none.
Failures == {{}} \cup {{a} : a \in Allocations}

jifs_make_inode(n, lost) == {Inode(n)} \ lost

jifs_create_file(n, lost) ==
  IF Dentry(n) \in lost \/ jifs_make_inode(n, lost) = {} THEN {} ELSE {Dentry(n), Inode(n)}

jifs_create_dir(n, lost) ==
  IF Dentry(n) \in lost \/ jifs_make_inode(n, lost) = {} THEN {} ELSE {Dentry(n), Inode(n)}

jifs_create_files(lost) ==
  LET subdir == jifs_create_dir("subdir", lost) IN
  jifs_create_file("counter", lost) \cup subdir
    \cup (IF subdir # {} THEN jifs_create_file("subcounter", lost) ELSE {})

Init ==
  /\ FileInit
  /\ users = [s \in Supers |-> 0]
  /\ objects = [s \in Supers |-> {}]
  /\ stray = {} /\ sbi = 0 /\ failed = 0 /\ dbgmask = 0 /\ pending = 0
  /\ loaded = FALSE /\ fault = "none"

\* init_jifs(): the inode cache is not made, and when the file system cannot
\* be registered destroying it does nothing.
Load ==
  /\ ~loaded
  /\ \/ loaded' = TRUE /\ counter' = [f \in Names |-> 0] /\ dbgmask' = 0
     \/ UNCHANGED <<loaded, counter, dbgmask>>
  /\ UNCHANGED <<fd, users, objects, stray, sbi, failed, pending, fault>>

\* exit_jifs() does not wait for the callbacks.
Unload ==
  /\ loaded /\ \A s \in Supers : users[s] = 0
  /\ loaded' = FALSE
  /\ UNCHANGED <<fileVars, users, objects, stray, sbi, failed, dbgmask, pending, fault>>

\* jifs_parse_options(): dbgmask is set at once, for everybody, and stays
\* set if a later option is wrong.
jifs_parse_options(opts) == dbgmask' = IF opts.mask \in Masks THEN opts.mask ELSE dbgmask

\* No dbgmask option, or one; the whole line is right, or not.
Options == [mask : Masks \cup {0 - 1}, valid : BOOLEAN]

\* jifs_mount(), jifs_fill_super().
Mount(s, opts, lost) ==
  /\ loaded /\ users[s] = 0
  /\ opts.valid /\ lost \cap {Dentry("root"), Inode("root")} = {}
  /\ sbi' = sbi + 1
  /\ jifs_parse_options(opts)
  /\ users' = [users EXCEPT ![s] = 1]
  /\ objects' = [objects EXCEPT ![s] = {Dentry("root"), Inode("root")} \cup jifs_create_files(lost)]
  /\ counter' = [f \in Names |-> 0]
  /\ fd' = [p \in Procs |-> [fd[p] EXCEPT !.clean = FALSE]]
  /\ UNCHANGED <<stray, failed, pending, loaded, fault>>

\* A wrong option, no root inode or no root dentry: without s_root nobody
\* calls put_super, and sbi stays.  d_make_root() has put the inode.
MountFails(s, opts, lost) ==
  /\ loaded /\ users[s] = 0 /\ failed < MaxFailed
  /\ ~opts.valid \/ lost \cap {Dentry("root"), Inode("root")} # {}
  /\ sbi' = sbi + 1 /\ failed' = failed + 1
  /\ jifs_parse_options(opts)
  /\ pending' = IF opts.valid /\ Dentry("root") \in lost THEN pending + 1 ELSE pending
  /\ UNCHANGED <<fileVars, users, objects, stray, loaded, fault>>

\* mount_bdev() finds the super block of a device that is mounted already.
MountAgain(s) ==
  /\ users[s] = 1
  /\ users' = [users EXCEPT ![s] = 2]
  /\ UNCHANGED <<fileVars, objects, stray, sbi, failed, dbgmask, pending, loaded, fault>>

\* kill_block_super(): files keep the reference of d_alloc_name(), and each
\* keeps its parent; only a root without files goes.
Dropped(have) == IF have = {Dentry("root"), Inode("root")} THEN have ELSE {}

jifs_put_super == dbgmask' = 0 /\ sbi' = sbi - 1

\* The last unmount: jifs_destroy_inode() for a root that goes, and
\* jifs_put_super(), which clears the debug mask of every mount.
Unmount(s) ==
  /\ users[s] > 0
  /\ \A p \in Procs : fd[p] = Closed \/ fd[p].sb # s
  /\ users' = [users EXCEPT ![s] = @ - 1]
  /\ IF users[s] > 1 THEN UNCHANGED <<objects, stray, sbi, dbgmask, pending>>
     ELSE /\ objects' = [objects EXCEPT ![s] = {}]
          /\ stray' = stray \cup (objects[s] \ Dropped(objects[s]))
          /\ pending' = IF Inode("root") \in Dropped(objects[s]) THEN pending + 1 ELSE pending
          /\ jifs_put_super
  /\ UNCHANGED <<fileVars, failed, loaded, fault>>

\* jifs_i_callback(): the code may be gone; the cache was never made, and
\* kmem_cache_free() either takes the object's own or follows NULL.
jifs_i_callback ==
  /\ pending > 0
  /\ pending' = pending - 1
  /\ \/ ~loaded /\ fault' = "unloaded code"
     \/ loaded /\ fault' \in {"none", "NULL cache"}
  /\ UNCHANGED <<fileVars, users, objects, stray, sbi, failed, dbgmask, loaded>>

jifs_open(p, s) ==
  /\ users[s] > 0
  /\ \E f \in Names : Dentry(f) \in objects[s] /\ Open(p, f, s)
  /\ UNCHANGED <<users, objects, stray, sbi, failed, dbgmask, pending, loaded, fault>>

\* jifs_read_file() and jifs_write_file() are those of lwnfs.
jifs_read_file(p) ==
  /\ \/ ReadLoad(p)
     \/ \E n \in {1, 20}, copied \in BOOLEAN : ReadRest(p, n, copied)
  /\ UNCHANGED <<users, objects, stray, sbi, failed, dbgmask, pending, loaded, fault>>

jifs_write_file(p) ==
  /\ \E w \in Written : Write(p, w)
  /\ UNCHANGED <<users, objects, stray, sbi, failed, dbgmask, pending, loaded, fault>>

jifs_release(p) ==
  /\ Close(p)
  /\ UNCHANGED <<users, objects, stray, sbi, failed, dbgmask, pending, loaded, fault>>

Next ==
  /\ fault = "none"
  /\ \/ Load \/ Unload
     \/ \E s \in Supers :
          \/ \E opts \in Options, lost \in Failures : Mount(s, opts, lost) \/ MountFails(s, opts, lost)
          \/ MountAgain(s) \/ Unmount(s)
          \/ \E p \in Procs : jifs_open(p, s)
     \/ jifs_i_callback
     \/ \E p \in Procs : jifs_read_file(p) \/ jifs_write_file(p) \/ jifs_release(p)

Spec == Init /\ [][Next]_vars

\* What unmounting leaves in memory is a whole tree or nothing, so no file is
\* left that hangs below a freed root; and the private parts that stay are
\* exactly those of the mounts that failed.
JifsLeavesWholeTrees ==
  /\ stray # {} => {Dentry("root"), Inode("root")} \subseteq stray
  /\ \A n \in Parts : Dentry(n) \in stray <=> Inode(n) \in stray
  /\ sbi = failed + Cardinality({s \in Supers : users[s] > 0})
=============================================================================
