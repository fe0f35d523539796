-------------------------------- MODULE Lwnfs --------------------------------
(***************************************************************************)
(* The file system lwnfs, JIFS/lwnfs/lwnfs.c: mounting it builds a tree of *)
(* a directory, a counter in it and a counter below it, of which any       *)
(* allocation may fail; unmounting drops the tree.                         *)
(***************************************************************************)
EXTENDS CounterFile

CONSTANTS MaxFailures   \* allocations that fail in one mount

VARIABLES
  mounted,      \* super blocks that are mounted
  objects,      \* objects[s]: the dentries and inodes of s that are in memory
  stray,        \* dentries and inodes that unmounted super blocks left behind
  loaded,       \* the module is loaded
  fault         \* the kernel followed a bad pointer

vars == <<fileVars, mounted, objects, stray, loaded, fault>>

Parts == {"root", "counter", "subdir", "subcounter"}
Dentry(n) == <<"dentry", n>>
Inode(n) == <<"inode", n>>
Allocations == {Dentry(n) : n \in Parts} \cup {Inode(n) : n \in Parts}
Failures == {lost \in SUBSET Allocations : Cardinality(lost) <= MaxFailures}

lfs_make_inode(n, lost) == {Inode(n)} \ lost

\* Mutant of lfs_create_file: the dentry is kept when there is no inode.
lfs_create_file_NoDput(n, lost) ==
  IF Dentry(n) \in lost THEN {} ELSE {Dentry(n)} \cup lfs_make_inode(n, lost)

\* lfs_create_file(): a file is a dentry with an inode, or nothing is left.
lfs_create_file(n, lost) ==
  IF Dentry(n) \in lost \/ lfs_make_inode(n, lost) = {} THEN {} ELSE {Dentry(n), Inode(n)}

\* lfs_create_dir()
lfs_create_dir(n, lost) ==
  IF Dentry(n) \in lost \/ lfs_make_inode(n, lost) = {} THEN {} ELSE {Dentry(n), Inode(n)}

\* lfs_create_files(): what could not be made is missing, silently.
lfs_create_files(lost) ==
  LET subdir == lfs_create_dir("subdir", lost) IN
  lfs_create_file("counter", lost) \cup subdir
    \cup (IF subdir # {} THEN lfs_create_file("subcounter", lost) ELSE {})

Init ==
  /\ FileInit
  /\ mounted = {}
  /\ objects = [s \in Supers |-> {}]
  /\ stray = {} /\ loaded = FALSE
  /\ fault = "none"

\* lfs_init() and lfs_exit(); a mounted file system keeps its module.
Load ==
  /\ ~loaded /\ loaded' = TRUE
  /\ counter' = [f \in Names |-> 0]
  /\ UNCHANGED <<fd, mounted, objects, stray, fault>>

Unload ==
  /\ loaded /\ mounted = {} /\ loaded' = FALSE
  /\ UNCHANGED <<fileVars, mounted, objects, stray, fault>>

\* lfs_get_super(), lfs_fill_super(): every mount is a new super block, and
\* sets the counters of all of them to 0.
Mount(s, lost) ==
  /\ loaded /\ s \notin mounted
  /\ Dentry("root") \notin lost /\ lfs_make_inode("root", lost) # {}
  /\ mounted' = mounted \cup {s}
  /\ objects' = [objects EXCEPT ![s] = {Dentry("root"), Inode("root")} \cup lfs_create_files(lost)]
  /\ counter' = [f \in Names |-> 0]
  /\ fd' = [p \in Procs |-> [fd[p] EXCEPT !.clean = FALSE]]
  /\ UNCHANGED <<stray, loaded, fault>>

\* Without a root inode inode_init_owner() gets NULL; without a root dentry
\* the inode is put twice, by d_make_root() and by lfs_fill_super().
MountFails(s, lost) ==
  /\ loaded /\ s \notin mounted
  /\ lost \cap {Dentry("root"), Inode("root")} # {}
  /\ fault' = IF lfs_make_inode("root", lost) = {} THEN "NULL inode" ELSE "double iput"
  /\ UNCHANGED <<fileVars, mounted, objects, stray, loaded>>

\* kill_litter_super(): every dentry that has an inode is dropped.
Dropped(have) == {o \in have : Dentry(o[2]) \in have /\ Inode(o[2]) \in have}

Unmount(s) ==
  /\ s \in mounted
  /\ \A p \in Procs : fd[p] = Closed \/ fd[p].sb # s
  /\ mounted' = mounted \ {s}
  /\ objects' = [objects EXCEPT ![s] = {}]
  /\ stray' = stray \cup (objects[s] \ Dropped(objects[s]))
  /\ UNCHANGED <<fileVars, loaded, fault>>

lfs_open(p, s) ==
  /\ s \in mounted
  /\ \E f \in Names : Dentry(f) \in objects[s] /\ Open(p, f, s)
  /\ UNCHANGED <<mounted, objects, stray, loaded, fault>>

Next ==
  /\ fault = "none"
  /\ \/ Load \/ Unload
     \/ \E s \in Supers :
          \/ \E lost \in Failures : Mount(s, lost) \/ MountFails(s, lost)
          \/ Unmount(s)
          \/ \E p \in Procs : lfs_open(p, s)
     \/ FileOps /\ UNCHANGED <<mounted, objects, stray, loaded, fault>>

Spec == Init /\ [][Next]_vars

\* Whichever allocations of a mount failed, an unmounted super block leaves
\* nothing in memory, and no file is there whose directory is missing.
NothingLeft ==
  /\ stray = {}
  /\ \A s \in Supers : Dentry("subcounter") \in objects[s] => Inode("subdir") \in objects[s]
=============================================================================
