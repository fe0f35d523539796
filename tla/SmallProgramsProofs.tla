------------------------ MODULE SmallProgramsProofs ------------------------
(***************************************************************************)
(* Proofs about the small programs, for all values of their parameters: in *)
(* the composition a step is a step of the program that sel names and      *)
(* leaves the variables of the others alone, so an invariant of a program  *)
(* that its own steps keep is an invariant of the whole.                   *)
(***************************************************************************)
EXTENDS MCSmallPrograms, SequenceTheorems, FiniteSetTheorems, TLAPS

----------------------------------------------------------------------------
(* syncQueue.cpp                                                           *)

QueueTypes ==
  /\ queue_ \in Seq(Nat) /\ popped \in Seq(Nat) /\ pushed \in Nat
  /\ pc \in [Q!Threads -> {"out", "lock", "in", "asleep"}]

QueueInv == QueueTypes /\ Q!SomeConsumerAwake /\ Q!FifoExactlyOnce

\* push() and pop() keep the types of the queue and of the threads.
LEMMA QueueTypesStep == QueueTypes /\ Q!Next => QueueTypes'
<1> SUFFICES ASSUME QueueTypes, NEW t \in Q!Threads,
                    Q!Step(t) \/ Q!SpuriousWakeup(t)
             PROVE  QueueTypes'
  BY DEF Q!Next
<1> USE DEF QueueTypes
<1>1. CASE Q!Push(t)
  <2>1. Q!Sleepers \subseteq Q!Threads
    BY DEF Q!Sleepers, Q!Threads
  <2>2. queue_' \in Seq(Nat) /\ popped' \in Seq(Nat) /\ pushed' \in Nat
    BY <1>1 DEF Q!Push
  <2>3. pc' \in [Q!Threads -> {"out", "lock", "in", "asleep"}]
    BY <1>1, <2>1 DEF Q!Push
  <2> QED
    BY <2>2, <2>3
<1>2. CASE Q!Pop(t)
  <2>1. Q!Front(queue_) \in Nat /\ Tail(queue_) \in Seq(Nat)
    BY <1>2 DEF Q!Pop, Q!Front
  <2> QED
    BY <1>2, <2>1 DEF Q!Pop
<1>3. CASE Q!Call(t) \/ Q!Lock(t) \/ Q!Sleep(t) \/ Q!SpuriousWakeup(t)
  BY <1>3 DEF Q!Call, Q!Lock, Q!Sleep, Q!SpuriousWakeup
<1> QED
  BY <1>1, <1>2, <1>3 DEF Q!Step

\* The push() that makes the queue non-empty wakes a sleeper, and a consumer
\* goes to sleep only on an empty queue; so one of them is awake while there
\* is something to pop.
LEMMA AwakeStep == QueueTypes /\ Q!SomeConsumerAwake /\ Q!Next
                     => Q!SomeConsumerAwake'
<1> SUFFICES ASSUME QueueTypes, Q!SomeConsumerAwake, NEW t \in Q!Threads,
                    Q!Step(t) \/ Q!SpuriousWakeup(t)
             PROVE  Q!SomeConsumerAwake'
  BY DEF Q!Next
<1> USE QueueAssumption DEF QueueTypes, Q!SomeConsumerAwake, Q!Threads
<1>1. CASE Q!Push(t)
  BY <1>1 DEF Q!Push, Q!Sleepers, Q!Wakes
<1>2. CASE Q!Sleep(t)
  BY <1>2 DEF Q!Sleep
<1>3. CASE Q!Pop(t)
  BY <1>3 DEF Q!Pop
<1>4. CASE Q!Call(t) \/ Q!Lock(t) \/ Q!SpuriousWakeup(t)
  BY <1>4 DEF Q!Call, Q!Lock, Q!SpuriousWakeup
<1> QED
  BY <1>1, <1>2, <1>3, <1>4 DEF Q!Step

\* Moving the front of one sequence to the end of another leaves what they
\* are together.
LEMMA MoveFront ==
  ASSUME NEW S, NEW s \in Seq(S), NEW q \in Seq(S), q # <<>>
  PROVE  Append(s, q[1]) \o Tail(q) = s \o q
<1>1. Len(q) \in Nat /\ Len(q) > 0 /\ Len(s) \in Nat /\ q[1] \in S
  OBVIOUS
<1>2. Tail(q) \in Seq(S) /\ Len(Tail(q)) = Len(q) - 1
        /\ \A i \in 1 .. Len(q) - 1 : Tail(q)[i] = q[i + 1]
  BY <1>1
<1>3. Append(s, q[1]) \in Seq(S) /\ Len(Append(s, q[1])) = Len(s) + 1
        /\ Append(s, q[1])[Len(s) + 1] = q[1]
        /\ \A i \in 1 .. Len(s) : Append(s, q[1])[i] = s[i]
  BY <1>1
<1> DEFINE lhs == Append(s, q[1]) \o Tail(q)
           rhs == s \o q
<1>4. lhs \in Seq(S) /\ rhs \in Seq(S) /\ Len(lhs) = Len(s) + Len(q)
        /\ Len(rhs) = Len(s) + Len(q)
  BY <1>1, <1>2, <1>3
<1>5. ASSUME NEW i \in 1 .. Len(s) + Len(q)
      PROVE  lhs[i] = rhs[i]
  <2>1. CASE i <= Len(s)
    BY <1>1, <1>2, <1>3, <2>1
  <2>2. CASE i = Len(s) + 1
    BY <1>1, <1>2, <1>3, <2>2
  <2>3. CASE i > Len(s) + 1
    <3>1. lhs[i] = Tail(q)[i - (Len(s) + 1)]
      BY <1>1, <1>2, <1>3, <2>3
    <3>2. rhs[i] = q[i - Len(s)]
      BY <1>1, <2>3
    <3> QED
      BY <1>1, <1>2, <2>3, <3>1, <3>2
  <2> QED
    BY <1>1, <2>1, <2>2, <2>3
<1> HIDE DEF lhs, rhs
<1>6. lhs = rhs
  BY <1>4, <1>5, SeqEqual
<1> QED
  BY <1>6 DEF lhs, rhs

\* Appending to the second of two sequences appends to both together.
LEMMA AppendBehind ==
  ASSUME NEW S, NEW s \in Seq(S), NEW q \in Seq(S), NEW x \in S
  PROVE  s \o Append(q, x) = Append(s \o q, x)
<1> DEFINE both == s \o q
           more == Append(q, x)
           lhs == s \o more
           rhs == Append(both, x)
<1>1. Len(s) \in Nat /\ Len(q) \in Nat
  OBVIOUS
<1>2. more \in Seq(S) /\ Len(more) = Len(q) + 1 /\ more[Len(q) + 1] = x
        /\ \A i \in 1 .. Len(q) : more[i] = q[i]
  OBVIOUS
<1>3. both \in Seq(S) /\ Len(both) = Len(s) + Len(q)
        /\ \A i \in 1 .. Len(s) + Len(q) :
             both[i] = IF i <= Len(s) THEN s[i] ELSE q[i - Len(s)]
  BY ConcatProperties
<1> HIDE DEF both, more
<1>4. lhs \in Seq(S) /\ Len(lhs) = Len(s) + Len(more)
        /\ \A i \in 1 .. Len(s) + Len(more) :
             lhs[i] = IF i <= Len(s) THEN s[i] ELSE more[i - Len(s)]
  BY <1>2, ConcatProperties
<1>5. rhs \in Seq(S) /\ Len(rhs) = Len(both) + 1 /\ rhs[Len(both) + 1] = x
        /\ \A i \in 1 .. Len(both) : rhs[i] = both[i]
  BY <1>3, AppendProperties, ZenonT(60)
<1> HIDE DEF lhs, rhs
<1>6. ASSUME NEW i \in 1 .. Len(s) + Len(q) + 1
      PROVE  lhs[i] = rhs[i]
  <2>1. lhs[i] = IF i <= Len(s) THEN s[i] ELSE more[i - Len(s)]
    BY <1>1, <1>2, <1>4
  <2>2. CASE i = Len(s) + Len(q) + 1
    BY <1>1, <1>2, <1>3, <1>5, <2>1, <2>2
  <2>3. CASE i \in 1 .. Len(s) + Len(q)
    <3>1. rhs[i] = IF i <= Len(s) THEN s[i] ELSE q[i - Len(s)]
      BY <1>3, <1>5, <2>3
    <3>2. i > Len(s) => i - Len(s) \in 1 .. Len(q)
      BY <1>1, <2>3
    <3> QED
      BY <1>1, <1>2, <2>1, <2>3, <3>1, <3>2
  <2> QED
    BY <1>1, <2>2, <2>3
<1>7. Len(lhs) = Len(s) + Len(q) + 1 /\ Len(rhs) = Len(s) + Len(q) + 1
  BY <1>1, <1>2, <1>3, <1>4, <1>5
<1>8. lhs \in Seq(S) /\ rhs \in Seq(S)
  BY <1>4, <1>5
<1>9. \A i \in 1 .. Len(lhs) : lhs[i] = rhs[i]
  BY <1>6, <1>7
<1>10. lhs = rhs
  BY <1>7, <1>8, <1>9, SeqEqual
<1> QED
  BY <1>10 DEF lhs, rhs, both, more

\* push() appends the next value and pop() takes the oldest.
LEMMA FifoStep == QueueTypes /\ Q!FifoExactlyOnce /\ Q!Next => Q!FifoExactlyOnce'
<1> SUFFICES ASSUME QueueTypes, Q!FifoExactlyOnce, NEW t \in Q!Threads,
                    Q!Step(t) \/ Q!SpuriousWakeup(t)
             PROVE  Q!FifoExactlyOnce'
  BY DEF Q!Next
<1>t. queue_ \in Seq(Nat) /\ popped \in Seq(Nat) /\ pushed \in Nat
  BY DEF QueueTypes
<1>1. CASE Q!Push(t)
  <2>1. pushed' = pushed + 1 /\ queue_' = Append(queue_, pushed + 1) /\ popped' = popped
    BY <1>1 DEF Q!Push
  <2>2. popped \o Append(queue_, pushed + 1) = Append(popped \o queue_, pushed + 1)
    BY <1>t, AppendBehind
  <2>3. Append([i \in 1 .. pushed |-> i], pushed + 1) = [i \in 1 .. pushed + 1 |-> i]
    BY <1>t
  <2> QED
    BY <2>1, <2>2, <2>3 DEF Q!FifoExactlyOnce
<1>2. CASE Q!Pop(t)
  <2>1. queue_ # <<>> /\ popped' = Append(popped, queue_[1])
          /\ queue_' = Tail(queue_) /\ pushed' = pushed
    BY <1>2 DEF Q!Pop, Q!Front
  <2>2. Append(popped, queue_[1]) \o Tail(queue_) = popped \o queue_
    BY <1>t, <2>1, MoveFront
  <2> QED
    BY <2>1, <2>2 DEF Q!FifoExactlyOnce
<1>3. CASE Q!Call(t) \/ Q!Lock(t) \/ Q!Sleep(t) \/ Q!SpuriousWakeup(t)
  BY <1>3 DEF Q!FifoExactlyOnce, Q!Call, Q!Lock, Q!Sleep, Q!SpuriousWakeup
<1> QED
  BY <1>1, <1>2, <1>3 DEF Q!Step

\* syncQueue.cpp: consumers never all sleep on a queue that holds a value, and
\* values leave it once each and in order, for any number of threads.
THEOREM QueueTheorem == Spec => []SomeConsumerAwake
<1>1. Init => QueueInv
  <2> SUFFICES ASSUME Q!Init PROVE QueueInv
    BY DEF Init
  <2>1. popped \o queue_ = [i \in 1 .. pushed |-> i]
    BY DEF Q!Init
  <2> QED
    BY <2>1 DEF Q!Init, QueueInv, QueueTypes, Q!SomeConsumerAwake, Q!FifoExactlyOnce
<1>2. QueueInv /\ [Next]_vars => QueueInv'
  <2>1. QueueInv /\ Q!Next => QueueInv'
    BY QueueTypesStep, AwakeStep, FifoStep DEF QueueInv
  <2>2. QueueInv /\ UNCHANGED queueVars => QueueInv'
    BY DEF QueueInv, QueueTypes, queueVars, Q!SomeConsumerAwake, Q!FifoExactlyOnce
  <2>3. [Next]_vars => Q!Next \/ UNCHANGED queueVars
    BY DEF Next, vars
  <2> QED
    BY <2>1, <2>2, <2>3
<1>3. QueueInv => SomeConsumerAwake
  BY DEF QueueInv, SomeConsumerAwake
<1> QED
  BY <1>1, <1>2, <1>3, PTL DEF Spec

----------------------------------------------------------------------------
(* The kernel modules                                                      *)

Items2 == {"item1", "item2"}

Idle == \A c \in Cpus : handler[c] = NIL

(***************************************************************************)
(* my_workqueue.c: an item that is not freed is queued or runs, and none   *)
(* was made while there is no workqueue.                                   *)
(***************************************************************************)
WorkqueueOK ==
  mod = "workqueue" =>
    /\ at \in {"out", "init", "item1", "item2", "loaded", "exit"}
    /\ handler \in [Cpus -> Items2 \cup {NIL}]
    /\ queued \subseteq Items2 /\ memory \subseteq Items2
    /\ \A i \in memory : i \in queued \/ \E c \in Cpus : handler[c] = i
    /\ ~hooked /\ my_wq \in BOOLEAN
    /\ at \in {"item1", "item2"} => my_wq
    /\ at \in {"out", "init"} \/ ~my_wq => queued = {} /\ Idle

(***************************************************************************)
(* hook.c: a packet is in memory while ji_packet_rcv runs on it; none is   *)
(* delivered before ji_proto is on the list.                               *)
(***************************************************************************)
HookOK ==
  mod = "hook" =>
    /\ at \in {"out", "init", "loaded", "exit"}
    /\ handler \in [Cpus -> {"packet", NIL}]
    /\ queued = {}
    /\ \A m \in memory : \E c \in Cpus : m = <<"skb", c>> /\ handler[c] = "packet"
    /\ at \in {"out", "init"} => ~hooked /\ Idle

\* Every step of my_workqueue.c and of the workers keeps each item that is in
\* memory queued or running; exit waits for both.
LEMMA WorkqueueStep == WorkqueueOK /\ K!Next => WorkqueueOK'
<1> SUFFICES ASSUME WorkqueueOK, K!Next, mod = "workqueue"
             PROVE  WorkqueueOK'
  BY DEF K!Next, K!Insmod, K!Rmmod, K!CreateWorkqueue, K!ExitWorkqueue,
         K!JiInit, K!RemovePack, K!RegisterDevice, K!AllocBuffer,
         K!UnregisterDevice, K!FreeBuffer, K!FileHandling, K!InitCrypto, K!QuietExit, K!QueueItem, K!RunItem, K!ItemDone,
         K!ReceivePacket, K!PacketDone, K!DeviceOpen, K!DeviceRead,
         K!DeviceRelease, K!DeviceWrite, WorkqueueOK
<1> USE KernelAssumption DEF WorkqueueOK, Items2, Idle
<1>1. CASE K!Insmod \/ K!Rmmod
  BY <1>1 DEF K!Insmod, K!Rmmod, K!wqVars, K!hookVars
<1>2. CASE K!CreateWorkqueue
  BY <1>2 DEF K!CreateWorkqueue, K!hookVars
<1>3. CASE K!ExitWorkqueue
  BY <1>3 DEF K!ExitWorkqueue, K!Flushed, K!hookVars
<1>4. ASSUME NEW it \in {"item1", "item2"}, K!QueueItem(it)
      PROVE  WorkqueueOK'
  BY <1>4 DEF K!QueueItem, K!hookVars
<1>5. ASSUME NEW it \in {"item1", "item2"}, NEW c \in Cpus, K!RunItem(c, it)
      PROVE  WorkqueueOK'
  BY <1>5 DEF K!RunItem, K!hookVars
<1>6. ASSUME NEW c \in Cpus, K!ItemDone(c)
      PROVE  WorkqueueOK'
  BY <1>6 DEF K!ItemDone, K!Freed, K!wqVars, K!hookVars
<1>7. ASSUME NEW c \in Cpus, K!PacketDone(c) \/ K!ReceivePacket(c)
      PROVE  WorkqueueOK'
  BY <1>7 DEF K!PacketDone, K!ReceivePacket
<1>8. ASSUME NEW u \in Users,
             K!DeviceOpen(u) \/ K!DeviceRead(u) \/ K!DeviceRelease(u)
               \/ \E len \in 0 .. DeviceSize + 1 : K!DeviceWrite(u, len)
      PROVE  WorkqueueOK'
  BY <1>8 DEF K!DeviceOpen, K!DeviceRead, K!DeviceRelease, K!DeviceWrite,
              K!wqVars, K!hookVars
<1> QED
  BY <1>1, <1>2, <1>3, <1>4, <1>5, <1>6, <1>7, <1>8
     DEF K!Next, K!JiInit, K!RemovePack, K!RegisterDevice, K!AllocBuffer,
         K!UnregisterDevice, K!FreeBuffer, K!FileHandling, K!InitCrypto, K!QuietExit

\* Every step of hook.c and of the network keeps a packet in memory only as
\* long as its handler runs.
LEMMA HookStep == HookOK /\ K!Next => HookOK'
<1> SUFFICES ASSUME HookOK, K!Next, mod = "hook"
             PROVE  HookOK'
  BY DEF K!Next, K!Insmod, K!Rmmod, K!CreateWorkqueue, K!ExitWorkqueue,
         K!JiInit, K!RemovePack, K!RegisterDevice, K!AllocBuffer,
         K!UnregisterDevice, K!FreeBuffer, K!FileHandling, K!InitCrypto, K!QuietExit, K!QueueItem, K!RunItem, K!ItemDone,
         K!ReceivePacket, K!PacketDone, K!DeviceOpen, K!DeviceRead,
         K!DeviceRelease, K!DeviceWrite, HookOK
<1> USE KernelAssumption DEF HookOK, Idle
<1>1. CASE K!Insmod \/ K!Rmmod
  BY <1>1 DEF K!Insmod, K!Rmmod, K!wqVars, K!hookVars
<1>2. CASE K!JiInit
  BY <1>2 DEF K!JiInit, K!wqVars
<1>3. CASE K!RemovePack
  BY <1>3 DEF K!RemovePack, K!wqVars
<1>4. ASSUME NEW c \in Cpus, K!ReceivePacket(c)
      PROVE  HookOK'
  BY <1>4 DEF K!ReceivePacket, K!wqVars, K!hookVars
<1>5. ASSUME NEW c \in Cpus, K!PacketDone(c)
      PROVE  HookOK'
  BY <1>5 DEF K!PacketDone, K!wqVars, K!hookVars
<1>6. ASSUME NEW c \in Cpus, K!ItemDone(c) \/ \E it \in Items2 : K!RunItem(c, it)
      PROVE  HookOK'
  BY <1>6 DEF K!ItemDone, K!RunItem
<1>7. ASSUME NEW u \in Users,
             K!DeviceOpen(u) \/ K!DeviceRead(u) \/ K!DeviceRelease(u)
               \/ \E len \in 0 .. DeviceSize + 1 : K!DeviceWrite(u, len)
      PROVE  HookOK'
  BY <1>7 DEF K!DeviceOpen, K!DeviceRead, K!DeviceRelease, K!DeviceWrite,
              K!wqVars, K!hookVars
<1> QED
  BY <1>1, <1>2, <1>3, <1>4, <1>5, <1>6, <1>7
     DEF K!Next, K!CreateWorkqueue, K!ExitWorkqueue, K!QueueItem,
         K!RegisterDevice, K!AllocBuffer, K!UnregisterDevice, K!FreeBuffer, K!FileHandling, K!InitCrypto, K!QuietExit, Items2

\* my_workqueue.c and hook.c leave nothing running, queued or in memory when
\* they are unloaded, whatever the number of cpus and however often they are
\* loaded.
THEOREM QuietTheorem == Spec => []QuietWhenUnloaded
<1> DEFINE Inv == WorkqueueOK /\ HookOK
<1>1. Init => Inv
  <2> SUFFICES ASSUME K!Init PROVE Inv
    BY DEF Init
  <2>1. Idle /\ handler \in [Cpus -> {NIL}]
    BY DEF K!Init, Idle
  <2>2. at = "out" /\ queued = {} /\ memory = {} /\ ~hooked /\ my_wq = FALSE
    BY DEF K!Init
  <2> QED
    BY <2>1, <2>2 DEF WorkqueueOK, HookOK
<1>2. Inv /\ [Next]_vars => Inv'
  <2>1. Inv /\ K!Next => Inv'
    BY WorkqueueStep, HookStep
  <2>2. Inv /\ UNCHANGED kernelVars => Inv'
    BY DEF WorkqueueOK, HookOK, kernelVars, Idle
  <2>3. [Next]_vars => K!Next \/ UNCHANGED kernelVars
    BY DEF Next, vars
  <2> QED
    BY <2>1, <2>2, <2>3
<1>3. Inv => QuietWhenUnloaded
  BY KernelAssumption
     DEF WorkqueueOK, HookOK, Idle, Items2, QuietWhenUnloaded,
         K!QuietWhenUnloaded
<1> QED
  BY <1>1, <1>2, <1>3, PTL DEF Spec

----------------------------------------------------------------------------
(* lwnfs.c                                                                 *)

\* The objects of a super block come in pairs of a dentry and an inode, and
\* the counter of the directory only with the directory.
LwnfsTree(have) ==
  /\ have \subseteq L!Allocations
  /\ \A part \in L!Parts : L!Dentry(part) \in have <=> L!Inode(part) \in have
  /\ L!Dentry("subcounter") \in have => L!Inode("subdir") \in have

LwnfsOK == lstray = {} /\ DOMAIN lobjects = Supers
             /\ \A s \in Supers : LwnfsTree(lobjects[s])

\* lfs_fill_super(): whatever allocations failed, what it built is a tree.
LEMMA LwnfsBuilds ==
  ASSUME NEW lost
  PROVE  LwnfsTree({L!Dentry("root"), L!Inode("root")} \cup L!lfs_create_files(lost))
BY DEF LwnfsTree, L!lfs_create_files, L!lfs_create_file, L!lfs_create_dir,
       L!lfs_make_inode, L!Allocations, L!Parts, L!Dentry, L!Inode

\* kill_litter_super() drops all of a tree.
LEMMA LwnfsDrops ==
  ASSUME NEW have, LwnfsTree(have)
  PROVE  L!Dropped(have) = have
<1>1. ASSUME NEW o \in have
      PROVE  L!Dentry(o[2]) \in have /\ L!Inode(o[2]) \in have
  <2>1. PICK part \in L!Parts : o = L!Dentry(part) \/ o = L!Inode(part)
    BY <1>1 DEF LwnfsTree, L!Allocations
  <2>2. o[2] = part
    BY <2>1 DEF L!Dentry, L!Inode
  <2> QED
    BY <1>1, <2>1, <2>2 DEF LwnfsTree
<1> QED
  BY <1>1 DEF L!Dropped

\* Mounting builds a tree, unmounting drops one, nothing else touches them.
LEMMA LwnfsStep == LwnfsOK /\ L!Next => LwnfsOK'
<1> SUFFICES ASSUME LwnfsOK, L!Next
             PROVE  LwnfsOK'
  OBVIOUS
<1>1. ASSUME NEW s \in Supers, NEW lost \in L!Failures, L!Mount(s, lost)
      PROVE  LwnfsOK'
  BY <1>1, LwnfsBuilds DEF LwnfsOK, L!Mount
<1>2. ASSUME NEW s \in Supers, L!Unmount(s)
      PROVE  LwnfsOK'
  <2>1. lobjects[s] \ L!Dropped(lobjects[s]) = {}
    BY LwnfsDrops DEF LwnfsOK
  <2>2. LwnfsTree({})
    BY DEF LwnfsTree
  <2> QED
    BY <1>2, <2>1, <2>2 DEF LwnfsOK, L!Unmount
<1>3. CASE UNCHANGED <<lobjects, lstray>>
  BY <1>3 DEF LwnfsOK
<1> QED
  BY <1>1, <1>2, <1>3
     DEF L!Next, L!Load, L!Unload, L!MountFails, L!lfs_open
----------------------------------------------------------------------------
(* JIFS, super.c                                                           *)

JifsRoot == {J!Dentry("root"), J!Inode("root")}

JifsPaired(have) ==
  \A part \in J!Parts : J!Dentry(part) \in have <=> J!Inode(part) \in have

Mounted == {s \in Supers : users[s] > 0}

JifsOK ==
  /\ users \in [Supers -> 0 .. 2] /\ sbi \in Int /\ failed \in Nat
  /\ DOMAIN jobjects = Supers
  /\ \A s \in Supers : /\ JifsPaired(jobjects[s])
                       /\ users[s] > 0 => JifsRoot \subseteq jobjects[s]
  /\ jstray # {} => JifsRoot \subseteq jstray
  /\ JifsPaired(jstray)
  /\ sbi = failed + Cardinality(Mounted)

\* jifs_fill_super(): what it built has a root and whole files.
LEMMA JifsBuilds ==
  ASSUME NEW lost
  PROVE  JifsPaired(JifsRoot \cup J!jifs_create_files(lost))
BY DEF JifsPaired, JifsRoot, J!jifs_create_files, J!jifs_create_file,
       J!jifs_create_dir, J!jifs_make_inode, J!Parts, J!Dentry, J!Inode

\* A super block that is mounted for the first time, or unmounted for the last,
\* counts.
LEMMA MountedCounts ==
  ASSUME JifsOK, NEW s \in Supers, NEW k \in 0 .. 2,
         users' = [users EXCEPT ![s] = k]
  PROVE  /\ Cardinality(Mounted) \in Nat
         /\ users[s] = 0 /\ k > 0 => Cardinality(Mounted') = Cardinality(Mounted) + 1
         /\ users[s] > 0 /\ k = 0 => Cardinality(Mounted') = Cardinality(Mounted) - 1
         /\ users[s] > 0 /\ k > 0 => Cardinality(Mounted') = Cardinality(Mounted)
<1>1. IsFiniteSet(Mounted) /\ Cardinality(Mounted) \in Nat
  <2>1. Mounted \subseteq Supers
    BY DEF Mounted
  <2> QED
    BY <2>1, SupersAssumption, FS_Subset, FS_CardinalityType
<1>2. users[s] \in 0 .. 2 /\ (s \in Mounted <=> users[s] > 0)
  BY DEF JifsOK, Mounted
<1>3. CASE users[s] = 0 /\ k > 0
  <2>1. Mounted' = Mounted \cup {s}
    BY <1>3 DEF Mounted, JifsOK
  <2>2. Cardinality(Mounted \cup {s}) = Cardinality(Mounted) + 1
    BY <1>1, <1>2, <1>3, FS_AddElement, SMTT(30)
  <2> QED
    BY <1>1, <1>3, <2>1, <2>2
<1>4. CASE users[s] > 0 /\ k = 0
  <2>1. Mounted' = Mounted \ {s}
    BY <1>4 DEF Mounted, JifsOK
  <2>2. Cardinality(Mounted \ {s}) = Cardinality(Mounted) - 1
    BY <1>1, <1>2, <1>4, FS_RemoveElement
  <2> QED
    BY <1>1, <1>4, <2>1, <2>2
<1>5. CASE users[s] > 0 /\ k > 0
  <2>1. Mounted' = Mounted
    BY <1>5 DEF Mounted, JifsOK
  <2> QED
    BY <1>1, <1>5, <2>1
<1> QED
  BY <1>1, <1>2, <1>3, <1>4, <1>5

\* What an unmount drops of the objects of a super block: a bare root, or
\* nothing; what it leaves behind is nothing or a tree with its root.
LEMMA JifsDrops ==
  ASSUME NEW have, JifsPaired(have), JifsRoot \subseteq have
  PROVE  \/ have \ J!Dropped(have) = {}
         \/ have \ J!Dropped(have) = have
BY DEF J!Dropped

\* Each operation of super.c keeps the trees whole and counts its private
\* part: a mount that fails after it was allocated never gives it back.
LEMMA JifsStep == JifsOK /\ J!Next => JifsOK'
<1> SUFFICES ASSUME JifsOK, J!Next
             PROVE  JifsOK'
  OBVIOUS
<1>0. /\ users \in [Supers -> 0 .. 2] /\ sbi \in Int /\ failed \in Nat
      /\ DOMAIN jobjects = Supers /\ sbi = failed + Cardinality(Mounted)
  BY DEF JifsOK
<1>1. ASSUME NEW s \in Supers, NEW opts, NEW lost, J!Mount(s, opts, lost)
      PROVE  JifsOK'
  <2>1. /\ users[s] = 0 /\ users' = [users EXCEPT ![s] = 1]
        /\ sbi' = sbi + 1 /\ UNCHANGED <<failed, jstray>>
        /\ jobjects' = [jobjects EXCEPT ![s] = JifsRoot \cup J!jifs_create_files(lost)]
    BY <1>1 DEF J!Mount, JifsRoot
  <2>2. Cardinality(Mounted) \in Nat /\ Cardinality(Mounted') = Cardinality(Mounted) + 1
    BY <2>1, 1 \in 0 .. 2, 1 > 0, MountedCounts
  <2>3. \A x \in Supers : /\ JifsPaired(jobjects'[x])
                          /\ users'[x] > 0 => JifsRoot \subseteq jobjects'[x]
    BY <1>0, <2>1, JifsBuilds DEF JifsOK, JifsPaired
  <2>4. sbi' = failed' + Cardinality(Mounted')
    BY <1>0, <2>1, <2>2
  <2> QED
    BY <1>0, <2>1, <2>3, <2>4 DEF JifsOK
<1>2. ASSUME NEW s \in Supers, NEW opts, NEW lost, J!MountFails(s, opts, lost)
      PROVE  JifsOK'
  <2>1. /\ sbi' = sbi + 1 /\ failed' = failed + 1
        /\ UNCHANGED <<users, jobjects, jstray>>
    BY <1>2 DEF J!MountFails
  <2>2. Mounted' = Mounted
    BY <2>1 DEF Mounted
  <2>3. Cardinality(Mounted) \in Nat
    BY <1>0, <2>1, users[s] \in 0 .. 2, users = [users EXCEPT ![s] = users[s]], MountedCounts
  <2> QED
    BY <1>0, <2>1, <2>2, <2>3 DEF JifsOK
<1>3. ASSUME NEW s \in Supers, J!MountAgain(s)
      PROVE  JifsOK'
  <2>1. /\ users[s] = 1 /\ users' = [users EXCEPT ![s] = 2]
        /\ UNCHANGED <<sbi, failed, jobjects, jstray>>
    BY <1>3 DEF J!MountAgain
  <2>2. Cardinality(Mounted') = Cardinality(Mounted)
    BY <2>1, 2 \in 0 .. 2, 2 > 0, 1 > 0, MountedCounts
  <2>3. sbi' = failed' + Cardinality(Mounted')
    BY <1>0, <2>1, <2>2
  <2> QED
    BY <1>0, <2>1, <2>3 DEF JifsOK
<1>4. ASSUME NEW s \in Supers, J!Unmount(s)
      PROVE  JifsOK'
  <2>1. PICK k \in 0 .. 2 : k = users[s] - 1
    BY <1>0, <1>4 DEF J!Unmount
  <2>2. users[s] > 0 /\ users' = [users EXCEPT ![s] = k] /\ UNCHANGED failed
    BY <1>4, <2>1 DEF J!Unmount
  <2>3. CASE k > 0
    <3>1. UNCHANGED <<sbi, jobjects, jstray>>
      BY <1>0, <1>4, <2>1, <2>3 DEF J!Unmount
    <3>2. Cardinality(Mounted') = Cardinality(Mounted)
      BY <2>2, <2>3, MountedCounts
    <3>3. sbi' = failed' + Cardinality(Mounted')
      BY <1>0, <2>2, <3>1, <3>2
    <3> QED
      BY <1>0, <2>2, <3>1, <3>3 DEF JifsOK
  <2>4. CASE k = 0
    <3>1. /\ jobjects' = [jobjects EXCEPT ![s] = {}]
          /\ jstray' = jstray \cup (jobjects[s] \ J!Dropped(jobjects[s]))
          /\ sbi' = sbi - 1
      BY <1>0, <1>4, <2>1, <2>4 DEF J!Unmount, J!jifs_put_super
    <3>2. /\ Cardinality(Mounted) \in Nat
          /\ Cardinality(Mounted') = Cardinality(Mounted) - 1
      BY <2>2, <2>4, MountedCounts
    <3>3. sbi' = failed' + Cardinality(Mounted')
      BY <1>0, <2>2, <3>1, <3>2
    <3>4. JifsPaired(jobjects[s]) /\ JifsRoot \subseteq jobjects[s]
      BY <2>2 DEF JifsOK, JifsPaired
    <3>5. jstray' = jstray \/ jstray' = jstray \cup jobjects[s]
      BY <3>1, <3>4, JifsDrops
    <3>6. /\ jstray' # {} => JifsRoot \subseteq jstray'
          /\ JifsPaired(jstray')
      BY <3>4, <3>5 DEF JifsOK, JifsPaired
    <3>7. \A x \in Supers : /\ JifsPaired(jobjects'[x])
                            /\ users'[x] > 0 => JifsRoot \subseteq jobjects'[x]
      BY <1>0, <2>2, <2>4, <3>1 DEF JifsOK, JifsPaired
    <3> QED
      BY <1>0, <2>2, <3>1, <3>3, <3>6, <3>7 DEF JifsOK
  <2> QED
    BY <2>1, <2>3, <2>4
<1>5. CASE UNCHANGED <<users, jobjects, jstray, sbi, failed>>
  BY <1>5 DEF JifsOK, Mounted
<1> QED
  BY <1>1, <1>2, <1>3, <1>4, <1>5
     DEF J!Next, J!Load, J!Unload, J!jifs_i_callback, J!jifs_open,
         J!jifs_read_file, J!jifs_write_file, J!jifs_release

\* Whatever allocations failed and however mounts, failed mounts and unmounts
\* follow each other, lwnfs leaves nothing in memory; JIFS leaves whole trees,
\* and one private part for every mount that failed.
THEOREM TreesTheorem == Spec => []TreesReleased
<1>1. Init => LwnfsOK /\ JifsOK
  <2>1. L!Init => LwnfsOK
    BY DEF L!Init, LwnfsOK, LwnfsTree, L!Dentry, L!Inode
  <2>2. J!Init => JifsOK
    <3> SUFFICES ASSUME J!Init PROVE JifsOK
      OBVIOUS
    <3>1. Mounted = {}
      BY DEF J!Init, Mounted
    <3>2. sbi = failed + Cardinality(Mounted)
      BY <3>1, FS_EmptySet DEF J!Init
    <3> QED
      BY <3>2 DEF J!Init, JifsOK, JifsPaired
  <2> QED
    BY <2>1, <2>2 DEF Init
<1>2. LwnfsOK /\ JifsOK /\ [Next]_vars => (LwnfsOK /\ JifsOK)'
  <2>1. LwnfsOK /\ UNCHANGED lwnfsVars => LwnfsOK'
    BY DEF LwnfsOK, lwnfsVars
  <2>2. JifsOK /\ UNCHANGED jifsVars => JifsOK'
    BY DEF JifsOK, jifsVars, Mounted
  <2>3. [Next]_vars => /\ L!Next \/ UNCHANGED lwnfsVars
                       /\ J!Next \/ UNCHANGED jifsVars
    BY DEF Next, vars
  <2> QED
    BY <2>1, <2>2, <2>3, LwnfsStep, JifsStep
<1>3. LwnfsOK /\ JifsOK => TreesReleased
  <2>1. LwnfsOK => L!NothingLeft
    BY DEF LwnfsOK, LwnfsTree, L!NothingLeft
  <2>2. J!Cardinality(Mounted) = Cardinality(Mounted)
    BY DEF J!Cardinality, Cardinality
  <2>3. JifsOK => J!JifsLeavesWholeTrees
    BY <2>2 DEF JifsOK, JifsPaired, JifsRoot, Mounted, J!JifsLeavesWholeTrees
  <2> QED
    BY <2>1, <2>3 DEF TreesReleased
<1> QED
  BY <1>1, <1>2, <1>3, PTL DEF Spec
----------------------------------------------------------------------------
(* The libpmemobj programs of pmdk_practice                                *)

PoolOf(layout, root, buf, rect, heap, notes) ==
  [layout |-> layout, root |-> root, buf |-> buf, rect |-> rect,
   heap |-> heap, notes |-> notes]

\* The heap with the rectangle at rect, if there is one.
HeapOf(rect, r) == [o \in {rect} \ {NIL} |-> r]

\* A pool between transactions and atomic operations.
Whole(p) ==
  \E layout \in {"string_store", "rect_calc", "lists"}, root \in BOOLEAN,
     buf \in Words \cup {""}, rect \in Objects \cup {NIL}, notes \in P!Notes :
    p = PoolOf(layout, root, buf, rect, HeapOf(rect, P!Constructed), notes)

LogOf(added, old, freed) == [added |-> added, old |-> old, freed |-> freed]

\* No transaction is open.
Resting == log = NIL /\ Whole(pool)

\* A transaction that has not changed the pool yet.
Opened(added) == Whole(pool) /\ log = LogOf(added, pool, {})

\* tx_alloc/rect_calc.c between TX_NEW and TX_END: the only rectangle is the
\* new one, at o, its sides are those of r, and the root points at rect.
Filling(o, r, rect) ==
  /\ o \in Objects /\ Whole(log.old) /\ log.old.rect = NIL
  /\ log = LogOf({"root"}, log.old, {})
  /\ pool = [log.old EXCEPT !.rect = rect, !.heap = HeapOf(o, r)]

WriterAt ==
  \/ step \in 2 .. 3 /\ Resting
  \/ step = 4 /\ Resting /\ typed \in Words
  \/ step = 5 /\ Opened({}) /\ typed \in Words
  \/ /\ step = 6 /\ Whole(log.old) /\ typed \in Words
     /\ log = LogOf({"buf"}, log.old, {})
     /\ pool = [log.old EXCEPT !.buf = typed]
  \/ step = 7 /\ Resting

ReaderAt == step \in 2 .. 4 /\ Resting

RectTxAt ==
  \/ step \in 2 .. 3 /\ Resting /\ pool.rect = NIL
  \/ step = 4 /\ Opened({}) /\ pool.rect = NIL
  \/ step = 5 /\ Opened({"root"}) /\ pool.rect = NIL
  \/ step = 6 /\ \E o \in Objects : Filling(o, P!NoRect, NIL)
  \/ step = 7 /\ \E o \in Objects : Filling(o, [a |-> 5, b |-> 0], NIL)
  \/ step = 8 /\ \E o \in Objects : Filling(o, P!Constructed, NIL)
  \/ step = 9 /\ \E o \in Objects : Filling(o, P!Constructed, o)
  \/ step = 10 /\ Resting
  \/ step = 11 /\ Resting /\ pool.rect # NIL
  \/ step = 12 /\ Opened({}) /\ pool.rect # NIL
  \/ step = 13 /\ Opened({"root"}) /\ pool.rect # NIL
  \/ /\ step \in 14 .. 15 /\ Whole(log.old) /\ log.old.rect # NIL
     /\ log = LogOf({"root"}, log.old, {log.old.rect})
     /\ pool = IF step = 14 THEN log.old ELSE [log.old EXCEPT !.rect = NIL]

RectNtxAt ==
  \/ step \in 2 .. 3 /\ Resting /\ pool.rect = NIL
  \/ step = 4 /\ Resting
  \/ step = 5 /\ Resting /\ pool.rect # NIL

ListsAt ==
  \/ step \in 2 .. 3 /\ Resting /\ pool.notes = <<>>
  \/ step = 4 /\ Resting /\ pool.notes \in {<<>>, <<"note1">>}
  \/ step \in 5 .. 6 /\ Resting

\* What is known of the pool and of the log at each step of each program.
PoolInv ==
  \/ /\ \/ prog = NIL
        \/ prog \in {"writer", "reader", "rect_tx", "rect_ntx", "lists"} /\ step = 1
     /\ log = NIL /\ (pool = NIL \/ Whole(pool))
  \/ prog = "writer" /\ WriterAt
  \/ prog = "reader" /\ ReaderAt
  \/ prog = "rect_tx" /\ RectTxAt
  \/ prog = "rect_ntx" /\ RectNtxAt
  \/ prog = "lists" /\ ListsAt

\* A whole pool is a record with the fields of the layouts, and a log of a
\* transaction on it is not NIL.
LEMMA WholeIsPool ==
  ASSUME NEW p, Whole(p)
  PROVE  p \in P!Pools
<1>1. PICK layout \in {"string_store", "rect_calc", "lists"}, root \in BOOLEAN,
           buf \in Words \cup {""}, rect \in Objects \cup {NIL}, notes \in P!Notes :
        p = PoolOf(layout, root, buf, rect, HeapOf(rect, P!Constructed), notes)
  BY DEF Whole
<1>2. HeapOf(rect, P!Constructed) \in UNION {[D -> P!Rectangles] : D \in SUBSET Objects}
  <2>1. HeapOf(rect, P!Constructed) \in [{rect} \ {NIL} -> P!Rectangles]
    BY DEF HeapOf, P!Constructed, P!Rectangles
  <2>2. {rect} \ {NIL} \in SUBSET Objects
    OBVIOUS
  <2> QED
    BY <2>1, <2>2
<1>3. layout \in {P!Layout[q] : q \in DOMAIN P!Program}
  BY DEF P!Layout, P!Program
<1> QED
  BY <1>1, <1>2, <1>3 DEF PoolOf, P!Pools

\* A log of a transaction is not NIL, which stands for none.
LEMMA LogIsNotNil ==
  ASSUME NEW old, Whole(old), NEW added \in SUBSET {"root", "buf"},
         NEW freed \in SUBSET Objects
  PROVE  LogOf(added, old, freed) # NIL
<1>1. LogOf(added, old, freed) \in P!Logs
  BY WholeIsPool DEF LogOf, P!Logs
<1> QED
  BY <1>1, PoolAssumption

\* Rolling back a transaction restores what was logged and the heap, and
\* leaves the other fields.
LEMMA RolledBack ==
  ASSUME NEW old, Whole(old), NEW added \in SUBSET {"root", "buf"},
         NEW freed \in SUBSET Objects, log = LogOf(added, old, freed),
         NEW layout, NEW root, NEW buf, NEW rect, NEW heap, NEW notes,
         pool = PoolOf(layout, root, buf, rect, heap, notes)
  PROVE  P!Undone = PoolOf(layout, root, IF "buf" \in added THEN old.buf ELSE buf,
                           IF "root" \in added THEN old.rect ELSE rect, old.heap, notes)
<1>1. log # NIL
  BY LogIsNotNil
<1>2. log.old = old /\ log.added = added
  BY DEF LogOf
<1>3. P!Undone = [pool EXCEPT !.rect = IF "root" \in added THEN old.rect ELSE @,
                              !.buf = IF "buf" \in added THEN old.buf ELSE @,
                              !.heap = old.heap]
  BY <1>1, <1>2 DEF P!Undone
<1> QED
  BY <1>3 DEF PoolOf

\* A whole pool by its fields.
LEMMA WholeFields ==
  ASSUME NEW p, Whole(p)
  PROVE  /\ p = PoolOf(p.layout, p.root, p.buf, p.rect, p.heap, p.notes)
         /\ p.layout \in {"string_store", "rect_calc", "lists"} /\ p.root \in BOOLEAN
         /\ p.buf \in Words \cup {""} /\ p.rect \in Objects \cup {NIL}
         /\ p.heap = HeapOf(p.rect, P!Constructed) /\ p.notes \in P!Notes
<1>1. PICK layout \in {"string_store", "rect_calc", "lists"}, root \in BOOLEAN,
           buf \in Words \cup {""}, rect \in Objects \cup {NIL}, notes \in P!Notes :
        p = PoolOf(layout, root, buf, rect, HeapOf(rect, P!Constructed), notes)
  BY DEF Whole
<1>2. /\ p.layout = layout /\ p.root = root /\ p.buf = buf /\ p.rect = rect
      /\ p.heap = HeapOf(rect, P!Constructed) /\ p.notes = notes
  BY <1>1 DEF PoolOf
<1> QED
  BY <1>1, <1>2

\* The other way round.
LEMMA FieldsWhole ==
  ASSUME NEW layout \in {"string_store", "rect_calc", "lists"}, NEW root \in BOOLEAN,
         NEW buf \in Words \cup {""}, NEW rect \in Objects \cup {NIL}, NEW notes \in P!Notes,
         NEW heap, heap = HeapOf(rect, P!Constructed)
  PROVE  Whole(PoolOf(layout, root, buf, rect, heap, notes))
BY DEF Whole

\* What recovery leaves after a crash anywhere: a whole pool.
LEMMA Recovered ==
  ASSUME PoolInv
  PROVE  (pool = NIL /\ P!Undone = NIL) \/ Whole(P!Undone)
<1>1. ASSUME NEW added \in SUBSET {"root", "buf"}, Opened(added)
      PROVE  Whole(P!Undone)
  <2>1. PICK p : p = pool /\ Whole(p) /\ log = LogOf(added, p, {})
    BY <1>1 DEF Opened
  <2>2. p = PoolOf(p.layout, p.root, p.buf, p.rect, p.heap, p.notes)
    BY <2>1, WholeFields
  <2>3. P!Undone = PoolOf(p.layout, p.root, IF "buf" \in added THEN p.buf ELSE p.buf,
                          IF "root" \in added THEN p.rect ELSE p.rect, p.heap, p.notes)
    BY <2>1, <2>2, RolledBack, {} \in SUBSET Objects
  <2> QED
    BY <2>1, <2>2, <2>3
<1>2. ASSUME NEW p, Whole(p), NEW rect, NEW heap, NEW freed \in SUBSET Objects,
             log = LogOf({"root"}, p, freed),
             pool = PoolOf(p.layout, p.root, p.buf, rect, heap, p.notes)
      PROVE  Whole(P!Undone)
  <2>1. p = PoolOf(p.layout, p.root, p.buf, p.rect, p.heap, p.notes)
    BY <1>2, WholeFields
  <2>2. P!Undone = PoolOf(p.layout, p.root, IF "buf" \in {"root"} THEN p.buf ELSE p.buf,
                          IF "root" \in {"root"} THEN p.rect ELSE rect, p.heap, p.notes)
    BY <1>2, RolledBack, {"root"} \in SUBSET {"root", "buf"}
  <2>3. P!Undone = p
    BY <2>1, <2>2
  <2> QED
    BY <1>2, <2>3
<1>3. ASSUME NEW o, NEW r, NEW rect, Filling(o, r, rect)
      PROVE  Whole(P!Undone)
  <2>1. PICK p : p = log.old /\ Whole(p)
    BY <1>3 DEF Filling
  <2>2. p = PoolOf(p.layout, p.root, p.buf, p.rect, p.heap, p.notes)
    BY <2>1, WholeFields
  <2>3. pool = PoolOf(p.layout, p.root, p.buf, rect, HeapOf(o, r), p.notes)
    BY <1>3, <2>1, <2>2 DEF Filling, PoolOf
  <2>4. log = LogOf({"root"}, p, {})
    BY <1>3, <2>1 DEF Filling
  <2> QED
    BY <1>2, <2>1, <2>3, <2>4, {} \in SUBSET Objects
<1>4. CASE log = NIL /\ (pool = NIL \/ Whole(pool))
  BY <1>4 DEF P!Undone
<1>5. CASE prog = "writer" /\ WriterAt
  <2>1. CASE step = 6
    <3>1. PICK p : p = log.old /\ Whole(p)
      BY <1>5, <2>1 DEF WriterAt
    <3>2. p = PoolOf(p.layout, p.root, p.buf, p.rect, p.heap, p.notes)
      BY <3>1, WholeFields
    <3>3. pool = PoolOf(p.layout, p.root, typed, p.rect, p.heap, p.notes)
      BY <1>5, <2>1, <3>1, <3>2 DEF WriterAt, PoolOf
    <3>4. log = LogOf({"buf"}, p, {})
      BY <1>5, <2>1, <3>1 DEF WriterAt
    <3>5. P!Undone = PoolOf(p.layout, p.root, IF "buf" \in {"buf"} THEN p.buf ELSE typed,
                            IF "root" \in {"buf"} THEN p.rect ELSE p.rect, p.heap, p.notes)
      BY <3>1, <3>3, <3>4, RolledBack, {} \in SUBSET Objects, {"buf"} \in SUBSET {"root", "buf"}
    <3> QED
      BY <3>1, <3>2, <3>5
  <2>2. CASE step # 6
    <3>1. Resting \/ Opened({})
      BY <1>5, <2>2 DEF WriterAt
    <3> QED
      BY <3>1, <1>1, <1>4, {} \in SUBSET {"root", "buf"} DEF Resting
  <2> QED
    BY <2>1, <2>2
<1>6. CASE prog = "rect_tx" /\ RectTxAt
  <2>1. CASE step \in 14 .. 15
    <3>1. PICK p : p = log.old /\ Whole(p) /\ p.rect # NIL
      BY <1>6, <2>1 DEF RectTxAt
    <3>2. /\ p = PoolOf(p.layout, p.root, p.buf, p.rect, p.heap, p.notes)
          /\ p.rect \in Objects
      BY <3>1, WholeFields
    <3>3. \E rect : pool = PoolOf(p.layout, p.root, p.buf, rect, p.heap, p.notes)
      <4>1. CASE step = 14
        BY <1>6, <3>1, <3>2, <4>1 DEF RectTxAt
      <4>2. CASE step = 15
        <5>1. pool = [p EXCEPT !.rect = NIL]
          BY <1>6, <3>1, <4>2 DEF RectTxAt
        <5> QED
          BY <3>2, <5>1 DEF PoolOf
      <4> QED
        BY <2>1, <4>1, <4>2
    <3>4. log = LogOf({"root"}, p, {p.rect})
      BY <1>6, <2>1, <3>1 DEF RectTxAt
    <3> QED
      BY <1>2, <3>1, <3>2, <3>3, <3>4
  <2>2. CASE step \notin 14 .. 15
    <3>1. \/ Resting \/ Opened({}) \/ Opened({"root"})
          \/ \E o \in Objects : Filling(o, P!NoRect, NIL)
          \/ \E o \in Objects : Filling(o, [a |-> 5, b |-> 0], NIL)
          \/ \E o \in Objects : Filling(o, P!Constructed, NIL)
          \/ \E o \in Objects : Filling(o, P!Constructed, o)
      BY <1>6, <2>2 DEF RectTxAt
    <3> QED
      BY <3>1, <1>1, <1>3, <1>4, {} \in SUBSET {"root", "buf"},
         {"root"} \in SUBSET {"root", "buf"} DEF Resting
  <2> QED
    BY <2>1, <2>2
<1>7. CASE \/ prog = "reader" /\ ReaderAt
           \/ prog = "rect_ntx" /\ RectNtxAt
           \/ prog = "lists" /\ ListsAt
  BY <1>4, <1>7 DEF ReaderAt, RectNtxAt, ListsAt, Resting
<1> QED
  BY <1>4, <1>5, <1>6, <1>7 DEF PoolInv

\* The steps of Next by the name of the step they run.
LEMMA NamedSteps ==
  ASSUME P!Next
  PROVE  \/ prog = NIL /\ \E p \in DOMAIN P!Program : P!Start(p)
         \/ prog # NIL /\ P!Crash
         \/ P!At("create") /\ P!Create
         \/ P!At("create_or_open") /\ (P!Create \/ P!Open)
         \/ P!At("open") /\ P!Open
         \/ P!At("root") /\ P!Root
         \/ P!At("scanf") /\ P!Scanf
         \/ P!At("close") /\ P!Close
         \/ P!At("begin") /\ P!Begin
         \/ P!At("add") /\ P!Add
         \/ P!At("memcpy") /\ P!Memcpy
         \/ P!At("new") /\ P!New
         \/ (P!At("a") \/ P!At("b") \/ P!At("link")) /\ P!Fill
         \/ P!At("free") /\ P!Free
         \/ P!At("unlink") /\ P!Unlink
         \/ P!At("end") /\ P!End
         \/ P!At("POBJ_NEW") /\ P!NewAtomic
         \/ P!At("POBJ_FREE") /\ P!FreeAtomic
         \/ P!At("area") /\ P!Area
         \/ (P!At("note1") \/ P!At("note2")) /\ P!CreateNote
         \/ (P!At("print") \/ P!At("print_all")) /\ P!PrintData
<1>1. /\ P!Crash => prog # NIL
      /\ \A p \in DOMAIN P!Program : P!Start(p) => prog = NIL
  BY DEF P!Crash, P!Start
<1>2. /\ P!Create => P!At("create") \/ P!At("create_or_open")
      /\ P!Open => P!At("open") \/ P!At("create_or_open")
  BY DEF P!Create, P!Open
<1>3. /\ P!Root => P!At("root")
      /\ P!Scanf => P!At("scanf")
      /\ P!Close => P!At("close")
  BY DEF P!Root, P!Scanf, P!Close
<1>4. /\ P!Begin => P!At("begin")
      /\ P!Add => P!At("add")
      /\ P!Memcpy => P!At("memcpy")
      /\ P!End => P!At("end")
  BY DEF P!Begin, P!Add, P!Memcpy, P!End
<1>5. /\ P!New => P!At("new")
      /\ P!Fill => P!At("a") \/ P!At("b") \/ P!At("link")
      /\ P!Free => P!At("free")
      /\ P!Unlink => P!At("unlink")
  BY DEF P!New, P!Fill, P!Free, P!Unlink
<1>6. /\ P!NewAtomic => P!At("POBJ_NEW")
      /\ P!FreeAtomic => P!At("POBJ_FREE")
      /\ P!Area => P!At("area")
      /\ P!CreateNote => P!At("note1") \/ P!At("note2")
      /\ P!PrintData => P!At("print") \/ P!At("print_all")
  BY DEF P!NewAtomic, P!FreeAtomic, P!Area, P!CreateNote, P!PrintData
<1> QED
  BY <1>1, <1>2, <1>3, <1>4, <1>5, <1>6 DEF P!Next

\* writer.c, step by step.
LEMMA WriterSteps ==
  ASSUME prog = "writer", step \in 1 .. 7, P!Next, ~P!Crash
  PROVE  \/ step = 1 /\ P!Create
         \/ step = 2 /\ P!Root
         \/ step = 3 /\ P!Scanf
         \/ step = 4 /\ P!Begin
         \/ step = 5 /\ P!Memcpy
         \/ step = 6 /\ P!End
         \/ step = 7 /\ P!Close
<1>1. prog # NIL
  BY PoolAssumption DEF P!Program
<1>2. P!Program["writer"] = <<"create", "root", "scanf", "begin", "memcpy", "end", "close">>
  BY DEF P!Program
<1> QED
  BY <1>1, <1>2, NamedSteps DEF P!At

\* reader.c, step by step.
LEMMA ReaderSteps ==
  ASSUME prog = "reader", step \in 1 .. 4, P!Next, ~P!Crash
  PROVE  \/ step = 1 /\ P!Open
         \/ step = 2 /\ P!Root
         \/ step = 3 /\ P!PrintData
         \/ step = 4 /\ P!Close
<1>1. prog # NIL
  BY PoolAssumption DEF P!Program
<1>2. P!Program["reader"] =
          <<"open", "root", "print", "close">>
  BY DEF P!Program
<1> QED
  BY <1>1, <1>2, NamedSteps DEF P!At

\* ntx_alloc/rect_calc.c, step by step.
LEMMA RectNtxSteps ==
  ASSUME prog = "rect_ntx", step \in 1 .. 5, P!Next, ~P!Crash
  PROVE  \/ step = 1 /\ P!Create
         \/ step = 2 /\ P!Root
         \/ step = 3 /\ P!NewAtomic
         \/ step = 4 /\ P!Area
         \/ step = 5 /\ P!FreeAtomic
<1>1. prog # NIL
  BY PoolAssumption DEF P!Program
<1>2. P!Program["rect_ntx"] =
          <<"create", "root", "POBJ_NEW", "area", "POBJ_FREE">>
  BY DEF P!Program
<1> QED
  BY <1>1, <1>2, NamedSteps DEF P!At

\* lists.c, step by step.
LEMMA ListsSteps ==
  ASSUME prog = "lists", step \in 1 .. 6, P!Next, ~P!Crash
  PROVE  \/ step = 1 /\ (P!Create \/ P!Open)
         \/ step = 2 /\ P!Root
         \/ step = 3 /\ P!CreateNote
         \/ step = 4 /\ P!CreateNote
         \/ step = 5 /\ P!PrintData
         \/ step = 6 /\ P!Close
<1>1. prog # NIL
  BY PoolAssumption DEF P!Program
<1>2. P!Program["lists"] =
          <<"create_or_open", "root", "note1", "note2", "print_all", "close">>
  BY DEF P!Program
<1> QED
  BY <1>1, <1>2, NamedSteps DEF P!At

\* tx_alloc/rect_calc.c, step by step.
LEMMA RectTxSteps ==
  ASSUME prog = "rect_tx", step \in 1 .. 15, P!Next, ~P!Crash
  PROVE  \/ step = 1 /\ P!Create
         \/ step = 2 /\ P!Root
         \/ step = 3 /\ P!Begin
         \/ step = 4 /\ P!Add
         \/ step = 5 /\ P!New
         \/ step = 6 /\ P!Fill
         \/ step = 7 /\ P!Fill
         \/ step = 8 /\ P!Fill
         \/ step = 9 /\ P!End
         \/ step = 10 /\ P!Area
         \/ step = 11 /\ P!Begin
         \/ step = 12 /\ P!Add
         \/ step = 13 /\ P!Free
         \/ step = 14 /\ P!Unlink
         \/ step = 15 /\ P!End
<1>1. prog # NIL
  BY PoolAssumption DEF P!Program
<1>2. P!Program["rect_tx"] =
          <<"create", "root", "begin", "add", "new", "a", "b", "link",
            "end", "area", "begin", "add", "free", "unlink", "end">>
  BY DEF P!Program
<1> QED
  BY <1>1, <1>2, NamedSteps DEF P!At

\* The program goes on with its next step.
Goes == prog' = prog /\ step' = step + 1

\* Before its last step a program goes on.
LEMMA Continues ==
  ASSUME P!Continue,
         \/ prog = "writer" /\ step \in 1 .. 6
         \/ prog = "reader" /\ step \in 1 .. 3
         \/ prog = "rect_tx" /\ step \in 1 .. 14
         \/ prog = "rect_ntx" /\ step \in 1 .. 4
         \/ prog = "lists" /\ step \in 1 .. 5
  PROVE  Goes
<1>1. /\ Len(P!Program["writer"]) = 7 /\ Len(P!Program["reader"]) = 4
      /\ Len(P!Program["rect_tx"]) = 15 /\ Len(P!Program["rect_ntx"]) = 5
      /\ Len(P!Program["lists"]) = 6
  BY DEF P!Program
<1>2. step # Len(P!Program[prog])
  <2>1. CASE prog = "writer"
    <3>1. P!Program[prog] = P!Program["writer"]
      BY <2>1
    <3>2. Len(P!Program[prog]) = 7
      BY <1>1, <3>1
    <3> QED
      BY <2>1, <3>2
  <2>2. CASE prog = "reader"
    <3>1. P!Program[prog] = P!Program["reader"]
      BY <2>2
    <3>2. Len(P!Program[prog]) = 4
      BY <1>1, <3>1
    <3> QED
      BY <2>2, <3>2
  <2>3. CASE prog = "rect_tx"
    <3>1. P!Program[prog] = P!Program["rect_tx"]
      BY <2>3
    <3>2. Len(P!Program[prog]) = 15
      BY <1>1, <3>1
    <3> QED
      BY <2>3, <3>2
  <2>4. CASE prog = "rect_ntx"
    <3>1. P!Program[prog] = P!Program["rect_ntx"]
      BY <2>4
    <3>2. Len(P!Program[prog]) = 5
      BY <1>1, <3>1
    <3> QED
      BY <2>4, <3>2
  <2>5. CASE prog = "lists"
    <3>1. P!Program[prog] = P!Program["lists"]
      BY <2>5
    <3>2. Len(P!Program[prog]) = 6
      BY <1>1, <3>1
    <3> QED
      BY <2>5, <3>2
  <2> QED
    BY <2>1, <2>2, <2>3, <2>4, <2>5
<1> QED
  BY <1>2 DEF P!Continue, Goes

\* A program that has stopped has left a whole pool or none.
Stopped == prog = NIL /\ log = NIL /\ (pool = NIL \/ Whole(pool))

\* The first step of every program.
LEMMA CreateStep ==
  ASSUME P!Create, step = 1, log = NIL, pool = NIL \/ Whole(pool),
         prog \in {"writer", "reader", "rect_tx", "rect_ntx", "lists"}
  PROVE  \/ Stopped'
         \/ Goes /\ Resting' /\ pool'.rect = NIL /\ pool'.notes = <<>>
<1>1. CASE pool' = P!EmptyPool(P!Layout[prog]) /\ P!Continue
  <2>1. PICK layout : layout = P!Layout[prog]
    OBVIOUS
  <2>2. layout \in {"string_store", "rect_calc", "lists"}
    BY <2>1 DEF P!Layout
  <2>3. [o \in {} |-> P!NoRect] = HeapOf(NIL, P!Constructed)
    BY DEF HeapOf
  <2>4. pool' = PoolOf(layout, FALSE, "", NIL, [o \in {} |-> P!NoRect], <<>>)
    BY <1>1, <2>1 DEF P!EmptyPool, PoolOf
  <2>5. Whole(pool')
    BY <2>2, <2>3, <2>4, FieldsWhole DEF P!Notes
  <2>6. pool'.rect = NIL /\ pool'.notes = <<>>
    BY <2>4 DEF PoolOf
  <2>7. log' = NIL
    BY DEF P!Create
  <2>8. Goes
    BY <1>1, Continues
  <2> QED
    BY <2>5, <2>6, <2>7, <2>8 DEF Resting
<1>2. CASE P!Stop /\ UNCHANGED pool
  BY <1>2 DEF P!Create, P!Stop, Stopped
<1> QED
  BY <1>1, <1>2 DEF P!Create

\* pmemobj_open; lists.c asks for a layout that no pool has.
LEMMA OpenStep ==
  ASSUME P!Open, step = 1, log = NIL, pool = NIL \/ Whole(pool),
         prog \in {"reader", "lists"}
  PROVE  \/ Stopped'
         \/ Goes /\ Resting' /\ prog = "reader"
<1>1. UNCHANGED <<pool, log>> /\ (P!Continue \/ P!Stop)
  BY DEF P!Open
<1>2. CASE P!Stop
  BY <1>1, <1>2 DEF P!Stop, Stopped
<1>3. CASE ~P!Stop
  <2>1. pool # NIL /\ (prog = "lists" => pool.layout = "pi")
    BY <1>3 DEF P!Open
  <2>2. prog # "lists"
    BY <2>1, WholeFields
  <2>3. Goes
    BY <1>1, <1>3, Continues
  <2> QED
    BY <1>1, <2>1, <2>2, <2>3 DEF Resting
<1> QED
  BY <1>2, <1>3

\* POBJ_ROOT on a whole pool.
LEMMA RootStep ==
  ASSUME P!Root, Resting
  PROVE  /\ Resting' /\ pool'.rect = pool.rect /\ pool'.notes = pool.notes
         /\ P!Continue
<1>1. PICK p : p = pool /\ Whole(p)
  BY DEF Resting
<1>2. pool' = PoolOf(p.layout, TRUE, p.buf, p.rect, p.heap, p.notes)
  <2>1. p = PoolOf(p.layout, p.root, p.buf, p.rect, p.heap, p.notes)
    BY <1>1, WholeFields
  <2>2. pool' = [p EXCEPT !.root = TRUE]
    BY <1>1 DEF P!Root
  <2> QED
    BY <2>1, <2>2 DEF PoolOf
<1>3. Whole(pool')
  BY <1>1, <1>2, WholeFields, FieldsWhole
<1>4. pool'.rect = p.rect /\ pool'.notes = p.notes
  BY <1>2 DEF PoolOf
<1> QED
  BY <1>1, <1>3, <1>4 DEF P!Root, Resting

\* The steps that leave the pool and the log alone.
LEMMA QuietStep ==
  ASSUME Resting, P!Scanf \/ P!Close \/ P!PrintData \/ (P!Area /\ pool.rect # NIL)
  PROVE  Resting' /\ pool' = pool /\ P!Continue
BY DEF P!Scanf, P!Close, P!PrintData, P!Area, Resting

\* TX_BEGIN on a whole pool.
LEMMA BeginStep ==
  ASSUME Resting, P!Begin
  PROVE  Opened({})' /\ pool' = pool /\ typed' = typed /\ P!Continue
BY DEF P!Begin, Resting, Opened, LogOf

\* TX_ADD of the root object.
LEMMA AddStep ==
  ASSUME Opened({}), P!Add
  PROVE  Opened({"root"})' /\ pool' = pool /\ P!Continue
<1>1. log' = LogOf({"root"}, pool, {})
  BY DEF P!Add, P!Added, Opened, LogOf
<1> QED
  BY <1>1 DEF P!Add, Opened

\* writer.c: the string of the pool is the old one or what was typed.
LEMMA WriterStep ==
  ASSUME prog = "writer", WriterAt, P!Next, ~P!Crash
  PROVE  Stopped' \/ (prog = "writer" /\ WriterAt)'
<1>1. step \in 1 .. 7 /\ step # 1
  BY DEF WriterAt
<1>2. CASE step \in {2, 3, 4}
  <2>1. Resting /\ (step = 4 => typed \in Words)
    BY <1>2 DEF WriterAt
  <2>2. CASE step = 2
    <3>1. Goes /\ Resting'
      BY <1>1, <2>1, <2>2, WriterSteps, RootStep, Continues
    <3> QED
      BY <2>2, <3>1 DEF Goes, WriterAt
  <2>3. CASE step = 3
    <3>1. P!Scanf
      BY <1>1, <2>3, WriterSteps
    <3>2. Goes /\ Resting' /\ typed' \in Words
      BY <2>1, <2>3, <3>1, QuietStep, Continues DEF P!Scanf
    <3> QED
      BY <2>3, <3>2 DEF Goes, WriterAt
  <2>4. CASE step = 4
    <3>1. Goes /\ Opened({})' /\ typed' = typed
      BY <1>1, <2>1, <2>4, WriterSteps, BeginStep, Continues
    <3> QED
      BY <2>1, <2>4, <3>1 DEF Goes, WriterAt
  <2> QED
    BY <1>2, <2>2, <2>3, <2>4
<1>3. CASE step = 5
  <2>1. P!Memcpy /\ Opened({}) /\ typed \in Words
    BY <1>1, <1>3, WriterSteps DEF WriterAt
  <2>2. PICK p : p = pool /\ Whole(p) /\ log = LogOf({}, p, {})
    BY <2>1 DEF Opened
  <2>3. log' = LogOf({"buf"}, p, {})
    BY <2>1, <2>2 DEF P!Memcpy, P!Added, LogOf
  <2>4. log'.old = p
    BY <2>3 DEF LogOf
  <2>5. pool' = [p EXCEPT !.buf = typed'] /\ typed' = typed /\ P!Continue
    BY <2>1, <2>2 DEF P!Memcpy
  <2>6. Goes
    BY <1>3, <2>5, Continues
  <2> QED
    BY <1>3, <2>1, <2>2, <2>3, <2>4, <2>5, <2>6 DEF Goes, WriterAt
<1>4. CASE step = 6
  <2>1. PICK p : p = log.old /\ Whole(p) /\ log = LogOf({"buf"}, p, {})
                   /\ pool = [p EXCEPT !.buf = typed] /\ typed \in Words
    BY <1>4 DEF WriterAt
  <2>2. P!End
    BY <1>1, <1>4, WriterSteps
  <2>3. p = PoolOf(p.layout, p.root, p.buf, p.rect, p.heap, p.notes)
    BY <2>1, WholeFields
  <2>4. pool = PoolOf(p.layout, p.root, typed, p.rect, p.heap, p.notes)
    BY <2>1, <2>3 DEF PoolOf
  <2>5. log.freed = {} /\ pool.heap = p.heap
    BY <2>1, <2>4 DEF LogOf, PoolOf
  <2>6. [o \in DOMAIN p.heap \ {} |-> p.heap[o]] = p.heap
    BY <2>1, WholeFields DEF HeapOf
  <2>7. pool' = [pool EXCEPT !.heap = p.heap]
    BY <2>2, <2>5, <2>6 DEF P!End
  <2>8. pool' = PoolOf(p.layout, p.root, typed, p.rect, p.heap, p.notes)
    BY <2>4, <2>7 DEF PoolOf
  <2>9. Whole(pool')
    BY <2>1, <2>8, WholeFields, FieldsWhole
  <2>10. Goes /\ log' = NIL
    BY <1>4, <2>2, Continues DEF P!End
  <2> QED
    BY <1>4, <2>9, <2>10 DEF Goes, WriterAt, Resting
<1>5. CASE step = 7
  <2>1. Resting /\ P!Close
    BY <1>1, <1>5, WriterSteps DEF WriterAt
  <2>2. Resting' /\ P!Continue
    BY <2>1, QuietStep
  <2>3. prog' = NIL
    BY <1>5, <2>2 DEF P!Continue, P!Program
  <2> QED
    BY <2>2, <2>3 DEF Stopped, Resting
<1> QED
  BY <1>1, <1>2, <1>3, <1>4, <1>5

\* reader.c changes nothing.
LEMMA ReaderStep ==
  ASSUME prog = "reader", ReaderAt, P!Next, ~P!Crash
  PROVE  Stopped' \/ (prog = "reader" /\ ReaderAt)'
<1>1. step \in 2 .. 4 /\ Resting
  BY DEF ReaderAt
<1>2. Resting' /\ P!Continue
  BY <1>1, ReaderSteps, RootStep, QuietStep
<1>3. CASE step = 4
  <2>1. prog' = NIL
    BY <1>2, <1>3 DEF P!Continue, P!Program
  <2> QED
    BY <1>2, <2>1 DEF Stopped, Resting
<1>4. CASE step # 4
  <2>1. Goes
    BY <1>1, <1>2, <1>4, Continues
  <2> QED
    BY <1>1, <1>2, <1>4, <2>1 DEF Goes, ReaderAt
<1> QED
  BY <1>3, <1>4

\* Putting a note at the head of a list of at most one.
LEMMA NotesConcat ==
  /\ <<"note1">> \o <<>> = <<"note1">>
  /\ <<"note2">> \o <<>> = <<"note2">>
  /\ <<"note2">> \o <<"note1">> = <<"note2", "note1">>
<1> DEFINE S == {"note1", "note2"}
<1>1. <<"note1">> \in Seq(S) /\ <<"note2">> \in Seq(S) /\ <<"note2", "note1">> \in Seq(S)
  OBVIOUS
<1>2. PICK s \in Seq(S), t \in Seq(S), u \in Seq(S) :
        s = <<"note2">> /\ t = <<"note1">> /\ u = <<"note2", "note1">>
  BY <1>1
<1>3. Len(s) = 1 /\ Len(t) = 1 /\ Len(u) = 2 /\ s[1] = u[1] /\ t[1] = u[2]
  BY <1>2
<1>4. s \o t \in Seq(S) /\ Len(s \o t) = 2 /\ (s \o t)[1] = s[1] /\ (s \o t)[2] = t[1]
  BY <1>3, ConcatProperties
<1>5. \A i \in 1 .. 2 : (s \o t)[i] = u[i]
  BY <1>3, <1>4
<1>6. s \o t = u
  BY <1>3, <1>4, <1>5, SeqEqual
<1> QED
  BY <1>1, <1>2, <1>6, ConcatEmptySeq

\* lists.c: the list begins empty, so what it leaves are the notes that could
\* be made, the later one first.
LEMMA ListsStep ==
  ASSUME prog = "lists", ListsAt, P!Next, ~P!Crash
  PROVE  Stopped' \/ (prog = "lists" /\ ListsAt)'
<1>1. step \in 2 .. 6 /\ Resting
  BY DEF ListsAt
<1>2. CASE step = 2
  <2>1. Goes /\ Resting' /\ pool'.notes = <<>>
    BY <1>1, <1>2, ListsSteps, RootStep, Continues DEF ListsAt
  <2> QED
    BY <1>2, <2>1 DEF Goes, ListsAt
<1>3. CASE step \in {3, 4}
  <2>1. PICK p : p = pool /\ Whole(p)
    BY <1>1 DEF Resting
  <2>2. PICK n_ : n_ = P!Program[prog][step]
    OBVIOUS
  <2>3. n_ = IF step = 3 THEN "note1" ELSE "note2"
    BY <1>3, <2>2 DEF P!Program
  <2>4. P!CreateNote
    BY <1>1, <1>3, ListsSteps
  <2>5. PICK notes : /\ notes = p.notes \/ notes = <<n_>> \o p.notes
                     /\ pool' = [p EXCEPT !.notes = notes]
    <3>1. p = [p EXCEPT !.notes = p.notes]
      <4>1. p = PoolOf(p.layout, p.root, p.buf, p.rect, p.heap, p.notes)
        BY <2>1, WholeFields
      <4> QED
        BY <4>1 DEF PoolOf
    <3> QED
      BY <2>1, <2>2, <2>4, <3>1 DEF P!CreateNote
  <2>6. pool' = PoolOf(p.layout, p.root, p.buf, p.rect, p.heap, notes)
    <3>1. p = PoolOf(p.layout, p.root, p.buf, p.rect, p.heap, p.notes)
      BY <2>1, WholeFields
    <3> QED
      BY <2>5, <3>1 DEF PoolOf
  <2>7. /\ step = 3 => p.notes = <<>>
        /\ step = 4 => p.notes \in {<<>>, <<"note1">>}
    BY <2>1 DEF ListsAt
  <2>8. /\ notes \in P!Notes
        /\ step = 3 => notes \in {<<>>, <<"note1">>}
    <3>1. /\ <<"note1">> \o <<>> = <<"note1">>
          /\ <<"note2">> \o <<>> = <<"note2">>
          /\ <<"note2">> \o <<"note1">> = <<"note2", "note1">>
      BY NotesConcat
    <3>2. CASE step = 3
      BY <2>3, <2>5, <2>7, <3>1, <3>2 DEF P!Notes
    <3>3. CASE step = 4
      BY <2>3, <2>5, <2>7, <3>1, <3>3 DEF P!Notes
    <3> QED
      BY <1>3, <3>2, <3>3
  <2>9. Whole(pool')
    BY <2>1, <2>6, <2>8, WholeFields, FieldsWhole, ZenonT(60)
  <2>10. Goes /\ log' = log
    BY <1>3, <2>4, Continues DEF P!CreateNote
  <2>11. pool'.notes = notes
    BY <2>6 DEF PoolOf
  <2> QED
    BY <1>1, <1>3, <2>8, <2>9, <2>10, <2>11 DEF Goes, ListsAt, Resting
<1>4. CASE step = 5
  <2>1. Goes /\ Resting'
    BY <1>1, <1>4, ListsSteps, QuietStep, Continues
  <2> QED
    BY <1>4, <2>1 DEF Goes, ListsAt
<1>5. CASE step = 6
  <2>1. Resting' /\ P!Continue
    BY <1>1, <1>5, ListsSteps, QuietStep
  <2>2. prog' = NIL
    BY <1>5, <2>1 DEF P!Continue, P!Program
  <2> QED
    BY <2>1, <2>2 DEF Stopped, Resting
<1> QED
  BY <1>1, <1>2, <1>3, <1>4, <1>5

\* ntx_alloc/rect_calc.c: POBJ_NEW puts a constructed rectangle into the empty
\* pool, and POBJ_FREE takes it out.
LEMMA RectNtxStep ==
  ASSUME prog = "rect_ntx", RectNtxAt, P!Next, ~P!Crash
  PROVE  Stopped' \/ (prog = "rect_ntx" /\ RectNtxAt)'
<1>1. step \in 2 .. 5 /\ Resting
  BY DEF RectNtxAt
<1>2. PICK p : p = pool /\ Whole(p)
  BY <1>1 DEF Resting
<1>3. p = PoolOf(p.layout, p.root, p.buf, p.rect, p.heap, p.notes)
  BY <1>2, WholeFields
<1>4. CASE step = 2
  <2>1. Goes /\ Resting' /\ pool'.rect = NIL
    BY <1>1, <1>4, RectNtxSteps, RootStep, Continues DEF RectNtxAt
  <2> QED
    BY <1>4, <2>1 DEF Goes, RectNtxAt
<1>5. CASE step = 3
  <2>1. P!NewAtomic /\ p.rect = NIL
    BY <1>1, <1>2, <1>5, RectNtxSteps DEF RectNtxAt
  <2>2. Goes /\ log' = log
    <3>1. P!Continue /\ log' = log
      BY <2>1 DEF P!NewAtomic
    <3> QED
      BY <1>5, <3>1, Continues
  <2>3. CASE UNCHANGED pool
    BY <1>1, <1>5, <2>2, <2>3 DEF Goes, RectNtxAt, Resting
  <2>4. ASSUME NEW o \in Objects,
               pool' = [p EXCEPT !.heap = [x \in DOMAIN @ \cup {o} |->
                                             IF x = o THEN P!Constructed ELSE @[x]],
                                 !.rect = o]
        PROVE  Whole(pool')
    <3>1. p.heap = HeapOf(NIL, P!Constructed)
      BY <1>2, <2>1, WholeFields
    <3>2. [x \in DOMAIN p.heap \cup {o} |-> IF x = o THEN P!Constructed ELSE p.heap[x]]
            = HeapOf(o, P!Constructed)
      BY <3>1, PoolAssumption DEF HeapOf
    <3>3. pool' = [p EXCEPT !.heap = HeapOf(o, P!Constructed), !.rect = o]
      BY <2>4, <3>2
    <3>4. pool' = PoolOf(p.layout, p.root, p.buf, o, HeapOf(o, P!Constructed), p.notes)
      BY <1>3, <3>3 DEF PoolOf
    <3> QED
      BY <1>2, <3>4, WholeFields, FieldsWhole
  <2>5. UNCHANGED pool \/ Whole(pool')
    BY <1>2, <2>1, <2>4 DEF P!NewAtomic
  <2> QED
    BY <1>1, <1>5, <2>2, <2>3, <2>5 DEF Goes, RectNtxAt, Resting
<1>6. CASE step = 4
  <2>1. P!Area
    BY <1>1, <1>6, RectNtxSteps
  <2>2. CASE pool.rect = NIL
    BY <1>1, <2>1, <2>2 DEF P!Area, P!Stop, Resting, Stopped
  <2>3. CASE pool.rect # NIL
    <3>1. Goes /\ Resting' /\ pool' = pool
      BY <1>1, <1>6, <2>1, <2>3, QuietStep, Continues
    <3> QED
      BY <1>6, <2>3, <3>1 DEF Goes, RectNtxAt
  <2> QED
    BY <2>2, <2>3
<1>7. CASE step = 5
  <2>1. P!FreeAtomic
    BY <1>1, <1>7, RectNtxSteps
  <2>2. p.heap = HeapOf(p.rect, P!Constructed)
    BY <1>2, WholeFields
  <2>3. [o \in DOMAIN p.heap \ {p.rect} |-> p.heap[o]] = HeapOf(NIL, P!Constructed)
    BY <2>2 DEF HeapOf
  <2>4. pool' = [p EXCEPT !.rect = NIL, !.heap = HeapOf(NIL, P!Constructed)]
    BY <1>2, <2>1, <2>3 DEF P!FreeAtomic
  <2>5. pool' = PoolOf(p.layout, p.root, p.buf, NIL, HeapOf(NIL, P!Constructed), p.notes)
    BY <1>3, <2>4 DEF PoolOf
  <2>6. Whole(pool')
    BY <1>2, <2>5, WholeFields, FieldsWhole
  <2>7. prog' = NIL /\ log' = log
    BY <1>7, <2>1 DEF P!FreeAtomic, P!Continue, P!Program
  <2> QED
    BY <1>1, <2>6, <2>7 DEF Stopped, Resting
<1> QED
  BY <1>1, <1>4, <1>5, <1>6, <1>7

\* What TX_NEW has allocated is the rectangle that is filled.
LEMMA FreshIs ==
  ASSUME NEW o, NEW r, NEW rect, Filling(o, r, rect)
  PROVE  P!Fresh = o
<1>1. PICK p : p = log.old /\ Whole(p) /\ p.rect = NIL /\ o \in Objects
                 /\ pool = [p EXCEPT !.rect = rect, !.heap = HeapOf(o, r)]
  BY DEF Filling
<1>2. p.heap = HeapOf(NIL, P!Constructed)
  BY <1>1, WholeFields
<1>3. p = PoolOf(p.layout, p.root, p.buf, p.rect, p.heap, p.notes)
  BY <1>1, WholeFields
<1>4. pool.heap = HeapOf(o, r)
  BY <1>1, <1>3 DEF PoolOf
<1>5. DOMAIN pool.heap = {o} /\ DOMAIN log.old.heap = {}
  BY <1>1, <1>2, <1>4, PoolAssumption DEF HeapOf
<1> QED
  BY <1>5 DEF P!Fresh

\* Storing into the new rectangle, and linking it.
LEMMA FillStep ==
  ASSUME prog = "rect_tx", NEW o, NEW r, Filling(o, r, NIL), P!Fill
  PROVE  /\ P!Continue
         /\ step = 6 => Filling(o, [r EXCEPT !.a = 5], NIL)'
         /\ step = 7 => Filling(o, [r EXCEPT !.b = 10], NIL)'
         /\ step = 8 => Filling(o, r, o)'
<1>1. PICK p : p = log.old /\ Whole(p) /\ p.rect = NIL /\ o \in Objects
                 /\ log = LogOf({"root"}, p, {})
                 /\ pool = [p EXCEPT !.rect = NIL, !.heap = HeapOf(o, r)]
  BY DEF Filling
<1>2. p = PoolOf(p.layout, p.root, p.buf, p.rect, p.heap, p.notes)
  BY <1>1, WholeFields
<1>3. pool = PoolOf(p.layout, p.root, p.buf, NIL, HeapOf(o, r), p.notes)
  BY <1>1, <1>2 DEF PoolOf
<1>4. P!Fresh = o
  BY FreshIs
<1>5. /\ \/ P!At("a") /\ pool' = [pool EXCEPT !.heap[P!Fresh].a = 5]
         \/ P!At("b") /\ pool' = [pool EXCEPT !.heap[P!Fresh].b = 10]
         \/ P!At("link") /\ pool' = [pool EXCEPT !.rect = P!Fresh]
      /\ P!Continue /\ log' = log
  BY DEF P!Fill
<1>6. DOMAIN HeapOf(o, r) = {o} /\ HeapOf(o, r)[o] = r
  BY <1>1, PoolAssumption DEF HeapOf
<1>7. ASSUME NEW x, NEW h, pool' = PoolOf(p.layout, p.root, p.buf, x, HeapOf(o, h), p.notes)
      PROVE  Filling(o, h, x)'
  <2>1. pool' = [p EXCEPT !.rect = x, !.heap = HeapOf(o, h)]
    <3>1. [p EXCEPT !.rect = x, !.heap = HeapOf(o, h)]
            = PoolOf(p.layout, p.root, p.buf, x, HeapOf(o, h), p.notes)
      <4>1. PICK y : y = [p EXCEPT !.rect = x, !.heap = HeapOf(o, h)]
        OBVIOUS
      <4>2. y = PoolOf(p.layout, p.root, p.buf, x, HeapOf(o, h), p.notes)
        BY <1>2, <4>1 DEF PoolOf
      <4> QED
        BY <4>1, <4>2
    <3> QED
      BY <1>7, <3>1
  <2>2. log'.old = p
    BY <1>1, <1>5
  <2> QED
    BY <1>1, <1>5, <2>1, <2>2 DEF Filling
<1>8. CASE step = 6
  <2>1. pool' = [pool EXCEPT !.heap[o].a = 5]
    BY <1>4, <1>5, <1>8 DEF P!At, P!Program
  <2>2. [HeapOf(o, r) EXCEPT ![o].a = 5] = HeapOf(o, [r EXCEPT !.a = 5])
    BY <1>1, <1>6, PoolAssumption DEF HeapOf
  <2>3. pool' = PoolOf(p.layout, p.root, p.buf, NIL, HeapOf(o, [r EXCEPT !.a = 5]), p.notes)
    BY <1>3, <2>1, <2>2 DEF PoolOf
  <2> QED
    BY <1>5, <1>7, <1>8, <2>3
<1>9. CASE step = 7
  <2>1. pool' = [pool EXCEPT !.heap[o].b = 10]
    BY <1>4, <1>5, <1>9 DEF P!At, P!Program
  <2>2. [HeapOf(o, r) EXCEPT ![o].b = 10] = HeapOf(o, [r EXCEPT !.b = 10])
    BY <1>1, <1>6, PoolAssumption DEF HeapOf
  <2>3. pool' = PoolOf(p.layout, p.root, p.buf, NIL, HeapOf(o, [r EXCEPT !.b = 10]), p.notes)
    BY <1>3, <2>1, <2>2 DEF PoolOf
  <2> QED
    BY <1>5, <1>7, <1>9, <2>3
<1>10. CASE step = 8
  <2>1. pool' = [pool EXCEPT !.rect = o]
    BY <1>4, <1>5, <1>10 DEF P!At, P!Program
  <2>2. pool' = PoolOf(p.layout, p.root, p.buf, o, HeapOf(o, r), p.notes)
    BY <1>3, <2>1 DEF PoolOf
  <2> QED
    BY <1>5, <1>7, <1>10, <2>2
<1> QED
  BY <1>5, <1>8, <1>9, <1>10

\* TX_NEW in a pool without a rectangle: one at a new address, or the
\* transaction is aborted and the program goes on at its area_calc.
LEMMA NewStep ==
  ASSUME prog = "rect_tx", step = 5, Opened({"root"}), pool.rect = NIL, P!New
  PROVE  \/ Goes /\ \E o \in Objects : Filling(o, P!NoRect, NIL)'
         \/ prog' = prog /\ step' = 10 /\ Resting'
<1>1. PICK p : p = pool /\ Whole(p) /\ p.rect = NIL /\ log = LogOf({"root"}, p, {})
  BY DEF Opened
<1>2. p = PoolOf(p.layout, p.root, p.buf, p.rect, p.heap, p.notes)
  BY <1>1, WholeFields
<1>3. p.heap = HeapOf(NIL, P!Constructed)
  BY <1>1, WholeFields
<1>4. ASSUME NEW o \in Objects,
             pool' = [pool EXCEPT !.heap = [x \in DOMAIN @ \cup {o} |->
                                              IF x = o THEN P!NoRect ELSE @[x]]],
             P!Continue, log' = log
      PROVE  Goes /\ Filling(o, P!NoRect, NIL)'
  <2>1. [x \in DOMAIN p.heap \cup {o} |-> IF x = o THEN P!NoRect ELSE p.heap[x]]
          = HeapOf(o, P!NoRect)
    BY <1>3, PoolAssumption DEF HeapOf
  <2>2. pool' = [p EXCEPT !.heap = HeapOf(o, P!NoRect)]
    BY <1>1, <1>4, <2>1
  <2>3. pool' = PoolOf(p.layout, p.root, p.buf, NIL, HeapOf(o, P!NoRect), p.notes)
    BY <1>1, <1>2, <2>2 DEF PoolOf
  <2>4. PICK y : y = [p EXCEPT !.rect = NIL, !.heap = HeapOf(o, P!NoRect)]
    OBVIOUS
  <2>5. y = PoolOf(p.layout, p.root, p.buf, NIL, HeapOf(o, P!NoRect), p.notes)
    BY <1>2, <2>4 DEF PoolOf
  <2>6. log'.old = p /\ log' = LogOf({"root"}, p, {})
    BY <1>1, <1>4 DEF LogOf
  <2>7. Goes
    BY <1>4, Continues
  <2> QED
    BY <1>1, <2>3, <2>4, <2>5, <2>6, <2>7 DEF Filling
<1>5. ASSUME pool' = P!Undone, log' = NIL, prog' = prog,
             step' = CHOOSE i \in step .. Len(P!Program[prog]) :
                       P!Program[prog][i] = "area"
      PROVE  prog' = prog /\ step' = 10 /\ Resting'
  <2>1. P!Undone = PoolOf(p.layout, p.root, IF "buf" \in {"root"} THEN p.buf ELSE p.buf,
                          IF "root" \in {"root"} THEN p.rect ELSE p.rect, p.heap, p.notes)
    BY <1>1, <1>2, RolledBack, {} \in SUBSET Objects, {"root"} \in SUBSET {"root", "buf"}
  <2>2. Whole(pool')
    BY <1>1, <1>2, <1>5, <2>1
  <2>3. P!Program[prog] =
          <<"create", "root", "begin", "add", "new", "a", "b", "link",
            "end", "area", "begin", "add", "free", "unlink", "end">>
    BY DEF P!Program
  <2>4. Len(P!Program[prog]) = 15
    BY <2>3
  <2>5. 10 \in step .. 15 /\ P!Program[prog][10] = "area"
    BY <2>3
  <2>6. \A i \in step .. 15 : P!Program[prog][i] = "area" => i = 10
    BY <2>3
  <2>7. step' = 10
    BY <1>5, <2>4, <2>5, <2>6
  <2> QED
    BY <1>5, <2>2, <2>7 DEF Resting
<1> QED
  BY <1>4, <1>5 DEF P!New

\* A heap from which what a transaction freed is gone.
Without(heap, freed) == [o \in DOMAIN heap \ freed |-> heap[o]]

\* TX_END of the transaction that has linked a rectangle, and of the one that
\* has freed it.
LEMMA EndStep ==
  ASSUME P!End, NEW p, Whole(p), NEW freed, NEW rect, NEW heap,
         log = LogOf({"root"}, p, freed),
         pool = PoolOf(p.layout, p.root, p.buf, rect, heap, p.notes),
         rect \in Objects \cup {NIL},
         Without(heap, freed) = HeapOf(rect, P!Constructed)
  PROVE  Resting' /\ P!Continue
<1>1. pool.heap = heap /\ log.freed = freed
  BY DEF PoolOf, LogOf
<1>2. pool' = [pool EXCEPT !.heap = HeapOf(rect, P!Constructed)]
  BY <1>1 DEF P!End, Without
<1>3. pool' = PoolOf(p.layout, p.root, p.buf, rect, HeapOf(rect, P!Constructed), p.notes)
  BY <1>2 DEF PoolOf
<1>4. Whole(pool')
  BY <1>3, WholeFields, FieldsWhole
<1> QED
  BY <1>4 DEF P!End, Resting

\* tx_alloc/rect_calc.c, its two transactions.
LEMMA RectTxStep ==
  ASSUME prog = "rect_tx", RectTxAt, P!Next, ~P!Crash
  PROVE  Stopped' \/ (prog = "rect_tx" /\ RectTxAt)'
<1>1. step \in 1 .. 15 /\ step # 1
  BY DEF RectTxAt
<1>2. CASE step = 2
  <2>1. Goes /\ Resting' /\ pool'.rect = NIL
    BY <1>1, <1>2, RectTxSteps, RootStep, Continues DEF RectTxAt
  <2> QED
    BY <1>2, <2>1 DEF Goes, RectTxAt
<1>3. CASE step = 3 \/ step = 11
  <2>1. Goes /\ Opened({})' /\ pool' = pool
    BY <1>1, <1>3, RectTxSteps, BeginStep, Continues DEF RectTxAt
  <2> QED
    BY <1>3, <2>1 DEF Goes, RectTxAt
<1>4. CASE step = 4 \/ step = 12
  <2>1. Goes /\ Opened({"root"})' /\ pool' = pool
    BY <1>1, <1>4, RectTxSteps, AddStep, Continues DEF RectTxAt
  <2> QED
    BY <1>4, <2>1 DEF Goes, RectTxAt
<1>5. CASE step = 5
  <2>1. \/ Goes /\ \E o \in Objects : Filling(o, P!NoRect, NIL)'
        \/ prog' = prog /\ step' = 10 /\ Resting'
    BY <1>1, <1>5, RectTxSteps, NewStep DEF RectTxAt
  <2> QED
    BY <1>5, <2>1 DEF Goes, RectTxAt
<1>6. CASE step \in {6, 7, 8}
  <2>1. P!Fill
    BY <1>1, <1>6, RectTxSteps
  <2>2. CASE step = 6
    <3>1. PICK o \in Objects : Filling(o, P!NoRect, NIL)
      BY <2>2 DEF RectTxAt
    <3>2. [P!NoRect EXCEPT !.a = 5] = [a |-> 5, b |-> 0]
      BY DEF P!NoRect, P!Constructed
    <3>3. P!Continue /\ Filling(o, [P!NoRect EXCEPT !.a = 5], NIL)'
      BY <2>1, <2>2, <3>1, FillStep
    <3>4. Goes
      BY <2>2, <3>3, Continues
    <3> QED
      BY <2>2, <3>2, <3>3, <3>4 DEF Goes, RectTxAt
  <2>3. CASE step = 7
    <3>1. PICK o \in Objects : Filling(o, [a |-> 5, b |-> 0], NIL)
      BY <2>3 DEF RectTxAt
    <3>2. [[a |-> 5, b |-> 0] EXCEPT !.b = 10] = P!Constructed
      BY DEF P!NoRect, P!Constructed
    <3>3. P!Continue /\ Filling(o, [[a |-> 5, b |-> 0] EXCEPT !.b = 10], NIL)'
      BY <2>1, <2>3, <3>1, FillStep
    <3>4. Goes
      BY <2>3, <3>3, Continues
    <3> QED
      BY <2>3, <3>2, <3>3, <3>4 DEF Goes, RectTxAt
  <2>4. CASE step = 8
    <3>1. PICK o \in Objects : Filling(o, P!Constructed, NIL)
      BY <2>4 DEF RectTxAt
    <3>2. P!Continue /\ Filling(o, P!Constructed, o)'
      BY <2>1, <2>4, <3>1, FillStep
    <3>3. Goes
      BY <2>4, <3>2, Continues
    <3> QED
      BY <2>4, <3>2, <3>3 DEF Goes, RectTxAt
  <2> QED
    BY <1>6, <2>2, <2>3, <2>4
<1>7. CASE step = 9
  <2>1. PICK o \in Objects : Filling(o, P!Constructed, o)
    BY <1>7 DEF RectTxAt
  <2>2. PICK p : p = log.old /\ Whole(p) /\ log = LogOf({"root"}, p, {})
                   /\ pool = [p EXCEPT !.rect = o, !.heap = HeapOf(o, P!Constructed)]
    BY <2>1 DEF Filling
  <2>3. p = PoolOf(p.layout, p.root, p.buf, p.rect, p.heap, p.notes)
    BY <2>2, WholeFields
  <2>4. pool = PoolOf(p.layout, p.root, p.buf, o, HeapOf(o, P!Constructed), p.notes)
    BY <2>2, <2>3 DEF PoolOf
  <2>5. PICK h : h = HeapOf(o, P!Constructed)
    OBVIOUS
  <2>6. Without(h, {}) = HeapOf(o, P!Constructed)
    BY <2>5 DEF HeapOf, Without
  <2>7. Resting' /\ P!Continue
    <3>1. P!End
      BY <1>1, <1>7, RectTxSteps
    <3>2. pool = PoolOf(p.layout, p.root, p.buf, o, h, p.notes)
      BY <2>4, <2>5
    <3> QED
      BY <2>2, <2>6, <3>1, <3>2, EndStep
  <2>8. Goes
    BY <1>7, <2>7, Continues
  <2> QED
    BY <1>7, <2>7, <2>8 DEF Goes, RectTxAt
<1>8. CASE step = 10
  <2>1. P!Area /\ Resting
    BY <1>1, <1>8, RectTxSteps DEF RectTxAt
  <2>2. CASE pool.rect = NIL
    BY <2>1, <2>2 DEF P!Area, P!Stop, Resting, Stopped
  <2>3. CASE pool.rect # NIL
    <3>1. Goes /\ Resting' /\ pool' = pool
      BY <1>8, <2>1, <2>3, QuietStep, Continues
    <3> QED
      BY <1>8, <2>3, <3>1 DEF Goes, RectTxAt
  <2> QED
    BY <2>2, <2>3
<1>9. CASE step = 13
  <2>1. PICK p : p = pool /\ Whole(p) /\ p.rect # NIL /\ log = LogOf({"root"}, p, {})
    BY <1>9 DEF RectTxAt, Opened
  <2>2. P!Free
    BY <1>1, <1>9, RectTxSteps
  <2>3. log' = LogOf({"root"}, p, {p.rect}) /\ pool' = p /\ P!Continue
    BY <2>1, <2>2 DEF P!Free, LogOf
  <2>4. log'.old = p
    BY <2>3 DEF LogOf
  <2>5. Goes
    BY <1>9, <2>3, Continues
  <2> QED
    BY <1>9, <2>1, <2>3, <2>4, <2>5 DEF Goes, RectTxAt
<1>10. CASE step = 14
  <2>1. PICK p : p = log.old /\ Whole(p) /\ p.rect # NIL
                   /\ log = LogOf({"root"}, p, {p.rect}) /\ pool = p
    BY <1>10 DEF RectTxAt
  <2>2. P!Unlink
    BY <1>1, <1>10, RectTxSteps
  <2>3. log' = log /\ pool' = [p EXCEPT !.rect = NIL] /\ P!Continue
    BY <2>1, <2>2 DEF P!Unlink
  <2>4. Goes
    BY <1>10, <2>3, Continues
  <2> QED
    BY <1>10, <2>1, <2>3, <2>4 DEF Goes, RectTxAt
<1>11. CASE step = 15
  <2>1. PICK p : p = log.old /\ Whole(p) /\ p.rect # NIL
                   /\ log = LogOf({"root"}, p, {p.rect})
                   /\ pool = [p EXCEPT !.rect = NIL]
    <3>1. /\ Whole(log.old) /\ log.old.rect # NIL
          /\ log = LogOf({"root"}, log.old, {log.old.rect})
          /\ pool = IF step = 14 THEN log.old ELSE [log.old EXCEPT !.rect = NIL]
      BY <1>11 DEF RectTxAt
    <3>2. PICK p : p = log.old
      OBVIOUS
    <3>3. pool = [p EXCEPT !.rect = NIL]
      BY <1>11, <3>1, <3>2
    <3> QED
      BY <3>1, <3>2, <3>3
  <2>2. p = PoolOf(p.layout, p.root, p.buf, p.rect, p.heap, p.notes)
    BY <2>1, WholeFields
  <2>3. pool = PoolOf(p.layout, p.root, p.buf, NIL, p.heap, p.notes)
    BY <2>1, <2>2 DEF PoolOf
  <2>4. Without(p.heap, {p.rect}) = HeapOf(NIL, P!Constructed)
    <3>1. p.heap = HeapOf(p.rect, P!Constructed)
      BY <2>1, WholeFields
    <3> QED
      BY <3>1 DEF HeapOf, Without
  <2>5. Resting' /\ P!Continue
    <3>1. P!End
      BY <1>1, <1>11, RectTxSteps
    <3> QED
      BY <2>1, <2>3, <2>4, <3>1, EndStep
  <2>6. prog' = NIL
    BY <1>11, <2>5 DEF P!Continue, P!Program
  <2> QED
    BY <2>5, <2>6 DEF Stopped, Resting
<1> QED
  BY <1>1, <1>2, <1>3, <1>4, <1>5, <1>6, <1>7, <1>8, <1>9, <1>10, <1>11

\* Every step of a program, and a crash anywhere, keeps the invariant.
LEMMA PoolStep == PoolInv /\ P!Next => PoolInv'
<1> SUFFICES ASSUME PoolInv, P!Next
             PROVE  PoolInv'
  OBVIOUS
<1>0. Stopped' => PoolInv'
  BY DEF Stopped, PoolInv
<1>1. CASE P!Crash
  <2>1. prog' = NIL /\ log' = NIL /\ pool' = P!Undone
    BY <1>1 DEF P!Crash, P!Stop
  <2>2. pool' = NIL \/ Whole(pool')
    BY <2>1, Recovered
  <2> QED
    BY <1>0, <2>1, <2>2 DEF Stopped
<1>2. CASE prog = NIL
  <2>1. PICK p \in DOMAIN P!Program : P!Start(p)
    BY <1>1, <1>2, NamedSteps DEF P!At
  <2>2. p \in {"writer", "reader", "rect_tx", "rect_ntx", "lists"}
    BY <2>1 DEF P!Program
  <2>3. log = NIL /\ (pool = NIL \/ Whole(pool))
    BY <1>2, PoolAssumption DEF PoolInv, P!Program
  <2>4. prog' = p /\ step' = 1 /\ UNCHANGED <<pool, log>>
    BY <2>1 DEF P!Start
  <2> QED
    BY <2>2, <2>3, <2>4 DEF PoolInv
<1>3. CASE /\ ~P!Crash /\ step = 1 /\ log = NIL /\ (pool = NIL \/ Whole(pool))
           /\ prog \in {"writer", "reader", "rect_tx", "rect_ntx", "lists"}
  <2>1. P!Create \/ (P!Open /\ prog \in {"reader", "lists"})
    BY <1>3, WriterSteps, ReaderSteps, RectTxSteps, RectNtxSteps, ListsSteps
  <2>2. CASE P!Create /\ prog # "reader"
    <3>1. Stopped' \/ (Goes /\ Resting' /\ pool'.rect = NIL /\ pool'.notes = <<>>)
      BY <1>3, <2>2, CreateStep
    <3> QED
      BY <1>0, <1>3, <2>2, <3>1
         DEF Goes, PoolInv, WriterAt, RectTxAt, RectNtxAt, ListsAt
  <2>3. CASE P!Open /\ prog \in {"reader", "lists"}
    <3>1. Stopped' \/ (Goes /\ Resting' /\ prog = "reader")
      BY <1>3, <2>3, OpenStep
    <3> QED
      BY <1>0, <1>3, <3>1 DEF Goes, PoolInv, ReaderAt
  <2> QED
    BY <1>3, <2>1, <2>2, <2>3, ReaderSteps
<1>4. CASE ~P!Crash /\ prog = "writer" /\ WriterAt
  BY <1>0, <1>4, WriterStep DEF PoolInv
<1>5. CASE ~P!Crash /\ prog = "reader" /\ ReaderAt
  BY <1>0, <1>5, ReaderStep DEF PoolInv
<1>6. CASE ~P!Crash /\ prog = "rect_tx" /\ RectTxAt
  BY <1>0, <1>6, RectTxStep DEF PoolInv
<1>7. CASE ~P!Crash /\ prog = "rect_ntx" /\ RectNtxAt
  BY <1>0, <1>7, RectNtxStep DEF PoolInv
<1>8. CASE ~P!Crash /\ prog = "lists" /\ ListsAt
  BY <1>0, <1>8, ListsStep DEF PoolInv
<1> QED
  BY <1>1, <1>2, <1>3, <1>4, <1>5, <1>6, <1>7, <1>8 DEF PoolInv

\* Whichever programs run on the pool in which order, and wherever a crash cuts
\* them off, the next pmemobj_open finds the pool as it is between two
\* transactions or atomic operations.
THEOREM PoolTheorem == Spec => []PoolConsistent
<1>1. Init => PoolInv
  BY DEF Init, P!Init, PoolInv
<1>2. PoolInv /\ [Next]_vars => PoolInv'
  <2>1. PoolInv /\ UNCHANGED pmemVars => PoolInv'
    BY DEF PoolInv, pmemVars, WriterAt, ReaderAt, RectTxAt, RectNtxAt, ListsAt,
           Resting, Opened, Filling
  <2>2. [Next]_vars => P!Next \/ UNCHANGED pmemVars
    BY DEF Next, vars
  <2> QED
    BY <2>1, <2>2, PoolStep
<1>3. PoolInv => PoolConsistent
  <2> SUFFICES ASSUME PoolInv PROVE PoolConsistent
    OBVIOUS
  <2>1. pool = NIL \/ Whole(P!Undone)
    BY Recovered
  <2>2. ASSUME NEW p, Whole(p)
        PROVE  /\ DOMAIN p.heap = {p.rect} \ {NIL}
               /\ \A o \in DOMAIN p.heap : p.heap[o] = [a |-> 5, b |-> 10]
               /\ p.buf \in Words \cup {""} /\ p.notes \in P!Notes
    <3>1. p.heap = [o \in {p.rect} \ {NIL} |-> [a |-> 5, b |-> 10]]
      BY <2>2, WholeFields DEF HeapOf, P!Constructed
    <3>2. p.buf \in Words \cup {""} /\ p.notes \in P!Notes
      BY <2>2, WholeFields
    <3> QED
      BY <3>1, <3>2
  <2> QED
    BY <2>1, <2>2 DEF PoolConsistent, P!PoolConsistent
<1> QED
  BY <1>1, <1>2, <1>3, PTL DEF Spec
----------------------------------------------------------------------------
(* The counter files of lwnfs.c and file.c                                 *)

\* A set of naturals that is not empty has a smallest element.
LEMMA Smallest ==
  ASSUME NEW T, T \subseteq Nat, T # {}
  PROVE  \E x \in T : \A y \in T : x <= y
<1> DEFINE R == OpToRel(<, Nat)
<1>1. PICK x \in T : \A y \in T : ~ (<<y, x>> \in R)
  <2>1. IsWellFoundedOn(R, Nat)
    BY NatLessThanWellFounded
  <2> QED
    BY <2>1, WFMin
<1>2. \A y \in T : ~ (y < x)
  BY <1>1 DEF OpToRel
<1> QED
  BY <1>2

\* One step of snprintf("%d"): F gives the digits of smaller numbers.
Digit(F, w) == IF w < Base THEN <<w>> ELSE Append(F[w \div Base], w % Base)

\* F is right up to m.
DigitsTo(F, m) ==
  F \in [0 .. m -> Seq(Nat)] /\ \A w \in 0 .. m : F[w] = Digit(F, w)

\* Without its last digit a number is smaller.
LEMMA Shorter ==
  ASSUME NEW w \in Nat, w >= Base
  PROVE  w \div Base \in Nat /\ w \div Base < w /\ w % Base \in Nat
<1>1. PICK B \in Nat \ {0, 1} : B = Base
  BY NumbersAssumption
<1>2. /\ w = B * (w \div B) + (w % B) /\ w \div B \in Nat /\ w % B \in 0 .. B - 1
  OBVIOUS
<1>3. PICK q \in Nat, r \in Nat : q = w \div B /\ r = w % B /\ w = B * q + r
  BY <1>2
<1>4. PICK e \in Nat : B = e + 2
  <2>1. B - 2 \in Nat /\ B = (B - 2) + 2
    OBVIOUS
  <2> QED
    BY <2>1
<1>5. PICK c \in Nat : c = e * q
  OBVIOUS
<1>6. B * q = c + 2 * q
  BY <1>4, <1>5
<1>7. q < w
  <2>1. w = c + 2 * q + r
    BY <1>3, <1>6
  <2>2. w >= 2
    BY <1>1
  <2> QED
    BY <2>1, <2>2
<1> QED
  BY <1>1, <1>3, <1>7

\* A step gives digits if the steps before did.
LEMMA DigitIs ==
  ASSUME NEW F, NEW w \in Nat, \A x \in 0 .. w - 1 : F[x] \in Seq(Nat)
  PROVE  Digit(F, w) \in Seq(Nat)
<1>1. CASE w < Base
  BY <1>1 DEF Digit
<1>2. CASE ~ (w < Base)
  <2>1. w >= Base
    BY <1>2, NumbersAssumption
  <2>2. PICK q \in 0 .. w - 1, r \in Nat : q = w \div Base /\ r = w % Base
    BY <2>1, Shorter
  <2>3. F[q] \in Seq(Nat) /\ Digit(F, w) = Append(F[q], r)
    BY <1>2, <2>2 DEF Digit
  <2> QED
    BY <2>3
<1> QED
  BY <1>1, <1>2

\* A step looks at smaller numbers only.
LEMMA DigitSame ==
  ASSUME NEW F, NEW G, NEW w \in Nat, \A x \in 0 .. w - 1 : F[x] = G[x]
  PROVE  Digit(F, w) = Digit(G, w)
<1>1. CASE w < Base
  BY <1>1 DEF Digit
<1>2. CASE ~ (w < Base)
  <2>1. w >= Base
    BY <1>2, NumbersAssumption
  <2>2. PICK q \in 0 .. w - 1 : q = w \div Base
    BY <2>1, Shorter
  <2> QED
    BY <1>2, <2>2 DEF Digit
<1> QED
  BY <1>1, <1>2

\* Up to any number there are digits.
LEMMA DigitsExist ==
  ASSUME NEW w \in Nat
  PROVE  \E F : DigitsTo(F, w)
<1> DEFINE Ex(m) == \E F : DigitsTo(F, m)
           T == {m \in Nat : ~Ex(m)}
<1>1. SUFFICES ASSUME ~Ex(w) PROVE FALSE
  OBVIOUS
<1>2. PICK m \in T : \A y \in T : m <= y
  <2>1. T \subseteq Nat /\ w \in T
    BY <1>1
  <2> HIDE DEF T
  <2> QED
    BY <2>1, Smallest
<1>3. m \in Nat /\ ~Ex(m)
  BY <1>2
<1>4. \E F : \A x \in 0 .. m - 1 : F[x] \in Seq(Nat) /\ F[x] = Digit(F, x)
  <2>1. CASE m = 0
    BY <2>1
  <2>2. CASE m # 0
    <3>1. m - 1 \in Nat
      BY <1>3, <2>2
    <3>2. Ex(m - 1)
      <4>1. SUFFICES ASSUME ~Ex(m - 1) PROVE FALSE
        OBVIOUS
      <4>2. m - 1 \in T
        BY <3>1, <4>1
      <4> HIDE DEF T, Ex
      <4>3. m <= m - 1
        BY <1>2, <4>2
      <4> QED
        BY <4>3, <1>3
    <3>3. PICK F : DigitsTo(F, m - 1)
      BY <3>2
    <3> QED
      BY <3>3 DEF DigitsTo
  <2> QED
    BY <2>1, <2>2
<1>5. PICK F : \A x \in 0 .. m - 1 : F[x] \in Seq(Nat) /\ F[x] = Digit(F, x)
  BY <1>4
<1> DEFINE G == [x \in 0 .. m |-> Digit(F, x)]
<1>6. ASSUME NEW x \in 0 .. m
      PROVE  Digit(F, x) \in Seq(Nat) /\ \A y \in 0 .. x - 1 : y \in 0 .. m - 1
  <2>1. \A y \in 0 .. x - 1 : y \in 0 .. m - 1
    BY <1>3
  <2>2. x \in Nat /\ \A y \in 0 .. x - 1 : F[y] \in Seq(Nat)
    BY <2>1, <1>3, <1>5
  <2> QED
    BY <2>1, <2>2, DigitIs
<1>7. G \in [0 .. m -> Seq(Nat)] /\ \A x \in 0 .. m : G[x] = Digit(F, x)
  BY <1>6
<1> HIDE DEF G
<1>8. ASSUME NEW x \in 0 .. m
      PROVE  G[x] = Digit(G, x)
  <2>1. \A y \in 0 .. x - 1 : G[y] = F[y]
    BY <1>3, <1>5, <1>6, <1>7
  <2>2. x \in Nat
    BY <1>3
  <2>3. Digit(G, x) = Digit(F, x)
    BY <2>1, <2>2, DigitSame
  <2> QED
    BY <2>3, <1>7
<1>9. DigitsTo(G, m)
  BY <1>7, <1>8 DEF DigitsTo
<1> QED
  BY <1>9, <1>3

\* They are the same however far they go.
LEMMA DigitsUnique ==
  ASSUME NEW F, NEW m \in Nat, DigitsTo(F, m), NEW G, NEW l \in Nat, DigitsTo(G, l),
         NEW w \in Nat, w <= m, w <= l
  PROVE  F[w] = G[w]
<1> DEFINE T == {x \in Nat : x <= m /\ x <= l /\ F[x] # G[x]}
<1>1. SUFFICES ASSUME F[w] # G[w] PROVE FALSE
  OBVIOUS
<1>2. PICK x \in T : \A y \in T : x <= y
  <2>1. T \subseteq Nat /\ w \in T
    BY <1>1
  <2> HIDE DEF T
  <2> QED
    BY <2>1, Smallest
<1>3. \A y \in 0 .. x - 1 : F[y] = G[y]
  <2>1. SUFFICES ASSUME NEW y \in 0 .. x - 1, F[y] # G[y] PROVE FALSE
    OBVIOUS
  <2>2. y \in T /\ x \in Nat
    BY <2>1, <1>2
  <2> HIDE DEF T
  <2>3. x <= y
    BY <1>2, <2>2
  <2> QED
    BY <2>1, <2>2, <2>3
<1>4. Digit(F, x) = Digit(G, x)
  BY <1>2, <1>3, DigitSame
<1> QED
  BY <1>2, <1>4 DEF DigitsTo

\* So the recursive definition defines them.
LEMMA DigitsAre ==
  \A w \in Nat : L!Digits[w] \in Seq(Nat)
<1> DEFINE F(m) == CHOOSE F : DigitsTo(F, m)
           f == [w \in Nat |-> F(w)[w]]
<1>1. ASSUME NEW m \in Nat
      PROVE  DigitsTo(F(m), m)
  BY DigitsExist
<1> HIDE DEF F
<1>2. ASSUME NEW w \in Nat
      PROVE  f[w] = Digit(f, w)
  <2>1. f[w] = F(w)[w] /\ F(w)[w] = Digit(F(w), w)
    BY <1>1 DEF DigitsTo
  <2>2. \A x \in 0 .. w - 1 : F(w)[x] = f[x]
    <3> TAKE x \in 0 .. w - 1
    <3>1. f[x] = F(x)[x] /\ x \in Nat /\ x <= w
      OBVIOUS
    <3>2. F(w)[x] = F(x)[x]
      BY <3>1, <1>1, DigitsUnique
    <3> QED
      BY <3>1, <3>2
  <2> HIDE DEF f
  <2>3. Digit(F(w), w) = Digit(f, w)
    BY <2>2, DigitSame
  <2> QED
    BY <2>1, <2>3
<1>3. f = [w \in Nat |-> Digit(f, w)]
  <2> DEFINE g == [w \in Nat |-> Digit(f, w)]
  <2>1. DOMAIN f = Nat /\ DOMAIN g = Nat /\ \A w \in Nat : f[w] = g[w]
    BY <1>2
  <2>2. f = [w \in Nat |-> f[w]] /\ g = [w \in Nat |-> g[w]]
    OBVIOUS
  <2> HIDE DEF f
  <2> QED
    BY <2>1, <2>2
<1> HIDE DEF f
<1> DEFINE D == CHOOSE D : D = [w \in Nat |-> Digit(D, w)]
<1>4. D = [w \in Nat |-> Digit(D, w)]
  BY <1>3
<1>5. L!Digits = D
  BY DEF L!Digits, Digit
<1> HIDE DEF D
<1>6. \A w \in Nat : D[w] = Digit(D, w)
  BY <1>4
<1> DEFINE T == {w \in Nat : D[w] \notin Seq(Nat)}
<1>7. T = {}
  <2>1. SUFFICES ASSUME T # {} PROVE FALSE
    OBVIOUS
  <2>2. PICK x \in T : \A y \in T : x <= y
    <3>1. T \subseteq Nat
      OBVIOUS
    <3> HIDE DEF T
    <3> QED
      BY <2>1, <3>1, Smallest
  <2>3. \A y \in 0 .. x - 1 : D[y] \in Seq(Nat)
    <3>1. SUFFICES ASSUME NEW y \in 0 .. x - 1, D[y] \notin Seq(Nat) PROVE FALSE
      OBVIOUS
    <3>2. y \in T /\ x \in Nat
      BY <3>1, <2>2
    <3> HIDE DEF T
    <3>3. x <= y
      BY <2>2, <3>2
    <3> QED
      BY <3>1, <3>2, <3>3
  <2>4. Digit(D, x) \in Seq(Nat)
    BY <2>2, <2>3, DigitIs
  <2> QED
    BY <2>2, <2>4, <1>6
<1> QED
  BY <1>5, <1>7

\* The characters of a text.
Char == Nat \cup {"-", "newline"}

\* snprintf("%d\n") gives a text.
LEMMA TextIs ==
  ASSUME NEW v \in Int
  PROVE  L!Text(v) \in Seq(Char)
<1>1. \A d \in Seq(Nat) : d \in Seq(Char)
  BY DEF Char
<1>2. <<"-">> \in Seq(Char) /\ <<"newline">> \in Seq(Char)
  BY DEF Char
<1>3. CASE v < 0
  <2>1. PICK d \in Seq(Char) : d = L!Digits[0 - v]
    <3>1. 0 - v \in Nat
      BY <1>3
    <3> QED
      BY <3>1, <1>1, DigitsAre
  <2>2. L!Text(v) = (<<"-">> \o d) \o <<"newline">>
    BY <1>3, <2>1 DEF L!Text
  <2> QED
    BY <2>2, <1>2
<1>4. CASE ~ (v < 0)
  <2>1. PICK d \in Seq(Char) : d = L!Digits[v]
    <3>1. v \in Nat
      BY <1>4
    <3> QED
      BY <3>1, <1>1, DigitsAre
  <2>2. L!Text(v) = d \o <<"newline">>
    BY <1>4, <2>1 DEF L!Text
  <2> QED
    BY <2>2, <1>2
<1> QED
  BY <1>3, <1>4

\* The two file systems format alike.
LEMMA SameText ==
  ASSUME NEW v
  PROVE  J!Text(v) = L!Text(v)
<1>1. J!Digits = L!Digits
  BY DEF J!Digits, L!Digits
<1> QED
  BY <1>1 DEF J!Text, L!Text

\* What was read and the characters behind it.
LEMMA ReadOn ==
  ASSUME NEW t \in Seq(Char), NEW o \in Nat, NEW c \in Nat, o + c <= Len(t)
  PROVE  /\ SubSeq(t, o + 1, o + c) \in Seq(Char)
         /\ Len(SubSeq(t, o + 1, o + c)) = c
         /\ SubSeq(t, 1, o) \o SubSeq(t, o + 1, o + c) = SubSeq(t, 1, o + c)
<1>1. SubSeq(t, o + 1, o + c) \in Seq(Char) /\ Len(SubSeq(t, o + 1, o + c)) = c
  OBVIOUS
<1>2. 1 \in 1 .. Len(t) + 1 /\ o \in 1 - 1 .. Len(t) /\ o + c \in o .. Len(t)
  OBVIOUS
<1> QED
  BY <1>1, <1>2, ConcatAdjacentSubSeq

\* A descriptor, and the one of a process without a file.
Fds == [file : L!Names \cup {"none"}, sb : Supers \cup {0}, offset : Nat, loaded : BOOLEAN,
        v : Int, seen : Seq(Char), first : Int, clean : BOOLEAN]

\* What d has read of its file, whose counter is k.  An undisturbed read shows
\* the text of first; it has counted once it has shown something, and what it
\* loads from then on is one more.
FdOK(d, k) ==
  /\ d.offset = Len(d.seen)
  /\ d.clean =>
       /\ d.offset <= Len(L!Text(d.first))
       /\ d.seen = SubSeq(L!Text(d.first), 1, d.offset)
       /\ d.offset = 0 /\ d.loaded => d.v = d.first /\ k = d.first
       /\ d.offset > 0 => k = d.first + 1
       /\ d.offset > 0 /\ d.loaded => d.v = d.first + 1

\* The descriptors F of the processes procs and the counters c, M being the
\* super blocks that are mounted.
FilesOK(procs, M, c, F) ==
  /\ c \in [L!Names -> Int]
  /\ F \in [procs -> Fds]
  /\ \A p \in procs : \/ F[p] = L!Closed
                      \/ /\ F[p].file \in L!Names /\ F[p].sb \in M
                         /\ FdOK(F[p], c[F[p].file])

\* The first half of read().
LoadedFd(d, k) ==
  [d EXCEPT !.loaded = TRUE, !.v = k, !.first = IF d.offset = 0 THEN k ELSE @,
            !.clean = @ \/ d.offset = 0]

\* The load of a counter by read() keeps what is known of the open file.
LEMMA FdLoads ==
  ASSUME NEW d \in Fds, NEW k \in Int, FdOK(d, k), ~d.loaded
  PROVE  /\ LoadedFd(d, k) \in Fds /\ FdOK(LoadedFd(d, k), k)
         /\ LoadedFd(d, k).file = d.file /\ LoadedFd(d, k).sb = d.sb
<1> DEFINE e == LoadedFd(d, k)
<1>1. /\ e \in Fds /\ e.file = d.file /\ e.sb = d.sb /\ e.offset = d.offset
      /\ e.loaded /\ e.v = k /\ e.first = (IF d.offset = 0 THEN k ELSE d.first)
      /\ e.seen = d.seen /\ e.clean = (d.clean \/ d.offset = 0)
  BY DEF LoadedFd, Fds
<1>2. FdOK(e, k)
  <2>1. CASE d.offset = 0
    <3>1. L!Text(k) \in Seq(Char)
      BY TextIs
    <3>2. SubSeq(L!Text(k), 1, 0) = <<>> /\ 0 <= Len(L!Text(k))
      BY <3>1
    <3>3. d.seen = <<>>
      <4>1. d.seen \in Seq(Char) /\ Len(d.seen) = 0
        BY <2>1 DEF FdOK, Fds
      <4> QED
        BY <4>1
    <3> HIDE DEF e
    <3> QED
      BY <1>1, <2>1, <3>2, <3>3 DEF FdOK
  <2>2. CASE d.offset # 0
    <3>1. d.offset > 0
      BY <2>2 DEF Fds
    <3> HIDE DEF e
    <3> QED
      BY <1>1, <2>2, <3>1 DEF FdOK
  <2> QED
    BY <2>1, <2>2
<1> QED
  BY <1>1, <1>2

\* The second half.
GotFd(d, size, copied) ==
  LET text == L!Text(L!Shown(d))
      rest == Len(text) - d.offset
      taken == IF size > rest THEN rest ELSE size
  IN IF copied /\ rest >= 0 THEN SubSeq(text, d.offset + 1, d.offset + taken) ELSE <<>>

RestFd(d, size, copied) ==
  [d EXCEPT !.loaded = FALSE, !.v = 0, !.offset = @ + Len(GotFd(d, size, copied)),
            !.seen = (IF d.offset = 0 THEN <<>> ELSE @) \o GotFd(d, size, copied)]

\* What it reads are the next characters of the text, if there are any.
LEMMA Got ==
  ASSUME NEW d \in Fds, NEW x \in Nat, NEW copied \in BOOLEAN
  PROVE  /\ GotFd(d, x, copied) \in Seq(Char)
         /\ LET t == L!Text(L!Shown(d)) IN
            d.offset <= Len(t) =>
              /\ d.offset + Len(GotFd(d, x, copied)) <= Len(t)
              /\ SubSeq(t, 1, d.offset) \o GotFd(d, x, copied)
                   = SubSeq(t, 1, d.offset + Len(GotFd(d, x, copied)))
<1>1. PICK t \in Seq(Char) : t = L!Text(L!Shown(d))
  <2>1. L!Shown(d) \in Int
    BY DEF L!Shown, Fds
  <2> QED
    BY <2>1, TextIs
<1>2. PICK o \in Nat : o = d.offset
  BY DEF Fds
<1>3. Len(t) \in Nat
  OBVIOUS
<1>4. CASE copied /\ o <= Len(t)
  <2>1. PICK m \in Nat : m = (IF x > Len(t) - o THEN Len(t) - o ELSE x) /\ o + m <= Len(t)
    BY <1>3, <1>4
  <2>2. GotFd(d, x, copied) = SubSeq(t, o + 1, o + m)
    <3>1. Len(t) - o >= 0
      BY <1>3, <1>4
    <3> QED
      BY <1>1, <1>2, <1>4, <2>1, <3>1 DEF GotFd
  <2>3. /\ SubSeq(t, o + 1, o + m) \in Seq(Char)
        /\ Len(SubSeq(t, o + 1, o + m)) = m
        /\ SubSeq(t, 1, o) \o SubSeq(t, o + 1, o + m) = SubSeq(t, 1, o + m)
    BY <2>1, ReadOn
  <2> QED
    BY <1>1, <1>2, <2>1, <2>2, <2>3
<1>5. CASE ~ (copied /\ o <= Len(t))
  <2>1. GotFd(d, x, copied) = <<>>
    BY <1>1, <1>2, <1>3, <1>5 DEF GotFd
  <2>2. o <= Len(t) => SubSeq(t, 1, o) \in Seq(Char)
    BY <1>3
  <2>3. o <= Len(t) => SubSeq(t, 1, o) \o <<>> = SubSeq(t, 1, o)
    BY <2>2
  <2> QED
    BY <1>1, <1>2, <2>1, <2>3
<1> QED
  BY <1>4, <1>5

\* The rest of a read() stores the counter plus one, or goes on in the text
\* it formatted.
LEMMA FdRests ==
  ASSUME NEW d \in Fds, NEW k \in Int, FdOK(d, k), d.loaded, NEW x \in Nat, NEW copied \in BOOLEAN
  PROVE  /\ RestFd(d, x, copied) \in Fds
         /\ FdOK(RestFd(d, x, copied), IF d.offset > 0 THEN k ELSE k + 1)
         /\ RestFd(d, x, copied).file = d.file /\ RestFd(d, x, copied).sb = d.sb
<1> DEFINE e == RestFd(d, x, copied)
           j == IF d.offset > 0 THEN k ELSE k + 1
<1>1. PICK g \in Seq(Char) : g = GotFd(d, x, copied)
  BY Got
<1>2. PICK s \in Seq(Char) : s = d.seen /\ d.offset = Len(s)
  BY DEF FdOK, Fds
<1>3. (IF d.offset = 0 THEN <<>> ELSE d.seen) = s
  <2>1. Len(s) = 0 => s = <<>>
    OBVIOUS
  <2> QED
    BY <1>2, <2>1
<1>4. s \o g \in Seq(Char) /\ Len(s \o g) = Len(s) + Len(g) /\ Len(s) \in Nat /\ Len(g) \in Nat
  BY ConcatProperties
<1>5. /\ e \in Fds /\ e.file = d.file /\ e.sb = d.sb /\ e.offset = Len(s) + Len(g)
      /\ e.loaded = FALSE /\ e.first = d.first /\ e.clean = d.clean
      /\ e.seen = s \o g
  <2>0. PICK q \in Nat : q = Len(s) + Len(g)
    BY <1>4
  <2>1. PICK r \in Seq(Char) : r = s \o g
    BY <1>4
  <2>2. e = [d EXCEPT !.loaded = FALSE, !.v = 0, !.offset = q, !.seen = r]
    BY <1>1, <1>2, <1>3, <2>0, <2>1 DEF RestFd
  <2> HIDE DEF e
  <2>3. /\ e \in Fds /\ e.file = d.file /\ e.sb = d.sb /\ e.offset = q
        /\ e.loaded = FALSE /\ e.first = d.first /\ e.clean = d.clean
        /\ e.seen = r
    <3>1. e \in Fds
      <4>1. PICK z \in Int : z = 0
        OBVIOUS
      <4>2. e = [d EXCEPT !.loaded = FALSE, !.v = z, !.offset = q, !.seen = r]
        BY <2>2, <4>1
      <4> QED
        BY <2>0, <2>1, <4>2 DEF Fds
    <3>2. e.file = d.file /\ e.sb = d.sb /\ e.offset = q
      BY <2>2 DEF Fds
    <3>3. e.loaded = FALSE /\ e.seen = r
      BY <2>2 DEF Fds
    <3>4. e.first = d.first
      BY <2>2 DEF Fds
    <3>5. e.clean = d.clean
      BY <2>2 DEF Fds
    <3> QED
      BY <3>1, <3>2, <3>3, <3>4, <3>5
  <2> QED
    BY <2>0, <2>1, <2>3
<1> HIDE DEF e
<1>6. ASSUME d.clean
      PROVE  /\ L!Shown(d) = d.first
             /\ j = d.first + 1
  BY <1>6, <1>2, <1>4 DEF FdOK, L!Shown, Fds
<1> HIDE DEF j
<1>7. ASSUME d.clean
      PROVE  /\ e.offset <= Len(L!Text(d.first))
             /\ e.seen = SubSeq(L!Text(d.first), 1, e.offset)
  <2>1. PICK t : t = L!Text(d.first)
    OBVIOUS
  <2>2. Len(s) <= Len(t) /\ s = SubSeq(t, 1, Len(s))
    BY <1>2, <1>7, <2>1 DEF FdOK
  <2>3. /\ Len(s) + Len(g) <= Len(t)
        /\ SubSeq(t, 1, Len(s)) \o g = SubSeq(t, 1, Len(s) + Len(g))
    BY <1>1, <1>2, <1>6, <1>7, <2>1, <2>2, Got
  <2> QED
    BY <1>5, <2>1, <2>2, <2>3
<1>8. FdOK(e, j)
  BY <1>4, <1>5, <1>6, <1>7 DEF FdOK
<1> QED
  BY <1>5, <1>8 DEF e, j

\* Nothing is said of a read that was disturbed.
UncleanFd(d) == [d EXCEPT !.clean = FALSE]

\* After another process changed the counter, nothing is claimed of the
\* read.
LEMMA FdDisturbed ==
  ASSUME NEW d \in Fds, NEW k, FdOK(d, k), NEW j
  PROVE  /\ UncleanFd(d) \in Fds /\ FdOK(UncleanFd(d), j)
         /\ UncleanFd(d).file = d.file /\ UncleanFd(d).sb = d.sb
<1>1. /\ UncleanFd(d) \in Fds /\ UncleanFd(d).file = d.file /\ UncleanFd(d).sb = d.sb
      /\ UncleanFd(d).offset = d.offset /\ UncleanFd(d).seen = d.seen
      /\ UncleanFd(d).clean = FALSE
  BY DEF UncleanFd, Fds
<1>2. FdOK(UncleanFd(d), j)
  BY <1>1 DEF FdOK
<1> QED
  BY <1>1, <1>2

\* A file that is not open.
LEMMA ClosedIs == L!Closed \in Fds /\ ~L!Closed.loaded /\ L!Closed.offset = 0
                    /\ L!Closed.file = "none" /\ "none" \notin L!Names
                    /\ UncleanFd(L!Closed) = L!Closed
<1>1. PICK z \in Int : z = 0
  OBVIOUS
<1>2. PICK s : s = <<>>
  OBVIOUS
<1>3. L!Closed = [file |-> "none", sb |-> 0, offset |-> 0, loaded |-> FALSE, v |-> z,
                  seen |-> s, first |-> z, clean |-> FALSE]
  BY <1>1, <1>2 DEF L!Closed
<1>4. s \in Seq(Char)
  BY <1>2
<1>5. L!Closed \in Fds /\ ~L!Closed.loaded /\ L!Closed.offset = 0
        /\ L!Closed.file = "none" /\ "none" \notin L!Names
  BY <1>1, <1>3, <1>4 DEF Fds, L!Names
<1>6. L!Closed.clean = FALSE
  BY <1>3
<1>7. UncleanFd(L!Closed) = L!Closed
  BY <1>5, <1>6 DEF UncleanFd, Fds
<1> QED
  BY <1>5, <1>7

\* A step of process p that gives it a right descriptor, and of which every
\* other process that has a counter it changes is told.
LEMMA FilesStep ==
  ASSUME NEW procs, NEW M, NEW c, NEW F, FilesOK(procs, M, c, F),
         NEW p \in procs, NEW c2 \in [L!Names -> Int],
         NEW G, DOMAIN G = procs, G = [q \in procs |-> G[q]],
         G[p] \in Fds,
         \/ G[p] = L!Closed
         \/ G[p].file \in L!Names /\ G[p].sb \in M /\ FdOK(G[p], c2[G[p].file]),
         \A q \in procs \ {p} :
           \/ G[q] = UncleanFd(F[q])
           \/ G[q] = F[q] /\ (F[q].file \in L!Names => c2[F[q].file] = c[F[q].file])
  PROVE  FilesOK(procs, M, c2, G)
<1> DEFINE Right(q) == \/ G[q] = L!Closed
                       \/ /\ G[q].file \in L!Names /\ G[q].sb \in M
                          /\ FdOK(G[q], c2[G[q].file])
<1>1. ASSUME NEW q \in procs \ {p}
      PROVE  G[q] \in Fds /\ Right(q)
  <2>1. F[q] \in Fds
    BY DEF FilesOK
  <2>2. CASE F[q] = L!Closed
    <3>1. L!Closed = UncleanFd(L!Closed)
      BY ClosedIs
    <3> QED
      BY <2>1, <2>2, <3>1
  <2>3. CASE F[q] # L!Closed
    <3>1. F[q].file \in L!Names /\ F[q].sb \in M /\ FdOK(F[q], c[F[q].file])
      BY <2>3 DEF FilesOK
    <3>2. CASE G[q] = UncleanFd(F[q])
      <4>1. /\ UncleanFd(F[q]) \in Fds /\ FdOK(UncleanFd(F[q]), c2[F[q].file])
            /\ UncleanFd(F[q]).file = F[q].file /\ UncleanFd(F[q]).sb = F[q].sb
        BY <2>1, <3>1, FdDisturbed
      <4> QED
        BY <3>1, <3>2, <4>1
    <3>3. CASE G[q] = F[q] /\ c2[F[q].file] = c[F[q].file]
      BY <2>1, <3>1, <3>3
    <3> QED
      BY <3>1, <3>2, <3>3
  <2> QED
    BY <2>2, <2>3
<1>2. \A q \in procs : G[q] \in Fds /\ Right(q)
  BY <1>1
<1>3. G \in [procs -> Fds]
  BY <1>2
<1> QED
  BY <1>2, <1>3 DEF FilesOK

\* The other processes of a step that changes no counter.
LEMMA FilesAlone ==
  ASSUME NEW procs, NEW M, NEW c, NEW F, FilesOK(procs, M, c, F),
         NEW p \in procs, NEW d \in Fds,
         \/ d = L!Closed
         \/ d.file \in L!Names /\ d.sb \in M /\ FdOK(d, c[d.file])
  PROVE  FilesOK(procs, M, c, [F EXCEPT ![p] = d])
<1>1. PICK G : G = [F EXCEPT ![p] = d]
  OBVIOUS
<1>2. /\ DOMAIN G = procs /\ G = [q \in procs |-> G[q]] /\ G[p] = d
      /\ \A q \in procs \ {p} : G[q] = F[q]
  BY <1>1 DEF FilesOK
<1>3. c \in [L!Names -> Int]
  BY DEF FilesOK
<1>4. FilesOK(procs, M, c, G)
  BY <1>2, <1>3, FilesStep
<1> QED
  BY <1>1, <1>4

\* open()
LEMMA FilesOpen ==
  ASSUME NEW procs, NEW M, M \subseteq Supers, NEW c, NEW F, FilesOK(procs, M, c, F),
         NEW p \in procs, NEW f \in L!Names, NEW s \in M
  PROVE  FilesOK(procs, M, c, [F EXCEPT ![p] = [L!Closed EXCEPT !.file = f, !.sb = s]])
<1>1. PICK d : d = [L!Closed EXCEPT !.file = f, !.sb = s]
  OBVIOUS
<1>2. d \in Fds /\ d.file = f /\ d.sb = s /\ d.seen = L!Closed.seen
        /\ d.offset = L!Closed.offset /\ d.clean = L!Closed.clean
  BY <1>1, ClosedIs DEF Fds
<1>3. FdOK(d, c[f])
  BY <1>2 DEF FdOK, L!Closed
<1> QED
  BY <1>1, <1>2, <1>3, FilesAlone

\* release()
LEMMA FilesClose ==
  ASSUME NEW procs, NEW M, NEW c, NEW F, FilesOK(procs, M, c, F), NEW p \in procs
  PROVE  FilesOK(procs, M, c, [F EXCEPT ![p] = L!Closed])
BY FilesAlone, ClosedIs

\* read(), up to atomic_read
LEMMA FilesLoad ==
  ASSUME NEW procs, NEW M, NEW c, NEW F, FilesOK(procs, M, c, F), NEW p \in procs,
         F[p] # L!Closed, ~F[p].loaded
  PROVE  FilesOK(procs, M, c, [F EXCEPT ![p] = LoadedFd(F[p], c[F[p].file])])
<1>1. /\ F[p] \in Fds /\ F[p].file \in L!Names /\ F[p].sb \in M
      /\ FdOK(F[p], c[F[p].file]) /\ c[F[p].file] \in Int
  BY DEF FilesOK
<1>2. PICK k \in Int : k = c[F[p].file]
  BY <1>1
<1>3. /\ LoadedFd(F[p], k) \in Fds /\ FdOK(LoadedFd(F[p], k), k)
      /\ LoadedFd(F[p], k).file = F[p].file /\ LoadedFd(F[p], k).sb = F[p].sb
  BY <1>1, <1>2, FdLoads
<1>4. PICK d : d = LoadedFd(F[p], k)
  OBVIOUS
<1>5. FilesOK(procs, M, c, [F EXCEPT ![p] = d])
  BY <1>1, <1>2, <1>3, <1>4, FilesAlone
<1> QED
  BY <1>2, <1>4, <1>5

\* What p does to a counter the others are told.
Disturbed(procs, F, p, f) ==
  [q \in procs |-> IF q # p /\ F[q].file = f THEN UncleanFd(F[q]) ELSE F[q]]

\* A process changes a counter: its own file fits the new value and the
\* other open files of the counter are disturbed.
LEMMA FilesCount ==
  ASSUME NEW procs, NEW M, NEW c, NEW F, FilesOK(procs, M, c, F), NEW p \in procs,
         NEW f \in L!Names, NEW k \in Int, NEW d \in Fds,
         d.file = f, d.sb \in M, FdOK(d, k)
  PROVE  FilesOK(procs, M, [c EXCEPT ![f] = k], [Disturbed(procs, F, p, f) EXCEPT ![p] = d])
<1>1. PICK c2 : c2 = [c EXCEPT ![f] = k]
  OBVIOUS
<1>2. PICK G : G = [Disturbed(procs, F, p, f) EXCEPT ![p] = d]
  OBVIOUS
<1>3. c2 \in [L!Names -> Int] /\ c2[f] = k /\ \A g \in L!Names \ {f} : c2[g] = c[g]
  BY <1>1 DEF FilesOK
<1>4. /\ DOMAIN G = procs /\ G = [q \in procs |-> G[q]] /\ G[p] = d
      /\ \A q \in procs \ {p} : G[q] = IF F[q].file = f THEN UncleanFd(F[q]) ELSE F[q]
  BY <1>2 DEF Disturbed
<1>5. \A q \in procs \ {p} :
        \/ G[q] = UncleanFd(F[q])
        \/ G[q] = F[q] /\ (F[q].file \in L!Names => c2[F[q].file] = c[F[q].file])
  BY <1>3, <1>4
<1>6. FilesOK(procs, M, c2, G)
  BY <1>3, <1>4, <1>5, FilesStep
<1> QED
  BY <1>1, <1>2, <1>6

\* The rest of read()
LEMMA FilesRest ==
  ASSUME NEW procs, NEW M, NEW c, NEW F, FilesOK(procs, M, c, F), NEW p \in procs,
         F[p].loaded, NEW x \in Nat, NEW copied \in BOOLEAN
  PROVE  LET d == F[p] IN
         FilesOK(procs, M,
                 [c EXCEPT ![d.file] = IF d.offset > 0 THEN c[d.file] ELSE c[d.file] + 1],
                 [(IF d.offset > 0 THEN F ELSE Disturbed(procs, F, p, d.file)) EXCEPT
                    ![p] = RestFd(d, x, copied)])
<1>1. PICK d \in Fds : d = F[p]
  BY DEF FilesOK
<1>2. d # L!Closed
  BY <1>1, ClosedIs
<1>3. PICK f \in L!Names : f = d.file
  BY <1>1, <1>2 DEF FilesOK
<1>4. d.sb \in M /\ FdOK(d, c[f]) /\ c \in [L!Names -> Int]
  BY <1>1, <1>2, <1>3 DEF FilesOK
<1>5. PICK k \in Int : k = c[f]
  BY <1>4
<1>6. PICK j \in Int : j = IF d.offset > 0 THEN k ELSE k + 1
  BY <1>5
<1>7. PICK e \in Fds : e = RestFd(d, x, copied) /\ FdOK(e, j) /\ e.file = f /\ e.sb = d.sb
  <2>1. /\ RestFd(d, x, copied) \in Fds
        /\ FdOK(RestFd(d, x, copied), IF d.offset > 0 THEN k ELSE k + 1)
        /\ RestFd(d, x, copied).file = d.file /\ RestFd(d, x, copied).sb = d.sb
    BY <1>1, <1>4, <1>5, FdRests
  <2> QED
    BY <2>1, <1>3, <1>6
<1>8. CASE d.offset > 0
  <2>1. [c EXCEPT ![f] = k] = c
    BY <1>4, <1>5
  <2>2. FilesOK(procs, M, c, [F EXCEPT ![p] = e])
    BY <1>4, <1>5, <1>6, <1>7, <1>8, FilesAlone
  <2> QED
    BY <1>1, <1>3, <1>5, <1>6, <1>7, <1>8, <2>1, <2>2
<1>9. CASE ~ (d.offset > 0)
  <2>1. FilesOK(procs, M, [c EXCEPT ![f] = j], [Disturbed(procs, F, p, f) EXCEPT ![p] = e])
    BY <1>4, <1>7, FilesCount
  <2>2. [c EXCEPT ![f] = j] = [c EXCEPT ![f] = k + 1]
    BY <1>6, <1>9
  <2> QED
    BY <1>1, <1>3, <1>5, <1>6, <1>7, <1>9, <2>1, <2>2
<1> QED
  BY <1>8, <1>9

\* write()
LEMMA FilesWrite ==
  ASSUME NEW procs, NEW M, NEW c, NEW F, FilesOK(procs, M, c, F), NEW p \in procs,
         F[p] # L!Closed, ~F[p].loaded, F[p].offset = 0, NEW w \in Int
  PROVE  FilesOK(procs, M, [c EXCEPT ![F[p].file] = w], Disturbed(procs, F, p, F[p].file))
<1>1. PICK d \in Fds : d = F[p]
  BY DEF FilesOK
<1>2. PICK f \in L!Names : f = d.file
  BY <1>1 DEF FilesOK
<1>3. d.sb \in M /\ FdOK(d, c[f])
  BY <1>1, <1>2 DEF FilesOK
<1>4. FdOK(d, w)
  BY <1>1, <1>3 DEF FdOK
<1>5. FilesOK(procs, M, [c EXCEPT ![f] = w], [Disturbed(procs, F, p, f) EXCEPT ![p] = d])
  BY <1>2, <1>3, <1>4, FilesCount
<1>6. [Disturbed(procs, F, p, f) EXCEPT ![p] = d] = Disturbed(procs, F, p, f)
  BY <1>1 DEF Disturbed
<1> QED
  BY <1>1, <1>2, <1>5, <1>6

\* A mount sets the counters and disturbs everybody.
LEMMA FilesMount ==
  ASSUME NEW procs, NEW M, NEW c, NEW F, FilesOK(procs, M, c, F), NEW s
  PROVE  FilesOK(procs, M \cup {s}, [f \in L!Names |-> 0], [p \in procs |-> UncleanFd(F[p])])
<1>1. PICK c2 : c2 = [f \in L!Names |-> 0] /\ c2 \in [L!Names -> Int]
  <2>1. [f \in L!Names |-> 0] \in [L!Names -> Int]
    OBVIOUS
  <2> QED
    BY <2>1
<1>2. PICK G : G = [p \in procs |-> UncleanFd(F[p])]
  OBVIOUS
<1>3. ASSUME NEW p \in procs
      PROVE  /\ G[p] \in Fds
             /\ \/ G[p] = L!Closed
                \/ /\ G[p].file \in L!Names /\ G[p].sb \in M \cup {s}
                   /\ FdOK(G[p], c2[G[p].file])
  <2>1. PICK d \in Fds : d = F[p] /\ G[p] = UncleanFd(d)
    BY <1>2 DEF FilesOK
  <2>2. CASE d = L!Closed
    BY <2>1, <2>2, ClosedIs
  <2>3. CASE d # L!Closed
    <3>1. d.file \in L!Names /\ d.sb \in M /\ FdOK(d, c[d.file])
      BY <2>1, <2>3 DEF FilesOK
    <3>2. /\ UncleanFd(d) \in Fds /\ FdOK(UncleanFd(d), c2[d.file])
          /\ UncleanFd(d).file = d.file /\ UncleanFd(d).sb = d.sb
      BY <3>1, FdDisturbed
    <3> QED
      BY <2>1, <3>1, <3>2
  <2> QED
    BY <2>2, <2>3
<1>4. G \in [procs -> Fds]
  BY <1>2, <1>3
<1>5. FilesOK(procs, M \cup {s}, c2, G)
  BY <1>1, <1>3, <1>4 DEF FilesOK
<1> QED
  BY <1>1, <1>2, <1>5

\* A super block that nobody has a file of may go.
LEMMA FilesUnmount ==
  ASSUME NEW procs, NEW M, NEW c, NEW F, FilesOK(procs, M, c, F), NEW N,
         \A p \in procs : F[p] = L!Closed \/ (F[p].sb \in M => F[p].sb \in N)
  PROVE  FilesOK(procs, N, c, F)
BY DEF FilesOK

\* Without a mount there is no file, and the counters may start again.
LEMMA FilesFresh ==
  ASSUME NEW procs, NEW c, NEW F, FilesOK(procs, {}, c, F)
  PROVE  FilesOK(procs, {}, [f \in L!Names |-> 0], F)
BY DEF FilesOK

\* What the files promise.
LEMMA FilesWhole ==
  ASSUME NEW procs, NEW M, NEW c, NEW F, FilesOK(procs, M, c, F), NEW p \in procs, F[p].clean
  PROVE  \E x \in 0 .. Len(L!Text(F[p].first)) :
           F[p].seen = SubSeq(L!Text(F[p].first), 1, x)
<1>1. F[p] # L!Closed
  BY DEF L!Closed
<1>2. F[p] \in Fds /\ FdOK(F[p], c[F[p].file])
  BY <1>1 DEF FilesOK
<1>3. F[p].offset \in 0 .. Len(L!Text(F[p].first))
  <2>1. L!Text(F[p].first) \in Seq(Char)
    BY <1>2, TextIs DEF Fds
  <2>2. F[p].offset \in Nat /\ Len(L!Text(F[p].first)) \in Nat
    BY <1>2, <2>1 DEF Fds
  <2> QED
    BY <1>2, <2>2 DEF FdOK
<1> QED
  BY <1>2, <1>3 DEF FdOK

\* lwnfs.c: its descriptors and counters.
LwnfsFilesOK ==
  /\ lmounted \subseteq Supers /\ (~lloaded => lmounted = {})
  /\ FilesOK(LwnfsProcs, lmounted, lcounter, lfd)

\* lfs_read_file(), from its load to its return, keeps every open file
\* right.
LEMMA LwnfsReads ==
  ASSUME LwnfsFilesOK, NEW p \in LwnfsProcs, NEW x \in {1, 20}, NEW copied \in BOOLEAN,
         L!ReadRest(p, x, copied)
  PROVE  FilesOK(LwnfsProcs, lmounted, lcounter', lfd')
<1>1. PICK d : d = lfd[p]
  OBVIOUS
<1>2. x \in Nat /\ d.loaded
  BY <1>1 DEF L!ReadRest
<1>3. FilesOK(LwnfsProcs, lmounted,
              [lcounter EXCEPT ![d.file] =
                 IF d.offset > 0 THEN lcounter[d.file] ELSE lcounter[d.file] + 1],
              [(IF d.offset > 0 THEN lfd ELSE Disturbed(LwnfsProcs, lfd, p, d.file)) EXCEPT
                 ![p] = RestFd(d, x, copied)])
  BY <1>1, <1>2, FilesRest DEF LwnfsFilesOK
<1>4. L!Disturb(p, d.file) = Disturbed(LwnfsProcs, lfd, p, d.file)
  BY DEF L!Disturb, Disturbed, UncleanFd
<1>5. lcounter' = [lcounter EXCEPT ![d.file] =
                     IF d.offset > 0 THEN lcounter[d.file] ELSE lcounter[d.file] + 1]
  BY <1>1 DEF L!ReadRest, L!Counted
<1>6. lfd' = [(IF d.offset > 0 THEN lfd ELSE L!Disturb(p, d.file)) EXCEPT
                ![p] = RestFd(d, x, copied)]
  BY <1>1 DEF L!ReadRest, RestFd, GotFd, L!Shown
<1> QED
  BY <1>3, <1>4, <1>5, <1>6

\* So do close, the load of a read and lfs_write_file().
LEMMA LwnfsFileOps ==
  ASSUME LwnfsFilesOK, NEW p \in LwnfsProcs,
         \/ L!Close(p) \/ L!ReadLoad(p)
         \/ \E x \in {1, 20}, copied \in BOOLEAN : L!ReadRest(p, x, copied)
         \/ \E w \in LwnfsWritten : L!Write(p, w)
  PROVE  FilesOK(LwnfsProcs, lmounted, lcounter', lfd')
<1>1. CASE L!Close(p)
  BY <1>1, FilesClose DEF LwnfsFilesOK, L!Close
<1>2. CASE L!ReadLoad(p)
  <2>1. lfd' = [lfd EXCEPT ![p] = LoadedFd(lfd[p], lcounter[lfd[p].file])]
    BY <1>2 DEF L!ReadLoad, LoadedFd
  <2>2. lfd[p] # L!Closed /\ ~lfd[p].loaded /\ lcounter' = lcounter
    BY <1>2 DEF L!ReadLoad
  <2> QED
    BY <2>1, <2>2, FilesLoad DEF LwnfsFilesOK
<1>3. CASE \E x \in {1, 20}, copied \in BOOLEAN : L!ReadRest(p, x, copied)
  BY <1>3, LwnfsReads
<1>4. ASSUME NEW w \in LwnfsWritten, L!Write(p, w)
      PROVE  FilesOK(LwnfsProcs, lmounted, lcounter', lfd')
  <2>1. w \in Int
    BY NumbersAssumption
  <2>2. lfd[p] # L!Closed /\ ~lfd[p].loaded /\ lfd[p].offset = 0
          /\ lcounter' = [lcounter EXCEPT ![lfd[p].file] = w]
    BY <1>4 DEF L!Write
  <2>3. lfd' = Disturbed(LwnfsProcs, lfd, p, lfd[p].file)
    BY <1>4 DEF L!Write, L!Disturb, Disturbed, UncleanFd
  <2> QED
    BY <2>1, <2>2, <2>3, FilesWrite DEF LwnfsFilesOK
<1> QED
  BY <1>1, <1>2, <1>3, <1>4

\* file.c: its descriptors and counters.
JifsFilesOK ==
  /\ users \in [Supers -> 0 .. 2] /\ (~jloaded => Mounted = {})
  /\ FilesOK(JifsProcs, Mounted, jcounter, jfd)

\* The same of the read of JIFS' counter files.
LEMMA JifsReads ==
  ASSUME JifsFilesOK, NEW p \in JifsProcs, NEW x \in {1, 20}, NEW copied \in BOOLEAN,
         J!ReadRest(p, x, copied)
  PROVE  FilesOK(JifsProcs, Mounted, jcounter', jfd')
<1>1. PICK d : d = jfd[p]
  OBVIOUS
<1>2. x \in Nat /\ d.loaded
  BY <1>1 DEF J!ReadRest
<1>3. FilesOK(JifsProcs, Mounted,
              [jcounter EXCEPT ![d.file] =
                 IF d.offset > 0 THEN jcounter[d.file] ELSE jcounter[d.file] + 1],
              [(IF d.offset > 0 THEN jfd ELSE Disturbed(JifsProcs, jfd, p, d.file)) EXCEPT
                 ![p] = RestFd(d, x, copied)])
  BY <1>1, <1>2, FilesRest DEF JifsFilesOK
<1>4. J!Disturb(p, d.file) = Disturbed(JifsProcs, jfd, p, d.file)
  BY DEF J!Disturb, Disturbed, UncleanFd
<1>5. jcounter' = [jcounter EXCEPT ![d.file] =
                     IF d.offset > 0 THEN jcounter[d.file] ELSE jcounter[d.file] + 1]
  BY <1>1 DEF J!ReadRest, J!Counted
<1>6. jfd' = [(IF d.offset > 0 THEN jfd ELSE J!Disturb(p, d.file)) EXCEPT
                ![p] = RestFd(d, x, copied)]
  BY <1>1, SameText DEF J!ReadRest, RestFd, GotFd, J!Shown, L!Shown
<1> QED
  BY <1>3, <1>4, <1>5, <1>6

\* The same of their close, load and write.
LEMMA JifsFileOps ==
  ASSUME JifsFilesOK, NEW p \in JifsProcs,
         \/ J!Close(p) \/ J!ReadLoad(p)
         \/ \E x \in {1, 20}, copied \in BOOLEAN : J!ReadRest(p, x, copied)
         \/ \E w \in JifsWritten : J!Write(p, w)
  PROVE  FilesOK(JifsProcs, Mounted, jcounter', jfd')
<1>1. CASE J!Close(p)
  BY <1>1, FilesClose DEF JifsFilesOK, J!Close, J!Closed, L!Closed
<1>2. CASE J!ReadLoad(p)
  <2>1. jfd' = [jfd EXCEPT ![p] = LoadedFd(jfd[p], jcounter[jfd[p].file])]
    BY <1>2 DEF J!ReadLoad, LoadedFd
  <2>2. jfd[p] # L!Closed /\ ~jfd[p].loaded /\ jcounter' = jcounter
    BY <1>2 DEF J!ReadLoad, J!Closed, L!Closed
  <2> QED
    BY <2>1, <2>2, FilesLoad DEF JifsFilesOK
<1>3. CASE \E x \in {1, 20}, copied \in BOOLEAN : J!ReadRest(p, x, copied)
  BY <1>3, JifsReads
<1>4. ASSUME NEW w \in JifsWritten, J!Write(p, w)
      PROVE  FilesOK(JifsProcs, Mounted, jcounter', jfd')
  <2>1. w \in Int
    BY NumbersAssumption
  <2>2. jfd[p] # L!Closed /\ ~jfd[p].loaded /\ jfd[p].offset = 0
          /\ jcounter' = [jcounter EXCEPT ![jfd[p].file] = w]
    BY <1>4 DEF J!Write, J!Closed, L!Closed
  <2>3. jfd' = Disturbed(JifsProcs, jfd, p, jfd[p].file)
    BY <1>4 DEF J!Write, J!Disturb, Disturbed, UncleanFd
  <2> QED
    BY <2>1, <2>2, <2>3, FilesWrite DEF JifsFilesOK
<1> QED
  BY <1>1, <1>2, <1>3, <1>4

\* The module is loaded while something is mounted, so what sets the counters
\* under the readers is a mount, which disturbs them.
LEMMA LwnfsFilesStep == LwnfsFilesOK /\ L!Next => LwnfsFilesOK'
<1> SUFFICES ASSUME LwnfsFilesOK, L!Next
             PROVE  LwnfsFilesOK'
  OBVIOUS
<1>1. FilesOK(LwnfsProcs, lmounted, lcounter, lfd)
  BY DEF LwnfsFilesOK
<1>2. CASE L!Load
  <2>1. lmounted = {} /\ lcounter' = [f \in L!Names |-> 0] /\ lfd' = lfd /\ lmounted' = lmounted
    BY <1>2 DEF L!Load, LwnfsFilesOK
  <2>2. FilesOK(LwnfsProcs, {}, [f \in L!Names |-> 0], lfd)
    BY <1>1, <2>1, FilesFresh
  <2> QED
    BY <2>1, <2>2 DEF LwnfsFilesOK
<1>3. CASE L!Unload
  BY <1>3 DEF L!Unload, L!fileVars, LwnfsFilesOK
<1>4. ASSUME NEW s \in Supers, NEW lost \in L!Failures, L!Mount(s, lost)
      PROVE  LwnfsFilesOK'
  <2>1. FilesOK(LwnfsProcs, lmounted \cup {s}, [f \in L!Names |-> 0],
                [p \in LwnfsProcs |-> UncleanFd(lfd[p])])
    BY <1>1, FilesMount
  <2>2. lfd' = [p \in LwnfsProcs |-> UncleanFd(lfd[p])]
    BY <1>4 DEF L!Mount, UncleanFd
  <2>3. /\ lcounter' = [f \in L!Names |-> 0] /\ lmounted' = lmounted \cup {s}
        /\ lloaded /\ lloaded' = lloaded
    BY <1>4 DEF L!Mount
  <2> QED
    BY <2>1, <2>2, <2>3 DEF LwnfsFilesOK
<1>5. ASSUME NEW s \in Supers, NEW lost \in L!Failures, L!MountFails(s, lost)
      PROVE  LwnfsFilesOK'
  BY <1>5 DEF L!MountFails, L!fileVars, LwnfsFilesOK
<1>6. ASSUME NEW s \in Supers, L!Unmount(s)
      PROVE  LwnfsFilesOK'
  <2>1. /\ lmounted' = lmounted \ {s} /\ lcounter' = lcounter /\ lfd' = lfd
        /\ lloaded' = lloaded
        /\ \A p \in LwnfsProcs : lfd[p] = L!Closed \/ lfd[p].sb # s
    BY <1>6 DEF L!Unmount, L!fileVars
  <2>2. FilesOK(LwnfsProcs, lmounted \ {s}, lcounter, lfd)
    BY <1>1, <2>1, FilesUnmount
  <2> QED
    BY <2>1, <2>2 DEF LwnfsFilesOK
<1>7. ASSUME NEW s \in Supers, NEW p \in LwnfsProcs, L!lfs_open(p, s)
      PROVE  LwnfsFilesOK'
  <2>1. PICK f \in L!Names : L!Open(p, f, s)
    BY <1>7 DEF L!lfs_open
  <2>2. FilesOK(LwnfsProcs, lmounted, lcounter,
                [lfd EXCEPT ![p] = [L!Closed EXCEPT !.file = f, !.sb = s]])
    BY <1>1, <1>7, FilesOpen DEF L!lfs_open, LwnfsFilesOK
  <2> QED
    BY <1>7, <2>1, <2>2 DEF L!lfs_open, L!Open, LwnfsFilesOK
<1>8. CASE L!FileOps /\ UNCHANGED <<lmounted, lobjects, lstray, lloaded, lfault>>
  <2>1. FilesOK(LwnfsProcs, lmounted, lcounter', lfd')
    BY <1>8, LwnfsFileOps DEF L!FileOps
  <2> QED
    BY <1>8, <2>1 DEF LwnfsFilesOK
<1> QED
  BY <1>2, <1>3, <1>4, <1>5, <1>6, <1>7, <1>8 DEF L!Next

\* Every step of JIFS keeps its open files right, mounts and unmounts too.
LEMMA JifsFilesStep == JifsFilesOK /\ J!Next => JifsFilesOK'
<1> SUFFICES ASSUME JifsFilesOK, J!Next
             PROVE  JifsFilesOK'
  OBVIOUS
<1>1. FilesOK(JifsProcs, Mounted, jcounter, jfd)
  BY DEF JifsFilesOK
<1>2. CASE J!Load
  <2>1. /\ Mounted = {} /\ jfd' = jfd /\ users' = users /\ Mounted' = Mounted
        /\ jcounter' = [f \in L!Names |-> 0] \/ jcounter' = jcounter
    BY <1>2 DEF J!Load, J!Names, L!Names, JifsFilesOK, Mounted
  <2>2. FilesOK(JifsProcs, {}, [f \in L!Names |-> 0], jfd)
    BY <1>1, <2>1, FilesFresh
  <2>3. FilesOK(JifsProcs, {}, jcounter, jfd)
    BY <1>1, <2>1
  <2> QED
    BY <2>1, <2>2, <2>3 DEF JifsFilesOK
<1>3. CASE J!Unload
  <2>1. Mounted' = Mounted /\ Mounted = {}
    BY <1>3 DEF J!Unload, Mounted, JifsFilesOK
  <2> QED
    BY <1>3, <2>1 DEF J!Unload, J!fileVars, JifsFilesOK
<1>4. ASSUME NEW s \in Supers, NEW opts \in J!Options, NEW lost \in J!Failures,
             J!Mount(s, opts, lost)
      PROVE  JifsFilesOK'
  <2>1. FilesOK(JifsProcs, Mounted \cup {s}, [f \in L!Names |-> 0],
                [p \in JifsProcs |-> UncleanFd(jfd[p])])
    BY <1>1, FilesMount
  <2>2. jfd' = [p \in JifsProcs |-> UncleanFd(jfd[p])]
    BY <1>4 DEF J!Mount, UncleanFd
  <2>3. /\ jcounter' = [f \in L!Names |-> 0] /\ users' = [users EXCEPT ![s] = 1]
        /\ jloaded /\ jloaded' = jloaded
    BY <1>4 DEF J!Mount, J!Names, L!Names
  <2>4. users' \in [Supers -> 0 .. 2] /\ Mounted' = Mounted \cup {s}
    BY <2>3 DEF JifsFilesOK, Mounted
  <2> QED
    BY <2>1, <2>2, <2>3, <2>4 DEF JifsFilesOK
<1>5. CASE UNCHANGED <<jcounter, jfd, users, jloaded>>
  <2>1. Mounted' = Mounted
    BY <1>5 DEF Mounted
  <2> QED
    BY <1>5, <2>1 DEF JifsFilesOK
<1>6. ASSUME NEW s \in Supers, J!MountAgain(s)
      PROVE  JifsFilesOK'
  <2>1. /\ users[s] = 1 /\ users' = [users EXCEPT ![s] = 2]
        /\ jcounter' = jcounter /\ jfd' = jfd /\ jloaded' = jloaded
    BY <1>6 DEF J!MountAgain, J!fileVars
  <2>2. users' \in [Supers -> 0 .. 2] /\ Mounted' = Mounted
    BY <2>1 DEF JifsFilesOK, Mounted
  <2> QED
    BY <2>1, <2>2 DEF JifsFilesOK
<1>7. ASSUME NEW s \in Supers, J!Unmount(s)
      PROVE  JifsFilesOK'
  <2>1. /\ users[s] > 0 /\ users' = [users EXCEPT ![s] = @ - 1]
        /\ jcounter' = jcounter /\ jfd' = jfd /\ jloaded' = jloaded
        /\ \A p \in JifsProcs : jfd[p] = L!Closed \/ jfd[p].sb # s
    BY <1>7 DEF J!Unmount, J!fileVars, J!Closed, L!Closed
  <2>2. /\ users' \in [Supers -> 0 .. 2] /\ Mounted' \subseteq Mounted
        /\ Mounted \ {s} \subseteq Mounted'
    BY <2>1 DEF JifsFilesOK, Mounted
  <2>3. FilesOK(JifsProcs, Mounted', jcounter, jfd)
    BY <1>1, <2>1, <2>2, FilesUnmount
  <2> QED
    BY <2>1, <2>2, <2>3 DEF JifsFilesOK
<1>8. ASSUME NEW s \in Supers, NEW p \in JifsProcs, J!jifs_open(p, s)
      PROVE  JifsFilesOK'
  <2>1. PICK f \in L!Names : J!Open(p, f, s)
    BY <1>8 DEF J!jifs_open, J!Names, L!Names
  <2>2. Mounted \subseteq Supers /\ s \in Mounted /\ Mounted' = Mounted
    BY <1>8 DEF J!jifs_open, Mounted
  <2>3. FilesOK(JifsProcs, Mounted, jcounter,
                [jfd EXCEPT ![p] = [L!Closed EXCEPT !.file = f, !.sb = s]])
    BY <1>1, <2>2, FilesOpen
  <2>4. jfd' = [jfd EXCEPT ![p] = [L!Closed EXCEPT !.file = f, !.sb = s]]
    BY <2>1 DEF J!Open, J!Closed, L!Closed
  <2> QED
    BY <1>8, <2>1, <2>2, <2>3, <2>4 DEF J!jifs_open, J!Open, JifsFilesOK
<1>9. ASSUME NEW p \in JifsProcs,
             J!jifs_read_file(p) \/ J!jifs_write_file(p) \/ J!jifs_release(p)
      PROVE  JifsFilesOK'
  <2>1. FilesOK(JifsProcs, Mounted, jcounter', jfd')
    BY <1>9, JifsFileOps DEF J!jifs_read_file, J!jifs_write_file, J!jifs_release
  <2>2. users' = users /\ jloaded' = jloaded /\ Mounted' = Mounted
    BY <1>9 DEF J!jifs_read_file, J!jifs_write_file, J!jifs_release, Mounted
  <2> QED
    BY <2>1, <2>2 DEF JifsFilesOK
<1>10. ASSUME NEW s \in Supers, NEW opts \in J!Options, NEW lost \in J!Failures,
              J!MountFails(s, opts, lost)
       PROVE  JifsFilesOK'
  BY <1>10, <1>5 DEF J!MountFails, J!fileVars
<1>11. CASE J!jifs_i_callback
  BY <1>11, <1>5 DEF J!jifs_i_callback, J!fileVars
<1> QED
  BY <1>2, <1>3, <1>4, <1>6, <1>7, <1>8, <1>9, <1>10, <1>11 DEF J!Next

\* However readers, writers, mounts and unmounts interleave, a process that
\* reads a counter file in pieces while nobody else changes the counter gets
\* the text of one value, in any base, for any processes, super blocks and
\* numbers written: lfs_read_file() and jifs_read_file() take back the count
\* that the read of the first piece added.
THEOREM ReadsTheorem == Spec => []UndisturbedReadsWhole
<1>1. Init => LwnfsFilesOK /\ JifsFilesOK
  <2> SUFFICES ASSUME Init
               PROVE  LwnfsFilesOK /\ JifsFilesOK
    OBVIOUS
  <2>1. [f \in L!Names |-> 0] \in [L!Names -> Int]
    OBVIOUS
  <2>2. ASSUME NEW procs
        PROVE  FilesOK(procs, {}, [f \in L!Names |-> 0], [p \in procs |-> L!Closed])
    BY <2>1, ClosedIs DEF FilesOK
  <2>3. LwnfsFilesOK
    BY <2>2 DEF Init, L!Init, L!FileInit, LwnfsFilesOK
  <2>4. Mounted = {} /\ users \in [Supers -> 0 .. 2]
    BY DEF Init, J!Init, Mounted
  <2>5. jcounter = [f \in L!Names |-> 0] /\ jfd = [p \in JifsProcs |-> L!Closed]
    BY DEF Init, J!Init, J!FileInit, J!Names, L!Names, J!Closed, L!Closed
  <2>6. JifsFilesOK
    BY <2>2, <2>4, <2>5 DEF JifsFilesOK
  <2> QED
    BY <2>3, <2>6
<1>2. LwnfsFilesOK /\ JifsFilesOK /\ [Next]_vars => (LwnfsFilesOK /\ JifsFilesOK)'
  <2>1. LwnfsFilesOK /\ UNCHANGED lwnfsVars => LwnfsFilesOK'
    BY DEF LwnfsFilesOK, lwnfsVars
  <2>2. JifsFilesOK /\ UNCHANGED jifsVars => JifsFilesOK'
    BY DEF JifsFilesOK, jifsVars, Mounted
  <2>3. [Next]_vars => /\ L!Next \/ UNCHANGED lwnfsVars
                       /\ J!Next \/ UNCHANGED jifsVars
    BY DEF Next, vars
  <2> QED
    BY <2>1, <2>2, <2>3, LwnfsFilesStep, JifsFilesStep
<1>3. LwnfsFilesOK /\ JifsFilesOK => UndisturbedReadsWhole
  <2>1. LwnfsFilesOK => L!UndisturbedReadsWhole
    BY FilesWhole DEF LwnfsFilesOK, L!UndisturbedReadsWhole
  <2>2. JifsFilesOK => J!UndisturbedReadsWhole
    BY FilesWhole, SameText DEF JifsFilesOK, J!UndisturbedReadsWhole
  <2> QED
    BY <2>1, <2>2 DEF UndisturbedReadsWhole
<1> QED
  BY <1>1, <1>2, <1>3, PTL DEF Spec
----------------------------------------------------------------------------
(***************************************************************************)
(* Lists and ChainingHash, for any heads and nodes, any keys and a table   *)
(* of any size.  ListsExact follows pointers.  The inductive invariant     *)
(* says what they are: the cells of a list, numbered around from its head, *)
(* point at each other in both directions, and every operation is a Put, a *)
(* Cut or a Splice of the numbering.  An hlist is a chain of places that   *)
(* hold a node, each node's pprev the place that holds it.  A bucket of    *)
(* hash.c is a ring, like a list, of nodes whose keys have the bucket's    *)
(* hash code.                                                              *)
(***************************************************************************)

(* list.h: rings                                                           *)

\* The cells of a list in turn: the head at 0, the entries, the head again.
Cell(h, s, i) == IF i \in 1 .. Len(s) THEN s[i] ELSE h

\* The entries of a list are distinct cells, none of them its head.
Plain(C, h, s) ==
  /\ h \in C /\ s \in Seq(C)
  /\ \A i, j \in 1 .. Len(s) : s[i] = s[j] => i = j
  /\ \A i \in 1 .. Len(s) : s[i] # h

\* N and B, the next and prev of a heap, link them both ways.
Ring(N, B, h, s) ==
  \A i \in 0 .. Len(s) : /\ N[Cell(h, s, i)] = Cell(h, s, i + 1)
                         /\ B[Cell(h, s, i + 1)] = Cell(h, s, i)

\* What __list_add of x between p and q does to next and prev, and what
\* __list_del does that takes x out from between them.
Inserted(C, N, B, N2, B2, p, x, q) ==
  /\ \A c \in C : N2[c] = IF c = p THEN x ELSE IF c = x THEN q ELSE N[c]
  /\ \A c \in C : B2[c] = IF c = q THEN x ELSE IF c = x THEN p ELSE B[c]
Bypassed(C, N, B, N2, B2, p, x, q) ==
  \A c \in C \ {x} : /\ N2[c] = IF c = p THEN q ELSE N[c]
                     /\ B2[c] = IF c = q THEN p ELSE B[c]

\* A sequence with x behind its first j elements, or without the j-th.
Put(s, j, x) ==
  [i \in 1 .. Len(s) + 1 |-> IF i <= j THEN s[i] ELSE IF i = j + 1 THEN x ELSE s[i - 1]]
Cut(s, j) == [i \in 1 .. Len(s) - 1 |-> IF i < j THEN s[i] ELSE s[i + 1]]

\* The cells of a list are different, but for the head, which is met twice.
LEMMA CellIs ==
  ASSUME NEW C, NEW h, NEW s, Plain(C, h, s)
  PROVE  /\ Len(s) \in Nat
         /\ \A i \in 0 .. Len(s) + 1 : Cell(h, s, i) \in C
         /\ \A i, j \in 0 .. Len(s) : Cell(h, s, i) = Cell(h, s, j) => i = j
         /\ \A i, j \in 1 .. Len(s) + 1 : Cell(h, s, i) = Cell(h, s, j) => i = j
         /\ Cell(h, s, 0) = h /\ Cell(h, s, Len(s) + 1) = h
<1>1. Len(s) \in Nat /\ \A i \in 1 .. Len(s) : s[i] \in C
  BY DEF Plain
<1> QED
  BY <1>1 DEF Plain, Cell

\* What Put makes of a sequence.
LEMMA PutIs ==
  ASSUME NEW C, NEW s \in Seq(C), NEW j \in 0 .. Len(s), NEW x \in C
  PROVE  /\ Put(s, j, x) \in Seq(C) /\ Len(Put(s, j, x)) = Len(s) + 1
         /\ \A i \in 1 .. Len(s) + 1 :
              Put(s, j, x)[i] = IF i <= j THEN s[i] ELSE IF i = j + 1 THEN x ELSE s[i - 1]
<1>1. PICK k \in Nat : k = Len(s)
  OBVIOUS
<1>2. \A i \in 1 .. k : s[i] \in C
  BY <1>1
<1>3. Put(s, j, x) \in [1 .. k + 1 -> C]
  BY <1>1, <1>2 DEF Put
<1> QED
  BY <1>1, <1>3 DEF Put

\* What Cut makes of a sequence.
LEMMA CutIs ==
  ASSUME NEW C, NEW s \in Seq(C), NEW j \in 1 .. Len(s)
  PROVE  /\ Cut(s, j) \in Seq(C) /\ Len(Cut(s, j)) = Len(s) - 1
         /\ \A i \in 1 .. Len(s) - 1 : Cut(s, j)[i] = IF i < j THEN s[i] ELSE s[i + 1]
<1>1. PICK k \in Nat : k = Len(s) - 1
  OBVIOUS
<1>2. \A i \in 1 .. k + 1 : s[i] \in C
  BY <1>1
<1>3. Cut(s, j) \in [1 .. k -> C]
  BY <1>1, <1>2 DEF Cut
<1> QED
  BY <1>1, <1>3 DEF Cut

\* The length of a Put.
LEMMA PutSeq ==
  ASSUME NEW C, NEW s \in Seq(C), NEW j \in 0 .. Len(s), NEW x \in C
  PROVE  Put(s, j, x) \in Seq(C) /\ Len(Put(s, j, x)) = Len(s) + 1
BY PutIs

\* The length of a Cut.
LEMMA CutSeq ==
  ASSUME NEW C, NEW s \in Seq(C), NEW j \in 1 .. Len(s)
  PROVE  Cut(s, j) \in Seq(C) /\ Len(Cut(s, j)) = Len(s) - 1
BY CutIs

\* The elements they have.
LEMMA PutHas ==
  ASSUME NEW C, NEW s \in Seq(C), NEW j \in 0 .. Len(s), NEW x \in C,
         NEW i \in 1 .. Len(s) + 1
  PROVE  Put(s, j, x)[i] = x \/ \E k \in 1 .. Len(s) : Put(s, j, x)[i] = s[k]
<1>1. Put(s, j, x)[i] = IF i <= j THEN s[i] ELSE IF i = j + 1 THEN x ELSE s[i - 1]
  BY DEF Put
<1>2. Len(s) \in Nat
  OBVIOUS
<1>3. CASE i <= j
  BY <1>1, <1>2, <1>3
<1>4. CASE i = j + 1
  BY <1>1, <1>2, <1>4
<1>5. CASE i > j + 1
  <2>1. i - 1 \in 1 .. Len(s)
    BY <1>1, <1>2, <1>5
  <2> QED
    BY <1>1, <1>2, <1>5, <2>1
<1> QED
  BY <1>1, <1>2, <1>3, <1>4, <1>5

\* A Cut has only elements that were there.
LEMMA CutHas ==
  ASSUME NEW C, NEW s \in Seq(C), NEW j \in 1 .. Len(s), NEW i \in 1 .. Len(Cut(s, j))
  PROVE  \E k \in 1 .. Len(s) : Cut(s, j)[i] = s[k]
<1>1. /\ Len(Cut(s, j)) = Len(s) - 1
      /\ \A k \in 1 .. Len(s) - 1 : Cut(s, j)[k] = IF k < j THEN s[k] ELSE s[k + 1]
  BY CutIs
<1>2. Len(s) \in Nat
  OBVIOUS
<1>3. CASE i < j
  BY <1>1, <1>2, <1>3
<1>4. CASE i >= j
  <2>1. i + 1 \in 1 .. Len(s)
    BY <1>1, <1>2
  <2> QED
    BY <1>1, <1>2, <1>4, <2>1
<1> QED
  BY <1>1, <1>2, <1>3, <1>4

\* They keep the elements distinct.
LEMMA PutDistinct ==
  ASSUME NEW C, NEW s \in Seq(C), \A i, k \in 1 .. Len(s) : s[i] = s[k] => i = k,
         NEW j \in 0 .. Len(s), NEW x \in C, \A i \in 1 .. Len(s) : s[i] # x
  PROVE  \A i, k \in 1 .. Len(s) + 1 : Put(s, j, x)[i] = Put(s, j, x)[k] => i = k
<1>1. Len(s) \in Nat
  OBVIOUS
<1>2. \A i \in 1 .. Len(s) + 1 :
        Put(s, j, x)[i] = IF i <= j THEN s[i] ELSE IF i = j + 1 THEN x ELSE s[i - 1]
  BY DEF Put
<1>3. ASSUME NEW y \in 1 .. Len(s) + 1, y # j + 1
      PROVE  \E z \in 1 .. Len(s) : Put(s, j, x)[y] = s[z] /\ z = IF y <= j THEN y ELSE y - 1
  <2>1. CASE y <= j
    BY <1>1, <1>2, <2>1
  <2>2. CASE ~ (y <= j)
    <3>1. PICK z \in 1 .. Len(s) : z = y - 1
      BY <1>1, <1>3, <2>2
    <3> QED
      BY <1>1, <1>2, <1>3, <2>2, <3>1
  <2> QED
    BY <2>1, <2>2
<1>4. ASSUME NEW y \in 1 .. Len(s) + 1, NEW z \in 1 .. Len(s) + 1, y < z, y # j + 1, z # j + 1,
             Put(s, j, x)[y] = Put(s, j, x)[z]
      PROVE  FALSE
  <2>1. PICK u \in 1 .. Len(s) : Put(s, j, x)[y] = s[u] /\ u = IF y <= j THEN y ELSE y - 1
    BY <1>3, <1>4
  <2>2. PICK v \in 1 .. Len(s) : Put(s, j, x)[z] = s[v] /\ v = IF z <= j THEN z ELSE z - 1
    BY <1>3, <1>4
  <2>3. u = v
    BY <1>4, <2>1, <2>2
  <2>4. j \in Int /\ y \in Int /\ z \in Int
    BY <1>1
  <2> QED
    BY <1>4, <2>1, <2>2, <2>3, <2>4
<1>5. Put(s, j, x)[j + 1] = x
  BY <1>1, <1>2
<1>6. ASSUME NEW i \in 1 .. Len(s) + 1, NEW k \in 1 .. Len(s) + 1, Put(s, j, x)[i] = Put(s, j, x)[k]
      PROVE  i = k
  <2>1. j \in Int /\ i \in Int /\ k \in Int
    BY <1>1
  <2> QED
    BY <1>3, <1>4, <1>5, <1>6, <2>1
<1> QED
  BY <1>6

\* A Cut of distinct elements is distinct and without the one cut out.
LEMMA CutDistinct ==
  ASSUME NEW C, NEW s \in Seq(C), \A i, k \in 1 .. Len(s) : s[i] = s[k] => i = k,
         NEW j \in 1 .. Len(s)
  PROVE  /\ \A i, k \in 1 .. Len(s) - 1 : Cut(s, j)[i] = Cut(s, j)[k] => i = k
         /\ \A i \in 1 .. Len(s) - 1 : Cut(s, j)[i] # s[j]
<1>1. /\ Len(s) \in Nat
      /\ \A i \in 1 .. Len(s) - 1 : Cut(s, j)[i] = IF i < j THEN s[i] ELSE s[i + 1]
  BY CutIs
<1>2. ASSUME NEW i \in 1 .. Len(s) - 1, NEW k \in 1 .. Len(s) - 1, Cut(s, j)[i] = Cut(s, j)[k]
      PROVE  i = k
  BY <1>1, <1>2
<1>3. ASSUME NEW i \in 1 .. Len(s) - 1
      PROVE  Cut(s, j)[i] # s[j]
  BY <1>1
<1> QED
  BY <1>2, <1>3

\* The cells of a list after a Put.
LEMMA PutCell ==
  ASSUME NEW C, NEW h, NEW s \in Seq(C), NEW j \in 0 .. Len(s), NEW x \in C,
         NEW i \in 0 .. Len(s) + 2
  PROVE  Cell(h, Put(s, j, x), i) =
           IF i <= j THEN Cell(h, s, i) ELSE IF i = j + 1 THEN x ELSE Cell(h, s, i - 1)
<1>1. /\ Len(Put(s, j, x)) = Len(s) + 1 /\ Len(s) \in Nat
      /\ \A k \in 1 .. Len(s) + 1 :
           Put(s, j, x)[k] = IF k <= j THEN s[k] ELSE IF k = j + 1 THEN x ELSE s[k - 1]
  BY PutIs
<1> QED
  BY <1>1 DEF Cell

\* The cells of a list after a Cut.
LEMMA CutCell ==
  ASSUME NEW C, NEW h, NEW s \in Seq(C), NEW j \in 1 .. Len(s), NEW i \in 0 .. Len(s)
  PROVE  Cell(h, Cut(s, j), i) = IF i < j THEN Cell(h, s, i) ELSE Cell(h, s, i + 1)
<1>1. /\ Len(Cut(s, j)) = Len(s) - 1 /\ Len(s) \in Nat
      /\ \A k \in 1 .. Len(s) - 1 : Cut(s, j)[k] = IF k < j THEN s[k] ELSE s[k + 1]
  BY CutIs
<1> QED
  BY <1>1 DEF Cell

\* Putting a new cell into a ring: what __list_add does to next and prev.
LEMMA RingPut ==
  ASSUME NEW C, NEW h, NEW s, Plain(C, h, s), NEW N, NEW B, Ring(N, B, h, s),
         NEW j \in 0 .. Len(s), NEW x \in C, x # h, \A i \in 1 .. Len(s) : s[i] # x,
         NEW N2, NEW B2, NEW p, p = Cell(h, s, j), NEW q, q = Cell(h, s, j + 1),
         Inserted(C, N, B, N2, B2, p, x, q)
  PROVE  Ring(N2, B2, h, Put(s, j, x)) /\ Plain(C, h, Put(s, j, x))
<1>0. /\ \A c \in C : N2[c] = IF c = Cell(h, s, j) THEN x
                              ELSE IF c = x THEN Cell(h, s, j + 1) ELSE N[c]
      /\ \A c \in C : B2[c] = IF c = Cell(h, s, j + 1) THEN x
                              ELSE IF c = x THEN Cell(h, s, j) ELSE B[c]
  BY DEF Inserted
<1>1. /\ Len(s) \in Nat
      /\ \A i \in 0 .. Len(s) + 1 : Cell(h, s, i) \in C
      /\ \A i, k \in 0 .. Len(s) : Cell(h, s, i) = Cell(h, s, k) => i = k
      /\ \A i, k \in 1 .. Len(s) + 1 : Cell(h, s, i) = Cell(h, s, k) => i = k
      /\ Cell(h, s, 0) = h /\ Cell(h, s, Len(s) + 1) = h
  BY CellIs
<1>2. \A i \in 0 .. Len(s) + 1 : Cell(h, s, i) # x
  BY DEF Cell
<1>3. /\ Put(s, j, x) \in Seq(C) /\ Len(Put(s, j, x)) = Len(s) + 1
      /\ \A i \in 1 .. Len(s) + 1 :
           Put(s, j, x)[i] = IF i <= j THEN s[i] ELSE IF i = j + 1 THEN x ELSE s[i - 1]
  BY PutIs DEF Plain
<1>4. \A i \in 0 .. Len(s) + 2 :
        Cell(h, Put(s, j, x), i) =
          IF i <= j THEN Cell(h, s, i) ELSE IF i = j + 1 THEN x ELSE Cell(h, s, i - 1)
  BY PutCell DEF Plain
<1>5. \A i \in 0 .. Len(s) : N[Cell(h, s, i)] = Cell(h, s, i + 1)
                             /\ B[Cell(h, s, i + 1)] = Cell(h, s, i)
  BY DEF Ring
<1>6. Plain(C, h, Put(s, j, x))
  <2>1. /\ h \in C /\ s \in Seq(C)
        /\ \A i, k \in 1 .. Len(s) : s[i] = s[k] => i = k
        /\ \A i \in 1 .. Len(s) : s[i] # h
    BY DEF Plain
  <2>2. \A i, k \in 1 .. Len(s) + 1 : Put(s, j, x)[i] = Put(s, j, x)[k] => i = k
    BY <2>1, PutDistinct
  <2>3. ASSUME NEW i \in 1 .. Len(s) + 1
        PROVE  Put(s, j, x)[i] # h
    BY <1>1, <1>3, <2>1, SMTT(30)
  <2> QED
    BY <1>3, <2>1, <2>2, <2>3 DEF Plain
<1>7. ASSUME NEW i \in 0 .. Len(s) + 1
      PROVE  /\ N2[Cell(h, Put(s, j, x), i)] = Cell(h, Put(s, j, x), i + 1)
             /\ B2[Cell(h, Put(s, j, x), i + 1)] = Cell(h, Put(s, j, x), i)
  <2>1. CASE i < j
    <3>1. i \in 0 .. Len(s) /\ j # i /\ i + 1 # j + 1
      BY <1>1, <2>1
    <3>2. Cell(h, s, i) # Cell(h, s, j) /\ Cell(h, s, i + 1) # Cell(h, s, j + 1)
      BY <1>1, <3>1
    <3>3. Cell(h, Put(s, j, x), i) = Cell(h, s, i) /\ Cell(h, Put(s, j, x), i + 1) = Cell(h, s, i + 1)
      BY <1>1, <1>4, <2>1
    <3> QED
      BY <1>0, <1>1, <1>2, <1>5, <3>1, <3>2, <3>3
  <2>2. CASE i = j
    BY <1>0, <1>1, <1>2, <1>4, <2>2
  <2>3. CASE i = j + 1
    BY <1>0, <1>1, <1>2, <1>4, <2>3
  <2>4. CASE i > j + 1
    <3>1. PICK k \in 0 .. Len(s) : i = k + 1 /\ k > j
      <4>1. i - 1 \in 0 .. Len(s) /\ i = (i - 1) + 1 /\ i - 1 > j
        BY <1>1, <2>4
      <4> QED
        BY <4>1
    <3>2. Cell(h, s, k) # Cell(h, s, j) /\ Cell(h, s, k + 1) # Cell(h, s, j + 1)
      BY <1>1, <3>1
    <3>3. Cell(h, Put(s, j, x), i) = Cell(h, s, k) /\ Cell(h, Put(s, j, x), i + 1) = Cell(h, s, k + 1)
      BY <1>1, <1>4, <3>1
    <3> QED
      BY <1>0, <1>1, <1>2, <1>5, <3>1, <3>2, <3>3
  <2> QED
    BY <1>1, <2>1, <2>2, <2>3, <2>4
<1>8. Ring(N2, B2, h, Put(s, j, x))
  BY <1>1, <1>3, <1>7 DEF Ring
<1> QED
  BY <1>6, <1>8

\* Taking one out: what __list_del does to them.
LEMMA RingCut ==
  ASSUME NEW C, NEW h, NEW s, Plain(C, h, s), NEW N, NEW B, Ring(N, B, h, s),
         NEW j \in 1 .. Len(s), NEW N2, NEW B2, NEW x, x = s[j],
         NEW p, p = Cell(h, s, j - 1), NEW q, q = Cell(h, s, j + 1),
         Bypassed(C, N, B, N2, B2, p, x, q)
  PROVE  /\ Ring(N2, B2, h, Cut(s, j)) /\ Plain(C, h, Cut(s, j))
         /\ \A i \in 1 .. Len(Cut(s, j)) : Cut(s, j)[i] # x
<1>0. \A c \in C \ {s[j]} :
        /\ N2[c] = IF c = Cell(h, s, j - 1) THEN Cell(h, s, j + 1) ELSE N[c]
        /\ B2[c] = IF c = Cell(h, s, j + 1) THEN Cell(h, s, j - 1) ELSE B[c]
  BY DEF Bypassed
<1>1. /\ Len(s) \in Nat
      /\ \A i \in 0 .. Len(s) + 1 : Cell(h, s, i) \in C
      /\ \A i, k \in 0 .. Len(s) : Cell(h, s, i) = Cell(h, s, k) => i = k
      /\ \A i, k \in 1 .. Len(s) + 1 : Cell(h, s, i) = Cell(h, s, k) => i = k
      /\ Cell(h, s, 0) = h /\ Cell(h, s, Len(s) + 1) = h
  BY CellIs
<1>2. Cell(h, s, j) = s[j]
  BY DEF Cell
<1>3. /\ Cut(s, j) \in Seq(C) /\ Len(Cut(s, j)) = Len(s) - 1
      /\ \A i \in 1 .. Len(s) - 1 : Cut(s, j)[i] = IF i < j THEN s[i] ELSE s[i + 1]
  BY CutIs DEF Plain
<1>4. \A i \in 0 .. Len(s) :
        Cell(h, Cut(s, j), i) = IF i < j THEN Cell(h, s, i) ELSE Cell(h, s, i + 1)
  BY CutCell DEF Plain
<1>5. \A i \in 0 .. Len(s) : N[Cell(h, s, i)] = Cell(h, s, i + 1)
                             /\ B[Cell(h, s, i + 1)] = Cell(h, s, i)
  BY DEF Ring
<1>6. Plain(C, h, Cut(s, j)) /\ \A i \in 1 .. Len(Cut(s, j)) : Cut(s, j)[i] # s[j]
  <2>1. /\ h \in C /\ s \in Seq(C)
        /\ \A i, k \in 1 .. Len(s) : s[i] = s[k] => i = k
        /\ \A i \in 1 .. Len(s) : s[i] # h
    BY DEF Plain
  <2>2. ASSUME NEW i \in 1 .. Len(s) - 1, NEW k \in 1 .. Len(s) - 1, Cut(s, j)[i] = Cut(s, j)[k]
        PROVE  i = k
    BY <1>1, <1>3, <2>1, <2>2, SMTT(30)
  <2>3. ASSUME NEW i \in 1 .. Len(s) - 1
        PROVE  Cut(s, j)[i] # h /\ Cut(s, j)[i] # s[j]
    BY <1>1, <1>3, <2>1, SMTT(30)
  <2> QED
    BY <1>3, <2>1, <2>2, <2>3 DEF Plain
<1>7. ASSUME NEW i \in 0 .. Len(s) - 1
      PROVE  /\ N2[Cell(h, Cut(s, j), i)] = Cell(h, Cut(s, j), i + 1)
             /\ B2[Cell(h, Cut(s, j), i + 1)] = Cell(h, Cut(s, j), i)
  <2>1. CASE i < j - 1
    <3>1. /\ Cell(h, s, i) # Cell(h, s, j - 1) /\ Cell(h, s, i) # s[j]
          /\ Cell(h, s, i + 1) # Cell(h, s, j + 1) /\ Cell(h, s, i + 1) # s[j]
      BY <1>1, <1>2, <2>1
    <3>2. Cell(h, Cut(s, j), i) = Cell(h, s, i) /\ Cell(h, Cut(s, j), i + 1) = Cell(h, s, i + 1)
      BY <1>1, <1>4, <2>1
    <3>3. i \in 0 .. Len(s) /\ Cell(h, s, i) \in C /\ Cell(h, s, i + 1) \in C
      BY <1>1
    <3>4. N[Cell(h, s, i)] = Cell(h, s, i + 1) /\ B[Cell(h, s, i + 1)] = Cell(h, s, i)
      BY <1>5, <3>3
    <3> QED
      BY <1>0, <3>1, <3>2, <3>3, <3>4
  <2>2. CASE i = j - 1
    <3>1. Cell(h, s, j - 1) # s[j] /\ Cell(h, s, j + 1) # s[j]
      BY <1>1, <1>2
    <3>2. Cell(h, Cut(s, j), i) = Cell(h, s, j - 1) /\ Cell(h, Cut(s, j), i + 1) = Cell(h, s, j + 1)
      BY <1>1, <1>4, <2>2
    <3> QED
      BY <1>0, <1>1, <3>1, <3>2
  <2>3. CASE i > j - 1
    <3>1. /\ Cell(h, s, i + 1) # Cell(h, s, j - 1) /\ Cell(h, s, i + 1) # s[j]
          /\ Cell(h, s, i + 2) # Cell(h, s, j + 1) /\ Cell(h, s, i + 2) # s[j]
      BY <1>1, <1>2, <2>3
    <3>2. Cell(h, Cut(s, j), i) = Cell(h, s, i + 1) /\ Cell(h, Cut(s, j), i + 1) = Cell(h, s, i + 2)
      BY <1>1, <1>4, <2>3
    <3>3. i + 1 \in 0 .. Len(s) /\ (i + 1) + 1 = i + 2
      BY <1>1
    <3>4. N[Cell(h, s, i + 1)] = Cell(h, s, i + 2) /\ B[Cell(h, s, i + 2)] = Cell(h, s, i + 1)
      BY <1>5, <3>3
    <3> QED
      BY <1>0, <1>1, <3>1, <3>2, <3>3, <3>4
  <2> QED
    BY <1>1, <2>1, <2>2, <2>3
<1>8. Ring(N2, B2, h, Cut(s, j))
  BY <1>1, <1>3, <1>7 DEF Ring
<1> QED
  BY <1>6, <1>8

\* What happens to other cells leaves a ring alone.
LEMMA RingSame ==
  ASSUME NEW C, NEW h, NEW s, Plain(C, h, s), NEW N, NEW B, Ring(N, B, h, s),
         NEW N2, NEW B2, N2[h] = N[h], B2[h] = B[h],
         \A i \in 1 .. Len(s) : N2[s[i]] = N[s[i]] /\ B2[s[i]] = B[s[i]]
  PROVE  Ring(N2, B2, h, s)
<1>1. \A i \in 0 .. Len(s) + 1 : N2[Cell(h, s, i)] = N[Cell(h, s, i)]
                                 /\ B2[Cell(h, s, i)] = B[Cell(h, s, i)]
  BY DEF Cell
<1>2. Len(s) \in Nat
  BY DEF Plain
<1> QED
  BY <1>1, <1>2 DEF Ring

\* A ring the other way round.
Back(s) == [i \in 1 .. Len(s) |-> s[(Len(s) - i) + 1]]

\* A ring read backwards is a ring.
LEMMA RingBack ==
  ASSUME NEW C, NEW h, NEW s, Plain(C, h, s), NEW N, NEW B, Ring(N, B, h, s)
  PROVE  Ring(B, N, h, Back(s)) /\ Plain(C, h, Back(s)) /\ Len(Back(s)) = Len(s)
<1>1. PICK k \in Nat : k = Len(s)
  BY DEF Plain
<1>2. /\ h \in C /\ s \in Seq(C)
      /\ \A i, j \in 1 .. k : s[i] = s[j] => i = j
      /\ \A i \in 1 .. k : s[i] # h
  BY <1>1 DEF Plain
<1>3. \A i \in 1 .. k : s[i] \in C /\ (k - i) + 1 \in 1 .. k
  BY <1>1, <1>2
<1>4. Back(s) \in [1 .. k -> C]
  BY <1>1, <1>3 DEF Back
<1>5. Back(s) \in Seq(C) /\ Len(Back(s)) = k /\ \A i \in 1 .. k : Back(s)[i] = s[(k - i) + 1]
  BY <1>1, <1>4 DEF Back
<1>6. \A i \in 0 .. k + 1 : Cell(h, Back(s), i) = Cell(h, s, (k - i) + 1)
  BY <1>1, <1>5 DEF Cell
<1>7. Plain(C, h, Back(s))
  <2>1. ASSUME NEW i \in 1 .. k, NEW j \in 1 .. k, Back(s)[i] = Back(s)[j]
        PROVE  i = j
    <3>1. (k - i) + 1 = (k - j) + 1
      BY <1>2, <1>3, <1>5, <2>1
    <3> QED
      BY <3>1
  <2> QED
    BY <1>2, <1>3, <1>5, <2>1 DEF Plain
<1>8. ASSUME NEW i \in 0 .. k
      PROVE  /\ B[Cell(h, Back(s), i)] = Cell(h, Back(s), i + 1)
             /\ N[Cell(h, Back(s), i + 1)] = Cell(h, Back(s), i)
  <2>1. PICK j \in 0 .. k : j = k - i
    OBVIOUS
  <2>2. Cell(h, Back(s), i) = Cell(h, s, j + 1) /\ Cell(h, Back(s), i + 1) = Cell(h, s, j)
    BY <1>6, <2>1
  <2> QED
    BY <1>1, <2>2 DEF Ring
<1> QED
  BY <1>1, <1>5, <1>7, <1>8 DEF Ring

\* list_for_each from the head of a ring: after k turns it has visited the
\* first k entries, or all of them.
Visited(s, k) == SubSeq(s, 1, IF k < Len(s) THEN k ELSE Len(s))

Turn(walk, link, head, k) ==
  IF k = 0 THEN <<>>
  ELSE LET before == walk[k - 1]
           cell == IF before = <<>> THEN head ELSE before[Len(before)]
       IN  IF cell \notin DOMAIN link THEN before
           ELSE IF link[cell] = head \/ Len(before) < k - 1 THEN before
           ELSE Append(before, link[cell])

\* One turn of list_for_each comes to the next entry of the ring.
LEMMA TurnVisits ==
  ASSUME NEW C, NEW h, NEW s, Plain(C, h, s), NEW N, DOMAIN N = C, NEW B, Ring(N, B, h, s),
         NEW walk, NEW k \in Nat, k > 0 => walk[k - 1] = Visited(s, k - 1)
  PROVE  Turn(walk, N, h, k) = Visited(s, k)
<1>1. PICK l \in Nat : l = Len(s)
  BY DEF Plain
<1>2. s \in Seq(C) /\ h \in C
  BY DEF Plain
<1>3. CASE k = 0
  <2>1. Visited(s, 0) = <<>>
    BY <1>1, <1>2 DEF Visited
  <2> QED
    BY <1>3, <2>1 DEF Turn
<1>4. CASE k > 0 /\ k - 1 < l
  <2>1. PICK j \in 0 .. l - 1 : j = k - 1
    BY <1>4
  <2>2. PICK b : b = SubSeq(s, 1, j)
    OBVIOUS
  <2>3. walk[k - 1] = b
    BY <1>1, <1>4, <2>1, <2>2 DEF Visited
  <2>4. b \in Seq(C) /\ Len(b) = j /\ \A i \in 1 .. j : b[i] = s[i]
    BY <1>1, <1>2, <2>1, <2>2
  <2>5. (IF b = <<>> THEN h ELSE b[Len(b)]) = Cell(h, s, j)
    <3>1. CASE j = 0
      BY <3>1, <2>4 DEF Cell
    <3>2. CASE j # 0
      BY <3>2, <1>1, <2>1, <2>4 DEF Cell
    <3> QED
      BY <3>1, <3>2
  <2>6. N[Cell(h, s, j)] = s[k] /\ s[k] # h /\ Cell(h, s, j) \in C
    <3>1. Cell(h, s, j) \in C
      BY <1>1, CellIs
    <3>2. Cell(h, s, j + 1) = s[k] /\ s[k] # h
      BY <1>1, <1>4, <2>1 DEF Cell, Plain
    <3> QED
      BY <1>1, <3>1, <3>2 DEF Ring
  <2>7. Turn(walk, N, h, k) = Append(b, s[k])
    BY <1>4, <2>1, <2>3, <2>4, <2>5, <2>6 DEF Turn
  <2>8. Append(b, s[k]) = SubSeq(s, 1, k)
    <3>1. k \in 1 .. Len(s) /\ k - 1 = j /\ 1 \in 1 .. Len(s)
      BY <1>1, <1>4, <2>1
    <3>2. SubSeq(s, 1, k) = SubSeq(s, 1, k - 1) \o <<s[k]>>
      BY <3>1, <1>2, SubSeqRecursiveSecond
    <3>3. Append(b, s[k]) = b \o <<s[k]>>
      BY <2>4, <3>1, <1>2, AppendIsConcat
    <3> QED
      BY <2>2, <3>1, <3>2, <3>3
  <2>9. Visited(s, k) = SubSeq(s, 1, k)
    BY <1>1, <1>4 DEF Visited
  <2> QED
    BY <2>7, <2>8, <2>9
<1>5. CASE k > 0 /\ k - 1 >= l
  <2>1. SubSeq(s, 1, l) = s
    BY <1>1, <1>2, SubSeqFull
  <2>2. Visited(s, k) = s /\ walk[k - 1] = s
    BY <1>1, <1>5, <2>1 DEF Visited
  <2>3. (IF s = <<>> THEN h ELSE s[Len(s)]) = Cell(h, s, l)
    <3>1. CASE l = 0
      BY <3>1, <1>1, <1>2 DEF Cell
    <3>2. CASE l # 0
      BY <3>2, <1>1 DEF Cell
    <3> QED
      BY <3>1, <3>2
  <2>4. N[Cell(h, s, l)] = h
    BY <1>1, CellIs DEF Ring
  <2> QED
    BY <1>5, <2>2, <2>3, <2>4 DEF Turn
<1> QED
  BY <1>1, <1>3, <1>4, <1>5

\* list_for_each over a ring visits its entries in order and stops.
LEMMA WalkRing ==
  ASSUME NEW C, NEW h, NEW s, Plain(C, h, s), NEW N, DOMAIN N = C, NEW B, Ring(N, B, h, s),
         NEW bound \in Nat, Len(s) <= bound
  PROVE  Li!Walk(N, h, bound) = s
<1> DEFINE W == [k \in 0 .. bound |-> Visited(s, k)]
           D == CHOOSE D : D = [k \in 0 .. bound |-> Turn(D, N, h, k)]
<1>1. Li!Walk(N, h, bound) = D[bound]
  BY DEF Li!Walk, Turn
<1>2. \A k \in 0 .. bound : Turn(W, N, h, k) = W[k]
  <2> TAKE k \in 0 .. bound
  <2>1. k > 0 => W[k - 1] = Visited(s, k - 1)
    OBVIOUS
  <2>2. W[k] = Visited(s, k)
    OBVIOUS
  <2> HIDE DEF W
  <2> QED
    BY <2>1, <2>2, TurnVisits
<1>3. W = [k \in 0 .. bound |-> Turn(W, N, h, k)]
  <2>1. W = [k \in 0 .. bound |-> W[k]]
    OBVIOUS
  <2> HIDE DEF W
  <2> QED
    BY <1>2, <2>1
<1> HIDE DEF W
<1>4. D = [k \in 0 .. bound |-> Turn(D, N, h, k)]
  BY <1>3
<1> HIDE DEF D
<1>5. \A k \in 0 .. bound : D[k] = Turn(D, N, h, k)
  BY <1>4
<1> DEFINE T == {k \in 0 .. bound : D[k] # Visited(s, k)}
<1>6. T = {}
  <2>1. SUFFICES ASSUME T # {} PROVE FALSE
    OBVIOUS
  <2>2. PICK k \in T : \A y \in T : k <= y
    <3>1. T \subseteq Nat
      OBVIOUS
    <3> HIDE DEF T
    <3> QED
      BY <2>1, <3>1, Smallest
  <2>3. k \in Nat /\ k \in 0 .. bound /\ D[k] # Visited(s, k)
    BY <2>2
  <2>4. k > 0 => D[k - 1] = Visited(s, k - 1)
    <3>1. SUFFICES ASSUME k > 0, D[k - 1] # Visited(s, k - 1) PROVE FALSE
      OBVIOUS
    <3>2. k - 1 \in T
      BY <2>3, <3>1
    <3> HIDE DEF T
    <3> QED
      BY <2>2, <2>3, <3>2
  <2>5. Turn(D, N, h, k) = Visited(s, k)
    BY <2>3, <2>4, TurnVisits
  <2> QED
    BY <1>5, <2>3, <2>5
<1>7. D[bound] = Visited(s, bound)
  BY <1>6
<1>8. Visited(s, bound) = s
  <2>1. s \in Seq(C) /\ Len(s) \in Nat
    BY DEF Plain
  <2>2. SubSeq(s, 1, Len(s)) = s
    BY <2>1, SubSeqFull
  <2>3. (IF bound < Len(s) THEN bound ELSE Len(s)) = Len(s)
    BY <2>1
  <2> QED
    BY <2>2, <2>3 DEF Visited
<1> QED
  BY <1>1, <1>7, <1>8

\* A heap of struct list_head.
Heaps(C) == [next : [C -> C \cup {POISON}], prev : [C -> C \cup {POISON}]]

\* __list_add() links a cell in between two others.
LEMMA ListAddIs ==
  ASSUME NEW C, NEW m \in Heaps(C), NEW x \in C, NEW p \in C, NEW q \in C, x # p, x # q
  PROVE  /\ Li!ListAdd(m, x, p, q) \in Heaps(C)
         /\ Inserted(C, m.next, m.prev, Li!ListAdd(m, x, p, q).next,
                     Li!ListAdd(m, x, p, q).prev, p, x, q)
BY DEF Li!ListAdd, Heaps, Inserted

\* __list_del() links two cells around what was between them.
LEMMA ListDelIs ==
  ASSUME NEW C, NEW m \in Heaps(C), NEW p \in C, NEW q \in C, NEW x
  PROVE  /\ Li!ListDel(m, p, q) \in Heaps(C)
         /\ Bypassed(C, m.next, m.prev, Li!ListDel(m, p, q).next,
                     Li!ListDel(m, p, q).prev, p, x, q)
BY DEF Li!ListDel, Heaps, Bypassed

\* INIT_LIST_HEAD, and the poison of list_del.
LEMMA ListSetIs ==
  ASSUME NEW C, NEW m \in Heaps(C), NEW x \in C
  PROVE  /\ Li!INIT_LIST_HEAD(m, x) \in Heaps(C)
         /\ \A c \in C : /\ Li!INIT_LIST_HEAD(m, x).next[c] = IF c = x THEN x ELSE m.next[c]
                         /\ Li!INIT_LIST_HEAD(m, x).prev[c] = IF c = x THEN x ELSE m.prev[c]
BY DEF Li!INIT_LIST_HEAD, Heaps

Poisoned(m, x) == [m EXCEPT !.next[x] = POISON, !.prev[x] = POISON]

\* The poison of list_del() goes into the deleted entry only.
LEMMA PoisonIs ==
  ASSUME NEW C, NEW m \in Heaps(C), NEW x \in C
  PROVE  /\ Poisoned(m, x) \in Heaps(C)
         /\ \A c \in C \ {x} : /\ Poisoned(m, x).next[c] = m.next[c]
                               /\ Poisoned(m, x).prev[c] = m.prev[c]
BY DEF Heaps, Poisoned

----------------------------------------------------------------------------
(* list.h: the lists of the client                                         *)

Cells == Heads \cup Nodes

Use(F) == {h \in Heads : F[h] # Li!Unused}

\* The heap m has the lists F: a ring for every head in use, and no node in
\* two of them.
ListsOK(m, F) ==
  /\ m \in Heaps(Cells)
  /\ F \in [Heads -> Seq(Nodes) \cup {Li!Unused}]
  /\ \A h \in Use(F) : Plain(Cells, h, F[h]) /\ Ring(m.next, m.prev, h, F[h])
  /\ \A g, h \in Use(F) : \A i \in 1 .. Len(F[g]), j \in 1 .. Len(F[h]) :
       F[g][i] = F[h][j] => g = h

\* The list of an initialised head is a sequence of nodes.
LEMMA InUse ==
  ASSUME NEW m, NEW F, ListsOK(m, F), NEW h \in Use(F)
  PROVE  F[h] \in Seq(Nodes) /\ h \in Heads /\ h \in Cells /\ h \notin Nodes
BY ListsAssumption DEF ListsOK, Use, Cells

\* A sequence of nodes is a list of an initialised head.
LEMMA NodesUsed ==
  ASSUME NEW s \in Seq(Nodes)
  PROVE  s # Li!Unused /\ s \in Seq(Cells)
<1>1. s # Li!Unused
  <2>1. SUFFICES ASSUME s = <<POISON>> PROVE FALSE
    BY DEF Li!Unused
  <2>2. Len(s) = 1 /\ s[1] = POISON
    BY <2>1
  <2>3. s[1] \in Nodes
    BY <2>2
  <2> QED
    BY <2>2, <2>3, ListsAssumption
<1>2. s \in Seq(Cells)
  BY DEF Cells
<1> QED
  BY <1>1, <1>2

\* A step that gives the head h the list s, makes its ring, and leaves the
\* cells of the other rings alone.
LEMMA ListsChange ==
  ASSUME NEW m, NEW F, ListsOK(m, F), NEW h \in Heads, NEW s \in Seq(Nodes),
         NEW m2 \in Heaps(Cells), Plain(Cells, h, s), Ring(m2.next, m2.prev, h, s),
         \A g \in Use(F) \ {h} :
           /\ m2.next[g] = m.next[g] /\ m2.prev[g] = m.prev[g]
           /\ \A i \in 1 .. Len(F[g]) : /\ m2.next[F[g][i]] = m.next[F[g][i]]
                                        /\ m2.prev[F[g][i]] = m.prev[F[g][i]]
                                        /\ \A j \in 1 .. Len(s) : s[j] # F[g][i]
  PROVE  ListsOK(m2, [F EXCEPT ![h] = s])
<1>1. PICK G : G = [F EXCEPT ![h] = s]
  OBVIOUS
<1>2. /\ F \in [Heads -> Seq(Nodes) \cup {Li!Unused}]
      /\ \A g \in Use(F) : Plain(Cells, g, F[g]) /\ Ring(m.next, m.prev, g, F[g])
      /\ \A g, k \in Use(F) : \A i \in 1 .. Len(F[g]), j \in 1 .. Len(F[k]) :
           F[g][i] = F[k][j] => g = k
  BY DEF ListsOK
<1>3. /\ G \in [Heads -> Seq(Nodes) \cup {Li!Unused}] /\ G[h] = s
      /\ \A g \in Heads \ {h} : G[g] = F[g]
  BY <1>1, <1>2
<1>4. Use(G) = Use(F) \cup {h}
  BY <1>3, NodesUsed DEF Use
<1>5. ASSUME NEW g \in Use(G)
      PROVE  Plain(Cells, g, G[g]) /\ Ring(m2.next, m2.prev, g, G[g])
  <2>1. CASE g = h
    BY <2>1, <1>3
  <2>2. CASE g # h
    <3>1. g \in Use(F) \ {h} /\ G[g] = F[g] /\ Plain(Cells, g, F[g]) /\ Ring(m.next, m.prev, g, F[g])
      BY <2>2, <1>2, <1>3, <1>4 DEF Use
    <3>2. Ring(m2.next, m2.prev, g, F[g])
      BY <3>1, RingSame
    <3> QED
      BY <3>1, <3>2
  <2> QED
    BY <2>1, <2>2
<1>6. ASSUME NEW g \in Use(G), NEW k \in Use(G), NEW i \in 1 .. Len(G[g]), NEW j \in 1 .. Len(G[k]),
             G[g][i] = G[k][j]
      PROVE  g = k
  <2>1. CASE g = h /\ k # h
    <3>1. k \in Use(F) \ {h} /\ G[k] = F[k] /\ G[g] = s
      BY <2>1, <1>3, <1>4 DEF Use
    <3> QED
      BY <3>1, <1>6
  <2>2. CASE g # h /\ k = h
    <3>1. g \in Use(F) \ {h} /\ G[g] = F[g] /\ G[k] = s
      BY <2>2, <1>3, <1>4 DEF Use
    <3> QED
      BY <3>1, <1>6
  <2>3. CASE g # h /\ k # h
    <3>1. g \in Use(F) /\ k \in Use(F) /\ G[g] = F[g] /\ G[k] = F[k]
      BY <2>3, <1>3, <1>4 DEF Use
    <3> QED
      BY <3>1, <1>2, <1>6
  <2> QED
    BY <2>1, <2>2, <2>3
<1>7. ListsOK(m2, G)
  BY <1>3, <1>5, <1>6 DEF ListsOK
<1> QED
  BY <1>1, <1>7

\* No list has the node x.
Free(F, x) == \A h \in Use(F) : \A i \in 1 .. Len(F[h]) : F[h][i] # x

\* __list_add of a free node behind the first j entries of a list.
LEMMA ListsPut ==
  ASSUME NEW m, NEW F, ListsOK(m, F), NEW h \in Use(F), NEW j \in 0 .. Len(F[h]),
         NEW x \in Nodes, Free(F, x), NEW p, NEW q,
         p = Cell(h, F[h], j), q = Cell(h, F[h], j + 1)
  PROVE  ListsOK(Li!ListAdd(m, x, p, q), [F EXCEPT ![h] = Put(F[h], j, x)])
<1>1. PICK s \in Seq(Nodes) : s = F[h]
  BY InUse
<1>2. /\ Plain(Cells, h, s) /\ Ring(m.next, m.prev, h, s) /\ m \in Heaps(Cells)
      /\ h \in Heads /\ h \notin Nodes /\ x \in Cells /\ x # h /\ s \in Seq(Cells)
      /\ \A i \in 1 .. Len(s) : s[i] # x
  BY <1>1, InUse, NodesUsed DEF ListsOK, Free, Cells
<1>3. p \in Cells /\ q \in Cells /\ x # p /\ x # q
  <2>1. Len(s) \in Nat /\ \A i \in 0 .. Len(s) + 1 : Cell(h, s, i) \in Cells
    BY <1>2, CellIs
  <2>2. \A i \in 0 .. Len(s) + 1 : Cell(h, s, i) # x
    BY <1>2 DEF Cell
  <2> QED
    BY <1>1, <2>1, <2>2
<1>4. PICK m2 : m2 = Li!ListAdd(m, x, p, q)
  OBVIOUS
<1>5. m2 \in Heaps(Cells) /\ Inserted(Cells, m.next, m.prev, m2.next, m2.prev, p, x, q)
  BY <1>2, <1>3, <1>4, ListAddIs
<1>6. Ring(m2.next, m2.prev, h, Put(s, j, x)) /\ Plain(Cells, h, Put(s, j, x))
  BY <1>1, <1>2, <1>5, RingPut
<1>7. PICK t \in Seq(Nodes) : t = Put(s, j, x)
  BY <1>1, PutIs
<1>8. \A i \in 1 .. Len(t) : t[i] = x \/ \E k \in 1 .. Len(s) : t[i] = s[k]
  <2>1. Len(t) = Len(s) + 1
    BY <1>1, <1>7, PutIs
  <2>2. \A i \in 1 .. Len(s) + 1 :
          Put(s, j, x)[i] = x \/ \E k \in 1 .. Len(s) : Put(s, j, x)[i] = s[k]
    <3> TAKE i \in 1 .. Len(s) + 1
    <3>1. j \in 0 .. Len(s)
      BY <1>1
    <3> QED
      BY <3>1, PutHas
  <2> QED
    BY <1>7, <2>1, <2>2
<1>9. ASSUME NEW g \in Use(F) \ {h}
      PROVE  /\ m2.next[g] = m.next[g] /\ m2.prev[g] = m.prev[g]
             /\ \A i \in 1 .. Len(F[g]) : /\ m2.next[F[g][i]] = m.next[F[g][i]]
                                          /\ m2.prev[F[g][i]] = m.prev[F[g][i]]
                                          /\ \A k \in 1 .. Len(t) : t[k] # F[g][i]
  <2>1. F[g] \in Seq(Nodes) /\ g \in Cells /\ g \notin Nodes
    BY InUse
  <2>2. p \in {h} \cup {s[k] : k \in 1 .. Len(s)} /\ q \in {h} \cup {s[k] : k \in 1 .. Len(s)}
    BY <1>1 DEF Cell
  <2>3. \A i \in 1 .. Len(F[g]) : F[g][i] \in Nodes /\ F[g][i] # x /\ \A k \in 1 .. Len(s) : s[k] # F[g][i]
    BY <1>1, <2>1 DEF ListsOK, Free
  <2>4. g # p /\ g # q /\ g # x
    BY <1>1, <2>1, <2>2
  <2>5. \A i \in 1 .. Len(F[g]) : F[g][i] # p /\ F[g][i] # q /\ F[g][i] \in Cells
    BY <1>2, <2>2, <2>3 DEF Cells
  <2> QED
    BY <1>5, <1>8, <2>1, <2>3, <2>4, <2>5 DEF Inserted
<1>10. ListsOK(m2, [F EXCEPT ![h] = t])
  BY <1>2, <1>5, <1>6, <1>7, <1>9, ListsChange
<1> QED
  BY <1>1, <1>4, <1>7, <1>10

\* Taking the j-th entry out of a list; its own pointers do not matter.
LEMMA ListsCut ==
  ASSUME NEW m, NEW F, ListsOK(m, F), NEW h \in Use(F), NEW j \in 1 .. Len(F[h]),
         NEW x, x = F[h][j], NEW m2 \in Heaps(Cells),
         Bypassed(Cells, m.next, m.prev, m2.next, m2.prev, m.prev[x], x, m.next[x])
  PROVE  /\ ListsOK(m2, [F EXCEPT ![h] = Cut(F[h], j)])
         /\ Free([F EXCEPT ![h] = Cut(F[h], j)], x)
         /\ m.prev[x] \in Cells /\ m.next[x] \in Cells
<1>1. PICK s \in Seq(Nodes) : s = F[h]
  BY InUse
<1>2. /\ Plain(Cells, h, s) /\ Ring(m.next, m.prev, h, s) /\ m \in Heaps(Cells)
      /\ h \in Heads /\ h \notin Nodes /\ s \in Seq(Cells) /\ j \in 1 .. Len(s) /\ x = s[j]
  BY <1>1, InUse, NodesUsed DEF ListsOK
<1>3. PICK p, q : p = m.prev[x] /\ q = m.next[x]
  OBVIOUS
<1>4. p = Cell(h, s, j - 1) /\ q = Cell(h, s, j + 1) /\ p \in Cells /\ q \in Cells
  <2>1. Len(s) \in Nat /\ \A i \in 0 .. Len(s) + 1 : Cell(h, s, i) \in Cells
    BY <1>2, CellIs
  <2>2. Cell(h, s, j) = x /\ j \in 0 .. Len(s) /\ j - 1 \in 0 .. Len(s) /\ (j - 1) + 1 = j
    BY <1>2, <2>1 DEF Cell
  <2>3. m.next[x] = Cell(h, s, j + 1) /\ m.prev[x] = Cell(h, s, j - 1)
    BY <1>2, <2>2 DEF Ring
  <2> QED
    BY <1>3, <2>1, <2>2, <2>3
<1>5. Bypassed(Cells, m.next, m.prev, m2.next, m2.prev, p, x, q)
  BY <1>3
<1>6. PICK t \in Seq(Nodes) : t = Cut(s, j)
  BY <1>2, CutIs
<1>7. /\ Ring(m2.next, m2.prev, h, t) /\ Plain(Cells, h, t)
      /\ \A i \in 1 .. Len(t) : t[i] # x
  BY <1>2, <1>4, <1>5, <1>6, RingCut
<1>8. \A i \in 1 .. Len(t) : \E k \in 1 .. Len(s) : t[i] = s[k]
  BY <1>2, <1>6, CutHas
<1>9. ASSUME NEW g \in Use(F) \ {h}
      PROVE  /\ m2.next[g] = m.next[g] /\ m2.prev[g] = m.prev[g]
             /\ \A i \in 1 .. Len(F[g]) : /\ m2.next[F[g][i]] = m.next[F[g][i]]
                                          /\ m2.prev[F[g][i]] = m.prev[F[g][i]]
                                          /\ \A k \in 1 .. Len(t) : t[k] # F[g][i]
  <2>1. F[g] \in Seq(Nodes) /\ g \in Cells /\ g \notin Nodes
    BY InUse
  <2>2. p \in {h} \cup {s[k] : k \in 1 .. Len(s)} /\ q \in {h} \cup {s[k] : k \in 1 .. Len(s)}
    BY <1>4 DEF Cell
  <2>3. \A i \in 1 .. Len(F[g]) : F[g][i] \in Nodes /\ \A k \in 1 .. Len(s) : s[k] # F[g][i]
    BY <1>1, <2>1 DEF ListsOK
  <2>4. g # p /\ g # q /\ g # x
    BY <1>1, <1>2, <2>1, <2>2
  <2>5. \A i \in 1 .. Len(F[g]) : F[g][i] # p /\ F[g][i] # q /\ F[g][i] \in Cells /\ F[g][i] # x
    BY <1>2, <2>2, <2>3 DEF Cells
  <2> QED
    BY <1>5, <1>8, <2>1, <2>3, <2>4, <2>5 DEF Bypassed
<1>10. ListsOK(m2, [F EXCEPT ![h] = t])
  BY <1>2, <1>6, <1>7, <1>9, ListsChange, SMTT(30)
<1>11. Free([F EXCEPT ![h] = t], x)
  <2>1. PICK G : G = [F EXCEPT ![h] = t]
    OBVIOUS
  <2>2. G[h] = t /\ \A g \in Heads \ {h} : G[g] = F[g]
    BY <1>2, <2>1 DEF ListsOK
  <2>3. \A g \in Use(G) : g \in Use(F) /\ g \in Heads
    BY <2>2 DEF Use
  <2>4. ASSUME NEW g \in Use(G), NEW i \in 1 .. Len(G[g])
        PROVE  G[g][i] # x
    <3>1. CASE g = h
      BY <3>1, <1>7, <2>2, <2>4
    <3>2. CASE g # h
      <4>1. G[g] = F[g] /\ g \in Use(F)
        BY <3>2, <2>2, <2>3
      <4> QED
        BY <3>2, <4>1, <2>4 DEF ListsOK
    <3> QED
      BY <3>1, <3>2
  <2> QED
    BY <2>1, <2>4 DEF Free
<1> QED
  BY <1>1, <1>3, <1>4, <1>6, <1>10, <1>11

\* What __list_splice does, with the entries of g, fst to lst, behind h.
Spliced(C, N, B, N2, B2, h, fst, lst, nxt) ==
  /\ \A c \in C : N2[c] = IF c = lst THEN nxt ELSE IF c = h THEN fst ELSE N[c]
  /\ \A c \in C : B2[c] = IF c = nxt THEN lst ELSE IF c = fst THEN h ELSE B[c]

\* The pointers __list_splice() sets join the two rings.
LEMMA RingSplice ==
  ASSUME NEW C, NEW g, NEW s, Plain(C, g, s), NEW h, NEW t, Plain(C, h, t), g # h,
         NEW N, NEW B, Ring(N, B, g, s), Ring(N, B, h, t), Len(s) > 0,
         \A i \in 1 .. Len(s) : s[i] # h /\ \A j \in 1 .. Len(t) : s[i] # t[j],
         NEW N2, NEW B2, Spliced(C, N, B, N2, B2, h, s[1], s[Len(s)], Cell(h, t, 1))
  PROVE  Ring(N2, B2, h, s \o t) /\ Plain(C, h, s \o t)
<1>1. PICK k \in Nat : k = Len(s) /\ k > 0
  BY DEF Plain
<1>2. PICK l \in Nat : l = Len(t)
  BY DEF Plain
<1>3. PICK u \in Seq(C) : /\ u = s \o t /\ Len(u) = k + l
                          /\ \A i \in 1 .. k + l : u[i] = IF i <= k THEN s[i] ELSE t[i - k]
  <2>1. s \in Seq(C) /\ t \in Seq(C)
    BY DEF Plain
  <2>2. /\ s \o t \in Seq(C) /\ Len(s \o t) = Len(s) + Len(t)
        /\ \A i \in 1 .. Len(s) + Len(t) : (s \o t)[i] = IF i <= Len(s) THEN s[i] ELSE t[i - Len(s)]
    BY <2>1, ConcatProperties
  <2> QED
    BY <1>1, <1>2, <2>2
<1>4. /\ h \in C /\ \A i \in 1 .. k : s[i] \in C /\ s[i] # h /\ s[i] # g
      /\ \A i \in 1 .. l : t[i] \in C /\ t[i] # h
      /\ \A i, j \in 1 .. k : s[i] = s[j] => i = j
      /\ \A i, j \in 1 .. l : t[i] = t[j] => i = j
      /\ \A i \in 1 .. k, j \in 1 .. l : s[i] # t[j]
  BY <1>1, <1>2 DEF Plain
<1>5. Plain(C, h, u)
  <2>1. ASSUME NEW i \in 1 .. k + l, NEW j \in 1 .. k + l, u[i] = u[j], i < j
        PROVE  FALSE
    <3>1. CASE j <= k
      BY <1>3, <1>4, <2>1, <3>1
    <3>2. CASE i <= k /\ j > k
      <4>1. j - k \in 1 .. l /\ u[j] = t[j - k] /\ u[i] = s[i]
        BY <1>3, <3>2
      <4> QED
        BY <1>4, <2>1, <3>2, <4>1
    <3>3. CASE i > k
      <4>1. j - k \in 1 .. l /\ i - k \in 1 .. l /\ u[j] = t[j - k] /\ u[i] = t[i - k]
        BY <1>3, <2>1, <3>3
      <4>2. i - k = j - k
        BY <1>4, <2>1, <4>1
      <4> QED
        BY <2>1, <4>2
    <3> QED
      BY <3>1, <3>2, <3>3
  <2>2. ASSUME NEW i \in 1 .. k + l
        PROVE  u[i] # h
    <3>1. CASE i <= k
      BY <1>3, <1>4, <3>1
    <3>2. CASE i > k
      <4>1. i - k \in 1 .. l /\ u[i] = t[i - k]
        BY <1>3, <3>2
      <4> QED
        BY <1>4, <4>1
    <3> QED
      BY <3>1, <3>2
  <2>3. \A i, j \in 1 .. k + l : u[i] = u[j] => i = j
    BY <2>1
  <2> QED
    BY <1>3, <1>4, <2>2, <2>3 DEF Plain
<1>6. /\ \A i \in 1 .. k : Cell(h, u, i) = s[i]
      /\ Cell(h, u, 0) = h
      /\ \A i \in k + 1 .. k + l + 1 : Cell(h, u, i) = Cell(h, t, i - k)
  <2>1. ASSUME NEW i \in k + 1 .. k + l + 1
        PROVE  Cell(h, u, i) = Cell(h, t, i - k)
    <3>1. CASE i = k + l + 1
      BY <1>2, <1>3, <3>1 DEF Cell
    <3>2. CASE i # k + l + 1
      <4>1. i \in 1 .. k + l /\ i > k /\ i - k \in 1 .. l
        BY <3>2
      <4> QED
        BY <1>2, <1>3, <4>1 DEF Cell
    <3> QED
      BY <3>1, <3>2
  <2>2. \A i \in 1 .. k : i \in 1 .. k + l /\ i <= k
    OBVIOUS
  <2> QED
    BY <1>3, <2>1, <2>2 DEF Cell
<1>7. \A i \in 1 .. k - 1 : N[s[i]] = s[i + 1] /\ B[s[i + 1]] = s[i]
  <2> TAKE i \in 1 .. k - 1
  <2>1. Cell(g, s, i) = s[i] /\ Cell(g, s, i + 1) = s[i + 1] /\ i \in 0 .. Len(s)
    BY <1>1 DEF Cell
  <2> QED
    BY <2>1 DEF Ring
<1>8. PICK nxt \in C : nxt = Cell(h, t, 1) /\ \A i \in 1 .. k : nxt # s[i]
  <2>1. Cell(h, t, 1) = IF l = 0 THEN h ELSE t[1]
    BY <1>2 DEF Cell
  <2> QED
    BY <1>4, <2>1
<1>9. /\ \A c \in C : N2[c] = IF c = s[k] THEN nxt ELSE IF c = h THEN s[1] ELSE N[c]
      /\ \A c \in C : B2[c] = IF c = nxt THEN s[k] ELSE IF c = s[1] THEN h ELSE B[c]
  BY <1>1, <1>8 DEF Spliced
<1>10. ASSUME NEW i \in 0 .. k + l
       PROVE  N2[Cell(h, u, i)] = Cell(h, u, i + 1) /\ B2[Cell(h, u, i + 1)] = Cell(h, u, i)
  <2>1. CASE i = 0
    <3>1. Cell(h, u, i) = h /\ Cell(h, u, i + 1) = s[1] /\ s[1] \in C /\ h # s[k] /\ 1 \in 1 .. k /\ k \in 1 .. k
      BY <1>1, <1>4, <1>6, <2>1
    <3> QED
      BY <1>4, <1>8, <1>9, <3>1
  <2>2. CASE i \in 1 .. k - 1
    <3>1. /\ Cell(h, u, i) = s[i] /\ Cell(h, u, i + 1) = s[i + 1]
          /\ i \in 1 .. k /\ i + 1 \in 1 .. k /\ 1 \in 1 .. k /\ k \in 1 .. k
      BY <1>1, <1>6, <2>2
    <3>2. s[i] # s[k] /\ s[i + 1] # s[1] /\ s[i] # h /\ s[i + 1] # nxt
      BY <1>4, <1>8, <2>2, <3>1
    <3>3. s[i] \in C /\ s[i + 1] \in C
      BY <1>4, <3>1
    <3>4. N[s[i]] = s[i + 1] /\ B[s[i + 1]] = s[i]
      BY <1>7, <2>2
    <3> QED
      BY <1>9, <3>1, <3>2, <3>3, <3>4
  <2>3. CASE i = k
    <3>1. Cell(h, u, i) = s[k] /\ Cell(h, u, i + 1) = nxt /\ s[k] \in C
      <4>1. k + 1 \in k + 1 .. k + l + 1 /\ (k + 1) - k = 1 /\ k \in 1 .. k
        BY <1>1
      <4> QED
        BY <1>4, <1>6, <1>8, <2>3, <4>1
    <3> QED
      BY <1>9, <3>1
  <2>4. CASE i > k
    <3>1. PICK j \in 1 .. l : j = i - k
      BY <2>4
    <3>2. Cell(h, u, i) = Cell(h, t, j) /\ Cell(h, u, i + 1) = Cell(h, t, j + 1)
      <4>1. i \in k + 1 .. k + l + 1 /\ i + 1 \in k + 1 .. k + l + 1 /\ (i + 1) - k = j + 1
        BY <2>4, <3>1
      <4> QED
        BY <1>6, <3>1, <4>1
    <3>3. N[Cell(h, t, j)] = Cell(h, t, j + 1) /\ B[Cell(h, t, j + 1)] = Cell(h, t, j)
      BY <1>2, <3>1 DEF Ring
    <3>4. Cell(h, t, j) = t[j] /\ t[j] \in C /\ t[j] # h /\ t[j] # s[k]
      BY <1>1, <1>2, <1>4, <3>1 DEF Cell
    <3>5. Cell(h, t, j + 1) \in C /\ Cell(h, t, j + 1) # nxt /\ Cell(h, t, j + 1) # s[1]
      <4>1. /\ \A x \in 0 .. l + 1 : Cell(h, t, x) \in C
            /\ \A x, y \in 1 .. l + 1 : Cell(h, t, x) = Cell(h, t, y) => x = y
        BY <1>2, CellIs
      <4>2. j + 1 \in 1 .. l + 1 /\ 1 \in 1 .. l + 1 /\ j + 1 # 1 /\ j + 1 \in 0 .. l + 1
        BY <3>1
      <4>3. Cell(h, t, j + 1) = h \/ \E x \in 1 .. l : Cell(h, t, j + 1) = t[x]
        BY <1>2 DEF Cell
      <4>4. 1 \in 1 .. k
        BY <1>1
      <4> QED
        BY <1>4, <1>8, <4>1, <4>2, <4>3, <4>4
    <3> QED
      BY <1>9, <3>2, <3>3, <3>4, <3>5
  <2> QED
    BY <1>1, <2>1, <2>2, <2>3, <2>4
<1>11. Ring(N2, B2, h, u)
  BY <1>3, <1>10 DEF Ring
<1> QED
  BY <1>3, <1>5, <1>11

\* A head without entries.
LEMMA RingEmpty ==
  ASSUME NEW C, NEW h \in C, NEW N, NEW B, N[h] = h, B[h] = h
  PROVE  Plain(C, h, <<>>) /\ Ring(N, B, h, <<>>)
<1>1. <<>> \in Seq(C) /\ Len(<<>>) = 0
  OBVIOUS
<1>2. Plain(C, h, <<>>)
  BY <1>1 DEF Plain
<1>3. \A i \in 0 .. 1 : Cell(h, <<>>, i) = h
  BY <1>1 DEF Cell
<1>4. Ring(N, B, h, <<>>)
  BY <1>1, <1>3 DEF Ring
<1> QED
  BY <1>2, <1>4

\* A head that goes out of use.
LEMMA ListsDrop ==
  ASSUME NEW m, NEW F, ListsOK(m, F), NEW g \in Heads
  PROVE  /\ ListsOK(m, [F EXCEPT ![g] = Li!Unused])
         /\ Use([F EXCEPT ![g] = Li!Unused]) = Use(F) \ {g}
         /\ \A h \in Heads \ {g} : [F EXCEPT ![g] = Li!Unused][h] = F[h]
<1>1. PICK G : G = [F EXCEPT ![g] = Li!Unused]
  OBVIOUS
<1>2. /\ G \in [Heads -> Seq(Nodes) \cup {Li!Unused}] /\ G[g] = Li!Unused
      /\ \A h \in Heads \ {g} : G[h] = F[h]
  BY <1>1 DEF ListsOK
<1>3. Use(G) = Use(F) \ {g}
  BY <1>2 DEF Use
<1>4. \A h \in Use(G) : h \in Use(F) /\ G[h] = F[h]
  BY <1>2, <1>3 DEF Use
<1>5. /\ m \in Heaps(Cells)
      /\ \A h \in Use(F) : Plain(Cells, h, F[h]) /\ Ring(m.next, m.prev, h, F[h])
      /\ \A k, h \in Use(F) : \A i \in 1 .. Len(F[k]), j \in 1 .. Len(F[h]) :
           F[k][i] = F[h][j] => k = h
  BY DEF ListsOK
<1>6. ListsOK(m, G)
  BY <1>2, <1>4, <1>5 DEF ListsOK
<1> QED
  BY <1>1, <1>2, <1>3, <1>6

\* INIT_LIST_HEAD of a head out of use.
LEMMA ListsInit ==
  ASSUME NEW m, NEW F, ListsOK(m, F), NEW h \in Heads \ Use(F)
  PROVE  ListsOK(Li!INIT_LIST_HEAD(m, h), [F EXCEPT ![h] = <<>>])
<1>1. PICK m2 : m2 = Li!INIT_LIST_HEAD(m, h)
  OBVIOUS
<1>2. /\ m2 \in Heaps(Cells)
      /\ \A c \in Cells : /\ m2.next[c] = IF c = h THEN h ELSE m.next[c]
                          /\ m2.prev[c] = IF c = h THEN h ELSE m.prev[c]
  <2>1. m \in Heaps(Cells) /\ h \in Cells
    BY DEF ListsOK, Cells
  <2>2. /\ Li!INIT_LIST_HEAD(m, h) \in Heaps(Cells)
        /\ \A c \in Cells : /\ Li!INIT_LIST_HEAD(m, h).next[c] = IF c = h THEN h ELSE m.next[c]
                            /\ Li!INIT_LIST_HEAD(m, h).prev[c] = IF c = h THEN h ELSE m.prev[c]
    BY <2>1, ListSetIs
  <2> QED
    BY <1>1, <2>2
<1>3. PICK s \in Seq(Nodes) : s = <<>> /\ Len(s) = 0
  <2>1. <<>> \in Seq(Nodes) /\ Len(<<>>) = 0
    OBVIOUS
  <2> QED
    BY <2>1
<1>4. Plain(Cells, h, s) /\ Ring(m2.next, m2.prev, h, s)
  BY <1>2, <1>3, RingEmpty DEF Cells
<1>5. ASSUME NEW g \in Use(F) \ {h}
      PROVE  /\ m2.next[g] = m.next[g] /\ m2.prev[g] = m.prev[g]
             /\ \A i \in 1 .. Len(F[g]) : /\ m2.next[F[g][i]] = m.next[F[g][i]]
                                          /\ m2.prev[F[g][i]] = m.prev[F[g][i]]
                                          /\ \A k \in 1 .. Len(s) : s[k] # F[g][i]
  <2>1. F[g] \in Seq(Nodes) /\ g \in Cells /\ g # h
    BY InUse
  <2>2. \A i \in 1 .. Len(F[g]) : F[g][i] \in Nodes /\ F[g][i] \in Cells /\ F[g][i] # h
    BY <2>1, ListsAssumption DEF Cells
  <2> QED
    BY <1>2, <1>3, <2>1, <2>2
<1>6. ListsOK(m2, [F EXCEPT ![h] = s])
  <2>1. h \in Heads /\ m2 \in Heaps(Cells) /\ s \in Seq(Nodes)
    BY <1>2
  <2> QED
    BY <2>1, <1>4, <1>5, ListsChange
<1> QED
  BY <1>1, <1>3, <1>6

\* __list_splice() sets the pointers at both ends and no others.
LEMMA ListSpliceIs ==
  ASSUME NEW C, NEW m \in Heaps(C), NEW g \in C, NEW h \in C,
         NEW fst \in C, fst = m.next[g], NEW lst \in C, lst = m.prev[g],
         NEW nxt \in C, nxt = m.next[h], lst # h, fst # nxt
  PROVE  /\ Li!ListSplice(m, g, h) \in Heaps(C)
         /\ Spliced(C, m.next, m.prev, Li!ListSplice(m, g, h).next,
                    Li!ListSplice(m, g, h).prev, h, fst, lst, nxt)
BY DEF Li!ListSplice, Heaps, Spliced

\* __list_splice of a list with entries; the head they came from goes.
LEMMA ListsSplice ==
  ASSUME NEW m, NEW F, ListsOK(m, F), NEW g \in Use(F), NEW h \in Use(F), g # h, F[g] # <<>>
  PROVE  /\ ListsOK(Li!ListSplice(m, g, h), [[F EXCEPT ![g] = Li!Unused] EXCEPT ![h] = F[g] \o F[h]])
         /\ m.next[g] # g
<1>1. PICK s \in Seq(Nodes) : s = F[g] /\ Len(s) > 0
  <2>1. PICK s \in Seq(Nodes) : s = F[g]
    BY InUse
  <2>2. Len(s) > 0
    BY <2>1
  <2> QED
    BY <2>1, <2>2
<1>2. PICK t \in Seq(Nodes) : t = F[h]
  BY InUse
<1>3. /\ Plain(Cells, g, s) /\ Ring(m.next, m.prev, g, s)
      /\ Plain(Cells, h, t) /\ Ring(m.next, m.prev, h, t)
      /\ m \in Heaps(Cells) /\ g \in Heads /\ h \in Heads /\ g \in Cells /\ h \in Cells
      /\ g \notin Nodes /\ h \notin Nodes
  BY <1>1, <1>2, InUse DEF ListsOK
<1>4. \A i \in 1 .. Len(s) : s[i] \in Nodes /\ s[i] # h /\ \A j \in 1 .. Len(t) : s[i] # t[j]
  BY <1>1, <1>2, <1>3 DEF ListsOK
<1>5. m.next[g] = s[1] /\ m.prev[g] = s[Len(s)] /\ m.next[h] = Cell(h, t, 1)
  <2>1. /\ Cell(g, s, 0) = g /\ Cell(g, s, 1) = s[1] /\ 0 \in 0 .. Len(s) /\ Len(s) \in 0 .. Len(s)
        /\ Cell(g, s, Len(s)) = s[Len(s)] /\ Cell(g, s, Len(s) + 1) = g
    BY <1>1 DEF Cell
  <2>2. m.next[g] = s[1] /\ m.prev[g] = s[Len(s)]
    BY <1>3, <2>1 DEF Ring
  <2>3. Cell(h, t, 0) = h /\ 0 \in 0 .. Len(t)
    BY <1>2 DEF Cell
  <2>4. m.next[h] = Cell(h, t, 1)
    BY <1>3, <2>3 DEF Ring
  <2> QED
    BY <2>2, <2>4
<1>6. PICK fst \in Cells, lst \in Cells, nxt \in Cells :
        /\ fst = s[1] /\ lst = s[Len(s)] /\ nxt = Cell(h, t, 1)
        /\ lst # h /\ fst # nxt /\ fst # g
        /\ fst \in Nodes /\ lst \in Nodes
        /\ nxt = h \/ \E j \in 1 .. Len(t) : nxt = t[j]
  <2>1. 1 \in 1 .. Len(s) /\ Len(s) \in 1 .. Len(s)
    BY <1>1
  <2>2. Cell(h, t, 1) = h \/ \E j \in 1 .. Len(t) : Cell(h, t, 1) = t[j]
    BY DEF Cell
  <2>3. Cell(h, t, 1) \in Cells
    BY <1>3, CellIs
  <2>4. s[1] # Cell(h, t, 1) /\ s[1] # g
    BY <1>3, <1>4, <2>1, <2>2
  <2>5. s[1] \in Cells /\ s[Len(s)] \in Cells /\ s[Len(s)] # h /\ s[1] \in Nodes /\ s[Len(s)] \in Nodes
    BY <1>4, <2>1 DEF Cells
  <2> QED
    BY <2>2, <2>3, <2>4, <2>5
<1>7. PICK m2 : m2 = Li!ListSplice(m, g, h)
  OBVIOUS
<1>8. m2 \in Heaps(Cells) /\ Spliced(Cells, m.next, m.prev, m2.next, m2.prev, h, fst, lst, nxt)
  BY <1>3, <1>5, <1>6, <1>7, ListSpliceIs
<1>9. Ring(m2.next, m2.prev, h, s \o t) /\ Plain(Cells, h, s \o t)
  BY <1>1, <1>3, <1>4, <1>6, <1>8, RingSplice
<1>10. PICK u \in Seq(Nodes) : u = s \o t
  <2>1. s \o t \in Seq(Nodes)
    BY ConcatProperties
  <2> QED
    BY <2>1
<1>11. \A i \in 1 .. Len(u) : (\E k \in 1 .. Len(s) : u[i] = s[k]) \/ (\E k \in 1 .. Len(t) : u[i] = t[k])
  <2>1. /\ Len(u) = Len(s) + Len(t) /\ Len(s) \in Nat /\ Len(t) \in Nat
        /\ \A i \in 1 .. Len(s) + Len(t) : u[i] = IF i <= Len(s) THEN s[i] ELSE t[i - Len(s)]
    BY <1>10, ConcatProperties
  <2> TAKE i \in 1 .. Len(u)
  <2>2. CASE i <= Len(s)
    BY <2>1, <2>2
  <2>3. CASE i > Len(s)
    <3>1. i - Len(s) \in 1 .. Len(t)
      BY <2>1, <2>3
    <3> QED
      BY <2>1, <2>3, <3>1
  <2> QED
    BY <2>1, <2>2, <2>3
<1>12. PICK G : G = [F EXCEPT ![g] = Li!Unused]
  OBVIOUS
<1>13. ListsOK(m, G) /\ Use(G) = Use(F) \ {g} /\ \A k \in Heads \ {g} : G[k] = F[k]
  BY <1>3, <1>12, ListsDrop, ZenonT(40)
<1>14. ASSUME NEW k \in Use(G) \ {h}
       PROVE  /\ m2.next[k] = m.next[k] /\ m2.prev[k] = m.prev[k]
              /\ \A i \in 1 .. Len(G[k]) : /\ m2.next[G[k][i]] = m.next[G[k][i]]
                                           /\ m2.prev[G[k][i]] = m.prev[G[k][i]]
                                           /\ \A j \in 1 .. Len(u) : u[j] # G[k][i]
  <2>1. k \in Use(F) /\ k # g /\ k # h /\ G[k] = F[k]
    BY <1>13 DEF Use
  <2>2. F[k] \in Seq(Nodes) /\ k \in Cells /\ k \notin Nodes
    BY <2>1, InUse
  <2>3. \A i \in 1 .. Len(F[k]) : /\ F[k][i] \in Nodes /\ F[k][i] \in Cells
                                  /\ \A j \in 1 .. Len(s) : s[j] # F[k][i]
                                  /\ \A j \in 1 .. Len(t) : t[j] # F[k][i]
    BY <1>1, <1>2, <2>1, <2>2 DEF ListsOK, Cells
  <2>4. k # fst /\ k # lst /\ k # nxt
    BY <1>6, <2>1, <2>2
  <2>5. \A i \in 1 .. Len(F[k]) : F[k][i] # fst /\ F[k][i] # lst /\ F[k][i] # nxt /\ F[k][i] # h
    <3>1. 1 \in 1 .. Len(s) /\ Len(s) \in 1 .. Len(s)
      BY <1>1
    <3> QED
      BY <1>3, <1>6, <2>3, <3>1
  <2>6. \A i \in 1 .. Len(F[k]) : \A j \in 1 .. Len(u) : u[j] # F[k][i]
    BY <1>11, <2>3
  <2>7. m2.next[k] = m.next[k] /\ m2.prev[k] = m.prev[k]
    BY <1>8, <2>1, <2>2, <2>4 DEF Spliced
  <2>8. \A i \in 1 .. Len(F[k]) : /\ m2.next[F[k][i]] = m.next[F[k][i]]
                                  /\ m2.prev[F[k][i]] = m.prev[F[k][i]]
    BY <1>8, <2>3, <2>5 DEF Spliced
  <2> QED
    BY <2>1, <2>6, <2>7, <2>8
<1>15. ListsOK(m2, [G EXCEPT ![h] = u])
  <2>1. Plain(Cells, h, u) /\ Ring(m2.next, m2.prev, h, u)
    BY <1>9, <1>10
  <2>2. h \in Heads /\ m2 \in Heaps(Cells) /\ ListsOK(m, G) /\ u \in Seq(Nodes)
    BY <1>3, <1>8, <1>10, <1>13
  <2> QED
    BY <2>1, <2>2, <1>14, ListsChange
<1> QED
  BY <1>1, <1>2, <1>5, <1>6, <1>7, <1>10, <1>12, <1>15

\* Sequences are equal that agree everywhere.
LEMMA SameSeq ==
  ASSUME NEW C, NEW s \in Seq(C), NEW t \in Seq(C), Len(s) = Len(t),
         \A i \in 1 .. Len(s) : s[i] = t[i]
  PROVE  s = t
BY SeqEqual

\* What the client says of its lists, in terms of Put and Cut.
LEMMA FrontIs ==
  ASSUME NEW C, NEW s \in Seq(C), NEW x \in C
  PROVE  <<x>> \o s = Put(s, 0, x)
<1>1. PICK t \in Seq(C) : t = <<x>> \o s /\ Len(t) = Len(s) + 1 /\ t[1] = x
                          /\ \A i \in 1 .. Len(s) : t[i + 1] = s[i]
  <2>1. <<x>> \in Seq(C) /\ Len(<<x>>) = 1 /\ <<x>>[1] = x /\ Len(s) \in Nat
    OBVIOUS
  <2>2. /\ <<x>> \o s \in Seq(C) /\ Len(<<x>> \o s) = Len(<<x>>) + Len(s)
        /\ \A i \in 1 .. Len(<<x>>) + Len(s) :
             (<<x>> \o s)[i] = IF i <= Len(<<x>>) THEN <<x>>[i] ELSE s[i - Len(<<x>>)]
    BY <2>1, ConcatProperties
  <2>3. PICK t \in Seq(C) : t = <<x>> \o s
    BY <2>2
  <2>4. Len(t) = 1 + Len(s) /\ \A i \in 1 .. 1 + Len(s) : t[i] = IF i <= 1 THEN x ELSE s[i - 1]
    BY <2>1, <2>2, <2>3
  <2>5. \A i \in 1 .. Len(s) : t[i + 1] = s[i]
    <3> TAKE i \in 1 .. Len(s)
    <3>1. i + 1 \in 1 .. 1 + Len(s) /\ ~ (i + 1 <= 1) /\ (i + 1) - 1 = i
      BY <2>1
    <3> QED
      BY <2>4, <3>1
  <2>6. Len(t) = Len(s) + 1 /\ t[1] = x
    BY <2>1, <2>4
  <2> QED
    BY <2>3, <2>5, <2>6
<1>2. PICK u \in Seq(C) : u = Put(s, 0, x) /\ Len(u) = Len(s) + 1
  <2>1. 0 \in 0 .. Len(s)
    OBVIOUS
  <2> QED
    BY <2>1, PutSeq
<1>3. Len(u) = Len(s) + 1 /\ Len(s) \in Nat
  BY <1>2
<1>4. \A i \in 1 .. Len(t) : t[i] = u[i]
  <2> TAKE i \in 1 .. Len(t)
  <2>1. i \in 1 .. Len(s) + 1
    BY <1>1
  <2>2. u[i] = IF i <= 0 THEN s[i] ELSE IF i = 0 + 1 THEN x ELSE s[i - 1]
    BY <1>2, <2>1 DEF Put
  <2>3. CASE i = 1
    BY <1>1, <2>2, <2>3
  <2>4. CASE i # 1
    <3>1. PICK k \in 1 .. Len(s) : i = k + 1
      <4>1. i - 1 \in 1 .. Len(s) /\ i = (i - 1) + 1
        BY <1>3, <2>1, <2>4
      <4> QED
        BY <4>1
    <3>2. u[i] = s[k] /\ t[i] = s[k]
      BY <1>1, <2>2, <3>1
    <3> QED
      BY <3>2
  <2> QED
    BY <2>3, <2>4
<1> QED
  BY <1>1, <1>2, <1>3, <1>4, SameSeq

\* An entry at the tail is a Put at the end.
LEMMA BackIs ==
  ASSUME NEW C, NEW s \in Seq(C), NEW x \in C
  PROVE  Append(s, x) = Put(s, Len(s), x)
<1>1. PICK k \in Nat : k = Len(s)
  OBVIOUS
<1>2. PICK t \in Seq(C) : t = Append(s, x) /\ Len(t) = k + 1
                          /\ \A i \in 1 .. k + 1 : t[i] = IF i <= k THEN s[i] ELSE x
  <2>1. /\ Append(s, x) \in Seq(C) /\ Len(Append(s, x)) = k + 1
        /\ \A i \in 1 .. k + 1 : Append(s, x)[i] = IF i <= k THEN s[i] ELSE x
    BY <1>1
  <2> QED
    BY <2>1
<1>3. PICK u \in Seq(C) : u = Put(s, k, x) /\ Len(u) = k + 1
  <2>1. k \in 0 .. Len(s)
    BY <1>1
  <2> QED
    BY <1>1, <2>1, PutSeq, ZenonT(40)
<1>4. Len(u) = k + 1
  BY <1>3
<1>5. \A i \in 1 .. k + 1 : u[i] = IF i <= k THEN s[i] ELSE x
  BY <1>1, <1>3 DEF Put
<1> QED
  BY <1>1, <1>2, <1>3, <1>4, <1>5, SameSeq

\* RemoveAt is a Cut.
LEMMA RemoveIs ==
  ASSUME NEW C, NEW s \in Seq(C), NEW j \in 1 .. Len(s)
  PROVE  Li!RemoveAt(s, j) = Cut(s, j)
<1>1. PICK k \in Nat : k = Len(s)
  OBVIOUS
<1>2. PICK a \in Seq(C) : a = SubSeq(s, 1, j - 1) /\ Len(a) = j - 1
                          /\ \A i \in 1 .. j - 1 : a[i] = s[i]
  <2>1. /\ SubSeq(s, 1, j - 1) \in Seq(C) /\ Len(SubSeq(s, 1, j - 1)) = j - 1
        /\ \A i \in 1 .. j - 1 : SubSeq(s, 1, j - 1)[i] = s[i]
    OBVIOUS
  <2> QED
    BY <2>1
<1>3. PICK b \in Seq(C) : b = SubSeq(s, j + 1, k) /\ Len(b) = k - j
                          /\ \A i \in 1 .. k - j : b[i] = s[j + i]
  <2>1. /\ SubSeq(s, j + 1, k) \in Seq(C) /\ Len(SubSeq(s, j + 1, k)) = k - j
        /\ \A i \in 1 .. k - j : SubSeq(s, j + 1, k)[i] = s[j + i]
    BY <1>1
  <2> QED
    BY <2>1
<1>4. Li!RemoveAt(s, j) = a \o b
  BY <1>1, <1>2, <1>3 DEF Li!RemoveAt
<1>5. PICK t \in Seq(C) : /\ t = a \o b /\ Len(t) = Len(a) + Len(b)
                          /\ \A i \in 1 .. Len(a) + Len(b) :
                               t[i] = IF i <= Len(a) THEN a[i] ELSE b[i - Len(a)]
  <2>1. /\ a \o b \in Seq(C) /\ Len(a \o b) = Len(a) + Len(b)
        /\ \A i \in 1 .. Len(a) + Len(b) : (a \o b)[i] = IF i <= Len(a) THEN a[i] ELSE b[i - Len(a)]
    BY ConcatProperties
  <2> QED
    BY <2>1
<1>6. PICK u \in Seq(C) : u = Cut(s, j) /\ Len(u) = k - 1
  BY <1>1, CutSeq
<1>7. Len(u) = k - 1 /\ Len(t) = k - 1
  <2>1. Len(t) = (j - 1) + (k - j)
    BY <1>2, <1>3, <1>5
  <2>2. j \in Int /\ (j - 1) + (k - j) = k - 1
    BY <1>1
  <2> QED
    BY <1>6, <2>1, <2>2
<1>8. \A i \in 1 .. Len(t) : t[i] = u[i]
  <2> TAKE i \in 1 .. Len(t)
  <2>1. i \in 1 .. k - 1 /\ u[i] = IF i < j THEN s[i] ELSE s[i + 1]
    BY <1>1, <1>6, <1>7 DEF Cut
  <2>2. t[i] = IF i <= j - 1 THEN a[i] ELSE b[i - (j - 1)]
    BY <1>2, <1>3, <1>5, <1>7
  <2>3. CASE i < j
    BY <1>2, <2>1, <2>2, <2>3
  <2>4. CASE i >= j
    <3>1. i - (j - 1) \in 1 .. k - j /\ j + (i - (j - 1)) = i + 1
      BY <1>1, <2>1, <2>4
    <3>2. b[i - (j - 1)] = s[i + 1]
      BY <1>3, <3>1
    <3> QED
      BY <1>1, <2>1, <2>2, <2>4, <3>2
  <2> QED
    BY <2>1, <2>3, <2>4
<1> QED
  BY <1>4, <1>5, <1>6, <1>7, <1>8, SameSeq

\* A list without one of its entries is a Cut.
LEMMA WithoutIs ==
  ASSUME NEW C, NEW s \in Seq(C), NEW j \in 1 .. Len(s), NEW x, x = s[j],
         \A i, k \in 1 .. Len(s) : s[i] = s[k] => i = k
  PROVE  Li!Without(s, x) = Cut(s, j)
<1>1. DOMAIN s = 1 .. Len(s)
  OBVIOUS
<1>2. x \in Li!ToSet(s)
  BY <1>1 DEF Li!ToSet
<1>3. (CHOOSE i \in DOMAIN s : s[i] = x) = j
  <2>1. \A i \in DOMAIN s : s[i] = x => i = j
    BY <1>1
  <2>2. j \in DOMAIN s /\ s[j] = x
    BY <1>1
  <2> QED
    BY <2>1, <2>2
<1> QED
  BY <1>2, <1>3, RemoveIs DEF Li!Without

\* A list without an entry it does not have.
LEMMA WithoutNone ==
  ASSUME NEW C, NEW s \in Seq(C), NEW x, \A i \in 1 .. Len(s) : s[i] # x
  PROVE  Li!Without(s, x) = s
BY DEF Li!Without, Li!ToSet

\* InsertAt is a Put.
LEMMA InsertIs ==
  ASSUME NEW C, NEW s \in Seq(C), NEW j \in 1 .. Len(s) + 1, NEW x \in C
  PROVE  Li!InsertAt(s, j, x) = Put(s, j - 1, x)
<1>1. PICK k \in Nat : k = Len(s)
  OBVIOUS
<1>2. PICK a \in Seq(C) : a = SubSeq(s, 1, j - 1) /\ Len(a) = j - 1
                          /\ \A i \in 1 .. j - 1 : a[i] = s[i]
  <2>1. /\ SubSeq(s, 1, j - 1) \in Seq(C) /\ Len(SubSeq(s, 1, j - 1)) = j - 1
        /\ \A i \in 1 .. j - 1 : SubSeq(s, 1, j - 1)[i] = s[i]
    OBVIOUS
  <2> QED
    BY <2>1
<1>3. PICK b \in Seq(C) : b = SubSeq(s, j, k) /\ Len(b) = k - j + 1
                          /\ \A i \in 1 .. k - j + 1 : b[i] = s[(j - 1) + i]
  <2>1. /\ SubSeq(s, j, k) \in Seq(C) /\ Len(SubSeq(s, j, k)) = k - j + 1
        /\ \A i \in 1 .. k - j + 1 : SubSeq(s, j, k)[i] = s[(j - 1) + i]
    BY <1>1
  <2> QED
    BY <2>1
<1>4. PICK e \in Seq(C) : e = Append(a, x) /\ Len(e) = j
                          /\ \A i \in 1 .. j : e[i] = IF i <= j - 1 THEN a[i] ELSE x
  <2>1. /\ Append(a, x) \in Seq(C) /\ Len(Append(a, x)) = j
        /\ \A i \in 1 .. j : Append(a, x)[i] = IF i <= j - 1 THEN a[i] ELSE x
    BY <1>2
  <2> QED
    BY <2>1
<1>5. Li!InsertAt(s, j, x) = e \o b
  <2>1. a \o <<x>> = e
    BY <1>4, AppendIsConcat
  <2> QED
    BY <1>1, <1>2, <1>3, <2>1 DEF Li!InsertAt
<1>6. PICK t \in Seq(C) : /\ t = e \o b /\ Len(t) = Len(e) + Len(b)
                          /\ \A i \in 1 .. Len(e) + Len(b) :
                               t[i] = IF i <= Len(e) THEN e[i] ELSE b[i - Len(e)]
  <2>1. /\ e \o b \in Seq(C) /\ Len(e \o b) = Len(e) + Len(b)
        /\ \A i \in 1 .. Len(e) + Len(b) : (e \o b)[i] = IF i <= Len(e) THEN e[i] ELSE b[i - Len(e)]
    BY ConcatProperties
  <2> QED
    BY <2>1
<1>7. PICK u \in Seq(C) : u = Put(s, j - 1, x) /\ Len(u) = k + 1
  <2>1. j - 1 \in 0 .. Len(s)
    BY <1>1
  <2> QED
    BY <1>1, <2>1, PutSeq
<1>8. Len(u) = k + 1 /\ Len(t) = k + 1
  BY <1>1, <1>3, <1>4, <1>6, <1>7
<1>9. \A i \in 1 .. Len(t) : t[i] = u[i]
  <2> TAKE i \in 1 .. Len(t)
  <2>1. i \in 1 .. k + 1 /\ u[i] = IF i <= j - 1 THEN s[i] ELSE IF i = (j - 1) + 1 THEN x ELSE s[i - 1]
    BY <1>1, <1>7, <1>8 DEF Put
  <2>2. t[i] = IF i <= j THEN e[i] ELSE b[i - j]
    BY <1>3, <1>4, <1>6, <1>8
  <2>3. CASE i < j
    BY <1>1, <1>2, <1>4, <2>1, <2>2, <2>3
  <2>4. CASE i = j
    BY <1>1, <1>4, <2>1, <2>2, <2>4
  <2>5. CASE i > j
    <3>0. i \in Int /\ j \in Int /\ i >= j + 1 /\ i <= k + 1
      BY <1>1, <2>1, <2>5
    <3>1. i - j \in 1 .. k - j + 1 /\ (j - 1) + (i - j) = i - 1
      BY <3>0
    <3>2. b[i - j] = s[i - 1]
      BY <1>3, <3>1
    <3> QED
      BY <1>1, <2>1, <2>2, <2>5, <3>2
  <2> QED
    BY <1>1, <2>1, <2>3, <2>4, <2>5
<1> QED
  BY <1>5, <1>6, <1>7, <1>8, <1>9, SameSeq, ZenonT(40)

\* list_add and list_add_tail of a free node.
LEMMA ListsAddFront ==
  ASSUME NEW m, NEW F, ListsOK(m, F), NEW h \in Use(F), NEW x \in Nodes, Free(F, x)
  PROVE  ListsOK(Li!list_add(m, x, h), [F EXCEPT ![h] = <<x>> \o F[h]])
<1>1. PICK s \in Seq(Nodes) : s = F[h]
  BY InUse
<1>2. Ring(m.next, m.prev, h, s) /\ 0 \in 0 .. Len(s)
  BY <1>1 DEF ListsOK
<1>3. Cell(h, s, 0) = h /\ m.next[h] = Cell(h, s, 0 + 1)
  <2>1. Cell(h, s, 0) = h
    BY DEF Cell
  <2> QED
    BY <1>2, <2>1 DEF Ring
<1>4. ListsOK(Li!ListAdd(m, x, h, m.next[h]), [F EXCEPT ![h] = Put(F[h], 0, x)])
  BY <1>1, <1>2, <1>3, ListsPut
<1>5. Put(F[h], 0, x) = <<x>> \o F[h]
  BY <1>1, FrontIs
<1> QED
  BY <1>4, <1>5 DEF Li!list_add

\* list_add_tail() of a free node keeps all lists exact.
LEMMA ListsAddBack ==
  ASSUME NEW m, NEW F, ListsOK(m, F), NEW h \in Use(F), NEW x \in Nodes, Free(F, x)
  PROVE  ListsOK(Li!list_add_tail(m, x, h), [F EXCEPT ![h] = Append(F[h], x)])
<1>1. PICK s \in Seq(Nodes) : s = F[h]
  BY InUse
<1>2. PICK k \in Nat : k = Len(s)
  OBVIOUS
<1>3. Ring(m.next, m.prev, h, s) /\ k \in 0 .. Len(s)
  BY <1>1, <1>2 DEF ListsOK
<1>4. Cell(h, s, k + 1) = h /\ m.prev[h] = Cell(h, s, k)
  <2>1. Cell(h, s, k + 1) = h
    BY <1>2 DEF Cell
  <2> QED
    BY <1>3, <2>1 DEF Ring
<1>5. ListsOK(Li!ListAdd(m, x, m.prev[h], h), [F EXCEPT ![h] = Put(F[h], k, x)])
  BY <1>1, <1>3, <1>4, ListsPut
<1>6. Put(F[h], k, x) = Append(F[h], x)
  BY <1>1, <1>2, BackIs
<1> QED
  BY <1>5, <1>6 DEF Li!list_add_tail

\* A node that is in a list is in one place of one list.
LEMMA LinkedIs ==
  ASSUME NEW x \in Nodes, ListsOK(mem, lists)
  PROVE  /\ Li!Usable = Use(lists)
         /\ x \notin Li!Linked => Free(lists, x)
         /\ x \in Li!Linked => \E h \in Use(lists) : \E j \in 1 .. Len(lists[h]) : x = lists[h][j]
<1>1. Li!Usable = Use(lists)
  BY DEF Li!Usable, Use
<1>2. \A h \in Use(lists) : DOMAIN lists[h] = 1 .. Len(lists[h])
  <2> TAKE h \in Use(lists)
  <2>1. lists[h] \in Seq(Nodes)
    BY InUse
  <2> QED
    BY <2>1
<1>3. x \in Li!Linked <=> \E h \in Use(lists) : \E j \in 1 .. Len(lists[h]) : x = lists[h][j]
  BY <1>1, <1>2 DEF Li!Linked, Li!In, Li!ToSet
<1> QED
  BY <1>1, <1>3 DEF Free

\* The lists once it has left.
LEMMA TakenIs ==
  ASSUME ListsOK(mem, lists), NEW h \in Use(lists), NEW j \in 1 .. Len(lists[h]),
         NEW x, x = lists[h][j]
  PROVE  Li!Taken(x) = [lists EXCEPT ![h] = Cut(lists[h], j)]
<1>1. Li!Usable = Use(lists) /\ DOMAIN lists = Heads /\ h \in Heads
  BY DEF Li!Usable, Use, ListsOK
<1>2. ASSUME NEW g \in Heads
      PROVE  (IF g \in Use(lists) THEN Li!Without(lists[g], x) ELSE lists[g])
                = (IF g = h THEN Cut(lists[h], j) ELSE lists[g])
  <2>1. CASE g \notin Use(lists)
    BY <2>1
  <2>2. CASE g = h
    <3>1. lists[h] \in Seq(Nodes)
      BY InUse
    <3>2. \A i, k \in 1 .. Len(lists[h]) : lists[h][i] = lists[h][k] => i = k
      BY DEF ListsOK, Plain
    <3>3. Li!Without(lists[h], x) = Cut(lists[h], j)
      BY <3>1, <3>2, WithoutIs
    <3> QED
      BY <2>2, <3>3
  <2>3. CASE g \in Use(lists) /\ g # h
    <3>1. lists[g] \in Seq(Nodes)
      BY <2>3, InUse
    <3>2. \A i \in 1 .. Len(lists[g]) : lists[g][i] # x
      BY <2>3 DEF ListsOK
    <3>3. Li!Without(lists[g], x) = lists[g]
      BY <3>1, <3>2, WithoutNone
    <3> QED
      BY <2>3, <3>3
  <2> QED
    BY <2>1, <2>2, <2>3
<1> QED
  BY <1>1, <1>2 DEF Li!Taken

\* list_del, list_del_init and the first half of list_move.
LEMMA ListsTake ==
  ASSUME ListsOK(mem, lists), NEW h \in Use(lists), NEW j \in 1 .. Len(lists[h]),
         NEW x \in Nodes, x = lists[h][j]
  PROVE  LET m == Li!ListDel(mem, mem.prev[x], mem.next[x]) IN
         /\ ListsOK(m, Li!Taken(x))
         /\ ListsOK(Li!list_del(mem, x), Li!Taken(x))
         /\ ListsOK(Li!list_del_init(mem, x), Li!Taken(x))
         /\ Free(Li!Taken(x), x)
<1>1. mem \in Heaps(Cells) /\ x \in Cells
  BY DEF ListsOK, Cells
<1>3. PICK p, q : p = mem.prev[x] /\ q = mem.next[x]
  OBVIOUS
<1>4. p \in Cells /\ q \in Cells
  <2>1. PICK s \in Seq(Nodes) : s = lists[h]
    BY InUse
  <2>2. Plain(Cells, h, s) /\ Ring(mem.next, mem.prev, h, s) /\ j \in 1 .. Len(s) /\ x = s[j]
    BY <2>1 DEF ListsOK
  <2>3. Len(s) \in Nat /\ \A i \in 0 .. Len(s) + 1 : Cell(h, s, i) \in Cells
    BY <2>2, CellIs
  <2>4. Cell(h, s, j) = x /\ j \in 0 .. Len(s) /\ j - 1 \in 0 .. Len(s) /\ (j - 1) + 1 = j
          /\ j + 1 \in 0 .. Len(s) + 1 /\ j - 1 \in 0 .. Len(s) + 1
    BY <2>2, <2>3 DEF Cell
  <2>5. mem.next[x] = Cell(h, s, j + 1) /\ mem.prev[x] = Cell(h, s, j - 1)
    BY <2>2, <2>4 DEF Ring
  <2> QED
    BY <1>3, <2>3, <2>4, <2>5
<1>5. PICK m : m = Li!ListDel(mem, p, q)
  OBVIOUS
<1>6. m \in Heaps(Cells) /\ Bypassed(Cells, mem.next, mem.prev, m.next, m.prev, p, x, q)
  BY <1>1, <1>4, <1>5, ListDelIs
<1>7. ASSUME NEW m2 \in Heaps(Cells),
             \A c \in Cells \ {x} : m2.next[c] = m.next[c] /\ m2.prev[c] = m.prev[c]
      PROVE  ListsOK(m2, Li!Taken(x)) /\ Free(Li!Taken(x), x)
  <2>1. Bypassed(Cells, mem.next, mem.prev, m2.next, m2.prev, p, x, q)
    BY <1>6, <1>7 DEF Bypassed
  <2>2. /\ ListsOK(m2, [lists EXCEPT ![h] = Cut(lists[h], j)])
        /\ Free([lists EXCEPT ![h] = Cut(lists[h], j)], x)
    BY <1>3, <2>1, ListsCut
  <2> QED
    BY <2>2, TakenIs
<1>8. ListsOK(m, Li!Taken(x)) /\ Free(Li!Taken(x), x)
  BY <1>6, <1>7
<1>9. ListsOK(Li!list_del(mem, x), Li!Taken(x))
  <2>1. PICK m2 : m2 = Poisoned(m, x)
    OBVIOUS
  <2>2. m2 \in Heaps(Cells) /\ \A c \in Cells \ {x} : m2.next[c] = m.next[c] /\ m2.prev[c] = m.prev[c]
    BY <1>1, <1>6, <2>1, PoisonIs
  <2>3. Li!list_del(mem, x) = m2
    BY <1>3, <1>5, <2>1 DEF Li!list_del, Poisoned
  <2> QED
    BY <1>7, <2>2, <2>3
<1>10. ListsOK(Li!list_del_init(mem, x), Li!Taken(x))
  <2>1. PICK m2 : m2 = Li!INIT_LIST_HEAD(m, x)
    OBVIOUS
  <2>2. m2 \in Heaps(Cells) /\ \A c \in Cells \ {x} : m2.next[c] = m.next[c] /\ m2.prev[c] = m.prev[c]
    <3>1. /\ Li!INIT_LIST_HEAD(m, x) \in Heaps(Cells)
          /\ \A c \in Cells : /\ Li!INIT_LIST_HEAD(m, x).next[c] = IF c = x THEN x ELSE m.next[c]
                              /\ Li!INIT_LIST_HEAD(m, x).prev[c] = IF c = x THEN x ELSE m.prev[c]
      BY <1>1, <1>6, ListSetIs
    <3> QED
      BY <2>1, <3>1
  <2>3. Li!list_del_init(mem, x) = m2
    BY <1>3, <1>5, <2>1 DEF Li!list_del_init
  <2> QED
    BY <1>7, <2>2, <2>3
<1> QED
  BY <1>3, <1>5, <1>8, <1>9, <1>10

\* The entries of a list from the k-th on.
Rest(s, k) == [i \in 1 .. (Len(s) - k) + 1 |-> s[(k - 1) + i]]

\* What is left of a list from a place on.
LEMMA RestIs ==
  ASSUME NEW C, NEW s \in Seq(C), NEW k \in 1 .. Len(s) + 1
  PROVE  /\ Rest(s, k) \in Seq(C) /\ Len(Rest(s, k)) = (Len(s) - k) + 1
         /\ \A i \in 1 .. (Len(s) - k) + 1 : Rest(s, k)[i] = s[(k - 1) + i]
<1>1. PICK l \in Nat : l = (Len(s) - k) + 1
  OBVIOUS
<1>2. \A i \in 1 .. l : s[(k - 1) + i] \in C
  <2> TAKE i \in 1 .. l
  <2>1. (k - 1) + i \in 1 .. Len(s)
    BY <1>1
  <2> QED
    BY <2>1
<1>3. Rest(s, k) \in [1 .. l -> C]
  BY <1>1, <1>2 DEF Rest
<1> QED
  BY <1>1, <1>3 DEF Rest

\* From the first place on everything is left.
LEMMA RestAll ==
  ASSUME NEW C, NEW s \in Seq(C)
  PROVE  Rest(s, 1) = s
<1>1. 1 \in 1 .. Len(s) + 1 /\ (Len(s) - 1) + 1 = Len(s) /\ \A i \in 1 .. Len(s) : (1 - 1) + i = i
  OBVIOUS
<1>2. PICK t \in Seq(C) : t = Rest(s, 1) /\ Len(t) = Len(s) /\ \A i \in 1 .. Len(s) : t[i] = s[i]
  <2>1. /\ Rest(s, 1) \in Seq(C) /\ Len(Rest(s, 1)) = (Len(s) - 1) + 1
        /\ \A i \in 1 .. (Len(s) - 1) + 1 : Rest(s, 1)[i] = s[(1 - 1) + i]
    BY <1>1, RestIs
  <2> QED
    BY <1>1, <2>1
<1> QED
  BY <1>2, SameSeq

\* Without its first entry, the rest goes on one further; it is the same when
\* that entry leaves the list.
LEMMA RestOn ==
  ASSUME NEW C, NEW s \in Seq(C), NEW k \in 1 .. Len(s),
         \A i, j \in 1 .. Len(s) : s[i] = s[j] => i = j
  PROVE  /\ Li!Without(Rest(s, k), s[k]) = Rest(s, k + 1)
         /\ Rest(Cut(s, k), k) = Rest(s, k + 1)
         /\ Rest(s, k) # <<>> /\ Head(Rest(s, k)) = s[k]
<1>0. PICK e \in Nat : e = Len(s)
  OBVIOUS
<1>1. PICK l \in Nat : l = e - k
  <2>1. e - k \in Nat
    BY <1>0
  <2> QED
    BY <2>1
<1>2. PICK r \in Seq(C) : r = Rest(s, k) /\ Len(r) = l + 1
                          /\ \A i \in 1 .. l + 1 : r[i] = s[(k - 1) + i]
  <2>1. /\ Rest(s, k) \in Seq(C) /\ Len(Rest(s, k)) = (Len(s) - k) + 1
        /\ \A i \in 1 .. (Len(s) - k) + 1 : Rest(s, k)[i] = s[(k - 1) + i]
    BY <1>0, RestIs
  <2> QED
    BY <1>0, <1>1, <2>1
<1>3. PICK u \in Seq(C) : u = Rest(s, k + 1) /\ Len(u) = l
                          /\ \A i \in 1 .. l : u[i] = s[k + i]
  <2>1. k + 1 \in 1 .. Len(s) + 1 /\ (Len(s) - (k + 1)) + 1 = l /\ \A i \in 1 .. l : ((k + 1) - 1) + i = k + i
    BY <1>0, <1>1
  <2>2. PICK k1 \in 1 .. Len(s) + 1 : k1 = k + 1
    BY <2>1
  <2>3. /\ Rest(s, k1) \in Seq(C) /\ Len(Rest(s, k1)) = (Len(s) - k1) + 1
        /\ \A i \in 1 .. (Len(s) - k1) + 1 : Rest(s, k1)[i] = s[(k1 - 1) + i]
    BY RestIs
  <2> QED
    BY <2>1, <2>2, <2>3, SMTT(30)
<1>4. r[1] = s[k] /\ 1 \in 1 .. Len(r)
  <2>1. 1 \in 1 .. l + 1 /\ (k - 1) + 1 = k
    BY <1>0, <1>1
  <2> QED
    BY <1>2, <2>1
<1>5. \A i, j \in 1 .. Len(r) : r[i] = r[j] => i = j
  <2> SUFFICES ASSUME NEW i \in 1 .. Len(r), NEW j \in 1 .. Len(r), r[i] = r[j]
               PROVE  i = j
    OBVIOUS
  <2>1. (k - 1) + i \in 1 .. Len(s) /\ (k - 1) + j \in 1 .. Len(s)
    BY <1>0, <1>1, <1>2
  <2>2. (k - 1) + i = (k - 1) + j
    BY <1>2, <2>1
  <2> QED
    BY <2>2
<1>6. Li!Without(r, s[k]) = Cut(r, 1)
  BY <1>4, <1>5, WithoutIs
<1>7. Cut(r, 1) = u
  <2>1. PICK v \in Seq(C) : v = Cut(r, 1) /\ Len(v) = l
    <3>1. Cut(r, 1) \in Seq(C) /\ Len(Cut(r, 1)) = Len(r) - 1
      BY <1>4, CutSeq
    <3> QED
      BY <1>2, <3>1
  <2>2. \A i \in 1 .. l : v[i] = u[i]
    <3> TAKE i \in 1 .. l
    <3>1. i \in 1 .. Len(r) - 1 /\ ~ (i < 1) /\ i + 1 \in 1 .. l + 1 /\ (k - 1) + (i + 1) = k + i
      BY <1>2
    <3>2. v[i] = r[i + 1]
      BY <2>1, <3>1 DEF Cut
    <3>3. r[i + 1] = s[k + i]
      BY <1>2, <3>1
    <3> QED
      BY <1>3, <3>2, <3>3
  <2> QED
    BY <1>3, <2>1, <2>2, SameSeq
<1>8. Rest(Cut(s, k), k) = u
  <2>1. PICK c \in Seq(C) : c = Cut(s, k) /\ Len(c) = e - 1
    <3>1. Cut(s, k) \in Seq(C) /\ Len(Cut(s, k)) = Len(s) - 1
      BY CutSeq
    <3> QED
      BY <1>0, <3>1
  <2>2. k \in 1 .. Len(c) + 1 /\ (Len(c) - k) + 1 = l
    BY <1>0, <1>1, <2>1
  <2>3. PICK v \in Seq(C) : v = Rest(c, k) /\ Len(v) = l /\ \A i \in 1 .. l : v[i] = c[(k - 1) + i]
    <3>1. /\ Rest(c, k) \in Seq(C) /\ Len(Rest(c, k)) = (Len(c) - k) + 1
          /\ \A i \in 1 .. (Len(c) - k) + 1 : Rest(c, k)[i] = c[(k - 1) + i]
      BY <2>2, RestIs
    <3> QED
      BY <2>2, <3>1
  <2>4. \A i \in 1 .. l : v[i] = u[i]
    <3> TAKE i \in 1 .. l
    <3>1. PICK y \in 1 .. e - 1 : y = (k - 1) + i /\ ~ (y < k) /\ y + 1 = k + i
      BY <1>0, <1>1
    <3>2. c[y] = s[y + 1]
      BY <1>0, <2>1, <3>1 DEF Cut
    <3> QED
      BY <1>3, <2>3, <3>1, <3>2
  <2> QED
    BY <1>3, <2>1, <2>3, <2>4, SameSeq
<1>9. r # <<>> /\ Head(r) = s[k]
  BY <1>2, <1>4
<1> QED
  BY <1>2, <1>3, <1>6, <1>7, <1>8, <1>9

----------------------------------------------------------------------------
(* list.h: list_for_each_safe                                              *)

Loops == [head : Heads, pos : Cells, n : Cells \cup {POISON}, left : Seq(Nodes)]

\* A loop over a list of F that is at its k-th entry, or at the head behind
\* the last: it has the successor, and the entries from the k-th on are left.
LoopAt(l, m, F, k) ==
  /\ l.head \in Use(F) /\ k \in 1 .. Len(F[l.head]) + 1
  /\ l.pos = Cell(l.head, F[l.head], k) /\ l.n = m.next[l.pos]
  /\ l.left = Rest(F[l.head], k)

LoopOK(l, m, F) == l = Li!NoLoop \/ (l \in Loops /\ \E k \in Nat : LoopAt(l, m, F, k))

\* Before the first turn.
LEMMA LoopBegins ==
  ASSUME NEW m, NEW F, ListsOK(m, F), NEW h \in Use(F)
  PROVE  LoopOK([head |-> h, pos |-> m.next[h], n |-> m.next[m.next[h]], left |-> F[h]], m, F)
<1>1. PICK s \in Seq(Nodes) : s = F[h]
  BY InUse
<1>2. Plain(Cells, h, s) /\ Ring(m.next, m.prev, h, s) /\ h \in Heads /\ m \in Heaps(Cells)
  BY <1>1, InUse DEF ListsOK
<1>3. Len(s) \in Nat /\ Cell(h, s, 0) = h /\ Cell(h, s, 1) \in Cells
  <2>1. /\ Len(s) \in Nat /\ \A i \in 0 .. Len(s) + 1 : Cell(h, s, i) \in Cells
        /\ Cell(h, s, 0) = h
    BY <1>2, CellIs
  <2> QED
    BY <2>1
<1>4. m.next[h] = Cell(h, s, 1)
  <2>1. 0 \in 0 .. Len(s) /\ 0 + 1 = 1
    BY <1>3
  <2>2. m.next[Cell(h, s, 0)] = Cell(h, s, 0 + 1)
    BY <1>2, <2>1 DEF Ring
  <2> QED
    BY <1>3, <2>1, <2>2
<1>5. PICK p \in Cells : p = m.next[h] /\ p = Cell(h, s, 1)
  BY <1>3, <1>4
<1>6. PICK q \in Cells \cup {POISON} : q = m.next[p]
  BY <1>2 DEF Heaps
<1>7. PICK l : l = [head |-> h, pos |-> p, n |-> q, left |-> s]
  OBVIOUS
<1>8. l \in Loops
  BY <1>2, <1>7 DEF Loops
<1>9. LoopAt(l, m, F, 1)
  <2>1. 1 \in 1 .. Len(s) + 1
    BY <1>3
  <2>2. l.head = h /\ l.pos = p /\ l.n = q /\ l.left = s
    BY <1>7
  <2> QED
    BY <1>1, <1>5, <1>6, <2>1, <2>2, RestAll DEF LoopAt
<1> QED
  BY <1>1, <1>5, <1>6, <1>7, <1>8, <1>9 DEF LoopOK

\* Where a loop is that has an entry.
LEMMA LoopEntry ==
  ASSUME NEW m, NEW F, ListsOK(m, F), NEW l, LoopOK(l, m, F), l.pos \in Nodes
  PROVE  /\ l \in Loops
         /\ \E k \in 1 .. Len(F[l.head]) : LoopAt(l, m, F, k) /\ l.pos = F[l.head][k]
<1>1. l # Li!NoLoop
  BY ListsAssumption DEF Li!NoLoop
<1>2. PICK k \in Nat : LoopAt(l, m, F, k)
  BY <1>1 DEF LoopOK
<1>3. l.head \in Use(F) /\ k \in 1 .. Len(F[l.head]) + 1 /\ l.pos = Cell(l.head, F[l.head], k)
  BY <1>2 DEF LoopAt
<1>4. l.head \notin Nodes
  BY <1>3, InUse
<1>5. k \in 1 .. Len(F[l.head]) /\ l.pos = F[l.head][k]
  BY <1>3, <1>4 DEF Cell
<1> QED
  BY <1>1, <1>2, <1>5 DEF LoopOK

\* One turn, in the heap m2 and the lists F2 that the body left: the entry is
\* where it was or has left the list.
LEMMA LoopTurns ==
  ASSUME NEW m, NEW F, ListsOK(m, F), NEW l \in Loops, NEW k, LoopAt(l, m, F, k),
         k \in 1 .. Len(F[l.head]), l.pos = F[l.head][k],
         NEW m2 \in Heaps(Cells), NEW F2, l.head \in Use(F2),
         F2[l.head] = F[l.head] \/ F2[l.head] = Cut(F[l.head], k)
  PROVE  LoopOK(Li!Following([l EXCEPT !.left = Li!Without(@, l.pos)], m2), m2, F2)
<1>1. l.head \in Use(F)
  BY DEF LoopAt
<1>2. PICK h \in Heads, s \in Seq(Nodes) : h = l.head /\ s = F[h]
  BY <1>1, InUse DEF Loops
<1>3. /\ Plain(Cells, h, s) /\ Ring(m.next, m.prev, h, s) /\ k \in 1 .. Len(s)
      /\ l.pos = s[k] /\ l.n = m.next[s[k]] /\ l.left = Rest(s, k)
      /\ s \in Seq(Cells)
  BY <1>1, <1>2, NodesUsed DEF ListsOK, LoopAt
<1>4. \A i, j \in 1 .. Len(s) : s[i] = s[j] => i = j
  BY <1>3 DEF Plain
<1>5. PICK x \in Cells : x = Cell(h, s, k + 1) /\ l.n = x
  <2>1. Len(s) \in Nat /\ \A i \in 0 .. Len(s) + 1 : Cell(h, s, i) \in Cells
    BY <1>3, CellIs
  <2>2. Cell(h, s, k) = s[k] /\ k \in 0 .. Len(s) /\ k + 1 \in 0 .. Len(s) + 1
    BY <1>3, <2>1 DEF Cell
  <2>3. m.next[s[k]] = Cell(h, s, k + 1)
    BY <1>3, <2>2 DEF Ring
  <2> QED
    BY <1>3, <2>1, <2>2, <2>3
<1>6. /\ Li!Without(Rest(s, k), s[k]) = Rest(s, k + 1)
      /\ Rest(Cut(s, k), k) = Rest(s, k + 1)
  BY <1>3, <1>4, RestOn
<1>7. PICK r \in Seq(Nodes) : r = Rest(s, k + 1)
  <2>1. PICK k1 \in 1 .. Len(s) + 1 : k1 = k + 1
    BY <1>3
  <2> QED
    BY <2>1, RestIs
<1>8. PICK q \in Cells \cup {POISON} : q = m2.next[x]
  BY DEF Heaps
<1>9. PICK y : y = [l EXCEPT !.left = Li!Without(@, l.pos)]
  OBVIOUS
<1>10. y \in Loops /\ y.head = h /\ y.n = x /\ y.left = r
  <2>1. Li!Without(l.left, l.pos) = r
    BY <1>3, <1>6, <1>7
  <2> QED
    BY <1>2, <1>5, <1>9, <2>1 DEF Loops
<1>11. PICK l2 : /\ l2 = Li!Following(y, m2)
                 /\ l2 \in Loops /\ l2.head = h /\ l2.pos = x /\ l2.n = m2.next[x] /\ l2.left = r
  <2>1. PICK l2 : l2 = [y EXCEPT !.pos = x, !.n = q]
    OBVIOUS
  <2>2. l2 = Li!Following(y, m2)
    BY <1>8, <1>10, <2>1 DEF Li!Following
  <2>3. l2 \in Loops /\ l2.head = h /\ l2.pos = x /\ l2.n = q /\ l2.left = r
    BY <1>10, <2>1 DEF Loops
  <2> QED
    BY <1>8, <2>2, <2>3
<1>12. CASE F2[h] = s
  <2>1. PICK k1 \in Nat : k1 = k + 1 /\ k1 \in 1 .. Len(s) + 1
    BY <1>3
  <2>2. LoopAt(l2, m2, F2, k1)
    BY <1>2, <1>5, <1>7, <1>11, <1>12, <2>1 DEF LoopAt
  <2> QED
    BY <1>9, <1>11, <2>2 DEF LoopOK
<1>13. CASE F2[h] = Cut(s, k)
  <2>1. Len(Cut(s, k)) = Len(s) - 1 /\ k \in Nat
    BY <1>3, CutSeq
  <2>2. k \in 1 .. Len(Cut(s, k)) + 1
    BY <1>3, <2>1
  <2>3. Cell(h, Cut(s, k), k) = Cell(h, s, k + 1)
    <3>1. k \in 0 .. Len(s) /\ ~ (k < k)
      BY <1>3
    <3> QED
      BY <1>3, <3>1, CutCell
  <2>4. LoopAt(l2, m2, F2, k)
    BY <1>2, <1>5, <1>6, <1>7, <1>11, <1>13, <2>2, <2>3 DEF LoopAt
  <2> QED
    BY <1>9, <1>11, <2>1, <2>4 DEF LoopOK
<1> QED
  BY <1>2, <1>12, <1>13

\* What a loop shows.
LEMMA LoopShows ==
  ASSUME NEW m, NEW F, ListsOK(m, F), NEW l, l # Li!NoLoop, LoopOK(l, m, F)
  PROVE  /\ l.pos = l.head => l.left = <<>>
         /\ l.pos # l.head => l.left # <<>> /\ Head(l.left) = l.pos
<1>1. PICK k \in Nat : LoopAt(l, m, F, k)
  BY DEF LoopOK
<1>2. l.head \in Use(F)
  BY <1>1 DEF LoopAt
<1>3. PICK h \in Heads, s \in Seq(Nodes) : h = l.head /\ s = F[h] /\ Plain(Cells, h, s)
  BY <1>2, InUse DEF ListsOK
<1>4. k \in 1 .. Len(s) + 1 /\ l.pos = Cell(h, s, k) /\ l.left = Rest(s, k)
  BY <1>1, <1>3 DEF LoopAt
<1>5. CASE k \in 1 .. Len(s)
  <2>1. s[k] # h /\ l.pos = s[k] /\ \A i, j \in 1 .. Len(s) : s[i] = s[j] => i = j
    BY <1>3, <1>4, <1>5 DEF Cell, Plain
  <2>2. Rest(s, k) # <<>> /\ Head(Rest(s, k)) = s[k]
    BY <1>5, <2>1, RestOn
  <2> QED
    BY <1>3, <1>4, <2>1, <2>2
<1>6. CASE ~ (k \in 1 .. Len(s))
  <2>1. l.pos = h /\ k = Len(s) + 1
    BY <1>3, <1>4, <1>6 DEF Cell
  <2>2. Rest(s, k) \in Seq(Nodes) /\ Len(Rest(s, k)) = (Len(s) - k) + 1
    BY <1>4, RestIs
  <2>3. Len(Rest(s, k)) = 0
    BY <2>1, <2>2
  <2>4. Rest(s, k) = <<>>
    BY <2>2, <2>3
  <2> QED
    BY <1>3, <1>4, <2>1, <2>4
<1> QED
  BY <1>5, <1>6

----------------------------------------------------------------------------
(* list.h: every call keeps the lists                                      *)

ListsInv == ListsOK(mem, lists) /\ LoopOK(loop, mem, lists)

\* list_add() and list_add_tail() keep the lists exact and a running loop
\* in place.
LEMMA ListAddStep ==
  ASSUME ListsInv, NEW x \in Nodes, NEW h \in Heads, Li!Add(x, h)
  PROVE  ListsInv'
<1>1. ListsOK(mem, lists) /\ h \in Use(lists) /\ Free(lists, x) /\ loop' = Li!NoLoop
  BY LinkedIs DEF ListsInv, Li!Add, Li!Outside
<1>2. \/ mem' = Li!list_add(mem, x, h) /\ lists' = [lists EXCEPT ![h] = <<x>> \o lists[h]]
      \/ mem' = Li!list_add_tail(mem, x, h) /\ lists' = [lists EXCEPT ![h] = Append(lists[h], x)]
  BY DEF Li!Add
<1>3. ListsOK(mem', lists')
  BY <1>1, <1>2, ListsAddFront, ListsAddBack
<1> QED
  BY <1>1, <1>3 DEF ListsInv, LoopOK, ListsOK, Li!NoLoop

\* list_del() and list_del_init() do, also when the loop's body calls them.
LEMMA DelStep ==
  ASSUME ListsInv, NEW x \in Nodes, Li!Del(x)
  PROVE  ListsInv'
<1>1. ListsOK(mem, lists) /\ x \in Li!Linked /\ loop' = Li!NoLoop
  BY DEF ListsInv, Li!Del, Li!Outside
<1>2. PICK h \in Use(lists) : \E j \in 1 .. Len(lists[h]) : x = lists[h][j]
  BY <1>1, LinkedIs
<1>3. ListsOK(Li!list_del(mem, x), Li!Taken(x)) /\ ListsOK(Li!list_del_init(mem, x), Li!Taken(x))
  BY <1>1, <1>2, ListsTake
<1>4. ListsOK(mem', lists')
  BY <1>3 DEF Li!Del
<1> QED
  BY <1>1, <1>4 DEF ListsInv, LoopOK, ListsOK, Li!NoLoop

\* The other lists, and the list it was in.
LEMMA TakenAt ==
  ASSUME ListsOK(mem, lists), NEW h \in Use(lists), NEW j \in 1 .. Len(lists[h]),
         NEW x, x = lists[h][j], NEW g \in Use(lists)
  PROVE  /\ g \in Use(Li!Taken(x))
         /\ Li!Taken(x)[g] = IF g = h THEN Cut(lists[h], j) ELSE lists[g]
<1>1. Li!Taken(x) = [lists EXCEPT ![h] = Cut(lists[h], j)]
  BY TakenIs
<1>2. lists[h] \in Seq(Nodes) /\ h \in Heads /\ g \in Heads /\ DOMAIN lists = Heads
  BY InUse DEF ListsOK
<1>3. Cut(lists[h], j) \in Seq(Nodes)
  BY <1>2, CutSeq
<1>4. Li!Taken(x)[g] = IF g = h THEN Cut(lists[h], j) ELSE lists[g]
  BY <1>1, <1>2
<1> QED
  BY <1>2, <1>3, <1>4, NodesUsed DEF Use

\* list_move() and list_move_tail() take the entry out of its list and put
\* it into the other.
LEMMA MoveTo ==
  ASSUME ListsOK(mem, lists), NEW h \in Use(lists), NEW j \in 1 .. Len(lists[h]),
         NEW x \in Nodes, x = lists[h][j], NEW g \in Use(lists)
  PROVE  /\ ListsOK(Li!list_move(mem, x, g), [Li!Taken(x) EXCEPT ![g] = <<x>> \o Li!Taken(x)[g]])
         /\ ListsOK(Li!list_move_tail(mem, x, g), [Li!Taken(x) EXCEPT ![g] = Append(Li!Taken(x)[g], x)])
<1>1. PICK m : m = Li!ListDel(mem, mem.prev[x], mem.next[x])
  OBVIOUS
<1>2. PICK F : F = Li!Taken(x)
  OBVIOUS
<1>3. ListsOK(m, F) /\ Free(F, x) /\ g \in Use(F)
  BY <1>1, <1>2, ListsTake, TakenAt
<1>4. /\ ListsOK(Li!list_add(m, x, g), [F EXCEPT ![g] = <<x>> \o F[g]])
      /\ ListsOK(Li!list_add_tail(m, x, g), [F EXCEPT ![g] = Append(F[g], x)])
  BY <1>3, ListsAddFront, ListsAddBack
<1> QED
  BY <1>1, <1>2, <1>4 DEF Li!list_move, Li!list_move_tail

\* They keep the lists exact and a running loop in place.
LEMMA MoveStep ==
  ASSUME ListsInv, NEW x \in Nodes, NEW g \in Heads, Li!Move(x, g)
  PROVE  ListsInv'
<1>1. ListsOK(mem, lists) /\ x \in Li!Linked /\ loop' = Li!NoLoop /\ g \in Use(lists)
  BY LinkedIs DEF ListsInv, Li!Move, Li!Outside
<1>2. PICK h \in Use(lists) : \E j \in 1 .. Len(lists[h]) : x = lists[h][j]
  BY <1>1, LinkedIs
<1>3. /\ ListsOK(Li!list_move(mem, x, g), [Li!Taken(x) EXCEPT ![g] = <<x>> \o Li!Taken(x)[g]])
      /\ ListsOK(Li!list_move_tail(mem, x, g), [Li!Taken(x) EXCEPT ![g] = Append(Li!Taken(x)[g], x)])
  BY <1>1, <1>2, MoveTo
<1>4. ListsOK(mem', lists')
  BY <1>3 DEF Li!Move
<1> QED
  BY <1>1, <1>4 DEF ListsInv, LoopOK, ListsOK, Li!NoLoop

\* list_splice of an empty list does nothing.
LEMMA SpliceNone ==
  ASSUME NEW m, NEW F, ListsOK(m, F), NEW g \in Use(F), NEW h \in Use(F), g # h, F[g] = <<>>
  PROVE  /\ Li!list_splice(m, g, h) = m /\ Li!list_splice_init(m, g, h) = m
         /\ [F EXCEPT ![h] = F[g] \o F[h], ![g] = <<>>] = F
<1>1. Ring(m.next, m.prev, g, <<>>)
  BY DEF ListsOK
<1>2. m.next[g] = g
  <2>1. Len(<<>>) = 0 /\ 0 \in 0 .. Len(<<>>)
    OBVIOUS
  <2>2. Cell(g, <<>>, 0) = g /\ Cell(g, <<>>, 0 + 1) = g
    BY <2>1 DEF Cell
  <2> QED
    BY <1>1, <2>1, <2>2 DEF Ring
<1>3. F[h] \in Seq(Nodes) /\ h \in Heads /\ g \in Heads
  BY InUse
<1>4. <<>> \o F[h] = F[h]
  BY <1>3, ConcatEmptySeq
<1>5. [F EXCEPT ![h] = F[g] \o F[h], ![g] = <<>>] = F
  BY <1>3, <1>4 DEF ListsOK
<1> QED
  BY <1>2, <1>5 DEF Li!list_splice, Li!list_splice_init, Li!list_empty

\* list_splice() and list_splice_init() of a list that is not empty.
LEMMA SpliceSome ==
  ASSUME NEW m, NEW F, ListsOK(m, F), NEW g \in Use(F), NEW h \in Use(F), g # h, F[g] # <<>>
  PROVE  /\ ListsOK(Li!list_splice(m, g, h), [F EXCEPT ![h] = F[g] \o F[h], ![g] = Li!Unused])
         /\ ListsOK(Li!list_splice_init(m, g, h), [F EXCEPT ![h] = F[g] \o F[h], ![g] = <<>>])
<1>1. PICK m2 : m2 = Li!ListSplice(m, g, h)
  OBVIOUS
<1>2. PICK u : u = F[g] \o F[h]
  OBVIOUS
<1>3. PICK G : G = [[F EXCEPT ![g] = Li!Unused] EXCEPT ![h] = u]
  OBVIOUS
<1>4. ListsOK(m2, G) /\ m.next[g] # g
  BY <1>1, <1>2, <1>3, ListsSplice
<1>5. Li!list_splice(m, g, h) = m2 /\ Li!list_splice_init(m, g, h) = Li!INIT_LIST_HEAD(m2, g)
  BY <1>1, <1>4 DEF Li!list_splice, Li!list_splice_init, Li!list_empty
<1>6. DOMAIN F = Heads /\ g \in Heads /\ h \in Heads
  BY InUse DEF ListsOK
<1>7. G = [F EXCEPT ![h] = u, ![g] = Li!Unused] /\ [G EXCEPT ![g] = <<>>] = [F EXCEPT ![h] = u, ![g] = <<>>]
  <2>1. PICK e, v : e = <<>> /\ v = Li!Unused
    OBVIOUS
  <2>2. PICK B1 : B1 = [F EXCEPT ![h] = u]
    OBVIOUS
  <2>3. G = [B1 EXCEPT ![g] = v]
    BY <1>3, <1>6, <2>1, <2>2
  <2>4. [G EXCEPT ![g] = e] = [B1 EXCEPT ![g] = e]
    <3>1. DOMAIN B1 = Heads
      BY <1>6, <2>2
    <3> QED
      BY <1>6, <2>3, <3>1
  <2> QED
    BY <2>1, <2>2, <2>3, <2>4
<1>8. g \in Heads \ Use(G)
  <2>1. G[g] = Li!Unused
    BY <1>3, <1>6
  <2> QED
    BY <1>6, <2>1 DEF Use
<1>9. ListsOK(Li!INIT_LIST_HEAD(m2, g), [G EXCEPT ![g] = <<>>])
  BY <1>4, <1>8, ListsInit
<1> QED
  BY <1>2, <1>4, <1>5, <1>7, <1>9

\* They keep the lists exact, of an empty list too.
LEMMA SpliceStep ==
  ASSUME ListsInv, NEW g \in Heads, NEW h \in Heads, Li!Splice(g, h)
  PROVE  ListsInv'
<1>1. ListsOK(mem, lists) /\ loop' = Li!NoLoop /\ g \in Use(lists) /\ h \in Use(lists) /\ g # h
  <2>1. Li!Usable = Use(lists)
    BY DEF Li!Usable, Use
  <2> QED
    BY <2>1 DEF ListsInv, Li!Splice, Li!Outside
<1>2. \/ /\ mem' = Li!list_splice(mem, g, h)
         /\ lists' = [lists EXCEPT ![h] = lists[g] \o lists[h],
                                   ![g] = IF lists[g] = <<>> THEN <<>> ELSE Li!Unused]
      \/ /\ mem' = Li!list_splice_init(mem, g, h)
         /\ lists' = [lists EXCEPT ![h] = lists[g] \o lists[h], ![g] = <<>>]
  <2>1. DOMAIN lists = Heads
    BY <1>1 DEF ListsOK
  <2>2. \A u : [lists EXCEPT ![h] = u][g] = lists[g]
    BY <1>1, <2>1
  <2> QED
    BY <1>1, <2>1, <2>2 DEF Li!Splice
<1>3. CASE lists[g] = <<>>
  <2>1. /\ Li!list_splice(mem, g, h) = mem /\ Li!list_splice_init(mem, g, h) = mem
        /\ [lists EXCEPT ![h] = lists[g] \o lists[h], ![g] = <<>>] = lists
    BY <1>1, <1>3, SpliceNone
  <2>2. mem' = mem /\ lists' = lists
    BY <1>2, <1>3, <2>1
  <2>3. ListsOK(mem', lists')
    BY <1>1, <2>2
  <2> QED
    BY <1>1, <2>3 DEF ListsInv, LoopOK, ListsOK, Li!NoLoop
<1>4. CASE lists[g] # <<>>
  <2>1. /\ ListsOK(Li!list_splice(mem, g, h), [lists EXCEPT ![h] = lists[g] \o lists[h], ![g] = Li!Unused])
        /\ ListsOK(Li!list_splice_init(mem, g, h), [lists EXCEPT ![h] = lists[g] \o lists[h], ![g] = <<>>])
    BY <1>1, <1>4, SpliceSome
  <2>2. ListsOK(mem', lists')
    BY <1>2, <1>4, <2>1
  <2> QED
    BY <1>1, <2>2 DEF ListsInv, LoopOK, ListsOK, Li!NoLoop
<1> QED
  BY <1>3, <1>4

\* INIT_LIST_HEAD() makes an empty list.
LEMMA InitHeadStep ==
  ASSUME ListsInv, NEW h \in Heads, Li!InitHead(h)
  PROVE  ListsInv'
<1>1. ListsOK(mem, lists) /\ loop' = Li!NoLoop /\ h \in Heads \ Use(lists)
  BY DEF ListsInv, Li!InitHead, Li!Outside, Li!Usable, Use
<1>2. ListsOK(mem', lists')
  BY <1>1, ListsInit DEF Li!InitHead
<1> QED
  BY <1>1, <1>2 DEF ListsInv, LoopOK, ListsOK, Li!NoLoop

\* list_for_each_safe() starts at the first entry and has loaded the
\* second.
LEMMA SafeBeginStep ==
  ASSUME ListsInv, NEW h \in Heads, Li!SafeBegin(h)
  PROVE  ListsInv'
<1>1. ListsOK(mem, lists) /\ h \in Use(lists) /\ mem' = mem /\ lists' = lists
  BY DEF ListsInv, Li!SafeBegin, Li!Usable, Use
<1>2. LoopOK(loop', mem, lists)
  BY <1>1, LoopBegins DEF Li!SafeBegin
<1>3. LoopOK(loop', mem', lists') /\ ListsOK(mem', lists')
  BY <1>1, <1>2
<1> QED
  BY <1>3 DEF ListsInv, LoopOK, LoopAt, ListsOK

\* A turn of list_for_each_safe() comes to an entry that is still there, or
\* ends.
LEMMA SafeTurnStep ==
  ASSUME ListsInv, Li!SafeTurn
  PROVE  ListsInv'
<1>1. ListsOK(mem, lists) /\ LoopOK(loop, mem, lists) /\ loop.pos \in Nodes
  BY DEF ListsInv, Li!SafeTurn
<1>2. loop \in Loops
  BY <1>1, LoopEntry
<1>3. PICK k \in 1 .. Len(lists[loop.head]) : LoopAt(loop, mem, lists, k) /\ loop.pos = lists[loop.head][k]
  BY <1>1, LoopEntry
<1>4. PICK h, x : h = loop.head /\ x = loop.pos
  OBVIOUS
<1>5. h \in Use(lists) /\ x \in Nodes /\ k \in 1 .. Len(lists[h]) /\ x = lists[h][k]
  BY <1>1, <1>3, <1>4 DEF LoopAt
<1>6. /\ h \in Use(Li!Taken(x)) /\ Li!Taken(x)[h] = Cut(lists[h], k)
      /\ \A g \in Use(lists) \ {h} : g \in Use(Li!Taken(x))
  BY <1>1, <1>5, TakenAt
<1>7. /\ ListsOK(mem', lists') /\ h \in Use(lists')
      /\ lists'[h] = lists[h] \/ lists'[h] = Cut(lists[h], k)
  <2>1. CASE mem' = mem /\ lists' = lists
    BY <1>1, <1>5, <2>1
  <2>2. CASE mem' = Li!list_del(mem, x) /\ lists' = Li!Taken(x)
    <3>1. ListsOK(Li!list_del(mem, x), Li!Taken(x))
      BY <1>1, <1>5, ListsTake
    <3> QED
      BY <1>6, <2>2, <3>1
  <2>3. ASSUME NEW g \in Use(lists) \ {h}, mem' = Li!list_move(mem, x, g),
               lists' = [Li!Taken(x) EXCEPT ![g] = <<x>> \o Li!Taken(x)[g]]
        PROVE  ListsOK(mem', lists') /\ h \in Use(lists') /\ lists'[h] = Cut(lists[h], k)
    <3>1. ListsOK(mem', lists')
      BY <1>1, <1>5, <2>3, MoveTo
    <3>2. lists'[h] = Li!Taken(x)[h]
      <4>1. h \in DOMAIN Li!Taken(x) /\ h # g
        BY <1>5, InUse, <1>1 DEF Li!Taken
      <4> QED
        BY <2>3, <4>1
    <3>3. h \in Use(lists')
      BY <1>6, <3>2 DEF Use
    <3> QED
      BY <1>6, <3>1, <3>2, <3>3
  <2>4. \/ mem' = mem /\ lists' = lists
        \/ mem' = Li!list_del(mem, x) /\ lists' = Li!Taken(x)
        \/ \E g \in Use(lists) \ {h} :
             mem' = Li!list_move(mem, x, g) /\ lists' = [Li!Taken(x) EXCEPT ![g] = <<x>> \o Li!Taken(x)[g]]
    BY <1>4 DEF Li!SafeTurn, Li!Usable, Use
  <2> QED
    BY <2>1, <2>2, <2>3, <2>4
<1>8. mem' \in Heaps(Cells)
  BY <1>7 DEF ListsOK
<1>9. LoopOK(loop', mem', lists')
  <2>1. PICK l \in Loops : l = loop /\ LoopAt(l, mem, lists, k)
    BY <1>2, <1>3
  <2>2. k \in 1 .. Len(lists[l.head]) /\ l.pos = lists[l.head][k] /\ l.head \in Use(lists')
        /\ (lists'[l.head] = lists[l.head] \/ lists'[l.head] = Cut(lists[l.head], k))
    BY <1>3, <1>4, <1>7, <2>1
  <2>3. LoopOK(Li!Following([l EXCEPT !.left = Li!Without(@, l.pos)], mem'), mem', lists')
    BY <1>1, <1>8, <2>1, <2>2, LoopTurns
  <2> QED
    BY <2>1, <2>3 DEF Li!SafeTurn
<1> QED
  BY <1>7, <1>9 DEF ListsInv, LoopOK, LoopAt, ListsOK

\* Every call keeps the lists.
LEMMA ListsNext ==
  ASSUME ListsInv, Li!Next
  PROVE  ListsInv'
<1>1. CASE mem' = mem /\ lists' = lists /\ loop' = loop
  BY <1>1 DEF ListsInv, LoopOK, LoopAt, ListsOK
<1>2. CASE mem' = mem /\ lists' = lists /\ loop' = Li!NoLoop
  BY <1>2 DEF ListsInv, LoopOK, ListsOK, Li!NoLoop
<1>3. ASSUME NEW x \in Nodes,
             \/ Li!Del(x) \/ Li!HlistDelete(x)
             \/ \E h \in Heads : Li!Add(x, h) \/ Li!Move(x, h) \/ Li!HlistAddHead(x, h)
             \/ \E y \in Nodes : Li!HlistAddBeside(x, y)
      PROVE  ListsInv'
  <2>1. CASE Li!Del(x) \/ \E h \in Heads : Li!Add(x, h) \/ Li!Move(x, h)
    BY <2>1, ListAddStep, DelStep, MoveStep
  <2>2. CASE Li!HlistDelete(x) \/ (\E h \in Heads : Li!HlistAddHead(x, h)) \/ \E y \in Nodes : Li!HlistAddBeside(x, y)
    <3>1. Li!HlistOutside
      BY <2>2 DEF Li!HlistDelete, Li!HlistAddHead, Li!HlistAddBeside
    <3> QED
      BY <1>1, <3>1 DEF Li!HlistOutside
  <2> QED
    BY <1>3, <2>1, <2>2
<1>4. ASSUME NEW h \in Heads,
             Li!InitHead(h) \/ Li!SafeBegin(h) \/ \E g \in Heads : Li!Splice(g, h)
      PROVE  ListsInv'
  BY <1>4, InitHeadStep, SafeBeginStep, SpliceStep
<1>5. CASE Li!SafeEnd
  BY <1>2, <1>5 DEF Li!SafeEnd
<1> QED
  BY <1>3, <1>4, <1>5, SafeTurnStep DEF Li!Next

\* There are no lists at first.
LEMMA ListsStart ==
  ASSUME Li!Init
  PROVE  ListsInv
<1>1. mem \in Heaps(Cells) /\ \A h \in Heads : mem.next[h] = h /\ mem.prev[h] = h
  BY DEF Li!Init, Heaps, Cells, Li!Cells
<1>2. lists \in [Heads -> Seq(Nodes) \cup {Li!Unused}] /\ \A h \in Heads : lists[h] = <<>> /\ h \in Cells
  BY DEF Li!Init, Cells
<1>3. \A h \in Use(lists) : Plain(Cells, h, lists[h]) /\ Ring(mem.next, mem.prev, h, lists[h])
  <2> TAKE h \in Use(lists)
  <2>1. h \in Heads /\ lists[h] = <<>> /\ h \in Cells /\ mem.next[h] = h /\ mem.prev[h] = h
    BY <1>1, <1>2 DEF Use
  <2>2. Plain(Cells, h, <<>>) /\ Ring(mem.next, mem.prev, h, <<>>)
    BY <2>1, RingEmpty
  <2> QED
    BY <2>1, <2>2
<1>4. \A g, h \in Use(lists) : \A i \in 1 .. Len(lists[g]), j \in 1 .. Len(lists[h]) :
        lists[g][i] = lists[h][j] => g = h
  <2>1. \A g \in Use(lists) : Len(lists[g]) = 0
    BY <1>2 DEF Use
  <2> QED
    BY <2>1
<1>5. ListsOK(mem, lists)
  BY <1>1, <1>2, <1>3, <1>4 DEF ListsOK
<1> QED
  BY <1>5 DEF ListsInv, LoopOK, Li!Init

----------------------------------------------------------------------------
(* list.h: hlists                                                          *)

\* The places that hold a pointer to a node: h->first and x->next.
From(h) == <<"first", h>>
On(x) == <<"next", x>>

\* The places that hold a pointer to a node, the heads' first and the
\* nodes' next, are all different.
LEMMA PlaceIs ==
  /\ \A h \in Heads : From(h) \in Li!Places
  /\ \A x \in Nodes : On(x) \in Li!Places
  /\ \A x, y : On(x) = On(y) => x = y
  /\ \A g, h : From(g) = From(h) => g = h
  /\ \A x, h : On(x) # From(h)
BY DEF From, On, Li!Places

\* The places of an hlist in turn, and what they point at.
Spot(h, s, i) == IF i = 0 THEN From(h) ELSE On(s[i])
Item(s, i) == IF i \in 1 .. Len(s) THEN s[i] ELSE NIL

Distinct(s) == \A i, j \in 1 .. Len(s) : s[i] = s[j] => i = j

Chain(w, h, s) ==
  /\ \A i \in 0 .. Len(s) : w.at[Spot(h, s, i)] = Item(s, i + 1)
  /\ \A i \in 1 .. Len(s) : w.pprev[s[i]] = Spot(h, s, i - 1)

HHeaps == [at : [Li!Places -> Nodes \cup {NIL, POISON}],
           pprev : [Nodes -> Li!Places \cup {NIL, POISON}]]

\* What an insertion of x does that makes the place p point at it and x->next
\* at q, and what the deletion does that makes p point at q again.
Added(w, w2, p, x, q) ==
  /\ \A c \in Li!Places : w2.at[c] = IF c = p THEN x ELSE IF c = On(x) THEN q ELSE w.at[c]
  /\ \A y \in Nodes : w2.pprev[y] = IF y = x THEN p ELSE IF y = q THEN On(x) ELSE w.pprev[y]
Removed(w, w2, p, x, q) ==
  /\ \A c \in Li!Places \ {On(x)} : w2.at[c] = IF c = p THEN q ELSE w.at[c]
  /\ \A y \in Nodes \ {x} : w2.pprev[y] = IF y = q THEN p ELSE w.pprev[y]
  /\ w2.pprev[x] \in {NIL, POISON}

\* The places of an hlist are different and none is in a node outside it.
LEMMA SpotIs ==
  ASSUME NEW h \in Heads, NEW s \in Seq(Nodes), Distinct(s)
  PROVE  /\ \A i \in 0 .. Len(s) : Spot(h, s, i) \in Li!Places
         /\ \A i, j \in 0 .. Len(s) : Spot(h, s, i) = Spot(h, s, j) => i = j
         /\ \A i, j \in 1 .. Len(s) + 1 : Item(s, i) = Item(s, j) => i = j
         /\ \A x : (\A i \in 1 .. Len(s) : s[i] # x) => \A i \in 0 .. Len(s) : Spot(h, s, i) # On(x)
<1>1. Len(s) \in Nat /\ \A i \in 1 .. Len(s) : s[i] \in Nodes /\ s[i] # NIL
  BY ListsAssumption
<1>2. \A i \in 0 .. Len(s) : i # 0 => i \in 1 .. Len(s)
  BY <1>1
<1>3. \A i \in 0 .. Len(s) : Spot(h, s, i) \in Li!Places
  BY <1>1, <1>2, PlaceIs DEF Spot
<1>4. ASSUME NEW i \in 0 .. Len(s), NEW j \in 0 .. Len(s), Spot(h, s, i) = Spot(h, s, j)
      PROVE  i = j
  BY <1>2, <1>4, PlaceIs DEF Spot, Distinct
<1>5. ASSUME NEW i \in 1 .. Len(s) + 1, NEW j \in 1 .. Len(s) + 1, Item(s, i) = Item(s, j)
      PROVE  i = j
  BY <1>1, <1>5 DEF Item, Distinct
<1>6. ASSUME NEW x, \A i \in 1 .. Len(s) : s[i] # x, NEW i \in 0 .. Len(s)
      PROVE  Spot(h, s, i) # On(x)
  BY <1>2, <1>6, PlaceIs DEF Spot
<1> QED
  BY <1>3, <1>4, <1>5, <1>6

\* The places and nodes of an hlist after a Put.
LEMMA SpotPut ==
  ASSUME NEW h, NEW s \in Seq(Nodes), NEW j \in 0 .. Len(s), NEW x \in Nodes
  PROVE  /\ \A i \in 0 .. Len(s) + 1 :
              Spot(h, Put(s, j, x), i) =
                IF i <= j THEN Spot(h, s, i) ELSE IF i = j + 1 THEN On(x) ELSE Spot(h, s, i - 1)
         /\ \A i \in 1 .. Len(s) + 2 :
              Item(Put(s, j, x), i) =
                IF i <= j THEN Item(s, i) ELSE IF i = j + 1 THEN x ELSE Item(s, i - 1)
<1>1. /\ Len(s) \in Nat /\ Len(Put(s, j, x)) = Len(s) + 1
      /\ \A i \in 1 .. Len(s) + 1 :
           Put(s, j, x)[i] = IF i <= j THEN s[i] ELSE IF i = j + 1 THEN x ELSE s[i - 1]
  BY PutIs
<1>2. ASSUME NEW i \in 0 .. Len(s) + 1
      PROVE  Spot(h, Put(s, j, x), i) =
               IF i <= j THEN Spot(h, s, i) ELSE IF i = j + 1 THEN On(x) ELSE Spot(h, s, i - 1)
  <2>1. CASE i = 0
    BY <1>1, <2>1 DEF Spot
  <2>2. CASE i # 0
    <3>1. i \in 1 .. Len(s) + 1
      BY <1>1, <2>2
    <3>2. ~ (i <= j) /\ i # j + 1 => i - 1 # 0
      BY <1>1, <3>1
    <3> QED
      BY <1>1, <2>2, <3>1, <3>2 DEF Spot
  <2> QED
    BY <2>1, <2>2
<1>3. ASSUME NEW i \in 1 .. Len(s) + 2
      PROVE  Item(Put(s, j, x), i) =
               IF i <= j THEN Item(s, i) ELSE IF i = j + 1 THEN x ELSE Item(s, i - 1)
  BY <1>1 DEF Item
<1> QED
  BY <1>2, <1>3

\* The places and nodes of an hlist after a Cut.
LEMMA SpotCut ==
  ASSUME NEW h, NEW s \in Seq(Nodes), NEW j \in 1 .. Len(s)
  PROVE  /\ \A i \in 0 .. Len(s) - 1 :
              Spot(h, Cut(s, j), i) = IF i < j THEN Spot(h, s, i) ELSE Spot(h, s, i + 1)
         /\ \A i \in 1 .. Len(s) :
              Item(Cut(s, j), i) = IF i < j THEN Item(s, i) ELSE Item(s, i + 1)
<1>1. /\ Len(s) \in Nat /\ Len(Cut(s, j)) = Len(s) - 1
      /\ \A i \in 1 .. Len(s) - 1 : Cut(s, j)[i] = IF i < j THEN s[i] ELSE s[i + 1]
  BY CutIs
<1>2. ASSUME NEW i \in 0 .. Len(s) - 1
      PROVE  Spot(h, Cut(s, j), i) = IF i < j THEN Spot(h, s, i) ELSE Spot(h, s, i + 1)
  <2>1. CASE i = 0
    BY <1>1, <2>1 DEF Spot
  <2>2. CASE i # 0
    <3>1. i \in 1 .. Len(s) - 1 /\ i + 1 # 0
      BY <1>1, <2>2
    <3> QED
      BY <1>1, <2>2, <3>1 DEF Spot
  <2> QED
    BY <2>1, <2>2
<1>3. ASSUME NEW i \in 1 .. Len(s)
      PROVE  Item(Cut(s, j), i) = IF i < j THEN Item(s, i) ELSE Item(s, i + 1)
  BY <1>1 DEF Item
<1> QED
  BY <1>2, <1>3

\* Adding a node at a place of the chain is a Put.
LEMMA ChainPut ==
  ASSUME NEW h \in Heads, NEW s \in Seq(Nodes), Distinct(s), NEW w, Chain(w, h, s),
         NEW j \in 0 .. Len(s), NEW x \in Nodes, \A i \in 1 .. Len(s) : s[i] # x,
         NEW w2, NEW p, p = Spot(h, s, j), NEW q, q = Item(s, j + 1), Added(w, w2, p, x, q)
  PROVE  Chain(w2, h, Put(s, j, x))
<1>1. PICK t \in Seq(Nodes) : t = Put(s, j, x) /\ Len(t) = Len(s) + 1
  <2>1. Put(s, j, x) \in Seq(Nodes) /\ Len(Put(s, j, x)) = Len(s) + 1
    BY PutSeq
  <2> QED
    BY <2>1
<1>2. /\ Len(s) \in Nat
      /\ \A i \in 0 .. Len(s) : Spot(h, s, i) \in Li!Places /\ Spot(h, s, i) # On(x)
      /\ \A i, k \in 0 .. Len(s) : Spot(h, s, i) = Spot(h, s, k) => i = k
      /\ \A i, k \in 1 .. Len(s) + 1 : Item(s, i) = Item(s, k) => i = k
  BY SpotIs
<1>3. /\ \A i \in 0 .. Len(s) : w.at[Spot(h, s, i)] = Item(s, i + 1)
      /\ \A i \in 1 .. Len(s) : w.pprev[Item(s, i)] = Spot(h, s, i - 1) /\ Item(s, i) \in Nodes \ {x}
  BY DEF Chain, Item
<1>4. /\ \A i \in 0 .. Len(s) + 1 :
           Spot(h, t, i) = IF i <= j THEN Spot(h, s, i) ELSE IF i = j + 1 THEN On(x) ELSE Spot(h, s, i - 1)
      /\ \A i \in 1 .. Len(s) + 2 :
           Item(t, i) = IF i <= j THEN Item(s, i) ELSE IF i = j + 1 THEN x ELSE Item(s, i - 1)
  BY <1>1, SpotPut
<1>5. /\ \A c \in Li!Places : w2.at[c] = IF c = p THEN x ELSE IF c = On(x) THEN q ELSE w.at[c]
      /\ \A y \in Nodes : w2.pprev[y] = IF y = x THEN p ELSE IF y = q THEN On(x) ELSE w.pprev[y]
  BY DEF Added
<1>6. ASSUME NEW i \in 0 .. Len(s), i # j
      PROVE  w2.at[Spot(h, s, i)] = Item(s, i + 1)
  BY <1>2, <1>3, <1>5, <1>6
<1>7. ASSUME NEW i \in 1 .. Len(s), i # j + 1
      PROVE  w2.pprev[Item(s, i)] = Spot(h, s, i - 1)
  <2>1. j + 1 \in 1 .. Len(s) + 1 /\ i \in 1 .. Len(s) + 1
    BY <1>2
  <2>2. Item(s, i) # q /\ Item(s, i) # x /\ Item(s, i) \in Nodes
    BY <1>2, <1>3, <1>7, <2>1
  <2> QED
    BY <1>3, <1>5, <2>2
<1>8. ASSUME NEW i \in 0 .. Len(s) + 1
      PROVE  w2.at[Spot(h, t, i)] = Item(t, i + 1)
  <2>1. CASE i < j
    BY <1>2, <1>4, <1>6, <2>1
  <2>2. CASE i = j
    BY <1>2, <1>4, <1>5, <2>2
  <2>3. CASE i = j + 1
    <3>1. Spot(h, t, i) = On(x) /\ Item(t, i + 1) = Item(s, j + 1)
      BY <1>2, <1>4, <2>3
    <3>2. On(x) \in Li!Places /\ On(x) # p
      BY <1>2, PlaceIs
    <3> QED
      BY <1>5, <3>1, <3>2
  <2>4. CASE i > j + 1
    <3>1. PICK k \in 0 .. Len(s) : i = k + 1 /\ k # j
      <4>1. i - 1 \in 0 .. Len(s) /\ i = (i - 1) + 1 /\ i - 1 # j
        BY <1>2, <2>4
      <4> QED
        BY <4>1
    <3>2. Spot(h, t, i) = Spot(h, s, k) /\ Item(t, i + 1) = Item(s, k + 1)
      BY <1>2, <1>4, <2>4, <3>1
    <3> QED
      BY <1>6, <3>1, <3>2
  <2> QED
    BY <1>2, <2>1, <2>2, <2>3, <2>4
<1>9. ASSUME NEW i \in 1 .. Len(s) + 1
      PROVE  w2.pprev[Item(t, i)] = Spot(h, t, i - 1)
  <2>1. CASE i <= j
    <3>1. i \in 1 .. Len(s) /\ i # j + 1 /\ Item(t, i) = Item(s, i) /\ Spot(h, t, i - 1) = Spot(h, s, i - 1)
      BY <1>2, <1>4, <2>1
    <3> QED
      BY <1>7, <3>1
  <2>2. CASE i = j + 1
    <3>1. Item(t, i) = x /\ Spot(h, t, i - 1) = p
      BY <1>2, <1>4, <2>2
    <3> QED
      BY <1>5, <3>1
  <2>3. CASE i = j + 2
    <3>1. Item(t, i) = q /\ Spot(h, t, i - 1) = On(x) /\ j + 1 \in 1 .. Len(s)
      BY <1>2, <1>4, <2>3
    <3>2. q \in Nodes /\ q # x
      BY <1>3, <3>1
    <3> QED
      BY <1>5, <3>1, <3>2
  <2>4. CASE i > j + 2
    <3>1. PICK k \in 1 .. Len(s) : i = k + 1 /\ k # j + 1 /\ k > j + 1
      <4>1. i - 1 \in 1 .. Len(s) /\ i = (i - 1) + 1 /\ i - 1 > j + 1 /\ i - 1 # j + 1
        BY <1>2, <2>4
      <4> QED
        BY <4>1
    <3>2. Item(t, i) = Item(s, k) /\ Spot(h, t, i - 1) = Spot(h, s, k - 1)
      BY <1>2, <1>4, <2>4, <3>1
    <3> QED
      BY <1>7, <3>1, <3>2
  <2> QED
    BY <1>2, <2>1, <2>2, <2>3, <2>4
<1>10. \A i \in 1 .. Len(t) : w2.pprev[t[i]] = Spot(h, t, i - 1)
  <2> TAKE i \in 1 .. Len(t)
  <2>1. Item(t, i) = t[i]
    BY DEF Item
  <2> QED
    BY <1>1, <1>9, <2>1
<1> QED
  BY <1>1, <1>8, <1>10 DEF Chain

\* Removing the node at a place of the chain is a Cut.
LEMMA ChainCut ==
  ASSUME NEW h \in Heads, NEW s \in Seq(Nodes), Distinct(s), NEW w, Chain(w, h, s),
         NEW j \in 1 .. Len(s), NEW x, x = s[j],
         NEW w2, NEW p, p = Spot(h, s, j - 1), NEW q, q = Item(s, j + 1), Removed(w, w2, p, x, q)
  PROVE  Chain(w2, h, Cut(s, j))
<1>1. PICK t \in Seq(Nodes) : t = Cut(s, j) /\ Len(t) = Len(s) - 1
  <2>1. Cut(s, j) \in Seq(Nodes) /\ Len(Cut(s, j)) = Len(s) - 1
    BY CutSeq
  <2> QED
    BY <2>1
<1>2. /\ Len(s) \in Nat
      /\ \A i \in 0 .. Len(s) : Spot(h, s, i) \in Li!Places
      /\ \A i, k \in 0 .. Len(s) : Spot(h, s, i) = Spot(h, s, k) => i = k
      /\ \A i, k \in 1 .. Len(s) + 1 : Item(s, i) = Item(s, k) => i = k
  BY SpotIs
<1>3. /\ \A i \in 0 .. Len(s) : w.at[Spot(h, s, i)] = Item(s, i + 1)
      /\ \A i \in 1 .. Len(s) : w.pprev[Item(s, i)] = Spot(h, s, i - 1) /\ Item(s, i) \in Nodes
      /\ Item(s, j) = x
  BY DEF Chain, Item
<1>4. Spot(h, s, j) = On(x)
  BY DEF Spot
<1>5. /\ \A i \in 0 .. Len(s) - 1 :
           Spot(h, t, i) = IF i < j THEN Spot(h, s, i) ELSE Spot(h, s, i + 1)
      /\ \A i \in 1 .. Len(s) :
           Item(t, i) = IF i < j THEN Item(s, i) ELSE Item(s, i + 1)
  BY <1>1, SpotCut
<1>6. /\ \A c \in Li!Places \ {On(x)} : w2.at[c] = IF c = p THEN q ELSE w.at[c]
      /\ \A y \in Nodes \ {x} : w2.pprev[y] = IF y = q THEN p ELSE w.pprev[y]
  BY DEF Removed
<1>7. ASSUME NEW i \in 0 .. Len(s), i # j, i # j - 1
      PROVE  w2.at[Spot(h, s, i)] = Item(s, i + 1)
  <2>1. j \in 0 .. Len(s) /\ j - 1 \in 0 .. Len(s)
    BY <1>2
  <2>2. Spot(h, s, i) # p /\ Spot(h, s, i) # On(x) /\ Spot(h, s, i) \in Li!Places
    BY <1>2, <1>4, <1>7, <2>1
  <2> QED
    BY <1>3, <1>6, <2>2
<1>8. ASSUME NEW i \in 1 .. Len(s), i # j, i # j + 1
      PROVE  w2.pprev[Item(s, i)] = Spot(h, s, i - 1)
  <2>1. j + 1 \in 1 .. Len(s) + 1 /\ i \in 1 .. Len(s) + 1 /\ j \in 1 .. Len(s) + 1
    BY <1>2
  <2>2. Item(s, i) # q /\ Item(s, i) # x /\ Item(s, i) \in Nodes
    BY <1>2, <1>3, <1>8, <2>1
  <2> QED
    BY <1>3, <1>6, <2>2
<1>9. ASSUME NEW i \in 0 .. Len(s) - 1
      PROVE  w2.at[Spot(h, t, i)] = Item(t, i + 1)
  <2>1. CASE i < j - 1
    <3>1. i \in 0 .. Len(s) /\ i # j /\ i # j - 1 /\ Spot(h, t, i) = Spot(h, s, i) /\ Item(t, i + 1) = Item(s, i + 1)
      BY <1>2, <1>5, <2>1
    <3> QED
      BY <1>7, <3>1
  <2>2. CASE i = j - 1
    <3>1. Spot(h, t, i) = p /\ Item(t, i + 1) = q
      BY <1>2, <1>5, <2>2
    <3>2. p \in Li!Places /\ p # On(x)
      BY <1>2, <1>4
    <3> QED
      BY <1>6, <3>1, <3>2
  <2>3. CASE i > j - 1
    <3>1. PICK k \in 0 .. Len(s) : k = i + 1 /\ k # j /\ k # j - 1
      BY <1>2, <2>3
    <3>2. Spot(h, t, i) = Spot(h, s, k) /\ Item(t, i + 1) = Item(s, k + 1)
      BY <1>2, <1>5, <2>3, <3>1
    <3> QED
      BY <1>7, <3>1, <3>2
  <2> QED
    BY <1>2, <2>1, <2>2, <2>3
<1>10. ASSUME NEW i \in 1 .. Len(s) - 1
       PROVE  w2.pprev[Item(t, i)] = Spot(h, t, i - 1)
  <2>1. CASE i < j
    <3>1. i \in 1 .. Len(s) /\ i # j /\ i # j + 1 /\ Item(t, i) = Item(s, i) /\ Spot(h, t, i - 1) = Spot(h, s, i - 1)
      BY <1>2, <1>5, <2>1
    <3> QED
      BY <1>8, <3>1
  <2>2. CASE i = j
    <3>1. Item(t, i) = q /\ Spot(h, t, i - 1) = p /\ j + 1 \in 1 .. Len(s)
      BY <1>2, <1>5, <2>2
    <3>2. q \in Nodes /\ q # x
      BY <1>2, <1>3, <3>1
    <3> QED
      BY <1>6, <3>1, <3>2
  <2>3. CASE i > j
    <3>1. PICK k \in 1 .. Len(s) : k = i + 1 /\ k # j /\ k # j + 1
      BY <1>2, <2>3
    <3>2. Item(t, i) = Item(s, k) /\ Spot(h, t, i - 1) = Spot(h, s, k - 1)
      BY <1>2, <1>5, <2>3, <3>1
    <3> QED
      BY <1>8, <3>1, <3>2
  <2> QED
    BY <1>2, <2>1, <2>2, <2>3
<1>11. \A i \in 1 .. Len(t) : w2.pprev[t[i]] = Spot(h, t, i - 1)
  <2> TAKE i \in 1 .. Len(t)
  <2>1. Item(t, i) = t[i]
    BY DEF Item
  <2> QED
    BY <1>1, <1>10, <2>1
<1> QED
  BY <1>1, <1>9, <1>11 DEF Chain

\* What happens elsewhere leaves a chain alone.
LEMMA ChainSame ==
  ASSUME NEW h \in Heads, NEW s \in Seq(Nodes), NEW w, Chain(w, h, s), NEW w2,
         \A i \in 0 .. Len(s) : w2.at[Spot(h, s, i)] = w.at[Spot(h, s, i)],
         \A i \in 1 .. Len(s) : w2.pprev[s[i]] = w.pprev[s[i]]
  PROVE  Chain(w2, h, s)
BY DEF Chain

\* No hlist has the node x.
HFree(F, x) == \A h \in Heads : \A i \in 1 .. Len(F[h]) : F[h][i] # x

\* The heap w has the hlists F, and a node in none of them knows it.
HlistsOK(w, F) ==
  /\ w \in HHeaps
  /\ F \in [Heads -> Seq(Nodes)]
  /\ \A h \in Heads : Distinct(F[h]) /\ Chain(w, h, F[h])
  /\ \A g, h \in Heads : \A i \in 1 .. Len(F[g]), j \in 1 .. Len(F[h]) :
       F[g][i] = F[h][j] => g = h
  /\ \A x \in Nodes : HFree(F, x) => w.pprev[x] \in {NIL, POISON}

\* An hlist changes and the others stay: what is left to show.
LEMMA HlistsChange ==
  ASSUME NEW w, NEW F, HlistsOK(w, F), NEW h \in Heads, NEW s \in Seq(Nodes), Distinct(s),
         NEW w2 \in HHeaps, Chain(w2, h, s),
         \A g \in Heads \ {h} :
           /\ Chain(w2, g, F[g])
           /\ \A i \in 1 .. Len(F[g]) : \A j \in 1 .. Len(s) : s[j] # F[g][i],
         \A x \in Nodes : HFree([F EXCEPT ![h] = s], x) => w2.pprev[x] \in {NIL, POISON}
  PROVE  HlistsOK(w2, [F EXCEPT ![h] = s])
<1>1. PICK G : G = [F EXCEPT ![h] = s]
  OBVIOUS
<1>2. /\ F \in [Heads -> Seq(Nodes)] /\ \A g \in Heads : Distinct(F[g])
      /\ \A g, k \in Heads : \A i \in 1 .. Len(F[g]), j \in 1 .. Len(F[k]) :
           F[g][i] = F[k][j] => g = k
  BY DEF HlistsOK
<1>3. G \in [Heads -> Seq(Nodes)] /\ G[h] = s /\ \A g \in Heads \ {h} : G[g] = F[g]
  BY <1>1, <1>2
<1>4. \A g \in Heads : Distinct(G[g]) /\ Chain(w2, g, G[g])
  BY <1>2, <1>3
<1>5. ASSUME NEW g \in Heads, NEW k \in Heads, NEW i \in 1 .. Len(G[g]), NEW j \in 1 .. Len(G[k]),
             G[g][i] = G[k][j]
      PROVE  g = k
  <2>1. CASE g = h /\ k # h
    BY <2>1, <1>3, <1>5
  <2>2. CASE g # h /\ k = h
    BY <2>2, <1>3, <1>5
  <2>3. CASE g # h /\ k # h
    BY <2>3, <1>2, <1>3, <1>5
  <2> QED
    BY <2>1, <2>2, <2>3
<1>6. \A x \in Nodes : HFree(G, x) => w2.pprev[x] \in {NIL, POISON}
  BY <1>1
<1>7. HlistsOK(w2, G)
  BY <1>3, <1>4, <1>5, <1>6 DEF HlistsOK
<1> QED
  BY <1>1, <1>7

\* The places of two hlists are different, and so are their nodes.
LEMMA Apart ==
  ASSUME NEW w, NEW F, HlistsOK(w, F), NEW g \in Heads, NEW h \in Heads, g # h
  PROVE  /\ \A i \in 0 .. Len(F[g]), j \in 0 .. Len(F[h]) : Spot(g, F[g], i) # Spot(h, F[h], j)
         /\ \A i \in 1 .. Len(F[g]), j \in Nat : F[g][i] # Item(F[h], j)
<1>1. /\ F[g] \in Seq(Nodes) /\ F[h] \in Seq(Nodes)
      /\ \A i \in 1 .. Len(F[g]), j \in 1 .. Len(F[h]) : F[g][i] # F[h][j]
  BY DEF HlistsOK
<1>2. /\ \A i \in 0 .. Len(F[g]) : i # 0 => i \in 1 .. Len(F[g])
      /\ \A i \in 0 .. Len(F[h]) : i # 0 => i \in 1 .. Len(F[h])
  BY <1>1
<1>3. \A i \in 0 .. Len(F[g]), j \in 0 .. Len(F[h]) : Spot(g, F[g], i) # Spot(h, F[h], j)
  BY <1>1, <1>2, PlaceIs DEF Spot
<1>4. \A i \in 1 .. Len(F[g]), j \in Nat : F[g][i] # Item(F[h], j)
  <2>1. \A i \in 1 .. Len(F[g]) : F[g][i] # NIL
    BY <1>1, ListsAssumption
  <2> QED
    BY <1>1, <2>1 DEF Item
<1> QED
  BY <1>3, <1>4

\* A free node put behind the first j nodes of an hlist.
LEMMA HlistsPut ==
  ASSUME NEW w, NEW F, HlistsOK(w, F), NEW h \in Heads, NEW j \in 0 .. Len(F[h]),
         NEW x \in Nodes, HFree(F, x), NEW w2 \in HHeaps,
         NEW p, p = Spot(h, F[h], j), NEW q, q = Item(F[h], j + 1), Added(w, w2, p, x, q)
  PROVE  HlistsOK(w2, [F EXCEPT ![h] = Put(F[h], j, x)])
<1>1. PICK s \in Seq(Nodes) : s = F[h]
  BY DEF HlistsOK
<1>2. /\ Distinct(s) /\ Chain(w, h, s) /\ Len(s) \in Nat /\ j \in 0 .. Len(s)
      /\ \A i \in 1 .. Len(s) : s[i] # x
  BY <1>1 DEF HlistsOK, HFree
<1>3. PICK t \in Seq(Nodes) : t = Put(s, j, x) /\ Len(t) = Len(s) + 1
  <2>1. Put(s, j, x) \in Seq(Nodes) /\ Len(Put(s, j, x)) = Len(s) + 1
    BY <1>1, PutSeq
  <2> QED
    BY <2>1
<1>4. Distinct(t)
  <2>1. \A i, k \in 1 .. Len(s) + 1 : Put(s, j, x)[i] = Put(s, j, x)[k] => i = k
    <3>1. \A i, k \in 1 .. Len(s) : s[i] = s[k] => i = k
      BY <1>2 DEF Distinct
    <3>2. j \in 0 .. Len(s) /\ \A i \in 1 .. Len(s) : s[i] # x
      BY <1>2
    <3> QED
      BY <3>1, <3>2, PutDistinct
  <2> QED
    BY <1>3, <2>1 DEF Distinct
<1>5. Chain(w2, h, t)
  BY <1>1, <1>2, <1>3, ChainPut
<1>6. \A i \in 1 .. Len(t) : t[i] = x \/ \E k \in 1 .. Len(s) : t[i] = s[k]
  <2>1. \A i \in 1 .. Len(s) + 1 : Put(s, j, x)[i] = x \/ \E k \in 1 .. Len(s) : Put(s, j, x)[i] = s[k]
    <3> TAKE i \in 1 .. Len(s) + 1
    <3>1. j \in 0 .. Len(s)
      BY <1>2
    <3> QED
      BY <3>1, PutHas
  <2> QED
    BY <1>3, <2>1
<1>7. ASSUME NEW g \in Heads \ {h}
      PROVE  /\ Chain(w2, g, F[g])
             /\ \A i \in 1 .. Len(F[g]) : \A k \in 1 .. Len(t) : t[k] # F[g][i]
  <2>1. F[g] \in Seq(Nodes) /\ Distinct(F[g]) /\ Chain(w, g, F[g]) /\ \A i \in 1 .. Len(F[g]) : F[g][i] # x
    BY DEF HlistsOK, HFree
  <2>2. \A i \in 0 .. Len(F[g]) : Spot(g, F[g], i) # p /\ Spot(g, F[g], i) \in Li!Places /\ Spot(g, F[g], i) # On(x)
    BY <2>1, Apart, SpotIs
  <2>3. \A i \in 1 .. Len(F[g]) : F[g][i] # q /\ F[g][i] \in Nodes
    <3>1. j + 1 \in Nat
      BY <1>1, <1>2
    <3> QED
      BY <2>1, <3>1, Apart
  <2>4. Chain(w2, g, F[g])
    BY <2>1, <2>2, <2>3, ChainSame DEF Added
  <2>5. \A i \in 1 .. Len(F[g]), k \in 1 .. Len(s) : s[k] # F[g][i]
    BY <1>1 DEF HlistsOK
  <2> QED
    BY <1>6, <2>1, <2>4, <2>5
<1>8. ASSUME NEW y \in Nodes, HFree([F EXCEPT ![h] = t], y)
      PROVE  w2.pprev[y] \in {NIL, POISON}
  <2>1. PICK G : G = [F EXCEPT ![h] = t]
    OBVIOUS
  <2>2. G[h] = t /\ \A g \in Heads \ {h} : G[g] = F[g]
    BY <2>1 DEF HlistsOK
  <2>3. \A i \in 1 .. Len(t) : t[i] # y
    BY <1>8, <2>1, <2>2 DEF HFree
  <2>4. x # y /\ \A i \in 1 .. Len(s) : s[i] # y
    <3>1. \A i \in 1 .. Len(s) + 1 : t[i] = IF i <= j THEN s[i] ELSE IF i = j + 1 THEN x ELSE s[i - 1]
      BY <1>2, <1>3 DEF Put
    <3>2. j + 1 \in 1 .. Len(t) /\ t[j + 1] = x
      BY <1>1, <1>2, <1>3, <3>1
    <3>3. ASSUME NEW i \in 1 .. Len(s)
          PROVE  s[i] # y
      <4>1. CASE i <= j
        BY <1>2, <1>3, <2>3, <3>1, <4>1
      <4>2. CASE ~ (i <= j)
        <5>1. PICK k \in 1 .. Len(t) : k = i + 1 /\ ~ (k <= j) /\ k # j + 1 /\ k - 1 = i
          BY <1>1, <1>2, <1>3, <4>2
        <5> QED
          BY <1>3, <2>3, <3>1, <5>1
      <4> QED
        BY <4>1, <4>2
    <3> QED
      BY <2>3, <3>2, <3>3
  <2>5. HFree(F, y)
    BY <1>1, <1>8, <2>1, <2>2, <2>4 DEF HFree
  <2>6. y # q
    <3>1. y # NIL
      BY ListsAssumption
    <3> QED
      BY <1>1, <2>4, <3>1 DEF Item
  <2>7. w.pprev[y] \in {NIL, POISON}
    BY <2>5 DEF HlistsOK
  <2> QED
    BY <2>4, <2>6, <2>7 DEF Added
<1>9. HlistsOK(w2, [F EXCEPT ![h] = t])
  BY <1>4, <1>5, <1>7, <1>8, HlistsChange
<1> QED
  BY <1>1, <1>3, <1>9

\* An hlist stays distinct when a node is taken out.
LEMMA DistinctCut ==
  ASSUME NEW s \in Seq(Nodes), Distinct(s), NEW j \in 1 .. Len(s)
  PROVE  Distinct(Cut(s, j))
<1>1. \A i, k \in 1 .. Len(s) : s[i] = s[k] => i = k
  BY DEF Distinct
<1>2. \A i, k \in 1 .. Len(s) - 1 : Cut(s, j)[i] = Cut(s, j)[k] => i = k
  BY <1>1, CutDistinct, SMTT(30)
<1>3. Len(Cut(s, j)) = Len(s) - 1
  BY CutSeq
<1> QED
  BY <1>2, <1>3 DEF Distinct

\* The j-th node taken out of an hlist.
LEMMA HlistsCut ==
  ASSUME NEW w, NEW F, HlistsOK(w, F), NEW h \in Heads, NEW j \in 1 .. Len(F[h]),
         NEW x, x = F[h][j], NEW w2 \in HHeaps,
         NEW p, p = Spot(h, F[h], j - 1), NEW q, q = Item(F[h], j + 1), Removed(w, w2, p, x, q)
  PROVE  HlistsOK(w2, [F EXCEPT ![h] = Cut(F[h], j)])
<1>1. PICK s \in Seq(Nodes) : s = F[h]
  BY DEF HlistsOK
<1>2. Distinct(s) /\ Chain(w, h, s) /\ Len(s) \in Nat /\ x \in Nodes /\ j \in 1 .. Len(s)
  BY <1>1 DEF HlistsOK
<1>3. PICK t \in Seq(Nodes) : t = Cut(s, j) /\ Len(t) = Len(s) - 1
  <2>1. Cut(s, j) \in Seq(Nodes) /\ Len(Cut(s, j)) = Len(s) - 1
    BY <1>1, CutSeq
  <2> QED
    BY <2>1
<1>4. Distinct(t)
  <2>1. Distinct(Cut(s, j))
    BY <1>2, DistinctCut
  <2> QED
    BY <1>3, <2>1
<1>5. Chain(w2, h, t)
  BY <1>1, <1>2, <1>3, ChainCut
<1>6. \A i \in 1 .. Len(t) : \E k \in 1 .. Len(s) : t[i] = s[k]
  <2> TAKE i \in 1 .. Len(t)
  <2>1. j \in 1 .. Len(s) /\ i \in 1 .. Len(Cut(s, j))
    BY <1>2, <1>3
  <2>2. \E k \in 1 .. Len(s) : Cut(s, j)[i] = s[k]
    BY <2>1, CutHas
  <2> QED
    BY <1>3, <2>2
<1>7. ASSUME NEW g \in Heads \ {h}
      PROVE  /\ Chain(w2, g, F[g])
             /\ \A i \in 1 .. Len(F[g]) : \A k \in 1 .. Len(t) : t[k] # F[g][i]
  <2>1. F[g] \in Seq(Nodes) /\ Distinct(F[g]) /\ Chain(w, g, F[g])
    BY DEF HlistsOK
  <2>2. \A i \in 1 .. Len(F[g]), k \in 1 .. Len(s) : s[k] # F[g][i]
    BY <1>1 DEF HlistsOK
  <2>3. \A i \in 1 .. Len(F[g]) : F[g][i] # x
    BY <1>1, <2>2
  <2>4. \A i \in 0 .. Len(F[g]) : Spot(g, F[g], i) # p /\ Spot(g, F[g], i) \in Li!Places /\ Spot(g, F[g], i) # On(x)
    <3>1. j - 1 \in 0 .. Len(F[h])
      BY <1>1, <1>2
    <3> QED
      BY <2>1, <2>3, <3>1, Apart, SpotIs
  <2>5. \A i \in 1 .. Len(F[g]) : F[g][i] # q /\ F[g][i] \in Nodes
    <3>1. j + 1 \in Nat
      BY <1>1, <1>2
    <3> QED
      BY <2>1, <3>1, Apart
  <2>6. Chain(w2, g, F[g])
    BY <2>1, <2>3, <2>4, <2>5, ChainSame, SMTT(30) DEF Removed
  <2> QED
    BY <1>6, <2>2, <2>6
<1>8. ASSUME NEW y \in Nodes, HFree([F EXCEPT ![h] = t], y)
      PROVE  w2.pprev[y] \in {NIL, POISON}
  <2>1. PICK G : G = [F EXCEPT ![h] = t]
    OBVIOUS
  <2>2. G[h] = t /\ \A g \in Heads \ {h} : G[g] = F[g]
    BY <2>1 DEF HlistsOK
  <2>3. \A i \in 1 .. Len(t) : t[i] # y
    BY <1>8, <2>1, <2>2 DEF HFree
  <2>4. CASE y = x
    BY <2>4 DEF Removed
  <2>5. CASE y # x
    <3>1. \A i \in 1 .. Len(s) : s[i] # y
      <4>1. \A i \in 1 .. Len(s) - 1 : t[i] = IF i < j THEN s[i] ELSE s[i + 1]
        BY <1>1, <1>3, CutIs
      <4> TAKE i \in 1 .. Len(s)
      <4>2. CASE i < j
        <5>1. i \in 1 .. Len(s) - 1
          BY <1>2, <4>2
        <5> QED
          BY <1>3, <2>3, <4>1, <4>2, <5>1
      <4>3. CASE i = j
        BY <1>1, <2>5, <4>3
      <4>4. CASE i > j
        <5>1. PICK k \in 1 .. Len(s) - 1 : k = i - 1 /\ ~ (k < j) /\ k + 1 = i
          BY <1>1, <1>2, <4>4
        <5> QED
          BY <1>3, <2>3, <4>1, <5>1
      <4> QED
        BY <1>1, <1>2, <4>2, <4>3, <4>4
    <3>2. HFree(F, y)
      BY <1>1, <1>8, <2>1, <2>2, <3>1 DEF HFree
    <3>3. y # q
      <4>1. y # NIL
        BY ListsAssumption
      <4> QED
        BY <1>1, <3>1, <4>1 DEF Item
    <3>4. w.pprev[y] \in {NIL, POISON}
      BY <3>2 DEF HlistsOK
    <3> QED
      BY <2>5, <3>3, <3>4 DEF Removed
  <2> QED
    BY <2>4, <2>5
<1>9. HlistsOK(w2, [F EXCEPT ![h] = t])
  BY <1>4, <1>5, <1>7, <1>8, HlistsChange
<1> QED
  BY <1>1, <1>3, <1>9

\* hlist_add_head() adds at the head's first.
LEMMA AddHeadIs ==
  ASSUME NEW w \in HHeaps, NEW x \in Nodes, NEW h \in Heads,
         NEW p, p = From(h), NEW q, q = w.at[p], q \in (Nodes \cup {NIL}) \ {x}
  PROVE  /\ Li!hlist_add_head(w, x, h) \in HHeaps
         /\ Added(w, Li!hlist_add_head(w, x, h), p, x, q)
<1>1. PICK o : o = On(x)
  OBVIOUS
<1>2. p \in Li!Places /\ o \in Li!Places /\ p # o /\ NIL \notin Nodes
  BY <1>1, PlaceIs, ListsAssumption
<1>3. PICK a \in HHeaps : a = [w EXCEPT !.at[o] = q]
  BY <1>2 DEF HHeaps
<1>4. PICK b \in HHeaps : b = IF q = NIL THEN a ELSE [a EXCEPT !.pprev[q] = o]
  BY <1>2 DEF HHeaps
<1>5. PICK e \in HHeaps : e = [b EXCEPT !.at[p] = x, !.pprev[x] = p]
  BY <1>2 DEF HHeaps
<1>6. e = Li!hlist_add_head(w, x, h)
  BY <1>1, <1>3, <1>4, <1>5 DEF Li!hlist_add_head, From, On
<1>7. \A c \in Li!Places : e.at[c] = IF c = p THEN x ELSE IF c = o THEN q ELSE w.at[c]
  BY <1>2, <1>3, <1>4, <1>5 DEF HHeaps
<1>8. \A y \in Nodes : e.pprev[y] = IF y = x THEN p ELSE IF y = q THEN o ELSE w.pprev[y]
  BY <1>2, <1>3, <1>4, <1>5 DEF HHeaps
<1> QED
  BY <1>1, <1>5, <1>6, <1>7, <1>8 DEF Added

\* hlist_add_before() adds at the place that holds the other node.
LEMMA AddBeforeIs ==
  ASSUME NEW w \in HHeaps, NEW x \in Nodes, NEW q \in Nodes, x # q,
         NEW p \in Li!Places, p = w.pprev[q], p # On(x)
  PROVE  /\ Li!hlist_add_before(w, x, q) \in HHeaps
         /\ Added(w, Li!hlist_add_before(w, x, q), p, x, q)
<1>1. PICK o : o = On(x)
  OBVIOUS
<1>2. o \in Li!Places /\ p # o
  BY <1>1, PlaceIs
<1>3. PICK e \in HHeaps : e = [w EXCEPT !.pprev[x] = p, !.at[o] = q, !.pprev[q] = o, !.at[p] = x]
  BY <1>2 DEF HHeaps
<1>4. e = Li!hlist_add_before(w, x, q)
  BY <1>1, <1>3 DEF Li!hlist_add_before, On
<1>5. \A c \in Li!Places : e.at[c] = IF c = p THEN x ELSE IF c = o THEN q ELSE w.at[c]
  BY <1>2, <1>3 DEF HHeaps
<1>6. \A y \in Nodes : e.pprev[y] = IF y = x THEN p ELSE IF y = q THEN o ELSE w.pprev[y]
  BY <1>2, <1>3 DEF HHeaps
<1> QED
  BY <1>1, <1>3, <1>4, <1>5, <1>6 DEF Added

\* hlist_add_after() adds at the other node's next.
LEMMA AddAfterIs ==
  ASSUME NEW w \in HHeaps, NEW x \in Nodes, NEW y \in Nodes, x # y,
         NEW p, p = On(y), NEW q, q = w.at[p], q \in (Nodes \cup {NIL}) \ {x}
  PROVE  /\ Li!hlist_add_after(w, y, x) \in HHeaps
         /\ Added(w, Li!hlist_add_after(w, y, x), p, x, q)
<1>1. PICK o : o = On(x)
  OBVIOUS
<1>2. p \in Li!Places /\ o \in Li!Places /\ p # o /\ NIL \notin Nodes
  BY <1>1, PlaceIs, ListsAssumption
<1>3. PICK a \in HHeaps : a = [w EXCEPT !.at[o] = q, !.at[p] = x, !.pprev[x] = p]
  BY <1>2 DEF HHeaps
<1>4. a.at[o] = q
  BY <1>2, <1>3 DEF HHeaps
<1>5. PICK e \in HHeaps : e = IF q = NIL THEN a ELSE [a EXCEPT !.pprev[q] = o]
  BY <1>2 DEF HHeaps
<1>6. e = Li!hlist_add_after(w, y, x)
  BY <1>1, <1>3, <1>4, <1>5 DEF Li!hlist_add_after, On
<1>7. \A c \in Li!Places : e.at[c] = IF c = p THEN x ELSE IF c = o THEN q ELSE w.at[c]
  BY <1>2, <1>3, <1>5 DEF HHeaps
<1>8. \A z \in Nodes : e.pprev[z] = IF z = x THEN p ELSE IF z = q THEN o ELSE w.pprev[z]
  BY <1>2, <1>3, <1>5 DEF HHeaps
<1> QED
  BY <1>1, <1>5, <1>6, <1>7, <1>8 DEF Added

\* hlist_del() and hlist_del_init() remove the node from the place its
\* pprev names.
LEMMA DeleteIs ==
  ASSUME NEW w \in HHeaps, NEW x \in Nodes, NEW p \in Li!Places, p = w.pprev[x], p # On(x),
         NEW q, q = w.at[On(x)], q \in (Nodes \cup {NIL}) \ {x}
  PROVE  /\ Li!hlist_del(w, x) \in HHeaps /\ Removed(w, Li!hlist_del(w, x), p, x, q)
         /\ Li!hlist_del_init(w, x) \in HHeaps /\ Removed(w, Li!hlist_del_init(w, x), p, x, q)
<1>1. PICK o : o = On(x)
  OBVIOUS
<1>2. o \in Li!Places /\ p # o /\ NIL \notin Nodes /\ p # NIL
  BY <1>1, PlaceIs, ListsAssumption DEF Li!Places
<1>3. PICK a \in HHeaps : a = [w EXCEPT !.at[p] = q]
  BY <1>2 DEF HHeaps
<1>4. PICK b \in HHeaps : b = IF q = NIL THEN a ELSE [a EXCEPT !.pprev[q] = p]
  BY <1>2 DEF HHeaps
<1>5. b = Li!HlistDel(w, x)
  BY <1>1, <1>3, <1>4 DEF Li!HlistDel, On
<1>6. /\ \A c \in Li!Places : b.at[c] = IF c = p THEN q ELSE w.at[c]
      /\ \A y \in Nodes : b.pprev[y] = IF y = q THEN p ELSE w.pprev[y]
  BY <1>2, <1>3, <1>4 DEF HHeaps
<1>7. ASSUME NEW z \in {NIL, POISON}
      PROVE  /\ [b EXCEPT !.at[o] = z, !.pprev[x] = z] \in HHeaps
             /\ Removed(w, [b EXCEPT !.at[o] = z, !.pprev[x] = z], p, x, q)
  <2>1. PICK e : e = [b EXCEPT !.at[o] = z, !.pprev[x] = z]
    OBVIOUS
  <2>2. e \in HHeaps
    BY <1>2, <2>1 DEF HHeaps
  <2>3. /\ \A c \in Li!Places \ {o} : e.at[c] = b.at[c]
        /\ \A y \in Nodes \ {x} : e.pprev[y] = b.pprev[y]
        /\ e.pprev[x] = z
    BY <1>2, <2>1 DEF HHeaps
  <2> QED
    BY <1>1, <1>6, <2>1, <2>2, <2>3 DEF Removed
<1>8. Li!hlist_del(w, x) = [b EXCEPT !.at[o] = POISON, !.pprev[x] = POISON]
  BY <1>1, <1>5 DEF Li!hlist_del, On
<1>9. Li!hlist_del_init(w, x) = [b EXCEPT !.at[o] = NIL, !.pprev[x] = NIL]
  BY <1>1, <1>2, <1>5 DEF Li!hlist_del_init, Li!INIT_HLIST_NODE, Li!hlist_unhashed, On
<1> QED
  BY <1>7, <1>8, <1>9

\* The nodes of the hlists.
LEMMA HashedIs ==
  ASSUME HlistsOK(hmem, hlist), NEW x \in Nodes
  PROVE  /\ x \notin Li!Hashed => HFree(hlist, x)
         /\ x \in Li!Hashed => \E h \in Heads : \E j \in 1 .. Len(hlist[h]) : x = hlist[h][j]
         /\ \A h \in Heads : x \in Li!ToSet(hlist[h]) => \E j \in 1 .. Len(hlist[h]) : x = hlist[h][j]
<1>1. \A h \in Heads : DOMAIN hlist[h] = 1 .. Len(hlist[h])
  BY DEF HlistsOK
<1>2. \A h \in Heads : x \in Li!ToSet(hlist[h]) <=> \E j \in 1 .. Len(hlist[h]) : x = hlist[h][j]
  BY <1>1 DEF Li!ToSet
<1> QED
  BY <1>2 DEF Li!Hashed, HFree

\* Where the j-th node of an hlist is.
LEMMA NodeAt ==
  ASSUME NEW w, NEW F, HlistsOK(w, F), NEW h \in Heads, NEW j \in 1 .. Len(F[h]), NEW x, x = F[h][j]
  PROVE  /\ w.pprev[x] = Spot(h, F[h], j - 1) /\ w.pprev[x] \in Li!Places /\ w.pprev[x] # On(x)
         /\ w.at[On(x)] = Item(F[h], j + 1) /\ w.at[On(x)] \in (Nodes \cup {NIL}) \ {x}
         /\ On(x) = Spot(h, F[h], j) /\ x = Item(F[h], j) /\ w.at[w.pprev[x]] = x
<1>1. PICK s \in Seq(Nodes) : s = F[h]
  BY DEF HlistsOK
<1>2. Distinct(s) /\ Chain(w, h, s) /\ Len(s) \in Nat /\ j \in 1 .. Len(s) /\ x = s[j] /\ x \in Nodes
  BY <1>1 DEF HlistsOK
<1>3. On(x) = Spot(h, s, j) /\ x = Item(s, j)
  BY <1>2 DEF Spot, Item
<1>4. j \in 0 .. Len(s) /\ j - 1 \in 0 .. Len(s) /\ (j - 1) + 1 = j /\ j # j - 1 /\ j + 1 # j
      /\ j \in 1 .. Len(s) + 1 /\ j + 1 \in 1 .. Len(s) + 1
  BY <1>2
<1>5. w.pprev[x] = Spot(h, s, j - 1) /\ w.at[On(x)] = Item(s, j + 1) /\ w.at[Spot(h, s, j - 1)] = Item(s, j)
  BY <1>2, <1>3, <1>4 DEF Chain
<1>6. Spot(h, s, j - 1) \in Li!Places /\ Spot(h, s, j - 1) # Spot(h, s, j) /\ Item(s, j + 1) # Item(s, j)
  BY <1>2, <1>4, SpotIs
<1>7. Item(s, j + 1) \in Nodes \cup {NIL}
  BY DEF Item
<1> QED
  BY <1>1, <1>3, <1>5, <1>6, <1>7

\* hlist_add_head() keeps the hlists exact.
LEMMA HlistAddHeadStep ==
  ASSUME HlistsOK(hmem, hlist), NEW x \in Nodes, NEW h \in Heads, Li!HlistAddHead(x, h)
  PROVE  HlistsOK(hmem', hlist')
<1>1. HFree(hlist, x) /\ hmem' = Li!hlist_add_head(hmem, x, h) /\ hlist' = [hlist EXCEPT ![h] = <<x>> \o hlist[h]]
  BY HashedIs DEF Li!HlistAddHead
<1>2. PICK s \in Seq(Nodes) : s = hlist[h]
  BY DEF HlistsOK
<1>3. PICK p, q : p = From(h) /\ q = hmem.at[p]
  OBVIOUS
<1>4. Chain(hmem, h, s) /\ hmem \in HHeaps /\ 0 \in 0 .. Len(s) /\ \A i \in 1 .. Len(s) : s[i] # x
  BY <1>1, <1>2 DEF HlistsOK, HFree
<1>5. p = Spot(h, s, 0) /\ q = Item(s, 0 + 1)
  BY <1>3, <1>4 DEF Chain, Spot
<1>6. q \in (Nodes \cup {NIL}) \ {x}
  BY <1>4, <1>5, ListsAssumption DEF Item
<1>7. hmem' \in HHeaps /\ Added(hmem, hmem', p, x, q)
  BY <1>1, <1>3, <1>4, <1>6, AddHeadIs
<1>8. HlistsOK(hmem', [hlist EXCEPT ![h] = Put(hlist[h], 0, x)])
  <2>1. 0 \in 0 .. Len(hlist[h]) /\ p = Spot(h, hlist[h], 0) /\ q = Item(hlist[h], 0 + 1)
    BY <1>2, <1>4, <1>5
  <2> QED
    BY <1>1, <1>7, <2>1, HlistsPut
<1>9. Put(hlist[h], 0, x) = <<x>> \o hlist[h]
  BY <1>2, FrontIs
<1> QED
  BY <1>1, <1>8, <1>9

\* hlist_add_before() and hlist_add_after() do.
LEMMA HlistAddBesideStep ==
  ASSUME HlistsOK(hmem, hlist), NEW x \in Nodes, NEW y \in Nodes, Li!HlistAddBeside(x, y)
  PROVE  HlistsOK(hmem', hlist')
<1>1. HFree(hlist, x)
  BY HashedIs DEF Li!HlistAddBeside
<1>2. PICK h \in Heads :
        /\ y \in Li!ToSet(hlist[h])
        /\ LET i == CHOOSE k \in DOMAIN hlist[h] : hlist[h][k] = y IN
           \/ /\ hmem' = Li!hlist_add_before(hmem, x, y)
              /\ hlist' = [hlist EXCEPT ![h] = Li!InsertAt(hlist[h], i, x)]
           \/ /\ hmem' = Li!hlist_add_after(hmem, y, x)
              /\ hlist' = [hlist EXCEPT ![h] = Li!InsertAt(hlist[h], i + 1, x)]
  BY DEF Li!HlistAddBeside
<1>3. PICK s \in Seq(Nodes) : s = hlist[h] /\ Distinct(s) /\ hmem \in HHeaps
  BY DEF HlistsOK
<1>4. PICK j \in 1 .. Len(s) : y = s[j] /\ (CHOOSE k \in DOMAIN hlist[h] : hlist[h][k] = y) = j
  <2>1. PICK j \in 1 .. Len(s) : y = s[j]
    BY <1>2, <1>3, HashedIs
  <2>2. DOMAIN s = 1 .. Len(s)
    OBVIOUS
  <2>3. \A k \in DOMAIN s : s[k] = y <=> k = j
    BY <1>3, <2>1, <2>2 DEF Distinct
  <2>4. (CHOOSE k \in DOMAIN s : s[k] = y) = j
    BY <2>1, <2>2, <2>3
  <2> QED
    BY <1>3, <2>1, <2>4
<1>5. /\ hmem.pprev[y] = Spot(h, s, j - 1) /\ hmem.pprev[y] \in Li!Places
      /\ hmem.at[On(y)] = Item(s, j + 1) /\ hmem.at[On(y)] \in Nodes \cup {NIL}
      /\ On(y) = Spot(h, s, j) /\ y = Item(s, j)
  BY <1>3, <1>4, NodeAt
<1>6. /\ x # y /\ \A i \in 1 .. Len(s) : s[i] # x
      /\ Len(s) \in Nat /\ j \in 0 .. Len(s) /\ j - 1 \in 0 .. Len(s) /\ (j - 1) + 1 = j
  BY <1>1, <1>3, <1>4 DEF HFree
<1>7. CASE hmem' = Li!hlist_add_before(hmem, x, y) /\ hlist' = [hlist EXCEPT ![h] = Li!InsertAt(hlist[h], j, x)]
  <2>1. PICK p \in Li!Places : p = hmem.pprev[y]
    BY <1>5
  <2>2. p # On(x)
    BY <1>3, <1>5, <1>6, <2>1, SpotIs
  <2>3. hmem' \in HHeaps /\ Added(hmem, hmem', p, x, y)
    BY <1>3, <1>6, <1>7, <2>1, <2>2, AddBeforeIs
  <2>4. PICK j1 \in 0 .. Len(hlist[h]) : j1 = j - 1 /\ p = Spot(h, hlist[h], j1) /\ y = Item(hlist[h], j1 + 1)
    BY <1>3, <1>5, <1>6, <2>1
  <2>5. HlistsOK(hmem', [hlist EXCEPT ![h] = Put(hlist[h], j1, x)])
    BY <1>1, <2>3, <2>4, HlistsPut
  <2>6. Li!InsertAt(s, j, x) = Put(s, j - 1, x)
    <3>1. j \in 1 .. Len(s) + 1
      BY <1>6, <1>4
    <3> QED
      BY <3>1, InsertIs
  <2> QED
    BY <1>3, <1>7, <2>4, <2>5, <2>6
<1>8. CASE hmem' = Li!hlist_add_after(hmem, y, x) /\ hlist' = [hlist EXCEPT ![h] = Li!InsertAt(hlist[h], j + 1, x)]
  <2>1. PICK p, q : p = On(y) /\ q = hmem.at[p]
    OBVIOUS
  <2>2. q \in (Nodes \cup {NIL}) \ {x}
    BY <1>5, <1>6, <2>1, ListsAssumption DEF Item
  <2>3. hmem' \in HHeaps /\ Added(hmem, hmem', p, x, q)
    BY <1>3, <1>6, <1>8, <2>1, <2>2, AddAfterIs
  <2>4. j \in 0 .. Len(hlist[h]) /\ p = Spot(h, hlist[h], j) /\ q = Item(hlist[h], j + 1)
    BY <1>3, <1>5, <1>6, <2>1
  <2>5. HlistsOK(hmem', [hlist EXCEPT ![h] = Put(hlist[h], j, x)])
    BY <1>1, <2>3, <2>4, HlistsPut
  <2>6. Li!InsertAt(s, j + 1, x) = Put(s, j, x)
    <3>1. PICK j1 \in 1 .. Len(s) + 1 : j1 = j + 1 /\ j1 - 1 = j
      BY <1>6
    <3>2. Li!InsertAt(s, j1, x) = Put(s, j1 - 1, x)
      BY InsertIs
    <3> QED
      BY <3>1, <3>2
  <2> QED
    BY <1>3, <1>8, <2>5, <2>6
<1> QED
  BY <1>2, <1>4, <1>7, <1>8

\* The hlists without one of their nodes.
LEMMA HTakenIs ==
  ASSUME HlistsOK(hmem, hlist), NEW h \in Heads, NEW j \in 1 .. Len(hlist[h]), NEW x, x = hlist[h][j]
  PROVE  Li!HTaken(x) = [hlist EXCEPT ![h] = Cut(hlist[h], j)]
<1>1. hlist \in [Heads -> Seq(Nodes)]
  BY DEF HlistsOK
<1>2. ASSUME NEW g \in Heads
      PROVE  Li!Without(hlist[g], x) = IF g = h THEN Cut(hlist[h], j) ELSE hlist[g]
  <2>1. hlist[g] \in Seq(Nodes)
    BY <1>1
  <2>2. CASE g = h
    <3>1. \A i, k \in 1 .. Len(hlist[g]) : hlist[g][i] = hlist[g][k] => i = k
      BY DEF HlistsOK, Distinct
    <3>2. j \in 1 .. Len(hlist[g]) /\ x = hlist[g][j]
      BY <2>2
    <3>3. Li!Without(hlist[g], x) = Cut(hlist[g], j)
      BY <2>1, <3>1, <3>2, WithoutIs
    <3> QED
      BY <2>2, <3>3
  <2>3. CASE g # h
    <3>1. \A i \in 1 .. Len(hlist[g]) : hlist[g][i] # x
      BY <2>3 DEF HlistsOK
    <3>2. Li!Without(hlist[g], x) = hlist[g]
      BY <2>1, <3>1, WithoutNone
    <3> QED
      BY <2>3, <3>2
  <2> QED
    BY <2>2, <2>3
<1> QED
  BY <1>1, <1>2 DEF Li!HTaken

\* hlist_del() and hlist_del_init() keep the hlists exact.
LEMMA HlistDeleteStep ==
  ASSUME HlistsOK(hmem, hlist), NEW x \in Nodes, Li!HlistDelete(x)
  PROVE  HlistsOK(hmem', hlist')
<1>1. CASE x \in Li!Hashed
  <2>1. PICK h \in Heads : \E j \in 1 .. Len(hlist[h]) : x = hlist[h][j]
    BY <1>1, HashedIs
  <2>2. PICK j \in 1 .. Len(hlist[h]) : x = hlist[h][j]
    BY <2>1
  <2>3. PICK p, q :
          /\ p \in Li!Places /\ p = hmem.pprev[x] /\ p # On(x) /\ p = Spot(h, hlist[h], j - 1)
          /\ q = hmem.at[On(x)] /\ q \in (Nodes \cup {NIL}) \ {x} /\ q = Item(hlist[h], j + 1)
    BY <2>2, NodeAt
  <2>4. hmem \in HHeaps
    BY DEF HlistsOK
  <2>5. hmem' \in HHeaps /\ Removed(hmem, hmem', p, x, q)
    <3>1. /\ Li!hlist_del(hmem, x) \in HHeaps /\ Removed(hmem, Li!hlist_del(hmem, x), p, x, q)
          /\ Li!hlist_del_init(hmem, x) \in HHeaps /\ Removed(hmem, Li!hlist_del_init(hmem, x), p, x, q)
      BY <2>3, <2>4, DeleteIs
    <3>2. hmem' = Li!hlist_del(hmem, x) \/ hmem' = Li!hlist_del_init(hmem, x)
      BY DEF Li!HlistDelete
    <3> QED
      BY <3>1, <3>2
  <2>6. HlistsOK(hmem', [hlist EXCEPT ![h] = Cut(hlist[h], j)])
    BY <2>2, <2>3, <2>5, HlistsCut
  <2>7. hlist' = [hlist EXCEPT ![h] = Cut(hlist[h], j)]
    BY <2>2, HTakenIs DEF Li!HlistDelete
  <2> QED
    BY <2>6, <2>7
<1>2. CASE x \notin Li!Hashed
  <2>1. HFree(hlist, x) /\ hmem.pprev[x] # POISON /\ hmem' = Li!hlist_del_init(hmem, x)
    BY <1>2, HashedIs DEF Li!HlistDelete
  <2>2. hmem.pprev[x] = NIL
    BY <2>1 DEF HlistsOK
  <2>3. hmem' = hmem
    BY <2>1, <2>2 DEF Li!hlist_del_init, Li!hlist_unhashed
  <2>4. hlist' = hlist
    <3>1. hlist \in [Heads -> Seq(Nodes)] /\ \A g \in Heads : \A i \in 1 .. Len(hlist[g]) : hlist[g][i] # x
      BY <2>1 DEF HlistsOK, HFree
    <3>2. \A g \in Heads : Li!Without(hlist[g], x) = hlist[g]
      <4> TAKE g \in Heads
      <4>1. hlist[g] \in Seq(Nodes) /\ \A i \in 1 .. Len(hlist[g]) : hlist[g][i] # x
        BY <3>1
      <4> QED
        BY <4>1, WithoutNone
    <3>3. Li!HTaken(x) = hlist
      BY <3>1, <3>2 DEF Li!HTaken
    <3> QED
      BY <3>3 DEF Li!HlistDelete
  <2> QED
    BY <2>3, <2>4
<1> QED
  BY <1>1, <1>2

\* hlist_for_each: after k turns it has visited the first k nodes, or all.
HTurn(walk, w, h, k) ==
  IF k = 0 THEN <<>>
  ELSE LET before == walk[k - 1]
           node == IF before = <<>> THEN w.at[From(h)] ELSE w.at[On(before[Len(before)])]
       IN  IF node \in {NIL, POISON} \/ Len(before) < k - 1 THEN before
           ELSE Append(before, node)

\* One turn of hlist_for_each comes to the next node of the chain.
LEMMA HTurnVisits ==
  ASSUME NEW h \in Heads, NEW s \in Seq(Nodes), NEW w, Chain(w, h, s),
         NEW walk, NEW k \in Nat, k > 0 => walk[k - 1] = Visited(s, k - 1)
  PROVE  HTurn(walk, w, h, k) = Visited(s, k)
<1>1. PICK l \in Nat : l = Len(s)
  OBVIOUS
<1>2. CASE k = 0
  <2>1. Visited(s, 0) = <<>>
    BY <1>1 DEF Visited
  <2> QED
    BY <1>2, <2>1 DEF HTurn
<1>3. CASE k > 0 /\ k - 1 < l
  <2>1. PICK j \in 0 .. l - 1 : j = k - 1
    BY <1>3
  <2>2. PICK b : b = SubSeq(s, 1, j)
    OBVIOUS
  <2>3. walk[k - 1] = b
    BY <1>1, <1>3, <2>1, <2>2 DEF Visited
  <2>4. b \in Seq(Nodes) /\ Len(b) = j /\ \A i \in 1 .. j : b[i] = s[i]
    BY <1>1, <2>1, <2>2
  <2>5. (IF b = <<>> THEN w.at[From(h)] ELSE w.at[On(b[Len(b)])]) = w.at[Spot(h, s, j)]
    <3>1. CASE j = 0
      BY <3>1, <2>4 DEF Spot
    <3>2. CASE j # 0
      <4>1. b # <<>> /\ b[Len(b)] = s[j]
        BY <3>2, <2>1, <2>4
      <4> QED
        BY <3>2, <4>1 DEF Spot
    <3> QED
      BY <3>1, <3>2
  <2>6. w.at[Spot(h, s, j)] = s[k] /\ s[k] \in Nodes /\ s[k] \notin {NIL, POISON}
    <3>1. k \in 1 .. Len(s) /\ j \in 0 .. Len(s) /\ j + 1 = k
      BY <1>1, <1>3, <2>1
    <3>2. Item(s, k) = s[k]
      BY <3>1 DEF Item
    <3> QED
      BY <3>1, <3>2, ListsAssumption DEF Chain
  <2>7. HTurn(walk, w, h, k) = Append(b, s[k])
    BY <1>3, <2>1, <2>3, <2>4, <2>5, <2>6 DEF HTurn
  <2>8. Append(b, s[k]) = SubSeq(s, 1, k)
    <3>1. k \in 1 .. Len(s) /\ k - 1 = j /\ 1 \in 1 .. Len(s)
      BY <1>1, <1>3, <2>1
    <3>2. SubSeq(s, 1, k) = SubSeq(s, 1, k - 1) \o <<s[k]>>
      BY <3>1, SubSeqRecursiveSecond
    <3>3. Append(b, s[k]) = b \o <<s[k]>>
      BY <2>4, <2>6, AppendIsConcat
    <3> QED
      BY <2>2, <3>1, <3>2, <3>3
  <2>9. Visited(s, k) = SubSeq(s, 1, k)
    BY <1>1, <1>3 DEF Visited
  <2> QED
    BY <2>7, <2>8, <2>9
<1>4. CASE k > 0 /\ k - 1 >= l
  <2>1. SubSeq(s, 1, l) = s
    BY <1>1, SubSeqFull
  <2>2. Visited(s, k) = s /\ walk[k - 1] = s
    BY <1>1, <1>4, <2>1 DEF Visited
  <2>3. (IF s = <<>> THEN w.at[From(h)] ELSE w.at[On(s[Len(s)])]) = w.at[Spot(h, s, l)]
    <3>1. CASE l = 0
      BY <3>1, <1>1 DEF Spot
    <3>2. CASE l # 0
      BY <3>2, <1>1 DEF Spot
    <3> QED
      BY <3>1, <3>2
  <2>4. w.at[Spot(h, s, l)] = NIL
    <3>1. l \in 0 .. Len(s) /\ ~ (l + 1 \in 1 .. Len(s))
      BY <1>1
    <3> QED
      BY <3>1 DEF Chain, Item
  <2> QED
    BY <1>4, <2>2, <2>3, <2>4 DEF HTurn
<1> QED
  BY <1>1, <1>2, <1>3, <1>4

\* hlist_for_each over a chain visits its nodes in order and stops.
LEMMA WalkChain ==
  ASSUME NEW h \in Heads, NEW s \in Seq(Nodes), NEW w, Chain(w, h, s), NEW bound \in Nat, Len(s) <= bound
  PROVE  Li!HlistWalk(w, h, bound) = s
<1> DEFINE W == [k \in 0 .. bound |-> Visited(s, k)]
           D == CHOOSE D : D = [k \in 0 .. bound |-> HTurn(D, w, h, k)]
<1>1. Li!HlistWalk(w, h, bound) = D[bound]
  BY DEF Li!HlistWalk, HTurn, From, On
<1>2. \A k \in 0 .. bound : HTurn(W, w, h, k) = W[k]
  <2> TAKE k \in 0 .. bound
  <2>1. k > 0 => W[k - 1] = Visited(s, k - 1)
    OBVIOUS
  <2>2. W[k] = Visited(s, k)
    OBVIOUS
  <2> HIDE DEF W
  <2> QED
    BY <2>1, <2>2, HTurnVisits
<1>3. W = [k \in 0 .. bound |-> HTurn(W, w, h, k)]
  <2>1. W = [k \in 0 .. bound |-> W[k]]
    OBVIOUS
  <2> HIDE DEF W
  <2> QED
    BY <1>2, <2>1
<1> HIDE DEF W
<1>4. D = [k \in 0 .. bound |-> HTurn(D, w, h, k)]
  BY <1>3
<1> HIDE DEF D
<1>5. \A k \in 0 .. bound : D[k] = HTurn(D, w, h, k)
  BY <1>4
<1> DEFINE T == {k \in 0 .. bound : D[k] # Visited(s, k)}
<1>6. T = {}
  <2>1. SUFFICES ASSUME T # {} PROVE FALSE
    OBVIOUS
  <2>2. PICK k \in T : \A y \in T : k <= y
    <3>1. T \subseteq Nat
      OBVIOUS
    <3> HIDE DEF T
    <3> QED
      BY <2>1, <3>1, Smallest
  <2>3. k \in Nat /\ k \in 0 .. bound /\ D[k] # Visited(s, k)
    BY <2>2
  <2>4. k > 0 => D[k - 1] = Visited(s, k - 1)
    <3>1. SUFFICES ASSUME k > 0, D[k - 1] # Visited(s, k - 1) PROVE FALSE
      OBVIOUS
    <3>2. k - 1 \in T
      BY <2>3, <3>1
    <3> HIDE DEF T
    <3> QED
      BY <2>2, <2>3, <3>2
  <2>5. HTurn(D, w, h, k) = Visited(s, k)
    BY <2>3, <2>4, HTurnVisits
  <2> QED
    BY <1>5, <2>3, <2>5
<1>7. D[bound] = Visited(s, bound)
  BY <1>6
<1>8. Visited(s, bound) = s
  <2>1. SubSeq(s, 1, Len(s)) = s
    BY SubSeqFull
  <2>2. (IF bound < Len(s) THEN bound ELSE Len(s)) = Len(s)
    OBVIOUS
  <2> QED
    BY <2>1, <2>2 DEF Visited
<1> QED
  BY <1>1, <1>7, <1>8

----------------------------------------------------------------------------
(* list.h: the theorem                                                     *)

\* A list has no more entries than there are nodes.
LEMMA FitsBound ==
  ASSUME NEW s \in Seq(Nodes), Distinct(s)
  PROVE  Li!Bound \in Nat /\ Len(s) <= Li!Bound
<1>1. s \in Injection(1 .. Len(s), Nodes)
  BY DEF Injection, IsInjective, Distinct
<1>2. Cardinality(1 .. Len(s)) <= Cardinality(Nodes)
  BY <1>1, ListsAssumption, FS_Injection
<1>3. Cardinality(1 .. Len(s)) = IF 1 > Len(s) THEN 0 ELSE (Len(s) - 1) + 1
  BY FS_Interval
<1>4. Cardinality(Nodes) \in Nat
  BY ListsAssumption, FS_CardinalityType
<1>5. PICK l \in Nat, c \in Nat : l = Len(s) /\ c = Cardinality(Nodes)
  BY <1>4
<1>6. l <= c
  BY <1>2, <1>3, <1>5
<1>7. c + 1 \in Nat /\ l <= c + 1
  BY <1>6
<1>8. Li!Cardinality(Nodes) = Cardinality(Nodes)
  BY DEF Li!Cardinality, Cardinality
<1> QED
  BY <1>5, <1>7, <1>8 DEF Li!Bound

ListsGood == ListsInv /\ HlistsOK(hmem, hlist)

\* The hlists are empty at first.
LEMMA HlistsStart ==
  ASSUME Li!Init
  PROVE  HlistsOK(hmem, hlist)
<1>1. hmem \in HHeaps /\ (\A p \in Li!Places : hmem.at[p] = NIL) /\ \A x \in Nodes : hmem.pprev[x] = NIL
  BY DEF Li!Init, HHeaps
<1>2. hlist \in [Heads -> Seq(Nodes)] /\ \A h \in Heads : hlist[h] = <<>> /\ Len(hlist[h]) = 0
  BY DEF Li!Init
<1>3. \A h \in Heads : Distinct(hlist[h]) /\ Chain(hmem, h, hlist[h])
  <2> TAKE h \in Heads
  <2>1. Spot(h, hlist[h], 0) = From(h) /\ From(h) \in Li!Places
    BY PlaceIs DEF Spot
  <2>2. \A i \in 0 .. 0 : hmem.at[Spot(h, hlist[h], i)] = Item(hlist[h], i + 1)
    BY <1>1, <1>2, <2>1 DEF Item
  <2> QED
    BY <1>2, <2>2 DEF Distinct, Chain
<1> QED
  BY <1>1, <1>2, <1>3 DEF HlistsOK

\* Every call keeps the hlists.
LEMMA HlistsNext ==
  ASSUME HlistsOK(hmem, hlist), Li!Next
  PROVE  HlistsOK(hmem', hlist')
<1>1. CASE hmem' = hmem /\ hlist' = hlist
  BY <1>1
<1>2. ASSUME NEW x \in Nodes,
             \/ Li!Del(x) \/ Li!HlistDelete(x)
             \/ \E h \in Heads : Li!Add(x, h) \/ Li!Move(x, h) \/ Li!HlistAddHead(x, h)
             \/ \E y \in Nodes : Li!HlistAddBeside(x, y)
      PROVE  HlistsOK(hmem', hlist')
  <2>1. CASE Li!HlistDelete(x) \/ (\E h \in Heads : Li!HlistAddHead(x, h)) \/ \E y \in Nodes : Li!HlistAddBeside(x, y)
    BY <2>1, HlistDeleteStep, HlistAddHeadStep, HlistAddBesideStep
  <2>2. CASE Li!Del(x) \/ \E h \in Heads : Li!Add(x, h) \/ Li!Move(x, h)
    BY <1>1, <2>2 DEF Li!Del, Li!Add, Li!Move, Li!Outside
  <2> QED
    BY <1>2, <2>1, <2>2
<1>3. ASSUME NEW h \in Heads,
             Li!InitHead(h) \/ Li!SafeBegin(h) \/ \E g \in Heads : Li!Splice(g, h)
      PROVE  HlistsOK(hmem', hlist')
  BY <1>1, <1>3 DEF Li!InitHead, Li!SafeBegin, Li!Splice, Li!Outside
<1>4. CASE Li!SafeTurn \/ Li!SafeEnd
  BY <1>1, <1>4 DEF Li!SafeTurn, Li!SafeEnd
<1> QED
  BY <1>2, <1>3, <1>4 DEF Li!Next

\* Rings and chains are exactly what following the pointers shows.
LEMMA ListsGoodExact ==
  ASSUME ListsGood
  PROVE  ListsExact
<1>1. ListsOK(mem, lists) /\ LoopOK(loop, mem, lists) /\ HlistsOK(hmem, hlist)
  BY DEF ListsGood, ListsInv
<1>2. ASSUME NEW h \in Li!Usable
      PROVE  /\ Li!Walk(mem.next, h, Li!Bound) = lists[h]
             /\ Li!Walk(mem.prev, h, Li!Bound) = Li!Reverse(lists[h])
  <2>1. PICK s \in Seq(Nodes) : /\ s = lists[h] /\ Plain(Cells, h, s)
                                /\ Ring(mem.next, mem.prev, h, s) /\ h \in Heads
    BY <1>1, InUse DEF Li!Usable, Use, ListsOK
  <2>2. DOMAIN mem.next = Cells /\ DOMAIN mem.prev = Cells
    BY <1>1 DEF ListsOK, Heaps
  <2>3. Distinct(s)
    BY <2>1 DEF Plain, Distinct
  <2>4. PICK bound \in Nat : bound = Li!Bound /\ Len(s) <= bound
    BY <2>3, FitsBound
  <2>5. Li!Walk(mem.next, h, bound) = s
    BY <2>1, <2>2, <2>4, WalkRing
  <2>6. PICK t : t = Back(s)
    OBVIOUS
  <2>7. Ring(mem.prev, mem.next, h, t) /\ Plain(Cells, h, t) /\ Len(t) = Len(s)
    BY <2>1, <2>6, RingBack
  <2>8. Li!Walk(mem.prev, h, bound) = t
    BY <2>2, <2>4, <2>7, WalkRing
  <2>9. Li!Reverse(s) = t
    BY <2>6 DEF Li!Reverse, Back
  <2> QED
    BY <2>1, <2>4, <2>5, <2>8, <2>9
<1>3. ASSUME NEW h \in Heads
      PROVE  Li!HlistWalk(hmem, h, Li!Bound) = hlist[h]
  <2>1. PICK s \in Seq(Nodes) : s = hlist[h] /\ Distinct(s) /\ Chain(hmem, h, s)
    BY <1>1 DEF HlistsOK
  <2>2. PICK bound \in Nat : bound = Li!Bound /\ Len(s) <= bound
    BY <2>1, FitsBound
  <2>3. Li!HlistWalk(hmem, h, bound) = s
    BY <2>1, <2>2, WalkChain
  <2> QED
    BY <2>1, <2>2, <2>3
<1>4. ASSUME NEW x \in Li!Hashed
      PROVE  hmem.at[hmem.pprev[x]] = x
  <2>1. PICK h \in Heads : x \in Li!ToSet(hlist[h])
    BY DEF Li!Hashed
  <2>2. hlist[h] \in Seq(Nodes)
    BY <1>1 DEF HlistsOK
  <2>3. PICK j \in 1 .. Len(hlist[h]) : x = hlist[h][j]
    BY <2>1, <2>2 DEF Li!ToSet
  <2> QED
    BY <1>1, <2>3, NodeAt
<1>5. Li!ListsExact
  BY <1>2, <1>3, <1>4 DEF Li!ListsExact
<1>6. Li!SafeLoopVisitsAll
  <2>1. SUFFICES ASSUME loop # Li!NoLoop
                 PROVE  /\ loop.pos = loop.head => loop.left = <<>>
                        /\ loop.pos # loop.head => loop.left # <<>> /\ Head(loop.left) = loop.pos
    BY DEF Li!SafeLoopVisitsAll
  <2> QED
    BY <1>1, <2>1, LoopShows
<1> QED
  BY <1>5, <1>6 DEF ListsExact

\* list.h: whatever was added, moved, spliced and deleted, in whatever order,
\* following next visits exactly the entries a list should have, following
\* prev visits them backwards, the hlists hold their nodes and every node's
\* pprev the place that points at it, and a list_for_each_safe whose body
\* takes entries out gives each entry its turn.
THEOREM ListsTheorem == Spec => []ListsExact
<1>1. Init => ListsGood
  BY ListsStart, HlistsStart DEF Init, ListsGood
<1>2. ListsGood /\ [Next]_vars => ListsGood'
  <2> SUFFICES ASSUME ListsGood, [Next]_vars
               PROVE  ListsGood'
    OBVIOUS
  <2>1. CASE Li!Next
    <3>1. ListsInv' /\ HlistsOK(hmem', hlist')
      BY <2>1, ListsNext, HlistsNext DEF ListsGood
    <3> QED
      BY <3>1 DEF ListsGood, HlistsOK, Chain, HFree
  <2>2. CASE UNCHANGED listVars
    BY <2>2 DEF listVars, ListsGood, ListsInv, ListsOK, LoopOK, LoopAt, HlistsOK, Chain, HFree
  <2> QED
    BY <2>1, <2>2 DEF Next, vars
<1>3. ListsGood => ListsExact
  BY ListsGoodExact
<1> QED
  BY <1>1, <1>2, <1>3, PTL DEF Spec

----------------------------------------------------------------------------
(* hash.c: the keys of a bucket                                            *)

\* One step of InBucket, and a function that takes all of them.
SieveStep(keys, I, b, i) ==
  IF i = 0 THEN <<>>
  ELSE IF H!hashCode(I[i]) = b THEN Append(keys[i - 1], I[i])
  ELSE keys[i - 1]

Sieved(F, I, b) ==
  F \in [0 .. Len(I) -> Seq(Keys)] /\ \A i \in 0 .. Len(I) : F[i] = SieveStep(F, I, b, i)

IsAppend(t, s, x) ==
  Len(t) = Len(s) + 1 /\ t[Len(s) + 1] = x /\ \A i \in 1 .. Len(s) : t[i] = s[i]

\* What Append makes of a sequence.
LEMMA AppendIs ==
  ASSUME NEW C, NEW s \in Seq(C), NEW x \in C
  PROVE  Append(s, x) \in Seq(C) /\ IsAppend(Append(s, x), s, x)
BY AppendProperties DEF IsAppend

\* The keys of a bucket are those sieved from the insertions.
LEMMA SieveIs ==
  ASSUME inserted \in Seq(Keys), NEW b, NEW F, Sieved(F, inserted, b)
  PROVE  H!InBucket(b) = F[Len(inserted)]
<1>0. PICK I \in Seq(Keys) : I = inserted
  OBVIOUS
<1>1. PICK l \in Nat : I = inserted /\ l = Len(inserted)
  BY <1>0
<1> DEFINE D == CHOOSE D : D = [i \in 0 .. l |-> SieveStep(D, I, b, i)]
<1>2. H!InBucket(b) = D[l]
  BY <1>1 DEF H!InBucket, SieveStep
<1>3. F = [i \in 0 .. l |-> SieveStep(F, I, b, i)]
  BY <1>1 DEF Sieved
<1>4. D = [i \in 0 .. l |-> SieveStep(D, I, b, i)]
  BY <1>3
<1> HIDE DEF D
<1>5. \A i \in 0 .. l : D[i] = SieveStep(D, I, b, i) /\ F[i] = SieveStep(F, I, b, i)
  BY <1>3, <1>4
<1> DEFINE T == {i \in 0 .. l : D[i] # F[i]}
<1>6. T = {}
  <2>1. SUFFICES ASSUME T # {} PROVE FALSE
    OBVIOUS
  <2>2. PICK k \in T : \A y \in T : k <= y
    <3>1. T \subseteq Nat
      OBVIOUS
    <3> HIDE DEF T
    <3> QED
      BY <2>1, <3>1, Smallest
  <2>3. k \in Nat /\ k \in 0 .. l /\ D[k] # F[k]
    BY <2>2
  <2>4. k > 0 => D[k - 1] = F[k - 1]
    <3>1. SUFFICES ASSUME k > 0, D[k - 1] # F[k - 1] PROVE FALSE
      OBVIOUS
    <3>2. k - 1 \in T
      BY <2>3, <3>1
    <3> HIDE DEF T
    <3> QED
      BY <2>2, <2>3, <3>2
  <2> QED
    BY <1>5, <2>3, <2>4 DEF SieveStep
<1>7. D[l] = F[l]
  BY <1>6
<1> QED
  BY <1>1, <1>2, <1>7

\* One more key.
Grows(F, I, key, b) ==
  \E G : /\ Sieved(G, Append(I, key), b)
         /\ G[Len(I) + 1] = IF H!hashCode(key) = b THEN Append(F[Len(I)], key) ELSE F[Len(I)]

\* One more insertion goes through the sieve of its own bucket only.
LEMMA SieveOn ==
  ASSUME NEW I \in Seq(Keys), NEW b, NEW F, Sieved(F, I, b), NEW key \in Keys
  PROVE  Grows(F, I, key, b)
<1>1. PICK l \in Nat : l = Len(I)
  OBVIOUS
<1>2. PICK I2 \in Seq(Keys) : I2 = Append(I, key) /\ Len(I2) = l + 1 /\ I2[l + 1] = key /\ \A i \in 1 .. l : I2[i] = I[i]
  <2>1. Append(I, key) \in Seq(Keys) /\ IsAppend(Append(I, key), I, key)
    BY AppendIs
  <2> QED
    BY <1>1, <2>1 DEF IsAppend
<1>3. F \in [0 .. l -> Seq(Keys)] /\ \A i \in 0 .. l : F[i] = SieveStep(F, I, b, i)
  BY <1>1 DEF Sieved
<1>4. PICK e \in Seq(Keys) : e = IF H!hashCode(key) = b THEN Append(F[l], key) ELSE F[l]
  <2>1. PICK f \in Seq(Keys) : f = F[l]
    BY <1>3
  <2>2. Append(f, key) \in Seq(Keys)
    BY AppendProperties
  <2> QED
    BY <2>1, <2>2
<1>5. PICK G : G = [i \in 0 .. l + 1 |-> IF i \in 0 .. l THEN F[i] ELSE e]
  OBVIOUS
<1>6. G \in [0 .. l + 1 -> Seq(Keys)] /\ (\A i \in 0 .. l : G[i] = F[i]) /\ G[l + 1] = e
  BY <1>3, <1>5
<1>7. ASSUME NEW i \in 0 .. l + 1
      PROVE  G[i] = SieveStep(G, I2, b, i)
  <2>1. CASE i \in 0 .. l
    <3>1. i # 0 => i \in 1 .. l /\ i - 1 \in 0 .. l
      BY <2>1
    <3>2. G[i] = SieveStep(F, I, b, i)
      BY <1>3, <1>6, <2>1
    <3>3. i # 0 => I2[i] = I[i] /\ G[i - 1] = F[i - 1]
      BY <1>2, <1>6, <3>1
    <3> QED
      BY <3>2, <3>3 DEF SieveStep
  <2>2. CASE i = l + 1
    <3>1. i # 0 /\ i - 1 = l /\ l \in 0 .. l
      BY <2>2
    <3>2. I2[i] = key /\ G[i - 1] = F[l] /\ G[i] = e
      BY <1>2, <1>6, <2>2, <3>1
    <3> QED
      BY <1>4, <3>1, <3>2 DEF SieveStep
  <2> QED
    BY <2>1, <2>2
<1>8. Sieved(G, I2, b)
  BY <1>2, <1>6, <1>7 DEF Sieved
<1> QED
  BY <1>1, <1>2, <1>4, <1>6, <1>8 DEF Grows

\* The items of the nodes of a ring.
Shown(it, r) == [i \in DOMAIN r |-> it[r[i]]]

\* What display shows of a bucket depends on its items only.
LEMMA ShownOn ==
  ASSUME NEW u \in Nat, NEW r \in Seq(1 .. u), NEW it, NEW it2, \A k \in 1 .. u : it2[k] = it[k]
  PROVE  Shown(it2, r) = Shown(it, r)
<1>1. \A i \in DOMAIN r : r[i] \in 1 .. u
  OBVIOUS
<1> QED
  BY <1>1 DEF Shown

\* display shows an item added at the tail after the others.
LEMMA ShownAdd ==
  ASSUME NEW u \in Nat, NEW r \in Seq(1 .. u), NEW it, NEW it2, \A k \in 1 .. u : it2[k] = it[k],
         NEW key \in Keys, it2[u + 1] = key, Shown(it, r) \in Seq(Keys)
  PROVE  Shown(it2, Append(r, u + 1)) = Append(Shown(it, r), key)
<1>1. PICK l \in Nat : l = Len(r) /\ DOMAIN r = 1 .. l
  OBVIOUS
<1>2. PICK v \in Seq(Keys) : v = Shown(it, r) /\ Len(v) = l /\ \A i \in 1 .. l : v[i] = it[r[i]]
  <2>1. DOMAIN Shown(it, r) = 1 .. l /\ \A i \in 1 .. l : Shown(it, r)[i] = it[r[i]]
    BY <1>1 DEF Shown
  <2>2. PICK v \in Seq(Keys) : v = Shown(it, r)
    OBVIOUS
  <2>3. DOMAIN v = 1 .. l /\ \A i \in 1 .. l : v[i] = it[r[i]]
    BY <2>1, <2>2
  <2>4. Len(v) = l
    <3>1. PICK e \in Nat : e = Len(v) /\ DOMAIN v = 1 .. e
      OBVIOUS
    <3>2. \A i \in Nat : i \in 1 .. e <=> i \in 1 .. l
      BY <2>3, <3>1
    <3>3. ~ (e < l)
      <4>1. e < l => l \in 1 .. l /\ l \notin 1 .. e
        BY <3>1
      <4> QED
        BY <3>2, <4>1
    <3>4. ~ (l < e)
      <4>1. l < e => e \in 1 .. e /\ e \notin 1 .. l
        BY <3>1
      <4> QED
        BY <3>2, <4>1
    <3> QED
      BY <3>1, <3>3, <3>4
  <2> QED
    BY <2>2, <2>3, <2>4
<1>3. PICK x \in Nat : x = u + 1
  OBVIOUS
<1>4. PICK q : q = Append(r, x) /\ DOMAIN q = 1 .. l + 1 /\ q[l + 1] = x /\ \A i \in 1 .. l : q[i] = r[i]
  <2>1. r \in Seq(Nat)
    OBVIOUS
  <2>2. Append(r, x) \in Seq(Nat) /\ IsAppend(Append(r, x), r, x)
    BY <2>1, AppendIs
  <2>3. PICK q \in Seq(Nat) : /\ q = Append(r, x) /\ Len(q) = l + 1 /\ q[l + 1] = x
                             /\ \A i \in 1 .. l : q[i] = r[i]
    BY <1>1, <2>2 DEF IsAppend
  <2>4. DOMAIN q = 1 .. Len(q)
    OBVIOUS
  <2> QED
    BY <2>3, <2>4
<1>5. PICK z \in Seq(Keys) : z = Append(v, key) /\ Len(z) = l + 1 /\ z[l + 1] = key /\ \A i \in 1 .. l : z[i] = v[i]
  <2>1. Append(v, key) \in Seq(Keys) /\ IsAppend(Append(v, key), v, key)
    BY AppendIs
  <2> QED
    BY <1>2, <2>1 DEF IsAppend
<1>6. \A i \in 1 .. l + 1 : it2[q[i]] = z[i]
  <2> TAKE i \in 1 .. l + 1
  <2>1. CASE i \in 1 .. l
    <3>1. r[i] \in 1 .. u
      BY <1>1, <2>1
    <3>2. q[i] = r[i] /\ z[i] = it[r[i]]
      BY <1>2, <1>4, <1>5, <2>1
    <3> QED
      BY <3>1, <3>2
  <2>2. CASE i = l + 1
    BY <1>3, <1>4, <1>5, <2>2
  <2> QED
    BY <2>1, <2>2
<1>7. z = [i \in 1 .. l + 1 |-> z[i]]
  <2>1. DOMAIN z = 1 .. Len(z)
    OBVIOUS
  <2>2. z \in [1 .. Len(z) -> Keys]
    OBVIOUS
  <2> QED
    BY <1>5, <2>1, <2>2
<1>8. Shown(it2, q) = z
  BY <1>4, <1>6, <1>7 DEF Shown
<1> QED
  BY <1>2, <1>3, <1>4, <1>5, <1>8

----------------------------------------------------------------------------
(* hash.c: the rings of the buckets                                        *)

Allocated == 1 .. MaxNodes

\* The nodes h and s, among the first u, are the ring of bucket b.
RingOf(I, u, N, B, h, s, b) ==
  /\ h \in 1 .. u /\ s \in Seq(1 .. u)
  /\ Plain(Allocated, h, s) /\ Ring(N, B, h, s)
  /\ H!hashCode(I[h]) = b /\ \A i \in 1 .. Len(s) : H!hashCode(I[s[i]]) = b

\* A node that __hash_create puts at the end of a ring.
LEMMA RingOfAdd ==
  ASSUME NEW I \in Seq(Keys), NEW u \in Nat, u = Len(I), u < MaxNodes, NEW N, NEW B, NEW h, NEW s, NEW b,
         RingOf(I, u, N, B, h, s, b), NEW key \in Keys, H!hashCode(key) = b,
         NEW x, x = u + 1, NEW p, p = B[h], NEW N2, NEW B2, Inserted(Allocated, N, B, N2, B2, p, x, h)
  PROVE  RingOf(Append(I, key), u + 1, N2, B2, h, Append(s, x), b)
<1>1. /\ h \in 1 .. u /\ s \in Seq(1 .. u) /\ Plain(Allocated, h, s) /\ Ring(N, B, h, s)
      /\ H!hashCode(I[h]) = b /\ \A i \in 1 .. Len(s) : H!hashCode(I[s[i]]) = b
  BY DEF RingOf
<1>2. x \in Allocated /\ x # h /\ x \notin 1 .. u /\ x \in 1 .. u + 1
  BY <1>1, HashAssumption DEF Allocated
<1>3. \A i \in 1 .. Len(s) : s[i] \in 1 .. u /\ s[i] # x
  BY <1>1, <1>2
<1>4. PICK j \in 0 .. Len(s) : j = Len(s)
  BY <1>1
<1>5. p = Cell(h, s, j) /\ h = Cell(h, s, j + 1)
  <2>1. Cell(h, s, Len(s) + 1) = h
    BY <1>1, CellIs
  <2> QED
    BY <1>1, <1>4, <2>1 DEF Ring
<1>6. Ring(N2, B2, h, Put(s, j, x)) /\ Plain(Allocated, h, Put(s, j, x))
  BY <1>1, <1>2, <1>3, <1>5, RingPut
<1>7. PICK t \in Seq(1 .. u + 1) : t = Append(s, x) /\ Len(t) = Len(s) + 1 /\ t[Len(s) + 1] = x
                                    /\ \A i \in 1 .. Len(s) : t[i] = s[i]
  <2>1. s \in Seq(1 .. u + 1)
    BY <1>1
  <2>2. Append(s, x) \in Seq(1 .. u + 1) /\ IsAppend(Append(s, x), s, x)
    BY <1>2, <2>1, AppendIs
  <2> QED
    BY <2>2 DEF IsAppend
<1>8. t = Put(s, j, x)
  <2>1. s \in Seq(Allocated) /\ x \in Allocated
    BY <1>1, <1>2 DEF Plain
  <2> QED
    BY <1>4, <1>7, <2>1, BackIs
<1>9. PICK I2 \in Seq(Keys) : I2 = Append(I, key) /\ I2[u + 1] = key /\ \A k \in 1 .. u : I2[k] = I[k]
  <2>1. Append(I, key) \in Seq(Keys) /\ IsAppend(Append(I, key), I, key)
    BY AppendIs
  <2> QED
    BY <2>1 DEF IsAppend
<1>10. \A i \in 1 .. Len(t) : H!hashCode(I2[t[i]]) = b
  <2> TAKE i \in 1 .. Len(t)
  <2>1. CASE i \in 1 .. Len(s)
    BY <1>1, <1>3, <1>7, <1>9, <2>1
  <2>2. CASE i = Len(s) + 1
    BY <1>7, <1>9, <2>2
  <2>3. i \in 1 .. Len(s) \/ i = Len(s) + 1
    <3>1. Len(s) \in Nat
      BY <1>1
    <3> QED
      BY <1>7, <3>1
  <2> QED
    BY <2>1, <2>2, <2>3
<1>11. h \in 1 .. u + 1 /\ H!hashCode(I2[h]) = b
  BY <1>1, <1>9
<1> QED
  BY <1>6, <1>7, <1>8, <1>9, <1>10, <1>11 DEF RingOf

\* The first node of a bucket.
LEMMA RingOfNew ==
  ASSUME NEW I \in Seq(Keys), NEW u \in Nat, u = Len(I), u < MaxNodes, NEW b,
         NEW key \in Keys, H!hashCode(key) = b,
         NEW x, x = u + 1, NEW N2, NEW B2, N2[x] = x, B2[x] = x
  PROVE  RingOf(Append(I, key), u + 1, N2, B2, x, <<>>, b)
<1>1. x \in Allocated /\ x \in 1 .. u + 1
  BY HashAssumption DEF Allocated
<1>2. Plain(Allocated, x, <<>>) /\ Ring(N2, B2, x, <<>>)
  BY <1>1, RingEmpty
<1>3. Append(I, key)[x] = key
  OBVIOUS
<1>4. <<>> \in Seq(1 .. u + 1) /\ Len(<<>>) = 0
  OBVIOUS
<1> QED
  BY <1>1, <1>2, <1>3, <1>4 DEF RingOf

\* The rings of the other buckets.
Untouched(I, u, N, B, N2, B2, b) ==
  \A k \in 1 .. u : H!hashCode(I[k]) = b => N2[k] = N[k] /\ B2[k] = B[k]

\* A bucket that an insertion does not touch stays as it is.
LEMMA RingOfSame ==
  ASSUME NEW I \in Seq(Keys), NEW u \in Nat, u = Len(I), NEW N, NEW B, NEW h, NEW s, NEW b,
         RingOf(I, u, N, B, h, s, b), NEW key \in Keys, NEW N2, NEW B2,
         Untouched(I, u, N, B, N2, B2, b)
  PROVE  RingOf(Append(I, key), u + 1, N2, B2, h, s, b)
<1>1. /\ h \in 1 .. u /\ s \in Seq(1 .. u) /\ Plain(Allocated, h, s) /\ Ring(N, B, h, s)
      /\ H!hashCode(I[h]) = b /\ \A i \in 1 .. Len(s) : H!hashCode(I[s[i]]) = b
  BY DEF RingOf
<1>2. \A i \in 1 .. Len(s) : s[i] \in 1 .. u
  BY <1>1
<1>3. Ring(N2, B2, h, s)
  <2>1. N2[h] = N[h] /\ B2[h] = B[h] /\ \A i \in 1 .. Len(s) : N2[s[i]] = N[s[i]] /\ B2[s[i]] = B[s[i]]
    BY <1>1, <1>2 DEF Untouched
  <2> QED
    BY <1>1, <2>1, RingSame
<1>4. PICK I2 \in Seq(Keys) : I2 = Append(I, key) /\ \A k \in 1 .. u : I2[k] = I[k]
  <2>1. Append(I, key) \in Seq(Keys) /\ IsAppend(Append(I, key), I, key)
    BY AppendIs
  <2> QED
    BY <2>1 DEF IsAppend
<1>5. h \in 1 .. u + 1 /\ s \in Seq(1 .. u + 1)
  BY <1>1
<1> QED
  BY <1>1, <1>2, <1>3, <1>4, <1>5 DEF RingOf

----------------------------------------------------------------------------
(* hash.c: every insertion keeps the rings                                 *)

HashHeaps == [next : [Allocated -> Allocated \cup {NIL}], prev : [Allocated -> Allocated \cup {NIL}]]

\* The ring of bucket b holds the keys InBucket finds, in their order; a
\* bucket without a struct head has none.
BucketOK(I, u, m, sl, fi, it, b) ==
  \E F : /\ Sieved(F, I, b)
         /\ \/ /\ sl /\ \E s : /\ RingOf(I, u, m.next, m.prev, fi, s, b)
                               /\ F[u] = Shown(it, <<fi>> \o s)
            \/ ~sl /\ F[u] = <<>>

HashInv ==
  /\ inserted \in Seq(Keys) /\ used = Len(inserted) /\ used <= MaxNodes
  /\ item \in [Allocated -> Keys \cup {NIL}] /\ hashmem \in HashHeaps
  /\ slots \in [H!Buckets -> BOOLEAN] /\ first \in [H!Buckets -> Allocated \cup {NIL}]
  /\ ~crashed => \A b \in H!Buckets :
       BucketOK(inserted, used, hashmem, slots[b], first[b], item, b)

\* hashCode() is a bucket of the table.
LEMMA CodeIs ==
  ASSUME NEW key \in Keys
  PROVE  H!hashCode(key) \in H!Buckets
<1>1. key \in Nat /\ HashSize \in Nat \ {0} /\ INT \in Nat \ {0} /\ ULONG \in Nat \ {0}
  BY HashAssumption
<1>2. PICK int \in Int : int = key % INT
  BY <1>1
<1>3. PICK signed \in Int : signed = IF int >= INT \div 2 THEN int - INT ELSE int
  <2>1. PICK less \in Int : less = int - INT
    BY <1>1
  <2>2. CASE int >= INT \div 2
    BY <2>1, <2>2
  <2>3. CASE ~ (int >= INT \div 2)
    BY <2>3
  <2> QED
    BY <2>2, <2>3
<1>4. PICK long \in Int : long = signed % ULONG
  BY <1>1
<1>5. long % HashSize \in 0 .. HashSize - 1
  BY <1>1
<1> QED
  BY <1>2, <1>3, <1>4, <1>5 DEF H!hashCode, H!Buckets

\* The two ways of __hash_create to link the node x.
LEMMA LinkIs ==
  ASSUME NEW m \in HashHeaps, NEW x \in Allocated
  PROVE  /\ H!INIT_LIST_HEAD(m, x) \in HashHeaps
         /\ H!INIT_LIST_HEAD(m, x).next[x] = x /\ H!INIT_LIST_HEAD(m, x).prev[x] = x
         /\ \A c \in Allocated \ {x} : /\ H!INIT_LIST_HEAD(m, x).next[c] = m.next[c]
                                       /\ H!INIT_LIST_HEAD(m, x).prev[c] = m.prev[c]
BY DEF H!INIT_LIST_HEAD, HashHeaps

\* list_add_tail() of hash.c links the item before the bucket's first cell.
LEMMA LinkTailIs ==
  ASSUME NEW m \in HashHeaps, NEW x \in Allocated, NEW h \in Allocated, NEW p \in Allocated,
         p = m.prev[h], x # h, x # p
  PROVE  /\ H!list_add_tail(m, x, h) \in HashHeaps
         /\ Inserted(Allocated, m.next, m.prev, H!list_add_tail(m, x, h).next,
                     H!list_add_tail(m, x, h).prev, p, x, h)
<1>1. PICK e : e = [m EXCEPT !.prev[h] = x, !.next[x] = h, !.prev[x] = p, !.next[p] = x]
  OBVIOUS
<1>2. e = H!list_add_tail(m, x, h)
  BY <1>1 DEF H!list_add_tail, H!ListAdd
<1>3. e \in HashHeaps /\ Inserted(Allocated, m.next, m.prev, e.next, e.prev, p, x, h)
  BY <1>1 DEF HashHeaps, Inserted
<1> QED
  BY <1>2, <1>3

\* The last node of a ring belongs to its bucket.
LEMMA RingLast ==
  ASSUME NEW I, NEW u \in Nat, u <= MaxNodes, NEW N, NEW B, NEW h, NEW s, NEW b, RingOf(I, u, N, B, h, s, b)
  PROVE  /\ h \in 1 .. u /\ h \in Allocated /\ H!hashCode(I[h]) = b
         /\ B[h] \in 1 .. u /\ B[h] \in Allocated /\ H!hashCode(I[B[h]]) = b
<1>1. /\ h \in 1 .. u /\ s \in Seq(1 .. u) /\ Plain(Allocated, h, s) /\ Ring(N, B, h, s)
      /\ H!hashCode(I[h]) = b /\ \A i \in 1 .. Len(s) : H!hashCode(I[s[i]]) = b
  BY DEF RingOf
<1>2. Cell(h, s, Len(s) + 1) = h /\ Len(s) \in 0 .. Len(s)
  BY <1>1, CellIs
<1>3. B[h] = Cell(h, s, Len(s))
  BY <1>1, <1>2 DEF Ring
<1>4. Cell(h, s, Len(s)) \in 1 .. u /\ H!hashCode(I[Cell(h, s, Len(s))]) = b
  <2>1. CASE Len(s) \in 1 .. Len(s)
    <3>1. s[Len(s)] \in 1 .. u
      BY <1>1, <2>1
    <3> QED
      BY <1>1, <2>1, <3>1 DEF Cell
  <2>2. CASE ~ (Len(s) \in 1 .. Len(s))
    BY <1>1, <2>2 DEF Cell
  <2> QED
    BY <2>1, <2>2
<1>5. \A k \in 1 .. u : k \in Allocated
  BY HashAssumption DEF Allocated
<1> QED
  BY <1>1, <1>3, <1>4, <1>5

\* A new ring or one more node in the ring of the key's bucket.
\* What __hash_create does to the nodes, and what it leaves alone.
IsLinked(m2, m, sl, x, fi) ==
  m2 = IF sl THEN H!list_add_tail(m, x, fi) ELSE H!INIT_LIST_HEAD(m, x)

SameItems(it2, it, u) == \A k \in 1 .. u : it2[k] = it[k]

OthersKept(I, u, m, m2, b) ==
  \A k \in 1 .. u : H!hashCode(I[k]) # b => m2.next[k] = m.next[k] /\ m2.prev[k] = m.prev[k]

\* hash_insert of key, as node x, in its bucket b.
Insertion(I, u, m, sl, fi, it, b, key, x, m2, sl2, fi2, it2) ==
  /\ I \in Seq(Keys) /\ u \in Nat /\ u = Len(I) /\ u < MaxNodes /\ x = u + 1
  /\ m \in HashHeaps /\ IsLinked(m2, m, sl, x, fi) /\ BucketOK(I, u, m, sl, fi, it, b)
  /\ key \in Keys /\ H!hashCode(key) = b /\ it2[x] = key /\ SameItems(it2, it, u)
  /\ sl2 = TRUE /\ fi2 = IF sl THEN fi ELSE x

\* hash_insert() adds the key at the tail of its bucket and leaves the
\* other buckets alone.
LEMMA BucketAdd ==
  ASSUME NEW I, NEW u, NEW m, NEW sl, NEW fi, NEW it, NEW b, NEW key, NEW x, NEW m2, NEW sl2, NEW fi2, NEW it2,
         Insertion(I, u, m, sl, fi, it, b, key, x, m2, sl2, fi2, it2)
  PROVE  /\ m2 \in HashHeaps
         /\ BucketOK(Append(I, key), u + 1, m2, sl2, fi2, it2, b)
         /\ OthersKept(I, u, m, m2, b)
<1> USE DEF Insertion
<1>0. /\ m2 = IF sl THEN H!list_add_tail(m, x, fi) ELSE H!INIT_LIST_HEAD(m, x)
      /\ \A k \in 1 .. u : it2[k] = it[k]
  BY DEF IsLinked, SameItems
<1>1. x \in Allocated /\ x \notin 1 .. u /\ \A k \in 1 .. u : k \in Allocated
  BY HashAssumption DEF Allocated
<1>2. PICK F : /\ Sieved(F, I, b)
               /\ \/ /\ sl /\ \E s : /\ RingOf(I, u, m.next, m.prev, fi, s, b)
                                     /\ F[u] = Shown(it, <<fi>> \o s)
                  \/ ~sl /\ F[u] = <<>>
  BY DEF BucketOK
<1>3. PICK G : Sieved(G, Append(I, key), b) /\ G[u + 1] = Append(F[u], key)
  <2>1. Sieved(F, I, b)
    BY <1>2
  <2>2. Grows(F, I, key, b)
    BY <2>1, SieveOn
  <2> QED
    BY <2>2 DEF Grows
<1>4. F[u] \in Seq(Keys)
  BY <1>2 DEF Sieved
<1>5. CASE sl
  <2>1. PICK s : RingOf(I, u, m.next, m.prev, fi, s, b) /\ F[u] = Shown(it, <<fi>> \o s)
    BY <1>2, <1>5
  <2>2. PICK p \in Allocated : /\ p = m.prev[fi] /\ fi \in 1 .. u /\ fi \in Allocated
                               /\ H!hashCode(I[fi]) = b /\ p \in 1 .. u /\ H!hashCode(I[p]) = b
    <3>1. PICK N, B : N = m.next /\ B = m.prev
      OBVIOUS
    <3>2. RingOf(I, u, N, B, fi, s, b) /\ u <= MaxNodes
      BY <2>1, <3>1, HashAssumption
    <3>3. /\ fi \in 1 .. u /\ fi \in Allocated /\ H!hashCode(I[fi]) = b
          /\ B[fi] \in 1 .. u /\ B[fi] \in Allocated /\ H!hashCode(I[B[fi]]) = b
      BY <3>2, RingLast
    <3> QED
      BY <3>1, <3>3
  <2>3. m2 = H!list_add_tail(m, x, fi)
    BY <1>0, <1>5
  <2>4. x # fi /\ x # p
    BY <1>1, <2>2
  <2>5. m2 \in HashHeaps /\ Inserted(Allocated, m.next, m.prev, m2.next, m2.prev, p, x, fi)
    BY <1>1, <2>2, <2>3, <2>4, LinkTailIs
  <2>6. RingOf(Append(I, key), u + 1, m2.next, m2.prev, fi, Append(s, x), b)
    BY <2>1, <2>2, <2>5, RingOfAdd
  <2>7. G[u + 1] = Shown(it2, <<fi>> \o Append(s, x))
    <3>1. s \in Seq(1 .. u) /\ <<fi>> \in Seq(1 .. u)
      BY <2>1, <2>2 DEF RingOf
    <3>2. PICK r \in Seq(1 .. u) : r = <<fi>> \o s
      BY <3>1, ConcatProperties
    <3>3. Shown(it2, Append(r, u + 1)) = Append(Shown(it, r), key)
      <4>1. Shown(it, r) \in Seq(Keys) /\ it2[u + 1] = key
        BY <1>4, <2>1, <3>2
      <4>2. /\ u \in Nat
            /\ key \in Keys
        OBVIOUS
      <4>3. PICK y : y = key
        OBVIOUS
      <4> HIDE DEF Insertion
      <4>4. Shown(it2, Append(r, u + 1)) = Append(Shown(it, r), y)
        <5>1. y \in Keys
          BY <4>2, <4>3
        <5>2. it2[u + 1] = y
          BY <4>1, <4>3
        <5>3. \A k \in 1 .. u : it2[k] = it[k]
          BY <1>0
        <5>4. Shown(it, r) \in Seq(Keys)
          BY <4>1
        <5>5. r \in Seq(1 .. u)
          BY <3>2
        <5> QED
          BY <4>2, <5>1, <5>2, <5>3, <5>4, <5>5, ShownAdd, SMTT(30)
      <4> QED
        BY <4>3, <4>4
    <3>4. Append(r, x) = <<fi>> \o Append(s, x)
      <4>1. /\ s \in Seq(Allocated) /\ <<fi>> \in Seq(Allocated) /\ r \in Seq(Allocated) /\ <<x>> \in Seq(Allocated)
        BY <1>1, <2>2, <3>1
      <4>2. Append(r, x) = r \o <<x>> /\ Append(s, x) = s \o <<x>>
        BY <1>1, <4>1, AppendIsConcat
      <4>3. (<<fi>> \o s) \o <<x>> = <<fi>> \o (s \o <<x>>)
        BY <4>1, ConcatAssociative
      <4> QED
        BY <3>2, <4>2, <4>3
    <3> QED
      BY <1>3, <2>1, <3>2, <3>3, <3>4
  <2>8. fi2 = fi /\ BucketOK(Append(I, key), u + 1, m2, sl2, fi, it2, b)
    BY <1>3, <1>5, <2>6, <2>7 DEF BucketOK
  <2>9. OthersKept(I, u, m, m2, b)
    BY <1>1, <2>2, <2>5 DEF Inserted, OthersKept
  <2> QED
    BY <1>5, <2>5, <2>8, <2>9
<1>6. CASE ~sl
  <2>1. m2 = H!INIT_LIST_HEAD(m, x) /\ F[u] = <<>>
    BY <1>0, <1>2, <1>6
  <2>2. /\ m2 \in HashHeaps /\ m2.next[x] = x /\ m2.prev[x] = x
        /\ \A c \in Allocated \ {x} : m2.next[c] = m.next[c] /\ m2.prev[c] = m.prev[c]
    BY <1>1, <2>1, LinkIs
  <2>3. RingOf(Append(I, key), u + 1, m2.next, m2.prev, x, <<>>, b)
    BY <2>2, RingOfNew
  <2>4. G[u + 1] = Shown(it2, <<x>> \o <<>>)
    <3>1. <<x>> \o <<>> = <<x>>
      BY <1>1, ConcatEmptySeq
    <3>2. Shown(it2, <<x>>) = <<key>>
      BY DEF Shown
    <3> QED
      BY <1>3, <2>1, <3>1, <3>2
  <2>5. fi2 = x /\ BucketOK(Append(I, key), u + 1, m2, sl2, x, it2, b)
    BY <1>3, <1>6, <2>3, <2>4 DEF BucketOK
  <2>6. OthersKept(I, u, m, m2, b)
    BY <1>1, <2>2 DEF OthersKept
  <2> QED
    BY <1>6, <2>2, <2>5, <2>6
<1> QED
  BY <1>5, <1>6

\* The other buckets.
LEMMA BucketSame ==
  ASSUME NEW I \in Seq(Keys), NEW u \in Nat, u = Len(I), NEW m,
         NEW sl, NEW fi, NEW it, NEW b, BucketOK(I, u, m, sl, fi, it, b),
         NEW key \in Keys, NEW d, H!hashCode(key) = d, d # b, NEW m2,
         OthersKept(I, u, m, m2, d), NEW it2, SameItems(it2, it, u)
  PROVE  BucketOK(Append(I, key), u + 1, m2, sl, fi, it2, b)
<1>1. PICK F : /\ Sieved(F, I, b)
               /\ \/ /\ sl /\ \E s : /\ RingOf(I, u, m.next, m.prev, fi, s, b)
                                     /\ F[u] = Shown(it, <<fi>> \o s)
                  \/ ~sl /\ F[u] = <<>>
  BY DEF BucketOK
<1>2. PICK G : Sieved(G, Append(I, key), b) /\ G[u + 1] = F[u]
  <2>1. Sieved(F, I, b)
    BY <1>1
  <2>2. Grows(F, I, key, b)
    BY <2>1, SieveOn
  <2> QED
    BY <2>2 DEF Grows
<1>3. CASE sl
  <2>1. PICK s : RingOf(I, u, m.next, m.prev, fi, s, b) /\ F[u] = Shown(it, <<fi>> \o s)
    BY <1>1, <1>3
  <2>2. RingOf(Append(I, key), u + 1, m2.next, m2.prev, fi, s, b)
    <3>1. PICK N, B, N2, B2 : N = m.next /\ B = m.prev /\ N2 = m2.next /\ B2 = m2.prev
      OBVIOUS
    <3>2. /\ RingOf(I, u, N, B, fi, s, b)
          /\ Untouched(I, u, N, B, N2, B2, b)
      BY <2>1, <3>1 DEF Untouched, OthersKept
    <3>3. RingOf(Append(I, key), u + 1, N2, B2, fi, s, b)
      BY <3>2, RingOfSame
    <3> QED
      BY <3>1, <3>3
  <2>3. Shown(it2, <<fi>> \o s) = Shown(it, <<fi>> \o s)
    <3>1. s \in Seq(1 .. u) /\ <<fi>> \in Seq(1 .. u)
      BY <2>1 DEF RingOf
    <3>2. PICK r \in Seq(1 .. u) : r = <<fi>> \o s
      BY <3>1, ConcatProperties
    <3> QED
      BY <3>2, ShownOn DEF SameItems
  <2> QED
    BY <1>2, <1>3, <2>1, <2>2, <2>3 DEF BucketOK
<1>4. CASE ~sl
  BY <1>1, <1>2, <1>4 DEF BucketOK
<1> QED
  BY <1>3, <1>4

\* hash_insert() keeps the table right, when an allocation fails too.
LEMMA InsertStep ==
  ASSUME HashInv, NEW key \in Keys, H!Insert(key)
  PROVE  HashInv'
<1>1. PICK b \in H!Buckets : b = H!hashCode(key)
  BY CodeIs
<1>2. /\ inserted \in Seq(Keys) /\ used = Len(inserted) /\ used \in Nat /\ used <= MaxNodes
      /\ item \in [Allocated -> Keys \cup {NIL}] /\ hashmem \in HashHeaps
      /\ slots \in [H!Buckets -> BOOLEAN] /\ first \in [H!Buckets -> Allocated \cup {NIL}]
      /\ ~crashed
      /\ \A c \in H!Buckets : BucketOK(inserted, used, hashmem, slots[c], first[c], item, c)
  BY DEF HashInv, H!Insert
<1>3. CASE H!NoMemory(b)
  <2>1. /\ crashed' = TRUE /\ inserted' = inserted /\ used' = used /\ item' = item /\ hashmem' = hashmem
        /\ first' = first /\ slots' \in [H!Buckets -> BOOLEAN]
    BY <1>2, <1>3 DEF H!NoMemory
  <2> QED
    BY <1>2, <2>1 DEF HashInv
<1>4. CASE ~H!NoMemory(b)
  <2>1. /\ used < MaxNodes /\ used' = used + 1
        /\ hashmem' = H!Linked(b, used + 1) /\ slots' = [slots EXCEPT ![b] = TRUE]
        /\ first' = [first EXCEPT ![b] = IF slots[b] THEN first[b] ELSE used + 1]
        /\ item' = [item EXCEPT ![used + 1] = key] /\ inserted' = Append(inserted, key)
    BY <1>1, <1>4 DEF H!Insert
  <2>2. PICK x \in Allocated : x = used + 1
    BY <1>2, <2>1, HashAssumption DEF Allocated
  <2>3. /\ item' \in [Allocated -> Keys \cup {NIL}] /\ item'[x] = key
        /\ \A k \in 1 .. used : item'[k] = item[k]
    <3>1. \A k \in 1 .. used : k \in Allocated /\ k # x
      BY <1>2, <2>2, HashAssumption DEF Allocated
    <3> QED
      BY <1>2, <2>1, <2>2, <3>1
  <2>4. hashmem' = IF slots[b] THEN H!list_add_tail(hashmem, x, first[b]) ELSE H!INIT_LIST_HEAD(hashmem, x)
    BY <2>1, <2>2 DEF H!Linked
  <2>5. BucketOK(inserted, used, hashmem, slots[b], first[b], item, b) /\ slots[b] \in BOOLEAN
    BY <1>2
  <2>6. PICK I, u, m, it, it2, m2 :
          /\ I \in Seq(Keys) /\ u \in Nat /\ m \in HashHeaps
          /\ I = inserted /\ u = used /\ m = hashmem /\ it = item /\ it2 = item' /\ m2 = hashmem'
    BY <1>2
  <2>7. PICK sl, fi, sl2, fi2 : sl = slots[b] /\ fi = first[b] /\ sl2 = TRUE /\ fi2 = IF sl THEN fi ELSE x
    OBVIOUS
  <2>8. /\ I \in Seq(Keys) /\ u \in Nat /\ u = Len(I) /\ u < MaxNodes /\ x = u + 1 /\ H!hashCode(key) = b
        /\ SameItems(it2, it, u) /\ it2[x] = key /\ IsLinked(m2, m, sl, x, fi)
    BY <1>1, <1>2, <2>1, <2>2, <2>3, <2>4, <2>6, <2>7 DEF SameItems, IsLinked
  <2>9. BucketOK(I, u, m, sl, fi, it, b)
    BY <2>5, <2>6, <2>7
  <2>10. /\ m2 \in HashHeaps /\ OthersKept(I, u, m, m2, b)
         /\ BucketOK(Append(I, key), u + 1, m2, sl2, fi2, it2, b)
    <3>1. Insertion(I, u, m, sl, fi, it, b, key, x, m2, sl2, fi2, it2)
      BY <2>6, <2>7, <2>8, <2>9 DEF Insertion
    <3> QED
      BY <3>1, BucketAdd
  <2>11. ASSUME NEW c \in H!Buckets
         PROVE  BucketOK(inserted', used', hashmem', slots'[c], first'[c], item', c)
    <3>1. CASE c = b
      <4>1. slots'[c] = sl2 /\ first'[c] = fi2
        BY <1>2, <2>1, <2>2, <2>7, <3>1
      <4> QED
        BY <2>1, <2>6, <2>10, <3>1, <4>1
    <3>2. CASE c # b
      <4>1. slots'[c] = slots[c] /\ first'[c] = first[c]
        BY <1>2, <2>1, <3>2
      <4>2. PICK s, f : s = slots[c] /\ f = first[c]
        OBVIOUS
      <4>3. BucketOK(I, u, m, s, f, it, c)
        BY <1>2, <2>6, <4>2
      <4>4. BucketOK(Append(I, key), u + 1, m2, s, f, it2, c)
        BY <2>8, <2>10, <3>2, <4>3, BucketSame
      <4> QED
        BY <2>1, <2>6, <4>1, <4>2, <4>4
    <3> QED
      BY <3>1, <3>2
  <2>12. inserted' \in Seq(Keys) /\ used' = Len(inserted') /\ used' <= MaxNodes
    <3>1. Append(inserted, key) \in Seq(Keys) /\ Len(Append(inserted, key)) = Len(inserted) + 1
      BY <1>2, AppendProperties
    <3> QED
      BY <1>2, <2>1, <3>1, HashAssumption
  <2>13. slots' \in [H!Buckets -> BOOLEAN] /\ first' \in [H!Buckets -> Allocated \cup {NIL}]
    BY <1>2, <2>1, <2>2
  <2> QED
    BY <2>3, <2>6, <2>10, <2>11, <2>12, <2>13 DEF HashInv
<1> QED
  BY <1>3, <1>4

\* hash_alloc() makes empty buckets.
LEMMA HashStart ==
  ASSUME H!Init
  PROVE  HashInv
<1>1. /\ inserted = <<>> /\ used = 0 /\ hashmem \in HashHeaps /\ item \in [Allocated -> Keys \cup {NIL}]
      /\ slots \in [H!Buckets -> BOOLEAN] /\ first \in [H!Buckets -> Allocated \cup {NIL}]
      /\ \A b \in H!Buckets : ~slots[b]
  BY DEF H!Init, HashHeaps, Allocated
<1>2. ASSUME NEW b \in H!Buckets
      PROVE  BucketOK(inserted, used, hashmem, slots[b], first[b], item, b)
  <2>1. PICK F : F = [i \in 0 .. 0 |-> <<>>]
    OBVIOUS
  <2>2. F \in [0 .. 0 -> Seq(Keys)] /\ F[0] = <<>>
    BY <2>1
  <2>3. Len(inserted) = 0
    BY <1>1
  <2>4. Sieved(F, inserted, b)
    BY <2>2, <2>3 DEF Sieved, SieveStep
  <2> QED
    BY <1>1, <2>2, <2>4 DEF BucketOK
<1>3. inserted \in Seq(Keys) /\ used = Len(inserted) /\ used <= MaxNodes
  BY <1>1, HashAssumption
<1> QED
  BY <1>1, <1>2, <1>3 DEF HashInv

\* Every call keeps the table right.
LEMMA HashNext ==
  ASSUME HashInv, H!Next
  PROVE  HashInv'
<1>1. PICK key \in Keys : H!Insert(key) \/ H!CheckPresent(key)
  BY DEF H!Next
<1>2. CASE H!CheckPresent(key)
  <2>1. /\ ~crashed /\ inserted' = inserted /\ used' = used /\ item' = item /\ hashmem' = hashmem
        /\ first' = first /\ slots' = slots
    BY <1>2 DEF H!CheckPresent
  <2>2. \A b \in H!Buckets : BucketOK(inserted', used', hashmem', slots'[b], first'[b], item', b)
    BY <2>1 DEF HashInv
  <2>3. /\ inserted' \in Seq(Keys) /\ used' = Len(inserted') /\ used' <= MaxNodes
        /\ item' \in [Allocated -> Keys \cup {NIL}] /\ hashmem' \in HashHeaps
        /\ slots' \in [H!Buckets -> BOOLEAN] /\ first' \in [H!Buckets -> Allocated \cup {NIL}]
    BY <2>1 DEF HashInv
  <2> QED
    BY <2>2, <2>3 DEF HashInv
<1> QED
  BY <1>1, <1>2, InsertStep

\* The rings are what display shows.
LEMMA HashShows ==
  ASSUME HashInv
  PROVE  DisplayShowsAll
<1> SUFFICES ASSUME ~crashed, NEW b \in H!Buckets
             PROVE  H!display(b) = H!InBucket(b)
  BY DEF DisplayShowsAll, H!DisplayShowsAll
<1>1. /\ inserted \in Seq(Keys) /\ used = Len(inserted) /\ used \in Nat /\ used <= MaxNodes
      /\ hashmem \in HashHeaps
      /\ BucketOK(inserted, used, hashmem, slots[b], first[b], item, b)
  BY DEF HashInv
<1>2. PICK F : /\ Sieved(F, inserted, b)
               /\ \/ /\ slots[b] /\ \E s : /\ RingOf(inserted, used, hashmem.next, hashmem.prev, first[b], s, b)
                                           /\ F[used] = Shown(item, <<first[b]>> \o s)
                  \/ ~slots[b] /\ F[used] = <<>>
  BY <1>1 DEF BucketOK
<1>3. H!InBucket(b) = F[used]
  BY <1>1, <1>2, SieveIs
<1>4. CASE ~slots[b]
  BY <1>2, <1>3, <1>4 DEF H!display
<1>5. CASE slots[b]
  <2>1. PICK s : /\ RingOf(inserted, used, hashmem.next, hashmem.prev, first[b], s, b)
                 /\ F[used] = Shown(item, <<first[b]>> \o s)
    BY <1>2, <1>5
  <2>2. Plain(Allocated, first[b], s) /\ Ring(hashmem.next, hashmem.prev, first[b], s)
    BY <2>1 DEF RingOf
  <2>3. s \in Seq(Allocated) /\ \A i, j \in 1 .. Len(s) : s[i] = s[j] => i = j
    BY <2>2 DEF Plain
  <2>4. Len(s) <= MaxNodes /\ MaxNodes \in Nat
    <3>1. s \in Injection(1 .. Len(s), Allocated)
      BY <2>3 DEF Injection, IsInjective
    <3>2. MaxNodes \in Nat /\ IsFiniteSet(Allocated) /\ Cardinality(Allocated) = IF 1 > MaxNodes THEN 0 ELSE (MaxNodes - 1) + 1
      BY HashAssumption, FS_Interval DEF Allocated
    <3>3. Cardinality(1 .. Len(s)) <= Cardinality(Allocated)
      BY <3>1, <3>2, FS_Injection
    <3>4. Cardinality(1 .. Len(s)) = IF 1 > Len(s) THEN 0 ELSE (Len(s) - 1) + 1
      BY <2>3, FS_Interval
    <3>5. PICK l \in Nat : l = Len(s)
      BY <2>3
    <3> QED
      BY <3>2, <3>3, <3>4, <3>5
  <2>5. DOMAIN hashmem.next = Allocated
    BY <1>1 DEF HashHeaps
  <2>6. Li!Walk(hashmem.next, first[b], MaxNodes) = s
    <3>1. PICK N, B, h : N = hashmem.next /\ B = hashmem.prev /\ h = first[b]
      OBVIOUS
    <3>2. Plain(Allocated, h, s) /\ Ring(N, B, h, s) /\ DOMAIN N = Allocated
      BY <2>2, <2>5, <3>1
    <3>3. Li!Walk(N, h, MaxNodes) = s
      BY <2>4, <3>2, WalkRing
    <3> QED
      BY <3>1, <3>3
  <2>7. H!Walk(hashmem.next, first[b], MaxNodes) = Li!Walk(hashmem.next, first[b], MaxNodes)
    BY DEF H!Walk, Li!Walk
  <2>8. H!display(b) = Shown(item, <<first[b]>> \o s)
    BY <1>5, <2>6, <2>7 DEF H!display, Shown
  <2> QED
    BY <1>3, <2>1, <2>8
<1> QED
  BY <1>4, <1>5

\* hash.c: display shows every key that was inserted, in the bucket its hash
\* names and in the order of insertion, for any size of the table and any
\* number of nodes.
THEOREM DisplayTheorem == Spec => []DisplayShowsAll
<1>1. Init => HashInv
  BY HashStart DEF Init
<1>2. HashInv /\ [Next]_vars => HashInv'
  <2> SUFFICES ASSUME HashInv, [Next]_vars
               PROVE  HashInv'
    OBVIOUS
  <2>1. CASE H!Next
    BY <2>1, HashNext
  <2>2. CASE UNCHANGED hashVars
    BY <2>2 DEF hashVars, HashInv, BucketOK, Sieved, SieveStep, RingOf
  <2> QED
    BY <2>1, <2>2 DEF Next, vars
<1>3. HashInv => DisplayShowsAll
  BY HashShows
<1> QED
  BY <1>1, <1>2, <1>3, PTL DEF Spec
=============================================================================
