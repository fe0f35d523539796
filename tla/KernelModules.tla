--------------------------- MODULE KernelModules ---------------------------
(***************************************************************************)
(* Three loadable modules whose functions the kernel calls while they are  *)
(* loaded: kernel_modules/workqueue/my_workqueue.c (work items),           *)
(* kernel_modules/packet_hook/hook.c (packets of a network device) and     *)
(* device/virtual_device/virtual_device.c (open, read, write and release   *)
(* of a character device); and two that do all their work in their init    *)
(* function, read_write/kread.c and crypto/my_crypto.c.                    *)
(*                                                                         *)
(* The kernel (workqueues, dev_add_pack, character devices, the module     *)
(* loader) is external.  A step of a module is its code between two points *)
(* where the kernel may run another of its functions.                      *)
(***************************************************************************)
EXTENDS Integers, FiniteSets

CONSTANTS Cpus,      \* contexts that run work items or receive packets
          Users,     \* processes that use the character device
          Size,      \* 1024 in the source: bytes of the device's buffer
          MaxLoads,  \* bound: times a module is loaded
          NIL

VARIABLES mod,       \* the module this behaviour is about
          at,        \* "out", an init or exit step, or "loaded"
          loads,     \* times it was loaded
          my_wq,     \* my_workqueue: whether create_workqueue succeeded
          queued,    \* my_workqueue: items on my_wq
          handler,   \* cpu -> what it runs of the module, or NIL
          memory,    \* allocations of the module not freed yet
          devrefs,   \* hook: references to the network device
          hooked,    \* hook: ji_proto is on the kernel's list
          buffer,    \* virtual_device: whether buffer points at memory
          registered, \* virtual_device: register_chrdev succeeded
          opened,    \* virtual_device: in which load each user opened it, or 0
          oops       \* the kernel ran code or used memory that is not there

vars == <<mod, at, loads, my_wq, queued, handler, memory, devrefs, hooked,
          buffer, registered, opened, oops>>

Mods == {"workqueue", "hook", "device", "kread", "crypto"}

Init ==
  /\ mod \in Mods
  /\ at = "out" /\ loads = 0
  /\ my_wq = FALSE /\ queued = {}
  /\ handler = [c \in Cpus |-> NIL]
  /\ memory = {} /\ devrefs = 0 /\ hooked = FALSE
  /\ buffer = FALSE /\ registered = FALSE /\ opened = [u \in Users |-> 0]
  /\ oops = FALSE

wqVars == <<my_wq, queued>>
hookVars == <<devrefs, hooked>>
devVars == <<buffer, registered, opened>>

Insmod ==
  /\ at = "out" /\ loads < MaxLoads
  /\ at' = "init" /\ loads' = loads + 1
  /\ UNCHANGED <<mod, wqVars, handler, memory, hookVars, devVars, oops>>

Rmmod ==
  /\ at = "loaded"
  /\ at' = "exit"
  /\ UNCHANGED <<mod, loads, wqVars, handler, memory, hookVars, devVars, oops>>
----------------------------------------------------------------------------
(* my_workqueue.c                                                          *)

\* init_workqueue: create_workqueue may fail, and the module loads anyway.
CreateWorkqueue ==
  /\ mod = "workqueue" /\ at = "init"
  /\ \/ my_wq' = TRUE /\ at' = "item1"
     \/ my_wq' = FALSE /\ at' = "loaded"
  /\ UNCHANGED <<mod, loads, queued, handler, memory, hookVars, devVars, oops>>

\* kmalloc, INIT_WORK and queue_work of an item; without memory it is left
\* out.  Item 1 may run, and be freed, before item 2 is queued.
QueueItem(item) ==
  /\ mod = "workqueue" /\ at = item
  /\ \/ queued' = queued \cup {item} /\ memory' = memory \cup {item}
     \/ UNCHANGED <<queued, memory>>
  /\ at' = IF item = "item1" THEN "item2" ELSE "loaded"
  /\ UNCHANGED <<mod, loads, my_wq, handler, hookVars, devVars, oops>>

\* A worker takes an item and runs my_wq_function.
RunItem(c, item) ==
  /\ item \in queued /\ handler[c] = NIL
  /\ queued' = queued \ {item}
  /\ handler' = [handler EXCEPT ![c] = item]
  /\ UNCHANGED <<mod, at, loads, my_wq, memory, hookVars, devVars, oops>>

\* my_wq_function: kfree of the item.
Freed(item) == memory \ {item}

ItemDone(c) ==
  /\ handler[c] \in {"item1", "item2"}
  /\ memory' = Freed(handler[c])
  /\ handler' = [handler EXCEPT ![c] = NIL]
  /\ UNCHANGED <<mod, at, loads, wqVars, hookVars, devVars, oops>>

\* Mutant of Flushed: exit_workqueue does not wait.
Flushed_AtOnce == TRUE

\* flush_workqueue: every item was run to its end.
Flushed == queued = {} /\ \A c \in Cpus : handler[c] = NIL

\* exit_workqueue: flush, then destroy; there may be no workqueue.
ExitWorkqueue ==
  /\ mod = "workqueue" /\ at = "exit"
  /\ \/ my_wq /\ Flushed /\ at' = "out" /\ UNCHANGED oops
     \/ ~my_wq /\ at' = "out" /\ oops' = TRUE
  /\ my_wq' = FALSE
  /\ UNCHANGED <<mod, loads, queued, handler, memory, hookVars, devVars>>
----------------------------------------------------------------------------
(* hook.c                                                                  *)

\* ji_init: dev_get_by_name takes a reference, unless there is no enp0s3 and
\* ji_proto.dev is NULL, a wildcard; then dev_add_pack.
JiInit ==
  /\ mod = "hook" /\ at = "init"
  /\ devrefs' \in {devrefs, devrefs + 1}
  /\ hooked' = TRUE /\ at' = "loaded"
  /\ UNCHANGED <<mod, loads, wqVars, handler, memory, devVars, oops>>

\* A packet comes in and ji_packet_rcv is called with a reference to it.
ReceivePacket(c) ==
  /\ hooked /\ handler[c] = NIL
  /\ handler' = [handler EXCEPT ![c] = "packet"]
  /\ memory' = memory \cup {<<"skb", c>>}
  /\ UNCHANGED <<mod, at, loads, wqVars, hookVars, devVars, oops>>

\* ji_packet_rcv: the headers are printed and kfree_skb gives the packet back.
PacketDone(c) ==
  /\ handler[c] = "packet"
  /\ handler' = [handler EXCEPT ![c] = NIL]
  /\ memory' = memory \ {<<"skb", c>>}
  /\ UNCHANGED <<mod, at, loads, wqVars, hookVars, devVars, oops>>

\* ji_cleanup: dev_remove_pack takes ji_proto off the list and then waits
\* for the handlers that run.  The device's reference is not given back.
RemovePack ==
  /\ mod = "hook" /\ at = "exit"
  /\ \/ hooked /\ hooked' = FALSE /\ UNCHANGED at
     \/ /\ ~hooked /\ \A c \in Cpus : handler[c] = NIL
        /\ at' = "out" /\ UNCHANGED hooked
  /\ UNCHANGED <<mod, loads, wqVars, handler, memory, devrefs, devVars, oops>>
----------------------------------------------------------------------------
(* virtual_device.c                                                        *)

\* virtual_device_init: neither a failed register_chrdev nor a failed kmalloc
\* stops the module from loading, and the device can be opened in between.
RegisterDevice ==
  /\ mod = "device" /\ at = "init"
  /\ registered' \in BOOLEAN
  /\ at' = "kmalloc"
  /\ UNCHANGED <<mod, loads, wqVars, handler, memory, hookVars, buffer, opened, oops>>

AllocBuffer ==
  /\ mod = "device" /\ at = "kmalloc"
  /\ buffer' \in BOOLEAN
  /\ memory' = IF buffer' THEN {"buffer"} ELSE {}
  /\ at' = "loaded"
  /\ UNCHANGED <<mod, loads, wqVars, handler, hookVars, registered, opened, oops>>

\* virtual_device_open; vd_fops has no owner, so the kernel does not count
\* this user against rmmod.
DeviceOpen(u) ==
  /\ registered /\ opened[u] = 0
  /\ opened' = [opened EXCEPT ![u] = loads]
  /\ UNCHANGED <<mod, at, loads, wqVars, handler, memory, hookVars, buffer,
                 registered, oops>>

\* The functions the user's file points at were unloaded.
Unloaded(u) == at = "out" \/ opened[u] # loads

\* virtual_device_write: count is not compared with the size of the buffer.
DeviceWrite(u, count) ==
  /\ opened[u] # 0
  /\ oops' = (Unloaded(u) \/ (count > 0 /\ ~buffer) \/ count > Size)
  /\ UNCHANGED <<mod, at, loads, wqVars, handler, memory, hookVars, devVars>>

\* virtual_device_read: all of the buffer, whatever count is.
DeviceRead(u) ==
  /\ opened[u] # 0
  /\ oops' = (Unloaded(u) \/ ~buffer)
  /\ UNCHANGED <<mod, at, loads, wqVars, handler, memory, hookVars, devVars>>

\* virtual_device_release.
DeviceRelease(u) ==
  /\ opened[u] # 0
  /\ opened' = [opened EXCEPT ![u] = 0]
  /\ oops' = Unloaded(u)
  /\ UNCHANGED <<mod, at, loads, wqVars, handler, memory, hookVars, buffer,
                 registered>>

\* virtual_device_exit: unregister_chrdev, then kfree; files that are open
\* stay open.
UnregisterDevice ==
  /\ mod = "device" /\ at = "exit"
  /\ registered' = FALSE
  /\ at' = "kfree"
  /\ UNCHANGED <<mod, loads, wqVars, handler, memory, hookVars, buffer, opened, oops>>

FreeBuffer ==
  /\ mod = "device" /\ at = "kfree"
  /\ buffer' = FALSE
  /\ memory' = memory \ {"buffer"}
  /\ at' = "out"
  /\ UNCHANGED <<mod, loads, wqVars, handler, hookVars, registered, opened, oops>>
----------------------------------------------------------------------------
(* kread.c and my_crypto.c do their work when they are loaded.             *)

\* read_file, then write_file: after a failed filp_open the error pointer is
\* passed to filp_close.
FileHandling ==
  /\ mod = "kread" /\ at = "init"
  /\ \E found, writable \in BOOLEAN : oops' = ~(found /\ writable)
  /\ at' = "loaded"
  /\ UNCHANGED <<mod, loads, wqVars, handler, memory, hookVars, devVars>>

\* init_crypto: the filter's kzalloc is not looked at; test_hash frees what it
\* allocates on every path; the filter is never freed.
InitCrypto ==
  /\ mod = "crypto" /\ at = "init"
  /\ \/ oops' = TRUE /\ UNCHANGED memory
     \/ UNCHANGED oops /\ memory' = memory \cup {<<"filter", loads>>}
  /\ at' = "loaded"
  /\ UNCHANGED <<mod, loads, wqVars, handler, hookVars, devVars>>

QuietExit ==
  /\ mod \in {"kread", "crypto"} /\ at = "exit"
  /\ at' = "out"
  /\ UNCHANGED <<mod, loads, wqVars, handler, memory, hookVars, devVars, oops>>
----------------------------------------------------------------------------
Next ==
  /\ ~oops
  /\ \/ Insmod \/ Rmmod
     \/ CreateWorkqueue \/ ExitWorkqueue \/ JiInit \/ RemovePack
     \/ RegisterDevice \/ AllocBuffer \/ UnregisterDevice \/ FreeBuffer
     \/ FileHandling \/ InitCrypto \/ QuietExit
     \/ \E item \in {"item1", "item2"} :
          QueueItem(item) \/ \E c \in Cpus : RunItem(c, item)
     \/ \E c \in Cpus : ItemDone(c) \/ ReceivePacket(c) \/ PacketDone(c)
     \/ \E u \in Users :
          \/ DeviceOpen(u) \/ DeviceRead(u) \/ DeviceRelease(u)
          \/ \E count \in 0 .. Size + 1 : DeviceWrite(u, count)

Spec == Init /\ [][Next]_vars
----------------------------------------------------------------------------
\* Once the workqueue module or the packet hook is unloaded nothing of it runs
\* any more, no work item waits for code that is gone, and all its memory was
\* given back, whenever rmmod comes and however the items and packets
\* interleave with it and with each other.  (The character device does not
\* keep this: its open files outlive it.)
QuietWhenUnloaded ==
  at = "out" /\ mod \in {"workqueue", "hook"} =>
    /\ \A c \in Cpus : handler[c] = NIL
    /\ queued = {} /\ ~hooked /\ memory = {}
=============================================================================
