# A TLA+ model of jeopardy

The repository is a collection of small systems programs: concurrent buffers,
in-memory indexes, a TCP server, file systems and kernel modules. This project
models the ones that carry logic of their own, checks them with TLC on small
instances and proves all their safety properties with TLAPS for instances of
every size; liveness is model-checked only.

## 1. Inventory

| Component | Source | State | Operations | What is hard |
|---|---|---|---|---|
| Bounded buffer | `producer_consumer/example.cpp` (class `Buffer`), copied into `parallel_tcpip/socket_server.cpp` | a mutex, a condition variable, a deque | `add`, `remove` | every interleaving; one condition variable for both kinds of waiters; `notify_all` after the unlock |
| Producer/consumer loops | `producer_consumer/example.cpp` | two endless threads, `cout_mu` | call, print, sleep | every call must return |
| TCP echo server and client | `parallel_tcpip/` | `Producer p` in one stack slot, `threads`, sockets, a `Buffer` | accept, read, add, answer, close, join, consume | threads share `p`, which the next `accept` overwrites |
| HotRing hash table | `hotring/hotring.c`, `hotring.h` | table of rings, head pointers, access counters | `hash_insert`, `hash_get`, `hotring_delete`, `hotspot_shift`, `hotring_rehash` | the ring is entered at a moving head, ordered by tag, searched by key, and cut in two by a rehash |
| Radix tree | `radix_tree/radix-tree.c`, `.h` | nodes, `rnode`, RCU callbacks | insert, lookup, lookup_slot, replace_slot, delete, iteration | lock-free readers and iterators while nodes are added, unlinked and freed; `calloc` failures half-way |
| SynchronizedQueue | `producer_consumer/syncQueue.cpp` | an unbounded queue, a condition variable | `push`, `pop` | `push` notifies only when the queue was empty |
| Average agents | `producer_consumer/producer-consumer-average.cpp` | unbounded buffer, single assignment | send, receive | the consumer must stop at the sentinel and not count it |
| Chaining hash table | `chaining_hash/hash.c` | buckets of lists | insert, get, lookup | lookup confuses a bucket's head with a node |
| Linked lists | `chaining_hash/list.h`, `hotring/list.h` | `list_head` rings, `hlist` chains | add, delete, move, splice, traverse | a loop whose body unlinks entries |
| lwnfs, JIFS | `JIFS/` | counter files, superblock | read, write, mount, unmount | counter read and incremented in two steps; failures in the middle of a mount |
| libpmemobj examples | `pmdk_practice/libpmemobj/` | persistent pools | transactions, lists | a crash between two persistent steps |
| Workqueue module | `kernel_modules/workqueue/` | a work queue, two work items | init, work function, exit | exit after a failed init |
| Other kernel modules, virtual_device | `kernel_modules/`, `device/virtual_device/` | a hook, a buffer, open files | init, exit, handlers | a handler that runs while the module goes |
| Page fault handler | `crashdump/fault.c` | `mmap_sem`, vma, page tables, the fault's registers | `do_page_fault` and what it calls | faults race with munmap, mprotect, vmalloc and with each other's locks |
| Tools, open_dev, librpmem, drivers | `tools/`, `device/open_dev/`, `pmdk_practice/librpmem/`, `*/benchmark.c`, `*/main.c` | little or none | single calls | pure I/O |
| Vendored code, data, notes | `radix-tree-ref.c`, `ref-radix-tree/`, `fio_test/`, `settings/`, `cleancache/` | | | not programs of this repository |

All but the last two rows are modelled; `PROJECT.json` lists every part with what
is left out. How the parts interact: the producer/consumer program and the TCP
server both call the bounded buffer and are composed with its module; the radix
tree's iterator runs beside its writer; the chaining hash table is built on the
list operations; both file systems have the same counter files. The other parts
are programs of their own.

## 2. Modules

| Module | Models | Extends |
|---|---|---|
| `AtomicBuffer` | what the bounded buffer promises: a bounded stack whose calls take effect at once | |
| `BoundedBuffer` | class `Buffer` step by step, and its most general client | |
| `BoundedBufferProofs` | its theorems | `BoundedBuffer`, TLAPS |
| `ProducerConsumer` | `Producer::run`, `Consumer::run`, `main` of `example.cpp` | `BoundedBuffer` |
| `ProducerConsumerProofs` | theorems about the program | `ProducerConsumer`, `BoundedBufferProofs` |
| `TcpServer` | `socket_server.cpp`, `socket_client.c` | `BoundedBuffer` |
| `TcpServerProofs` | theorems about the server | `TcpServer`, `BoundedBufferProofs` |
| `HotRing` | `hotring.c`, `hotring.h` | |
| `HotRingProofs` | theorems about the rings | `HotRing`, TLAPS |
| `RadixTree` | `radix-tree.c` without the iterator, readers, liburcu | |
| `RadixTreeProofs` | theorems about the tree, its writer and its readers | `RadixTree`, TLAPS |
| `RadixIter` | the iterator of `radix-tree.c` and `.h`, `item_kill_tree` | `RadixTree` |
| `RadixIterProofs` | theorems about the iterator | `RadixIter`, `RadixTreeProofs` |
| `PageFault` | `crashdump/fault.c` | |
| `PageFaultProofs` | theorems about the handler | `PageFault`, TLAPS |
| `ListHead` | the operations of `list.h` on memory, as operators | |
| `Lists` | programs that call them, and the safe loop | `ListHead` |
| `ChainingHash` | `chaining_hash/hash.c` | `ListHead` |
| `SyncQueue` | `syncQueue.cpp` | |
| `AverageAgents` | `producer-consumer-average.cpp` | |
| `CounterFile` | the counter files of lwnfs and JIFS | |
| `Lwnfs`, `Jifs` | load, mount, unmount and unload around them | `CounterFile` |
| `PmemPrograms` | the five libpmemobj programs on one pool | |
| `KernelModules` | workqueue, packet hook, virtual_device, kread, crypto | |
| `MCSmallPrograms` | an instance of the nine last programs, see section 3 | instances of them |
| `SmallProgramsProofs` | theorems about the queue, the modules, the file systems, the pools, the lists and the chaining hash table | `MCSmallPrograms`, TLAPS |
| other `MC...` | the instances TLC checks | one module each |

Definitions named `X_...` directly above `X` are mutants: the same operation with
a plausible bug, used to see that a property can fail. They are not part of any
specification.

### BoundedBuffer

A thread's `pc` says where it is inside `add()` or `remove()`: `lock` (taking
`mu`, also at the end of a wait), `test` (evaluating the predicate), `wait`
(asleep; `mu` was released in the same step, as `condition_variable` promises),
`act` (about to touch the deque), `unlock`, `notify` (after `locker.unlock()`
and before `cond.notify_all()`). Spurious wakeups are steps. `num` is `add`'s
argument or `remove`'s result. `remove()` takes `back()`, so the buffer is a
stack, and `AtomicBuffer` says so. The refinement mapping sends the locations
before the deque is touched to "pending" and those after it to "done".

### ProducerConsumer

Adds each thread's place in its loop and `cout_mu`, which guards the output.
Printed text is left out; holding the lock is not.

### TcpServer

`main` accepts a client, constructs `p` in the same stack slot in every turn of
its loop and starts a thread on `&p`. The model keeps one variable `p` that every
thread reads at each use, as the compiled code does. Strictly, using the object
after the end of its scope is undefined; the outcome the build produces is that
the slot is reused by the next turn, and this is what is modelled. From the third
accepted client on `main` joins threads 0 and 1 again, which throws and ends the
server (`main = "dead"`). A `read()` that fails leaves the uninitialised receive
buffer, the value `Garbage`. Set-up errors that end the program before the loop
are left out.

### HotRing

The code is single-threaded, so a call is one step. A ring is the sequence of its
nodes starting at the head. `hash_get` is split by what `hotspot_shift` decides:
no shift (`Get`), a shift (`GetShift`), a rehash (`GetRehash`), or a shift whose
head counter has wrapped to 0 (`GetWrapped`). Bit-field counters wrap at named
constants. A memory error ends the program and is recorded in `fault`; the rest
of the state is then reset, because it is gone.

### RadixTree

One writer and any number of readers. A writer's step ends with the one store of
it that readers can see; the fields only the writer uses (`count`, `parent`,
`offset`) change in the same step. Readers load one pointer per step. The loops
of `radix_tree_extend`, `__radix_tree_create`, `__radix_tree_lookup`,
`delete_node` and `radix_tree_shrink` are steps that repeat. `calloc` may fail at
every allocation. `shift` is counted in levels; `shift_maxindex` wraps as the
`unsigned long` does. liburcu is external: `call_rcu` waits for the readers that
are inside a critical section, and the callback runs when the last of them leaves
(nobody can reach the node after that, so when exactly it runs makes no
difference). `map`, `seen` and `failed` are history variables: what finished
stores put at each index, what a lookup may return, and whether an allocation
failed. The file has nine stray lines of notes (195-203), which are not code.
The readers' side of the contract comes from the comments and the `rcu_*` calls
of `radix-tree.c`; the repository's own benchmark is single-threaded.

### RadixIter

An iterator's locals are a record; every load of a shared pointer in
`radix_tree_next_chunk` and `radix_tree_next_slot` is a step, so the writer of
`RadixTree` runs between any two of them. A loop either only looks (inside an RCU
section, beside the writer), deletes what it visits with
`radix_tree_iter_delete`, or is `item_kill_tree`; the loops that change the tree
have it to themselves, as their callers do. `radix_tree_iter_retry` and
`iter_resume` may be called in any visit. `owed` is a history variable: the
indices from the start on that have been present since the loop began.

### PageFault

`fault.c` is the page fault handler of the kernel the crash dump study is about.
A thread's `pc` follows the handler: entry, the vmalloc test, the spurious-fault
test, `do_user_addr_fault` up to `mmap_sem`, waiting in `down_read`, looking for
the vma, `handle_mm_fault`. The pure functions of the file (`access_error`,
`spurious_kernel_fault`, `no_context`, `is_prefetch`, ...) are operators of the
same names on the faulting registers and the error code; `no_context` and its
callers return the set of verdicts that are possible. External and modelled from
how the file uses them: the processor (what faults, with which code), the TLB,
system calls that take `mmap_sem` to read or to change the mapping, reclaim,
fatal signals, vmalloc, and the answers of `handle_mm_fault`. One user page, one
kernel page and the guard, vsyscall and low addresses stand for the address
space. A page is installed with the rights of the vma found under `mmap_sem`.

### The small programs

`Lists` keeps `next` and `prev` (for the hlist `next`, `first` and `pprev`) as
memory and calls every operation of `list.h` where its comments allow it; `lists`
and `hlist` are the abstract sequences the memory is compared with. `ChainingHash` runs
`hash_insert` with failing allocations on such memory. `SyncQueue` and
`AverageAgents` follow their functions line by line; `condition_variable` and the
agents library are external. `CounterFile` splits a read into the `atomic_read`
and the rest, with other processes between the two; the counter's text is its
digits in a small base. `Lwnfs` and `Jifs` give every allocation of a mount the
chance to fail and record which dentries, inodes and private parts are left.
`PmemPrograms` runs the main()s step by step and may crash at any step; what a
transaction undoes and what an atomic operation guarantees is libpmemobj's
promise. `KernelModules` loads one module, interleaves its handlers with the
steps of its init and exit functions, and records an oops where the code would
follow a bad pointer, write behind its buffer or be called after it is gone. A
file of virtual_device remembers which load it was opened in, because it may
outlive it.

## 3. Runs that pass

| Run | Instance | What it shows |
|---|---|---|
| `buffer` | 2 producers, 2 consumers, 2 items, capacity 2 | types; mutual exclusion; the wait predicate is still true when the deque is touched; the capacity; no lost wakeup although `notify_all` follows the unlock; never everybody asleep; refinement of `AtomicBuffer` |
| `hotring` | 5-bit hash, 4 to 8 buckets, 4 nodes, 6 keys | rings stay sorted by tag from any head and every node is in its bucket; while all tags of a ring come from one table size every key is found; shifts and rehashes lose, duplicate and leave behind nothing, and a delete takes one node or the whole ring of its head; NULL is dereferenced only next to a milestone key or a wrapping counter |
| `tcp_server` | 3 clients, capacity 1 | a request is in exactly one place on its way to the consumer; the server dies in the third turn only, with both first threads ended; only the second `accept` can overwrite a `p` in use, and while it did not every client is served by its own thread and gets its own answer |
| `tcp_server_live` | 2 clients, capacity 2 | every request that was read is consumed, although `remove` takes the newest of those that wait |
| `radix_tree` | 2 slots per node, 3-bit indices (3 levels), indices 0, 1 and 6, one reader | between any two stores the tree is exactly the map; a lookup returns an item its index had during the lookup; no load from freed memory; a well-formed tree: exact counts, `parent` and `offset` right, minimum height unless an allocation failed, lookups go down one level per turn, only readers hold freed nodes back |
| `radix_iter` | 2 slots per node, 2-bit indices, indices 0, 1 and 3, the largest, one iterator beside the writer | whatever is stored throughout an iteration is visited, in ascending order and once (but see section 6 on `iter_resume` at the largest index), although nodes are added, emptied and freed under it; `iter_delete` does not return to a freed leaf; no load from freed memory |
| `page_fault` | 2 threads, one vma that grows and changes its rights, protection keys, SMAP, K8 errata | `mmap_sem` is balanced on every path; kernel code that holds it does not wait for it, but see section 6; a page table entry never exceeds its vma; a fault is refused only if the access was forbidden at some moment or memory management failed; every error path blames the right one: a signal or the OOM killer answers only an access with user rights, an oops only a reserved bit or an access of the kernel's own that no exception table entry covers; every fault ends |
| `small_programs` | see below | list operations and the safe loop are exact; `display` shows every key in order; `SyncQueue` is FIFO, never leaves a value with all consumers asleep, and every value is popped; the average is printed; every call of `example.cpp` without a rival of its kind returns and items flow for ever; undisturbed counter reads in pieces show one value; failed mounts leave nothing half built; a crashed pool is consistent; the workqueue and the packet hook run no code and hold no memory once unloaded |

`MCSmallPrograms` is the disjoint sum of nine specifications: the variable `sel`,
chosen at the start and never changed, says which program runs, and the others
stay in an initial state. Each property is about one of them. The instances: two
heads and three nodes for the lists, four nodes in two buckets, two producers and
two consumers with four values, two producers and one consumer with a deque of
one for `example.cpp`, up to five values to average, two processes and one failed
allocation for the file systems, two words and two objects for the pools, two
CPUs and two loads for the modules.

Why the bounds are enough. *Buffer*: two threads of a kind are what it takes for
one notification to reach competing waiters, and capacity 2 separates empty,
partly full and full; the theorems remove the bounds. *Producer/consumer*: with
capacity 1 and two producers a wakeup can go to the wrong kind of thread.
*SyncQueue*: two sleepers and two pushes in a row are the case the conditional
notification could lose. *RadixIter*: two levels and a leaf that empties are what
the restart and `iter_delete` need; the three indices leave a hole to search
across, and the last one is where index arithmetic wraps.
*PageFault*: one page suffices because faults on different pages meet only in
`mmap_sem`, which the second thread holds and waits for.
*Lists*: three nodes are one being unlinked and both neighbours.
*TcpServer*: the third client is the first that kills the server; later ones
cannot be accepted; for liveness two requests must fit in the deque, or the newest
would be the only one. *HotRing*: four nodes are two milestones and two keys, the
keys include both milestones of a bucket, a key alone in its bucket and one
longer than the hash; counters of one and two bits wrap within a few calls.
*RadixTree*: 0 and 1 share a leaf, 6 needs the full height, so that a tree grows
and shrinks by two levels at once, and the highest level is the one where
`shift_maxindex` wraps. `Copies = 2` lets a new node take the place of one a
reader is still in; `MaxRetired = 1` keeps the writer from deleting again while
more than one unlinked node waits.

Symmetry is used in `buffer` (threads, items) and in `tcp_server` (clients), where
only safety is checked. Deadlock is not checked where the program really stops:
`hotring` after a memory error, `tcp_server` when all clients are served or the
server is dead, `radix_iter` after `item_kill_tree`'s failed assertion,
`page_fault` when both threads are killed, and the small programs at their end.

## 4. Fairness

Weak fairness for every thread: a thread that can go on eventually does. Strong
fairness for taking a mutex (`mu`, `cout_mu`): std::mutex promises no order, but
every loop of the two programs sleeps 50 ms between two uses, so a mutex is free
most of the time and a waiting thread gets it. Nothing is assumed about spurious
wakeups, about clients connecting, or about calls being started. The TCP clients'
`read()` returns once there is something to return. `SyncQueue` and
`AverageAgents` are treated alike: weak fairness for each thread, strong fairness
for `mutex_`. In `PageFault` a thread inside the handler goes on; `down_read` and
the system calls that hold or wait for `mmap_sem` get strong fairness, because
the kernel's rwsem queues its waiters. Nothing makes a thread fault, a signal
arrive or memory management succeed. The radix tree and HotRing modules have no
fairness: that lookups end is part of the safety property `TreeWellFormed`.

## 5. What is proved

Eight modules hold the theorems; each `EXTENDS` the module it is about. All hold for
every value of the constants that satisfies the named assumptions, and TLC
evaluates the assumptions in the runs. 34 of the runs' properties are stated by a
theorem. The invariants named below were checked with TLC before they were proved,
and every proof has one lemma per part or per action of the component.

### Bounded buffer (`BoundedBufferProofs`)

Any threads and items, every capacity >= 1 (`BufferAssumption`: the capacity is
positive, producers and consumers are different threads, the two null values are
outside the sets they complete). `TypeTheorem`, `MutexTheorem`,
`PredicateTheorem`, `CapacityTheorem`, `WakeupTheorem`, `SomeoneAwakeTheorem` are
the safety properties of run `buffer`; `RefinementTheorem` is
`BufferSpec => Atomic!AtomicSpec`.

`WithinCapacity` is not inductive: a push keeps it only if the predicate is still
true at the push (`PredicateStillTrue`), which holds because nobody else can touch
the deque between test and push (`MutualExclusion`, stated as an equivalence
between being in the critical section and owning `mu`), which needs the types.
`NoLostWakeup` carries the rest: a thread that sleeps although its predicate is
true has another thread between its push or pop and its `notify_all`. Together
they are `BufferInv`. `SomeoneAwake` follows without induction: if all slept, no
notification would be on its way, so the deque would be both full and empty. The
refinement uses `BufferInv` in the one step that matters, the push or pop; every
other step is a call, a return or a stutter of the stack.

### Producer/consumer program (`ProducerConsumerProofs`)

`ClientTheorem`: every behaviour of `example.cpp` is a behaviour of `BufferSpec`, the
most general client, so all of the above holds in the program without a new
induction; `ProgramLinearizes` and the rest of `BufferInv` are corollaries.
`LoopTheorem` adds what the loops own: their types, and that only the owner of
`cout_mu` prints.

### TCP server (`TcpServerProofs`)

Any finite set of clients, any capacity, one consumer (`TcpServerAssumption`: one
thread slot per client, a message is a client's request or `Garbage`). Theorems
`DiesTheorem`, `OvertakesTheorem`, `OwnClientTheorem`, `RequestTheorem` state all four
safety properties of run `tcp_server`. `ServerInv` adds to `BufferInv` where the
threads are (`ThreadsOK`: inside class `Buffer` exactly when `run()` says so), what
`accept` did (`AcceptedOK`: no client twice, one thread for each, `p` is the last) and
the turns of `main` (`MainOK`, a disjunction over the four states its loop can be
in). That a client gets its own answer needs what each thread read through `p`
(`OwnOK`), and that a request is in one place needs that all other places are
empty (`PlacesOK`), neither of which the properties say.

### Page fault handler (`PageFaultProofs`)

Any threads, any accesses, any mappings, any processor features
(`PageFaultAssumption`: accesses and mappings are drawn from the kinds `AccessKinds`
and `Vmas`). Four inductions:

* `LockInv` for `SemaphoreBalanced` and `NoSelfDeadlock`. Balance alone is not kept:
  a fault inside a system call must come from kernel code without an exception
  table entry (`InterruptedKernelCode`), the writer must be the thread whose system
  call says so (`WriterExact`), nobody reads meanwhile (`ReadersExcludeWriter`), and
  the vma a thread is about to use exists (`VmasOK`).
* `PteInv` for `PteWithinVma`: a thread that holds `mmap_sem` and has found a vma has
  found the one in force (`AreaCurrent`), and a page table entry has the vma's rights
  up to write permission (`PteExact`).
* `BlameInv` for `RightOneBlamed`: at every place of the handler the error code says
  user exactly if the access had user rights, and reserved exactly if a reserved bit
  was set (`ModeOf`), with a lemma for each function that builds a verdict. It needs
  of the processor that no access with user rights comes from a kernel code segment
  (`PageFaultAssumption`).
* `RefusalInv` for `RefusalJustified`: at each place of the handler what the error code
  says about the access and which excuse has already been seen (`CodeOf`, `ExcuseOf`,
  `PlaceOf`), and that the kernel's tables only hold pages vmalloc mapped
  (`KernelTablesOK`).

### HotRing (`HotRingProofs`)

Hash values of any width, tables of any size, any keys and values, any counter
widths (`HotRingAssumption`: the widths are consistent and there is a bucket;
`PowerAssumption` says for the provers what `^` means on the exponents in use).
`RingsStayWellFormed`, `UniformRingsAreComplete`, `GetsKeepEverything` and
`NullOnlyThere` state all four properties of run `hotring`.

* `RingsSorted` speaks of neighbours, which change with every node linked, unlinked
  or cut off. The inductive invariant instead compares any two nodes: seen from
  the head a ring is two ascending runs, the second of which lies below the first.
  Moving the head (`hotspot_shift`), inserting at the place the search found and
  removing a node are maps between places of the old and the new ring (`Before`,
  `Moved`) under which this comparison is kept.
* A rehash puts two milestones into a ring, cuts it at them and takes them out
  again. That a node ends up in its own bucket needs that all tags have the
  table's tag width, which holds up to the first rehash and is what
  `RingsWellFormed` claims; that each half is again two runs holds always.
* `UniformRingsComplete`: in a ring whose tags are of one table size, tag order is key
  order among the keys of the ring, so the search passes nothing it looks for.
* `GetsKeepContents`: every step carries a bijection from the places of the old table
  to those of the new one that keeps key, tag and value (`Carries`), milestones in
  and out included.
* `NullOnlyAtMilestoneOrWrap`: while the sum of the counters is not 0 some node has
  the smallest income, so a head exists; the remaining NULLs are the ones the
  property names.

### Radix tree (`RadixTreeProofs`)

Nodes of any size, trees of any height, any indices, items and readers, and any
number of copies of a node, if the callers delete present indices only
(`DeleteAbsent = FALSE`: run `radix_tree_delete_absent` shows that the theorems are
false without it). The iterator's proofs build on the same invariant.
`MapTheorem`, `WellFormedTheorem`, `UseAfterFreeTheorem` and `LookupTheorem` state all
four properties of run `radix_tree`. `RadixTreeAssumption` relates the widths (the
highest root has room for every index, a count fits in an `unsigned int`);
`PowerAssumption` spells out for the provers what `^` means on the exponents in use.

A node's name is its place in the tree, <<shift, prefix, copy>>; index i belongs
under n if its prefix is n's. `RadixInv` has seven parts:

* `Types`;
* `TreeInv`: a slot holds nothing, an item (in a leaf), or the one node of that place,
  which knows its parent and offset; the root is the highest node and has prefix 0;
  counts are exact;
* `MapInv`: leaves hold the map, and wherever the tree ends, at a NULL slot or beside
  the root, the map has nothing. This replaces the recursive `Find` by facts about
  single slots;
* `GraceInv`: a slot of an unlinked node leads to a node that is still allocated or
  waits for at least the same readers, so that a reader never falls off the end of
  a chain of unlinked nodes;
* `ReaderInv`: a reader is in a node its index belongs under and that is allocated or
  waits for it; a reader whose index is missing from an unlinked node that waits for
  it has seen the index missing (`MissedOK`), which is why a NULL found in a dead
  node may be returned;
* `WriterInv`: where the writer is in each loop;
* `HeightInv`: while no allocation failed, an inner node that is empty is the one the
  writer works on, and a root with only a leftmost child is about to get another
  child or to be looked at by `radix_tree_shrink`.

One lemma per kind of store (`LeafStored`, `RootStored`, `FirstNode`, `ChildAdded`,
`RootRaised`, `UnlinkedRoot`, `UnlinkedChild`, `Shrunk`) shows what the tree, the map
and the readers keep; one per action combines them. The only arithmetic is how
`Offset` splits a prefix (`OffsetStep`, `UnderChild`, `UnderParent`) and that
`shift_maxindex` tells which roots have room for an index, also where it wraps
(`RoomFor`). `MapExact` needs the recursive function inside `Find`: `WalkExists` and
`WalkEnds` follow a lookup turn by turn, arguing from the least turn that goes wrong
instead of by induction.

### Radix tree iterator (`RadixIterProofs`)

On top of `RadixInv`, for any number of iterators and the same sizes
(`WidthAssumption`: the part of the indices a node covers divides 2^64, and there is
more than a leaf; `StartsAssumption`: loops start at an index), again for
`DeleteAbsent = FALSE`. `NothingSkippedTheorem`, `LiveNodeTheorem` and
`AscendingTheorem` state the three properties of run `radix_iter`. The order
of the last one begins anew where `radix_tree_iter_resume` starts the iteration over,
after `~0UL` (section 6).

`IterInv` (`IterInvTheorem`) has five ideas:

* the tree (`TreeOK`): all of `RadixInv` while nobody runs `item_kill_tree`. That loop
  breaks the counts, so beside it, and after its failed assertion, only the parts
  about slots, root, map and grace periods are kept (`StructInv`);
* who runs with whom (`JobOK`): a loop that only looks is inside an RCU section; one that
  deletes has the tree to itself, and the writer moves only on its behalf;
* where the iterator may be (`PositionOK`): in allocated nodes, or in a set S of
  unlinked ones that all wait for it, lead only to allocated nodes or to S, and
  from which everything it owes can still be reached. S grows when the writer
  unlinks a node or replaces the root: a node is unlinked empty, or with its one
  child still in slot 0, so nothing owed is lost with it;
* what it has passed (`PosOK`, one clause per place of the loop): everything owed is at
  or after the index the search stands at, and in a hole after the slot it stands
  at. An index that overflowed means that nothing is owed;
* the loops that delete (`AloneOK`): what is left in the tree is what is owed and the
  index being visited, and when the writer's part is over either the leaf is gone,
  with nothing owed under it, or no node is: this is why `iter_delete` may leave
  `index` alone or copy `next_index`, and is right both times.

Where a step moves from one node to the next, the order of places is the arithmetic
of `Under`, `Offset` and `next_index`: the indices under a child are those of the
parent with the child's offset, and the index after a slot is the first of the next
one or the first of the node's successor, wrapping at the top.

### Small programs (`SmallProgramsProofs`)

About `MCSmallPrograms`, whose steps leave the other programs alone.

* `QueueTheorem`: `SomeConsumerAwake` of `syncQueue.cpp`, with `FifoExactlyOnce`, for any
  producers and consumers (`QueueAssumption`).
* `QuietTheorem`: after rmmod nothing of the workqueue and hook modules runs or is
  allocated. Invariant: an item that is not freed is queued or runs, and none was
  made while there was no queue (`WorkqueueOK`, `HookOK`; `KernelAssumption`).
  virtual_device has no such theorem: its open files outlive it (section 6).
* `TreesTheorem`: which dentries and inodes a mount that failed half-way or an unmount
  leaves (`LwnfsOK`, `JifsOK`; `SupersAssumption`: finitely many superblocks).
* `PoolTheorem`: what each of the five libpmemobj programs has written and logged at
  each of its steps (`PoolInv`), so that recovery from a crash at any of them gives a
  consistent pool (`PoolAssumption`).
* `ReadsTheorem`: a counter of lwnfs or JIFS that nobody else changes between the
  first and the last piece of a read shows the text of one value, for any processes,
  any lengths of the pieces and any base (`NumbersAssumption`). The invariant follows
  each open file (`FdOK`): what an undisturbed read has shown is a prefix of the
  digits of the value it began with, and the counter is one more than that value
  once something was shown; a mount disturbs every reader, and a module is loaded
  only when no file is open. That digits are one text per value argues from the
  least value that has two.

### Lists and chaining hash (`SmallProgramsProofs`)

Any heads and nodes (`ListsAssumption`: heads and nodes are distinct cells, none is
NULL or poison, finitely many nodes), any keys, widths and table size
(`HashAssumption`).

* `ListsTheorem`: `ListsExact`. The property follows pointers; the invariant says what
  they are. The cells of a list, numbered around from the head, point at each other
  in both directions (`Ring`), no cell is in two lists, and every operation of
  `list_head` is a `Put`, a `Cut` or a `Splice` of the numbering, with one lemma for the
  four assignments of each. A running `list_for_each_safe` is at a place of the list,
  has the following one saved, and the rest of the list is what is left to visit
  (`LoopAt`). An hlist is a chain of places that hold a node, each node's `pprev` the
  place that holds it, and a node in no hlist has `pprev` NULL or poison
  (`HlistsOK`). That walking such a ring or chain visits its entries is shown
  from the least turn that goes wrong, and that the walk is not cut off by its
  bound from counting distinct nodes.
* `DisplayTheorem`: `DisplayShowsAll`. A bucket is a ring all of whose nodes have keys
  with the bucket's hash code, which is why an insertion leaves the other buckets
  alone, and its items are the keys of the bucket in the order of insertion. The
  keys of a bucket are a recursive function of the insertions (`InBucket`), which the
  invariant carries along (`Sieved`) and extends by one step at each insertion.

### Only model-checked

Liveness: `ReadIsConsumed`, `FaultsEnd`, `EveryValuePopped`, `SoleCallerReturns`,
`ItemsKeepFlowing`, `AveragePrinted` depend on fairness, which the prover does not
handle.

## 6. Where the code disagrees with what it says

Each is a run whose property TLC violates, with the quoted line under "findings".

* `hotring_stale_tags`: a rehash keeps old tags; a key inserted later cannot be
  found.
* `tcp_server_own_thread`: a thread serves another thread's client.
* `radix_tree_delete_absent`: deleting an absent index frees a leaf that holds
  another index's item.
* `radix_tree_item_root`: a tree emptied and refilled at index 0 has an item for
  its root; the next insert writes a node's `parent` into it.

Seen while modelling, without a run of its own:

* A second rehash splits rings whose nodes have tags of different table sizes; it can
  leave two heads in one ring (`fault = "shared"`, where the model ends).
* `hotring_delete` of the key at the head frees the head and loses the rest of the
  ring (`hotring.c:443`); `GetsKeepContents` allows exactly this and no other loss.
* At the access that wraps the head's 15-bit counter to 0 every income is NaN, no
  node is the hottest and the head becomes NULL (`hotring.c:596`); `GetWrapped`.
* `hashCode` does not reduce keys longer than the hash, which index beyond the
  table (`fault = "index"`); `i << hash_tag_bits` overflows for the upper half of a
  32-bit table (`hotring.c:474`).
* `radix_tree_replace_slot(NULL)` does not count, so `item_kill_tree` fails its
  assertion on any tree with an entry (`aborted` in `RadixIter`).
* `radix_tree_iter_resume` at the visit of `~0UL` sets `index` and `next_index` to 0
  (`radix-tree.c:653`), so that the next `radix_tree_next_chunk` takes the loop for a
  fresh one and starts over, although its comment (line 679) says that the index
  never overflows. `AscendingAndPresent` takes what follows for a loop from 0.
* A fault retried after `VM_FAULT_RETRY` waits in `down_read` without searching the
  exception tables again (`fault.c:1391`): kernel code that holds `mmap_sem` for
  reading while it faults, and got past the trylock, can wait for a writer that
  waits for it. `NoSelfDeadlock` is therefore about the first attempt, and about
  threads that hold `mmap_sem` for writing.
* `hash_lookup` of the chaining hash never compares keys (`hash.c:79`).
* `jifs_fill_super` keeps `sbi` when it fails (`super.c:402`), and JIFS
  leaves its files' dentries in memory at unmount; `TreesReleased` says exactly how
  much.
* A pool `lists.c` created cannot be opened by its second run (layout `pi`), and a
  pool either `rect_calc` created cannot be used by a second run at all.
* `exit_workqueue` flushes a NULL queue if `create_workqueue` failed, `kread` closes
  an error pointer, `my_crypto` does not test its allocation (`oops` in
  `KernelModules`); `my_crypto` never frees its filter and the hook never gives
  its reference to the network device back.
* virtual_device copies `count` bytes into 1024 without looking at `count`
  (`virtual_device.c:22`), can be used between its registration and the allocation
  of its buffer (lines 41-45), and its `vd_fops` has no owner, so that an open file
  outlives rmmod and its next call runs code that is gone. All three are `oops` in
  `KernelModules`.
* A counter read in pieces while others use it can show parts of two values;
  `UndisturbedReadsWhole` says which reads cannot.

## 7. Not modelled, and why

The components marked `not_modelled` in `PROJECT.json`: the reference copies of the
kernel's radix tree, which no program here builds; the benchmark drivers, whose
call sequences the modules leave open; `librpmem`, `open_dev` and the page flag
tools, which have no state. Inside the modelled ones: verbose traces (`printv`,
`show_fault_oops`, `dump_pagetable`), timing and formatting; tags and `nr_values`
of the radix tree and `root->height`, which are written and never read; HotRing's
allocation failures, which dereference NULL at once; socket set-up errors; the
32-bit half of `fault.c` (`vmalloc_sync_one`, vm86, the F00F bug); JIFS's
directory, inode and name operations, which no mount installs; the functions of
`lists.c` nobody calls.

## 8. State

The model is complete in the sense of section 7. Every safety property the runs
check, invariant, action property or refinement, is a theorem; the six liveness
properties are checked on the instances of section 3.
