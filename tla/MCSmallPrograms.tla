--------------------------- MODULE MCSmallPrograms ---------------------------
(***************************************************************************)
(* The small programs of the repository in one model for TLC.  They share  *)
(* nothing, so a behaviour is about the one that sel names and the others  *)
(* stay in an initial state: the states are the sum of the components'     *)
(* states, not their product.                                              *)
(***************************************************************************)
EXTENDS Integers, Sequences, FiniteSets

CONSTANTS
  NIL, POISON, NONE, NoThread,                  \* model values
  Supers, Base, MaxCount, MaxFailures,          \* Lwnfs and Jifs
  LwnfsProcs, LwnfsWritten, JifsProcs, JifsWritten, Masks, MaxFailed,
  Heads, Nodes,                                 \* Lists
  HashSize, Keys, INT, ULONG, MaxNodes,          \* ChainingHash
  Producers, Consumers, MaxPushed,              \* SyncQueue
  ExampleProducers, ExampleConsumers, Items, size_, NoItem, \* ProducerConsumer
  Counts,                                       \* AverageAgents
  Words, Objects,                               \* PmemPrograms
  Cpus, Users, DeviceSize, MaxLoads             \* KernelModules

ASSUME QueueAssumption ==
  /\ Consumers # {} /\ Producers \cap Consumers = {}

ASSUME SupersAssumption == IsFiniteSet(Supers)

\* "%d" and simple_strtol.
ASSUME NumbersAssumption ==
  /\ Base \in Nat \ {0, 1}
  /\ LwnfsWritten \cup JifsWritten \subseteq Int

\* Heads and nodes are distinct cells, and no cell is NULL or poison.
ASSUME ListsAssumption ==
  /\ IsFiniteSet(Nodes) /\ Heads \cap Nodes = {}
  /\ {NIL, POISON} \cap (Heads \cup Nodes) = {}
  /\ NIL \notin ({"first"} \X Heads) \cup ({"next"} \X Nodes)

\* An int, an unsigned long and the size of the table.
ASSUME HashAssumption ==
  /\ HashSize \in Nat \ {0} /\ INT \in Nat \ {0} /\ ULONG \in Nat \ {0}
  /\ Keys \subseteq Nat /\ MaxNodes \in Nat

ASSUME KernelAssumption == NIL \notin {"item1", "item2", "packet"}

VARIABLES
  sel,          \* the component this behaviour is about
  lcounter, lfd, lmounted, lobjects, lstray, lloaded, lfault,
  jcounter, jfd, users, jobjects, jstray, sbi, failed, dbgmask, pending,
  jloaded, jfault,
  mem, hmem, lists, hlist, loop, kind,
  slots, first, hashmem, item, used, crashed, inserted,
  queue_, mutex_, pc, pushed, popped,
  mu, buffer_, epc, num, run, cout_mu,
  count, buffer, left, producer, sum, n, consumer, average, main, printed,
  pool, log, prog, step, typed, output,
  mod, at, loads, my_wq, queued, handler, memory, devrefs, hooked, devbuffer,
  registered, opened, oops

L == INSTANCE Lwnfs WITH Procs <- LwnfsProcs, Written <- LwnfsWritten,
       counter <- lcounter, fd <- lfd, mounted <- lmounted,
       objects <- lobjects, stray <- lstray, loaded <- lloaded,
       fault <- lfault
J == INSTANCE Jifs WITH Procs <- JifsProcs, Written <- JifsWritten,
       counter <- jcounter, fd <- jfd, objects <- jobjects, stray <- jstray,
       loaded <- jloaded, fault <- jfault
Li == INSTANCE Lists
H == INSTANCE ChainingHash WITH Size <- HashSize, mem <- hashmem
Q == INSTANCE SyncQueue
E == INSTANCE ProducerConsumer WITH Producers <- ExampleProducers,
       Consumers <- ExampleConsumers, pc <- epc
A == INSTANCE AverageAgents
P == INSTANCE PmemPrograms WITH pc <- step
K == INSTANCE KernelModules WITH Size <- DeviceSize, buffer <- devbuffer

ASSUME PoolAssumption == NIL \notin Objects \cup DOMAIN P!Program \cup P!Logs

Components == {"lwnfs", "jifs", "lists", "hash", "queue", "example",
               "average", "pmem", "kernel"}

\* The variables of each component, under the names they have here.
lwnfsVars == <<lcounter, lfd, lmounted, lobjects, lstray, lloaded, lfault>>
jifsVars == <<jcounter, jfd, users, jobjects, jstray, sbi, failed, dbgmask,
              pending, jloaded, jfault>>
listVars == <<mem, hmem, lists, hlist, loop, kind>>
hashVars == <<slots, first, hashmem, item, used, crashed, inserted>>
queueVars == <<queue_, mutex_, pc, pushed, popped>>
exampleVars == <<mu, buffer_, epc, num, run, cout_mu>>
averageVars == <<count, buffer, left, producer, sum, n, consumer, average,
                 main, printed>>
pmemVars == <<pool, log, prog, step, typed, output>>
kernelVars == <<mod, at, loads, my_wq, queued, handler, memory, devrefs,
                hooked, devbuffer, registered, opened, oops>>

vars == <<sel, lwnfsVars, jifsVars, listVars, hashVars, queueVars,
          exampleVars, averageVars, pmemVars, kernelVars>>

\* A component that is not selected starts in one of its initial states only.
Init ==
  /\ sel \in Components
  /\ L!Init /\ J!Init /\ Li!Init /\ H!Init
  /\ Q!Init /\ E!Init /\ A!Init /\ P!Init /\ K!Init
  /\ sel = "lists" \/ kind = "list"
  /\ sel = "average" \/ \A c \in Counts : count <= c
  /\ sel = "kernel" \/ mod = "kread"

Next ==
  \/ /\ sel = "lwnfs" /\ L!Next
     /\ UNCHANGED <<sel, jifsVars, listVars, hashVars, queueVars,
                    exampleVars, averageVars, pmemVars, kernelVars>>
  \/ /\ sel = "jifs" /\ J!Next
     /\ UNCHANGED <<sel, lwnfsVars, listVars, hashVars, queueVars,
                    exampleVars, averageVars, pmemVars, kernelVars>>
  \/ /\ sel = "lists" /\ Li!Next
     /\ UNCHANGED <<sel, lwnfsVars, jifsVars, hashVars, queueVars,
                    exampleVars, averageVars, pmemVars, kernelVars>>
  \/ /\ sel = "hash" /\ H!Next
     /\ UNCHANGED <<sel, lwnfsVars, jifsVars, listVars, queueVars,
                    exampleVars, averageVars, pmemVars, kernelVars>>
  \/ /\ sel = "queue" /\ Q!Next
     /\ UNCHANGED <<sel, lwnfsVars, jifsVars, listVars, hashVars,
                    exampleVars, averageVars, pmemVars, kernelVars>>
  \/ /\ sel = "example" /\ E!Next
     /\ UNCHANGED <<sel, lwnfsVars, jifsVars, listVars, hashVars, queueVars,
                    averageVars, pmemVars, kernelVars>>
  \/ /\ sel = "average" /\ A!Next
     /\ UNCHANGED <<sel, lwnfsVars, jifsVars, listVars, hashVars, queueVars,
                    exampleVars, pmemVars, kernelVars>>
  \/ /\ sel = "pmem" /\ P!Next
     /\ UNCHANGED <<sel, lwnfsVars, jifsVars, listVars, hashVars, queueVars,
                    exampleVars, averageVars, kernelVars>>
  \/ /\ sel = "kernel" /\ K!Next
     /\ UNCHANGED <<sel, lwnfsVars, jifsVars, listVars, hashVars, queueVars,
                    exampleVars, averageVars, pmemVars>>

\* The fairness of SyncQueue, ProducerConsumer and AverageAgents, for the
\* behaviours that are about them.
Fairness ==
  /\ \A t \in Producers \cup Consumers :
       /\ WF_queueVars(/\ sel = "queue"
                       /\ Q!Call(t) \/ Q!Push(t) \/ Q!Sleep(t) \/ Q!Pop(t))
       /\ SF_queueVars(sel = "queue" /\ Q!Lock(t))
  /\ \A t \in ExampleProducers \cup ExampleConsumers :
       /\ WF_exampleVars(sel = "example" /\ E!Thread(t))
       /\ SF_exampleVars(sel = "example" /\ E!InCall(t) /\ epc[t] = "lock")
       /\ SF_exampleVars(sel = "example" /\ E!LockCout(t))
  /\ WF_averageVars(sel = "average" /\ A!Produce)
  /\ WF_averageVars(sel = "average" /\ (A!Receive \/ A!SendAverage))
  /\ WF_averageVars(sel = "average" /\ A!Main)

Spec == Init /\ [][Next]_vars /\ Fairness
----------------------------------------------------------------------------
\* list.h: following next, prev and the hlist's pointers visits exactly the
\* entries the calls so far put there, and a list_for_each_safe loop whose
\* body deletes or moves entries gives each of them its turn.
ListsExact == Li!ListsExact /\ Li!SafeLoopVisitsAll

\* hash.c: display shows every key inserted, in its bucket and in order.
DisplayShowsAll == H!DisplayShowsAll

\* syncQueue.cpp: the consumers are never all asleep while the queue holds a
\* value, and values leave it once each in the order they were pushed.
SomeConsumerAwake == Q!SomeConsumerAwake /\ Q!FifoExactlyOnce

\* syncQueue.cpp: every value pushed is popped in the end.
EveryValuePopped == sel = "queue" => Q!EveryValuePopped

\* example.cpp: the call of a thread without a rival of its kind returns,
\* although producers and consumers sleep on one condition variable.
SoleCallerReturns == sel = "example" => E!SoleCallerReturns

\* example.cpp: the threads never come to a halt, items are consumed for ever,
\* and each loop agrees with its call about where its thread is.
ItemsKeepFlowing == sel = "example" => E!ItemsKeepFlowing /\ []E!TypeOK

\* producer-consumer-average.cpp: wmain ends and prints the average of what
\* was sent.
AveragePrinted == sel = "average" => A!AveragePrinted

\* libpmemobj programs: after a crash anywhere the pool recovers to a state
\* between two transactions or atomic operations.
PoolConsistent == P!PoolConsistent

\* Kernel modules: nothing of an unloaded module runs, waits or stays in
\* memory.
QuietWhenUnloaded == K!QuietWhenUnloaded

\* lwnfs.c and file.c: a counter read in pieces while nobody else touches it
\* shows one value.
UndisturbedReadsWhole == L!UndisturbedReadsWhole /\ J!UndisturbedReadsWhole

\* lwnfs.c and super.c: whatever allocations failed, unmounting lwnfs leaves
\* nothing, and unmounting JIFS whole trees and no private part of a mount
\* that succeeded.
TreesReleased == L!NothingLeft /\ J!JifsLeavesWholeTrees
=============================================================================
