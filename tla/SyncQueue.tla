----------------------------- MODULE SyncQueue -----------------------------
(***************************************************************************)
(* producer_consumer/syncQueue.cpp: class SynchronizedQueue, an unbounded  *)
(* queue_ with a mutex_ and a condvar_.  push() notifies one sleeper, and  *)
(* only when it found the queue empty; pop() sleeps while it is empty.     *)
(* Producers push the values 1, 2, ... and consumers pop for ever.         *)
(***************************************************************************)
EXTENDS Integers, Sequences

CONSTANTS Producers, Consumers,
          MaxPushed,  \* bound: values pushed
          NoThread

VARIABLES queue_,
          mutex_,     \* the thread that holds it
          pc,         \* thread -> "out", "lock", "in", "asleep"
          pushed,     \* values pushed so far
          popped      \* history: the values pop() returned, in order

vars == <<queue_, mutex_, pc, pushed, popped>>

Threads == Producers \cup Consumers

Init ==
  /\ queue_ = <<>>
  /\ mutex_ = NoThread
  /\ pc = [t \in Threads |-> "out"]
  /\ pushed = 0
  /\ popped = <<>>

\* A call of push() or pop() reaches for mutex_.
Call(t) ==
  /\ pc[t] = "out"
  /\ t \in Producers => pushed < MaxPushed
  /\ pc' = [pc EXCEPT ![t] = "lock"]
  /\ UNCHANGED <<queue_, mutex_, pushed, popped>>

\* The call, or the wait() it woke from, holds mutex_.
Lock(t) ==
  /\ pc[t] = "lock" /\ mutex_ = NoThread
  /\ mutex_' = t
  /\ pc' = [pc EXCEPT ![t] = "in"]
  /\ UNCHANGED <<queue_, pushed, popped>>

Sleepers == {c \in Consumers : pc[c] = "asleep"}

\* Mutant of Wakes: the test is made after the value is in the queue.
Wakes_Late(queue) == Append(queue, 0) = <<>>

\* bool wake = queue_.empty(), before the push.
Wakes(queue) == queue = <<>>

\* push(): notify_one() wakes a sleeper, if there is one, while mutex_ is held
\* and the lock_guard releases it at the end.
Push(t) ==
  /\ pc[t] = "in" /\ t \in Producers
  /\ pushed' = pushed + 1
  /\ queue_' = Append(queue_, pushed + 1)
  /\ \/ /\ Wakes(queue_) /\ Sleepers # {}
        /\ \E c \in Sleepers : pc' = [pc EXCEPT ![t] = "out", ![c] = "lock"]
     \/ /\ ~Wakes(queue_) \/ Sleepers = {}
        /\ pc' = [pc EXCEPT ![t] = "out"]
  /\ mutex_' = NoThread
  /\ UNCHANGED popped

\* pop(): condvar_.wait(u) releases mutex_ and sleeps in one step.
Sleep(t) ==
  /\ pc[t] = "in" /\ t \in Consumers /\ queue_ = <<>>
  /\ pc' = [pc EXCEPT ![t] = "asleep"]
  /\ mutex_' = NoThread
  /\ UNCHANGED <<queue_, pushed, popped>>

\* A sleeper may wake without a notification.
SpuriousWakeup(t) ==
  /\ pc[t] = "asleep"
  /\ pc' = [pc EXCEPT ![t] = "lock"]
  /\ UNCHANGED <<queue_, mutex_, pushed, popped>>

Front(queue) == queue[1]

\* pop(): the front value is removed and returned.
Pop(t) ==
  /\ pc[t] = "in" /\ t \in Consumers /\ queue_ # <<>>
  /\ popped' = Append(popped, Front(queue_))
  /\ queue_' = Tail(queue_)
  /\ pc' = [pc EXCEPT ![t] = "out"]
  /\ mutex_' = NoThread
  /\ UNCHANGED pushed

Step(t) == Call(t) \/ Lock(t) \/ Push(t) \/ Sleep(t) \/ Pop(t)

Next == \E t \in Threads : Step(t) \/ SpuriousWakeup(t)

\* Threads keep running; a spurious wakeup is never relied upon.  Whoever
\* waits for mutex_ may be overtaken but not for ever.
Fairness == \A t \in Threads : WF_vars(Call(t) \/ Push(t) \/ Sleep(t) \/ Pop(t))
                               /\ SF_vars(Lock(t))

Spec == Init /\ [][Next]_vars /\ Fairness
----------------------------------------------------------------------------
\* Although push() notifies only at the change from empty to non-empty, and
\* then only one of several sleepers, the consumers are never all asleep
\* while there is something in the queue.
SomeConsumerAwake ==
  queue_ # <<>> => \E c \in Consumers : pc[c] # "asleep"

\* Values leave the queue in the order they were pushed, each once, whoever
\* pushes and pops.
FifoExactlyOnce == popped \o queue_ = [i \in 1 .. pushed |-> i]

\* Every value pushed is popped in the end, by consumers that call pop() for
\* ever.
EveryValuePopped == <>(Len(popped) = MaxPushed)
=============================================================================
