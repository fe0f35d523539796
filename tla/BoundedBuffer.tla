--------------------------- MODULE BoundedBuffer ---------------------------
(***************************************************************************)
(* class Buffer of producer_consumer/example.cpp; socket_server.cpp holds  *)
(* a verbatim copy of it for struct pmnetMsg.  A bounded deque guarded by  *)
(* a mutex mu and one condition variable cond shared by producers and      *)
(* consumers.  add() and remove() are split at every point where another   *)
(* thread can run: taking mu, evaluating the wait predicate, touching      *)
(* buffer_, releasing mu, and notify_all(), which happens after the        *)
(* release.  Any thread may call at any time: BufferSpec is the most       *)
(* general client of the class.                                            *)
(***************************************************************************)
EXTENDS Integers, Sequences

CONSTANTS Producers,   \* threads that call add()
          Consumers,   \* threads that call remove()
          Items,       \* what deque<T> holds
          size_,       \* capacity, 10 in the source
          NoThread,    \* mu is free
          NoItem       \* remove() has not returned anything yet

Threads == Producers \cup Consumers

ASSUME BufferAssumption ==
  /\ size_ \in Nat \ {0}
  /\ Producers \cap Consumers = {}
  /\ NoThread \notin Threads
  /\ NoItem \notin Items

VARIABLES mu,       \* owner of std::mutex mu, or NoThread
          buffer_,  \* the deque; back() is the last element
          pc,       \* where each thread is inside add()/remove()
          num       \* each thread's local: add()'s argument, remove()'s result

bufferVars == <<mu, buffer_, pc, num>>

(***************************************************************************)
(* "out"     not inside a method of Buffer                                 *)
(* "lock"    constructing unique_lock, or re-locking inside cond.wait      *)
(* "test"    holds mu, about to evaluate the wait predicate                *)
(* "wait"    asleep in cond.wait, mu released                              *)
(* "act"     holds mu, predicate was true, deque not yet touched           *)
(* "unlock"  holds mu, deque changed                                       *)
(* "notify"  mu released, notify_all() not yet called                      *)
(***************************************************************************)
Locations == {"out", "lock", "test", "wait", "act", "unlock", "notify"}

BufferInit ==
  /\ mu = NoThread
  /\ buffer_ = <<>>
  /\ pc = [t \in Threads |-> "out"]
  /\ num = [t \in Threads |-> NoItem]

\* Mutant of Ready: room is tested with <= instead of <.
Ready_OffByOne(t) == IF t \in Producers THEN Len(buffer_) <= size_
                                        ELSE Len(buffer_) > 0

\* The lambdas handed to cond.wait.
Ready(t) == IF t \in Producers THEN Len(buffer_) < size_
                               ELSE Len(buffer_) > 0

\* Mutant of Add: the argument is not kept.
Add_DropsArgument(p, x) ==
  /\ pc[p] = "out"
  /\ pc' = [pc EXCEPT ![p] = "lock"]
  /\ UNCHANGED <<mu, buffer_, num>>

\* buffer_.add(x) is entered.
Add(p, x) ==
  /\ pc[p] = "out"
  /\ pc' = [pc EXCEPT ![p] = "lock"]
  /\ num' = [num EXCEPT ![p] = x]
  /\ UNCHANGED <<mu, buffer_>>

\* buffer_.remove() is entered.
Remove(c) ==
  /\ pc[c] = "out"
  /\ pc' = [pc EXCEPT ![c] = "lock"]
  /\ num' = [num EXCEPT ![c] = NoItem]
  /\ UNCHANGED <<mu, buffer_>>

\* Mutant of Lock: mu is not waited for.
Lock_WithoutWaiting(t) ==
  /\ pc[t] = "lock"
  /\ mu' = t
  /\ pc' = [pc EXCEPT ![t] = "test"]
  /\ UNCHANGED <<buffer_, num>>

\* unique_lock's constructor, or the re-lock at the end of a wait.
Lock(t) ==
  /\ pc[t] = "lock"
  /\ mu = NoThread
  /\ mu' = t
  /\ pc' = [pc EXCEPT ![t] = "test"]
  /\ UNCHANGED <<buffer_, num>>

\* Mutant of Pass: the woken thread does not re-evaluate the predicate.
Pass_Unchecked(t) ==
  /\ pc[t] = "test"
  /\ pc' = [pc EXCEPT ![t] = "act"]
  /\ UNCHANGED <<mu, buffer_, num>>

\* The predicate holds: cond.wait returns with mu held.
Pass(t) ==
  /\ pc[t] = "test"
  /\ Ready(t)
  /\ pc' = [pc EXCEPT ![t] = "act"]
  /\ UNCHANGED <<mu, buffer_, num>>

\* The predicate fails: cond.wait releases mu and sleeps in one step.
Wait(t) ==
  /\ pc[t] = "test"
  /\ ~Ready(t)
  /\ mu' = NoThread
  /\ pc' = [pc EXCEPT ![t] = "wait"]
  /\ UNCHANGED <<buffer_, num>>

\* The standard lets a condition variable wake up for no reason.
SpuriousWakeup(t) ==
  /\ pc[t] = "wait"
  /\ pc' = [pc EXCEPT ![t] = "lock"]
  /\ UNCHANGED <<mu, buffer_, num>>

\* buffer_.push_back(num)
PushBack(p) ==
  /\ pc[p] = "act"
  /\ buffer_' = Append(buffer_, num[p])
  /\ pc' = [pc EXCEPT ![p] = "unlock"]
  /\ UNCHANGED <<mu, num>>

\* Mutant of PopBack: pop_back() is forgotten.
PopBack_OnlyReads(c) ==
  /\ pc[c] = "act"
  /\ num' = [num EXCEPT ![c] = buffer_[Len(buffer_)]]
  /\ pc' = [pc EXCEPT ![c] = "unlock"]
  /\ UNCHANGED <<mu, buffer_>>

\* Mutant of PopBack: back() is returned but the front is popped.
PopBack_PopsFront(c) ==
  /\ pc[c] = "act"
  /\ num' = [num EXCEPT ![c] = buffer_[Len(buffer_)]]
  /\ buffer_' = Tail(buffer_)
  /\ pc' = [pc EXCEPT ![c] = "unlock"]
  /\ UNCHANGED mu

\* back = buffer_.back(); buffer_.pop_back()
PopBack(c) ==
  /\ pc[c] = "act"
  /\ num' = [num EXCEPT ![c] = buffer_[Len(buffer_)]]
  /\ buffer_' = SubSeq(buffer_, 1, Len(buffer_) - 1)
  /\ pc' = [pc EXCEPT ![c] = "unlock"]
  /\ UNCHANGED mu

\* Mutant of Unlock: returns without notify_all().
Unlock_NeverNotifies(t) ==
  /\ pc[t] = "unlock"
  /\ mu' = NoThread
  /\ pc' = [pc EXCEPT ![t] = "out"]
  /\ UNCHANGED <<buffer_, num>>

\* locker.unlock()
Unlock(t) ==
  /\ pc[t] = "unlock"
  /\ mu' = NoThread
  /\ pc' = [pc EXCEPT ![t] = "notify"]
  /\ UNCHANGED <<buffer_, num>>

\* Mutant of NotifyAll: notify_one(), the first sleeper found is woken.
NotifyAll_WakesOne(t) ==
  /\ pc[t] = "notify"
  /\ LET asleep == {s \in Threads : pc[s] = "wait"}
         woken  == IF asleep = {} THEN {} ELSE {CHOOSE s \in asleep : TRUE}
     IN  pc' = [s \in Threads |-> IF s = t THEN "out"
                                  ELSE IF s \in woken THEN "lock"
                                  ELSE pc[s]]
  /\ UNCHANGED <<mu, buffer_, num>>

\* cond.notify_all(); return
NotifyAll(t) ==
  /\ pc[t] = "notify"
  /\ pc' = [s \in Threads |-> IF s = t THEN "out"
                              ELSE IF pc[s] = "wait" THEN "lock"
                              ELSE pc[s]]
  /\ UNCHANGED <<mu, buffer_, num>>

\* What a thread does by itself once it is inside a method.
Step(t) ==
  \/ Lock(t)
  \/ Pass(t)
  \/ Wait(t)
  \/ t \in Producers /\ PushBack(t)
  \/ t \in Consumers /\ PopBack(t)
  \/ Unlock(t)
  \/ NotifyAll(t)

Inside(t) == Step(t) \/ SpuriousWakeup(t)

BufferNext ==
  \/ \E p \in Producers, x \in Items : Add(p, x)
  \/ \E c \in Consumers : Remove(c)
  \/ \E t \in Threads : Inside(t)

BufferSpec == BufferInit /\ [][BufferNext]_bufferVars
----------------------------------------------------------------------------
\* Types; a call that is out of the wait predicate's reach always has an item.
BufferTypeOK ==
  /\ mu \in Threads \cup {NoThread}
  /\ buffer_ \in Seq(Items)
  /\ pc \in [Threads -> Locations]
  /\ num \in [Threads -> Items \cup {NoItem}]
  /\ \A p \in Producers : pc[p] # "out" => num[p] \in Items

Critical == {"test", "act", "unlock"}

\* unique_lock: the threads between lock and unlock are the one owner of mu.
MutualExclusion == \A t \in Threads : pc[t] \in Critical <=> mu = t

\* The answer of the wait predicate is still true when the deque is touched,
\* so push_back never exceeds size_ and pop_back never meets an empty deque.
PredicateStillTrue == \A t \in Threads : pc[t] = "act" => Ready(t)

\* The deque never holds more than size_ items, whoever runs in between.
WithinCapacity == Len(buffer_) <= size_

\* No lost wakeup although notify_all() is called after mu is released: a
\* thread asleep although it could go on has a notify_all() on its way.
NoLostWakeup ==
  \A t \in Threads :
    pc[t] = "wait" /\ Ready(t) =>
      \E s \in Threads : pc[s] \in {"unlock", "notify"}

\* Producers and consumers are never all asleep at once.
SomeoneAwake ==
  Producers # {} /\ Consumers # {} => \E t \in Threads : pc[t] # "wait"

(***************************************************************************)
(* The abstract stack: a call has taken effect once the deque was touched. *)
(***************************************************************************)
CallOf(l) == IF l = "out" THEN "idle"
             ELSE IF l \in {"unlock", "notify"} THEN "done"
             ELSE "pending"

Atomic == INSTANCE AtomicBuffer
            WITH stack <- buffer_,
                 call <- [t \in Threads |-> CallOf(pc[t])],
                 item <- num

\* However the threads interleave inside add() and remove(), callers see a
\* bounded stack whose operations are atomic (example.cpp's class Buffer).
LinearizesToStack == Atomic!AtomicSpec
=============================================================================
