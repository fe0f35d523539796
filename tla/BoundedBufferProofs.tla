------------------------ MODULE BoundedBufferProofs ------------------------
(***************************************************************************)
(* Proofs about class Buffer for any sets of producers, consumers and      *)
(* items and any positive capacity.                                        *)
(***************************************************************************)
EXTENDS BoundedBuffer, SequenceTheorems, TLAPS

(***************************************************************************)
(* The inductive invariant.  WithinCapacity needs PredicateStillTrue (the  *)
(* thread that pushes saw room), PredicateStillTrue needs MutualExclusion  *)
(* (nobody else touches the deque between the test and the push), and      *)
(* MutualExclusion needs the types.                                        *)
(***************************************************************************)
BufferInv ==
  /\ BufferTypeOK
  /\ MutualExclusion
  /\ PredicateStillTrue
  /\ WithinCapacity
  /\ NoLostWakeup

\* The empty buffer with every thread outside satisfies the invariant.
LEMMA InitInv == BufferInit => BufferInv
BY BufferAssumption
   DEF BufferInit, BufferInv, BufferTypeOK, MutualExclusion, Critical,
       PredicateStillTrue, WithinCapacity, NoLostWakeup, Locations, Threads

\* Every step of every thread keeps the types.
LEMMA TypeStep == BufferTypeOK /\ PredicateStillTrue /\ [BufferNext]_bufferVars
                    => BufferTypeOK'
<1> SUFFICES ASSUME BufferTypeOK, PredicateStillTrue, [BufferNext]_bufferVars
             PROVE  BufferTypeOK'
  OBVIOUS
<1> USE DEF BufferTypeOK, Locations
<1>1. ASSUME NEW p \in Producers, NEW x \in Items, Add(p, x)
      PROVE  BufferTypeOK'
  BY <1>1 DEF Add, Threads
<1>2. ASSUME NEW c \in Consumers, Remove(c)
      PROVE  BufferTypeOK'
  BY <1>2, BufferAssumption DEF Remove, Threads
<1>3. ASSUME NEW t \in Threads, Inside(t)
      PROVE  BufferTypeOK'
  <2>1. CASE Lock(t)
    BY <2>1 DEF Lock, Threads
  <2>2. CASE Pass(t)
    BY <2>2 DEF Pass, Threads
  <2>3. CASE Wait(t)
    BY <2>3 DEF Wait, Threads
  <2>4. CASE SpuriousWakeup(t)
    BY <2>4 DEF SpuriousWakeup, Threads
  <2>5. CASE t \in Producers /\ PushBack(t)
    BY <2>5 DEF PushBack, Threads
  <2>6. CASE t \in Consumers /\ PopBack(t)
    <3>1. Len(buffer_) \in Nat /\ Len(buffer_) > 0
      BY <2>6, BufferAssumption
         DEF PopBack, PredicateStillTrue, Ready, Threads
    <3>2. buffer_[Len(buffer_)] \in Items
      BY <3>1
    <3>3. SubSeq(buffer_, 1, Len(buffer_) - 1) \in Seq(Items)
      BY <3>1
    <3> QED
      BY <2>6, <3>2, <3>3, BufferAssumption DEF PopBack, Threads
  <2>7. CASE Unlock(t)
    BY <2>7 DEF Unlock, Threads
  <2>8. CASE NotifyAll(t)
    BY <2>8 DEF NotifyAll, Threads
  <2> QED
    BY <1>3, <2>1, <2>2, <2>3, <2>4, <2>5, <2>6, <2>7, <2>8 DEF Inside, Step
<1>4. CASE UNCHANGED bufferVars
  BY <1>4 DEF bufferVars
<1> QED
  BY <1>1, <1>2, <1>3, <1>4 DEF BufferNext

\* Every step keeps mu owned by the one thread between lock and unlock.
LEMMA MutexStep == BufferTypeOK /\ MutualExclusion /\ [BufferNext]_bufferVars
                     => MutualExclusion'
<1> SUFFICES ASSUME BufferTypeOK, MutualExclusion, [BufferNext]_bufferVars
             PROVE  MutualExclusion'
  OBVIOUS
<1> USE BufferAssumption DEF BufferTypeOK, MutualExclusion, Critical
<1>1. ASSUME NEW p \in Producers, NEW x \in Items, Add(p, x)
      PROVE  MutualExclusion'
  BY <1>1 DEF Add, Threads
<1>2. ASSUME NEW c \in Consumers, Remove(c)
      PROVE  MutualExclusion'
  BY <1>2 DEF Remove, Threads
<1>3. ASSUME NEW t \in Threads, Inside(t)
      PROVE  MutualExclusion'
  <2>1. CASE Lock(t)
    BY <2>1 DEF Lock
  <2>2. CASE Pass(t)
    BY <2>2 DEF Pass
  <2>3. CASE Wait(t)
    BY <2>3 DEF Wait
  <2>4. CASE SpuriousWakeup(t)
    BY <2>4 DEF SpuriousWakeup
  <2>5. CASE t \in Producers /\ PushBack(t)
    BY <2>5 DEF PushBack
  <2>6. CASE t \in Consumers /\ PopBack(t)
    BY <2>6 DEF PopBack
  <2>7. CASE Unlock(t)
    BY <2>7 DEF Unlock
  <2>8. CASE NotifyAll(t)
    BY <2>8 DEF NotifyAll
  <2> QED
    BY <1>3, <2>1, <2>2, <2>3, <2>4, <2>5, <2>6, <2>7, <2>8 DEF Inside, Step
<1>4. CASE UNCHANGED bufferVars
  BY <1>4 DEF bufferVars
<1> QED
  BY <1>1, <1>2, <1>3, <1>4 DEF BufferNext

\* Between the test and the push or pop nobody else changes the deque.
LEMMA PredicateStep ==
  BufferTypeOK /\ MutualExclusion /\ PredicateStillTrue /\ [BufferNext]_bufferVars
    => PredicateStillTrue'
<1> SUFFICES ASSUME BufferTypeOK, MutualExclusion, PredicateStillTrue,
                    [BufferNext]_bufferVars
             PROVE  PredicateStillTrue'
  OBVIOUS
<1> USE DEF BufferTypeOK, PredicateStillTrue, Ready
<1>1. ASSUME NEW p \in Producers, NEW x \in Items, Add(p, x)
      PROVE  PredicateStillTrue'
  BY <1>1 DEF Add, Threads
<1>2. ASSUME NEW c \in Consumers, Remove(c)
      PROVE  PredicateStillTrue'
  BY <1>2 DEF Remove, Threads
<1>3. ASSUME NEW t \in Threads, Inside(t)
      PROVE  PredicateStillTrue'
  <2>1. CASE Lock(t)
    BY <2>1 DEF Lock
  <2>2. CASE Pass(t)
    BY <2>2 DEF Pass
  <2>3. CASE Wait(t)
    BY <2>3 DEF Wait
  <2>4. CASE SpuriousWakeup(t)
    BY <2>4 DEF SpuriousWakeup
  <2>5. CASE PushBack(t) \/ PopBack(t)
    <3>1. \A s \in Threads : s # t => pc[s] # "act"
      BY <2>5 DEF MutualExclusion, Critical, PushBack, PopBack
    <3>2. \A s \in Threads : pc'[s] # "act"
      BY <2>5, <3>1 DEF PushBack, PopBack
    <3> QED
      BY <3>2
  <2>7. CASE Unlock(t)
    BY <2>7 DEF Unlock
  <2>8. CASE NotifyAll(t)
    BY <2>8 DEF NotifyAll
  <2> QED
    BY <1>3, <2>1, <2>2, <2>3, <2>4, <2>5, <2>7, <2>8 DEF Inside, Step
<1>4. CASE UNCHANGED bufferVars
  BY <1>4 DEF bufferVars
<1> QED
  BY <1>1, <1>2, <1>3, <1>4 DEF BufferNext

\* Only a push can grow the deque, and it found room.
LEMMA CapacityStep ==
  BufferTypeOK /\ PredicateStillTrue /\ WithinCapacity /\ [BufferNext]_bufferVars
    => WithinCapacity'
<1> SUFFICES ASSUME BufferTypeOK, PredicateStillTrue, WithinCapacity,
                    [BufferNext]_bufferVars
             PROVE  WithinCapacity'
  OBVIOUS
<1> USE BufferAssumption DEF BufferTypeOK, WithinCapacity
<1>1. ASSUME NEW p \in Producers, PushBack(p)
      PROVE  WithinCapacity'
  <2>1. Len(buffer_) < size_
    BY <1>1 DEF PushBack, PredicateStillTrue, Ready, Threads
  <2>2. Len(buffer_') = Len(buffer_) + 1
    BY <1>1 DEF PushBack, Threads
  <2> QED
    BY <2>1, <2>2
<1>2. ASSUME NEW c \in Consumers, PopBack(c)
      PROVE  WithinCapacity'
  <2>1. Len(buffer_) > 0
    BY <1>2 DEF PopBack, PredicateStillTrue, Ready, Threads
  <2>2. Len(buffer_') = Len(buffer_) - 1
    <3> DEFINE n == Len(buffer_) - 1
    <3>1. n \in Nat /\ \A i \in 1 .. n : buffer_[i] \in Items
      BY <2>1
    <3>2. Len(SubSeq(buffer_, 1, n)) = IF 1 <= n THEN n - 1 + 1 ELSE 0
      <4> HIDE DEF n
      <4> QED
        BY <3>1, SubSeqProperties
    <3>3. Len(SubSeq(buffer_, 1, n)) = n
      <4> HIDE DEF n
      <4> QED
        BY <3>1, <3>2
    <3> QED
      BY <1>2, <3>3 DEF PopBack
  <2> QED
    BY <2>2
<1>3. CASE UNCHANGED buffer_
  BY <1>3
<1> QED
  BY <1>1, <1>2, <1>3
     DEF BufferNext, bufferVars, Add, Remove, Inside, Step, Lock, Pass, Wait,
         SpuriousWakeup, Unlock, NotifyAll

\* A sleeper that could go on always has a notify_all() on its way.
LEMMA WakeupStep ==
  BufferTypeOK /\ NoLostWakeup /\ [BufferNext]_bufferVars => NoLostWakeup'
<1> SUFFICES ASSUME BufferTypeOK, NoLostWakeup, [BufferNext]_bufferVars
             PROVE  NoLostWakeup'
  OBVIOUS
<1> USE DEF BufferTypeOK, NoLostWakeup, Ready
<1>1. ASSUME NEW p \in Producers, NEW x \in Items, Add(p, x)
      PROVE  NoLostWakeup'
  BY <1>1 DEF Add, Threads
<1>2. ASSUME NEW c \in Consumers, Remove(c)
      PROVE  NoLostWakeup'
  BY <1>2 DEF Remove, Threads
<1>3. ASSUME NEW t \in Threads, Inside(t)
      PROVE  NoLostWakeup'
  <2>1. CASE Lock(t)
    BY <2>1 DEF Lock
  <2>2. CASE Pass(t)
    BY <2>2 DEF Pass
  <2>3. CASE Wait(t)
    BY <2>3 DEF Wait
  <2>4. CASE SpuriousWakeup(t)
    BY <2>4 DEF SpuriousWakeup
  <2>5. CASE PushBack(t) \/ PopBack(t) \/ Unlock(t)
    <3>1. pc'[t] \in {"unlock", "notify"}
      BY <2>5 DEF PushBack, PopBack, Unlock
    <3> QED
      BY <3>1
  <2>6. CASE NotifyAll(t)
    <3>1. \A s \in Threads : pc'[s] # "wait"
      BY <2>6 DEF NotifyAll, Locations
    <3> QED
      BY <3>1
  <2> QED
    BY <1>3, <2>1, <2>2, <2>3, <2>4, <2>5, <2>6 DEF Inside, Step
<1>4. CASE UNCHANGED bufferVars
  BY <1>4 DEF bufferVars
<1> QED
  BY <1>1, <1>2, <1>3, <1>4 DEF BufferNext

\* Every step of any thread inside add() or remove() keeps the invariant.
LEMMA BufferStep == BufferInv /\ [BufferNext]_bufferVars => BufferInv'
BY TypeStep, MutexStep, PredicateStep, CapacityStep, WakeupStep DEF BufferInv

\* The invariant is inductive and so holds of every behaviour of the class.
THEOREM Invariance == BufferSpec => []BufferInv
BY InitInv, BufferStep, PTL DEF BufferSpec

\* class Buffer's mutex, deque, arguments and results keep their types.
THEOREM TypeTheorem == BufferSpec => []BufferTypeOK
<1>1. BufferInv => BufferTypeOK
  BY DEF BufferInv
<1> QED
  BY Invariance, <1>1, PTL

\* class Buffer never holds more than size_ items.
THEOREM CapacityTheorem == BufferSpec => []WithinCapacity
<1>1. BufferInv => WithinCapacity
  BY DEF BufferInv
<1> QED
  BY Invariance, <1>1, PTL

\* class Buffer: the answer of the wait predicate still holds when push_back or
\* pop_back runs, however many threads woke up in between.
THEOREM PredicateTheorem == BufferSpec => []PredicateStillTrue
<1>1. BufferInv => PredicateStillTrue
  BY DEF BufferInv
<1> QED
  BY Invariance, <1>1, PTL

\* class Buffer: mu is held by at most one thread, the one that uses buffer_.
THEOREM MutexTheorem == BufferSpec => []MutualExclusion
<1>1. BufferInv => MutualExclusion
  BY DEF BufferInv
<1> QED
  BY Invariance, <1>1, PTL

\* class Buffer loses no wakeup although it notifies after unlocking.
THEOREM WakeupTheorem == BufferSpec => []NoLostWakeup
<1>1. BufferInv => NoLostWakeup
  BY DEF BufferInv
<1> QED
  BY Invariance, <1>1, PTL

\* Producers and consumers of class Buffer never all sleep at once: the deque
\* would have to be full and empty.
THEOREM SomeoneAwakeTheorem == BufferSpec => []SomeoneAwake
<1>1. BufferInv => SomeoneAwake
  <2> SUFFICES ASSUME BufferInv, NEW p \in Producers, NEW c \in Consumers,
                      \A t \in Threads : pc[t] = "wait"
               PROVE  FALSE
    BY DEF SomeoneAwake
  <2>1. ~Ready(p) /\ ~Ready(c)
    BY DEF BufferInv, NoLostWakeup, Threads
  <2>2. ~(Len(buffer_) < size_) /\ ~(Len(buffer_) > 0)
    BY <2>1, BufferAssumption DEF Ready
  <2>3. Len(buffer_) \in Nat
    BY DEF BufferInv, BufferTypeOK
  <2> QED
    BY <2>2, <2>3, BufferAssumption
<1> QED
  BY Invariance, <1>1, PTL
----------------------------------------------------------------------------
(***************************************************************************)
(* Buffer implements the atomic stack.                                     *)
(***************************************************************************)
call == [t \in Threads |-> CallOf(pc[t])]

\* A step of one thread that leaves its abstract call status alone is a stutter.
LEMMA CallUnchanged ==
  ASSUME NEW t \in Threads, NEW l, pc \in [Threads -> Locations],
         pc' = [pc EXCEPT ![t] = l], CallOf(l) = CallOf(pc[t])
  PROVE  call' = call
BY DEF call

\* Otherwise the step changes that thread's status alone.
LEMMA CallChanged ==
  ASSUME NEW t \in Threads, NEW l, pc \in [Threads -> Locations],
         pc' = [pc EXCEPT ![t] = l]
  PROVE  call' = [call EXCEPT ![t] = CallOf(l)]
BY DEF call

\* The status of a thread that has entered a method, and of one that acted.
LEMMA CallValues == CallOf("lock") = "pending" /\ CallOf("unlock") = "done"
BY DEF CallOf

\* Every step of class Buffer is a step of the atomic stack or a stutter: the
\* effect is at push_back and pop_back, the return at notify_all.
LEMMA RefinementStep ==
  BufferInv /\ [BufferNext]_bufferVars
    => [Atomic!AtomicNext]_(Atomic!atomicVars)
<1> SUFFICES ASSUME BufferInv, [BufferNext]_bufferVars
             PROVE  Atomic!AtomicNext
                      \/ (call' = call /\ UNCHANGED <<buffer_, num>>)
  BY DEF Atomic!atomicVars, call
<1> DEFINE Goal == Atomic!AtomicNext
                      \/ (call' = call /\ UNCHANGED <<buffer_, num>>)
<1>t. pc \in [Threads -> Locations] /\ buffer_ \in Seq(Items)
  BY DEF BufferInv, BufferTypeOK
<1>c. \A t \in Threads : call[t] = CallOf(pc[t])
  BY DEF call
<1>1. ASSUME NEW p \in Producers, NEW x \in Items, Add(p, x)
      PROVE  Goal
  <2>1. p \in Threads
    BY DEF Threads
  <2>2. call[p] = "idle"
    BY <1>1, <1>c, <2>1 DEF Add, CallOf
  <2>3. call' = [call EXCEPT ![p] = "pending"]
    BY <1>1, <1>t, <2>1, CallChanged, CallValues, ZenonT(60) DEF Add
  <2>4. Atomic!Invoke(p, x)
    BY <1>1, <2>2, <2>3 DEF Atomic!Invoke, Add, call
  <2> QED
    BY <2>4 DEF Atomic!AtomicNext
<1>2. ASSUME NEW c \in Consumers, Remove(c)
      PROVE  Goal
  <2>1. c \in Threads
    BY DEF Threads
  <2>2. call[c] = "idle"
    BY <1>2, <1>c, <2>1 DEF Remove, CallOf
  <2>3. call' = [call EXCEPT ![c] = "pending"]
    BY <1>2, <1>t, <2>1, CallChanged, CallValues, ZenonT(60) DEF Remove
  <2>4. Atomic!Invoke(c, NoItem)
    BY <1>2, <2>2, <2>3 DEF Atomic!Invoke, Remove, call
  <2> QED
    BY <2>4 DEF Atomic!AtomicNext
<1>3. ASSUME NEW t \in Threads, Inside(t)
      PROVE  Goal
  <2>1. CASE Lock(t) \/ Pass(t) \/ Wait(t) \/ SpuriousWakeup(t) \/ Unlock(t)
    <3>1. call' = call
      BY <2>1, <1>t, CallUnchanged
         DEF Lock, Pass, Wait, SpuriousWakeup, Unlock, CallOf
    <3> QED
      BY <2>1, <3>1 DEF Lock, Pass, Wait, SpuriousWakeup, Unlock
  <2>2. CASE t \in Producers /\ PushBack(t)
    <3>1. Len(buffer_) < size_
      BY <2>2 DEF BufferInv, PredicateStillTrue, PushBack, Ready
    <3>2. call[t] = "pending"
      BY <2>2, <1>c DEF PushBack, CallOf
    <3>3. call' = [call EXCEPT ![t] = "done"]
      BY <2>2, <1>t, CallChanged, CallValues, ZenonT(60) DEF PushBack
    <3>4. Atomic!Push(t)
      BY <2>2, <3>1, <3>2, <3>3 DEF Atomic!Push, PushBack, call
    <3> QED
      BY <2>2, <3>4 DEF Atomic!AtomicNext
  <2>3. CASE t \in Consumers /\ PopBack(t)
    <3>1. buffer_ # <<>>
      BY <2>3, <1>t, BufferAssumption
         DEF BufferInv, PredicateStillTrue, PopBack, Ready
    <3>2. call[t] = "pending"
      BY <2>3, <1>c DEF PopBack, CallOf
    <3>3. call' = [call EXCEPT ![t] = "done"]
      BY <2>3, <1>t, CallChanged, CallValues, ZenonT(60) DEF PopBack
    <3>4. Atomic!Pop(t)
      BY <2>3, <3>1, <3>2, <3>3 DEF Atomic!Pop, PopBack, call
    <3> QED
      BY <2>3, <3>4 DEF Atomic!AtomicNext
  <2>4. CASE NotifyAll(t)
    <3>1. call[t] = "done"
      BY <2>4, <1>c DEF NotifyAll, CallOf
    <3>2. \A s \in Threads : s # t => CallOf(pc'[s]) = CallOf(pc[s])
      BY <2>4, <1>t DEF NotifyAll, CallOf
    <3>3. CallOf(pc'[t]) = "idle"
      BY <2>4 DEF NotifyAll, CallOf
    <3>4. call' = [call EXCEPT ![t] = "idle"]
      BY <3>2, <3>3 DEF call
    <3>5. Atomic!Return(t)
      BY <2>4, <3>1, <3>4 DEF Atomic!Return, NotifyAll, call
    <3> QED
      BY <3>5 DEF Atomic!AtomicNext, Atomic!Threads, Threads
  <2> QED
    BY <1>3, <2>1, <2>2, <2>3, <2>4 DEF Inside, Step
<1>4. CASE UNCHANGED bufferVars
  BY <1>4 DEF bufferVars, call
<1> QED
  BY <1>1, <1>2, <1>3, <1>4 DEF BufferNext

\* Callers of class Buffer see an atomic bounded stack.
THEOREM RefinementTheorem == BufferSpec => LinearizesToStack
<1>1. BufferInit => Atomic!AtomicInit
  BY DEF BufferInit, Atomic!AtomicInit, CallOf, Atomic!Threads, Threads
<1> QED
  BY <1>1, RefinementStep, Invariance, PTL
     DEF BufferSpec, LinearizesToStack, Atomic!AtomicSpec
=============================================================================
