----------------------- MODULE ProducerConsumerProofs -----------------------
(***************************************************************************)
(* Proofs about the loops of example.cpp for any number of producer and    *)
(* consumer threads.  The program is a client of class Buffer like any     *)
(* other: its behaviours are behaviours of BufferSpec, so everything that  *)
(* BoundedBufferProofs shows of the class holds in the program.            *)
(***************************************************************************)
EXTENDS ProducerConsumer, BoundedBufferProofs

\* Each step of Producer::run or Consumer::run is a call of class Buffer, a
\* step inside one, or leaves the buffer alone.
LEMMA RunStep == [Next]_allVars => [BufferNext]_bufferVars
<1> SUFFICES ASSUME [Next]_allVars
             PROVE  [BufferNext]_bufferVars
  OBVIOUS
<1>1. ASSUME NEW t \in Threads, Thread(t)
      PROVE  [BufferNext]_bufferVars
  <2>1. CASE Call(t)
    BY <2>1 DEF Call, BufferNext
  <2>2. CASE InCall(t)
    BY <2>2 DEF InCall, BufferNext, Inside
  <2>3. CASE LockCout(t) \/ PrintLine(t)
    BY <2>3 DEF LockCout, PrintLine
  <2>4. CASE Awaken(t)
    BY <2>4 DEF Awaken, bufferVars
  <2> QED
    BY <1>1, <2>1, <2>2, <2>3, <2>4 DEF Thread
<1>2. ASSUME NEW t \in Threads, Spurious(t)
      PROVE  [BufferNext]_bufferVars
  BY <1>2 DEF Spurious, BufferNext, Inside
<1>3. CASE UNCHANGED allVars
  BY <1>3 DEF allVars, bufferVars
<1> QED
  BY <1>1, <1>2, <1>3 DEF Next

\* example.cpp uses class Buffer as its most general client may.
THEOREM ClientTheorem == Spec => BufferSpec
<1>1. Init => BufferInit
  BY DEF Init
<1> QED
  BY <1>1, RunStep, PTL DEF Spec, BufferSpec

\* In the program, as in the class, the buffer acts as an atomic stack.
THEOREM ProgramLinearizes == Spec => LinearizesToStack
BY ClientTheorem, RefinementTheorem, PTL

(***************************************************************************)
(* The two places where a thread's position is kept agree.                 *)
(***************************************************************************)
LoopOK ==
  /\ run \in [Threads -> RunLocations]
  /\ cout_mu \in Threads \cup {NoThread}
  /\ \A t \in Threads : run[t] = "inside" <=> pc[t] # "out"

\* The thread that prints is the owner of cout_mu, and no other is.
PrintsAlone == \A t \in Threads : run[t] = "print" <=> cout_mu = t

\* Each step of a thread keeps its loop and its call in agreement: the call is
\* over when notify_all() has been called, which wakes others but ends none of
\* their calls.
LEMMA LoopStep == BufferInv /\ LoopOK /\ [Next]_allVars => LoopOK'
<1> SUFFICES ASSUME BufferInv, LoopOK, [Next]_allVars
             PROVE  LoopOK'
  OBVIOUS
<1>t. pc \in [Threads -> Locations]
  BY DEF BufferInv, BufferTypeOK
<1> USE DEF LoopOK, RunLocations, Locations, Goto
<1>1. ASSUME NEW t \in Threads, Thread(t)
      PROVE  LoopOK'
  <2>1. CASE Call(t)
    <3>1. pc' = [pc EXCEPT ![t] = "lock"]
      BY <2>1 DEF Call, Add, Remove
    <3> QED
      BY <2>1, <3>1, <1>t DEF Call
  <2>2. CASE InCall(t)
    <3>1. CASE NotifyAll(t)
      BY <2>2, <3>1, <1>t DEF InCall, NotifyAll
    <3>2. CASE ~NotifyAll(t)
      <4>1. \E l \in Locations \ {"out"} : pc' = [pc EXCEPT ![t] = l]
        BY <2>2, <3>2
           DEF InCall, Step, Lock, Pass, Wait, PushBack, PopBack, Unlock
      <4>2. pc[t] # "notify"
        BY <2>2, <3>2
           DEF InCall, Step, Lock, Pass, Wait, PushBack, PopBack, Unlock
      <4> QED
        BY <2>2, <4>1, <4>2, <1>t DEF InCall
    <3> QED
      BY <3>1, <3>2
  <2>3. CASE LockCout(t)
    BY <2>3 DEF LockCout, bufferVars
  <2>4. CASE PrintLine(t)
    BY <2>4 DEF PrintLine, bufferVars
  <2>5. CASE Awaken(t)
    BY <2>5 DEF Awaken
  <2> QED
    BY <1>1, <2>1, <2>2, <2>3, <2>4, <2>5 DEF Thread
<1>2. ASSUME NEW t \in Threads, Spurious(t)
      PROVE  LoopOK'
  BY <1>2, <1>t DEF Spurious, SpuriousWakeup
<1>3. CASE UNCHANGED allVars
  BY <1>3 DEF allVars
<1> QED
  BY <1>1, <1>2, <1>3 DEF Next

\* A thread takes cout_mu only when it is free and gives it back when it has
\* printed, so lines are never mixed.
LEMMA PrintStep == LoopOK /\ PrintsAlone /\ [Next]_allVars => PrintsAlone'
<1> SUFFICES ASSUME LoopOK, PrintsAlone, [Next]_allVars
             PROVE  PrintsAlone'
  OBVIOUS
<1> USE BufferAssumption DEF LoopOK, PrintsAlone, Goto
<1>1. ASSUME NEW t \in Threads, Thread(t)
      PROVE  PrintsAlone'
  <2>1. CASE Call(t)
    BY <2>1 DEF Call
  <2>2. CASE InCall(t)
    BY <2>2 DEF InCall
  <2>3. CASE LockCout(t)
    BY <2>3 DEF LockCout
  <2>4. CASE PrintLine(t)
    BY <2>4 DEF PrintLine
  <2>5. CASE Awaken(t)
    BY <2>5 DEF Awaken
  <2> QED
    BY <1>1, <2>1, <2>2, <2>3, <2>4, <2>5 DEF Thread
<1>2. ASSUME NEW t \in Threads, Spurious(t)
      PROVE  PrintsAlone'
  BY <1>2 DEF Spurious
<1>3. CASE UNCHANGED allVars
  BY <1>3 DEF allVars
<1> QED
  BY <1>1, <1>2, <1>3 DEF Next

\* main() starts every thread outside Buffer and with cout_mu free.
LEMMA LoopInit == Init => LoopOK /\ PrintsAlone
BY BufferAssumption
   DEF Init, BufferInit, LoopOK, PrintsAlone, RunLocations

\* example.cpp's loops and class Buffer agree about where every thread is, and
\* one thread at a time writes to std::cout.
THEOREM LoopTheorem == Spec => [](TypeOK /\ PrintsAlone)
<1>1. BufferInv /\ LoopOK => TypeOK
  BY DEF BufferInv, LoopOK, TypeOK
<1>2. Spec => []BufferInv
  BY ClientTheorem, Invariance, PTL
<1>3. BufferInv /\ LoopOK /\ PrintsAlone /\ [Next]_allVars
        => LoopOK' /\ PrintsAlone'
  BY LoopStep, PrintStep
<1> QED
  BY <1>1, <1>2, <1>3, LoopInit, PTL DEF Spec
=============================================================================
