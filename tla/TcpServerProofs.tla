-------------------------- MODULE TcpServerProofs --------------------------
(***************************************************************************)
(* Proofs about socket_server.cpp for any number of clients, any number of *)
(* items the deque may hold and any number of consumer threads.            *)
(***************************************************************************)
EXTENDS TcpServer, BoundedBufferProofs, FiniteSetTheorems

(***************************************************************************)
(* Where the threads are.  A thread is inside class Buffer when its run()  *)
(* says so; a producer that got past read() has a message, and so has a    *)
(* consumer from pop_back() to its output.                                 *)
(***************************************************************************)
ThreadsOK ==
  /\ \A t \in Threads : stage[t] = "inside" <=> pc[t] # "out"
  /\ \A t \in Consumers : stage[t] \in {"call", "inside", "cout", "print", "sleep"}
  /\ \A t \in Producers : stage[t] \notin {"unborn", "read", "reading"}
                            => num[t] \in Items
  /\ \A t \in Consumers : pc[t] \in {"unlock", "notify"} \/ stage[t] \in {"cout", "print"}
                            => num[t] \in Items

(***************************************************************************)
(* What accept() has done so far: no client twice, one thread for each, p  *)
(* the last, and a thread's socket is one of theirs.                       *)
(***************************************************************************)
AcceptedOK ==
  /\ IsFiniteSet(Range(accepted))
  /\ Cardinality(Range(accepted)) = Len(accepted)
  /\ \A i, j \in 1 .. Len(accepted) : accepted[i] = accepted[j] => i = j
  /\ p = IF accepted = <<>> THEN NoClient ELSE accepted[Len(accepted)]
  /\ \A t \in Producers : stage[t] = "unborn" <=> t > Len(accepted)
  /\ \A t \in Threads :
       /\ fd[t] # NoClient => fd[t] \in Range(accepted)
       /\ stage[t] \in {"unborn", "read"} => fd[t] = NoClient
       /\ stage[t] = "reading" => fd[t] # NoClient

(***************************************************************************)
(* The turns of main()'s loop: the third ends it.                          *)
(***************************************************************************)
Ended(t) == t \in Producers /\ stage[t] = "done"

MainOK ==
  \/ main = "accept" /\ ~joined /\ Len(accepted) <= 1
  \/ main = "join1" /\ ~joined /\ Len(accepted) = 2
  \/ main = "join2" /\ ~joined /\ Len(accepted) = 2 /\ Ended(1)
  \/ main = "accept" /\ joined /\ Len(accepted) = 2 /\ Ended(1) /\ Ended(2)
  \/ main \in {"join1", "dead"} /\ joined /\ Len(accepted) = 3
       /\ Ended(1) /\ Ended(2)

ServerInv == BufferInv /\ TypeOK /\ ThreadsOK /\ AcceptedOK /\ MainOK

\* Before the first accept() nothing has happened.
LEMMA ServerInit == Init => ServerInv
<1> SUFFICES ASSUME Init PROVE ServerInv
  OBVIOUS
<1>1. BufferInv
  BY InitInv DEF Init
<1>2. Range(accepted) = {} /\ Len(accepted) = 0
  BY DEF Init, Range
<1>3. \A t \in Producers : t > Len(accepted)
  BY <1>2, TcpServerAssumption, FS_CardinalityType
<1>4. TypeOK
  <2>1. stage \in [Threads -> Stages]
    BY DEF Init, Stages
  <2>2. joined \in BOOLEAN /\ overtaken \in BOOLEAN
    BY Zenon DEF Init
  <2>3. accepted \in Seq(Clients) /\ consumed \in Seq(Items)
    BY DEF Init
  <2>4. BufferTypeOK
    BY <1>1 DEF BufferInv
  <2>5. unread \subseteq Clients /\ isopen \subseteq Clients
    BY DEF Init
  <2>6. main = "accept" /\ p = NoClient /\ cout_mu = NoThread
    BY DEF Init
  <2>7. /\ fd \in [Threads -> Clients \cup {NoClient}]
        /\ client \in [Clients -> {"new", "sent", "closed"}]
        /\ answer \in [Clients -> Items \cup {NoItem}]
    BY DEF Init
  <2> QED
    BY <2>1, <2>2, <2>3, <2>4, <2>5, <2>6, <2>7 DEF TypeOK
<1>5. ThreadsOK
  BY BufferAssumption DEF Init, BufferInit, ThreadsOK, Threads
<1>6. AcceptedOK
  <2>1. IsFiniteSet(Range(accepted)) /\ Cardinality(Range(accepted)) = Len(accepted)
    BY <1>2, FS_EmptySet
  <2>2. accepted = <<>> /\ p = NoClient /\ \A t \in Threads : fd[t] = NoClient
    BY DEF Init
  <2>3. \A t \in Threads : stage[t] \in {"unborn", "call"}
    BY DEF Init
  <2>4. \A t \in Producers : stage[t] = "unborn"
    BY BufferAssumption DEF Init, Threads
  <2> QED
    BY <1>2, <1>3, <2>1, <2>2, <2>3, <2>4 DEF AcceptedOK
<1>7. MainOK
  BY <1>2 DEF Init, MainOK
<1> QED
  BY <1>1, <1>4, <1>5, <1>6, <1>7 DEF ServerInv

\* A connection that is accepted is a new one, so there is a thread for it.
LEMMA ThreadForClient ==
  ASSUME TypeOK, AcceptedOK, NEW c \in Clients, c \notin Range(accepted)
  PROVE  Len(accepted) + 1 \in Producers
<1>1. Range(accepted) \cup {c} \subseteq Clients
  BY DEF TypeOK, Range
<1>2. Cardinality(Range(accepted) \cup {c}) = Len(accepted) + 1
  BY FS_AddElement DEF AcceptedOK
<1>3. Len(accepted) + 1 <= Cardinality(Clients) /\ Cardinality(Clients) \in Nat
  BY <1>1, <1>2, TcpServerAssumption, FS_Subset, FS_CardinalityType
<1>4. Len(accepted) \in Nat
  BY DEF TypeOK
<1> QED
  BY <1>3, <1>4, TcpServerAssumption

\* Each client that was accepted has its thread.
LEMMA ThreadsForAccepted ==
  ASSUME ServerInv
  PROVE  \A i \in 1 .. Len(accepted) : i \in Producers
<1>1. Range(accepted) \subseteq Clients
  BY DEF ServerInv, TypeOK, Range
<1>2. Len(accepted) <= Cardinality(Clients) /\ Cardinality(Clients) \in Nat
  BY <1>1, TcpServerAssumption, FS_Subset, FS_CardinalityType
     DEF ServerInv, AcceptedOK
<1>3. Len(accepted) \in Nat
  BY DEF ServerInv, TypeOK
<1> QED
  BY <1>2, <1>3, TcpServerAssumption

\* A thread that needs its socket finds p set.
LEMMA SocketStored ==
  ASSUME TypeOK, ThreadsOK, AcceptedOK, NEW t \in Threads,
         stage[t] \in {"read", "reading", "write", "close"}
  PROVE  t \in Producers /\ p \in Range(accepted) /\ p \in Clients
           /\ t \in 1 .. Len(accepted)
<1>1. t \in Producers
  BY DEF ThreadsOK, Threads
<1>2. ~(t > Len(accepted)) /\ t \in Nat /\ t > 0
  BY <1>1, TcpServerAssumption, FS_CardinalityType DEF AcceptedOK
<1>3. Len(accepted) \in Nat
  BY DEF TypeOK
<1>4. t \in 1 .. Len(accepted) /\ Len(accepted) \in 1 .. Len(accepted)
  BY <1>2, <1>3
<1>5. p = accepted[Len(accepted)]
  BY <1>4 DEF AcceptedOK
<1> QED
  BY <1>1, <1>4, <1>5 DEF Range, TypeOK

\* Producer::run and Consumer::run use class Buffer as any client may; read()
\* changes a message only while its thread is outside.
LEMMA ServerBufferStep ==
  ServerInv /\ [Next]_vars => BufferInv'
<1> SUFFICES ASSUME ServerInv, [Next]_vars
             PROVE  BufferInv'
  OBVIOUS
<1>1. CASE [BufferNext]_bufferVars
  BY <1>1, BufferStep DEF ServerInv
<1>2. ASSUME NEW t \in Threads, EnterRead(t) \/ FinishRead(t)
      PROVE  BufferInv'
  <2>1. t \in Producers /\ pc[t] = "out"
    BY <1>2, SocketStored DEF ServerInv, EnterRead, FinishRead, ThreadsOK
  <2>2. mu' = mu /\ buffer_' = buffer_ /\ pc' = pc
    BY <1>2 DEF EnterRead, FinishRead
  <2>3. fd[t] \in Clients \/ stage[t] # "reading"
    BY DEF ServerInv, AcceptedOK, TypeOK, Threads
  <2>4. num' = num \/ \E x \in Items : num' = [num EXCEPT ![t] = x]
    BY <1>2, <2>3, TcpServerAssumption DEF EnterRead, FinishRead
  <2>5. BufferTypeOK'
    BY <2>1, <2>2, <2>4 DEF ServerInv, BufferInv, BufferTypeOK, Threads
  <2> QED
    BY <2>2, <2>5
       DEF ServerInv, BufferInv, MutualExclusion, PredicateStillTrue, Ready,
           WithinCapacity, NoLostWakeup
<1>3. ASSUME NEW t \in Threads, Call(t)
      PROVE  [BufferNext]_bufferVars
  <2>1. t \in Producers => num[t] \in Items
    BY <1>3 DEF ServerInv, ThreadsOK, Call
  <2> QED
    BY <1>3, <2>1 DEF Call, BufferNext
<1>4. ASSUME NEW t \in Threads, InCall(t)
      PROVE  [BufferNext]_bufferVars
  BY <1>4 DEF InCall, BufferNext, Inside
<1>5. ASSUME NEW t \in Threads, Spurious(t)
      PROVE  [BufferNext]_bufferVars
  BY <1>5 DEF Spurious, BufferNext, Inside
<1>6. ASSUME NEW t \in Threads,
             LockCout(t) \/ PrintLine(t) \/ Awaken(t) \/ Write(t) \/ Close(t)
      PROVE  UNCHANGED bufferVars
  BY <1>6 DEF LockCout, PrintLine, Awaken, Write, Close
<1>7. ASSUME NEW c \in Clients, Connect(c) \/ Hangup(c) \/ Accept(c)
      PROVE  UNCHANGED bufferVars
  BY <1>7 DEF Connect, Hangup, Accept
<1>8. CASE JoinFirst \/ JoinSecond
  BY <1>8, <1>1 DEF JoinFirst, JoinSecond
<1>9. CASE UNCHANGED vars
  BY <1>9, <1>1 DEF vars
<1> QED
  BY <1>1, <1>2, <1>3, <1>4, <1>5, <1>6, <1>7, <1>8, <1>9 DEF Next, Thread

\* Every step of the clients, of main() and of a thread keeps the types.
LEMMA ServerTypeStep == ServerInv /\ [Next]_vars => TypeOK'
<1> SUFFICES ASSUME ServerInv, [Next]_vars
             PROVE  TypeOK'
  OBVIOUS
<1>b. BufferTypeOK'
  BY ServerBufferStep DEF BufferInv
<1>t. TypeOK
  BY DEF ServerInv
<1>n. num \in [Threads -> Items \cup {NoItem}]
  BY DEF ServerInv, BufferInv, BufferTypeOK
<1> USE <1>b, <1>t DEF TypeOK, Goto, Stages
<1>1. ASSUME NEW c \in Clients, Connect(c) \/ Hangup(c)
      PROVE  TypeOK'
  BY <1>1 DEF Connect, Hangup, serverVars
<1>2. ASSUME NEW c \in Clients, Accept(c)
      PROVE  TypeOK'
  <2>1. accepted' \in Seq(Clients) /\ p' \in Clients /\ isopen' \subseteq Clients
    BY <1>2 DEF Accept
  <2>2. overtaken' \in BOOLEAN
    BY <1>2, Zenon DEF Accept
  <2>3. main' \in {"accept", "join1"} /\ stage' \in [Threads -> Stages]
    BY <1>2 DEF Accept
  <2> QED
    BY <1>2, <2>1, <2>2, <2>3 DEF Accept, clientVars
<1>3. CASE JoinFirst
  BY <1>3 DEF JoinFirst, clientVars
<1>4. CASE JoinSecond
  BY <1>4 DEF JoinSecond, clientVars
<1>5. ASSUME NEW t \in Threads, EnterRead(t) \/ FinishRead(t)
      PROVE  TypeOK'
  BY <1>5, ZenonT(60) DEF EnterRead, FinishRead, clientVars
<1>6. ASSUME NEW t \in Threads, Call(t) \/ InCall(t)
      PROVE  TypeOK'
  BY <1>6 DEF Call, InCall, clientVars
<1>7. ASSUME NEW t \in Threads, LockCout(t)
      PROVE  TypeOK'
  BY <1>7 DEF LockCout, clientVars
<1>8. ASSUME NEW t \in Threads, PrintLine(t)
      PROVE  TypeOK'
  <2>1. t \in Consumers => num[t] \in Items
    BY <1>8 DEF ServerInv, ThreadsOK, PrintLine
  <2> QED
    BY <1>8, <1>n, <2>1 DEF PrintLine, clientVars
<1>9. ASSUME NEW t \in Threads, Awaken(t)
      PROVE  TypeOK'
  BY <1>9 DEF Awaken, clientVars
<1>10. ASSUME NEW t \in Threads, Write(t)
      PROVE  TypeOK'
  BY <1>10, <1>n DEF Write
<1>11. ASSUME NEW t \in Threads, Close(t)
      PROVE  TypeOK'
  BY <1>11 DEF Close, clientVars
<1>12. ASSUME NEW t \in Threads, Spurious(t)
      PROVE  TypeOK'
  BY <1>12 DEF Spurious, serverVars, clientVars
<1>13. CASE UNCHANGED vars
  BY <1>13 DEF vars, serverVars, clientVars
<1> QED
  BY <1>1, <1>2, <1>3, <1>4, <1>5, <1>6, <1>7, <1>8, <1>9, <1>10, <1>11,
     <1>12, <1>13 DEF Next, Thread

\* Every step keeps a thread's run() and its call in agreement, and only read()
\* changes a producer's message.
LEMMA ThreadsStep == ServerInv /\ [Next]_vars => ThreadsOK'
<1> SUFFICES ASSUME ServerInv, [Next]_vars
             PROVE  ThreadsOK'
  OBVIOUS
<1>p. pc \in [Threads -> Locations] /\ num \in [Threads -> Items \cup {NoItem}]
  BY DEF ServerInv, BufferInv, BufferTypeOK
<1>s. stage \in [Threads -> Stages] /\ fd \in [Threads -> Clients \cup {NoClient}]
  BY DEF ServerInv, TypeOK
<1>d. Producers \cap Consumers = {} /\ Threads = Producers \cup Consumers
  BY BufferAssumption DEF Threads
<1>o. ThreadsOK
  BY DEF ServerInv
<1> USE <1>p, <1>s, <1>d, <1>o DEF ThreadsOK, Goto
<1>1. ASSUME NEW c \in Clients, Connect(c) \/ Hangup(c)
      PROVE  ThreadsOK'
  BY <1>1 DEF Connect, Hangup, serverVars, bufferVars
<1>2. ASSUME NEW c \in Clients, Accept(c)
      PROVE  ThreadsOK'
  <2>1. Len(accepted) + 1 \in Producers
    BY <1>2, ThreadForClient DEF ServerInv, Accept
  <2>2. stage[Len(accepted) + 1] = "unborn"
    BY <2>1 DEF ServerInv, AcceptedOK, TypeOK
  <2> QED
    BY <1>2, <2>1, <2>2 DEF Accept, bufferVars
<1>3. CASE JoinFirst \/ JoinSecond
  BY <1>3 DEF JoinFirst, JoinSecond, bufferVars
<1>5. ASSUME NEW t \in Threads, EnterRead(t) \/ FinishRead(t)
      PROVE  ThreadsOK'
  <2>1. t \in Producers /\ pc' = pc
    BY <1>5, SocketStored DEF ServerInv, EnterRead, FinishRead
  <2>2. stage[t] = "reading" => fd[t] \in Clients
    BY DEF ServerInv, AcceptedOK
  <2>3. \/ stage' = [stage EXCEPT ![t] = "reading"] /\ num' = num
        \/ \E x \in Items : stage' = [stage EXCEPT ![t] = "call"]
                              /\ num' = [num EXCEPT ![t] = x]
    BY <1>5, <2>2, TcpServerAssumption DEF EnterRead, FinishRead
  <2>4. stage[t] \in {"read", "reading"}
    BY <1>5 DEF EnterRead, FinishRead
  <2> QED
    BY <2>1, <2>3, <2>4
<1>6. ASSUME NEW t \in Threads, Call(t)
      PROVE  ThreadsOK'
  <2>1. pc' = [pc EXCEPT ![t] = "lock"] /\ stage' = [stage EXCEPT ![t] = "inside"]
    BY <1>6 DEF Call, Add, Remove
  <2>2. \A s \in Threads : s \in Producers \/ s # t => num'[s] = num[s]
    BY <1>6 DEF Call, Add, Remove
  <2>3. stage[t] = "call"
    BY <1>6 DEF Call
  <2> QED
    BY <2>1, <2>2, <2>3
<1>7. ASSUME NEW t \in Threads, InCall(t)
      PROVE  ThreadsOK'
  <2>1. \A s \in Producers : num'[s] = num[s]
    BY <1>7 DEF InCall, Step, Lock, Pass, Wait, PushBack, PopBack, Unlock,
                NotifyAll
  <2>2. CASE NotifyAll(t)
    BY <1>7, <2>1, <2>2 DEF InCall, NotifyAll
  <2>4. CASE t \in Consumers /\ PopBack(t)
    <3>1. Len(buffer_) \in Nat /\ Len(buffer_) > 0 /\ buffer_ \in Seq(Items)
      BY <2>4 DEF ServerInv, BufferInv, BufferTypeOK, PredicateStillTrue, PopBack, Ready
    <3>2. buffer_[Len(buffer_)] \in Items
      BY <3>1
    <3>3. stage' = stage
      BY <1>7, <2>4 DEF InCall, PopBack
    <3> QED
      BY <1>7, <2>1, <2>4, <3>2, <3>3 DEF InCall, PopBack, Locations
  <2>3. CASE ~NotifyAll(t) /\ ~(t \in Consumers /\ PopBack(t))
    <3>1. /\ num' = num
          /\ \E l \in Locations \ {"out"} :
               /\ pc' = [pc EXCEPT ![t] = l]
               /\ t \in Consumers /\ l \in {"unlock", "notify"}
                    => pc[t] \in {"unlock", "notify"}
      BY <1>7, <2>3
         DEF InCall, Step, Lock, Pass, Wait, PushBack, Unlock, Locations
    <3>2. pc[t] # "notify"
      BY <1>7, <2>3 DEF InCall, Step, Lock, Pass, Wait, PushBack, Unlock
    <3>3. stage[t] = "inside" /\ stage' = stage
      BY <1>7, <3>2 DEF InCall
    <3> QED
      BY <3>1, <3>3
  <2> QED
    BY <2>2, <2>3, <2>4
<1>8. ASSUME NEW t \in Threads,
             LockCout(t) \/ PrintLine(t) \/ Awaken(t)
      PROVE  ThreadsOK'
  BY <1>8 DEF LockCout, PrintLine, Awaken, bufferVars
<1>9. ASSUME NEW t \in Threads, Write(t) \/ Close(t)
      PROVE  ThreadsOK'
  BY <1>9 DEF Write, Close, bufferVars
<1>10. ASSUME NEW t \in Threads, Spurious(t)
       PROVE  ThreadsOK'
  BY <1>10 DEF Spurious, SpuriousWakeup, serverVars
<1>11. CASE UNCHANGED vars
  BY <1>11 DEF vars, serverVars, bufferVars
<1> QED
  BY <1>1, <1>2, <1>3, <1>5, <1>6, <1>7, <1>8, <1>9, <1>10, <1>11
     DEF Next, Thread

\* accept() appends a client that is not there yet; no other step changes what
\* was accepted, and a thread's socket always comes from p.
LEMMA AcceptedStep == ServerInv /\ [Next]_vars => AcceptedOK'
<1> SUFFICES ASSUME ServerInv, [Next]_vars
             PROVE  AcceptedOK'
  OBVIOUS
<1>s. /\ stage \in [Threads -> Stages]
      /\ fd \in [Threads -> Clients \cup {NoClient}]
      /\ accepted \in Seq(Clients)
  BY DEF ServerInv, TypeOK
<1>d. Producers \cap Consumers = {} /\ Threads = Producers \cup Consumers
  BY BufferAssumption DEF Threads
<1>o. AcceptedOK
  BY DEF ServerInv
<1> USE <1>s, <1>d
<1>1. ASSUME NEW c \in Clients, Accept(c)
      PROVE  AcceptedOK'
  <2> DEFINE n == Len(accepted)
  <2>1. n \in Nat /\ n + 1 \in Producers /\ c \notin Range(accepted)
    BY <1>1, ThreadForClient DEF ServerInv, Accept
  <2>2. /\ accepted' = Append(accepted, c) /\ Len(accepted') = n + 1
        /\ accepted'[n + 1] = c
        /\ \A i \in 1 .. n : accepted'[i] = accepted[i]
    BY <1>1 DEF Accept
  <2>3. /\ stage[n + 1] = "unborn" /\ stage' = [stage EXCEPT ![n + 1] = "read"]
        /\ fd' = fd /\ p' = c
    BY <1>1, <1>o, <2>1 DEF Accept, Goto, AcceptedOK
  <2>4. Range(accepted') = Range(accepted) \cup {c}
    <3>1. DOMAIN accepted = 1 .. n /\ DOMAIN accepted' = 1 .. (n + 1)
      BY <2>2
    <3>2. 1 .. (n + 1) = (1 .. n) \cup {n + 1}
      BY <2>1
    <3>3. \A x \in Range(accepted') : x \in Range(accepted) \cup {c}
      BY <2>1, <2>2, <3>1, <3>2 DEF Range
    <3>4. \A x \in Range(accepted) \cup {c} : x \in Range(accepted')
      BY <2>1, <2>2, <3>1, <3>2 DEF Range
    <3> QED
      BY <3>3, <3>4
  <2>5. IsFiniteSet(Range(accepted')) /\ Cardinality(Range(accepted')) = n + 1
    <3>1. /\ IsFiniteSet(Range(accepted) \cup {c})
          /\ Cardinality(Range(accepted) \cup {c}) = n + 1
      BY <1>o, <2>1, FS_AddElement, ZenonT(60) DEF AcceptedOK
    <3> QED
      BY <2>4, <3>1
  <2>6. \A i, j \in 1 .. Len(accepted') : accepted'[i] = accepted'[j] => i = j
    <3>1. \A i \in 1 .. n : accepted[i] # c
      BY <2>1 DEF Range
    <3> QED
      BY <1>o, <2>1, <2>2, <3>1 DEF AcceptedOK
  <2>7. \A t \in Producers : stage'[t] = "unborn" <=> t > Len(accepted')
    <3>1. \A t \in Producers : t \in Nat
      BY TcpServerAssumption, FS_CardinalityType
    <3> QED
      BY <1>o, <2>1, <2>2, <2>3, <3>1 DEF AcceptedOK
  <2>8. \A t \in Threads :
          /\ fd'[t] # NoClient => fd'[t] \in Range(accepted')
          /\ stage'[t] \in {"unborn", "read"} => fd'[t] = NoClient
          /\ stage'[t] = "reading" => fd'[t] # NoClient
    BY <1>o, <2>1, <2>3, <2>4 DEF AcceptedOK
  <2>9. p' = IF accepted' = <<>> THEN NoClient ELSE accepted'[Len(accepted')]
    BY <2>2, <2>3
  <2> HIDE DEF n
  <2> QED
    BY <2>2, <2>5, <2>6, <2>7, <2>8, <2>9 DEF AcceptedOK
<1>2. ASSUME accepted' = accepted, p' = p, fd' = fd,
             stage' = stage \/ \E t \in Threads, l \in Stages :
                /\ stage' = [stage EXCEPT ![t] = l]
                /\ l \notin {"unborn", "read", "reading"}
                /\ stage[t] # "unborn"
      PROVE  AcceptedOK'
  BY <1>2, <1>o DEF AcceptedOK
<1>3. ASSUME NEW t \in Threads, EnterRead(t) \/ Write(t) \/ Close(t)
      PROVE  AcceptedOK'
  <2>1. t \in Producers /\ p \in Range(accepted) /\ p \in Clients
    BY <1>3, SocketStored DEF ServerInv, EnterRead, Write, Close
  <2>2. /\ accepted' = accepted /\ p' = p /\ fd' = [fd EXCEPT ![t] = p]
        /\ stage[t] # "unborn"
        /\ \E l \in Stages : l \notin {"unborn", "read"}
             /\ stage' = [stage EXCEPT ![t] = l]
    BY <1>3 DEF EnterRead, Write, Close, Goto, Stages
  <2> QED
    BY <1>o, <2>1, <2>2, TcpServerAssumption DEF AcceptedOK
<1>4. ASSUME NEW t \in Threads,
             FinishRead(t) \/ Call(t) \/ InCall(t) \/ LockCout(t)
               \/ PrintLine(t) \/ Awaken(t)
      PROVE  AcceptedOK'
  <2>1. accepted' = accepted /\ p' = p /\ fd' = fd
    BY <1>4 DEF FinishRead, Call, InCall, LockCout, PrintLine, Awaken
  <2>2. \E l \in Stages :
          /\ stage' = [stage EXCEPT ![t] = l]
          /\ l \notin {"unborn", "read", "reading"}
          /\ stage[t] # "unborn"
    BY <1>4 DEF FinishRead, Call, InCall, LockCout, PrintLine, Awaken, Goto,
                Stages
  <2> QED
    BY <1>2, <2>1, <2>2
<1>5. ASSUME NEW t \in Threads, Spurious(t)
      PROVE  AcceptedOK'
  BY <1>5, <1>2 DEF Spurious, serverVars
<1>6. ASSUME NEW c \in Clients, Connect(c) \/ Hangup(c)
      PROVE  AcceptedOK'
  BY <1>6, <1>2 DEF Connect, Hangup, serverVars
<1>7. CASE JoinFirst \/ JoinSecond
  BY <1>7, <1>2 DEF JoinFirst, JoinSecond
<1>8. CASE UNCHANGED vars
  BY <1>8, <1>2 DEF vars, serverVars
<1> QED
  BY <1>1, <1>3, <1>4, <1>5, <1>6, <1>7, <1>8 DEF Next, Thread

\* A thread that has ended stays so: nothing is run on it any more.
LEMMA EndedStays ==
  ASSUME ServerInv, [Next]_vars, NEW t, Ended(t)
  PROVE  Ended(t)'
<1>s. stage \in [Threads -> Stages] /\ t \in Threads
  BY DEF ServerInv, TypeOK, Ended, Threads
<1>1. ASSUME NEW s \in Threads, Thread(s)
      PROVE  Ended(t)'
  <2>1. s # t
    BY <1>1 DEF Ended, Thread, EnterRead, FinishRead, Call, InCall, LockCout,
                PrintLine, Awaken, Write, Close
  <2>2. \E l \in Stages : stage' = [stage EXCEPT ![s] = l]
    BY <1>1 DEF Thread, EnterRead, FinishRead, Call, InCall, LockCout,
                PrintLine, Awaken, Write, Close, Goto, Stages
  <2> QED
    BY <1>s, <2>1, <2>2 DEF Ended
<1>2. ASSUME NEW c \in Clients, Accept(c)
      PROVE  Ended(t)'
  <2>1. Len(accepted) + 1 \in Producers
    BY <1>2, ThreadForClient DEF ServerInv, Accept
  <2>2. stage[Len(accepted) + 1] = "unborn"
    BY <2>1 DEF ServerInv, AcceptedOK, TypeOK
  <2> QED
    BY <1>2, <1>s, <2>2 DEF Ended, Accept, Goto
<1>3. ASSUME NEW s \in Threads, Spurious(s)
      PROVE  Ended(t)'
  BY <1>3 DEF Spurious, serverVars, Ended
<1>4. ASSUME NEW c \in Clients, Connect(c) \/ Hangup(c)
      PROVE  Ended(t)'
  BY <1>4 DEF Connect, Hangup, serverVars, Ended
<1>5. CASE JoinFirst \/ JoinSecond
  BY <1>5 DEF JoinFirst, JoinSecond, Ended
<1>6. CASE UNCHANGED vars
  BY <1>6 DEF vars, serverVars, Ended
<1> QED
  BY <1>1, <1>2, <1>3, <1>4, <1>5, <1>6 DEF Next

\* main() goes through its turns in order: it waits for the first two threads
\* after the second client and throws after the third.
LEMMA MainStep == ServerInv /\ [Next]_vars => MainOK'
<1> SUFFICES ASSUME ServerInv, [Next]_vars
             PROVE  MainOK'
  OBVIOUS
<1>n. Len(accepted) \in Nat /\ joined \in BOOLEAN
  BY DEF ServerInv, TypeOK
<1>e. Ended(1) => Ended(1)'
  BY EndedStays
<1>f. Ended(2) => Ended(2)'
  BY EndedStays
<1>o. MainOK
  BY DEF ServerInv
<1>1. ASSUME NEW c \in Clients, Accept(c)
      PROVE  MainOK'
  <2>1. Len(accepted') = Len(accepted) + 1
    BY <1>1 DEF Accept, ServerInv, TypeOK
  <2> QED
    BY <1>1, <1>n, <1>e, <1>f, <1>o, <2>1, SMTT(30) DEF Accept, MainOK
<1>2. CASE JoinFirst
  <2>1. Len(accepted) >= 2 => 1 \in Producers
    BY <1>n, ThreadsForAccepted
  <2> QED
    BY <1>2, <1>n, <1>e, <1>f, <1>o, <2>1 DEF JoinFirst, MainOK, Ended
<1>3. CASE JoinSecond
  <2>1. Len(accepted) >= 2 => 2 \in Producers
    BY <1>n, ThreadsForAccepted
  <2> QED
    BY <1>3, <1>n, <1>e, <1>f, <1>o, <2>1 DEF JoinSecond, MainOK, Ended
<1>4. CASE main' = main /\ joined' = joined /\ accepted' = accepted
  BY <1>4, <1>e, <1>f, <1>o DEF MainOK
<1>5. ASSUME NEW t \in Threads, Thread(t)
      PROVE  main' = main /\ joined' = joined /\ accepted' = accepted
  BY <1>5 DEF Thread, EnterRead, FinishRead, Call, InCall, LockCout,
              PrintLine, Awaken, Write, Close
<1>6. ASSUME NEW t \in Threads, Spurious(t)
      PROVE  main' = main /\ joined' = joined /\ accepted' = accepted
  BY <1>6 DEF Spurious, serverVars
<1>7. ASSUME NEW c \in Clients, Connect(c) \/ Hangup(c)
      PROVE  main' = main /\ joined' = joined /\ accepted' = accepted
  BY <1>7 DEF Connect, Hangup, serverVars
<1>8. CASE UNCHANGED vars
  BY <1>8, <1>4 DEF vars, serverVars
<1> QED
  BY <1>1, <1>2, <1>3, <1>4, <1>5, <1>6, <1>7, <1>8 DEF Next

\* The invariant of the server holds in every behaviour.
THEOREM ServerInvTheorem == Spec => []ServerInv
<1>1. ServerInv /\ [Next]_vars => ServerInv'
  BY ServerBufferStep, ServerTypeStep, ThreadsStep, AcceptedStep, MainStep
     DEF ServerInv
<1> QED
  BY <1>1, ServerInit, PTL DEF Spec

\* socket_server.cpp dies only when main() joins the first two threads a second
\* time, in the turn of the third client, and both have ended by then.
THEOREM DiesTheorem == Spec => []DiesInThirdTurn
<1>1. ServerInv => DiesInThirdTurn
  BY DEF ServerInv, MainOK, DiesInThirdTurn, Ended
<1> QED
  BY <1>1, ServerInvTheorem, PTL

\* Only the second accept() of socket_server.cpp stores a socket over one that
\* a running thread still needs.
THEOREM OvertakesTheorem == Spec => OnlySecondAcceptOvertakes
<1>1. ServerInv /\ [Next]_vars
        => [overtaken' # overtaken => Len(accepted) = 1]_vars
  <2> SUFFICES ASSUME ServerInv, Next, overtaken' # overtaken
               PROVE  Len(accepted) = 1
    OBVIOUS
  <2>1. PICK c \in Clients : Accept(c)
    BY DEF Next, Connect, Hangup, JoinFirst, JoinSecond, Thread, EnterRead,
           FinishRead, Call, InCall, LockCout, PrintLine, Awaken, Write, Close,
           Spurious, serverVars
  <2>2. PICK s \in 1 .. Len(accepted) : stage[s] # "done"
    BY <2>1 DEF Accept, ServerInv, TypeOK
  <2>3. Len(accepted) \in Nat
    BY DEF ServerInv, TypeOK
  <2>4. main = "accept" /\ MainOK
    BY <2>1 DEF Accept, ServerInv
  <2>5. Len(accepted) <= 1 \/ (Len(accepted) = 2 /\ Ended(1) /\ Ended(2))
    BY <2>4 DEF MainOK
  <2>6. CASE Len(accepted) = 2 /\ Ended(1) /\ Ended(2)
    <3>1. s = 1 \/ s = 2
      BY <2>6
    <3> QED
      BY <2>2, <2>6, <3>1 DEF Ended
  <2> QED
    BY <2>2, <2>3, <2>5, <2>6
<1> QED
  BY <1>1, ServerInvTheorem, PTL DEF Spec, OnlySecondAcceptOvertakes

----------------------------------------------------------------------------
(***************************************************************************)
(* While p has not been overwritten too early: the one thread that still   *)
(* needs a socket finds its own in p, open and, before read(), with its    *)
(* request unread; so what it read, and answers, is its client's request.  *)
(***************************************************************************)
Waiting == \A c \in Clients :
             client[c] # "new" /\ c \notin Range(accepted) => c \in unread

OwnSocket(t) ==
  /\ stage[t] \notin {"unborn", "done"} => p = accepted[t] /\ p \in isopen
  /\ fd[t] # NoClient => fd[t] = accepted[t]
  /\ stage[t] \in {"read", "reading"} => accepted[t] \in unread
  /\ stage[t] \in {"call", "inside", "cout", "print", "sleep", "write"}
       => num[t] = accepted[t]

OwnOK ==
  /\ Waiting
  /\ ~overtaken => /\ \A t \in Producers : OwnSocket(t)
                   /\ \A c \in Clients : answer[c] \in {NoItem, c}

\* No step before a thread's read() takes the request of a client that waits.
LEMMA WaitingStep == ServerInv /\ Waiting /\ [Next]_vars => Waiting'
<1> SUFFICES ASSUME ServerInv, Waiting, [Next]_vars
             PROVE  Waiting'
  OBVIOUS
<1>t. client \in [Clients -> {"new", "sent", "closed"}] /\ accepted \in Seq(Clients)
  BY DEF ServerInv, TypeOK
<1> USE <1>t DEF Waiting
<1>1. ASSUME NEW c \in Clients, Connect(c) \/ Hangup(c)
      PROVE  Waiting'
  BY <1>1 DEF Connect, Hangup, serverVars
<1>2. ASSUME NEW c \in Clients, Accept(c)
      PROVE  Waiting'
  <2>1. \A x \in Range(accepted) : x \in Range(accepted')
    <3>1. accepted' = Append(accepted, c)
      BY <1>2 DEF Accept
    <3> QED
      BY <3>1 DEF Range
  <2> QED
    BY <1>2, <2>1 DEF Accept, clientVars
<1>3. ASSUME NEW t \in Threads, FinishRead(t)
      PROVE  Waiting'
  <2>1. fd[t] \in Range(accepted)
    BY <1>3 DEF FinishRead, ServerInv, AcceptedOK
  <2> QED
    BY <1>3, <2>1 DEF FinishRead, clientVars
<1>4. CASE UNCHANGED <<client, accepted, unread>>
  BY <1>4
<1>5. ASSUME NEW t \in Threads, Thread(t), ~FinishRead(t)
      PROVE  UNCHANGED <<client, accepted, unread>>
  BY <1>5 DEF Thread, EnterRead, Call, InCall, LockCout, PrintLine, Awaken,
              Write, Close, clientVars
<1>6. ASSUME NEW t \in Threads, Spurious(t)
      PROVE  UNCHANGED <<client, accepted, unread>>
  BY <1>6 DEF Spurious, serverVars, clientVars
<1>7. CASE JoinFirst \/ JoinSecond
  BY <1>7 DEF JoinFirst, JoinSecond, clientVars
<1>8. CASE UNCHANGED vars
  BY <1>8 DEF vars, serverVars, clientVars
<1> QED
  BY <1>1, <1>2, <1>3, <1>4, <1>5, <1>6, <1>7, <1>8 DEF Next

\* A step of thread t that leaves every socket, request and message alone and
\* goes on in run() keeps every thread with its own client.
LEMMA OwnGoesOn ==
  ASSUME ServerInv, NEW t \in Threads, \A s \in Producers : OwnSocket(s),
         UNCHANGED <<p, accepted, fd, unread, isopen>>,
         \A s \in Producers : num'[s] = num[s],
         stage' = stage \/ \E l \in Stages :
            /\ stage' = [stage EXCEPT ![t] = l]
            /\ l \notin {"unborn", "read", "reading", "done"}
            /\ stage[t] \in {"call", "inside", "cout", "print", "sleep"}
  PROVE  \A s \in Producers : OwnSocket(s)'
<1>1. stage \in [Threads -> Stages] /\ Producers \subseteq Threads
  BY DEF ServerInv, TypeOK, Threads
<1> QED
  BY <1>1 DEF OwnSocket, Stages

\* accept() that finds no thread running gives its thread its own client.
LEMMA OwnAccept ==
  ASSUME ServerInv, OwnOK, ~overtaken, NEW c \in Clients, Accept(c), ~overtaken'
  PROVE  \A t \in Producers : OwnSocket(t)'
<1>0. Len(accepted) \in Nat /\ Len(accepted) + 1 \in Producers
  BY ThreadForClient DEF ServerInv, Accept, TypeOK
<1>1. PICK k \in Producers : k = Len(accepted) + 1
  BY <1>0
<1>2. /\ accepted' = Append(accepted, c) /\ accepted'[k] = c
      /\ \A i \in 1 .. k - 1 : accepted'[i] = accepted[i]
  BY <1>0, <1>1 DEF Accept, ServerInv, TypeOK
<1>3. /\ p' = c /\ c \in isopen' /\ fd' = fd /\ unread' = unread /\ num' = num
      /\ stage' = [stage EXCEPT ![k] = "read"]
  BY <1>1 DEF Accept, Goto, bufferVars
<1>4. \A s \in 1 .. k - 1 : stage[s] = "done"
  <2>1. overtaken' = (overtaken \/ \E s \in 1 .. k - 1 : stage[s] # "done")
    BY <1>1, Zenon DEF Accept
  <2> QED
    BY <2>1, Zenon
<1>5. stage \in [Threads -> Stages] /\ Producers \subseteq Threads
      /\ stage[k] = "unborn" /\ fd[k] = NoClient
  BY <1>0, <1>1 DEF ServerInv, TypeOK, Threads, AcceptedOK
<1>6. ASSUME NEW t \in Producers, t < k
      PROVE  OwnSocket(t)'
  <2>1. t \in 1 .. k - 1
    BY <1>0, <1>1, <1>6, TcpServerAssumption, FS_CardinalityType
  <2>2. OwnSocket(t)
    BY DEF OwnOK
  <2>3. stage'[t] = "done" /\ fd'[t] = fd[t] /\ accepted'[t] = accepted[t]
    BY <1>2, <1>3, <1>4, <1>5, <1>6, <2>1
  <2> QED
    BY <2>2, <2>3 DEF OwnSocket
<1>7. OwnSocket(k)'
  <2>1. c \in unread
    BY DEF OwnOK, Waiting, Accept
  <2>2. stage'[k] = "read" /\ fd'[k] = NoClient
    BY <1>3, <1>5
  <2> QED
    BY <1>2, <1>3, <2>1, <2>2 DEF OwnSocket
<1>8. ASSUME NEW t \in Producers, t > k
      PROVE  OwnSocket(t)'
  <2>1. t \in Nat
    BY TcpServerAssumption, FS_CardinalityType
  <2>2. stage[t] = "unborn" /\ fd[t] = NoClient
    BY <1>0, <1>1, <1>5, <1>8, <2>1 DEF ServerInv, AcceptedOK
  <2>3. stage'[t] = "unborn" /\ fd'[t] = NoClient
    BY <1>0, <1>1, <1>3, <1>5, <1>8, <2>1, <2>2
  <2> QED
    BY <2>3 DEF OwnSocket
<1>9. \A t \in Producers : t < k \/ t = k \/ t > k
  BY TcpServerAssumption, FS_CardinalityType
<1> QED
  BY <1>6, <1>7, <1>8, <1>9

\* read() of a thread on its own socket finds it open and the request there.
LEMMA OwnRead ==
  ASSUME ServerInv, OwnOK, ~overtaken, NEW t \in Threads,
         EnterRead(t) \/ FinishRead(t)
  PROVE  \A s \in Producers : OwnSocket(s)'
<1>1. t \in Producers /\ t \in 1 .. Len(accepted)
  BY SocketStored DEF ServerInv, EnterRead, FinishRead
<1>2. stage \in [Threads -> Stages] /\ Producers \subseteq Threads
      /\ fd \in [Threads -> Clients \cup {NoClient}] /\ accepted \in Seq(Clients)
  BY DEF ServerInv, TypeOK, Threads
<1>n. num \in [Threads -> Items \cup {NoItem}]
  BY DEF ServerInv, BufferInv, BufferTypeOK
<1>3. \A s \in Producers : OwnSocket(s)
  BY DEF OwnOK
<1>4. p = accepted[t] /\ p \in isopen /\ accepted[t] \in unread
  BY <1>1, <1>3 DEF OwnSocket, EnterRead, FinishRead
<1>5. CASE EnterRead(t)
  <2>1. fd' = [fd EXCEPT ![t] = p] /\ stage' = [stage EXCEPT ![t] = "reading"]
          /\ UNCHANGED <<p, accepted, unread, isopen, num>>
    BY <1>4, <1>5 DEF EnterRead, Goto
  <2>2. stage[t] = "read"
    BY <1>5 DEF EnterRead
  <2> QED
    BY <1>1, <1>2, <1>3, <1>4, <2>1, <2>2 DEF OwnSocket
<1>6. CASE FinishRead(t)
  <2>1. fd[t] = accepted[t] /\ stage[t] = "reading"
    BY <1>1, <1>2, <1>3, <1>6 DEF OwnSocket, FinishRead, ServerInv, AcceptedOK
  <2>2. unread' = unread \ {accepted[t]} /\ num' = [num EXCEPT ![t] = accepted[t]]
          /\ stage' = [stage EXCEPT ![t] = "call"]
          /\ UNCHANGED <<p, accepted, fd, isopen>>
    BY <1>4, <1>6, <2>1 DEF FinishRead, Goto
  <2>3. \A s \in Producers : stage[s] \in {"read", "reading"} /\ s # t
                              => accepted[s] # accepted[t]
    <3> SUFFICES ASSUME NEW s \in Producers, stage[s] \in {"read", "reading"}, s # t
                 PROVE  accepted[s] # accepted[t]
      OBVIOUS
    <3>1. s \in 1 .. Len(accepted)
      BY <1>2, SocketStored DEF ServerInv
    <3> QED
      BY <1>1, <3>1 DEF ServerInv, AcceptedOK
  <2>4. OwnSocket(t)'
    BY <1>1, <1>2, <1>n, <1>3, <1>4, <2>1, <2>2 DEF OwnSocket
  <2>5. ASSUME NEW s \in Producers, s # t
        PROVE  OwnSocket(s)'
    <3>1. stage'[s] = stage[s] /\ num'[s] = num[s]
      BY <1>2, <1>n, <2>2, <2>5
    <3> QED
      BY <1>3, <2>2, <2>3, <2>5, <3>1 DEF OwnSocket
  <2> QED
    BY <2>4, <2>5
<1> QED
  BY <1>5, <1>6

\* write() and close() of a thread act on its own socket.
LEMMA OwnAnswer ==
  ASSUME ServerInv, OwnOK, ~overtaken, NEW t \in Threads, Write(t) \/ Close(t)
  PROVE  /\ \A s \in Producers : OwnSocket(s)'
         /\ \A c \in Clients : answer'[c] \in {NoItem, c}
<1>1. t \in Producers /\ t \in 1 .. Len(accepted) /\ p \in Clients
  BY SocketStored DEF ServerInv, Write, Close
<1>2. /\ stage \in [Threads -> Stages] /\ Producers \subseteq Threads
      /\ fd \in [Threads -> Clients \cup {NoClient}] /\ accepted \in Seq(Clients)
      /\ answer \in [Clients -> Items \cup {NoItem}]
  BY DEF ServerInv, TypeOK, Threads
<1>3. \A s \in Producers : OwnSocket(s)
  BY DEF OwnOK
<1>4. p = accepted[t]
  BY <1>1, <1>3 DEF OwnSocket, Write, Close
<1>5. CASE Write(t)
  <2>1. num[t] = accepted[t] /\ stage[t] = "write"
    BY <1>1, <1>3, <1>5 DEF OwnSocket, Write
  <2>2. /\ fd' = [fd EXCEPT ![t] = p] /\ stage' = [stage EXCEPT ![t] = "close"]
        /\ UNCHANGED <<p, accepted, unread, isopen, num>>
    BY <1>5 DEF Write, Goto, bufferVars
  <2>3. \A c \in Clients : answer'[c] \in {answer[c], NoItem, c}
    BY <1>1, <1>2, <1>4, <1>5, <2>1 DEF Write
  <2>4. \A s \in Producers : OwnSocket(s)'
    BY <1>1, <1>2, <1>3, <1>4, <2>1, <2>2 DEF OwnSocket
  <2> QED
    BY <2>3, <2>4 DEF OwnOK
<1>6. CASE Close(t)
  <2>1. /\ fd' = [fd EXCEPT ![t] = p] /\ stage' = [stage EXCEPT ![t] = "done"]
        /\ isopen' = isopen \ {p} /\ stage[t] = "close"
        /\ UNCHANGED <<p, accepted, unread, num, answer>>
    BY <1>6 DEF Close, Goto, clientVars, bufferVars
  <2>2. ASSUME NEW s \in Producers, stage[s] \notin {"unborn", "done"}
        PROVE  s = t
    <3>1. p = accepted[s]
      BY <1>3, <2>2 DEF OwnSocket
    <3>2. s \in Nat /\ s > 0 /\ ~(s > Len(accepted)) /\ Len(accepted) \in Nat
      BY <2>2, <1>2, TcpServerAssumption, FS_CardinalityType DEF ServerInv, AcceptedOK
    <3>3. s \in 1 .. Len(accepted)
      BY <3>2
    <3> QED
      BY <1>1, <1>4, <3>1, <3>3 DEF ServerInv, AcceptedOK
  <2>3. \A s \in Producers : OwnSocket(s)'
    BY <1>1, <1>2, <1>3, <1>4, <2>1, <2>2 DEF OwnSocket
  <2> QED
    BY <2>1, <2>3 DEF OwnOK
<1> QED
  BY <1>5, <1>6

\* Every step keeps each thread with its own client until p is overtaken.
LEMMA OwnStep == ServerInv /\ OwnOK /\ [Next]_vars => OwnOK'
<1> SUFFICES ASSUME ServerInv, OwnOK, [Next]_vars
             PROVE  OwnOK'
  OBVIOUS
<1>w. Waiting'
  BY WaitingStep DEF OwnOK
<1> DEFINE Own == /\ \A t \in Producers : OwnSocket(t)'
                  /\ \A c \in Clients : answer'[c] \in {NoItem, c}
<1> SUFFICES ASSUME ~overtaken' PROVE Own
  BY <1>w DEF OwnOK
<1>o. ~overtaken
  BY DEF Next, Connect, Hangup, Accept, JoinFirst, JoinSecond, Thread,
         EnterRead, FinishRead, Call, InCall, LockCout, PrintLine, Awaken,
         Write, Close, Spurious, vars, serverVars
<1>h. \A s \in Producers : OwnSocket(s)
  BY <1>o DEF OwnOK
<1>a. \A c \in Clients : answer[c] \in {NoItem, c}
  BY <1>o DEF OwnOK
<1>1. ASSUME NEW c \in Clients, Accept(c)
      PROVE  Own
  BY <1>1, <1>o, <1>a, OwnAccept DEF Accept, clientVars
<1>2. ASSUME NEW t \in Threads, EnterRead(t) \/ FinishRead(t)
      PROVE  Own
  <2>1. answer' = answer
    BY <1>2 DEF EnterRead, FinishRead, clientVars
  <2> QED
    BY <1>2, <1>o, <1>a, <2>1, OwnRead
<1>3. ASSUME NEW t \in Threads, Write(t) \/ Close(t)
      PROVE  Own
  BY <1>3, <1>o, OwnAnswer
<1>4. ASSUME NEW t \in Threads,
             Call(t) \/ InCall(t) \/ LockCout(t) \/ PrintLine(t) \/ Awaken(t)
      PROVE  Own
  <2>1. answer' = answer /\ UNCHANGED <<p, accepted, fd, unread, isopen>>
    BY <1>4 DEF Call, InCall, LockCout, PrintLine, Awaken, clientVars
  <2>2. \A s \in Producers : num'[s] = num[s]
    <3>1. \A s \in Producers : s \in Threads /\ s \notin Consumers
      BY BufferAssumption DEF Threads
    <3>2. num \in [Threads -> Items \cup {NoItem}]
      BY DEF ServerInv, BufferInv, BufferTypeOK
    <3> QED
      BY <1>4, <3>1, <3>2
         DEF Call, InCall, LockCout, PrintLine, Awaken, Add, Remove, Step,
             Lock, Pass, Wait, PushBack, PopBack, Unlock, NotifyAll, bufferVars
  <2>3. \E l \in Stages :
          /\ stage' = [stage EXCEPT ![t] = l]
          /\ l \notin {"unborn", "read", "reading", "done"}
          /\ stage[t] \in {"call", "inside", "cout", "print", "sleep"}
    BY <1>4 DEF Call, InCall, LockCout, PrintLine, Awaken, Goto, Stages
  <2> QED
    BY <1>h, <1>a, <2>1, <2>2, <2>3, OwnGoesOn
<1>5. CASE UNCHANGED <<p, accepted, fd, unread, isopen, num, stage, answer>>
  BY <1>5, <1>h, <1>a DEF OwnSocket
<1>6. ASSUME NEW c \in Clients, Connect(c)
      PROVE  Own
  BY <1>6, <1>h, <1>a DEF Connect, OwnSocket, bufferVars
<1>7. ASSUME NEW c \in Clients, Hangup(c)
      PROVE  Own
  BY <1>7, <1>5 DEF Hangup, serverVars, bufferVars
<1>8. ASSUME NEW t \in Threads, Spurious(t)
      PROVE  Own
  BY <1>8, <1>5 DEF Spurious, SpuriousWakeup, serverVars, clientVars
<1>9. CASE JoinFirst \/ JoinSecond
  BY <1>9, <1>5 DEF JoinFirst, JoinSecond, clientVars, bufferVars
<1>10. CASE UNCHANGED vars
  BY <1>10, <1>5 DEF vars, serverVars, clientVars, bufferVars
<1> QED
  BY <1>1, <1>2, <1>3, <1>4, <1>6, <1>7, <1>8, <1>9, <1>10 DEF Next, Thread

\* socket_server.cpp: as long as no accept() overwrote p too early, every
\* thread uses its own client's socket and answers its own client's request.
THEOREM OwnClientTheorem == Spec => []OwnClientUnlessOvertaken
<1>1. Init => OwnOK
  <2>1. \A t \in Producers : t \in Threads /\ t \notin Consumers
    BY BufferAssumption DEF Threads
  <2> QED
    BY <2>1 DEF Init, OwnOK, Waiting, OwnSocket
<1>2. OwnOK => OwnClientUnlessOvertaken
  BY DEF OwnOK, OwnSocket, OwnClientUnlessOvertaken
<1> QED
  BY <1>1, <1>2, OwnStep, ServerInvTheorem, PTL DEF Spec

----------------------------------------------------------------------------
(***************************************************************************)
(* Where the request of a client is, without counting: every step leaves   *)
(* it there or moves it to the next place.                                 *)
(***************************************************************************)
Carries(t) ==
  IF t \in Producers
  THEN stage[t] = "call" \/ pc[t] \in {"lock", "test", "wait", "act"}
  ELSE pc[t] \in {"unlock", "notify"} \/ stage[t] \in {"cout", "print"}

Places(seq, c) == {i \in DOMAIN seq : seq[i] = c}

Nowhere(c) == /\ c \notin unread /\ Holders(c) = {}
              /\ Places(buffer_, c) = {} /\ Places(consumed, c) = {}

OnePlace(c) ==
  \/ /\ c \in unread /\ Holders(c) = {}
     /\ Places(buffer_, c) = {} /\ Places(consumed, c) = {}
  \/ /\ c \notin unread /\ \E t : Holders(c) = {t}
     /\ Places(buffer_, c) = {} /\ Places(consumed, c) = {}
  \/ /\ c \notin unread /\ Holders(c) = {}
     /\ \E i : Places(buffer_, c) = {i}
     /\ Places(consumed, c) = {}
  \/ /\ c \notin unread /\ Holders(c) = {}
     /\ Places(buffer_, c) = {} /\ \E i : Places(consumed, c) = {i}

PlacesOK == \A c \in Clients : IF client[c] = "new" THEN Nowhere(c) ELSE OnePlace(c)

\* What push_back and the consumer's output do to the places of a request.
LEMMA PlacesAppend ==
  ASSUME NEW S, NEW seq \in Seq(S), NEW x \in S, NEW c
  PROVE  Places(Append(seq, x), c) =
           IF x = c THEN Places(seq, c) \cup {Len(seq) + 1} ELSE Places(seq, c)
<1> DEFINE n == Len(seq)
           app == Append(seq, x)
<1>1. n \in Nat /\ DOMAIN seq = 1 .. n
  OBVIOUS
<1>2. DOMAIN app = 1 .. n + 1 /\ app[n + 1] = x
  OBVIOUS
<1>3. \A i \in 1 .. n : app[i] = seq[i]
  OBVIOUS
<1> HIDE DEF n, app
<1>4. \A i : i \in 1 .. n + 1 <=> i \in 1 .. n \/ i = n + 1
  BY <1>1
<1>5. ~(n + 1 \in 1 .. n)
  BY <1>1
<1>6. \A i : i \in Places(app, c) <=> (i \in Places(seq, c) \/ (i = n + 1 /\ x = c))
  BY <1>1, <1>2, <1>3, <1>4, <1>5 DEF Places
<1>7. Places(app, c) = IF x = c THEN Places(seq, c) \cup {n + 1} ELSE Places(seq, c)
  BY <1>6
<1> QED
  BY <1>7 DEF n, app

\* What pop_back does to them.
LEMMA PlacesPop ==
  ASSUME NEW S, NEW seq \in Seq(S), Len(seq) > 0, NEW c
  PROVE  /\ Places(SubSeq(seq, 1, Len(seq) - 1), c) = Places(seq, c) \ {Len(seq)}
         /\ Len(seq) \in Places(seq, c) <=> seq[Len(seq)] = c
<1> DEFINE n == Len(seq)
           front == SubSeq(seq, 1, Len(seq) - 1)
<1>1. n \in Nat /\ n > 0 /\ DOMAIN seq = 1 .. n
  OBVIOUS
<1>2. DOMAIN front = 1 .. n - 1 /\ \A i \in 1 .. n - 1 : front[i] = seq[i]
  OBVIOUS
<1> HIDE DEF n, front
<1>3. \A i : i \in 1 .. n - 1 <=> (i \in 1 .. n /\ i # n)
  BY <1>1
<1>4. Places(front, c) = Places(seq, c) \ {n}
  BY <1>1, <1>2, <1>3 DEF Places
<1>5. n \in Places(seq, c) <=> seq[n] = c
  BY <1>1 DEF Places
<1> QED
  BY <1>4, <1>5 DEF n, front

\* A step that changes no holder moves no request.
LEMMA NothingMoves ==
  ASSUME PlacesOK, UNCHANGED <<unread, buffer_, consumed>>,
         \A c \in Clients : client'[c] = "new" <=> client[c] = "new",
         \A t \in Threads, c \in Clients :
           (num'[t] = c /\ Carries(t)') <=> (num[t] = c /\ Carries(t))
  PROVE  PlacesOK'
<1>1. \A c \in Clients : Holders(c)' = Holders(c)
  BY DEF Holders, Carries
<1> QED
  BY <1>1, ZenonT(60) DEF PlacesOK, Nowhere, OnePlace

\* What the proofs below use of the types.
LEMMA PlaceTypes ==
  ASSUME ServerInv
  PROVE  /\ Producers \cap Consumers = {} /\ Threads = Producers \cup Consumers
         /\ Garbage \notin Clients /\ NoItem \notin Clients
         /\ pc \in [Threads -> Locations] /\ stage \in [Threads -> Stages]
         /\ num \in [Threads -> Items \cup {NoItem}]
         /\ client \in [Clients -> {"new", "sent", "closed"}]
         /\ buffer_ \in Seq(Items) /\ consumed \in Seq(Items)
BY BufferAssumption, TcpServerAssumption
   DEF ServerInv, TypeOK, BufferInv, BufferTypeOK, Threads

\* read() takes a request from its socket to its thread, which had none.
LEMMA ReadMoves ==
  ASSUME ServerInv, PlacesOK, NEW t \in Threads, EnterRead(t) \/ FinishRead(t)
  PROVE  PlacesOK'
<1>1. t \in Producers /\ pc[t] = "out" /\ stage[t] \in {"read", "reading"}
  BY SocketStored DEF ServerInv, EnterRead, FinishRead, ThreadsOK
<1>2. ~Carries(t)
  BY <1>1 DEF Carries
<1>3. UNCHANGED <<client, buffer_, consumed, pc>>
  BY DEF EnterRead, FinishRead, clientVars
<1>4. \A s \in Threads : s # t => stage'[s] = stage[s] /\ num'[s] = num[s]
  BY PlaceTypes DEF EnterRead, FinishRead, Goto
<1>5. \A s \in Threads : s # t => (Carries(s)' <=> Carries(s))
  BY <1>3, <1>4 DEF Carries
<1>6. CASE /\ unread' = unread
           /\ \/ num' = num /\ stage' = [stage EXCEPT ![t] = "reading"]
              \/ num' = [num EXCEPT ![t] = Garbage]
  <2>1. \A c \in Clients : ~(num'[t] = c /\ Carries(t)')
    BY <1>1, <1>3, <1>6, PlaceTypes DEF Carries
  <2> QED
    BY <1>2, <1>3, <1>4, <1>5, <1>6, <2>1, NothingMoves
<1>7. CASE FinishRead(t) /\ fd[t] \in unread
  <2>1. /\ unread' = unread \ {fd[t]} /\ num' = [num EXCEPT ![t] = fd[t]]
        /\ stage' = [stage EXCEPT ![t] = "call"]
    BY <1>7 DEF FinishRead, Goto
  <2>2. num'[t] = fd[t] /\ Carries(t)'
    BY <1>1, <2>1, PlaceTypes DEF Carries
  <2>3. \A c \in Clients : Holders(c)' = IF c = fd[t] THEN Holders(c) \cup {t}
                                                     ELSE Holders(c)
    BY <1>2, <1>4, <1>5, <2>2 DEF Holders, Carries
  <2> QED
    BY <1>3, <1>7, <2>1, <2>3 DEF PlacesOK, Nowhere, OnePlace
<1>8. CASE ~(FinishRead(t) /\ fd[t] \in unread)
  BY <1>6, <1>8 DEF EnterRead, FinishRead, Goto
<1> QED
  BY <1>7, <1>8

\* push_back takes a request from a producer to the deque.
LEMMA PushMoves ==
  ASSUME ServerInv, PlacesOK, NEW t \in Producers, InCall(t), PushBack(t)
  PROVE  PlacesOK'
<1>1. /\ stage[t] = "inside" /\ stage' = stage /\ pc[t] = "act" /\ t \in Threads
      /\ pc' = [pc EXCEPT ![t] = "unlock"] /\ num' = num
      /\ buffer_' = Append(buffer_, num[t])
      /\ UNCHANGED <<client, unread, consumed>>
  BY PlaceTypes DEF InCall, PushBack, Goto, clientVars
<1>2. num[t] \in Items
  BY <1>1 DEF ServerInv, ThreadsOK
<1>3. Carries(t) /\ ~Carries(t)'
  BY <1>1, PlaceTypes DEF Carries
<1>4. \A s \in Threads : s # t => (Carries(s)' <=> Carries(s))
  BY <1>1, PlaceTypes DEF Carries
<1>5. \A c \in Clients : Holders(c)' = IF c = num[t] THEN Holders(c) \ {t}
                                                  ELSE Holders(c)
  BY <1>1, <1>3, <1>4 DEF Holders, Carries
<1>6. \A c \in Clients : c = num[t] => t \in Holders(c)
  BY <1>1, <1>3 DEF Holders, Carries
<1>7. \A c \in Clients : Places(buffer_', c) =
         IF num[t] = c THEN Places(buffer_, c) \cup {Len(buffer_) + 1}
                       ELSE Places(buffer_, c)
  BY <1>1, <1>2, PlaceTypes, PlacesAppend
<1>8. ASSUME NEW c \in Clients, c # num[t]
      PROVE  IF client'[c] = "new" THEN Nowhere(c)' ELSE OnePlace(c)'
  <2>1. Holders(c)' = Holders(c) /\ Places(buffer_', c) = Places(buffer_, c)
    BY <1>5, <1>7, <1>8
  <2> QED
    BY <1>1, <2>1 DEF PlacesOK, Nowhere, OnePlace
<1>9. ASSUME NEW c \in Clients, c = num[t]
      PROVE  IF client'[c] = "new" THEN Nowhere(c)' ELSE OnePlace(c)'
  <2>1. client[c] # "new" /\ c \notin unread /\ Holders(c) = {t}
          /\ Places(buffer_, c) = {} /\ Places(consumed, c) = {}
    BY <1>6, <1>9 DEF PlacesOK, Nowhere, OnePlace
  <2>2. Holders(c)' = {} /\ Places(buffer_', c) = {Len(buffer_) + 1}
    BY <1>5, <1>7, <1>9, <2>1
  <2> QED
    BY <1>1, <2>1, <2>2 DEF OnePlace
<1> QED
  BY <1>8, <1>9 DEF PlacesOK

\* pop_back takes a request from the deque to a consumer, which had none.
LEMMA PopMoves ==
  ASSUME ServerInv, PlacesOK, NEW t \in Consumers, InCall(t), PopBack(t)
  PROVE  PlacesOK'
<1> DEFINE n == Len(buffer_)
<1>1. /\ stage[t] = "inside" /\ stage' = stage /\ pc[t] = "act" /\ t \in Threads
      /\ pc' = [pc EXCEPT ![t] = "unlock"] /\ num' = [num EXCEPT ![t] = buffer_[n]]
      /\ buffer_' = SubSeq(buffer_, 1, n - 1)
      /\ UNCHANGED <<client, unread, consumed>>
  BY PlaceTypes DEF InCall, PopBack, Goto, clientVars
<1>2. n > 0
  BY <1>1, PlaceTypes DEF ServerInv, BufferInv, PredicateStillTrue, Ready
<1>3. t \notin Producers /\ ~Carries(t) /\ Carries(t)' /\ num'[t] = buffer_[n]
  BY <1>1, PlaceTypes DEF Carries
<1>4. \A s \in Threads : s # t => (Carries(s)' <=> Carries(s)) /\ num'[s] = num[s]
  BY <1>1, PlaceTypes DEF Carries
<1>5. \A c \in Clients : Holders(c)' = IF c = buffer_[n] THEN Holders(c) \cup {t}
                                                      ELSE Holders(c)
  BY <1>1, <1>3, <1>4 DEF Holders, Carries
<1>6. \A c \in Clients : /\ Places(buffer_', c) = Places(buffer_, c) \ {n}
                         /\ n \in Places(buffer_, c) <=> buffer_[n] = c
  BY <1>1, <1>2, PlaceTypes, PlacesPop
<1> HIDE DEF n
<1>8. ASSUME NEW c \in Clients, c # buffer_[n]
      PROVE  IF client'[c] = "new" THEN Nowhere(c)' ELSE OnePlace(c)'
  <2>1. Places(buffer_', c) = Places(buffer_, c)
    BY <1>6, <1>8
  <2> QED
    BY <1>1, <1>5, <1>8, <2>1 DEF PlacesOK, Nowhere, OnePlace
<1>9. ASSUME NEW c \in Clients, c = buffer_[n]
      PROVE  IF client'[c] = "new" THEN Nowhere(c)' ELSE OnePlace(c)'
  <2>1. client[c] # "new" /\ c \notin unread /\ Holders(c) = {}
          /\ Places(buffer_, c) = {n} /\ Places(consumed, c) = {}
    BY <1>6, <1>9 DEF PlacesOK, Nowhere, OnePlace
  <2>2. Holders(c)' = {t} /\ Places(buffer_', c) = {}
    BY <1>5, <1>6, <1>9, <2>1
  <2> QED
    BY <1>1, <2>1, <2>2 DEF OnePlace
<1> QED
  BY <1>8, <1>9 DEF PlacesOK

\* The consumer's output takes a request from the consumer.
LEMMA PrintMoves ==
  ASSUME ServerInv, PlacesOK, NEW t \in Consumers, PrintLine(t)
  PROVE  PlacesOK'
<1>1. /\ stage[t] = "print" /\ stage' = [stage EXCEPT ![t] = "sleep"]
      /\ t \in Threads /\ pc' = pc /\ num' = num
      /\ consumed' = Append(consumed, num[t])
      /\ UNCHANGED <<client, unread, buffer_>>
  BY PlaceTypes DEF PrintLine, Goto, clientVars, bufferVars
<1>2. num[t] \in Items /\ pc[t] = "out" /\ t \notin Producers
  BY <1>1, PlaceTypes DEF ServerInv, ThreadsOK
<1>3. Carries(t) /\ ~Carries(t)'
  BY <1>1, <1>2, PlaceTypes DEF Carries
<1>4. \A s \in Threads : s # t => (Carries(s)' <=> Carries(s))
  BY <1>1, PlaceTypes DEF Carries
<1>5. \A c \in Clients : Holders(c)' = IF c = num[t] THEN Holders(c) \ {t}
                                                  ELSE Holders(c)
  BY <1>1, <1>3, <1>4 DEF Holders, Carries
<1>6. \A c \in Clients : c = num[t] => t \in Holders(c)
  BY <1>1, <1>3 DEF Holders, Carries
<1>7. \A c \in Clients : Places(consumed', c) =
         IF num[t] = c THEN Places(consumed, c) \cup {Len(consumed) + 1}
                       ELSE Places(consumed, c)
  BY <1>1, <1>2, PlaceTypes, PlacesAppend
<1>8. ASSUME NEW c \in Clients, c # num[t]
      PROVE  IF client'[c] = "new" THEN Nowhere(c)' ELSE OnePlace(c)'
  BY <1>1, <1>5, <1>7, <1>8, ZenonT(60) DEF PlacesOK, Nowhere, OnePlace
<1>9. ASSUME NEW c \in Clients, c = num[t]
      PROVE  IF client'[c] = "new" THEN Nowhere(c)' ELSE OnePlace(c)'
  <2>1. client[c] # "new" /\ c \notin unread /\ Holders(c) = {t}
          /\ Places(buffer_, c) = {} /\ Places(consumed, c) = {}
    BY <1>6, <1>9 DEF PlacesOK, Nowhere, OnePlace
  <2>2. Holders(c)' = {} /\ Places(consumed', c) = {Len(consumed) + 1}
    BY <1>5, <1>7, <1>9, <2>1
  <2> QED
    BY <1>1, <2>1, <2>2 DEF OnePlace
<1> QED
  BY <1>8, <1>9 DEF PlacesOK

\* A step inside add() or remove() other than push_back and pop_back leaves the
\* requests where they are: notify_all() wakes threads and moves no message.
LEMMA CallMoves ==
  ASSUME ServerInv, PlacesOK, NEW t \in Threads,
         Call(t) \/ (InCall(t) /\ ~(t \in Producers /\ PushBack(t))
                              /\ ~(t \in Consumers /\ PopBack(t)))
  PROVE  PlacesOK'
<1>1. UNCHANGED <<client, unread, consumed>>
  BY DEF Call, InCall, clientVars
<1>2. CASE Call(t)
  <2>1. /\ stage[t] = "call" /\ stage' = [stage EXCEPT ![t] = "inside"]
        /\ pc[t] = "out" /\ pc' = [pc EXCEPT ![t] = "lock"]
        /\ buffer_' = buffer_
    BY <1>2 DEF Call, Goto, Add, Remove
  <2>2. \A s \in Threads : num'[s] = num[s] \/ (s = t /\ t \in Consumers)
    BY <1>2, PlaceTypes DEF Call, Add, Remove
  <2>3. \A s \in Threads : Carries(s)' <=> Carries(s)
    BY <2>1, PlaceTypes DEF Carries
  <2>4. t \in Consumers => ~Carries(t)
    BY <2>1, PlaceTypes DEF Carries
  <2> QED
    BY <1>1, <2>1, <2>2, <2>3, <2>4, NothingMoves
<1>3. CASE InCall(t) /\ NotifyAll(t)
  <2>1. /\ stage[t] = "inside" /\ stage' = [stage EXCEPT ![t] = "cout"]
        /\ buffer_' = buffer_ /\ num' = num
    BY <1>3 DEF InCall, NotifyAll, Goto
  <2>2. \A s \in Threads : Carries(s)' <=> Carries(s)
    BY <1>3, <2>1, PlaceTypes DEF NotifyAll, Carries, ServerInv, ThreadsOK
  <2> QED
    BY <1>1, <2>1, <2>2, NothingMoves
<1>4. CASE InCall(t) /\ (Lock(t) \/ Pass(t) \/ Wait(t) \/ Unlock(t))
  <2>1. stage' = stage /\ buffer_' = buffer_ /\ num' = num
    BY <1>4, PlaceTypes DEF InCall, Lock, Pass, Wait, Unlock, Goto
  <2>2. \A s \in Threads : Carries(s)' <=> Carries(s)
    BY <1>4, <2>1, PlaceTypes
       DEF Lock, Pass, Wait, Unlock, Carries, ServerInv, ThreadsOK
  <2> QED
    BY <1>1, <2>1, <2>2, NothingMoves
<1> QED
  BY <1>2, <1>3, <1>4 DEF InCall, Step

\* Every step leaves each request where it is or hands it on.
LEMMA PlacesStep == ServerInv /\ PlacesOK /\ [Next]_vars => PlacesOK'
<1> SUFFICES ASSUME ServerInv, PlacesOK, [Next]_vars
             PROVE  PlacesOK'
  OBVIOUS
<1>1. ASSUME NEW c \in Clients, Connect(c)
      PROVE  PlacesOK'
  <2>1. /\ client[c] = "new" /\ client' = [client EXCEPT ![c] = "sent"]
        /\ unread' = unread \cup {c}
        /\ UNCHANGED <<stage, pc, num, buffer_, consumed>>
    BY <1>1 DEF Connect, bufferVars
  <2>2. \A d \in Clients : Holders(d)' = Holders(d)
    BY <2>1 DEF Holders
  <2>3. ASSUME NEW d \in Clients, d # c
        PROVE  IF client'[d] = "new" THEN Nowhere(d)' ELSE OnePlace(d)'
    <3>1. client'[d] = client[d] /\ (d \in unread' <=> d \in unread)
      BY <2>1, <2>3, PlaceTypes
    <3> QED
      BY <2>1, <2>2, <3>1 DEF PlacesOK, Nowhere, OnePlace
  <2>4. client'[c] # "new" /\ OnePlace(c)'
    BY <2>1, <2>2, PlaceTypes DEF PlacesOK, Nowhere, OnePlace
  <2> QED
    BY <2>3, <2>4 DEF PlacesOK
<1>2. ASSUME UNCHANGED <<unread, buffer_, consumed, pc, num>>,
             client' = client \/ \E c \in Clients : client[c] # "new" /\
                                   client' = [client EXCEPT ![c] = "closed"],
             stage' = stage \/ \E t \in Threads, l \in Stages :
                /\ stage' = [stage EXCEPT ![t] = l]
                /\ t \in Producers => stage[t] # "call" /\ l # "call"
                /\ t \in Consumers => ((stage[t] \in {"cout", "print"})
                                          <=> (l \in {"cout", "print"}))
      PROVE  PlacesOK'
  <2>1. \A s \in Threads : Carries(s)' <=> Carries(s)
    BY <1>2, PlaceTypes DEF Carries
  <2>2. \A c \in Clients : client'[c] = "new" <=> client[c] = "new"
    BY <1>2, PlaceTypes
  <2> QED
    BY <1>2, <2>1, <2>2, NothingMoves
<1>3. ASSUME NEW c \in Clients, Hangup(c)
      PROVE  PlacesOK'
  BY <1>3, <1>2 DEF Hangup, serverVars, bufferVars
<1>4. ASSUME NEW c \in Clients, Accept(c)
      PROVE  PlacesOK'
  <2>1. Len(accepted) + 1 \in Producers
    BY <1>4, ThreadForClient DEF ServerInv, Accept
  <2>2. stage[Len(accepted) + 1] = "unborn"
    BY <2>1 DEF ServerInv, AcceptedOK, TypeOK
  <2>3. Len(accepted) + 1 \in Threads /\ Len(accepted) + 1 \notin Consumers
    BY <2>1, PlaceTypes
  <2>4. /\ UNCHANGED <<unread, buffer_, consumed, pc, num, client>>
        /\ stage' = [stage EXCEPT ![Len(accepted) + 1] = "read"]
    BY <1>4 DEF Accept, Goto, clientVars, bufferVars
  <2> QED
    BY <1>2, <2>2, <2>3, <2>4 DEF Stages
<1>5. CASE JoinFirst \/ JoinSecond
  BY <1>5, <1>2 DEF JoinFirst, JoinSecond, clientVars, bufferVars
<1>6. ASSUME NEW t \in Threads, PrintLine(t)
      PROVE  PlacesOK'
  <2>1. CASE t \in Consumers
    BY <1>6, <2>1, PrintMoves
  <2>2. CASE t \notin Consumers
    <3>1. UNCHANGED <<unread, buffer_, consumed, pc, num, client>>
      BY <1>6, <2>2 DEF PrintLine, clientVars, bufferVars
    <3>2. stage[t] = "print" /\ stage' = [stage EXCEPT ![t] = "sleep"]
      BY <1>6 DEF PrintLine, Goto
    <3> QED
      BY <1>2, <2>2, <3>1, <3>2 DEF Stages
  <2> QED
    BY <2>1, <2>2
<1>7. ASSUME NEW t \in Threads, LockCout(t) \/ Awaken(t) \/ Write(t) \/ Close(t)
      PROVE  PlacesOK'
  <2>1. UNCHANGED <<unread, buffer_, consumed, pc, num, client>>
    BY <1>7 DEF LockCout, Awaken, Write, Close, clientVars, bufferVars
  <2>2. \E l \in Stages :
          /\ stage' = [stage EXCEPT ![t] = l]
          /\ t \in Producers => stage[t] # "call" /\ l # "call"
          /\ t \in Consumers => ((stage[t] \in {"cout", "print"})
                                    <=> (l \in {"cout", "print"}))
    BY <1>7, PlaceTypes
       DEF LockCout, Awaken, Write, Close, Goto, Stages, ServerInv, ThreadsOK
  <2> QED
    BY <1>2, <2>1, <2>2
<1>8. ASSUME NEW t \in Threads, Spurious(t)
      PROVE  PlacesOK'
  <2>1. /\ pc[t] = "wait" /\ pc' = [pc EXCEPT ![t] = "lock"]
        /\ UNCHANGED <<unread, buffer_, consumed, num, stage, client>>
    BY <1>8 DEF Spurious, SpuriousWakeup, serverVars, clientVars
  <2>2. \A s \in Threads : Carries(s)' <=> Carries(s)
    BY <2>1, PlaceTypes DEF Carries
  <2> QED
    BY <2>1, <2>2, NothingMoves
<1>9. CASE UNCHANGED vars
  BY <1>9, <1>2 DEF vars, serverVars, clientVars, bufferVars
<1>10. ASSUME NEW t \in Threads, Thread(t)
       PROVE  PlacesOK'
  BY <1>6, <1>7, <1>10, ReadMoves, CallMoves, PushMoves, PopMoves DEF Thread
<1> QED
  BY <1>1, <1>3, <1>4, <1>5, <1>8, <1>9, <1>10 DEF Next

\* One place means that the counts of the four kinds of places add up to one.
LEMMA CountPlaces ==
  ASSUME NEW c \in Clients, OnePlace(c)
  PROVE  (IF c \in unread THEN 1 ELSE 0) + Cardinality(Holders(c))
           + Occurrences(buffer_, c) + Occurrences(consumed, c) = 1
<1> DEFINE Total == (IF c \in unread THEN 1 ELSE 0) + Cardinality(Holders(c))
                      + Occurrences(buffer_, c) + Occurrences(consumed, c)
<1>1. /\ Occurrences(buffer_, c) = Cardinality(Places(buffer_, c))
      /\ Occurrences(consumed, c) = Cardinality(Places(consumed, c))
  BY DEF Occurrences, Places
<1>2. Cardinality({}) = 0 /\ \A x : Cardinality({x}) = 1
  BY FS_EmptySet, FS_Singleton
<1>3. CASE /\ c \in unread /\ Holders(c) = {}
           /\ Places(buffer_, c) = {} /\ Places(consumed, c) = {}
  BY <1>1, <1>2, <1>3
<1>4. ASSUME NEW t, c \notin unread, Holders(c) = {t},
             Places(buffer_, c) = {}, Places(consumed, c) = {}
      PROVE  Total = 1
  <2>1. Cardinality(Holders(c)) = 1
    BY <1>2, <1>4, Zenon
  <2> QED
    BY <1>1, <1>2, <1>4, <2>1
<1>5. ASSUME NEW i, c \notin unread, Holders(c) = {},
             Places(buffer_, c) = {i}, Places(consumed, c) = {}
      PROVE  Total = 1
  <2>1. Cardinality(Places(buffer_, c)) = 1
    BY <1>2, <1>5, Zenon
  <2> QED
    BY <1>1, <1>2, <1>5, <2>1
<1>6. ASSUME NEW i, c \notin unread, Holders(c) = {},
             Places(buffer_, c) = {}, Places(consumed, c) = {i}
      PROVE  Total = 1
  <2>1. Cardinality(Places(consumed, c)) = 1
    BY <1>2, <1>6, Zenon
  <2> QED
    BY <1>1, <1>2, <1>6, <2>1
<1> QED
  BY <1>3, <1>4, <1>5, <1>6 DEF OnePlace

\* socket_server.cpp hands every request it reads on exactly once, whichever
\* thread read it from whichever socket: from read() to push_back, from there
\* to pop_back and on to the consumer's output.
THEOREM RequestTheorem == Spec => []RequestInOnePlace
<1>1. Init => PlacesOK
  <2> SUFFICES ASSUME Init PROVE PlacesOK
    OBVIOUS
  <2>1. \A t \in Threads : pc[t] = "out" /\ num[t] = NoItem
    BY DEF Init, BufferInit
  <2>2. NoItem \notin Clients
    BY BufferAssumption, TcpServerAssumption
  <2>3. \A c \in Clients : Holders(c) = {}
    BY <2>1, <2>2 DEF Holders
  <2>4. \A c : Places(buffer_, c) = {} /\ Places(consumed, c) = {}
    BY DEF Init, BufferInit, Places
  <2> QED
    BY <2>3, <2>4 DEF Init, PlacesOK, Nowhere
<1>2. ServerInv /\ PlacesOK => RequestInOnePlace
  BY CountPlaces DEF ServerInv, PlacesOK, RequestInOnePlace
<1> QED
  BY <1>1, <1>2, PlacesStep, ServerInvTheorem, PTL DEF Spec
=============================================================================
