--------------------------- MODULE PageFaultProofs ---------------------------
(***************************************************************************)
(* Proofs about the page fault handler for any set of threads, accesses    *)
(* and mappings, and whatever features the processor has.                  *)
(***************************************************************************)
EXTENDS PageFault, TLAPS

(***************************************************************************)
(* mmap_sem.  SemaphoreBalanced says what each thread holds; it is kept    *)
(* only together with the facts that a fault inside a system call comes    *)
(* from kernel code without an exception table entry, that the thread that *)
(* writes is the one its system call says, and that nobody reads then.     *)
(***************************************************************************)
WriterExact ==
  \A t \in Threads :
    pc[t] # "dead" =>
      (writer = t <=> pc[t] = "sys_write" \/ (InHandler(t) /\ back[t] = "sys_write"))

ReadersExcludeWriter == writer # NoThread => \A t \in Threads : nread[t] = 0

InterruptedKernelCode ==
  \A t \in Threads :
    InHandler(t) /\ back[t] # "run" => ~user_mode(regs[t]) /\ ~regs[t].ext

VmasOK ==
  /\ vma \in Vmas \cup {NoVma}
  /\ area \in [Threads -> Vmas \cup {NoVma}]
  /\ \A t \in Threads : pc[t] = "handle" => area[t] # NoVma

RegsOK == regs \in [Threads -> AccessKinds \cup {AnyAccess}]

LockInv ==
  /\ SemaphoreBalanced
  /\ VmasOK
  /\ RegsOK
  /\ WriterExact
  /\ ReadersExcludeWriter
  /\ InterruptedKernelCode
  /\ NoSelfDeadlock

\* The bits the processor pushes are bits of the error code.
LEMMA ErrorCodeBits ==
  ASSUME NEW t, NEW r PROVE ErrorCode(t, r) \in SUBSET Bits
BY DEF ErrorCode, Bits

\* No thread is in the handler at the start and nobody holds mmap_sem.
LEMMA LockInit == Init => LockInv
<1> SUFFICES ASSUME Init PROVE LockInv
  OBVIOUS
<1>1. TypeOK
  BY DEF Init, TypeOK, Outside, Bits, Rights
<1>2. SemaphoreBalanced
  BY <1>1 DEF Init, SemaphoreBalanced, InHandler, Outside
<1> QED
  BY <1>2, PageFaultAssumption
     DEF Init, LockInv, VmasOK, RegsOK, WriterExact, ReadersExcludeWriter,
         InterruptedKernelCode, NoSelfDeadlock, InHandler, Outside

\* Every step keeps the types; only HandleMmFault counts a retry, and only
\* the first.
LEMMA TypeStep == LockInv /\ [Next]_vars => TypeOK'
<1> SUFFICES ASSUME LockInv, [Next]_vars PROVE TypeOK'
  OBVIOUS
<1> USE DEF TypeOK, Outside, Goto, Leave
<1>0. TypeOK
  BY DEF LockInv, SemaphoreBalanced
<1>1. ASSUME NEW t \in Threads, NEW r \in Accesses[t], Fault(t, r)
      PROVE  TypeOK'
  <2>1. code' \in [Threads -> SUBSET Bits]
    BY <1>0, <1>1, ErrorCodeBits DEF Fault
  <2>2. excused' \in [Threads -> BOOLEAN]
    BY <1>0, <1>1 DEF Fault, Forbidden
  <2> QED
    BY <1>0, <1>1, <2>1, <2>2 DEF Fault, sem
<1>2. ASSUME NEW t \in Threads, NEW r \in Accesses[t], Touch(t, r)
      PROVE  TypeOK'
  BY <1>0, <1>2 DEF Touch, handler, sem
<1>3. ASSUME NEW t \in Threads, DoPageFault(t)
      PROVE  TypeOK'
  BY <1>0, <1>3 DEF DoPageFault, handler, sem, kernel
<1>4. ASSUME NEW t \in Threads, VmallocFault(t)
      PROVE  TypeOK'
  BY <1>0, <1>4 DEF VmallocFault, handler, sem
<1>5. ASSUME NEW t \in Threads, SpuriousFault(t)
      PROVE  TypeOK'
  BY <1>0, <1>5 DEF SpuriousFault, handler, sem, kernel
<1>6. ASSUME NEW t \in Threads, DoUserAddrFault(t)
      PROVE  TypeOK'
  BY <1>0, <1>6 DEF DoUserAddrFault, handler, sem, kernel, DownRead
<1>7. ASSUME NEW t \in Threads, FindVma(t)
      PROVE  TypeOK'
  <2>1. nread[t] \in Nat /\ nread[t] > 0
    BY <1>0, <1>7 DEF LockInv, SemaphoreBalanced, FindVma
  <2> QED
    BY <1>0, <1>7, <2>1 DEF FindVma, BadArea, UpRead, sem, kernel
<1>8. ASSUME NEW t \in Threads, HandleMmFault(t)
      PROVE  TypeOK'
  <2>1. nread[t] \in Nat /\ nread[t] > 0
    BY <1>0, <1>8 DEF LockInv, SemaphoreBalanced, HandleMmFault
  <2>2. tries' \in [Threads -> 0 .. 1]
    BY <1>0, <1>8 DEF HandleMmFault, RetryAllowed
  <2>3. area[t].perm \in SUBSET Rights
    BY <1>8 DEF LockInv, VmasOK, Vmas, HandleMmFault
  <2>4. pte' \subseteq Rights
    BY <1>0, <1>8, <2>3 DEF HandleMmFault
  <2>5. pc'[t] \in {"down_read", "exit"} /\ pc' = [pc EXCEPT ![t] = pc'[t]]
    BY <1>0, <1>8 DEF HandleMmFault
  <2> QED
    BY <1>0, <1>8, <2>1, <2>2, <2>4, <2>5 DEF HandleMmFault, UpRead, kernel
<1>9. ASSUME NEW t \in Threads, Exit(t)
      PROVE  TypeOK'
  BY <1>0, <1>9 DEF Exit, sem, kernel
<1>10. ASSUME NEW t \in Threads, Retry(t)
       PROVE  TypeOK'
  BY <1>0, <1>10 DEF Retry, DownRead, handler, kernel
<1>11. ASSUME NEW t \in Threads, SysRead(t)
       PROVE  TypeOK'
  BY <1>0, <1>11 DEF SysRead, DownRead, handler, kernel
<1>12. ASSUME NEW t \in Threads, SysReadDone(t)
       PROVE  TypeOK'
  <2>1. nread[t] \in Nat /\ nread[t] > 0
    BY <1>0, <1>12 DEF LockInv, SemaphoreBalanced, SysReadDone
  <2> QED
    BY <1>0, <1>12, <2>1 DEF SysReadDone, UpRead, handler, kernel
<1>13. ASSUME NEW t \in Threads, SysWait(t) \/ SysWrite(t) \/ Kill(t)
       PROVE  TypeOK'
  BY <1>0, <1>13 DEF SysWait, SysWrite, Kill, handler, sem, kernel
<1>14. ASSUME NEW t \in Threads, SysWriteDone(t)
       PROVE  TypeOK'
  BY <1>0, <1>14, PageFaultAssumption DEF SysWriteDone, Excuse, Vmas, kernel
<1>15. CASE Reclaim
  BY <1>0, <1>15 DEF Reclaim, handler, sem, kernel
<1>16. ASSUME NEW rights \in KernelRights, KernelMap(rights)
       PROVE  TypeOK'
  BY <1>0, <1>16 DEF KernelMap, KernelRights, Excuse, sem, Rights
<1>17. CASE UNCHANGED vars
  BY <1>0, <1>17 DEF vars, handler, sem, kernel
<1> QED
  BY <1>1, <1>2, <1>3, <1>4, <1>5, <1>6, <1>7, <1>8, <1>9, <1>10, <1>11, <1>12,
     <1>13, <1>14, <1>15, <1>16, <1>17 DEF Next, Thread, Handler

\* Every step keeps the balance: what takes mmap_sem moves the thread to a
\* place that counts it, and every way out of such a place releases it.
LEMMA BalanceStep == LockInv /\ [Next]_vars => SemaphoreBalanced'
<1> SUFFICES ASSUME LockInv, [Next]_vars PROVE SemaphoreBalanced'
  OBVIOUS
<1>0. TypeOK /\ SemaphoreBalanced
  BY DEF LockInv, SemaphoreBalanced
<1>t. TypeOK'
  BY TypeStep
<1> USE <1>0, <1>t DEF TypeOK, SemaphoreBalanced, InHandler, Outside, Goto, Leave
<1>1. ASSUME NEW t \in Threads, NEW r \in Accesses[t], Fault(t, r)
      PROVE  SemaphoreBalanced'
  BY <1>1 DEF Fault, sem
<1>2. ASSUME NEW t \in Threads, NEW r \in Accesses[t], Touch(t, r)
      PROVE  SemaphoreBalanced'
  BY <1>2 DEF Touch, handler, sem
<1>3. ASSUME NEW t \in Threads, DoPageFault(t)
      PROVE  SemaphoreBalanced'
  BY <1>3 DEF DoPageFault, handler, sem
<1>4. ASSUME NEW t \in Threads, VmallocFault(t)
      PROVE  SemaphoreBalanced'
  BY <1>4 DEF VmallocFault, handler, sem
<1>5. ASSUME NEW t \in Threads, SpuriousFault(t)
      PROVE  SemaphoreBalanced'
  BY <1>5 DEF SpuriousFault, handler, sem
<1>6. ASSUME NEW t \in Threads, DoUserAddrFault(t)
      PROVE  SemaphoreBalanced'
  BY <1>6 DEF DoUserAddrFault, DownRead, handler, sem
<1>7. ASSUME NEW t \in Threads, FindVma(t)
      PROVE  SemaphoreBalanced'
  BY <1>7 DEF FindVma, BadArea, UpRead, sem
<1>8. ASSUME NEW t \in Threads, HandleMmFault(t)
      PROVE  SemaphoreBalanced'
  <2>1. pc'[t] \in {"down_read", "exit"} /\ pc' = [pc EXCEPT ![t] = pc'[t]]
    BY <1>8 DEF HandleMmFault
  <2> QED
    BY <1>8, <2>1 DEF HandleMmFault, UpRead
<1>9. ASSUME NEW t \in Threads, Exit(t)
      PROVE  SemaphoreBalanced'
  BY <1>9 DEF Exit, sem
<1>10. ASSUME NEW t \in Threads, Retry(t) \/ SysRead(t)
       PROVE  SemaphoreBalanced'
  BY <1>10 DEF Retry, SysRead, DownRead, handler
<1>11. ASSUME NEW t \in Threads, SysReadDone(t)
       PROVE  SemaphoreBalanced'
  BY <1>11 DEF SysReadDone, UpRead, handler
<1>12. ASSUME NEW t \in Threads, SysWait(t) \/ SysWrite(t) \/ SysWriteDone(t) \/ Kill(t)
       PROVE  SemaphoreBalanced'
  BY <1>12 DEF SysWait, SysWrite, SysWriteDone, Kill, handler, sem
<1>13. ASSUME Reclaim \/ (\E rights \in KernelRights : KernelMap(rights)) \/ UNCHANGED vars
       PROVE  SemaphoreBalanced'
  BY <1>13 DEF Reclaim, KernelMap, vars, handler, sem
<1> QED
  BY <1>1, <1>2, <1>3, <1>4, <1>5, <1>6, <1>7, <1>8, <1>9, <1>10, <1>11, <1>12,
     <1>13 DEF Next, Thread, Handler

\* Only Fault and Exit change the registers, only FindVma, HandleMmFault and
\* SysWriteDone the vma and the handler's pointer to it.
LEMMA DataStep == LockInv /\ [Next]_vars => VmasOK' /\ RegsOK'
<1> SUFFICES ASSUME LockInv, [Next]_vars PROVE VmasOK' /\ RegsOK'
  OBVIOUS
<1>0. TypeOK /\ VmasOK /\ RegsOK
  BY DEF LockInv, SemaphoreBalanced
<1> USE <1>0 DEF TypeOK, VmasOK, RegsOK, Outside, Goto, Leave
<1>1. ASSUME NEW t \in Threads, NEW r \in Accesses[t], Fault(t, r)
      PROVE  VmasOK' /\ RegsOK'
  BY <1>1, PageFaultAssumption DEF Fault
<1>2. ASSUME NEW t \in Threads, NEW r \in Accesses[t], Touch(t, r)
      PROVE  VmasOK' /\ RegsOK'
  BY <1>2 DEF Touch, handler
<1>3. ASSUME NEW t \in Threads, DoPageFault(t) \/ VmallocFault(t) \/ SpuriousFault(t)
      PROVE  VmasOK' /\ RegsOK'
  BY <1>3 DEF DoPageFault, VmallocFault, SpuriousFault, handler
<1>4. ASSUME NEW t \in Threads, DoUserAddrFault(t)
      PROVE  VmasOK' /\ RegsOK'
  BY <1>4 DEF DoUserAddrFault, handler
<1>5. ASSUME NEW t \in Threads, FindVma(t)
      PROVE  VmasOK' /\ RegsOK'
  <2>1. vma' \in Vmas \cup {NoVma}
    BY <1>5 DEF FindVma, Vmas
  <2>2. /\ area' \in [Threads -> Vmas \cup {NoVma}]
        /\ pc'[t] = "handle" => area'[t] # NoVma
    BY <1>5, <2>1, PageFaultAssumption DEF FindVma, BadArea, Vmas
  <2>3. \A u \in Threads : u # t => pc'[u] = pc[u] /\ area'[u] = area[u]
    BY <1>5 DEF FindVma, BadArea
  <2> QED
    BY <1>5, <2>1, <2>2, <2>3 DEF FindVma
<1>6. ASSUME NEW t \in Threads, HandleMmFault(t)
      PROVE  VmasOK' /\ RegsOK'
  <2>1. pc'[t] \in {"down_read", "exit"} /\ pc' = [pc EXCEPT ![t] = pc'[t]]
    BY <1>6 DEF HandleMmFault
  <2> QED
    BY <1>6, <2>1 DEF HandleMmFault
<1>7. ASSUME NEW t \in Threads, Exit(t)
      PROVE  VmasOK' /\ RegsOK'
  BY <1>7 DEF Exit
<1>8. ASSUME NEW t \in Threads,
             Retry(t) \/ SysRead(t) \/ SysReadDone(t) \/ SysWait(t) \/ SysWrite(t) \/ Kill(t)
      PROVE  VmasOK' /\ RegsOK'
  BY <1>8 DEF Retry, SysRead, SysReadDone, SysWait, SysWrite, Kill, handler
<1>9. ASSUME NEW t \in Threads, SysWriteDone(t)
      PROVE  VmasOK' /\ RegsOK'
  BY <1>9, PageFaultAssumption DEF SysWriteDone
<1>10. ASSUME Reclaim \/ (\E rights \in KernelRights : KernelMap(rights)) \/ UNCHANGED vars
       PROVE  VmasOK' /\ RegsOK'
  BY <1>10 DEF Reclaim, KernelMap, vars, handler
<1> QED
  BY <1>1, <1>2, <1>3, <1>4, <1>5, <1>6, <1>7, <1>8, <1>9, <1>10
     DEF Next, Thread, Handler

\* Nobody but SysWrite and SysWriteDone changes the writer, and a thread that
\* faults with mmap_sem held for writing comes back to its system call.
LEMMA WriterStep ==
  LockInv /\ [Next]_vars => WriterExact' /\ ReadersExcludeWriter'
<1> SUFFICES ASSUME LockInv, [Next]_vars
             PROVE  WriterExact' /\ ReadersExcludeWriter'
  OBVIOUS
<1>0. TypeOK /\ SemaphoreBalanced /\ WriterExact /\ ReadersExcludeWriter
  BY DEF LockInv, SemaphoreBalanced
<1> DEFINE Goal == WriterExact' /\ ReadersExcludeWriter'
<1> USE <1>0, PageFaultAssumption
    DEF TypeOK, WriterExact, ReadersExcludeWriter, InHandler, Outside, Goto, Leave
<1>1. ASSUME NEW t \in Threads, NEW r \in Accesses[t], Fault(t, r)
      PROVE  Goal
  BY <1>1 DEF Fault, sem
<1>2. ASSUME NEW t \in Threads, NEW r \in Accesses[t], Touch(t, r)
      PROVE  Goal
  BY <1>2 DEF Touch, handler, sem
<1>3. ASSUME NEW t \in Threads, DoPageFault(t) \/ VmallocFault(t) \/ SpuriousFault(t)
      PROVE  Goal
  BY <1>3 DEF DoPageFault, VmallocFault, SpuriousFault, handler, sem
<1>4. ASSUME NEW t \in Threads, DoUserAddrFault(t)
      PROVE  Goal
  BY <1>4 DEF DoUserAddrFault, DownRead, CanRead, handler, sem
<1>5. ASSUME NEW t \in Threads, FindVma(t)
      PROVE  Goal
  <2>1. nread[t] \in Nat /\ nread[t] > 0
    BY <1>5 DEF SemaphoreBalanced, FindVma
  <2> QED
    BY <1>5, <2>1 DEF FindVma, BadArea, UpRead, sem
<1>6. ASSUME NEW t \in Threads, HandleMmFault(t)
      PROVE  Goal
  <2>1. nread[t] \in Nat /\ nread[t] > 0
    BY <1>6 DEF SemaphoreBalanced, HandleMmFault
  <2>2. pc'[t] \in {"down_read", "exit"} /\ pc' = [pc EXCEPT ![t] = pc'[t]]
    BY <1>6 DEF HandleMmFault
  <2> QED
    BY <1>6, <2>1, <2>2 DEF HandleMmFault, UpRead
<1>7. ASSUME NEW t \in Threads, Exit(t)
      PROVE  Goal
  BY <1>7 DEF Exit, sem
<1>8. ASSUME NEW t \in Threads, Retry(t) \/ SysRead(t)
      PROVE  Goal
  BY <1>8 DEF Retry, SysRead, DownRead, CanRead, handler
<1>9. ASSUME NEW t \in Threads, SysReadDone(t)
      PROVE  Goal
  <2>1. nread[t] \in Nat /\ nread[t] > 0
    BY <1>9 DEF SemaphoreBalanced, SysReadDone
  <2> QED
    BY <1>9, <2>1 DEF SysReadDone, UpRead, handler
<1>10. ASSUME NEW t \in Threads, SysWait(t) \/ Kill(t)
       PROVE  Goal
  BY <1>10 DEF SysWait, Kill, handler, sem
<1>11. ASSUME NEW t \in Threads, SysWrite(t)
       PROVE  Goal
  BY <1>11 DEF SysWrite, handler
<1>12. ASSUME NEW t \in Threads, SysWriteDone(t)
       PROVE  Goal
  BY <1>12 DEF SysWriteDone
<1>13. ASSUME Reclaim \/ (\E rights \in KernelRights : KernelMap(rights)) \/ UNCHANGED vars
       PROVE  Goal
  BY <1>13 DEF Reclaim, KernelMap, vars, handler, sem
<1> QED
  BY <1>1, <1>2, <1>3, <1>4, <1>5, <1>6, <1>7, <1>8, <1>9, <1>10, <1>11, <1>12,
     <1>13 DEF Next, Thread, Handler

\* A thread starts to wait in down_read() only if its fault interrupted no
\* system call, or for a retry, when handle_mm_fault() had the lock for reading.
LEMMA DeadlockStep ==
  LockInv /\ [Next]_vars => InterruptedKernelCode' /\ NoSelfDeadlock'
<1> SUFFICES ASSUME LockInv, [Next]_vars
             PROVE  InterruptedKernelCode' /\ NoSelfDeadlock'
  OBVIOUS
<1>0. /\ TypeOK /\ SemaphoreBalanced /\ RegsOK /\ WriterExact
      /\ ReadersExcludeWriter /\ InterruptedKernelCode /\ NoSelfDeadlock
  BY DEF LockInv, SemaphoreBalanced
<1> DEFINE Goal == InterruptedKernelCode' /\ NoSelfDeadlock'
<1> USE <1>0 DEF TypeOK, RegsOK, InterruptedKernelCode, NoSelfDeadlock, InHandler,
                 Outside, Goto, Leave
<1>1. ASSUME NEW t \in Threads, NEW r \in Accesses[t], Fault(t, r)
      PROVE  Goal
  BY <1>1 DEF Fault, sem, user_mode
<1>2. ASSUME NEW t \in Threads, NEW r \in Accesses[t], Touch(t, r)
      PROVE  Goal
  BY <1>2 DEF Touch, handler, sem, user_mode
<1>3. ASSUME NEW t \in Threads, DoPageFault(t) \/ VmallocFault(t) \/ SpuriousFault(t)
      PROVE  Goal
  BY <1>3 DEF DoPageFault, VmallocFault, SpuriousFault, handler, sem, user_mode
<1>4. ASSUME NEW t \in Threads, DoUserAddrFault(t)
      PROVE  Goal
  <2>1. pc'[t] = "down_read" => back[t] = "run"
    BY <1>4 DEF DoUserAddrFault, MustNotWait, handler
  <2>2. back[t] = "run" => nread[t] = 0 /\ writer # t
    BY <1>4 DEF DoUserAddrFault, SemaphoreBalanced, WriterExact
  <2>3. pc'[t] = "down_read" => UNCHANGED <<nread, writer>>
    BY <1>4 DEF DoUserAddrFault, sem
  <2>4. \A u \in Threads : u # t => pc'[u] = pc[u] /\ nread'[u] = nread[u]
    BY <1>4 DEF DoUserAddrFault, DownRead, sem
  <2>5. UNCHANGED <<writer, tries, back, regs>>
    BY <1>4 DEF DoUserAddrFault, DownRead, sem, handler
  <2>6. NoSelfDeadlock'
    BY <2>1, <2>2, <2>3, <2>4, <2>5
  <2>7. InterruptedKernelCode'
    BY <1>4, <2>4, <2>5 DEF DoUserAddrFault, user_mode
  <2> QED
    BY <2>6, <2>7
<1>5. ASSUME NEW t \in Threads, FindVma(t)
      PROVE  Goal
  BY <1>5 DEF FindVma, BadArea, UpRead, sem, user_mode
<1>6. ASSUME NEW t \in Threads, HandleMmFault(t)
      PROVE  Goal
  <2>1. nread[t] \in Nat /\ nread[t] > 0
    BY <1>6 DEF SemaphoreBalanced, HandleMmFault
  <2>2. writer # t
    BY <2>1, PageFaultAssumption DEF ReadersExcludeWriter
  <2>3. pc'[t] \in {"down_read", "exit"} /\ pc' = [pc EXCEPT ![t] = pc'[t]]
    BY <1>6 DEF HandleMmFault
  <2>4. pc'[t] = "down_read" => tries'[t] # 0
    BY <1>6 DEF HandleMmFault, RetryAllowed
  <2>5. \A u \in Threads : u # t => tries'[u] = tries[u] /\ nread'[u] = nread[u]
    BY <1>6 DEF HandleMmFault, UpRead
  <2>6. UNCHANGED <<writer, back, regs>>
    BY <1>6 DEF HandleMmFault, UpRead
  <2>7. NoSelfDeadlock'
    BY <2>2, <2>3, <2>4, <2>5, <2>6
  <2>8. InterruptedKernelCode'
    BY <1>6, <2>3, <2>6 DEF HandleMmFault, user_mode
  <2> QED
    BY <2>7, <2>8
<1>7. ASSUME NEW t \in Threads, Exit(t)
      PROVE  Goal
  BY <1>7 DEF Exit, sem, user_mode
<1>8. ASSUME NEW t \in Threads, Retry(t) \/ SysRead(t) \/ SysReadDone(t)
      PROVE  Goal
  BY <1>8 DEF Retry, SysRead, SysReadDone, DownRead, UpRead, handler, user_mode
<1>9. ASSUME NEW t \in Threads, SysWait(t) \/ Kill(t)
      PROVE  Goal
  BY <1>9 DEF SysWait, Kill, handler, sem, user_mode
<1>10. ASSUME NEW t \in Threads, SysWrite(t)
       PROVE  Goal
  BY <1>10 DEF SysWrite, handler, user_mode
<1>11. ASSUME NEW t \in Threads, SysWriteDone(t)
       PROVE  Goal
  BY <1>11, PageFaultAssumption DEF SysWriteDone, user_mode
<1>12. ASSUME Reclaim \/ (\E rights \in KernelRights : KernelMap(rights)) \/ UNCHANGED vars
       PROVE  Goal
  BY <1>12 DEF Reclaim, KernelMap, vars, handler, sem, user_mode
<1> QED
  BY <1>1, <1>2, <1>3, <1>4, <1>5, <1>6, <1>7, <1>8, <1>9, <1>10, <1>11, <1>12
     DEF Next, Thread, Handler

\* The lock invariant holds in every behaviour of the handler.
THEOREM LockTheorem == Spec => []LockInv
<1>1. LockInv /\ [Next]_vars => LockInv'
  BY BalanceStep, DataStep, WriterStep, DeadlockStep DEF LockInv
<1> QED
  BY LockInit, <1>1, PTL DEF Spec

\* fault.c: mmap_sem is released on every way out of the handler, and a fault
\* is retried at most once.
THEOREM BalanceTheorem == Spec => []SemaphoreBalanced
<1>1. LockInv => SemaphoreBalanced
  BY DEF LockInv
<1> QED
  BY LockTheorem, <1>1, PTL

\* fault.c: no thread waits in its first down_read() for itself, and none
\* waits at all while it holds mmap_sem for writing.
THEOREM DeadlockTheorem == Spec => []NoSelfDeadlock
<1>1. LockInv => NoSelfDeadlock
  BY DEF LockInv
<1> QED
  BY LockTheorem, <1>1, PTL
-----------------------------------------------------------------------------
(***************************************************************************)
(* The page table.  The rights a fault installs are those of the vma the   *)
(* handler found; it is still the vma of the page because the handler has  *)
(* mmap_sem and a stack is not expanded twice.                             *)
(***************************************************************************)
AreaCurrent ==
  \A t \in Threads :
    pc[t] = "handle" => area[t] = vma /\ vma # NoVma /\ vma.start = "below"

\* A present entry lacks at most the right to write.
PteExact ==
  pte # {} => /\ vma # NoVma /\ vma.start = "below"
              /\ vma.perm \ {"w"} \subseteq pte /\ pte \subseteq vma.perm

PteInv == AreaCurrent /\ PteExact

\* Only handle_mm_fault() under mmap_sem and the system calls that hold it for
\* writing change the entry or the vma, and they keep the two in step.
LEMMA PteStep == LockInv /\ PteInv /\ [Next]_vars => PteInv'
<1> SUFFICES ASSUME LockInv, PteInv, [Next]_vars PROVE PteInv'
  OBVIOUS
<1>0. TypeOK /\ VmasOK
  BY DEF LockInv, SemaphoreBalanced
<1> USE <1>0 DEF TypeOK, VmasOK, PteInv, AreaCurrent, PteExact, Outside, Goto, Leave
<1>1. ASSUME NEW t \in Threads, NEW r \in Accesses[t], Fault(t, r) \/ Touch(t, r)
      PROVE  PteInv'
  BY <1>1 DEF Fault, Touch, handler
<1>2. ASSUME NEW t \in Threads, DoPageFault(t) \/ VmallocFault(t) \/ SpuriousFault(t)
      PROVE  PteInv'
  BY <1>2 DEF DoPageFault, VmallocFault, SpuriousFault, handler
<1>3. ASSUME NEW t \in Threads, DoUserAddrFault(t)
      PROVE  PteInv'
  BY <1>3 DEF DoUserAddrFault, handler
<1>4. ASSUME NEW t \in Threads, FindVma(t)
      PROVE  PteInv'
  <2>1. \A u \in Threads : u # t => pc'[u] = pc[u] /\ area'[u] = area[u]
    BY <1>4 DEF FindVma, BadArea
  <2>2. pte' = pte
    BY <1>4 DEF FindVma
  <2>3. CASE UNCHANGED vma
    <3>1. pc'[t] = "handle" => area'[t] = vma /\ vma # NoVma /\ vma.start = "below"
      BY <1>4, <2>3, PageFaultAssumption DEF FindVma, BadArea, Vmas
    <3> QED
      BY <2>1, <2>2, <2>3, <3>1
  <2>4. CASE vma # NoVma /\ vma.start = "above" /\ vma' = [vma EXCEPT !.start = "below"]
    <3>1. vma' # NoVma /\ vma'.start = "below"
      BY <2>4, PageFaultAssumption DEF Vmas
    <3>2. pte = {} /\ \A u \in Threads : pc[u] # "handle"
      BY <2>4
    <3>3. pc'[t] = "handle" => area'[t] = vma'
      BY <1>4, <2>4, <3>1 DEF FindVma, BadArea
    <3> QED
      BY <2>1, <2>2, <3>1, <3>2, <3>3
  <2> QED
    BY <1>4, <2>3, <2>4 DEF FindVma
<1>5. ASSUME NEW t \in Threads, HandleMmFault(t)
      PROVE  PteInv'
  <2>1. pc'[t] \in {"down_read", "exit"} /\ pc' = [pc EXCEPT ![t] = pc'[t]]
    BY <1>5 DEF HandleMmFault
  <2>2. AreaCurrent'
    BY <1>5, <2>1 DEF HandleMmFault
  <2>3. area[t] = vma /\ vma # NoVma /\ vma.start = "below" /\ UNCHANGED vma
    BY <1>5 DEF HandleMmFault
  <2>4. \/ UNCHANGED pte
        \/ pte' = pte \cup vma.perm
        \/ pte' = pte \cup (vma.perm \ {"w"})
    BY <1>5, <2>3 DEF HandleMmFault
  <2>5. PteExact'
    BY <2>3, <2>4
  <2> QED
    BY <2>2, <2>5
<1>6. ASSUME NEW t \in Threads, Exit(t)
      PROVE  PteInv'
  BY <1>6 DEF Exit
<1>7. ASSUME NEW t \in Threads,
             Retry(t) \/ SysRead(t) \/ SysReadDone(t) \/ SysWait(t) \/ SysWrite(t) \/ Kill(t)
      PROVE  PteInv'
  BY <1>7 DEF Retry, SysRead, SysReadDone, SysWait, SysWrite, Kill, handler
<1>8. ASSUME NEW t \in Threads, SysWriteDone(t)
      PROVE  PteInv'
  <2>1. writer = t
    BY <1>8 DEF LockInv, WriterExact, SysWriteDone
  <2>2. \A u \in Threads : nread[u] = 0
    BY <2>1, PageFaultAssumption DEF LockInv, ReadersExcludeWriter
  <2>3. \A u \in Threads : pc[u] # "handle"
    BY <2>2 DEF LockInv, SemaphoreBalanced
  <2>4. AreaCurrent'
    BY <1>8, <2>3 DEF SysWriteDone
  <2>5. PteExact'
    BY <1>8, PageFaultAssumption DEF SysWriteDone, Vmas
  <2> QED
    BY <2>4, <2>5
<1>9. ASSUME Reclaim \/ (\E rights \in KernelRights : KernelMap(rights)) \/ UNCHANGED vars
      PROVE  PteInv'
  BY <1>9 DEF Reclaim, KernelMap, vars, handler
<1> QED
  BY <1>1, <1>2, <1>3, <1>4, <1>5, <1>6, <1>7, <1>8, <1>9 DEF Next, Thread, Handler

\* The rights of the entry follow those of the vma, and the handler installs
\* the rights of the vma it found.
THEOREM PteInvTheorem == Spec => []PteInv
<1>1. Init => PteInv
  BY DEF Init, PteInv, AreaCurrent, PteExact
<1> QED
  BY <1>1, PteStep, LockTheorem, PTL DEF Spec

\* fault.c: a page table entry never grants what the vma does not, although
\* faults fill it while other threads unmap, protect and expand the area.
THEOREM PteTheorem == Spec => []PteWithinVma
<1>1. PteInv => PteWithinVma
  BY DEF PteInv, PteExact, PteWithinVma
<1> QED
  BY PteInvTheorem, <1>1, PTL
-----------------------------------------------------------------------------
(***************************************************************************)
(* Who answers for a fault.  The handler decides it from the error code    *)
(* and the saved registers, which must still be those of the access.       *)
(***************************************************************************)

Blames(r, v) ==
  /\ v.kind \in {"signal", "oom"} => r.user
  /\ v.kind \in {"oops", "survived", "panic", "frozen"} =>
       r.rsvd \/ (~r.user /\ (user_mode(r) \/ ~r.ext))

\* The error code says with whose rights the access was made.
ModeOf(r, c) ==
  /\ "USER" \in c <=> r.user
  /\ "RSVD" \in c <=> r.rsvd
  /\ r.user => user_mode(r)

\* no_context() is for what was not done with user rights; the operators that
\* send signals or call it ask for the right one of the two.
LEMMA VerdictsBlame ==
  ASSUME NEW r, NEW c, NEW sig, NEW t, NEW v, ModeOf(r, c)
  PROVE  /\ ~r.user /\ v \in no_context(r, c, sig) => Blames(r, v)
         /\ v \in bad_area_nosemaphore(r, c, sig) => Blames(r, v)
         /\ \A a : v \in bad_area_access_error(a, r, c) => Blames(r, v)
         /\ \A fault \in {"OOM", "SIGBUS", "HWPOISON", "SIGSEGV"} :
              v \in mm_fault_error(t, r, c, fault) => Blames(r, v)
<1>1. \A kind : v \in Ended(kind) => v.kind = kind
  BY DEF Ended, Verdict
<1>2. \A kind, s : v \in Signal(kind, s, r, c) => v.kind = kind
  BY DEF Signal, Verdict
<1>3. ASSUME ~r.user, NEW s, v \in no_context(r, c, s)
      PROVE  Blames(r, v)
  <2>1. CASE user_mode(r)
    <3>1. v \in Ended("oops") \/ v \in Ended("survived")
      BY <1>3, <2>1 DEF no_context, Oops
    <3> QED
      BY <1>1, <1>3, <2>1, <3>1 DEF Blames
  <2>2. CASE ~user_mode(r) /\ r.ext
    <3>1. v \in Signal("fixup", s, r, c) \/ v \in Ended("fixup")
      BY <1>3, <2>2 DEF no_context
    <3>2. v.kind = "fixup"
      BY <1>1, <1>2, <3>1
    <3> QED
      BY <3>2 DEF Blames
  <2>3. CASE ~user_mode(r) /\ ~r.ext
    <3>1. \/ v \in Ended("panic") \/ v \in Ended("ignored") \/ v \in Ended("frozen")
          \/ v \in Ended("oops") \/ v \in Ended("survived")
      BY <1>3, <2>3 DEF no_context, Oops
    <3>2. v.kind \in {"panic", "ignored", "frozen", "oops", "survived"}
      BY <1>1, <3>1
    <3> QED
      BY <1>3, <2>3, <3>2 DEF Blames
  <2> QED
    BY <2>1, <2>2, <2>3
<1>4. ASSUME NEW s, v \in bad_area_nosemaphore(r, c, s)
      PROVE  Blames(r, v)
  <2>1. CASE user_mode(r) /\ "USER" \in c
    <3>1. v \in Ended("ignored") \/ v \in Signal("signal", s, r, c)
      BY <1>4, <2>1 DEF bad_area_nosemaphore
    <3>2. v.kind \in {"ignored", "signal"} /\ r.user
      BY <1>1, <1>2, <2>1, <3>1 DEF ModeOf
    <3> QED
      BY <3>2 DEF Blames
  <2>2. CASE ~(user_mode(r) /\ "USER" \in c)
    BY <1>3, <1>4, <2>2 DEF bad_area_nosemaphore, ModeOf
  <2> QED
    BY <2>1, <2>2
<1>5. ASSUME NEW fault, v \in do_sigbus(r, c, fault)
      PROVE  Blames(r, v)
  <2>1. CASE "USER" \in c
    <3>1. v \in Ended("ignored") \/ \E s : v \in Signal("signal", s, r, c)
      BY <1>5, <2>1 DEF do_sigbus
    <3>2. v.kind \in {"ignored", "signal"} /\ r.user
      BY <1>1, <1>2, <2>1, <3>1 DEF ModeOf
    <3> QED
      BY <3>2 DEF Blames
  <2>2. CASE "USER" \notin c
    BY <1>3, <1>5, <2>2 DEF do_sigbus, ModeOf
  <2> QED
    BY <2>1, <2>2
<1>6. ASSUME NEW fault \in {"OOM", "SIGBUS", "HWPOISON", "SIGSEGV"},
             v \in mm_fault_error(t, r, c, fault)
      PROVE  Blames(r, v)
  <2>1. \/ "USER" \notin c /\ \E s : v \in no_context(r, c, s)
        \/ "USER" \in c /\ v \in Ended("oom")
        \/ v \in do_sigbus(r, c, fault)
        \/ v \in bad_area_nosemaphore(r, c, "SEGV_MAPERR")
    BY <1>6 DEF mm_fault_error
  <2>2. CASE "USER" \in c /\ v \in Ended("oom")
    <3>1. v.kind = "oom" /\ r.user
      BY <1>1, <2>2 DEF ModeOf
    <3> QED
      BY <3>1 DEF Blames
  <2> QED
    BY <1>3, <1>4, <1>5, <2>1, <2>2 DEF ModeOf
<1> QED
  BY <1>3, <1>4, <1>6 DEF bad_area_access_error

BlameInv ==
  /\ DOMAIN verdict = Threads
  /\ \A t \in Threads : pc[t] # "exit" => verdict[t] = None
  /\ \A t \in Threads : InHandler(t) => ModeOf(regs[t], code[t])
  /\ RightOneBlamed

\* A thread that leaves the handler with a verdict that blames the right one.
LEMMA LeaveBlames ==
  ASSUME TypeOK, BlameInv, NEW t \in Threads, NEW S, Leave(t, S), InHandler(t),
         UNCHANGED <<regs, code>>, \A v \in S : Blames(regs[t], v)
  PROVE  BlameInv'
<1>1. PICK v \in S : verdict' = [verdict EXCEPT ![t] = v]
  BY DEF Leave
<1>2. pc' = [pc EXCEPT ![t] = "exit"]
  BY DEF Leave
<1>3. DOMAIN verdict' = Threads /\ verdict'[t] = v
  BY <1>1 DEF BlameInv
<1>4. \A u \in Threads : u # t => verdict'[u] = verdict[u] /\ pc'[u] = pc[u]
  BY <1>1, <1>2 DEF BlameInv, TypeOK
<1>5. \A u \in Threads : InHandler(u)' => InHandler(u)
  BY <1>4 DEF InHandler
<1>6. RightOneBlamed'
  BY <1>3, <1>4 DEF BlameInv, RightOneBlamed, Blames
<1>7. \A u \in Threads : pc'[u] # "exit" => verdict'[u] = None
  BY <1>2, <1>4 DEF BlameInv, TypeOK
<1> QED
  BY <1>3, <1>5, <1>6, <1>7 DEF BlameInv

\* A thread that goes on to another place, of the handler if it is in it.
LEMMA GotoBlames ==
  ASSUME TypeOK, BlameInv, NEW t \in Threads, NEW place, Goto(t, place), pc[t] # "exit",
         UNCHANGED <<regs, code>>,
         InHandler(t) \/ place \in Outside \cup {"sys_wait", "dead"}
  PROVE  BlameInv'
<1>1. pc' = [pc EXCEPT ![t] = place] /\ UNCHANGED verdict
  BY DEF Goto
<1>2. \A u \in Threads : u # t => pc'[u] = pc[u]
  BY <1>1 DEF TypeOK
<1>3. pc'[t] = place
  BY <1>1 DEF TypeOK
<1>4. \A u \in Threads : InHandler(u)' => InHandler(u)
  BY <1>2, <1>3 DEF InHandler
<1>5. \A u \in Threads : pc'[u] # "exit" => verdict'[u] = None
  BY <1>1, <1>2 DEF BlameInv
<1> QED
  BY <1>1, <1>4, <1>5 DEF BlameInv, RightOneBlamed

\* Every way out of the handler blames the right one.
LEMMA BlameStep == LockInv /\ BlameInv /\ [Next]_vars => BlameInv'
<1> SUFFICES ASSUME LockInv, BlameInv, [Next]_vars PROVE BlameInv'
  OBVIOUS
<1>0. TypeOK /\ RegsOK
  BY DEF LockInv, SemaphoreBalanced
<1>1. ASSUME NEW t \in Threads, NEW r \in Accesses[t], Fault(t, r)
      PROVE  BlameInv'
  <2>1. verdict[t] = None /\ UNCHANGED verdict
    BY <1>1 DEF Fault, Outside, BlameInv
  <2>2. verdict[t].kind = "none"
    BY <2>1 DEF None, Verdict
  <2>3. \A u \in Threads : u # t => regs'[u] = regs[u] /\ pc'[u] = pc[u] /\ code'[u] = code[u]
    BY <1>0, <1>1 DEF Fault, TypeOK, RegsOK
  <2>4. regs'[t] = r /\ code'[t] = ErrorCode(t, r) /\ pc'[t] = "entry"
    BY <1>0, <1>1 DEF Fault, TypeOK, RegsOK
  <2>5. ModeOf(r, ErrorCode(t, r))
    <3>1. r \in AccessKinds /\ (r.user => r.cs # "kernel")
      BY PageFaultAssumption
    <3> QED
      BY <3>1 DEF ModeOf, ErrorCode, AccessKinds, user_mode
  <2>6. \A u \in Threads : InHandler(u)' => ModeOf(regs[u], code[u])'
    BY <2>3, <2>4, <2>5 DEF BlameInv, InHandler
  <2>7. RightOneBlamed'
    BY <2>1, <2>2, <2>3 DEF BlameInv, RightOneBlamed
  <2>8. \A u \in Threads : pc'[u] # "exit" => verdict'[u] = None
    BY <2>1, <2>3 DEF BlameInv
  <2> QED
    BY <2>1, <2>6, <2>7, <2>8 DEF BlameInv
<1>2. ASSUME NEW t \in Threads, NEW r \in Accesses[t], Touch(t, r)
      PROVE  BlameInv'
  BY <1>2 DEF Touch, handler, BlameInv, RightOneBlamed, InHandler
<1>e. ASSUME NEW t \in Threads, NEW kind, InHandler(t), Leave(t, Ended(kind)),
             UNCHANGED <<regs, code>>,
             \/ kind \notin {"signal", "oom", "oops", "survived", "panic", "frozen"}
             \/ kind = "oops" /\ "RSVD" \in code[t]
      PROVE  BlameInv'
  <2>1. \A v \in Ended(kind) : v.kind = kind
    BY DEF Ended, Verdict
  <2>2. "RSVD" \in code[t] => regs[t].rsvd
    BY <1>e DEF BlameInv, ModeOf
  <2>3. \A v \in Ended(kind) : Blames(regs[t], v)
    BY <1>e, <2>1, <2>2 DEF Blames
  <2> QED
    BY <1>0, <1>e, <2>3, LeaveBlames
<1>b. ASSUME NEW t \in Threads, NEW sig, InHandler(t), UNCHANGED <<regs, code>>,
             Leave(t, bad_area_nosemaphore(regs[t], code[t], sig))
      PROVE  BlameInv'
  <2>1. ModeOf(regs[t], code[t])
    BY <1>b DEF BlameInv
  <2>2. \A v \in bad_area_nosemaphore(regs[t], code[t], sig) : Blames(regs[t], v)
    BY <2>1, VerdictsBlame
  <2> QED
    BY <1>0, <1>b, <2>2, LeaveBlames
<1>3. ASSUME NEW t \in Threads, DoPageFault(t)
      PROVE  BlameInv'
  <2>1. UNCHANGED <<regs, code>> /\ pc[t] = "entry"
    BY <1>3 DEF DoPageFault, handler
  <2>2. InHandler(t)
    BY <2>1 DEF InHandler, Outside
  <2>3. Leave(t, Ended("ignored")) \/ Goto(t, "vmalloc") \/ Goto(t, "user")
    BY <1>3 DEF DoPageFault
  <2> QED
    BY <1>0, <2>1, <2>2, <2>3, <1>e, GotoBlames
<1>4. ASSUME NEW t \in Threads, VmallocFault(t)
      PROVE  BlameInv'
  <2>1. UNCHANGED <<regs, code>> /\ pc[t] = "vmalloc"
    BY <1>4 DEF VmallocFault, handler
  <2>2. InHandler(t)
    BY <2>1 DEF InHandler, Outside
  <2>3. Leave(t, Ended("resolved")) \/ Goto(t, "spurious")
    BY <1>0, <1>4 DEF VmallocFault, TypeOK
  <2> QED
    BY <1>0, <2>1, <2>2, <2>3, <1>e, GotoBlames
<1>5. ASSUME NEW t \in Threads, SpuriousFault(t)
      PROVE  BlameInv'
  <2>1. UNCHANGED <<regs, code>> /\ pc[t] = "spurious"
    BY <1>5 DEF SpuriousFault, handler
  <2>2. InHandler(t)
    BY <2>1 DEF InHandler, Outside
  <2>3. \/ Leave(t, Ended("resolved")) \/ Leave(t, Ended("ignored"))
        \/ Leave(t, bad_area_nosemaphore(regs[t], code[t], "SEGV_MAPERR"))
    BY <1>5 DEF SpuriousFault
  <2> QED
    BY <2>1, <2>2, <2>3, <1>e, <1>b
<1>6. ASSUME NEW t \in Threads, DoUserAddrFault(t) \/ FindVma(t)
      PROVE  BlameInv'
  <2>1. UNCHANGED <<regs, code>> /\ pc[t] \in {"user", "find_vma"}
    BY <1>6 DEF DoUserAddrFault, FindVma, handler
  <2>2. InHandler(t)
    BY <2>1 DEF InHandler, Outside
  <2>3. \/ Leave(t, Ended("ignored")) \/ Leave(t, Ended("emulated"))
        \/ "RSVD" \in code[t] /\ Leave(t, Ended("oops"))
        \/ Leave(t, bad_area_nosemaphore(regs[t], code[t], "SEGV_MAPERR"))
        \/ \E a : Leave(t, bad_area_access_error(a, regs[t], code[t]))
        \/ Goto(t, "find_vma") \/ Goto(t, "down_read") \/ Goto(t, "handle")
    BY <1>6 DEF DoUserAddrFault, pgtable_bad, FindVma, BadArea
  <2>4. ASSUME NEW a, Leave(t, bad_area_access_error(a, regs[t], code[t]))
        PROVE  BlameInv'
    BY <2>1, <2>2, <2>4, <1>b DEF bad_area_access_error
  <2> QED
    BY <1>0, <2>1, <2>2, <2>3, <2>4, <1>e, <1>b, GotoBlames
<1>7. ASSUME NEW t \in Threads, HandleMmFault(t)
      PROVE  BlameInv'
  <2> DEFINE S(fault) == mm_fault_error(t, regs[t], code[t], fault)
  <2>1. UNCHANGED <<regs, code>> /\ pc[t] = "handle"
    BY <1>7 DEF HandleMmFault
  <2>2. InHandler(t)
    BY <2>1 DEF InHandler, Outside
  <2>3. ModeOf(regs[t], code[t])
    BY <2>2 DEF BlameInv
  <2>4. \/ Goto(t, "down_read")
        \/ \E kind \in {"major", "minor", "return"} : Leave(t, Ended(kind))
        \/ ~user_mode(regs[t]) /\ Leave(t, no_context(regs[t], code[t], "BUS_ADRERR"))
        \/ \E fault \in {"OOM", "SIGBUS", "HWPOISON", "SIGSEGV"} : Leave(t, S(fault))
    BY <1>7 DEF HandleMmFault
  <2>5. ASSUME NEW kind \in {"major", "minor", "return"}, Leave(t, Ended(kind))
        PROVE  BlameInv'
    BY <2>1, <2>2, <2>5, <1>e
  <2>6. ASSUME NEW fault \in {"OOM", "SIGBUS", "HWPOISON", "SIGSEGV"}, Leave(t, S(fault))
        PROVE  BlameInv'
    <3>1. \A v \in S(fault) : Blames(regs[t], v)
      BY <2>3, VerdictsBlame
    <3> QED
      BY <1>0, <2>1, <2>2, <2>6, <3>1, LeaveBlames
  <2>7. CASE ~user_mode(regs[t]) /\ Leave(t, no_context(regs[t], code[t], "BUS_ADRERR"))
    <3>1. ~regs[t].user
      BY <2>3, <2>7 DEF ModeOf
    <3>2. \A v \in no_context(regs[t], code[t], "BUS_ADRERR") : Blames(regs[t], v)
      BY <2>3, <3>1, VerdictsBlame
    <3> QED
      BY <1>0, <2>1, <2>2, <2>7, <3>2, LeaveBlames
  <2> QED
    BY <1>0, <2>1, <2>2, <2>4, <2>5, <2>6, <2>7, GotoBlames
<1>8. ASSUME NEW t \in Threads, Exit(t)
      PROVE  BlameInv'
  <2>1. verdict' = [verdict EXCEPT ![t] = None] /\ None.kind = "none"
    BY <1>8 DEF Exit, None, Verdict
  <2>2. \A u \in Threads : u # t => /\ regs'[u] = regs[u] /\ code'[u] = code[u]
                                    /\ pc'[u] = pc[u] /\ verdict'[u] = verdict[u]
    BY <1>0, <1>8, <2>1 DEF Exit, TypeOK, RegsOK, BlameInv
  <2>3. verdict'[t] = None /\ pc'[t] \in Outside \cup {"dead"}
    BY <1>0, <1>8, <2>1 DEF Exit, TypeOK, BlameInv
  <2>4. \A u \in Threads : InHandler(u)' => ModeOf(regs[u], code[u])'
    BY <2>2, <2>3 DEF InHandler, BlameInv
  <2>5. RightOneBlamed'
    BY <2>1, <2>2, <2>3 DEF BlameInv, RightOneBlamed
  <2> QED
    BY <2>1, <2>2, <2>3, <2>4, <2>5 DEF BlameInv
<1>9. ASSUME NEW t \in Threads,
             \/ Retry(t) \/ SysRead(t) \/ SysReadDone(t) \/ SysWait(t) \/ SysWrite(t)
             \/ SysWriteDone(t)
      PROVE  BlameInv'
  <2>1. UNCHANGED <<regs, code>> /\ pc[t] # "exit"
    BY <1>9 DEF Retry, SysRead, SysReadDone, SysWait, SysWrite, SysWriteDone, handler
  <2>2. \/ pc[t] = "down_read" /\ Goto(t, "find_vma")
        \/ \E place \in Outside \cup {"sys_wait"} : Goto(t, place)
    BY <1>9 DEF Retry, SysRead, SysReadDone, SysWait, SysWrite, SysWriteDone, Outside
  <2>3. pc[t] = "down_read" => InHandler(t)
    BY DEF InHandler, Outside
  <2> QED
    BY <1>0, <2>1, <2>2, <2>3, GotoBlames
<1>10. ASSUME \/ \E t \in Threads : Kill(t)
              \/ Reclaim
              \/ \E rights \in KernelRights : KernelMap(rights)
              \/ UNCHANGED vars
       PROVE  BlameInv'
  BY <1>10 DEF Kill, Reclaim, KernelMap, vars, handler, BlameInv, RightOneBlamed, InHandler
<1> QED
  BY <1>1, <1>2, <1>3, <1>4, <1>5, <1>6, <1>7, <1>8, <1>9, <1>10 DEF Next, Thread, Handler

\* A thread has a verdict only at the exit, and its error code is that of the
\* access until then.
THEOREM BlameInvTheorem == Spec => []BlameInv
<1>1. Init => BlameInv
  BY DEF Init, BlameInv, RightOneBlamed, InHandler, Outside, None, Verdict
<1> QED
  BY <1>1, BlameStep, LockTheorem, PTL DEF Spec

\* fault.c: on every path that ends in a signal, the OOM killer or an oops it
\* is the one who made the access that answers for it.
THEOREM BlameTheorem == Spec => []RightOneBlamed
<1>1. BlameInv => RightOneBlamed
  BY DEF BlameInv
<1> QED
  BY BlameInvTheorem, <1>1, PTL
-----------------------------------------------------------------------------
(***************************************************************************)
(* Refusals.  What the handler decides it decides from the error code, the *)
(* vma and the kernel's tables; the invariant says what these still tell   *)
(* of the access although the tables have changed since it was made.       *)
(***************************************************************************)

\* The error code describes the access.
CodeOf(t) ==
  /\ regs[t] \in AccessKinds
  /\ "WRITE" \in code[t] <=> regs[t].access = "write"
  /\ "INSTR" \in code[t] <=> regs[t].access = "exec"
  /\ "USER" \in code[t] <=> regs[t].user
  /\ "RSVD" \in code[t] <=> regs[t].rsvd
  /\ "PK" \in code[t] => regs[t].addr = "page" /\ excused[t]

\* An access that is forbidden now, or was found so by the processor, is
\* excused.
ExcuseOf(t) ==
  /\ Forbidden(regs[t], vma, kpte) => excused[t]
  /\ /\ regs[t].addr = "page" /\ "PROT" \in code[t] /\ regs[t].access # "write"
     => excused[t]
  /\ /\ regs[t].addr = "vmalloc" /\ "PROT" \in code[t] /\ ~regs[t].mmio
     => excused[t] \/ regs[t].access # "read"

\* Each half of the handler has its kind of address.
PlaceOf(t) ==
  /\ pc[t] \in {"vmalloc", "spurious"} => fault_in_kernel_space(regs[t]) /\ ~regs[t].mmio
  /\ pc[t] \in {"user", "down_read", "find_vma", "handle"} => ~fault_in_kernel_space(regs[t])
  /\ pc[t] = "spurious" /\ "PROT" \notin code[t] => excused[t]

\* The vmalloc page is readable wherever it is mapped, and never executable.
KernelTablesOK ==
  /\ kpte \in KernelRights
  /\ kpte # {} => kref # 0
  /\ \A t \in Threads : tlb[t] # {} => "r" \in tlb[t]

RefusalInv ==
  /\ KernelTablesOK
  /\ \A t \in Threads : InHandler(t) => CodeOf(t) /\ ExcuseOf(t) /\ PlaceOf(t)
  /\ RefusalJustified

\* Only vmalloc and vfree change the reference table, and a TLB takes what it
\* holds from there.
LEMMA TablesStep == LockInv /\ RefusalInv /\ [Next]_vars => KernelTablesOK'
<1> SUFFICES ASSUME LockInv, RefusalInv, [Next]_vars PROVE KernelTablesOK'
  OBVIOUS
<1>0. TypeOK /\ KernelTablesOK
  BY DEF LockInv, SemaphoreBalanced, RefusalInv
<1> USE <1>0 DEF TypeOK, KernelTablesOK
<1>1. ASSUME NEW t \in Threads, NEW r \in Accesses[t], Fault(t, r) \/ Touch(t, r)
      PROVE  KernelTablesOK'
  BY <1>1 DEF Fault, Touch, KernelRights
<1>2. ASSUME NEW rights \in KernelRights, KernelMap(rights)
      PROVE  KernelTablesOK'
  BY <1>2 DEF KernelMap
<1>3. CASE UNCHANGED <<kpte, kref, tlb>>
  BY <1>3
<1> QED
  BY <1>1, <1>2, <1>3
     DEF Next, Thread, Handler, vars, kernel, DoPageFault, VmallocFault, SpuriousFault,
         DoUserAddrFault, FindVma, HandleMmFault, Exit, Retry, SysRead, SysReadDone, SysWait,
         SysWrite, SysWriteDone, Kill, Reclaim

\* What is known of an access stays known as long as every change of the
\* tables that forbids it is remembered.
LEMMA FactsKept ==
  ASSUME NEW u \in Threads, CodeOf(u), ExcuseOf(u),
         regs'[u] = regs[u], code'[u] = code[u], excused[u] => excused'[u],
         Forbidden(regs[u], vma', kpte') => excused'[u]
  PROVE  CodeOf(u)' /\ ExcuseOf(u)'
BY DEF CodeOf, ExcuseOf

\* A step that moves one thread, inside the handler or outside it.
LEMMA MoveFacts ==
  ASSUME TypeOK, RefusalInv, NEW t \in Threads, NEW l, pc' = [pc EXCEPT ![t] = l],
         UNCHANGED <<regs, code>>,
         \A u \in Threads : excused[u] => excused'[u],
         \A u \in Threads : InHandler(u) /\ Forbidden(regs[u], vma', kpte') => excused'[u],
         InHandler(t)' => InHandler(t) /\ PlaceOf(t)'
  PROVE  \A u \in Threads : InHandler(u)' => (CodeOf(u) /\ ExcuseOf(u) /\ PlaceOf(u))'
<1> SUFFICES ASSUME NEW u \in Threads, InHandler(u)'
             PROVE  (CodeOf(u) /\ ExcuseOf(u) /\ PlaceOf(u))'
  OBVIOUS
<1>1. InHandler(u)
  BY DEF InHandler, TypeOK
<1>2. CodeOf(u)' /\ ExcuseOf(u)'
  BY <1>1, FactsKept DEF RefusalInv
<1>3. PlaceOf(u)'
  <2>1. CASE u = t
    BY <2>1
  <2>2. CASE u # t
    <3>1. pc'[u] = pc[u]
      BY <2>2 DEF TypeOK
    <3> QED
      BY <1>1, <3>1 DEF PlaceOf, RefusalInv
  <2> QED
    BY <2>1, <2>2
<1> QED
  BY <1>2, <1>3

\* Expanding a stack forbids nothing.
LEMMA ExpandPermits ==
  ASSUME NEW v \in Vmas, NEW r, NEW rights,
         Forbidden(r, [v EXCEPT !.start = "below"], rights)
  PROVE  Forbidden(r, v, rights)
<1> DEFINE w == [v EXCEPT !.start = "below"]
<1>1. w \in Vmas /\ w.start = "below" /\ w.perm = v.perm /\ w.pkey = v.pkey
  BY DEF Vmas
<1>2. Permits(v, r) => Permits(w, r)
  BY <1>1, PageFaultAssumption DEF Permits
<1> QED
  BY <1>2 DEF Forbidden

\* What the processor pushes describes the access and the tables.
LEMMA FaultFacts ==
  ASSUME LockInv, PteInv, RefusalInv, NEW t \in Threads, NEW r \in Accesses[t], Fault(t, r)
  PROVE  (CodeOf(t) /\ ExcuseOf(t) /\ PlaceOf(t))'
<1>0. /\ TypeOK /\ RegsOK /\ VmasOK
      /\ r \in AccessKinds
  BY PageFaultAssumption DEF LockInv, SemaphoreBalanced
<1>1. /\ pc'[t] = "entry" /\ regs'[t] = r /\ code'[t] = ErrorCode(t, r)
      /\ excused'[t] = Forbidden(r, vma, kpte) /\ UNCHANGED <<vma, kpte>> /\ ~Hit(t, r)
  BY <1>0 DEF Fault, TypeOK, RegsOK
<1>2. PlaceOf(t)'
  BY <1>1 DEF PlaceOf
<1>3. "PK" \in ErrorCode(t, r) => r.addr = "page" /\ Forbidden(r, vma, kpte)
  BY <1>0 DEF ErrorCode, Forbidden, Permits
<1>4. CodeOf(t)'
  BY <1>0, <1>1, <1>3 DEF CodeOf, ErrorCode, AccessKinds
<1>5. ASSUME r.addr = "page", "PROT" \in ErrorCode(t, r), r.access # "write"
      PROVE  Forbidden(r, vma, kpte)
  <2>1. r.rsvd \/ pte # {}
    BY <1>5 DEF ErrorCode
  <2>2. CASE r.rsvd
    BY <1>5, <2>2 DEF Forbidden
  <2>3. CASE pte # {} /\ ~r.rsvd
    <3>1. Needs(r) \notin pte \/ (r.access # "exec" /\ vma.pkey \in Denied)
            \/ (SMAP /\ ~r.user /\ ~r.ac)
      BY <1>0, <1>1, <1>5, <2>3 DEF Hit
    <3>2. Needs(r) # "w" /\ vma.perm \ {"w"} \subseteq pte
      BY <1>5, <2>3 DEF Needs, PteInv, PteExact
    <3>3. ~Permits(vma, r) \/ (SMAP /\ ~r.user /\ ~r.ac)
      BY <3>1, <3>2 DEF Permits
    <3> QED
      BY <1>5, <3>3 DEF Forbidden
  <2> QED
    BY <1>0, <2>1, <2>2, <2>3
<1>6. ASSUME r.addr = "vmalloc", "PROT" \in ErrorCode(t, r), ~r.mmio, r.access = "read"
      PROVE  Forbidden(r, vma, kpte)
  <2>1. r.rsvd \/ tlb[t] # {} \/ (ktop # 0 /\ kpte # {})
    BY <1>6 DEF ErrorCode
  <2>2. CASE ~r.user /\ ~r.rsvd
    <3>1. "r" \in IF tlb[t] # {} THEN tlb[t] ELSE IF ktop # 0 THEN kpte ELSE {}
      BY <2>1, <2>2 DEF RefusalInv, KernelTablesOK, KernelRights
    <3> QED
      BY <1>1, <1>6, <2>2, <3>1 DEF Hit, Needs
  <2>3. CASE r.user \/ r.rsvd
    BY <1>6, <2>3 DEF Forbidden
  <2> QED
    BY <1>0, <2>2, <2>3 DEF AccessKinds
<1>7. ExcuseOf(t)'
  BY <1>1, <1>5, <1>6 DEF ExcuseOf
<1> QED
  BY <1>2, <1>4, <1>7

\* Every step of the handler, of the system calls and of the kernel keeps what
\* is known of the accesses that are being handled.
LEMMA FactsStep ==
  ASSUME LockInv, PteInv, RefusalInv, [Next]_vars
  PROVE  \A u \in Threads : InHandler(u)' => (CodeOf(u) /\ ExcuseOf(u) /\ PlaceOf(u))'
<1>0. TypeOK /\ RegsOK /\ VmasOK
  BY DEF LockInv, SemaphoreBalanced
<1>f. \A u \in Threads : InHandler(u) => CodeOf(u) /\ ExcuseOf(u) /\ PlaceOf(u)
  BY DEF RefusalInv
<1>e. \A u \in Threads : InHandler(u) /\ Forbidden(regs[u], vma, kpte) => excused[u]
  BY <1>f DEF ExcuseOf
<1> DEFINE Goal ==
      \A u \in Threads : InHandler(u)' => (CodeOf(u) /\ ExcuseOf(u) /\ PlaceOf(u))'
<1> HIDE DEF Goal
<1>m. ASSUME NEW t \in Threads, NEW l, pc' = [pc EXCEPT ![t] = l],
             UNCHANGED <<regs, code, vma, kpte>>,
             \A u \in Threads : excused[u] => excused'[u],
             InHandler(t)' => InHandler(t) /\ PlaceOf(t)'
      PROVE  Goal
  BY <1>0, <1>e, <1>m, MoveFacts DEF Goal
<1>1. ASSUME NEW t \in Threads, NEW r \in Accesses[t], Fault(t, r)
      PROVE  Goal
  <2> SUFFICES ASSUME NEW u \in Threads, InHandler(u)'
               PROVE  (CodeOf(u) /\ ExcuseOf(u) /\ PlaceOf(u))'
    BY DEF Goal
  <2>1. CASE u = t
    BY <1>1, <2>1, FaultFacts
  <2>2. CASE u # t
    <3>1. /\ pc'[u] = pc[u] /\ regs'[u] = regs[u] /\ code'[u] = code[u]
          /\ excused'[u] = excused[u] /\ UNCHANGED <<vma, kpte>>
      BY <1>0, <1>1, <2>2 DEF Fault, TypeOK, RegsOK
    <3>2. InHandler(u)
      BY <3>1 DEF InHandler
    <3>3. CodeOf(u)' /\ ExcuseOf(u)'
      BY <1>e, <1>f, <3>1, <3>2, FactsKept
    <3> QED
      BY <1>f, <3>1, <3>2, <3>3 DEF PlaceOf
  <2> QED
    BY <2>1, <2>2
<1>2. ASSUME NEW t \in Threads, NEW r \in Accesses[t], Touch(t, r)
      PROVE  Goal
  <2>1. pc' = [pc EXCEPT ![t] = pc[t]] /\ pc[t] \in Outside
    BY <1>0, <1>2 DEF Touch, TypeOK
  <2>2. ~InHandler(t)'
    BY <1>0, <2>1 DEF InHandler, Outside, TypeOK
  <2> QED
    BY <1>2, <2>1, <2>2, <1>m DEF Touch, handler
<1>3. ASSUME NEW t \in Threads, DoPageFault(t)
      PROVE  Goal
  <2>1. InHandler(t) /\ regs[t] \in AccessKinds
    BY <1>3, <1>f DEF DoPageFault, InHandler, Outside, CodeOf
  <2>2. PICK l \in {"exit", "vmalloc", "user"} :
          /\ pc' = [pc EXCEPT ![t] = l]
          /\ l = "vmalloc" => fault_in_kernel_space(regs[t]) /\ ~regs[t].mmio
          /\ l = "user" => ~fault_in_kernel_space(regs[t])
    BY <1>3, <2>1 DEF DoPageFault, Goto, Leave, kmmio_fault
  <2>3. UNCHANGED <<regs, code, vma, kpte, excused>>
    BY <1>3 DEF DoPageFault, handler, kernel
  <2>4. PlaceOf(t)'
    BY <1>0, <2>2, <2>3 DEF PlaceOf, TypeOK, fault_in_kernel_space
  <2> QED
    BY <2>1, <2>2, <2>3, <2>4, <1>m
<1>4. ASSUME NEW t \in Threads, VmallocFault(t)
      PROVE  Goal
  <2>1. InHandler(t) /\ CodeOf(t) /\ ExcuseOf(t) /\ PlaceOf(t) /\ pc[t] = "vmalloc"
    BY <1>4, <1>f DEF VmallocFault, InHandler, Outside
  <2>2. PICK l \in {"exit", "spurious"} : pc' = [pc EXCEPT ![t] = l]
    BY <1>4 DEF VmallocFault, Goto, Leave
  <2>3. UNCHANGED <<regs, code, vma, kpte, excused>>
    BY <1>4 DEF VmallocFault, handler
  <2>4. l = "spurious" /\ "PROT" \notin code[t] => excused[t]
    <3> SUFFICES ASSUME l = "spurious", "PROT" \notin code[t]
                 PROVE  Forbidden(regs[t], vma, kpte)
      BY <2>1 DEF ExcuseOf
    <3>1. CASE regs[t].addr # "vmalloc"
      BY <2>1, <3>1 DEF Forbidden, PlaceOf, fault_in_kernel_space
    <3>2. CASE regs[t].addr = "vmalloc" /\ (regs[t].user \/ regs[t].rsvd)
      BY <3>2 DEF Forbidden
    <3>3. CASE regs[t].addr = "vmalloc" /\ ~regs[t].user /\ ~regs[t].rsvd
      <4>1. code[t] \cap {"RSVD", "USER", "PROT"} = {}
        BY <2>1, <3>3 DEF CodeOf
      <4>2. pc'[t] = "spurious"
        BY <1>0, <2>2 DEF TypeOK
      <4>3. kref = 0 \/ ~Resolves(regs[t])
        BY <1>0, <1>4, <4>1, <4>2 DEF VmallocFault, Leave, TypeOK
      <4>4. kpte = {}
        BY <3>3, <4>3 DEF Resolves, RefusalInv, KernelTablesOK
      <4> QED
        BY <3>3, <4>4 DEF Forbidden
    <3> QED
      BY <3>1, <3>2, <3>3
  <2>5. PlaceOf(t)'
    BY <1>0, <2>1, <2>2, <2>3, <2>4 DEF PlaceOf, TypeOK, fault_in_kernel_space
  <2> QED
    BY <2>1, <2>2, <2>3, <2>5, <1>m
<1>5. ASSUME NEW t \in Threads, SpuriousFault(t)
      PROVE  Goal
  <2>1. InHandler(t)
    BY <1>5 DEF SpuriousFault, InHandler, Outside
  <2>2. pc' = [pc EXCEPT ![t] = "exit"] /\ UNCHANGED <<regs, code, vma, kpte, excused>>
    BY <1>5 DEF SpuriousFault, Leave, handler, kernel
  <2>3. PlaceOf(t)'
    BY <1>0, <2>2 DEF PlaceOf, TypeOK
  <2> QED
    BY <2>1, <2>2, <2>3, <1>m
<1>6. ASSUME NEW t \in Threads, DoUserAddrFault(t) \/ Retry(t)
      PROVE  Goal
  <2>1. InHandler(t) /\ PlaceOf(t) /\ pc[t] \in {"user", "down_read"}
    BY <1>6, <1>f DEF DoUserAddrFault, Retry, InHandler, Outside
  <2>2. PICK l \in {"exit", "find_vma", "down_read"} : pc' = [pc EXCEPT ![t] = l]
    BY <1>6 DEF DoUserAddrFault, Retry, Goto, Leave
  <2>3. UNCHANGED <<regs, code, vma, kpte, excused>>
    BY <1>6 DEF DoUserAddrFault, Retry, handler, kernel
  <2>4. PlaceOf(t)'
    BY <1>0, <2>1, <2>2, <2>3 DEF PlaceOf, TypeOK, fault_in_kernel_space
  <2> QED
    BY <2>1, <2>2, <2>3, <2>4, <1>m
<1>7. ASSUME NEW t \in Threads, FindVma(t)
      PROVE  Goal
  <2>1. InHandler(t) /\ PlaceOf(t) /\ pc[t] = "find_vma"
    BY <1>7, <1>f DEF FindVma, InHandler, Outside
  <2>2. PICK l \in {"exit", "handle"} : pc' = [pc EXCEPT ![t] = l]
    BY <1>7 DEF FindVma, BadArea, Goto, Leave
  <2>3. UNCHANGED <<regs, code, kpte, excused>>
    BY <1>7 DEF FindVma, kernel
  <2>4. PlaceOf(t)'
    BY <1>0, <2>1, <2>2, <2>3 DEF PlaceOf, TypeOK, fault_in_kernel_space
  <2>5. vma' = vma \/ (vma \in Vmas /\ vma' = [vma EXCEPT !.start = "below"])
    BY <1>0, <1>7 DEF FindVma, VmasOK
  <2>6. \A u \in Threads : InHandler(u) /\ Forbidden(regs[u], vma', kpte') => excused'[u]
    BY <1>e, <2>3, <2>5, ExpandPermits
  <2> QED
    BY <1>0, <2>1, <2>2, <2>3, <2>4, <2>6, MoveFacts DEF Goal
<1>8. ASSUME NEW t \in Threads, HandleMmFault(t)
      PROVE  Goal
  <2>1. InHandler(t) /\ PlaceOf(t) /\ pc[t] = "handle"
    BY <1>8, <1>f DEF HandleMmFault, InHandler, Outside
  <2>2. PICK l \in {"exit", "down_read"} : pc' = [pc EXCEPT ![t] = l]
    BY <1>8 DEF HandleMmFault, Goto, Leave
  <2>3. UNCHANGED <<regs, code, vma, kpte>> /\ \A u \in Threads : excused[u] => excused'[u]
    BY <1>0, <1>8 DEF HandleMmFault, kernel, TypeOK
  <2>4. PlaceOf(t)'
    BY <1>0, <2>1, <2>2, <2>3 DEF PlaceOf, TypeOK, fault_in_kernel_space
  <2> QED
    BY <2>1, <2>2, <2>3, <2>4, <1>m
<1>9. ASSUME NEW t \in Threads, Exit(t)
      PROVE  Goal
  <2> SUFFICES ASSUME NEW u \in Threads, InHandler(u)'
               PROVE  (CodeOf(u) /\ ExcuseOf(u) /\ PlaceOf(u))'
    BY DEF Goal
  <2>1. u # t
    BY <1>0, <1>9 DEF Exit, InHandler, Outside, TypeOK
  <2>2. /\ pc'[u] = pc[u] /\ regs'[u] = regs[u] /\ code'[u] = code[u]
        /\ excused'[u] = excused[u] /\ UNCHANGED <<vma, kpte>>
    BY <1>0, <1>9, <2>1 DEF Exit, TypeOK, RegsOK, kernel
  <2>3. InHandler(u)
    BY <2>2 DEF InHandler
  <2>4. CodeOf(u)' /\ ExcuseOf(u)'
    BY <1>e, <1>f, <2>2, <2>3, FactsKept
  <2> QED
    BY <1>f, <2>2, <2>3, <2>4 DEF PlaceOf
<1>10. ASSUME NEW t \in Threads,
              SysRead(t) \/ SysReadDone(t) \/ SysWait(t) \/ SysWrite(t)
       PROVE  Goal
  <2>1. PICK l \in {"sys_read", "run", "sys_wait", "sys_write"} : pc' = [pc EXCEPT ![t] = l]
    BY <1>10 DEF SysRead, SysReadDone, SysWait, SysWrite, Goto
  <2>2. ~InHandler(t)'
    BY <1>0, <2>1 DEF InHandler, Outside, TypeOK
  <2>3. UNCHANGED <<regs, code, vma, kpte, excused>>
    BY <1>10 DEF SysRead, SysReadDone, SysWait, SysWrite, handler, kernel
  <2> QED
    BY <2>1, <2>2, <2>3, <1>m
<1>11. ASSUME NEW t \in Threads, SysWriteDone(t)
       PROVE  Goal
  <2>1. pc' = [pc EXCEPT ![t] = "run"] /\ UNCHANGED <<regs, code, kpte>>
    BY <1>11 DEF SysWriteDone, Goto, kernel
  <2>2. ~InHandler(t)'
    BY <1>0, <2>1 DEF InHandler, Outside, TypeOK
  <2>3. \A u \in Threads : (excused[u] => excused'[u])
                              /\ (InHandler(u) /\ Forbidden(regs[u], vma', kpte') => excused'[u])
    BY <1>11, <2>1 DEF SysWriteDone, Excuse
  <2> QED
    BY <1>0, <2>1, <2>2, <2>3, MoveFacts DEF Goal
<1>12. ASSUME NEW t \in Threads, Kill(t)
       PROVE  Goal
  <2>1. pc' = [pc EXCEPT ![t] = pc[t]] /\ UNCHANGED <<regs, code, vma, kpte, excused>>
    BY <1>0, <1>12 DEF Kill, TypeOK, handler, kernel
  <2>2. InHandler(t) /\ PlaceOf(t)
    BY <1>12, <1>f DEF Kill, InHandler, Outside
  <2>3. PlaceOf(t)'
    BY <1>12, <2>1, <2>2 DEF Kill, PlaceOf, fault_in_kernel_space
  <2> QED
    BY <2>1, <2>2, <2>3, <1>m
<1>13. CASE Reclaim \/ UNCHANGED vars
  <2> UNCHANGED <<pc, regs, code, vma, kpte, excused>>
    BY <1>13 DEF Reclaim, vars, handler, kernel
  <2> QED
    BY <1>f DEF Goal, InHandler, CodeOf, ExcuseOf, PlaceOf
<1>14. ASSUME NEW rights \in KernelRights, KernelMap(rights)
       PROVE  Goal
  <2> SUFFICES ASSUME NEW u \in Threads, InHandler(u)'
               PROVE  (CodeOf(u) /\ ExcuseOf(u) /\ PlaceOf(u))'
    BY DEF Goal
  <2>1. InHandler(u) /\ UNCHANGED <<pc, regs, code, vma>>
    BY <1>14 DEF KernelMap, InHandler
  <2>2. (excused[u] => excused'[u]) /\ (Forbidden(regs[u], vma', kpte') => excused'[u])
    BY <1>14, <2>1 DEF KernelMap, Excuse
  <2>3. CodeOf(u)' /\ ExcuseOf(u)'
    BY <1>f, <2>1, <2>2, FactsKept
  <2> QED
    BY <1>f, <2>1, <2>2, <2>3 DEF PlaceOf
<1> QED
  BY <1>1, <1>2, <1>3, <1>4, <1>5, <1>6, <1>7, <1>8, <1>9, <1>10, <1>11, <1>12,
     <1>13, <1>14 DEF Next, Thread, Handler, Goal

\* A verdict is given only where the access is excused, or for kernel code
\* that must not wait.
LEMMA RefusalStep ==
  ASSUME LockInv, PteInv, BlameInv, RefusalInv, [Next]_vars
  PROVE  RefusalJustified'
<1>0. TypeOK /\ RegsOK /\ VmasOK
  BY DEF LockInv, SemaphoreBalanced
<1>f. \A u \in Threads : InHandler(u) => CodeOf(u) /\ ExcuseOf(u) /\ PlaceOf(u)
  BY DEF RefusalInv
<1> DEFINE Refusals == {"signal", "fixup", "oops", "survived", "panic"}
           Justified(t) == excused[t] \/ (regs[t].addr = "page" /\ MustNotWait(regs[t]))
<1>l. ASSUME NEW t \in Threads, NEW S, Leave(t, S), UNCHANGED regs,
             \A u \in Threads : excused[u] => excused'[u],
             Justified(t)' \/ \A v \in S : v.kind \notin Refusals
      PROVE  RefusalJustified'
  <2>1. PICK v \in S : verdict' = [verdict EXCEPT ![t] = v]
    BY <1>l DEF Leave
  <2>2. verdict'[t] = v /\ \A u \in Threads : u # t => verdict'[u] = verdict[u]
    BY <2>1 DEF BlameInv
  <2> QED
    BY <1>l, <2>2 DEF RefusalJustified, RefusalInv
<1>n. ASSUME NEW t \in Threads, NEW kind, kind \notin Refusals, Leave(t, Ended(kind)),
             UNCHANGED regs, \A u \in Threads : excused[u] => excused'[u]
      PROVE  RefusalJustified'
  <2>1. \A v \in Ended(kind) : v.kind \notin Refusals
    BY <1>n DEF Ended, Verdict
  <2> QED
    BY <1>n, <2>1, <1>l
<1>u. ASSUME UNCHANGED <<verdict, regs>>, \A u \in Threads : excused[u] => excused'[u]
      PROVE  RefusalJustified'
  BY <1>u DEF RefusalJustified, RefusalInv
<1>1. ASSUME NEW t \in Threads, NEW r \in Accesses[t], Fault(t, r)
      PROVE  RefusalJustified'
  <2>1. verdict[t].kind = "none" /\ UNCHANGED verdict
    BY <1>1 DEF Fault, Outside, BlameInv, None, Verdict
  <2>2. \A u \in Threads : u # t => regs'[u] = regs[u] /\ excused'[u] = excused[u]
    BY <1>0, <1>1 DEF Fault, TypeOK, RegsOK
  <2> QED
    BY <2>1, <2>2 DEF RefusalJustified, RefusalInv
<1>2. ASSUME NEW t \in Threads, NEW r \in Accesses[t], Touch(t, r)
      PROVE  RefusalJustified'
  BY <1>2, <1>u DEF Touch, handler
<1>3. ASSUME NEW t \in Threads, DoPageFault(t)
      PROVE  RefusalJustified'
  BY <1>3, <1>n, <1>u DEF DoPageFault, Goto, handler
<1>4. ASSUME NEW t \in Threads, VmallocFault(t)
      PROVE  RefusalJustified'
  <2>1. UNCHANGED <<regs, excused>>
    BY <1>4 DEF VmallocFault, handler
  <2>2. Leave(t, Ended("resolved")) \/ Goto(t, "spurious")
    BY <1>0, <1>4 DEF VmallocFault, TypeOK
  <2> QED
    BY <2>1, <2>2, <1>n, <1>u DEF Goto
<1>5. ASSUME NEW t \in Threads, SpuriousFault(t)
      PROVE  RefusalJustified'
  <2>1. UNCHANGED <<regs, excused>>
    BY <1>5 DEF SpuriousFault, handler
  <2>2. CodeOf(t) /\ ExcuseOf(t) /\ PlaceOf(t) /\ pc[t] = "spurious"
    BY <1>5, <1>f DEF SpuriousFault, InHandler, Outside
  <2>3. CASE excused[t]
    BY <1>5, <2>1, <2>3, <1>l DEF SpuriousFault
  <2>4. CASE ~excused[t]
    <3>1. "PROT" \in code[t] /\ regs[t].addr = "vmalloc"
      BY <2>2, <2>4 DEF PlaceOf, ExcuseOf, Forbidden, fault_in_kernel_space
    <3>2. /\ ~regs[t].user /\ ~regs[t].rsvd /\ regs[t].access # "read"
          /\ Needs(regs[t]) \in kpte
      BY <2>2, <2>4, <3>1 DEF ExcuseOf, PlaceOf, Forbidden
    <3>3. regs[t].access = "write" /\ "w" \in kpte
      BY <2>2, <3>2 DEF Needs, CodeOf, AccessKinds, RefusalInv, KernelTablesOK, KernelRights
    <3>4. code[t] = {"WRITE", "PROT"}
      <4>1. /\ "WRITE" \in code[t] /\ "INSTR" \notin code[t] /\ "USER" \notin code[t]
            /\ "RSVD" \notin code[t] /\ "PK" \notin code[t]
        BY <2>2, <2>4, <3>2, <3>3 DEF CodeOf
      <4> QED
        BY <1>0, <3>1, <4>1 DEF TypeOK, Bits
    <3>5. spurious_kernel_fault_check({"WRITE", "PROT"}, kpte)
      BY <3>3 DEF spurious_kernel_fault_check
    <3>6. spurious_kernel_fault(regs[t], code[t])
      BY <3>1, <3>3, <3>4, <3>5 DEF spurious_kernel_fault, RefusalInv, KernelTablesOK
    <3> QED
      BY <1>5, <2>1, <3>6, <1>n DEF SpuriousFault
  <2> QED
    BY <2>3, <2>4
<1>6. ASSUME NEW t \in Threads, DoUserAddrFault(t)
      PROVE  RefusalJustified'
  <2>1. UNCHANGED <<regs, excused>>
    BY <1>6 DEF DoUserAddrFault, handler
  <2>2. CodeOf(t) /\ ExcuseOf(t) /\ PlaceOf(t) /\ pc[t] = "user"
    BY <1>6, <1>f DEF DoUserAddrFault, InHandler, Outside
  <2>3. regs[t].addr # "page" => excused[t]
    BY <2>2 DEF PlaceOf, ExcuseOf, Forbidden, fault_in_kernel_space
  <2>4. "RSVD" \in code[t] \/ Refused(regs[t], code[t]) => excused[t]
    BY <2>2, <2>3 DEF CodeOf, ExcuseOf, Forbidden, Refused
  <2>5. \/ Leave(t, Ended("ignored")) \/ Leave(t, Ended("emulated"))
        \/ Justified(t) /\ \E S : Leave(t, S)
        \/ UNCHANGED verdict
    BY <1>6, <2>3, <2>4 DEF DoUserAddrFault, Goto
  <2> QED
    BY <2>1, <2>5, <1>l, <1>n, <1>u
<1>7. ASSUME NEW t \in Threads, FindVma(t)
      PROVE  RefusalJustified'
  <2>1. UNCHANGED <<regs, excused>>
    BY <1>7 DEF FindVma
  <2>2. CodeOf(t) /\ ExcuseOf(t) /\ PlaceOf(t) /\ pc[t] = "find_vma"
    BY <1>7, <1>f DEF FindVma, InHandler, Outside
  <2>3. CASE excused[t]
    BY <1>7, <2>1, <2>3, <1>l, <1>u DEF FindVma, BadArea, Goto
  <2>4. CASE ~excused[t]
    <3>1. regs[t].addr = "page" /\ Permits(vma, regs[t])
      BY <2>2, <2>4 DEF PlaceOf, ExcuseOf, Forbidden, fault_in_kernel_space
    <3>2. vma # NoVma /\ vma.start = "below"
      BY <3>1 DEF Permits
    <3>3. ~access_error(vma, code[t])
      BY <2>2, <2>4, <3>1
         DEF access_error, arch_vma_access_permitted, Permits, Needs, CodeOf, ExcuseOf, AccessKinds
    <3> QED
      BY <1>7, <2>1, <3>1, <3>2, <3>3, <1>u DEF FindVma, Goto
  <2> QED
    BY <2>3, <2>4
<1>8. ASSUME NEW t \in Threads, HandleMmFault(t)
      PROVE  RefusalJustified'
  <2>1. UNCHANGED regs /\ \A u \in Threads : excused[u] => excused'[u]
    BY <1>0, <1>8 DEF HandleMmFault, TypeOK
  <2>2. \/ Leave(t, Ended("major")) \/ Leave(t, Ended("minor"))
        \/ excused'[t] /\ \E S : Leave(t, S)
        \/ UNCHANGED verdict
    BY <1>0, <1>8 DEF HandleMmFault, Goto, TypeOK
  <2> QED
    BY <2>1, <2>2, <1>l, <1>n, <1>u
<1>9. ASSUME NEW t \in Threads, Exit(t)
      PROVE  RefusalJustified'
  <2>1. verdict'[t].kind = "none"
    BY <1>9 DEF Exit, BlameInv, None, Verdict
  <2>2. \A u \in Threads : u # t => /\ verdict'[u] = verdict[u] /\ regs'[u] = regs[u]
                                    /\ excused'[u] = excused[u]
    BY <1>0, <1>9 DEF Exit, TypeOK, RegsOK, BlameInv
  <2> QED
    BY <2>1, <2>2 DEF RefusalJustified, RefusalInv
<1>10. ASSUME NEW t \in Threads,
              \/ Retry(t) \/ SysRead(t) \/ SysReadDone(t) \/ SysWait(t) \/ SysWrite(t)
              \/ Kill(t)
       PROVE  RefusalJustified'
  BY <1>10, <1>u
     DEF Retry, SysRead, SysReadDone, SysWait, SysWrite, Kill, Goto, handler
<1>11. ASSUME NEW t \in Threads, SysWriteDone(t)
       PROVE  RefusalJustified'
  BY <1>11, <1>u DEF SysWriteDone, Excuse, Goto
<1>12. ASSUME \/ Reclaim
              \/ \E rights \in KernelRights : KernelMap(rights)
              \/ UNCHANGED vars
       PROVE  RefusalJustified'
  BY <1>12, <1>u DEF Reclaim, KernelMap, Excuse, vars, handler
<1> QED
  BY <1>1, <1>2, <1>3, <1>4, <1>5, <1>6, <1>7, <1>8, <1>9, <1>10, <1>11, <1>12
     DEF Next, Thread, Handler

\* fault.c: a fault is refused only if the tables forbade the access at some
\* moment since it was made, or the memory manager failed, or kernel code
\* that expects no fault could not have mmap_sem.
THEOREM RefusalTheorem == Spec => []RefusalJustified
<1>1. Init => RefusalInv
  BY DEF Init, RefusalInv, KernelTablesOK, KernelRights, InHandler, Outside,
         RefusalJustified, None, Verdict
<1>2. LockInv /\ PteInv /\ BlameInv /\ RefusalInv /\ [Next]_vars => RefusalInv'
  BY TablesStep, FactsStep, RefusalStep DEF RefusalInv
<1>3. Spec => []RefusalInv
  BY <1>1, <1>2, LockTheorem, PteInvTheorem, BlameInvTheorem, PTL DEF Spec
<1>4. RefusalInv => RefusalJustified
  BY DEF RefusalInv
<1> QED
  BY <1>3, <1>4, PTL
=============================================================================
