------------------------------ MODULE PageFault ------------------------------
(***************************************************************************)
(* The x86-64 page fault handler, crashdump/fault.c, run by the threads of *)
(* one address space.  The data is one user page, one page of the vmalloc  *)
(* area and the tables that map them; the rest of the address space is     *)
(* told apart only as far as the handler does.  Everything the handler     *)
(* decides is here, in its order; what it prints is not.                   *)
(*                                                                         *)
(* A step of a thread ends where the handler reads or writes what others   *)
(* share: mmap_sem, the mapping of the page, the kernel's page tables.     *)
(***************************************************************************)
EXTENDS Integers, Sequences, FiniteSets

CONSTANTS
  Threads,     \* the threads of the address space
  NoThread,    \* nobody holds mmap_sem for writing
  Callers,     \* those that make system calls on their mappings
  Accesses,    \* Accesses[t]: the memory accesses the code of t makes
  Mappings,    \* what the system calls may make of the page's vma
  NoVma,       \* find_vma() finds nothing
  Denied,      \* the protection keys PKRU denies
  SMAP,        \* cpu_feature_enabled(X86_FEATURE_SMAP)
  OSPKE,       \* boot_cpu_has(X86_FEATURE_OSPKE)
  K8,          \* an AMD family 0xf processor
  MaxInstr     \* the longest instruction, 15 bytes in the code

Rights == {"r", "w", "x"}

\* What the handler reads of a vma; pkey is the protection key of its pages.
Vmas == [start : {"below", "above"}, grows : BOOLEAN, perm : SUBSET Rights, pkey : 0 .. 15]

\* What it reads of an access, its registers, its code and its context.
AccessKinds ==
  [cs : {"user64", "compat", "kernel"}, user : BOOLEAN, access : {"read", "write", "exec"},
   addr : {"page", "vmalloc", "guard", "vsyscall", "lowip"}, ext : BOOLEAN, ac : BOOLEAN,
   atomic : BOOLEAN, irq : BOOLEAN, sigerr : BOOLEAN, instr : Seq({"prefix", "rex", "0F", "hint", "other"}),
   rsvd : BOOLEAN, efi : BOOLEAN, kprobe : BOOLEAN, mmio : BOOLEAN]

ASSUME PageFaultAssumption ==
  /\ NoThread \notin Threads /\ Callers \subseteq Threads
  /\ Accesses \in [Threads -> SUBSET AccessKinds]
  /\ Mappings \subseteq Vmas /\ NoVma \notin Vmas /\ Denied \subseteq 0 .. 15
  /\ SMAP \in BOOLEAN /\ OSPKE \in BOOLEAN /\ K8 \in BOOLEAN
  /\ MaxInstr \in Nat \ {0}
  /\ \A t \in Threads : \A r \in Accesses[t] : r.user => r.cs # "kernel"

VARIABLES
  pc,          \* where each thread is
  back,        \* what its fault has interrupted
  regs,        \* the access that faulted, its registers and its instruction
  code,        \* hw_error_code, as the set of its X86_PF_ bits
  tries,       \* retries of handle_mm_fault() for this fault, counted up to 2
  major,       \* one of them was a VM_FAULT_MAJOR
  area,        \* the vma found for this fault, the handler's local pointer
  verdict,     \* how the handler left its last fault
  excused,     \* (history) something forbade the access since it faulted
  nread,       \* mmap_sem: how often each thread holds it for reading
  writer,      \* mmap_sem: who holds it for writing
  fatal,       \* fatal_signal_pending()
  vma,         \* the vma find_vma() gives for the page
  pte,         \* the rights of the page's pte; {} when it is not present
  ktop,        \* the vmalloc area's top-level entry of this address space
  kref,        \* the same entry of the reference table, init_mm
  kpte,        \* the rights of the vmalloc page; {} when it is not present
  tlb          \* the rights each thread's TLB holds for that page

handler == <<back, regs, code, tries, major, area, excused>>
sem == <<nread, writer>>
kernel == <<ktop, kref, kpte, tlb>>
vars == <<pc, handler, verdict, sem, fatal, vma, pte, kernel>>

Bits == {"PROT", "WRITE", "USER", "RSVD", "INSTR", "PK"}

Needs(r) == CASE r.access = "read" -> "r" [] r.access = "write" -> "w" [] OTHER -> "x"

\* fault_in_kernel_space(): the vsyscall page does not count.
fault_in_kernel_space(r) == r.addr \in {"vmalloc", "guard"}

\* address >= TASK_SIZE_MAX
AboveTaskSize(r) == fault_in_kernel_space(r) \/ r.addr = "vsyscall"

user_mode(r) == r.cs # "kernel"

-----------------------------------------------------------------------------
(* What the handler asks of an instruction, a vma or a page table entry    *)

\* check_prefetch_opcode(): the byte is a prefix, the search goes on.
Prefix(r, b) == b = "prefix" \/ (b = "rex" /\ r.cs # "compat")

\* The first byte that is no prefix begins 0x0F 0x0D or 0x0F 0x18.
is_prefetch(r, c) ==
  /\ "INSTR" \notin c
  /\ \E i \in 1 .. MaxInstr :
       /\ i < Len(r.instr)
       /\ \A j \in 1 .. i - 1 : Prefix(r, r.instr[j])
       /\ r.instr[i] = "0F" /\ r.instr[i + 1] = "hint"

\* Kernel code was entered with the upper half of RIP cleared.
is_errata93(r) == K8 /\ r.access = "exec" /\ r.addr = "lowip"

\* Compatibility mode jumped above 4GB.
is_errata100(r) == r.cs = "compat" /\ AboveTaskSize(r)

arch_vma_access_permitted(v, c) == "INSTR" \in c \/ v.pkey \notin Denied

access_error(v, c) ==
  \/ "PK" \in c
  \/ ~arch_vma_access_permitted(v, c)
  \/ "WRITE" \in c /\ "w" \notin v.perm
  \/ "WRITE" \notin c /\ ("PROT" \in c \/ v.perm = {})

bad_area_access_from_pkeys(v, c) ==
  OSPKE /\ ("PK" \in c \/ ~arch_vma_access_permitted(v, c))

spurious_kernel_fault_check(c, rights) ==
  /\ "WRITE" \in c => "w" \in rights
  /\ "INSTR" \in c => "x" \in rights

\* Only a write or a fetch refused by a present kernel entry is spurious,
\* and only if the reference table allows it by now.
spurious_kernel_fault(r, c) ==
  /\ c \in {{"WRITE", "PROT"}, {"INSTR", "PROT"}}
  /\ kref # 0 /\ r.addr = "vmalloc" /\ kpte # {}
  /\ spurious_kernel_fault_check(c, kpte)

-----------------------------------------------------------------------------
(* How a fault may end                                                     *)

Verdict(kind, sig, c) == [kind |-> kind, sig |-> sig, code |-> c]
None == Verdict("none", "none", {})
Ended(kind) == {Verdict(kind, "none", {})}

\* set_signal_archinfo() and force_sig_fault(): what the task gets to see.
Signal(kind, sig, r, c) ==
  {Verdict(kind, sig, c \cup {"USER"} \cup (IF AboveTaskSize(r) THEN {"PROT"} ELSE {}))}

\* oops_end() kills the task, unless a notifier stopped __die().
Oops == Ended("oops") \cup Ended("survived")

\* no_context(): exception table, stack overflow, quirks, firmware, oops.
no_context(r, c, sig) ==
  CASE user_mode(r) -> Oops
    [] ~user_mode(r) /\ r.ext ->
         IF ~r.irq /\ r.sigerr /\ sig # "none" THEN Signal("fixup", sig, r, c) ELSE Ended("fixup")
    [] ~user_mode(r) /\ ~r.ext /\ r.addr = "guard" -> Ended("panic")
    [] OTHER ->
         IF is_prefetch(r, c) \/ is_errata93(r) THEN Ended("ignored")
         ELSE IF r.efi THEN Ended("frozen") ELSE Oops

\* __bad_area_nosemaphore()
bad_area_nosemaphore(r, c, sig) ==
  IF user_mode(r) /\ "USER" \in c
  THEN IF is_prefetch(r, c) \/ is_errata100(r) THEN Ended("ignored") ELSE Signal("signal", sig, r, c)
  ELSE no_context(r, c, sig)

bad_area_access_error(v, r, c) ==
  bad_area_nosemaphore(r, c, IF bad_area_access_from_pkeys(v, c) THEN "SEGV_PKUERR" ELSE "SEGV_ACCERR")

do_sigbus(r, c, fault) ==
  IF "USER" \notin c THEN no_context(r, c, "BUS_ADRERR")
  ELSE IF is_prefetch(r, c) THEN Ended("ignored")
  ELSE Signal("signal", IF fault = "HWPOISON" THEN "BUS_MCEERR" ELSE "BUS_ADRERR", r, c)

\* Mutant of mm_fault_error: the OOM killer is called for the kernel too.
mm_fault_error_AnyMode(t, r, c, fault) ==
  IF t \in fatal /\ "USER" \notin c THEN no_context(r, c, "none")
  ELSE CASE fault = "OOM" -> Ended("oom")
         [] fault \in {"SIGBUS", "HWPOISON"} -> do_sigbus(r, c, fault)
         [] fault = "SIGSEGV" -> bad_area_nosemaphore(r, c, "SEGV_MAPERR")

mm_fault_error(t, r, c, fault) ==
  IF t \in fatal /\ "USER" \notin c THEN no_context(r, c, "none")
  ELSE CASE fault = "OOM" -> IF "USER" \notin c THEN no_context(r, c, "SEGV_MAPERR") ELSE Ended("oom")
         [] fault \in {"SIGBUS", "HWPOISON"} -> do_sigbus(r, c, fault)
         [] fault = "SIGSEGV" -> bad_area_nosemaphore(r, c, "SEGV_MAPERR")

Deadly == {"oops", "panic", "frozen"}

\* The handler is done, with one of these verdicts.
Leave(t, verdicts) ==
  /\ \E v \in verdicts : verdict' = [verdict EXCEPT ![t] = v]
  /\ pc' = [pc EXCEPT ![t] = "exit"]

Goto(t, place) == pc' = [pc EXCEPT ![t] = place] /\ UNCHANGED verdict

-----------------------------------------------------------------------------
(* mmap_sem                                                                *)

\* down_read_trylock() succeeds, down_read() returns.
CanRead == writer = NoThread /\ \A u \in Threads : pc[u] # "sys_wait"

DownRead(t) == nread' = [nread EXCEPT ![t] = @ + 1] /\ UNCHANGED writer

UpRead(t) == nread' = [nread EXCEPT ![t] = @ - 1] /\ UNCHANGED writer

-----------------------------------------------------------------------------
(* The hardware raises a fault                                             *)

\* The vma allows the access, now.
Permits(v, r) ==
  /\ v # NoVma
  /\ v.start = "below"
  /\ Needs(r) \in v.perm
  /\ r.access = "exec" \/ v.pkey \notin Denied

\* The page table and the processor let the access through.
Hit(t, r) ==
  CASE r.addr = "page" ->
         /\ Needs(r) \in pte /\ ~r.rsvd
         /\ r.access = "exec" \/ vma.pkey \notin Denied
         /\ ~(SMAP /\ ~r.user /\ ~r.ac)
    [] r.addr = "vmalloc" ->
         /\ ~r.user /\ ~r.rsvd /\ ~r.mmio
         /\ Needs(r) \in IF tlb[t] # {} THEN tlb[t] ELSE IF ktop # 0 THEN kpte ELSE {}
    [] OTHER -> FALSE

\* The error code the processor pushes.
ErrorCode(t, r) ==
  LET present == CASE r.addr = "page" -> pte # {}
                   [] r.addr = "vmalloc" -> tlb[t] # {} \/ (ktop # 0 /\ kpte # {})
                   [] OTHER -> FALSE
  IN (IF present \/ r.rsvd THEN {"PROT"} ELSE {})
     \cup (IF r.rsvd THEN {"RSVD"} ELSE {})
     \cup (IF r.access = "write" THEN {"WRITE"} ELSE {})
     \cup (IF r.access = "exec" THEN {"INSTR"} ELSE {})
     \cup (IF r.user THEN {"USER"} ELSE {})
     \cup (IF r.addr = "page" /\ pte # {} /\ r.access # "exec" /\ vma.pkey \in Denied THEN {"PK"} ELSE {})

\* The access is one the tables do not allow, or one no table can allow.
Forbidden(r, v, rights) ==
  CASE r.addr = "page" -> ~Permits(v, r) \/ (SMAP /\ ~r.user /\ ~r.ac) \/ r.rsvd \/ r.atomic
    [] r.addr = "vmalloc" -> r.user \/ Needs(r) \notin rights \/ r.rsvd
    [] OTHER -> TRUE

\* What is in the registers outside a fault does not matter.
AnyAccess == CHOOSE r \in UNION {Accesses[t] : t \in Threads} : TRUE

Outside == {"run", "sys_read", "sys_write"}
InHandler(t) == pc[t] \notin Outside \cup {"sys_wait", "dead"}

\* A system call that holds mmap_sem makes no access it expects to fault, so
\* the ones that do fault there are not in the exception tables.
Fault(t, r) ==
  /\ pc[t] \in Outside
  /\ pc[t] # "run" => ~user_mode(r) /\ ~r.ext
  /\ ~Hit(t, r)
  /\ pc' = [pc EXCEPT ![t] = "entry"]
  /\ back' = [back EXCEPT ![t] = pc[t]]
  /\ regs' = [regs EXCEPT ![t] = r]
  /\ code' = [code EXCEPT ![t] = ErrorCode(t, r)]
  /\ excused' = [excused EXCEPT ![t] = Forbidden(r, vma, kpte)]
  /\ tlb' = [tlb EXCEPT ![t] = IF r.addr = "vmalloc" THEN {} ELSE @]
  /\ UNCHANGED <<tries, major, area, verdict, sem, fatal, vma, pte, ktop, kref, kpte>>

\* A kernel access that does not fault leaves its translation in the TLB.
Touch(t, r) ==
  /\ pc[t] \in Outside
  /\ r.addr = "vmalloc" /\ Hit(t, r) /\ tlb[t] = {}
  /\ tlb' = [tlb EXCEPT ![t] = kpte]
  /\ UNCHANGED <<pc, handler, verdict, sem, fatal, vma, pte, ktop, kref, kpte>>

-----------------------------------------------------------------------------
(* The handler                                                             *)

\* mmiotrace owns the page and takes the fault.
kmmio_fault(r) == r.mmio

\* do_page_fault(), __do_page_fault()
DoPageFault(t) ==
  /\ pc[t] = "entry"
  /\ IF kmmio_fault(regs[t]) THEN Leave(t, Ended("ignored"))
     ELSE Goto(t, IF fault_in_kernel_space(regs[t]) THEN "vmalloc" ELSE "user")
  /\ UNCHANGED <<handler, sem, fatal, vma, pte, kernel>>

\* vmalloc_fault() on the walk below the top-level entry.
Resolves(r) == r.addr = "vmalloc" /\ kpte # {}

\* Mutant of VmallocFault: a mended entry is treated as unmended.
VmallocFault_Forgets(t) ==
  /\ pc[t] = "vmalloc"
  /\ Goto(t, "spurious")
  /\ UNCHANGED <<handler, sem, fatal, vma, pte, kernel>>

\* Mutant of VmallocFault: the walk starts again until the page is mapped.
VmallocFault_WalksAgain(t) ==
  /\ pc[t] = "vmalloc"
  /\ IF code[t] \cap {"RSVD", "USER", "PROT"} # {} \/ kref = 0
     THEN Goto(t, "spurious") /\ UNCHANGED ktop
     ELSE /\ ktop' = kref
          /\ IF Resolves(regs[t]) THEN Leave(t, Ended("resolved")) ELSE Goto(t, "vmalloc")
  /\ UNCHANGED <<handler, sem, fatal, vma, pte, kref, kpte, tlb>>

\* vmalloc_fault(): the top-level entry is copied from the reference table;
\* one that differs from it is a BUG.
VmallocFault(t) ==
  LET r == regs[t] IN
  /\ pc[t] = "vmalloc"
  /\ IF code[t] \cap {"RSVD", "USER", "PROT"} # {} \/ kref = 0
     THEN Goto(t, "spurious") /\ UNCHANGED ktop
     ELSE /\ ktop' = IF ktop = 0 THEN kref ELSE ktop
          /\ IF Resolves(r) \/ ktop' # kref
             THEN Leave(t, IF ktop' = kref THEN Ended("resolved") ELSE Oops)
             ELSE Goto(t, "spurious")
  /\ UNCHANGED <<handler, sem, fatal, vma, pte, kref, kpte, tlb>>

\* The rest of do_kern_addr_fault().
SpuriousFault(t) ==
  /\ pc[t] = "spurious"
  /\ IF spurious_kernel_fault(regs[t], code[t]) THEN Leave(t, Ended("resolved"))
     ELSE IF regs[t].kprobe THEN Leave(t, Ended("ignored"))
     ELSE Leave(t, bad_area_nosemaphore(regs[t], code[t], "SEGV_MAPERR"))
  /\ UNCHANGED <<handler, sem, fatal, vma, pte, kernel>>

\* pgtable_bad(): a corrupted table ends in an oops, unless a notifier stopped
\* __die(), and the handler goes on.
pgtable_bad == Ended("oops")

\* The access is refused before mmap_sem is asked for: SMAP, or a context
\* that must not sleep or has no user memory.
Refused(r, c) == (SMAP /\ "USER" \notin c /\ ~r.ac) \/ r.atomic

\* Mutant of MustNotWait: the exception tables are not searched.
MustNotWait_Forgotten(r) == FALSE

\* down_read_trylock() failed in kernel code that no exception table entry
\* covers: waiting could be for this very thread.
MustNotWait(r) == ~user_mode(r) /\ ~r.ext

\* do_user_addr_fault() up to mmap_sem.  A corrupted table oopses, and a
\* notifier may let the handler go on; the vsyscall page may be emulated.
DoUserAddrFault(t) ==
  LET r == regs[t]
      c == code[t]
  IN
  /\ pc[t] = "user"
  /\ \/ r.kprobe /\ Leave(t, Ended("ignored")) /\ UNCHANGED sem
     \/ ~r.kprobe /\ "RSVD" \in c /\ Leave(t, pgtable_bad) /\ UNCHANGED sem
     \/ ~r.kprobe /\ Refused(r, c) /\ Leave(t, bad_area_nosemaphore(r, c, "SEGV_MAPERR")) /\ UNCHANGED sem
     \/ /\ ~r.kprobe /\ ~Refused(r, c)
        /\ r.addr = "vsyscall"
        /\ Leave(t, Ended("emulated")) /\ UNCHANGED sem
     \/ /\ ~r.kprobe /\ ~Refused(r, c)
        /\ IF CanRead THEN Goto(t, "find_vma") /\ DownRead(t)
           ELSE IF MustNotWait(r) THEN Leave(t, bad_area_nosemaphore(r, c, "SEGV_MAPERR")) /\ UNCHANGED sem
           ELSE Goto(t, "down_read") /\ UNCHANGED sem
  /\ UNCHANGED <<handler, fatal, vma, pte, kernel>>

\* Mutant of Retry: mmap_sem is taken although a writer holds it.
Retry_BesideWriter(t) ==
  /\ pc[t] = "down_read"
  /\ nread' = [nread EXCEPT ![t] = @ + 1]
  /\ Goto(t, "find_vma")
  /\ UNCHANGED <<writer, handler, fatal, vma, pte, kernel>>

\* down_read(): after a failed trylock, and again for a retry.
Retry(t) ==
  /\ pc[t] = "down_read"
  /\ CanRead
  /\ DownRead(t)
  /\ Goto(t, "find_vma")
  /\ UNCHANGED <<handler, fatal, vma, pte, kernel>>

\* Mutant of BadArea: mmap_sem is not released.
BadArea_KeepsLock(t, verdicts) == UNCHANGED sem /\ Leave(t, verdicts)

\* bad_area(), bad_area_access_error(): up_read() comes before the signal.
BadArea(t, verdicts) == UpRead(t) /\ Leave(t, verdicts)

\* find_vma(), expand_stack() and access_error(), under mmap_sem.
FindVma(t) ==
  LET r == regs[t]
      c == code[t]
      found == r.addr = "page" /\ vma # NoVma
      good(v) == IF access_error(v, c)
                 THEN BadArea(t, bad_area_access_error(v, r, c)) /\ UNCHANGED area
                 ELSE Goto(t, "handle") /\ area' = [area EXCEPT ![t] = v] /\ UNCHANGED sem
  IN
  /\ pc[t] = "find_vma"
  /\ \/ /\ ~(found /\ vma.start = "below")         \* expand_stack() may fail
        /\ BadArea(t, bad_area_nosemaphore(r, c, "SEGV_MAPERR"))
        /\ UNCHANGED <<vma, area>>
     \/ /\ found /\ vma.start = "below"
        /\ good(vma) /\ UNCHANGED vma
     \/ /\ found /\ vma.start = "above" /\ vma.grows
        /\ vma' = [vma EXCEPT !.start = "below"]
        /\ good(vma')
  /\ UNCHANGED <<back, regs, code, tries, major, excused, fatal, pte, kernel>>

\* What handle_mm_fault() may answer; VM_FAULT_MAJOR may come with a retry.
Answers == {"minor", "major", "RETRY", "RETRY_MAJOR", "OOM", "SIGBUS", "HWPOISON", "SIGSEGV"}

\* A retry is allowed once, and not for a thread that is about to die.
RetryAllowed(t) == tries[t] = 0 /\ t \notin fatal

\* handle_mm_fault() and the rest of do_user_addr_fault().  The page is
\* installed with the rights of the vma that was found, writable only for a
\* write; VM_FAULT_RETRY has released mmap_sem already, every other answer
\* leaves that to up_read().
HandleMmFault(t) ==
  LET r == regs[t]
      c == code[t]
  IN
  /\ pc[t] = "handle"
  /\ UpRead(t)
  /\ \E fault \in Answers :
       /\ excused' = [excused EXCEPT ![t] = @ \/ fault \notin {"minor", "major"}]
       /\ \/ /\ fault \in {"minor", "major"}
             /\ pte' = pte \cup (IF "WRITE" \in c THEN area[t].perm ELSE area[t].perm \ {"w"})
             /\ Leave(t, Ended(IF major[t] \/ fault = "major" THEN "major" ELSE "minor"))
          \/ /\ fault \in {"RETRY", "RETRY_MAJOR"}
             /\ IF RetryAllowed(t) THEN Goto(t, "down_read")
                ELSE Leave(t, IF user_mode(r) THEN Ended("return") ELSE no_context(r, c, "BUS_ADRERR"))
             /\ UNCHANGED pte
          \/ /\ fault \in {"OOM", "SIGBUS", "HWPOISON", "SIGSEGV"}
             /\ Leave(t, mm_fault_error(t, r, c, fault))
             /\ UNCHANGED pte
       /\ LET again == pc'[t] = "down_read" IN
            /\ tries' = [tries EXCEPT ![t] = IF ~again THEN 0 ELSE IF @ < 2 THEN @ + 1 ELSE @]
            /\ major' = [major EXCEPT ![t] = again /\ (@ \/ fault = "RETRY_MAJOR")]
  /\ area' = [area EXCEPT ![t] = NoVma]
  /\ UNCHANGED <<back, regs, code, fatal, vma, kernel>>

\* The handler returns to what it interrupted; a task that was killed, or
\* has a fatal signal, goes no further once it is out of the kernel.
Exit(t) ==
  /\ pc[t] = "exit"
  /\ pc' = [pc EXCEPT ![t] = IF verdict[t].kind \in Deadly \/ (t \in fatal /\ back[t] = "run")
                             THEN "dead" ELSE back[t]]
  /\ back' = [back EXCEPT ![t] = "run"]
  /\ regs' = [regs EXCEPT ![t] = AnyAccess]
  /\ code' = [code EXCEPT ![t] = {}]
  /\ verdict' = [verdict EXCEPT ![t] = None]
  /\ excused' = [excused EXCEPT ![t] = FALSE]
  /\ fatal' = fatal \ {t}
  /\ UNCHANGED <<tries, major, area, sem, vma, pte, kernel>>

-----------------------------------------------------------------------------
(* What else the threads and the kernel do                                 *)

\* The threads that are inside a fault learn of a change.
Excuse(v, rights) ==
  excused' = [u \in Threads |-> excused[u] \/ (InHandler(u) /\ Forbidden(regs[u], v, rights))]

SysRead(t) ==
  /\ t \in Callers /\ pc[t] = "run" /\ CanRead
  /\ DownRead(t)
  /\ Goto(t, "sys_read")
  /\ UNCHANGED <<handler, fatal, vma, pte, kernel>>

SysReadDone(t) ==
  /\ pc[t] = "sys_read"
  /\ UpRead(t)
  /\ Goto(t, "run")
  /\ UNCHANGED <<handler, fatal, vma, pte, kernel>>

SysWait(t) ==
  /\ t \in Callers /\ pc[t] = "run"
  /\ Goto(t, "sys_wait")
  /\ UNCHANGED <<handler, sem, fatal, vma, pte, kernel>>

SysWrite(t) ==
  /\ pc[t] = "sys_wait"
  /\ writer = NoThread /\ \A u \in Threads : nread[u] = 0
  /\ writer' = t
  /\ Goto(t, "sys_write")
  /\ UNCHANGED <<nread, handler, fatal, vma, pte, kernel>>

\* mmap, munmap, mprotect and pkey_mprotect change the vma; a present pte
\* gets its rights, writable only if it was.
SysWriteDone(t) ==
  /\ pc[t] = "sys_write"
  /\ \E v \in Mappings \cup {NoVma} :
       /\ vma' = v
       /\ pte' = IF pte = {} \/ v = NoVma \/ v.start = "above" THEN {}
                 ELSE v.perm \ ({"w"} \ pte)
       /\ Excuse(v, kpte)
  /\ writer' = NoThread
  /\ Goto(t, "run")
  /\ UNCHANGED <<nread, back, regs, code, tries, major, area, fatal, kernel>>

\* The page is reclaimed.
Reclaim ==
  /\ pte # {} /\ pte' = {}
  /\ UNCHANGED <<pc, handler, verdict, sem, fatal, vma, kernel>>

\* A fatal signal is sent.  Only handle_mm_fault() and what follows it look,
\* so one that comes earlier may as well come here.
Kill(t) ==
  /\ pc[t] = "handle" /\ t \notin fatal
  /\ fatal' = fatal \cup {t}
  /\ UNCHANGED <<pc, handler, verdict, sem, vma, pte, kernel>>

\* vmalloc, vfree and the set_memory functions change the reference table.
\* A top-level entry is never taken back.  Only a change that takes rights
\* away flushes the TLBs.
KernelMap(rights) ==
  /\ kpte # rights
  /\ kpte' = rights
  /\ kref' = IF rights = {} THEN kref ELSE 1
  /\ tlb' = IF kpte \subseteq rights THEN tlb ELSE [t \in Threads |-> {}]
  /\ Excuse(vma, rights)
  /\ UNCHANGED <<pc, back, regs, code, tries, major, area, verdict, sem, fatal, vma, pte, ktop>>

Handler(t) ==
  \/ DoPageFault(t) \/ VmallocFault(t) \/ SpuriousFault(t)
  \/ DoUserAddrFault(t) \/ FindVma(t) \/ HandleMmFault(t) \/ Exit(t)

Thread(t) ==
  \/ \E r \in Accesses[t] : Fault(t, r) \/ Touch(t, r)
  \/ Handler(t) \/ Retry(t)
  \/ SysRead(t) \/ SysReadDone(t) \/ SysWait(t) \/ SysWrite(t) \/ SysWriteDone(t)
  \/ Kill(t)

KernelRights == {{}, {"r"}, {"r", "w"}}

Init ==
  /\ pc = [t \in Threads |-> "run"]
  /\ back = [t \in Threads |-> "run"]
  /\ regs = [t \in Threads |-> AnyAccess]
  /\ code = [t \in Threads |-> {}]
  /\ tries = [t \in Threads |-> 0]
  /\ major = [t \in Threads |-> FALSE]
  /\ area = [t \in Threads |-> NoVma]
  /\ verdict = [t \in Threads |-> None]
  /\ excused = [t \in Threads |-> FALSE]
  /\ nread = [t \in Threads |-> 0]
  /\ writer = NoThread
  /\ fatal = {}
  /\ vma = NoVma
  /\ pte = {}
  /\ ktop = 0 /\ kref = 0 /\ kpte = {}
  /\ tlb = [t \in Threads |-> {}]

Next ==
  \/ \E t \in Threads : Thread(t)
  \/ Reclaim
  \/ \E rights \in KernelRights : KernelMap(rights)

\* A thread inside the handler runs on; rwsem queues its waiters, so nobody
\* waits for ever behind others who take turns; a system call gets on with
\* its work whatever faults it takes.
Fairness ==
  \A t \in Threads :
    /\ WF_vars(Handler(t)) /\ SF_vars(Retry(t))
    /\ SF_vars(SysWrite(t) \/ SysWriteDone(t) \/ SysReadDone(t))

Spec == Init /\ [][Next]_vars /\ Fairness

-----------------------------------------------------------------------------
(* Properties                                                              *)

\* Every variable keeps its type, and "Retry at most once".
TypeOK ==
  /\ pc \in [Threads -> Outside \cup {"sys_wait", "dead", "entry", "vmalloc", "spurious",
                                      "user", "down_read", "find_vma", "handle", "exit"}]
  /\ back \in [Threads -> Outside]
  /\ code \in [Threads -> SUBSET Bits]
  /\ tries \in [Threads -> 0 .. 1] /\ major \in [Threads -> BOOLEAN] /\ excused \in [Threads -> BOOLEAN]
  /\ nread \in [Threads -> Nat] /\ writer \in Threads \cup {NoThread} /\ fatal \subseteq Threads
  /\ pte \subseteq Rights /\ kpte \subseteq Rights /\ tlb \in [Threads -> SUBSET Rights]
  /\ ktop \in {0, 1} /\ kref \in {0, 1}

\* mmap_sem is released on every way out of do_user_addr_fault, also by the
\* signal paths and by VM_FAULT_RETRY: what a thread holds is what its system
\* call took and, between find_vma() and the end, the handler's own.
SemaphoreBalanced ==
  TypeOK /\
  \A t \in Threads :
    pc[t] # "dead" =>
      nread[t] = (IF pc[t] = "sys_read" \/ (InHandler(t) /\ back[t] = "sys_read") THEN 1 ELSE 0)
                 + (IF pc[t] \in {"find_vma", "handle"} THEN 1 ELSE 0)

\* "an erroneous kernel fault ... which also holds mmap_sem might deadlock":
\* no thread waits in its first down_read() while it holds mmap_sem itself,
\* and none ever while it holds mmap_sem for writing.
NoSelfDeadlock ==
  \A t \in Threads :
    pc[t] = "down_read" => writer # t /\ (tries[t] = 0 => nread[t] = 0)

\* A page table entry never grants what the vma does not, although faults
\* fill it while other threads unmap, protect and expand the area.
PteWithinVma ==
  pte # {} => vma # NoVma /\ vma.start = "below" /\ pte \subseteq vma.perm

\* A fault is refused (signal, fixup, oops) only if the tables forbade the
\* access at some moment since it was made, or the memory manager failed, or
\* kernel code that expects no fault could not have mmap_sem: races with
\* mprotect, vmalloc and stale TLB entries never refuse a legal access.
RefusalJustified ==
  \A t \in Threads :
    verdict[t].kind \in {"signal", "fixup", "oops", "survived", "panic"} =>
      excused[t] \/ (regs[t].addr = "page" /\ MustNotWait(regs[t]))

\* Whoever made the access answers for it, on every path that ends in a
\* signal, the OOM killer or an oops and whichever of user_mode(regs) and
\* X86_PF_USER it asks: a task is signalled only for an access made with user
\* rights; the kernel goes down only for one of its own that no exception
\* table entry covers or that was made on behalf of user code, or over a
\* corrupted page table.
RightOneBlamed ==
  \A t \in Threads :
    /\ verdict[t].kind \in {"signal", "oom"} => regs[t].user
    /\ verdict[t].kind \in {"oops", "survived", "panic", "frozen"} =>
         regs[t].rsvd \/ (~regs[t].user /\ (user_mode(regs[t]) \/ ~regs[t].ext))

\* Every fault comes to its end, unless a thread keeps mmap_sem for ever:
\* one that died with it, or one that waits for itself in a retry.
FaultsEnd ==
  \A t \in Threads :
    InHandler(t) ~>
      \/ ~InHandler(t)
      \/ \E u \in Threads : pc[u] \in {"dead", "down_read"} /\ (writer = u \/ nread[u] > 0)
=============================================================================
