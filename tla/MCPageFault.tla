---------------------------- MODULE MCPageFault ----------------------------
(***************************************************************************)
(* Two threads of one address space.  The first makes every kind of access *)
(* the handler tells apart; both make the system calls that take mmap_sem  *)
(* and change the mapping.                                                 *)
(***************************************************************************)
EXTENDS PageFault, TLC

CONSTANTS t1, t2

Plain == [cs |-> "user64", user |-> TRUE, access |-> "read", addr |-> "page", ext |-> FALSE,
          ac |-> FALSE, atomic |-> FALSE, irq |-> FALSE, sigerr |-> FALSE, instr |-> <<"other">>,
          rsvd |-> FALSE, efi |-> FALSE, kprobe |-> FALSE, mmio |-> FALSE]

Kernel == [Plain EXCEPT !.cs = "kernel", !.user = FALSE]
GetUser == [Kernel EXCEPT !.ext = TRUE, !.ac = TRUE]

UserAccesses ==
  {[Plain EXCEPT !.access = a] : a \in {"read", "write", "exec"}}
    \cup {[Plain EXCEPT !.rsvd = TRUE], [Plain EXCEPT !.kprobe = TRUE],
          [Plain EXCEPT !.instr = <<"rex", "0F", "hint">>],
          [Plain EXCEPT !.cs = "compat", !.instr = <<"rex", "0F", "hint">>],
          [Plain EXCEPT !.cs = "compat", !.addr = "vsyscall"],
          [Plain EXCEPT !.addr = "vsyscall", !.access = "exec"],
          [Plain EXCEPT !.addr = "vmalloc"],
          [Plain EXCEPT !.user = FALSE, !.addr = "vmalloc"]}

KernelAccesses ==
  {GetUser, [GetUser EXCEPT !.access = "write", !.sigerr = TRUE], [GetUser EXCEPT !.atomic = TRUE, !.irq = TRUE],
   [Kernel EXCEPT !.ac = TRUE, !.instr = <<"prefix", "0F", "hint">>], Kernel,
   [Kernel EXCEPT !.efi = TRUE], [Kernel EXCEPT !.addr = "lowip", !.access = "exec"],
   [Kernel EXCEPT !.addr = "vmalloc"], [Kernel EXCEPT !.addr = "vmalloc", !.access = "write"],
   [GetUser EXCEPT !.addr = "vmalloc", !.sigerr = TRUE],
   [Kernel EXCEPT !.addr = "vmalloc", !.mmio = TRUE], [Kernel EXCEPT !.addr = "vmalloc", !.kprobe = TRUE],
   [Kernel EXCEPT !.addr = "guard"]}

MCAccesses ==
  (t1 :> UserAccesses \cup KernelAccesses) @@
  (t2 :> {})

Area(start, perm, key) == [start |-> start, grows |-> TRUE, perm |-> perm, pkey |-> key]
MCMappings == {Area("above", {"r", "w"}, 0), Area("below", {"r"}, 1)}
=============================================================================
