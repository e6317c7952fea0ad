------------------------------ MODULE FaultPath ------------------------------
(***************************************************************************)
(* Trap and Mmu together: a program faults, trap() goes through            *)
(* faultriscv() and fault() (port/, not in the repository) into putmmu,    *)
(* with interrupts, switches and other system calls in the middle of it,   *)
(* and the program tries again.  The step of one module is the step of the *)
(* other, or happens where the other stands still.                         *)
(*                                                                         *)
(* Proc is one process: other processes are what takes the hart            *)
(* (SwitchKproc), a mapping (Invalidate) or cached translations from it.   *)
(***************************************************************************)
EXTENDS Naturals, Sequences

CONSTANTS
  Proc, NoProc,
  UserR6, Addr, UserEntry, Handler, MaxDepth,      \* Trap's
  Page, Idx, VA, Frame, Nil, Junk, Kernel, Bare    \* Mmu's

ASSUME ProcAssumption == NoProc \notin Proc
ASSUME ValueAssumption ==
  /\ {Nil, Junk, Kernel, Bare} \intersect Page = {}
  /\ Frame \intersect (Page \union {Nil, Junk}) = {}
  /\ Nil # Junk /\ Kernel # Bare
ASSUME VAAssumption == VA \subseteq Idx \X Idx \X Idx

VARIABLES
  up,
  pc, mode, sie, spie, spp, sepc, cause, sscratch, r6, stack, at, expect, note,
  mpc, arg, mmuroot, psatp, newtlb, mmuused, mmufree, avail, tbl, khalf, satp, tlb,
  miss,    \* miss[p]: the address p faulted on, till putmmu has mapped it; or Nil
  done     \* history: done[p]: p's last putmmu, till the mapping is taken away; or Nil

T == INSTANCE Trap WITH Entry <- UserEntry
M == INSTANCE Mmu WITH pc <- mpc

traps == <<pc, mode, sie, spie, spp, sepc, cause, sscratch, r6, stack, at, expect, note>>
memory == <<mpc, arg, mmuroot, psatp, newtlb, mmuused, mmufree, avail, tbl, khalf, satp, tlb>>
seen == <<miss, done>>
vars == <<up, traps, memory, seen>>

Init == T!Init /\ M!Init /\ miss = [p \in Proc |-> Nil] /\ done = [p \in Proc |-> Nil]

-----------------------------------------------------------------------------
(* p's handler is not in the middle of putmmu or of its exit. *)
Outside(p) == mpc[p] = "kernel"

(* p is in fault(), with interrupts on. *)
InFault(p) == T!InKernel(p, "lo") /\ T!Ureg(p).cause = "fault"

(* The processor has no translation: none in the table, or none cached. *)
Missing(va) == M!Translate(satp, va) = Nil \/ satp = Kernel \/ <<va, Nil>> \in tlb

(* Into the kernel from the user's program, with an address if it is a fault.*)
Enter(p) ==
  /\ mode = "U" /\ (T!Ecall(p) \/ T!Interrupt(p))
  /\ M!Enter(p)
  /\ UNCHANGED seen

UserFault(p) ==
  /\ mode = "U" /\ T!Fault(p)
  /\ M!Enter(p)
  /\ \E va \in VA : Missing(va) /\ miss' = [miss EXCEPT ![p] = va]
  /\ UNCHANGED done

(* A system call, notify() or init0 faults on the user's memory. *)
KernelFault(p) ==
  /\ mode = "S" /\ Outside(p) /\ T!Fault(p)
  /\ \E va \in VA : Missing(va) /\ miss' = [miss EXCEPT ![p] = va]
  /\ UNCHANGED <<memory, done>>

(* putmmu masks its walk; the scheduler masks an exit. *)
KernelInterrupt(p) ==
  /\ mode = "S" /\ mpc[p] \notin {"walk", "release"} /\ T!Interrupt(p)
  /\ UNCHANGED <<memory, seen>>

(* Handlers and the way out, up to the last instruction; an exit has none. *)
KernelWork(p) ==
  /\ T!Syscall(p) \/ T!HandlerReturn(p) \/ T!RestoreSepc(p) \/ T!RestoreSstatus(p)
       \/ T!RestoreSscratch(p) \/ T!Init0(p) \/ T!Touser(p)
  /\ mpc[p] # "release"
  /\ UNCHANGED <<memory, seen>>

(* A handler ends; a fault it could not mend has become a note, or is tried  *)
(* again (a kernel's, on which faultriscv() panics: nothing follows).        *)
HandlerEnds(p) ==
  /\ T!Splhi(p)
  /\ T!Ureg(p).cause # "intr" => Outside(p)
  /\ miss' = IF T!Ureg(p).cause = "fault" THEN [miss EXCEPT ![p] = Nil] ELSE miss
  /\ UNCHANGED <<memory, done>>

Leave(p) ==
  /\ T!TrapReturn(p) \/ T!TouserSret(p)
  /\ IF spp = "U" THEN M!Return(p) ELSE UNCHANGED memory
  /\ UNCHANGED seen

Work(p) == KernelWork(p) \/ HandlerEnds(p) \/ Leave(p)

(* fault() maps the address. *)
Putmmu(p) ==
  /\ InFault(p) /\ miss[p] # Nil
  /\ \E f \in Frame : M!Putmmu(p, miss[p], f)
  /\ UNCHANGED <<traps, seen>>

PutStep(p) ==
  /\ InFault(p) /\ M!PutStep(p)
  /\ IF mpc'[p] = "kernel"
     THEN miss' = [miss EXCEPT ![p] = Nil] /\ done' = [done EXCEPT ![p] = arg[p]]
     ELSE UNCHANGED seen
  /\ UNCHANGED traps

(* Notes and note handlers leave the address space alone. *)
Notes(p) ==
  /\ Outside(p) /\ (T!Notify(p) \/ T!Noted(p))
  /\ UNCHANGED <<memory, seen>>

Lost(p) == done' = [done EXCEPT ![p] = Nil]

Exec(p) == Outside(p) /\ T!Exec(p) /\ M!Flushmmu(p) /\ Lost(p) /\ UNCHANGED miss

(* segdetach and the like. *)
Flush(p) == T!InSyscall(p) /\ M!Flushmmu(p) /\ Lost(p) /\ UNCHANGED <<traps, miss>>

Invalidate(p) == M!Invalidate(p) /\ Lost(p) /\ UNCHANGED <<traps, miss>>

(* In newpage, in a system call, or at the end of a time slice. *)
SwitchOut(p) ==
  /\ \/ T!Sleep(p) /\ mpc[p] \in {"kernel", "rootalloc", "newpage"}
     \/ T!Preempt(p) \/ T!Delaysched(p)
  /\ M!SwitchOut(p)
  /\ UNCHANGED seen

SwitchIn(p) == T!SwitchIn(p) /\ M!SwitchIn(p) /\ UNCHANGED seen

ExitSwitch(p) ==
  /\ T!InSyscall(p) \/ T!InDonotify(p)
  /\ M!ReleaseSwitch(p)
  /\ UNCHANGED <<traps, seen>>

Exit(p) == T!Exit(p) /\ M!Release(p) /\ Lost(p) /\ UNCHANGED miss

(* The first process. *)
Start(p) == at[p] # "dead" /\ M!Start(p) /\ UNCHANGED <<traps, seen>>

Trapvec(p) == T!Trapvec(p) /\ UNCHANGED <<memory, seen>>

Others ==
  \/ T!SchedInterrupt /\ UNCHANGED <<memory, seen>>
  \/ (M!SwitchKproc \/ \E va \in VA : M!Fill(va)) /\ UNCHANGED <<traps, seen>>

Next ==
  \/ /\ satp # Bare
     /\ \/ \E p \in Proc :
             \/ Enter(p) \/ UserFault(p) \/ KernelFault(p) \/ KernelInterrupt(p)
             \/ Trapvec(p) \/ Work(p) \/ Putmmu(p) \/ PutStep(p) \/ Notes(p)
             \/ Exec(p) \/ Flush(p) \/ Invalidate(p) \/ SwitchOut(p) \/ SwitchIn(p)
             \/ ExitSwitch(p) \/ Exit(p) \/ Start(p)
        \/ Others
  \/ satp = Bare /\ UNCHANGED vars

Spec == Init /\ [][Next]_vars

(* The clock interrupts whoever runs too long and the scheduler (port/)      *)
(* starves nobody; a process that is scheduled again and again gets a time   *)
(* slice to each step of putmmu; a handler gets on between the interrupts,   *)
(* as the timer leaves it most of each tick; an exit runs masked.            *)
Live(A) == satp # Bare /\ A
FairSpec ==
  /\ Spec
  /\ \A p \in Proc :
       /\ SF_vars(Live(Enter(p) \/ KernelInterrupt(p))) /\ WF_vars(Live(Trapvec(p)))
       /\ SF_vars(Live(SwitchOut(p))) /\ SF_vars(Live(SwitchIn(p)))
       /\ SF_vars(Live(PutStep(p))) /\ WF_vars(Live(Exit(p)))
       /\ \A d \in 1 .. MaxDepth : SF_vars(Live(Len(stack[p]) = d /\ Work(p)))

-----------------------------------------------------------------------------
(* A program that has been given a page and not lost it again finds it when  *)
(* it tries again: the table the hart walks maps it, and the hart does not   *)
(* remember that it did not (putmmu's sfence; the C906 keeps invalid         *)
(* entries), whatever was interrupted, switched or slept through in between. *)
RetryWorks ==
  \A p \in Proc : up = p /\ mode = "U" /\ done[p] # Nil =>
    LET va == done[p][1] IN
    /\ M!Translate(satp, va) = done[p][2]
    /\ \A e \in tlb : e[1] = va => e[2] = done[p][2]

(* A program that trapped comes back or exits: each of its faults ends in a  *)
(* mapping or a note, though it waits for pages in the middle of putmmu and  *)
(* may find its tables emptied each time; or the process was switched away   *)
(* inside mmurootalloc (see Mmu's GivenRoot).                                *)
TrapsReturn == \A p \in Proc : stack[p] # <<>> ~> stack[p] = <<>> \/ satp = Bare
=============================================================================
