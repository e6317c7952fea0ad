--------------------------------- MODULE Trap --------------------------------
(***************************************************************************)
(* Trap entry and return (l.s from trapvec to SRET, touser, forkretfp) and *)
(* the handlers around them (trap.c).  One hart; the trap CSRs, the        *)
(* register R6 that holds up in the kernel and anything in the user's      *)
(* program, and the Uregs on each process's kernel stack.  dosyscall,      *)
(* fault, preempted, donotify, sched (port/) are not in the repository.    *)
(***************************************************************************)
EXTENDS Naturals, Sequences, SequencesExt

CONSTANTS
  Proc, NoProc,  \* processes; up == nil
  UserR6,        \* what R6 holds in a user program
  Addr,          \* user instructions, 4 bytes apart, wrapping
  Entry, Handler,  \* where a program starts; its note handler
  MaxDepth       \* bound: Uregs on one kernel stack

ASSUME AddrAssumption ==
  /\ Addr = 0 .. Handler /\ Entry \in Addr /\ Handler \in Nat \ {0}
ASSUME ProcAssumption == NoProc \notin Proc /\ UserR6 \notin Proc \union {NoProc}

VARIABLES
  up, pc, mode,             \* m->proc; where the hart is; "U" or "S"
  sie, spie, spp, sepc,     \* sstatus.SIE, SPIE, SPP; sepc
  cause,                    \* scause
  sscratch,                 \* "m", or "0"
  r6,
  stack,   \* stack[p]: p's Uregs, the user's first
  at,      \* p->sched: where p resumes when it is switched in; or "running"
  expect,  \* history: where p's program has to go on
  note     \* the Ureg notify() left for p, with what was expected; up->notified

csrs == <<sie, spie, spp, sepc, cause, sscratch>>
vars == <<up, pc, mode, csrs, r6, stack, at, expect, note>>

(* Instructions in the kernel.  "vec" is trapvec; "sys", "intr" and "lo" are *)
(* handlers before splhi, with interrupts on in "lo"; "hi" is after it.  The *)
(* "ret" ones are forkret's: before sepc, sstatus, sscratch and the register *)
(* loads are written.                                                        *)
U(n) == <<"user", n>>
K(c) == <<"kernel", c>>
KPoint == {"vec", "sys", "intr", "lo", "hi", "ret0", "ret1", "ret2", "ret3",
           "sched", "kproc", "touser", "touser1"}
Pc == {U(n) : n \in Addr} \union {K(c) : c \in KPoint}
NoNote == [pc |-> K("sched"), expect |-> Entry, notified |-> FALSE]

Init ==
  /\ up = NoProc /\ pc = K("sched") /\ mode = "S"
  /\ sie = FALSE /\ spie = FALSE /\ spp = "S" /\ sepc = K("sched")
  /\ cause = "intr" /\ sscratch = "0" /\ r6 = NoProc
  /\ stack = [p \in Proc |-> <<>>]
  /\ \E p \in Proc : at = [q \in Proc |-> IF q = p THEN "kproc" ELSE "dead"]
  /\ expect = [p \in Proc |-> Entry]
  /\ note = [p \in Proc |-> NoNote]

-----------------------------------------------------------------------------
InKernel(p, c) == up = p /\ mode = "S" /\ pc = K(c)

(* The Ureg of the trap being handled, and a change to it. *)
Ureg(p) == Last(stack[p])
SetUreg(p, u) == stack' = [stack EXCEPT ![p] = Append(Front(@), u)]

(* userureg(ureg) *)
Userureg(u) == u.spp = "U"

(* What could go wrong: the status is taken, too. *)
SetRegistersAll(u, from) == from

(* The whole Ureg is taken from the user, its status kept. *)
SetRegisters(u, from) == [from EXCEPT !.spp = u.spp, !.spie = u.spie]

(* The hart takes a trap. *)
Take(c) ==
  /\ sepc' = pc /\ spp' = mode /\ spie' = sie /\ sie' = FALSE
  /\ cause' = c /\ mode' = "S" /\ pc' = K("vec")
  /\ UNCHANGED <<sscratch, r6, stack, at, note, up>>

Ecall(p) ==
  /\ up = p /\ mode = "U" /\ pc[1] = "user"
  /\ Take("ecall")
  /\ expect' = [expect EXCEPT ![p] = (pc[2] + 1) % (Handler + 1)]

(* The kernel in a system call of p's program; and in donotify, with         *)
(* interrupts masked, on its way out to it.                                  *)
InSyscall(p) == InKernel(p, "lo") /\ Ureg(p).cause = "ecall"
InDonotify(p) == InKernel(p, "hi") /\ Userureg(Ureg(p))

(* Where the kernel touches user memory: there, and in init0, which writes   *)
(* initcode's stack and, after its splhi, reads initcode: "the read faults   *)
(* the page in".                                                             *)
OnUserMemory(p) ==
  InSyscall(p) \/ InDonotify(p) \/ InKernel(p, "kproc") \/ InKernel(p, "touser")

(* A fault is taken by the user, or by the kernel on the user's memory. *)
Fault(p) ==
  /\ up = p /\ (mode = "U" \/ OnUserMemory(p)) /\ Len(stack[p]) < MaxDepth
  /\ Take("fault")
  /\ UNCHANGED expect

Interrupt(p) ==
  /\ up = p /\ (mode = "U" \/ sie) /\ Len(stack[p]) < MaxDepth
  /\ Take("intr")
  /\ UNCHANGED expect

(* An interrupt taken by the scheduler, from trapvec to SRET. *)
SchedInterrupt ==
  /\ up = NoProc
  /\ sepc' = pc /\ spp' = "U" /\ spie' = TRUE /\ cause' = "intr"
  /\ UNCHANGED <<up, pc, mode, sie, sscratch, r6, stack, at, expect, note>>

(* What could go wrong: R6 is left as the trap found it. *)
R6Kept == r6

(* up is loaded from m->proc after a trap from the user, and only then. *)
R6InKernel == IF spp = "U" THEN up ELSE r6

(* trapvec: sscratch tells where the trap came from, and so where the Ureg   *)
(* goes; SPP whether R6 is the kernel's.                                     *)
Trapvec(p) ==
  /\ InKernel(p, "vec")
  /\ LET u == [pc |-> sepc, spp |-> spp, spie |-> spie, r6 |-> r6, cause |-> cause]
     IN stack' = [stack EXCEPT ![p] = IF sscratch = "m" THEN <<u>> ELSE Append(@, u)]
  /\ sscratch' = "0"
  /\ r6' = R6InKernel
  /\ pc' = CASE cause = "ecall" -> K("sys")
             [] cause = "intr"  -> K("intr")
             [] OTHER           -> K("lo")
  /\ sie' = (cause = "fault")      \* fault() runs spllo
  /\ UNCHANGED <<up, mode, spie, spp, sepc, cause, at, expect, note>>

(* What could go wrong: sepc is taken to be past the ecall already. *)
SameEcall(a) == a

(* ureg->pc += 4 *)
PastEcall(a) == U((a[2] + 1) % (Handler + 1))

(* syscall() up to dosyscall, which runs spllo. *)
Syscall(p) ==
  /\ InKernel(p, "sys")
  /\ SetUreg(p, [Ureg(p) EXCEPT !.pc = PastEcall(@)])
  /\ sie' = TRUE /\ pc' = K("lo")
  /\ UNCHANGED <<up, mode, spie, spp, sepc, cause, sscratch, r6, at, expect, note>>

(* In a system call: rfork.  forkchild copies the Ureg; c resumes at forkretfp.*)
Fork(p, c) ==
  /\ InSyscall(p) /\ at[c] = "dead"
  /\ stack' = [stack EXCEPT ![c] = <<Ureg(p)>>]
  /\ at' = [at EXCEPT ![c] = "ret0"]
  /\ expect' = [expect EXCEPT ![c] = expect[p]]
  /\ note' = [note EXCEPT ![c] = NoNote]
  /\ UNCHANGED <<up, pc, mode, csrs, r6>>

(* Exec: execregs. *)
Exec(p) ==
  /\ InSyscall(p)
  /\ SetUreg(p, [Ureg(p) EXCEPT !.pc = U(Entry)])
  /\ expect' = [expect EXCEPT ![p] = Entry]
  /\ note' = [note EXCEPT ![p] = NoNote]
  /\ UNCHANGED <<up, pc, mode, csrs, r6, at>>

(* noted: the handler gives back its Ureg, with any status in it.  NCONT and  *)
(* NRSTR are done with the Ureg; NSAVE keeps it for an NRSTR to come, and     *)
(* only the handler may.  Where noted returns -1 port/ ends p: Exit.          *)
Noted(p) ==
  /\ InSyscall(p) /\ note[p] # NoNote
  /\ \E s \in {"U", "S"} :
       SetUreg(p, SetRegisters(Ureg(p), [Ureg(p) EXCEPT !.pc = note[p].pc, !.spp = s]))
  /\ expect' = [expect EXCEPT ![p] = note[p].expect]
  /\ \/ note' = [note EXCEPT ![p] = NoNote]
     \/ note[p].notified /\ note' = [note EXCEPT ![p].notified = FALSE]
  /\ UNCHANGED <<up, pc, mode, csrs, r6, at>>

(* pexit: of a system call, or of donotify where there is no handler or      *)
(* notify() returns nil, having no room for its frame.                       *)
Exit(p) ==
  /\ InSyscall(p) \/ InDonotify(p)
  /\ up' = NoProc /\ pc' = K("sched") /\ sie' = FALSE /\ r6' = NoProc
  /\ at' = [at EXCEPT ![p] = "dead"]
  /\ stack' = [stack EXCEPT ![p] = <<>>]
  /\ expect' = [expect EXCEPT ![p] = Entry] /\ note' = [note EXCEPT ![p] = NoNote]
  /\ UNCHANGED <<mode, spie, spp, sepc, cause, sscratch>>

(* trap()'s splhi; dosyscall ends masked, too. *)
Splhi(p) ==
  /\ InKernel(p, "lo") \/ InKernel(p, "intr")
  /\ sie' = FALSE /\ pc' = K("hi")
  /\ UNCHANGED <<up, mode, spie, spp, sepc, cause, sscratch, r6, stack, at, expect, note>>

(* donotify on the way out to the user: notify(), when no handler runs yet.  *)
(* Of the Uregs kept by NSAVE only the last is.                              *)
Notify(p) ==
  /\ InDonotify(p) /\ ~note[p].notified
  /\ note' = [note EXCEPT ![p] = [pc |-> Ureg(p).pc, expect |-> expect[p], notified |-> TRUE]]
  /\ SetUreg(p, [Ureg(p) EXCEPT !.pc = U(Handler)])
  /\ expect' = [expect EXCEPT ![p] = Handler]
  /\ UNCHANGED <<up, pc, mode, csrs, r6, at>>

(* What could go wrong: the scheduler's own label is filled in for p's. *)
SchedOwnLabel(p, c) ==
  /\ up' = NoProc /\ pc' = K("sched") /\ sie' = FALSE /\ r6' = NoProc
  /\ at' = [at EXCEPT ![p] = "sched"]
  /\ UNCHANGED <<mode, spie, spp, sepc, cause, sscratch, stack, expect, note>>

(* sched(), to resume at c with interrupts on. *)
Sched(p, c) ==
  /\ up' = NoProc /\ pc' = K("sched") /\ sie' = FALSE /\ r6' = NoProc
  /\ at' = [at EXCEPT ![p] = c]
  /\ UNCHANGED <<mode, spie, spp, sepc, cause, sscratch, stack, expect, note>>

(* A handler sleeps. *)
Sleep(p) ==
  \/ InKernel(p, "lo") /\ Sched(p, "lo")
  \/ InKernel(p, "kproc") /\ Sched(p, "kproc")

(* preempted(), in the handler of a clock interrupt. *)
Preempt(p) == InKernel(p, "intr") /\ Sched(p, "lo")

(* syscall()'s if(up->delaysched) sched(), the last thing but kexit. *)
Delaysched(p) ==
  /\ InKernel(p, "hi") /\ Ureg(p).cause = "ecall"
  /\ Sched(p, "ret0lo")

(* sched() ends in spllo; a process that has not run yet starts masked. *)
SwitchIn(p) ==
  /\ up = NoProc /\ at[p] # "dead"
  /\ up' = p /\ r6' = p /\ at' = [at EXCEPT ![p] = "running"]
  /\ sie' = (at[p] # "ret0")
  /\ pc' = K(IF at[p] = "ret0lo" THEN "ret0" ELSE at[p])
  /\ UNCHANGED <<mode, spie, spp, sepc, cause, sscratch, stack, expect, note>>

(* trap() or syscall() returns to l.s. *)
HandlerReturn(p) ==
  /\ InKernel(p, "hi") /\ pc' = K("ret0")
  /\ UNCHANGED <<up, mode, csrs, r6, stack, at, expect, note>>

RestoreSepc(p) ==
  /\ InKernel(p, "ret0") /\ pc' = K("ret1")
  /\ sepc' = Ureg(p).pc
  /\ UNCHANGED <<up, mode, sie, spie, spp, cause, sscratch, r6, stack, at, expect, note>>

(* The Ureg's status has SIE = 0, as the trap left it. *)
RestoreSstatus(p) ==
  /\ InKernel(p, "ret1") /\ pc' = K("ret2")
  /\ spp' = Ureg(p).spp /\ spie' = Ureg(p).spie /\ sie' = FALSE
  /\ UNCHANGED <<up, mode, sepc, cause, sscratch, r6, stack, at, expect, note>>

RestoreSscratch(p) ==
  /\ InKernel(p, "ret2") /\ pc' = K("ret3")
  /\ sscratch' = IF Userureg(Ureg(p)) THEN "m" ELSE sscratch
  /\ UNCHANGED <<up, mode, sie, spie, spp, sepc, cause, r6, stack, at, expect, note>>

(* The registers are loaded and SRET executed. *)
Sret ==
  /\ mode' = spp /\ pc' = sepc /\ sie' = spie /\ spie' = TRUE /\ spp' = "U"
  /\ UNCHANGED <<sepc, cause, sscratch>>

TrapReturn(p) ==
  /\ InKernel(p, "ret3")
  /\ r6' = Ureg(p).r6
  /\ stack' = [stack EXCEPT ![p] = Front(@)]
  /\ Sret
  /\ UNCHANGED <<up, at, expect, note>>

(* What could go wrong: init0 without its splhi. *)
Init0Unmasked(p) ==
  /\ InKernel(p, "kproc") /\ pc' = K("touser")
  /\ UNCHANGED <<up, mode, csrs, r6, stack, at, expect, note>>

(* The first process: init0 up to its splhi ... *)
Init0(p) ==
  /\ InKernel(p, "kproc") /\ pc' = K("touser")
  /\ sie' = FALSE
  /\ UNCHANGED <<up, mode, spie, spp, sepc, cause, sscratch, r6, stack, at, expect, note>>

(* ... and, its reads done, touser. *)
Touser(p) ==
  /\ InKernel(p, "touser") /\ pc' = K("touser1")
  /\ spp' = "U" /\ spie' = TRUE /\ sscratch' = "m" /\ sepc' = U(Entry)
  /\ UNCHANGED <<up, mode, sie, cause, r6, stack, at, expect, note>>

TouserSret(p) ==
  /\ InKernel(p, "touser1")
  /\ r6' = UserR6
  /\ Sret
  /\ UNCHANGED <<up, stack, at, expect, note>>

(* What the kernel does next for p, between two traps. *)
Work(p) ==
  \/ Syscall(p) \/ Splhi(p) \/ HandlerReturn(p)
  \/ RestoreSepc(p) \/ RestoreSstatus(p) \/ RestoreSscratch(p) \/ TrapReturn(p)
  \/ Init0(p) \/ Touser(p) \/ TouserSret(p)

Next ==
  \/ \E p \in Proc :
       \/ Ecall(p) \/ Fault(p) \/ Interrupt(p)
       \/ Trapvec(p) \/ Work(p)
       \/ \E c \in Proc : Fork(p, c)
       \/ Exec(p) \/ Noted(p) \/ Exit(p) \/ Notify(p)
       \/ Sleep(p) \/ Preempt(p) \/ Delaysched(p) \/ SwitchIn(p)
  \/ SchedInterrupt

Spec == Init /\ [][Next]_vars

-----------------------------------------------------------------------------
(* Every variable has its type. *)
UregType ==
  [pc : Pc, spp : {"U", "S"}, spie : BOOLEAN, r6 : Proc \union {UserR6},
   cause : {"ecall", "fault", "intr"}]

TypeOK ==
  /\ up \in Proc \union {NoProc} /\ pc \in Pc /\ mode \in {"U", "S"}
  /\ sie \in BOOLEAN /\ spie \in BOOLEAN /\ spp \in {"U", "S"} /\ sepc \in Pc
  /\ cause \in {"ecall", "fault", "intr"} /\ sscratch \in {"m", "0"}
  /\ r6 \in Proc \union {NoProc, UserR6}
  /\ stack \in [Proc -> Seq(UregType)]
  /\ at \in [Proc -> {"dead", "running", "kproc", "lo", "ret0", "ret0lo"}]
  /\ expect \in [Proc -> Addr]
  /\ note \in [Proc -> [pc : Pc, expect : Addr, notified : BOOLEAN]]

(* sscratch holds m exactly in user mode and 0 whenever a trap can come from *)
(* the kernel, so that trapvec never takes one for the other and never saves *)
(* a Ureg over one in use.                                                   *)
SscratchSaysMode ==
  /\ mode = "U" => sscratch = "m"
  /\ mode = "S" /\ (sie \/ pc \notin {K("vec"), K("ret3"), K("touser1")})
       => sscratch = "0"

(* Past trapvec, the kernel's up is the process that runs, not a user's R6   *)
(* nor that of whoever ran when an interrupt came.                           *)
KernelHasUp == mode = "S" /\ pc # K("vec") => r6 = up

(* The Uregs of a kernel stack nest: only the first returns to user mode,    *)
(* whatever status a note handler hands back, unless it is init0's, whose    *)
(* program has not started; every other one returns to the kernel with its   *)
(* up.  What faulted masked (init0 past its splhi, notify()) goes on masked, *)
(* though fault() let interrupts in.                                         *)
UregsNest ==
  \A p \in Proc : \A i \in 1 .. Len(stack[p]) :
    LET u == stack[p][i] IN
    /\ IF i = 1 /\ u.pc \notin {K("kproc"), K("touser")}
       THEN Userureg(u) /\ u.r6 = UserR6
       ELSE ~Userureg(u) /\ u.r6 = p
    /\ u.pc \in {K("hi"), K("touser")} => ~u.spie

(* A program goes on where it has to: after an ecall past it, once, however  *)
(* long it slept, whatever note was handled on the way and in the child too; *)
(* after a fault or an interrupt where it was.  The exception is an          *)
(* interrupt between the writes of sepc and sstatus (see SepcIsUregPc).      *)
UserResumes == mode = "U" => pc \in {U(expect[up]), K("ret1")}

(* "sepc = ureg->pc, in case trap() advanced it" (l.s:197): SRET returns to  *)
(* the Ureg's pc.                                                            *)
SepcIsUregPc == \A p \in Proc : InKernel(p, "ret3") => sepc = Ureg(p).pc
=============================================================================
