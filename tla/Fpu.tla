--------------------------------- MODULE Fpu ---------------------------------
(***************************************************************************)
(* Floating-point registers across context switches (fpu.c, forkretfp in   *)
(* l.s).  The kernel keeps the registers of the running process live       *)
(* through every trap and moves them to and from p->fpsave only in the     *)
(* hooks port/proc.c calls around a switch.                                *)
(*                                                                         *)
(* The 32 registers and fcsr are one value.  port/proc.c, port/sysproc.c   *)
(* and port/userinit.c are not in the repository: the actions that stand   *)
(* for them do what the hooks here require of them.                        *)
(***************************************************************************)
EXTENDS Naturals

CONSTANTS
  Proc,     \* the process slots
  NoProc,   \* up == nil
  FpVal,    \* contents of the register file
  Initfp    \* initfp: the contents every program starts with

ASSUME NoProcAssumption == NoProc \notin Proc
ASSUME InitfpAssumption == Initfp \in FpVal

VARIABLES
  up,        \* the running process
  mode,      \* what each process is doing
  fpstate,   \* p->fpstate & ~FPnotify
  fpnotify,  \* p->fpstate & FPnotify
  fpsave,    \* p->fpsave
  regs,      \* the registers themselves
  view,      \* history: what p's program last left in its registers
  wrote,     \* history: all that p's program left there since it began
  notified   \* history: a note reached p's program since it began

vars == <<up, mode, fpstate, fpnotify, fpsave, regs, view, wrote, notified>>
history == <<view, wrote, notified>>

(* "setup" is procsetup(up) after its first assignment, "notify" is          *)
(* fpunotify before its last; interrupts are on in both.                     *)
Live == {"user", "kernel", "kproc", "setup", "notify"}
Fresh == {"newuser", "newkproc"}
Mode == {"dead"} \union Fresh \union Live
InKernel == Live \ {"user"}

Init ==
  /\ up = NoProc
  /\ \E p \in Proc : mode = [q \in Proc |-> IF q = p THEN "newkproc" ELSE "dead"]
  /\ fpstate = [p \in Proc |-> "init"]
  /\ fpnotify = [p \in Proc |-> FALSE]
  /\ fpsave = [p \in Proc |-> Initfp]
  /\ regs \in FpVal
  /\ view = [p \in Proc |-> Initfp]
  /\ wrote = [p \in Proc |-> {Initfp}]
  /\ notified = [p \in Proc |-> FALSE]

-----------------------------------------------------------------------------
(* The hooks. *)

Runs(p, m) == up = p /\ mode[p] = m
Goes(p, m) == mode' = [mode EXCEPT ![p] = m]

NewProgram(p) ==
  /\ view' = [view EXCEPT ![p] = Initfp]
  /\ wrote' = [wrote EXCEPT ![p] = {Initfp}]
  /\ notified' = [notified EXCEPT ![p] = FALSE]

(* What could go wrong: the state is saved and still called FPactive. *)
ProcsaveStaysActive(p) ==
  /\ fpsave' = IF fpstate[p] = "active" THEN [fpsave EXCEPT ![p] = regs] ELSE fpsave
  /\ UNCHANGED fpstate

(* procsave(p), for a process that will run again. *)
Procsave(p) ==
  IF fpstate[p] # "active"
  THEN UNCHANGED <<fpstate, fpsave>>
  ELSE /\ fpsave' = [fpsave EXCEPT ![p] = regs]
       /\ fpstate' = [fpstate EXCEPT ![p] = "inactive"]

(* What could go wrong: p->state is stored for p->fpstate. *)
ProcsaveMoribundState(p) ==
  fpstate' = [fpstate EXCEPT ![p] = IF @ = "active" THEN "Moribund" ELSE @]

(* procsave(p), for a process that is Moribund: nothing to keep. *)
ProcsaveMoribund(p) ==
  fpstate' = [fpstate EXCEPT ![p] = IF @ = "active" THEN "init" ELSE @]

(* What could go wrong: FPinactive falls into the default case. *)
ProcrestoreInitOnly(p) ==
  /\ regs' = IF fpstate[p] = "init" THEN Initfp ELSE regs
  /\ fpstate' = [fpstate EXCEPT ![p] = IF @ = "init" THEN "active" ELSE @]

(* procrestore(p) *)
Procrestore(p) ==
  /\ regs' = CASE fpstate[p] = "init"     -> Initfp
               [] fpstate[p] = "inactive" -> fpsave[p]
               [] OTHER                   -> regs
  /\ fpstate' = [fpstate EXCEPT ![p] = "active"]

(* fpunotify(p) up to the |= of its last line. *)
FpuNotify(p) ==
  IF fpstate[p] = "active" /\ ~fpnotify[p]
  THEN /\ fpsave' = [fpsave EXCEPT ![p] = regs]
       /\ fpstate' = [fpstate EXCEPT ![p] = "inactive"]
  ELSE UNCHANGED <<fpsave, fpstate>>

-----------------------------------------------------------------------------
(* A program computes; FS is never Off, so no trap says so. *)
UserFp(p) ==
  /\ Runs(p, "user")
  /\ \E v \in FpVal : /\ regs' = v
                      /\ view' = [view EXCEPT ![p] = v]
                      /\ wrote' = [wrote EXCEPT ![p] = @ \union {v}]
  /\ UNCHANGED <<up, mode, fpstate, fpnotify, fpsave, notified>>

(* The trap path neither saves nor restores FP registers. *)
Trap(p) ==
  /\ Runs(p, "user") /\ Goes(p, "kernel")
  /\ UNCHANGED <<up, fpstate, fpnotify, fpsave, regs, history>>

Return(p) ==
  /\ Runs(p, "kernel") /\ Goes(p, "user")
  /\ UNCHANGED <<up, fpstate, fpnotify, fpsave, regs, history>>

(* rfork: forkchild points the child at forkretfp; procfork copies nothing. *)
Fork(p, c) ==
  /\ Runs(p, "kernel") /\ mode[c] = "dead"
  /\ Goes(c, "newuser")
  /\ fpstate' = [fpstate EXCEPT ![c] = "init"]
  /\ fpnotify' = [fpnotify EXCEPT ![c] = FALSE]
  /\ NewProgram(c)
  /\ UNCHANGED <<up, fpsave, regs>>

(* kproc: kprocchild points the child straight at its function. *)
Kproc(p, c) ==
  /\ up = p /\ mode[p] \in {"kernel", "kproc"} /\ mode[c] = "dead"
  /\ Goes(c, "newkproc")
  /\ fpstate' = [fpstate EXCEPT ![c] = "init"]
  /\ fpnotify' = [fpnotify EXCEPT ![c] = FALSE]
  /\ NewProgram(c)
  /\ UNCHANGED <<up, fpsave, regs>>

(* exec, and the first process on its way to touser: procsetup(up). *)
Procsetup(p) ==
  /\ up = p /\ mode[p] \in {"kernel", "kproc"}
  /\ Goes(p, "setup")
  /\ fpstate' = [fpstate EXCEPT ![p] = "init"]
  /\ fpnotify' = [fpnotify EXCEPT ![p] = FALSE]
  /\ NewProgram(p)
  /\ UNCHANGED <<up, fpsave, regs>>

(* The splhi, procrestore(p), splx that ends it. *)
ProcsetupLive(p) ==
  /\ Runs(p, "setup") /\ Goes(p, "kernel")
  /\ Procrestore(p)
  /\ UNCHANGED <<up, fpnotify, fpsave, history>>

(* donotify pushes a note, unless a handler runs already: fpunotify. *)
Notify(p) ==
  /\ Runs(p, "kernel") /\ ~fpnotify[p] /\ Goes(p, "notify")
  /\ FpuNotify(p)
  /\ notified' = [notified EXCEPT ![p] = TRUE]
  /\ UNCHANGED <<up, fpnotify, regs, view, wrote>>

NotifyBit(p) ==
  /\ Runs(p, "notify") /\ Goes(p, "kernel")
  /\ fpnotify' = [fpnotify EXCEPT ![p] = TRUE]
  /\ UNCHANGED <<up, fpstate, fpsave, regs, history>>

(* The handler is done: fpunoted. *)
Noted(p) ==
  /\ Runs(p, "kernel") /\ fpnotify[p]
  /\ fpnotify' = [fpnotify EXCEPT ![p] = FALSE]
  /\ UNCHANGED <<up, mode, fpstate, fpsave, regs, history>>

(* sched() out of any point of the kernel with interrupts on. *)
SwitchOut(p) ==
  /\ up = p /\ mode[p] \in InKernel
  /\ up' = NoProc
  /\ Procsave(p)
  /\ UNCHANGED <<mode, fpnotify, regs, history>>

(* pexit: the last sched() of a Moribund process. *)
Exit(p) ==
  /\ up = p /\ mode[p] \in {"kernel", "kproc"}
  /\ up' = NoProc /\ Goes(p, "dead")
  /\ ProcsaveMoribund(p)
  /\ UNCHANGED <<fpnotify, fpsave, regs, history>>

SwitchIn(p) ==
  /\ up = NoProc /\ mode[p] \in InKernel
  /\ up' = p
  /\ Procrestore(p)
  /\ UNCHANGED <<mode, fpnotify, fpsave, history>>

(* What could go wrong: it starts at forkret, as it did before forkretfp. *)
StartAtForkret(p) ==
  /\ up = NoProc /\ mode[p] = "newuser"
  /\ up' = p /\ Goes(p, "user")
  /\ UNCHANGED <<fpstate, fpnotify, fpsave, regs, history>>

(* A forked process first runs at forkretfp: procrestore(up), then forkret. *)
StartUser(p) ==
  /\ up = NoProc /\ mode[p] = "newuser"
  /\ up' = p /\ Goes(p, "user")
  /\ Procrestore(p)
  /\ UNCHANGED <<fpnotify, fpsave, history>>

(* A kernel process starts without procrestore. *)
StartKproc(p) ==
  /\ up = NoProc /\ mode[p] = "newkproc"
  /\ up' = p /\ Goes(p, "kproc")
  /\ UNCHANGED <<fpstate, fpnotify, fpsave, regs, history>>

Next ==
  \E p \in Proc :
    \/ UserFp(p) \/ Trap(p) \/ Return(p)
    \/ \E c \in Proc : Fork(p, c) \/ Kproc(p, c)
    \/ Procsetup(p) \/ ProcsetupLive(p)
    \/ Notify(p) \/ NotifyBit(p) \/ Noted(p)
    \/ SwitchOut(p) \/ Exit(p)
    \/ SwitchIn(p) \/ StartUser(p) \/ StartKproc(p)

Spec == Init /\ [][Next]_vars

-----------------------------------------------------------------------------
(* Every variable has its type. *)
TypeOK ==
  /\ up \in Proc \union {NoProc}
  /\ mode \in [Proc -> Mode]
  /\ fpstate \in [Proc -> {"init", "active", "inactive"}]
  /\ fpnotify \in [Proc -> BOOLEAN]
  /\ fpsave \in [Proc -> FpVal]
  /\ regs \in FpVal
  /\ view \in [Proc -> FpVal]
  /\ wrote \in [Proc -> SUBSET FpVal]
  /\ notified \in [Proc -> BOOLEAN]

(* A program computes on nothing but what it, and no other process, left in  *)
(* the registers: not after a fork, an exec, a switch or a note does it see  *)
(* another's values (procsave, procrestore, procsetup, forkretfp).           *)
Isolation ==
  \A p \in Proc : Runs(p, "user") => regs \in wrote[p]

(* A program no note has reached finds its registers as it left them, however*)
(* often it was switched out and whatever ran in between.                    *)
OwnRegisters ==
  \A p \in Proc : Runs(p, "user") /\ ~notified[p] => regs = view[p]

(* fpstate says FPactive of the running process only: of any other it would  *)
(* make the next procrestore leave the registers of someone else in place.   *)
ActiveIsUp ==
  \A p \in Proc : fpstate[p] = "active" => p = up

(* "The kernel never uses floating point, so state only has to survive a     *)
(* context switch" (fpu.c:42): it survives, for every program.               *)
SurvivesSwitch ==
  \A p \in Proc : Runs(p, "user") => regs = view[p]
=============================================================================
