------------------------------ MODULE FpuProofs ------------------------------
(* Theorems about Fpu, for any set of processes and register contents. *)
EXTENDS Fpu, TLAPS

(* v is a right content of the registers for p's program. *)
Holds(p, v) == v \in wrote[p] /\ (~notified[p] => v = view[p])

Program == {"newuser", "setup", "user", "kernel", "notify"}

(* Where the registers of p's program are, by fpstate.  A process that took  *)
(* a note runs on as FPinactive; any other running one is FPactive, and      *)
(* only a program that has not run yet is FPinit.                            *)
RegsAt(p) ==
  /\ fpstate[p] = "init" => Holds(p, Initfp)
  /\ fpstate[p] = "active" => Holds(p, regs)
  /\ fpstate[p] = "inactive" =>
       /\ Holds(p, fpsave[p])
       /\ up = p => notified[p] /\ Holds(p, regs)
  /\ fpstate[p] = "init" => mode[p] \in {"newuser", "setup"}

(* Which modes a process can be in, by whether it is up. *)
Modes(p) ==
  /\ up = p => mode[p] \in Live
  /\ mode[p] = "newuser" => fpstate[p] = "init"

IInv ==
  /\ TypeOK
  /\ ActiveIsUp
  /\ \A p \in Proc : mode[p] \in Program => RegsAt(p)
  /\ \A p \in Proc : Modes(p)

USE DEF Mode, Live, Fresh, InKernel, Program

(* The invariant holds at the start. *)
LEMMA InitIInv == Init => IInv
BY NoProcAssumption, InitfpAssumption
   DEF Init, IInv, TypeOK, ActiveIsUp, Modes, RegsAt, Holds

(* What NewProgram writes is well typed. *)
LEMMA NewProgramType ==
  ASSUME TypeOK, NEW p \in Proc, NewProgram(p)
  PROVE  /\ view' \in [Proc -> FpVal]
         /\ wrote' \in [Proc -> SUBSET FpVal]
         /\ notified' \in [Proc -> BOOLEAN]
<1>1. {Initfp} \in SUBSET FpVal
  BY InitfpAssumption
<1>2. QED
  BY <1>1, InitfpAssumption DEF TypeOK, NewProgram

(* Every step keeps the types. *)
LEMMA StepTypeOK == TypeOK /\ [Next]_vars => TypeOK'
<1> SUFFICES ASSUME TypeOK, [Next]_vars PROVE TypeOK'
  OBVIOUS
<1> USE InitfpAssumption DEF TypeOK, Runs, Goes, history
<1>1. CASE UNCHANGED vars
  BY <1>1 DEF vars
<1>2. ASSUME NEW p \in Proc, UserFp(p)
      PROVE TypeOK'
  <2>1. PICK v \in FpVal : /\ regs' = v
                           /\ view' = [view EXCEPT ![p] = v]
                           /\ wrote' = [wrote EXCEPT ![p] = @ \union {v}]
    BY <1>2 DEF UserFp
  <2>2. QED
    BY <1>2, <2>1 DEF UserFp
<1>3. ASSUME NEW p \in Proc,
             Trap(p) \/ Return(p) \/ NotifyBit(p) \/ Noted(p)
      PROVE TypeOK'
  BY <1>3 DEF Trap, Return, NotifyBit, Noted
<1>4. ASSUME NEW p \in Proc, ProcsetupLive(p)
      PROVE TypeOK'
  BY <1>4 DEF ProcsetupLive, Procrestore
<1>5. ASSUME NEW p \in Proc, Notify(p)
      PROVE TypeOK'
  BY <1>5 DEF Notify, FpuNotify
<1>6. ASSUME NEW p \in Proc, NEW c \in Proc, Fork(p, c) \/ Kproc(p, c)
      PROVE TypeOK'
  BY <1>6, NewProgramType DEF Fork, Kproc
<1>7. ASSUME NEW p \in Proc, Procsetup(p)
      PROVE TypeOK'
  BY <1>7, NewProgramType DEF Procsetup
<1>8. ASSUME NEW p \in Proc, SwitchOut(p) \/ Exit(p)
      PROVE TypeOK'
  BY <1>8 DEF SwitchOut, Exit, Procsave, ProcsaveMoribund
<1>9. ASSUME NEW p \in Proc, SwitchIn(p) \/ StartUser(p) \/ StartKproc(p)
      PROVE TypeOK'
  BY <1>9 DEF SwitchIn, StartUser, StartKproc, Procrestore
<1>10. QED
  BY <1>1, <1>2, <1>3, <1>4, <1>5, <1>6, <1>7, <1>8, <1>9 DEF Next

(* Fpu's variables have their types in every reachable state (fpu.c).        *)
THEOREM TypeCorrect == Spec => []TypeOK
<1>1. Init => TypeOK
  BY InitIInv DEF IInv
<1>2. QED
  BY <1>1, StepTypeOK, PTL DEF Spec

(* Only the running process is ever FPactive. *)
LEMMA StepActiveIsUp == IInv /\ [Next]_vars => ActiveIsUp'
<1> SUFFICES ASSUME IInv, [Next]_vars PROVE ActiveIsUp'
  OBVIOUS
<1> USE NoProcAssumption DEF IInv, TypeOK, ActiveIsUp, Runs, Goes
<1>1. CASE UNCHANGED vars
  BY <1>1 DEF vars
<1>2. ASSUME NEW p \in Proc,
             \/ UserFp(p) \/ Trap(p) \/ Return(p)
             \/ Procsetup(p) \/ ProcsetupLive(p)
             \/ Notify(p) \/ NotifyBit(p) \/ Noted(p)
      PROVE ActiveIsUp'
  BY <1>2 DEF UserFp, Trap, Return, Procsetup, ProcsetupLive, Procrestore,
              Notify, FpuNotify, NotifyBit, Noted
<1>3. ASSUME NEW p \in Proc, NEW c \in Proc, Fork(p, c) \/ Kproc(p, c)
      PROVE ActiveIsUp'
  BY <1>3 DEF Fork, Kproc
<1>4. ASSUME NEW p \in Proc, SwitchOut(p) \/ Exit(p)
      PROVE ActiveIsUp'
  BY <1>4 DEF SwitchOut, Exit, Procsave, ProcsaveMoribund
<1>5. ASSUME NEW p \in Proc, SwitchIn(p) \/ StartUser(p) \/ StartKproc(p)
      PROVE ActiveIsUp'
  BY <1>5 DEF SwitchIn, StartUser, StartKproc, Procrestore
<1>6. QED
  BY <1>1, <1>2, <1>3, <1>4, <1>5 DEF Next

(* Every step keeps what q's control point knows of its FP contents. *)
LEMMA StepModes ==
  ASSUME IInv, [Next]_vars, NEW q \in Proc
  PROVE  Modes(q)'
<1> USE NoProcAssumption DEF IInv, TypeOK, Modes, Runs, Goes
<1>1. CASE UNCHANGED vars
  BY <1>1 DEF vars
<1>2. ASSUME NEW p \in Proc,
             \/ UserFp(p) \/ Trap(p) \/ Return(p)
             \/ Procsetup(p) \/ ProcsetupLive(p)
             \/ Notify(p) \/ NotifyBit(p) \/ Noted(p)
      PROVE Modes(q)'
  BY <1>2 DEF UserFp, Trap, Return, Procsetup, ProcsetupLive, Procrestore,
              Notify, FpuNotify, NotifyBit, Noted
<1>3. ASSUME NEW p \in Proc, NEW c \in Proc, Fork(p, c) \/ Kproc(p, c)
      PROVE Modes(q)'
  BY <1>3 DEF Fork, Kproc
<1>4. ASSUME NEW p \in Proc, SwitchOut(p) \/ Exit(p)
      PROVE Modes(q)'
  BY <1>4 DEF SwitchOut, Exit, Procsave, ProcsaveMoribund
<1>5. ASSUME NEW p \in Proc, SwitchIn(p) \/ StartUser(p) \/ StartKproc(p)
      PROVE Modes(q)'
  BY <1>5 DEF SwitchIn, StartUser, StartKproc, Procrestore
<1>6. QED
  BY <1>1, <1>2, <1>3, <1>4, <1>5 DEF Next

(* Every step leaves a program's registers where fpstate says they are. *)
LEMMA StepRegsAt ==
  ASSUME IInv, [Next]_vars, NEW q \in Proc, (mode[q] \in Program)'
  PROVE  RegsAt(q)'
<1> USE NoProcAssumption
    DEF IInv, TypeOK, ActiveIsUp, Modes, RegsAt, Holds, Runs, Goes, history
<1>1. CASE UNCHANGED vars
  BY <1>1 DEF vars
<1>2. ASSUME NEW p \in Proc, UserFp(p)
      PROVE RegsAt(q)'
  <2>1. PICK v \in FpVal : /\ regs' = v
                           /\ view' = [view EXCEPT ![p] = v]
                           /\ wrote' = [wrote EXCEPT ![p] = @ \union {v}]
    BY <1>2 DEF UserFp
  <2>2. CASE q = p
    BY <1>2, <2>1, <2>2 DEF UserFp
  <2>3. CASE q # p
    BY <1>2, <2>1, <2>3 DEF UserFp
  <2>4. QED
    BY <2>2, <2>3
<1>3. ASSUME NEW p \in Proc, Trap(p) \/ Return(p) \/ NotifyBit(p) \/ Noted(p)
      PROVE RegsAt(q)'
  BY <1>3 DEF Trap, Return, NotifyBit, Noted
<1>4. ASSUME NEW p \in Proc, NEW c \in Proc, Fork(p, c) \/ Kproc(p, c)
      PROVE RegsAt(q)'
  BY <1>4 DEF Fork, Kproc, NewProgram
<1>5. ASSUME NEW p \in Proc, Procsetup(p)
      PROVE RegsAt(q)'
  BY <1>5 DEF Procsetup, NewProgram
<1>6. ASSUME NEW p \in Proc, ProcsetupLive(p)
      PROVE RegsAt(q)'
  BY <1>6 DEF ProcsetupLive, Procrestore
<1>7. ASSUME NEW p \in Proc, Notify(p)
      PROVE RegsAt(q)'
  BY <1>7 DEF Notify, FpuNotify
<1>8. ASSUME NEW p \in Proc, SwitchOut(p)
      PROVE RegsAt(q)'
  BY <1>8 DEF SwitchOut, Procsave
<1>9. ASSUME NEW p \in Proc, Exit(p)
      PROVE RegsAt(q)'
  BY <1>9 DEF Exit, ProcsaveMoribund
<1>10. ASSUME NEW p \in Proc, SwitchIn(p) \/ StartUser(p)
      PROVE RegsAt(q)'
  BY <1>10 DEF SwitchIn, StartUser, Procrestore
<1>11. ASSUME NEW p \in Proc, StartKproc(p)
      PROVE RegsAt(q)'
  BY <1>11 DEF StartKproc
<1>12. QED
  BY <1>1, <1>2, <1>3, <1>4, <1>5, <1>6, <1>7, <1>8, <1>9, <1>10, <1>11 DEF Next

(* So the invariant always holds. *)
LEMMA Invariance == Spec => []IInv
<1>1. IInv /\ [Next]_vars => IInv'
  <2> SUFFICES ASSUME IInv, [Next]_vars PROVE IInv'
    OBVIOUS
  <2>1. TypeOK' /\ ActiveIsUp'
    BY StepTypeOK, StepActiveIsUp DEF IInv
  <2>2. \A p \in Proc : Modes(p)'
    BY StepModes
  <2>3. \A p \in Proc : (mode[p] \in Program)' => RegsAt(p)'
    BY StepRegsAt
  <2>4. QED
    BY <2>1, <2>2, <2>3 DEF IInv
<1>2. QED
  BY InitIInv, <1>1, PTL DEF Spec

(* A program computes only on values it left in the registers itself, so no  *)
(* switch, fork, exec, exit or note shows it another program's (fpu.c).      *)
THEOREM IsolationHolds == Spec => []Isolation
<1>1. IInv => Isolation
  BY DEF IInv, Isolation, RegsAt, Holds, Runs, TypeOK, ActiveIsUp
<1>2. QED
  BY Invariance, <1>1, PTL

(* A program that no note has reached finds its registers as it left them,   *)
(* whatever runs in between (procsave, procrestore, forkretfp).              *)
THEOREM OwnRegistersHolds == Spec => []OwnRegisters
<1>1. IInv => OwnRegisters
  BY DEF IInv, OwnRegisters, RegsAt, Holds, Runs, TypeOK, ActiveIsUp
<1>2. QED
  BY Invariance, <1>1, PTL

(* Nobody but the running process is FPactive (procsave).                    *)
THEOREM ActiveIsUpHolds == Spec => []ActiveIsUp
<1>1. IInv => ActiveIsUp
  BY DEF IInv
<1>2. QED
  BY Invariance, <1>1, PTL
=============================================================================
