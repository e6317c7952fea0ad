----------------------------- MODULE FaultProofs -----------------------------
(* Theorems about FaultPath.  P is MmuProofs over FaultPath's memory: what   *)
(* that module proves about Mmu can then be cited.  P!Start is the Start of  *)
(* M, FaultPath's instance of Mmu, and so on; the first lemmas say so.       *)
EXTENDS FaultPath, TLAPS

P == INSTANCE MmuProofs WITH pc <- mpc

USE ProcAssumption, ValueAssumption, VAAssumption

-----------------------------------------------------------------------------
(* FaultPath's memory steps are Mmu's own. *)
LEMMA SameStep ==
  ASSUME NEW p \in Proc
  PROVE  /\ M!Start(p) => P!Start(p)
         /\ M!Enter(p) => P!Enter(p)
         /\ M!Return(p) => P!Return(p)
         /\ \A va \in VA, f \in Frame : M!Putmmu(p, va, f) => P!Putmmu(p, va, f)
         /\ M!Invalidate(p) => P!Invalidate(p)
         /\ M!SwitchOut(p) => P!SwitchOut(p)
         /\ M!ReleaseSwitch(p) => P!ReleaseSwitch(p)
<1> USE DEF M!Runs, P!Runs, M!Goes, P!Goes, M!proc, P!proc, M!lists, P!lists,
            M!tables, P!tables, M!hart, P!hart
<1>1. M!Start(p) => P!Start(p)
  BY DEF M!Start, P!Start
<1>2. M!Enter(p) => P!Enter(p)
  BY DEF M!Enter, P!Enter
<1>3. M!Return(p) => P!Return(p)
  BY DEF M!Return, P!Return
<1>4. \A va \in VA, f \in Frame : M!Putmmu(p, va, f) => P!Putmmu(p, va, f)
  BY DEF M!Putmmu, P!Putmmu
<1>5. M!Invalidate(p) => P!Invalidate(p)
  BY DEF M!Invalidate, P!Invalidate
<1>6. M!SwitchOut(p) => P!SwitchOut(p)
  BY DEF M!SwitchOut, P!SwitchOut, M!Preemptible, M!Putting,
         P!Preemptible, P!Putting
<1>7. M!ReleaseSwitch(p) => P!ReleaseSwitch(p)
  BY DEF M!ReleaseSwitch, P!ReleaseSwitch, M!SatpSet, P!SatpSet
<1>8. QED
  BY <1>1, <1>2, <1>3, <1>4, <1>5, <1>6, <1>7

(* The Mmu in FaultPath is the module Mmu: a switch and an exit. *)
LEMMA SameSwitch ==
  ASSUME NEW p \in Proc
  PROVE  /\ M!Flushmmu(p) => P!Flushmmu(p)
         /\ M!SwitchIn(p) => P!SwitchIn(p)
         /\ M!Release(p) => P!Release(p)
<1> USE DEF M!Runs, P!Runs, M!Goes, P!Goes, M!proc, P!proc, M!lists, P!lists,
            M!tables, P!tables, M!hart, P!hart, M!JunkTable, P!JunkTable
<1>1. \A nt \in BOOLEAN \union {newtlb[p]} : M!Mmuswitch(p, nt) => P!Mmuswitch(p, nt)
  BY DEF M!Mmuswitch, P!Mmuswitch, M!SatpSet, P!SatpSet, M!Mmufree, P!Mmufree,
         M!EmptyTable, P!EmptyTable
<1>2. M!Flushmmu(p) => P!Flushmmu(p)
  BY <1>1 DEF M!Flushmmu, P!Flushmmu
<1>3. M!SwitchIn(p) => P!SwitchIn(p)
  BY <1>1 DEF M!SwitchIn, P!SwitchIn, M!Preemptible, M!Putting,
         P!Preemptible, P!Putting
<1>4. M!Release(p) => P!Release(p)
  BY DEF M!Release, P!Release
<1>5. QED
  BY <1>2, <1>3, <1>4

(* The steps of putmmu. *)
LEMMA SamePut ==
  ASSUME NEW p \in Proc
  PROVE  /\ M!RootAlloc(p) => P!RootAlloc(p)
         /\ M!RootSatp(p) => P!RootSatp(p)
         /\ M!RootLive(p) => P!RootLive(p)
         /\ M!WalkLink(p) => P!WalkLink(p)
         /\ M!WalkNil(p) => P!WalkNil(p)
         /\ M!Refill(p) => P!Refill(p)
         /\ M!PutLeaf(p) => P!PutLeaf(p)
<1> USE DEF M!Runs, P!Runs, M!Goes, P!Goes, M!proc, P!proc, M!lists, P!lists,
            M!tables, P!tables, M!hart, P!hart, M!First, P!First, M!Entry, P!Entry,
            M!EmptyTable, P!EmptyTable
<1>1. M!RootAlloc(p) => P!RootAlloc(p)
  BY DEF M!RootAlloc, P!RootAlloc
<1>2. M!RootSatp(p) => P!RootSatp(p)
  BY DEF M!RootSatp, P!RootSatp
<1>3. M!RootLive(p) => P!RootLive(p)
  BY DEF M!RootLive, P!RootLive, M!SatpSet, P!SatpSet
<1>4. \A t \in Page, x \in Idx : M!Missing(p, t, x) <=> P!Missing(p, t, x)
  BY DEF M!Missing, P!Missing
<1>5. M!Walked(p) <=> P!Walked(p)
  BY <1>4 DEF M!Walked, P!Walked
<1>6. M!WalkLink(p) => P!WalkLink(p)
  BY <1>4 DEF M!WalkLink, P!WalkLink
<1>7. M!WalkNil(p) => P!WalkNil(p)
  BY <1>5 DEF M!WalkNil, P!WalkNil
<1>8. M!Refill(p) => P!Refill(p)
  BY DEF M!Refill, P!Refill
<1>9. M!PutLeaf(p) => P!PutLeaf(p)
  BY <1>5 DEF M!PutLeaf, P!PutLeaf
<1>10. QED
  BY <1>1, <1>2, <1>3, <1>6, <1>7, <1>8, <1>9

(* What is nobody's step, and the start. *)
LEMMA SameOther ==
  /\ M!SwitchKproc => P!SwitchKproc
  /\ \A va \in VA : M!Fill(va) => P!Fill(va)
  /\ M!Init => P!Init
<1> USE DEF M!proc, P!proc, M!lists, P!lists, M!tables, P!tables, M!hart, P!hart
<1>1. M!SwitchKproc => P!SwitchKproc
  BY DEF M!SwitchKproc, P!SwitchKproc, M!SatpSet, P!SatpSet
<1>2. \A va \in VA : M!Fill(va) => P!Fill(va)
  BY DEF M!Fill, P!Fill, M!Translate, P!Translate, M!Entry, P!Entry
<1>3. M!Init => P!Init
  BY DEF M!Init, P!Init, M!JunkTable, P!JunkTable
<1>4. QED
  BY <1>1, <1>2, <1>3

-----------------------------------------------------------------------------
(* The invariant: a process in user mode is where its memory's pc says it    *)
(* is, and a putmmu that is remembered is one the process still sees.        *)
ModeOK ==
  /\ up = NoProc => mode = "S"
  /\ \A p \in Proc : up = p /\ mode = "U" => mpc[p] = "user"

DoneOK ==
  /\ done \in [Proc -> (VA \X Frame) \union {Nil}]
  /\ \A p \in Proc : done[p] # Nil => P!SeenAt(p, done[p][1]) = done[p][2]

MissOK == miss \in [Proc -> VA \union {Nil}]

FaultInv == P!TreeInv /\ ModeOK /\ MissOK /\ DoneOK

(* What the steps of a process are to its memory, to the hart's mode and to  *)
(* the history, by kind.  Into the kernel from the user's program ...        *)
Enters(p) == Enter(p) \/ UserFault(p)

(* Such a step is Enter of Mmu, and leaves the hart in the kernel. *)
LEMMA EntersIs ==
  ASSUME NEW p \in Proc, Enters(p)
  PROVE  P!Enter(p) /\ mode' = "S" /\ UNCHANGED <<up, done>>
<1>1. P!Enter(p) /\ UNCHANGED done
  BY SameStep DEF Enters, Enter, UserFault, seen
<1>2. mode' = "S" /\ UNCHANGED up
  BY DEF Enters, Enter, UserFault, T!Ecall, T!Interrupt, T!Fault, T!Take
<1>3. QED
  BY <1>1, <1>2

(* ... in the kernel, memory and process as they were ... *)
Handles(p) ==
  KernelFault(p) \/ KernelInterrupt(p) \/ Trapvec(p) \/ KernelWork(p)
  \/ HandlerEnds(p) \/ Notes(p)

(* A step that leaves the memory and the running process is a stutter of Mmu. *)
LEMMA MemoryKept == memory' = memory /\ UNCHANGED up => UNCHANGED P!vars
BY DEF memory, P!vars, P!proc, P!lists, P!tables, P!hart

(* Such a step leaves the memory and the running process alone. *)
LEMMA HandlesIs ==
  ASSUME NEW p \in Proc, Handles(p)
  PROVE  UNCHANGED P!vars /\ mode = "S" /\ mode' = "S" /\ UNCHANGED done
<1> USE DEF T!InKernel
<1>1. UNCHANGED <<memory, done>>
  BY DEF Handles, KernelFault, KernelInterrupt, Trapvec, KernelWork,
         HandlerEnds, Notes, seen
<1>2. mode = "S" /\ mode' = "S" /\ UNCHANGED up
  <2>1. CASE KernelFault(p) \/ KernelInterrupt(p)
    BY <2>1 DEF KernelFault, KernelInterrupt, T!Fault, T!Interrupt, T!Take
  <2>2. CASE Trapvec(p)
    BY <2>2 DEF Trapvec, T!Trapvec
  <2>3. CASE KernelWork(p)
    BY <2>3 DEF KernelWork, T!Syscall, T!HandlerReturn, T!RestoreSepc,
                T!RestoreSstatus, T!RestoreSscratch, T!Init0, T!Touser, T!csrs
  <2>4. CASE HandlerEnds(p)
    BY <2>4 DEF HandlerEnds, T!Splhi
  <2>5. CASE Notes(p)
    BY <2>5 DEF Notes, T!Notify, T!Noted, T!InSyscall, T!InDonotify
  <2>6. QED
    BY <2>1, <2>2, <2>3, <2>4, <2>5 DEF Handles
<1>3. QED
  BY <1>1, <1>2, MemoryKept

(* ... out of it, by SRET ... *)
LEMMA LeaveIs ==
  ASSUME NEW p \in Proc, Leave(p)
  PROVE  /\ up = p /\ UNCHANGED <<up, done>>
         /\ P!Return(p) \/ (UNCHANGED P!vars /\ mode' # "U")
<1>1. up = p /\ mode' = spp /\ UNCHANGED up
  BY DEF Leave, T!TrapReturn, T!TouserSret, T!Sret, T!InKernel
<1>2. UNCHANGED done /\ (M!Return(p) \/ (memory' = memory /\ spp # "U"))
  BY DEF Leave, seen
<1>3. QED
  BY <1>1, <1>2, SameStep, MemoryKept

(* ... fault()'s call of putmmu ... *)
LEMMA PutmmuIs ==
  ASSUME NEW p \in Proc, MissOK, Putmmu(p)
  PROVE  /\ mode = "S" /\ UNCHANGED <<up, mode, done>>
         /\ \E va \in VA, f \in Frame : P!Putmmu(p, va, f)
<1>1. mode = "S" /\ UNCHANGED <<mode, done>>
  BY DEF Putmmu, InFault, T!InKernel, traps, seen
<1>2. miss[p] \in VA
  BY DEF Putmmu, MissOK
<1>3. \E va \in VA, f \in Frame : P!Putmmu(p, va, f)
  BY <1>2, SameStep DEF Putmmu
<1>4. QED
  BY <1>1, <1>3 DEF P!Putmmu

(* ... the steps of one, the last of which is remembered ... *)
LEMMA PutStepIs ==
  ASSUME NEW p \in Proc, P!TypeOK, PutStep(p)
  PROVE  /\ mode = "S" /\ UNCHANGED <<up, mode>>
         /\ \/ P!PutLeaf(p) /\ done' = [done EXCEPT ![p] = arg[p]]
            \/ (P!PutStep(p) /\ ~P!PutLeaf(p) /\ UNCHANGED done)
<1>1. mode = "S" /\ UNCHANGED mode
  BY DEF PutStep, InFault, T!InKernel, traps
<1>2. P!PutStep(p)
  BY SamePut DEF PutStep, M!PutStep, P!PutStep
<1>3. UNCHANGED up
  BY <1>2 DEF P!PutStep, P!RootAlloc, P!RootSatp, P!RootLive, P!WalkLink, P!WalkNil, P!Refill, P!PutLeaf
<1>4. mpc \in [Proc -> P!PC]
  BY DEF P!TypeOK
<1>5. P!PutLeaf(p) => mpc'[p] = "kernel"
  BY <1>4 DEF P!PutLeaf, P!Goes
<1>6. ~P!PutLeaf(p) => mpc'[p] # "kernel"
  BY <1>2, <1>4 DEF P!PutStep, P!RootAlloc, P!RootSatp, P!RootLive, P!WalkLink, P!WalkNil, P!Refill,
                    P!Goes, P!Runs
<1>7. IF mpc'[p] = "kernel" THEN done' = [done EXCEPT ![p] = arg[p]] ELSE UNCHANGED done
  BY DEF PutStep, seen
<1>8. QED
  BY <1>1, <1>2, <1>3, <1>5, <1>6, <1>7

(* ... what takes mappings away, which is remembered, too ... *)
Loses(p) == Exec(p) \/ Flush(p) \/ Invalidate(p) \/ Exit(p)

(* What p loses its pages by: a flush, the pager or its exit; no putmmu of p is still good. *)
LEMMA LosesIs ==
  ASSUME NEW p \in Proc, Loses(p)
  PROVE  /\ done' = [done EXCEPT ![p] = Nil]
         /\ \/ P!Flushmmu(p) /\ mode = "S" /\ mode' = "S"
            \/ P!Invalidate(p) /\ mode' = mode
            \/ P!Release(p) /\ mode = "S" /\ mode' = "S"
<1>1. done' = [done EXCEPT ![p] = Nil]
  BY DEF Loses, Exec, Flush, Invalidate, Exit, Lost
<1>2. CASE Exec(p) \/ Flush(p)
  <2>1. mode = "S" /\ mode' = "S"
    BY <1>2 DEF Exec, Flush, T!Exec, T!InSyscall, T!InKernel, traps
  <2>2. QED
    BY <1>1, <1>2, <2>1, SameSwitch DEF Exec, Flush
<1>3. CASE Invalidate(p)
  BY <1>1, <1>3, SameStep DEF Invalidate, traps
<1>4. CASE Exit(p)
  <2>1. mode = "S" /\ mode' = "S"
    BY <1>4 DEF Exit, T!Exit, T!InSyscall, T!InDonotify, T!InKernel
  <2>2. QED
    BY <1>1, <1>4, <2>1, SameSwitch DEF Exit
<1>5. QED
  BY <1>2, <1>3, <1>4 DEF Loses

(* ... and switches. *)
Switches(p) == SwitchOut(p) \/ SwitchIn(p) \/ ExitSwitch(p)

(* A switch is one of Mmu's, in the kernel. *)
LEMMA SwitchesIs ==
  ASSUME NEW p \in Proc, ModeOK, Switches(p)
  PROVE  /\ mode = "S" /\ mode' = "S" /\ UNCHANGED done
         /\ P!SwitchOut(p) \/ P!SwitchIn(p) \/ P!ReleaseSwitch(p)
<1> USE DEF T!InKernel, seen
<1>1. CASE SwitchOut(p)
  <2>1. mode = "S" /\ mode' = "S"
    BY <1>1 DEF SwitchOut, T!Sleep, T!Preempt, T!Delaysched, T!Sched
  <2>2. QED
    BY <1>1, <2>1, SameStep DEF SwitchOut
<1>2. CASE SwitchIn(p)
  <2>1. mode = "S" /\ mode' = "S"
    BY <1>2 DEF SwitchIn, T!SwitchIn, ModeOK
  <2>2. QED
    BY <1>2, <2>1, SameSwitch DEF SwitchIn
<1>3. CASE ExitSwitch(p)
  <2>1. mode = "S" /\ mode' = "S"
    BY <1>3 DEF ExitSwitch, T!InSyscall, T!InDonotify, traps
  <2>2. QED
    BY <1>3, <2>1, SameStep DEF ExitSwitch
<1>4. QED
  BY <1>1, <1>2, <1>3 DEF Switches

(* The start of a program is one of Mmu's. *)
LEMMA StartIs ==
  ASSUME NEW p \in Proc, Start(p)
  PROVE  P!Start(p) /\ UNCHANGED <<mode, done>>
BY SameStep DEF Start, traps, seen

(* The others switch to a kernel process, the hart walks, or the memory is as it was. *)
LEMMA OthersIs ==
  ASSUME Others
  PROVE  /\ UNCHANGED <<mode, done>>
         /\ UNCHANGED P!vars \/ P!SwitchKproc \/ (\E va \in VA : P!Fill(va))
<1>1. CASE T!SchedInterrupt /\ UNCHANGED <<memory, seen>>
  <2>1. UNCHANGED <<up, mode>>
    BY <1>1 DEF T!SchedInterrupt
  <2>2. QED
    BY <1>1, <2>1, MemoryKept DEF seen
<1>2. CASE (M!SwitchKproc \/ \E va \in VA : M!Fill(va)) /\ UNCHANGED <<traps, seen>>
  BY <1>2, SameOther DEF traps, seen
<1>3. QED
  BY <1>1, <1>2 DEF Others

(* A step is one of these. *)
LEMMA StepIs ==
  ASSUME [Next]_vars
  PROVE  \/ /\ satp # Bare
            /\ \/ Others
               \/ \E p \in Proc :
                    \/ Enters(p) \/ Handles(p) \/ Leave(p) \/ Putmmu(p)
                    \/ PutStep(p) \/ Loses(p) \/ Switches(p) \/ Start(p)
         \/ (UNCHANGED P!vars /\ UNCHANGED <<mode, miss, done>>)
<1>1. CASE UNCHANGED vars
  BY <1>1, MemoryKept DEF vars, traps, seen
<1>2. CASE Next /\ ~UNCHANGED vars
  BY <1>2 DEF Next, Work, Enters, Handles, Loses, Switches
<1>3. QED
  BY <1>1, <1>2


-----------------------------------------------------------------------------
(* Each step of FaultPath is one of Mmu's, or leaves the memory alone. *)
LEMMA StepMemory ==
  ASSUME FaultInv, [Next]_vars
  PROVE  [P!Next]_(P!vars)
<1> P!TypeOK /\ ModeOK /\ MissOK
  BY DEF FaultInv, P!TreeInv, P!IInv
<1>1. ASSUME satp # Bare, NEW p \in Proc, Enters(p)
      PROVE  P!Next
  BY <1>1, EntersIs DEF P!Next
<1>2. ASSUME satp # Bare, NEW p \in Proc, Leave(p) \/ Putmmu(p) \/ PutStep(p)
      PROVE  [P!Next]_(P!vars)
  BY <1>2, LeaveIs, PutmmuIs, PutStepIs DEF P!Next, P!PutStep
<1>3. ASSUME satp # Bare, NEW p \in Proc, Loses(p) \/ Switches(p) \/ Start(p)
      PROVE  P!Next
  BY <1>3, LosesIs, SwitchesIs, StartIs DEF P!Next
<1>4. ASSUME NEW p \in Proc, Handles(p)
      PROVE  UNCHANGED P!vars
  BY <1>4, HandlesIs
<1>5. ASSUME satp # Bare, Others
      PROVE  [P!Next]_(P!vars)
  BY <1>5, OthersIs DEF P!Next
<1>6. QED
  BY <1>1, <1>2, <1>3, <1>4, <1>5, StepIs

(* A step into user mode is p's Return; one out of it, p's Enter; while the  *)
(* hart is there, no step moves p's pc in its memory.                        *)
LEMMA StepModeOK ==
  ASSUME FaultInv, [Next]_vars
  PROVE  ModeOK'
<1> P!TypeOK /\ ModeOK /\ MissOK
  BY DEF FaultInv, P!TreeInv, P!IInv
<1> mpc \in [Proc -> P!PC]
  BY DEF P!TypeOK
<1>1. CASE mode' # "U" /\ mode' = "S"
  BY <1>1 DEF ModeOK
<1>2. CASE UNCHANGED <<up, mpc, mode>>
  BY <1>2 DEF ModeOK
<1>3. ASSUME NEW p \in Proc, P!Return(p), UNCHANGED up
      PROVE  ModeOK'
  BY <1>3, P!NoProcAssumption DEF P!Return, P!Runs, P!Goes, ModeOK
<1>4. ASSUME NEW p \in Proc, Leave(p)
      PROVE  ModeOK'
  <2>1. CASE P!Return(p)
    BY <1>4, <2>1, <1>3, LeaveIs
  <2>2. CASE UNCHANGED P!vars /\ mode' # "U"
    BY <1>4, <2>2, LeaveIs, P!NoProcAssumption DEF ModeOK
  <2>3. QED
    BY <1>4, <2>1, <2>2, LeaveIs
<1>5. ASSUME NEW p \in Proc, Start(p)
      PROVE  ModeOK'
  <2>1. UNCHANGED <<up, mode>> /\ mpc[p] = "dead" /\ mpc' = [mpc EXCEPT ![p] = "kernel"]
    BY <1>5, StartIs DEF P!Start, P!Goes
  <2>2. QED
    BY <2>1 DEF ModeOK
<1>6. ASSUME NEW p \in Proc, Loses(p)
      PROVE  ModeOK'
  <2>1. CASE P!Invalidate(p) /\ mode' = mode
    BY <2>1, <1>2 DEF P!Invalidate
  <2>2. QED
    BY <1>1, <1>6, <2>1, LosesIs
<1>7. ASSUME Others
      PROVE  ModeOK'
  <2>1. UNCHANGED <<up, mpc, mode>>
    BY <1>7, OthersIs DEF P!SwitchKproc, P!Fill, P!vars
  <2>2. QED
    BY <1>2, <2>1
<1>8. ASSUME NEW p \in Proc,
             Enters(p) \/ Handles(p) \/ Putmmu(p) \/ PutStep(p) \/ Switches(p)
      PROVE  mode' = "S"
  BY <1>8, EntersIs, HandlesIs, PutmmuIs, PutStepIs, SwitchesIs
<1>9. QED
  <2>1. UNCHANGED P!vars /\ UNCHANGED <<mode, miss, done>> => ModeOK'
    BY <1>2 DEF P!vars
  <2>2. QED
    BY <1>1, <1>4, <1>5, <1>6, <1>7, <1>8, <2>1, StepIs

(* Only faults say what is missing. *)
LEMMA StepMissOK ==
  ASSUME FaultInv, [Next]_vars
  PROVE  MissOK'
<1> MissOK
  BY DEF FaultInv
<1>1. CASE UNCHANGED miss
  BY <1>1 DEF MissOK
<1>2. ASSUME NEW p \in Proc, NEW va \in VA \union {Nil}, miss' = [miss EXCEPT ![p] = va]
      PROVE  MissOK'
  BY <1>2 DEF MissOK
<1>3. ASSUME NEW p \in Proc, Enters(p) \/ Handles(p) \/ PutStep(p)
      PROVE  MissOK'
  BY <1>1, <1>2, <1>3
     DEF Enters, Enter, UserFault, Handles, KernelFault, KernelInterrupt,
         Trapvec, KernelWork, HandlerEnds, Notes, PutStep, seen
<1>4. ASSUME NEW p \in Proc,
             Leave(p) \/ Putmmu(p) \/ Loses(p) \/ Switches(p) \/ Start(p)
      PROVE  UNCHANGED miss
  BY <1>4 DEF Leave, Putmmu, Loses, Exec, Flush, Invalidate, Exit,
              Switches, SwitchOut, SwitchIn, ExitSwitch, Start, seen
<1>5. Others => UNCHANGED miss
  BY DEF Others, seen
<1>6. QED
  BY <1>1, <1>3, <1>4, <1>5, StepIs

(* DoneOK of the next state, of the puts remembered there. *)
LEMMA DoneOKPrime ==
  ASSUME done' \in [Proc -> (VA \X Frame) \union {Nil}],
         \A q \in Proc : \A d \in VA \X Frame :
           done'[q] = d /\ d # Nil => P!SeenAt(q, d[1])' = d[2]
  PROVE  DoneOK'
<1> SUFFICES ASSUME NEW q \in Proc, done'[q] # Nil
             PROVE  P!SeenAt(q, done[q][1])' = done'[q][2]
  BY DEF DoneOK
<1>1. PICK d \in VA \X Frame : done'[q] = d
  OBVIOUS
<1>2. P!SeenAt(q, d[1])' = d[2]
  BY <1>1
<1>3. QED
  BY <1>1, <1>2 DEF P!SeenAt, P!Maps, P!Translate, P!Entry

(* A putmmu is remembered while nothing p sees of its addresses changes but  *)
(* by its next one.                                                          *)
LEMMA StepDoneOK ==
  ASSUME FaultInv, [Next]_vars
  PROVE  DoneOK'
<1> P!TreeInv /\ P!TypeOK /\ ModeOK /\ MissOK /\ DoneOK
  BY DEF FaultInv, P!TreeInv, P!IInv
<1> P!TypeOK'
  BY StepMemory, P!StepTypeOK DEF P!TreeInv
<1>1. ASSUME UNCHANGED done, \A q \in Proc, va \in VA : P!SeenAt(q, va)' = P!SeenAt(q, va)
      PROVE  DoneOK'
  <2>1. \A q \in Proc : done[q] # Nil => done[q][1] \in VA
    BY DEF DoneOK
  <2>2. \A q \in Proc : done[q] # Nil => P!SeenAt(q, done[q][1])' = done[q][2]
    BY <1>1, <2>1 DEF DoneOK
  <2>3. QED
    BY <1>1, <2>2 DEF DoneOK
<1>2. ASSUME NEW p \in Proc, P!Hides(p), UNCHANGED done
      PROVE  DoneOK'
  BY <1>1, <1>2, P!SeenAtKept
<1>3. ASSUME NEW p \in Proc, P!PutLeaf(p), done' = [done EXCEPT ![p] = arg[p]]
      PROVE  DoneOK'
  <2>1. arg[p] \in VA \X Frame
    BY <1>3, P!SeenAtPut
  <2>2. done' \in [Proc -> (VA \X Frame) \union {Nil}]
    BY <1>3, <2>1 DEF DoneOK
  <2>3. ASSUME NEW q \in Proc, NEW d \in VA \X Frame, done'[q] = d, d # Nil
        PROVE  P!SeenAt(q, d[1])' = d[2]
    <3>1. P!SeenAt(q, d[1])' = IF q = p /\ d[1] = arg[p][1] THEN arg[p][2] ELSE P!SeenAt(q, d[1])
      BY <1>3, P!SeenAtPut
    <3>2. CASE q = p
      BY <1>3, <2>3, <3>1, <3>2 DEF DoneOK
    <3>3. CASE q # p
      <4>1. done[q] = d /\ d # Nil
        BY <1>3, <2>3, <3>3 DEF DoneOK
      <4>2. QED
        BY <3>1, <3>3, <4>1 DEF DoneOK
    <3>4. QED
      BY <3>2, <3>3
  <2>4. QED
    BY <2>2, <2>3, DoneOKPrime
<1>4. ASSUME NEW p \in Proc, Loses(p)
      PROVE  DoneOK'
  <2>1. done' = [done EXCEPT ![p] = Nil] /\ (P!Flushmmu(p) \/ P!Invalidate(p) \/ P!Release(p))
    BY <1>4, LosesIs
  <2>2. done' \in [Proc -> (VA \X Frame) \union {Nil}]
    BY <2>1 DEF DoneOK
  <2>3. ASSUME NEW q \in Proc, NEW d \in VA \X Frame, done'[q] = d, d # Nil
        PROVE  P!SeenAt(q, d[1])' = d[2]
    <3>1. q # p /\ done[q] = d
      BY <2>1, <2>3 DEF DoneOK
    <3>2. P!SeenAt(q, d[1])' = P!SeenAt(q, d[1])
      BY <2>1, <3>1, P!SeenAtEmptied
    <3>3. QED
      BY <2>3, <3>1, <3>2 DEF DoneOK
  <2>4. QED
    BY <2>2, <2>3, DoneOKPrime
<1>5. ASSUME NEW p \in Proc, UNCHANGED P!vars, UNCHANGED done
      PROVE  DoneOK'
  BY <1>1, <1>5, P!SeenAtKept
<1>6. ASSUME Others
      PROVE  DoneOK'
  <2>1. CASE Proc = {}
    BY <1>1, <1>6, <2>1, OthersIs
  <2>2. CASE Proc # {}
    BY <1>1, <1>6, <2>2, OthersIs, P!SeenAtKept
  <2>3. QED
    BY <2>1, <2>2
<1>7. ASSUME NEW p \in Proc, PutStep(p)
      PROVE  DoneOK'
  <2>1. CASE P!PutLeaf(p) /\ done' = [done EXCEPT ![p] = arg[p]]
    BY <1>3, <2>1
  <2>2. CASE P!PutStep(p) /\ ~P!PutLeaf(p) /\ UNCHANGED done
    BY <1>2, <2>2 DEF P!PutStep, P!Hides, P!Idles
  <2>3. QED
    BY <1>7, <2>1, <2>2, PutStepIs
<1>8. ASSUME NEW p \in Proc,
             Enters(p) \/ Handles(p) \/ Leave(p) \/ Putmmu(p) \/ Switches(p) \/ Start(p)
      PROVE  DoneOK'
  <2>1. UNCHANGED done /\ (P!Hides(p) \/ UNCHANGED P!vars)
    BY <1>8, EntersIs, HandlesIs, LeaveIs, PutmmuIs, SwitchesIs, StartIs DEF P!Hides, P!Idles
  <2>2. QED
    BY <1>2, <1>5, <2>1
<1>9. UNCHANGED P!vars /\ UNCHANGED <<mode, miss, done>> => DoneOK'
  <2>1. CASE Proc = {}
    BY <1>1, <2>1
  <2>2. CASE Proc # {}
    BY <1>5, <2>2
  <2>3. QED
    BY <2>1, <2>2
<1>10. QED
  BY <1>4, <1>6, <1>7, <1>8, <1>9, StepIs


(* The invariant holds at the start, which is a start of Mmu. *)
LEMMA InitFaultInv == Init => P!Init /\ FaultInv
<1> SUFFICES ASSUME Init PROVE P!Init /\ FaultInv
  OBVIOUS
<1>1. P!Init /\ P!TreeInv
  BY SameOther, P!InitTreeInv DEF Init
<1>2. ModeOK
  BY P!NoProcAssumption DEF Init, T!Init, ModeOK
<1>3. MissOK /\ DoneOK
  BY DEF Init, MissOK, DoneOK
<1>4. QED
  BY <1>1, <1>2, <1>3 DEF FaultInv

(* Every step keeps the invariant. *)
LEMMA StepFaultInv == FaultInv /\ [Next]_vars => FaultInv'
<1> SUFFICES ASSUME FaultInv, [Next]_vars PROVE FaultInv'
  OBVIOUS
<1>1. P!TreeInv'
  BY StepMemory, P!StepTreeInv DEF FaultInv
<1>2. QED
  BY <1>1, StepModeOK, StepMissOK, StepDoneOK DEF FaultInv

(* So the invariant always holds. *)
LEMMA FaultInvariance == Spec => []FaultInv
BY InitFaultInv, StepFaultInv, PTL DEF Spec

-----------------------------------------------------------------------------
(* Whatever the traps, the notes and the scheduler do around putmmu          *)
(* (trap.c:225-370), the memory behaves as Mmu says: every theorem of        *)
(* MmuProofs is one of FaultPath.                                            *)
THEOREM MemoryIsMmu == Spec => P!Spec
<1>1. FaultInv /\ [Next]_vars => [P!Next]_(P!vars)
  BY StepMemory
<1>2. QED
  BY <1>1, InitFaultInv, FaultInvariance, PTL DEF Spec, P!Spec

(* A program that has been given a page and not lost it again finds it when  *)
(* it tries again, in the table the hart walks and in what the hart          *)
(* remembers (putmmu, mmu.c:320; trap.c:352), however many processes there   *)
(* are and however deep the traps go.                                        *)
THEOREM RetryWorksHolds == Spec => []RetryWorks
<1>1. FaultInv => RetryWorks
  <2> SUFFICES ASSUME FaultInv, NEW p \in Proc, up = p, mode = "U", done[p] # Nil
               PROVE  LET va == done[p][1] IN
                      /\ M!Translate(satp, va) = done[p][2]
                      /\ \A e \in tlb : e[1] = va => e[2] = done[p][2]
    BY DEF RetryWorks
  <2>1. P!Runs(p, "user") /\ P!UpOK(p) /\ P!CacheOK
    BY DEF FaultInv, ModeOK, P!Runs, P!TreeInv
  <2>2. done[p][1] \in VA /\ done[p][2] \in Frame /\ P!SeenAt(p, done[p][1]) = done[p][2]
    BY DEF FaultInv, DoneOK
  <2>3. P!Maps(p, done[p][1]) = done[p][2] /\ done[p][2] # Nil
    BY <2>2, P!ValueAssumption DEF P!SeenAt
  <2>4. mmuroot[p] # Nil /\ satp = mmuroot[p]
    BY <2>1, <2>3, P!TranslateNil DEF P!Maps, P!UpOK, P!Runs
  <2>5. M!Translate(satp, done[p][1]) = done[p][2]
    BY <2>3, <2>4 DEF P!Maps, P!Translate, P!Entry, M!Translate, M!Entry
  <2>6. ASSUME NEW e \in tlb, e[1] = done[p][1] PROVE e[2] = done[p][2]
    BY <2>1, <2>3, <2>4, <2>6 DEF P!CacheOK, P!Maps
  <2>7. QED
    BY <2>5, <2>6
<1>2. QED
  BY FaultInvariance, <1>1, PTL


-----------------------------------------------------------------------------
(* What is not a trap's step leaves the traps and up alone. *)
LEMMA TrapsKept ==
  ASSUME traps' = traps, UNCHANGED up
  PROVE  UNCHANGED T!vars
BY DEF traps, T!vars, T!csrs

(* Whatever the memory does meanwhile, the traps behave as Trap says: every  *)
(* theorem of TrapProofs is one of FaultPath (l.s from trapvec to SRET,      *)
(* trap.c).                                                                  *)
THEOREM TrapsAreTrap == Spec => T!Spec
<1> USE DEF T!Next, T!Work
<1>1. ASSUME NEW p \in Proc, Enters(p) \/ Handles(p) \/ Leave(p)
      PROVE  T!Next
  BY <1>1 DEF Enters, Enter, UserFault, Handles, KernelFault, KernelInterrupt,
              Trapvec, KernelWork, HandlerEnds, Notes, Leave
<1>2. ASSUME NEW p \in Proc, MissOK, P!TypeOK, Putmmu(p) \/ PutStep(p) \/ Start(p)
      PROVE  UNCHANGED T!vars
  <2>1. UNCHANGED up
    BY <1>2, PutmmuIs, PutStepIs, StartIs DEF P!Start
  <2>2. traps' = traps
    BY <1>2 DEF Putmmu, PutStep, Start
  <2>3. QED
    BY <2>1, <2>2, TrapsKept
<1>3. ASSUME NEW p \in Proc, Loses(p)
      PROVE  T!Next \/ UNCHANGED T!vars
  <2>1. CASE Exec(p) \/ Exit(p)
    BY <2>1 DEF Exec, Exit
  <2>2. CASE Flush(p) \/ Invalidate(p)
    <3>1. UNCHANGED up
      BY <2>2, SameStep, SameSwitch DEF Flush, Invalidate, P!Flushmmu, P!Invalidate
    <3>2. QED
      BY <2>2, <3>1, TrapsKept DEF Flush, Invalidate
  <2>3. QED
    BY <1>3, <2>1, <2>2 DEF Loses
<1>4. ASSUME NEW p \in Proc, Switches(p)
      PROVE  T!Next \/ UNCHANGED T!vars
  <2>1. CASE SwitchOut(p) \/ SwitchIn(p)
    BY <2>1 DEF SwitchOut, SwitchIn
  <2>2. CASE ExitSwitch(p)
    <3>1. UNCHANGED up
      BY <2>2, SameStep DEF ExitSwitch, P!ReleaseSwitch
    <3>2. QED
      BY <2>2, <3>1, TrapsKept DEF ExitSwitch
  <2>3. QED
    BY <1>4, <2>1, <2>2 DEF Switches
<1>5. ASSUME Others
      PROVE  T!Next \/ UNCHANGED T!vars
  <2>1. CASE T!SchedInterrupt
    BY <2>1
  <2>2. CASE (M!SwitchKproc \/ \E va \in VA : M!Fill(va)) /\ UNCHANGED traps
    <3>1. UNCHANGED up
      BY <2>2, SameOther DEF P!SwitchKproc, P!Fill
    <3>2. QED
      BY <2>2, <3>1, TrapsKept
  <2>3. QED
    BY <1>5, <2>1, <2>2 DEF Others
<1>6. FaultInv /\ [Next]_vars => [T!Next]_(T!vars)
  <2> SUFFICES ASSUME FaultInv, [Next]_vars PROVE [T!Next]_(T!vars)
    OBVIOUS
  <2>1. MissOK /\ P!TypeOK
    BY DEF FaultInv, P!TreeInv, P!IInv
  <2>2. CASE UNCHANGED vars
    BY <2>2, TrapsKept DEF vars
  <2>3. CASE Next /\ ~UNCHANGED vars
    <3>1. Others \/ \E p \in Proc :
            \/ Enters(p) \/ Handles(p) \/ Leave(p) \/ Putmmu(p)
            \/ PutStep(p) \/ Loses(p) \/ Switches(p) \/ Start(p)
      BY <2>3 DEF Next, Work, Enters, Handles, Loses, Switches
    <3>2. QED
      BY <1>1, <1>2, <1>3, <1>4, <1>5, <2>1, <3>1
  <2>4. QED
    BY <2>2, <2>3
<1>7. Init => T!Init
  BY DEF Init
<1>8. QED
  BY <1>6, <1>7, FaultInvariance, PTL DEF Spec, T!Spec
=============================================================================
