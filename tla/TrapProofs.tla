------------------------------ MODULE TrapProofs -----------------------------
(* Theorems about Trap, for any processes, addresses and depth of nesting. *)
EXTENDS Trap, SequenceTheorems, TLAPS

(* Where p's program has to go on, or the kernel address an interrupt        *)
(* between the writes of sepc and sstatus leaves in its place.               *)
GoesOn(p, a) == a \in {U(expect[p]), K("ret1")}

(* Past the ecall at a, p's program goes on. *)
EcallAt(p, a) ==
  \E n \in Addr : a = U(n) /\ expect[p] = (n + 1) % (Handler + 1)

(* The kernel can be at a, with interrupts on or on the user's memory, over  *)
(* the n Uregs at the bottom of s: at the end of a return only to the user.  *)
RestsOn(s, n, a) ==
  \/ a \in {K("kproc"), K("touser")} /\ n = 0
  \/ a = K("lo") /\ n > 0
  \/ a \in {K("hi"), K("ret0"), K("ret1")} /\ n > 0 /\ Userureg(s[n])

(* Where the kernel touches user memory with interrupts masked. *)
Masked(a) == a \in {K("hi"), K("touser")}

(* p's Uregs: the user's at the bottom, or that of the kernel process p was; *)
(* over it those of the kernel.                                              *)
Nests(p) ==
  \A i \in 1 .. Len(stack[p]) :
    LET u == stack[p][i] IN
    IF Userureg(u) THEN i = 1 /\ u.r6 = UserR6
    ELSE /\ u.r6 = p /\ u.cause # "ecall" /\ RestsOn(stack[p], i - 1, u.pc)
         /\ Masked(u.pc) => ~u.spie

InSys(p) == up = p /\ pc = K("sys")

Bottom(p) ==
  stack[p] # <<>> =>
    IF ~Userureg(stack[p][1]) THEN expect[p] = Entry
    ELSE IF InSys(p) THEN EcallAt(p, stack[p][1].pc)
    ELSE GoesOn(p, stack[p][1].pc)

(* A trap just taken. *)
Vec(p) ==
  /\ ~sie
  /\ IF spp = "U"
     THEN /\ stack[p] = <<>> /\ sscratch = "m" /\ r6 = UserR6
          /\ IF cause = "ecall" THEN EcallAt(p, sepc) ELSE GoesOn(p, sepc)
     ELSE /\ sscratch = "0" /\ r6 = p /\ cause # "ecall"
          /\ RestsOn(stack[p], Len(stack[p]), sepc)
          /\ sepc \in {K("kproc"), K("touser")} => expect[p] = Entry
          /\ Masked(sepc) => ~spie

(* The kernel at c, past trapvec. *)
Handling(p, c) ==
  /\ r6 = p
  /\ sie \/ c = "lo" => RestsOn(stack[p], Len(stack[p]), K(c))
  /\ c = "sys" => Len(stack[p]) = 1 /\ Userureg(Ureg(p))
  /\ c \in {"intr", "lo", "hi", "ret0", "ret1", "ret2", "ret3"} => stack[p] # <<>>
  /\ c \in {"kproc", "touser", "touser1"} => stack[p] = <<>> /\ expect[p] = Entry
  /\ c \in {"ret1", "ret2", "ret3"} =>
       \/ sepc = Ureg(p).pc
       \/ sepc = K("ret1") /\ Userureg(Ureg(p))
  /\ c \in {"hi", "touser", "touser1"} => ~sie
  /\ c \in {"ret2", "ret3"} => spp = Ureg(p).spp /\ spie = Ureg(p).spie
  /\ c = "touser1" => spp = "U" /\ sepc = U(Entry)
  /\ sscratch = IF c = "touser1" \/ (c = "ret3" /\ Userureg(Ureg(p)))
                 THEN "m" ELSE "0"

Running(p) ==
  \/ /\ mode = "U" /\ stack[p] = <<>> /\ sscratch = "m" /\ r6 = UserR6
     /\ GoesOn(p, pc)
  \/ /\ mode = "S" /\ pc = K("vec") /\ Vec(p)
  \/ /\ mode = "S" /\ \E c \in KPoint \ {"vec", "sched"} : pc = K(c) /\ Handling(p, c)

Idle == mode = "S" /\ pc = K("sched") /\ sscratch = "0" /\ r6 = NoProc

Waiting(p) ==
  /\ at[p] = "running" <=> up = p
  /\ at[p] = "kproc" => stack[p] = <<>> /\ expect[p] = Entry
  /\ at[p] \in {"lo", "ret0", "ret0lo"} => stack[p] # <<>>
  /\ at[p] = "ret0lo" => Userureg(Ureg(p))

NoteOK(p) == note[p] = NoNote \/ note[p].pc \in {U(note[p].expect), K("ret1")}

Stacks == \A p \in Proc : Nests(p) /\ Bottom(p)
Hart == IF up = NoProc THEN Idle ELSE Running(up)

IInv ==
  /\ TypeOK
  /\ Stacks
  /\ Hart
  /\ \A p \in Proc : Waiting(p) /\ NoteOK(p)
USE DEF KPoint

-----------------------------------------------------------------------------
(* What popping, pushing and replacing a Ureg do to a stack. *)
LEMMA PopUreg ==
  ASSUME NEW T, NEW s \in Seq(T), s # <<>>
  PROVE  /\ Len(s) \in Nat \ {0} /\ Last(s) = s[Len(s)] /\ Last(s) \in T
         /\ Front(s) \in Seq(T) /\ Len(Front(s)) = Len(s) - 1
         /\ \A i \in 1 .. Len(s) - 1 : Front(s)[i] = s[i]
<1>1. Len(s) \in Nat \ {0}
  BY EmptySeq
<1>2. \A i \in 1 .. Len(s) : s[i] \in T
  BY ElementOfSeq
<1>3. \A i \in 1 .. Len(s) - 1 : s[i] \in T
  BY <1>1, <1>2
<1> DEFINE n == Len(s) - 1
           f == SubSeq(s, 1, n)
<1>4. n \in Nat
  BY <1>1
<1>5. /\ f \in Seq(T)
      /\ Len(f) = IF 1 <= n THEN n - 1 + 1 ELSE 0
      /\ \A i \in 1 .. n - 1 + 1 : f[i] = s[1 + i - 1]
  <2>1. 1 \in Int /\ n \in Int /\ \A i \in 1 .. n : s[i] \in T
    BY <1>3, <1>4
  <2> HIDE DEF n
  <2>2. QED
    BY <2>1, SubSeqProperties
<1>6. f \in Seq(T) /\ Len(f) = n /\ \A i \in 1 .. n : f[i] = s[i]
  <2> HIDE DEF n, f
  <2>1. QED
    BY <1>4, <1>5
<1>7. QED
  BY <1>1, <1>2, <1>6 DEF Last, Front

(* Writing into the last Ureg of a stack leaves those below it. *)
LEMMA ReplaceUreg ==
  ASSUME NEW T, NEW s \in Seq(T), s # <<>>, NEW u \in T
  PROVE  LET r == Append(Front(s), u) IN
         /\ r \in Seq(T) /\ Len(r) = Len(s) /\ r # <<>> /\ Last(r) = u
         /\ r[Len(s)] = u
         /\ \A i \in 1 .. Len(s) - 1 : r[i] = s[i]
<1>1. /\ Front(s) \in Seq(T) /\ Len(s) \in Nat \ {0}
      /\ Len(Front(s)) = Len(s) - 1
      /\ \A i \in 1 .. Len(s) - 1 : Front(s)[i] = s[i]
  BY PopUreg
<1>2. QED
  BY <1>1, AppendProperties DEF Last

-----------------------------------------------------------------------------
(* The invariant holds at the start. *)
LEMMA InitIInv == Init => IInv
<1> SUFFICES ASSUME Init PROVE IInv
  OBVIOUS
<1> USE AddrAssumption, ProcAssumption DEF Init, K, U
<1>1. TypeOK
  <2>1. <<>> \in Seq(UregType)
    BY EmptySeq
  <2>2. K("sched") \in Pc
    BY DEF Pc
  <2>3. QED
    BY <2>1, <2>2 DEF TypeOK, NoNote
<1>2. Stacks
  <2>1. Len(<<>>) = 0
    OBVIOUS
  <2>2. QED
    BY <2>1 DEF Stacks, Nests, Bottom
<1>3. Hart
  BY DEF Hart, Idle
<1>4. \A p \in Proc : Waiting(p) /\ NoteOK(p)
  BY DEF Waiting, NoteOK
<1>5. QED
  BY <1>1, <1>2, <1>3, <1>4 DEF IInv

(* What is the same for q and its stack still holds of them. *)
LEMMA Same ==
  ASSUME IInv, NEW q \in Proc,
         stack'[q] = stack[q], at'[q] = at[q],
         expect'[q] = expect[q], note'[q] = note[q],
         InSys(q)' <=> InSys(q), up' = q <=> up = q
  PROVE  Nests(q)' /\ Bottom(q)' /\ Waiting(q)' /\ NoteOK(q)'
<1>1. Nests(q) /\ Bottom(q) /\ Waiting(q) /\ NoteOK(q)
  BY DEF IInv, Stacks
<1>2. Nests(q)'
  BY <1>1 DEF Nests, Userureg, RestsOn, Masked
<1>3. Bottom(q)'
  BY <1>1 DEF Bottom, EcallAt, GoesOn
<1>4. Waiting(q)' /\ NoteOK(q)'
  BY <1>1 DEF Waiting, Ureg, NoteOK
<1>5. QED
  BY <1>2, <1>3, <1>4

(* A step on behalf of p concerns no other process. *)
LEMMA Local ==
  ASSUME IInv, NEW p \in Proc, {up, up'} \subseteq {p, NoProc},
         \A q \in Proc \ {p} :
           /\ stack'[q] = stack[q] /\ at'[q] = at[q]
           /\ expect'[q] = expect[q] /\ note'[q] = note[q],
         TypeOK', Hart',
         Nests(p)', Bottom(p)', Waiting(p)', NoteOK(p)'
  PROVE  IInv'
<1>1. ASSUME NEW q \in Proc \ {p}
      PROVE  Nests(q)' /\ Bottom(q)' /\ Waiting(q)' /\ NoteOK(q)'
  <2>1. up # q /\ up' # q
    BY ProcAssumption
  <2>2. ~InSys(q) /\ ~InSys(q)'
    BY <2>1 DEF InSys
  <2>3. QED
    BY <2>1, <2>2, Same
<1>2. QED
  BY <1>1 DEF IInv, Stacks

(* Where the hart is tells what holds there, and the other way round. *)
LEMMA AtPoint ==
  ASSUME IInv, NEW p \in Proc, NEW c \in KPoint \ {"vec", "sched"}, InKernel(p, c)
  PROVE  Handling(p, c)
BY ProcAssumption DEF IInv, Hart, Running, InKernel, K, U, GoesOn

(* A hart at trapvec is as Vec says. *)
LEMMA AtVec ==
  ASSUME IInv, NEW p \in Proc, InKernel(p, "vec")
  PROVE  Vec(p)
BY ProcAssumption DEF IInv, Hart, Running, InKernel, K, U

(* A handler's next point, with what it knows, is the hart's part of the invariant. *)
LEMMA GoesTo ==
  ASSUME NEW p \in Proc, NEW c \in KPoint \ {"vec", "sched"}, InKernel(p, c)',
         Handling(p, c)'
  PROVE  Hart'
BY ProcAssumption DEF Hart, Running, InKernel

-----------------------------------------------------------------------------
(* Taking a trap: from the user, or from the kernel where it may be. *)
LEMMA StepTake ==
  ASSUME IInv, NEW p \in Proc, Ecall(p) \/ Fault(p) \/ Interrupt(p)
  PROVE  IInv'
<1> TypeOK /\ Nests(p) /\ Bottom(p) /\ Waiting(p) /\ NoteOK(p) /\ Running(p) /\ up = p
  BY ProcAssumption DEF IInv, Stacks, Hart, Ecall, Fault, Interrupt
<1>1. PICK c \in {"ecall", "fault", "intr"} : Take(c)
  BY DEF Ecall, Fault, Interrupt
<1>2. \A q \in Proc \ {p} : expect'[q] = expect[q]
  BY DEF TypeOK, Ecall, Fault, Interrupt
<1>3. /\ expect' \in [Proc -> Addr]
      /\ expect'[p] # expect[p] => Ecall(p)
  <2>1. pc[1] = "user" => pc[2] \in Addr
    BY DEF TypeOK, Pc, U, K
  <2>2. \A n \in Addr : (n + 1) % (Handler + 1) \in Addr
    BY AddrAssumption
  <2>3. CASE Ecall(p)
    BY <2>1, <2>2, <2>3 DEF TypeOK, Ecall
  <2>4. CASE Fault(p) \/ Interrupt(p)
    BY <2>4 DEF TypeOK, Fault, Interrupt
  <2>5. QED
    BY <2>3, <2>4
<1>4. TypeOK'
  BY <1>1, <1>3 DEF TypeOK, Take, Pc
<1>5. pc # K("vec") \/ mode = "U"
  BY DEF Ecall, Fault, Interrupt, OnUserMemory, InSyscall, InDonotify, Running, Vec,
         InKernel, K, U

<1>6. CASE mode = "U"
  <2>1. stack[p] = <<>> /\ sscratch = "m" /\ r6 = UserR6 /\ GoesOn(p, pc)
    BY <1>6 DEF Running
  <2>2. Vec(p)'
    <3>1. CASE Ecall(p)
      <4>1. pc = U(expect[p]) /\ expect[p] \in Addr
        BY <2>1, <3>1 DEF Ecall, GoesOn, K, TypeOK
      <4>2. sepc' = U(expect[p]) /\ expect'[p] = (expect[p] + 1) % (Handler + 1)
        BY <3>1, <4>1 DEF Ecall, Take, U, TypeOK
      <4>3. EcallAt(p, sepc)'
        BY <4>1, <4>2 DEF EcallAt, U
      <4>4. QED
        BY <2>1, <3>1, <4>3, <1>6 DEF Vec, Ecall, Take
    <3>2. CASE ~Ecall(p)
      BY <2>1, <3>2, <1>6 DEF Vec, Fault, Interrupt, Take, GoesOn
    <3>3. QED
      BY <3>1, <3>2
  <2>3. Hart'
    BY <1>1, <2>2, ProcAssumption DEF Hart, Running, Take
  <2>4. Bottom(p)' /\ Nests(p)'
    BY <1>1, <2>1 DEF Bottom, Nests, Take
  <2>5. Waiting(p)' /\ NoteOK(p)'
    BY <1>1, <2>1 DEF Waiting, NoteOK, Take
  <2>6. QED
    BY <1>1, <1>2, <1>4, <2>3, <2>4, <2>5, Local DEF Take
<1>7. CASE mode = "S"
  <2>1. PICK c1 \in KPoint \ {"vec", "sched"} : pc = K(c1) /\ Handling(p, c1)
    BY <1>5, <1>7 DEF Running
  <2>2. ~Ecall(p) /\ expect'[p] = expect[p]
    BY <1>3, <1>7 DEF Ecall
  <2>3. r6 = p /\ RestsOn(stack[p], Len(stack[p]), pc)
    <3>1. CASE sie \/ c1 = "lo"
      BY <2>1, <3>1 DEF Handling
    <3>2. CASE ~sie /\ c1 # "lo"
      <4>1. InDonotify(p) \/ InKernel(p, "kproc") \/ InKernel(p, "touser")
        BY <2>1, <2>2, <1>7, <3>2
           DEF Fault, Interrupt, OnUserMemory, InSyscall, InKernel, K
      <4>2. CASE InDonotify(p)
        <5>1. c1 = "hi" /\ stack[p] # <<>> /\ stack[p] \in Seq(UregType)
          BY <2>1, <4>2 DEF InDonotify, InKernel, K, Handling, TypeOK
        <5>2. Len(stack[p]) \in Nat \ {0} /\ Ureg(p) = stack[p][Len(stack[p])]
          BY <5>1, PopUreg DEF Ureg
        <5>3. QED
          BY <2>1, <4>2, <5>1, <5>2 DEF InDonotify, RestsOn, Handling
      <4>3. CASE InKernel(p, "kproc") \/ InKernel(p, "touser")
        <5>1. c1 \in {"kproc", "touser"}
          BY <2>1, <4>3 DEF InKernel, K
        <5>2. Len(<<>>) = 0
          OBVIOUS
        <5>3. QED
          BY <2>1, <5>1, <5>2 DEF RestsOn, Handling
      <4>4. QED
        BY <4>1, <4>2, <4>3
    <3>3. QED
      BY <3>1, <3>2
  <2>4. pc \notin {K("ret3"), K("touser1")}
    BY <2>3 DEF RestsOn, K
  <2>5. sscratch = "0" /\ ~InSys(p)
    BY <2>1, <2>3, <2>4 DEF Handling, InSys, RestsOn, K
  <2>6. Vec(p)'
    <3>1. /\ pc \in {K("kproc"), K("touser")} => expect[p] = Entry
          /\ Masked(pc) => ~sie
      BY <2>1 DEF Handling, K, Masked
    <3>2. QED
      BY <1>7, <2>2, <2>3, <2>5, <3>1 DEF Vec, Fault, Interrupt, Take, RestsOn, Masked
  <2>7. Hart'
    BY <1>1, <2>6, ProcAssumption DEF Hart, Running, Take
  <2>8. ~InSys(p)'
    BY <1>1 DEF InSys, Take, K
  <2>9. Bottom(p)' /\ Nests(p)'
    BY <1>1, <2>2, <2>5, <2>8 DEF Bottom, Nests, Take, GoesOn, RestsOn, Masked
  <2>10. Waiting(p)' /\ NoteOK(p)'
    BY <1>1, <2>2 DEF Waiting, NoteOK, Take, Ureg
  <2>11. QED
    BY <1>1, <1>2, <1>4, <2>7, <2>9, <2>10, Local DEF Take
<1>8. QED
  BY <1>6, <1>7 DEF TypeOK

(* trapvec: the Ureg goes on top of the others, and the first is the user's. *)
LEMMA StepTrapvec ==
  ASSUME IInv, NEW p \in Proc, Trapvec(p)
  PROVE  IInv'
<1> TypeOK /\ Nests(p) /\ Bottom(p) /\ Waiting(p) /\ NoteOK(p) /\ Vec(p) /\ up = p
  BY AtVec DEF IInv, Stacks, Trapvec, InKernel
<1> DEFINE u == [pc |-> sepc, spp |-> spp, spie |-> spie, r6 |-> r6, cause |-> cause]
           s == stack[p]
           n == Len(s)
<1>1. /\ stack' = [stack EXCEPT ![p] = IF sscratch = "m" THEN <<u>> ELSE Append(@, u)]
      /\ InKernel(p, "vec")
      /\ sscratch' = "0" /\ r6' = IF spp = "U" THEN up ELSE r6
      /\ sie' = (cause = "fault")
      /\ UNCHANGED <<up, mode, spie, spp, sepc, cause, at, expect, note>>
  BY DEF Trapvec, R6InKernel
<1>2. PICK c \in {"sys", "intr", "lo"} :
        /\ pc' = K(c)
        /\ c = "sys" <=> cause = "ecall"
        /\ c = "lo" <=> cause = "fault"
  BY DEF Trapvec, TypeOK
<1>3. u \in UregType
  BY DEF TypeOK, Vec, UregType
<1>4. s \in Seq(UregType) /\ n \in Nat
  BY EmptySeq DEF TypeOK
<1>5. stack'[p] = Append(s, u)
  <2>1. spp = "U" => s = <<>>
    BY DEF Vec
  <2>2. spp # "U" => sscratch # "m"
    BY DEF Vec
  <2>3. s = <<>> => Append(s, u) = <<u>>
    OBVIOUS
  <2>4. QED
    BY <1>1, <2>1, <2>2, <2>3 DEF TypeOK
<1> HIDE DEF u
<1>6. /\ stack'[p] \in Seq(UregType) /\ stack'[p] # <<>>
      /\ Len(stack'[p]) = n + 1
      /\ \A i \in 1 .. n : stack'[p][i] = s[i]
      /\ stack'[p][n + 1] = u /\ Last(stack'[p]) = u
  BY <1>3, <1>4, <1>5, AppendProperties DEF Last
<1>7. /\ u.pc = sepc /\ u.spp = spp /\ u.r6 = r6 /\ u.cause = cause /\ u.spie = spie
  BY DEF u
<1>8. TypeOK'
  BY <1>1, <1>2, <1>6 DEF TypeOK, Pc
<1>9. Nests(p)'
  <2>1. ASSUME NEW i \in 1 .. n
        PROVE  IF Userureg(s[i]) THEN i = 1 /\ s[i].r6 = UserR6
               ELSE /\ s[i].r6 = p /\ s[i].cause # "ecall"
                    /\ RestsOn(stack'[p], i - 1, s[i].pc)
                    /\ Masked(s[i].pc) => ~s[i].spie
    <3>1. IF Userureg(s[i]) THEN i = 1 /\ s[i].r6 = UserR6
          ELSE /\ s[i].r6 = p /\ s[i].cause # "ecall" /\ RestsOn(s, i - 1, s[i].pc)
               /\ Masked(s[i].pc) => ~s[i].spie
      BY DEF Nests
    <3>2. i - 1 > 0 => stack'[p][i - 1] = s[i - 1]
      <4>1. i - 1 > 0 => i - 1 \in 1 .. n
        BY <1>4
      <4>2. QED
        BY <1>6, <4>1
    <3>3. ASSUME RestsOn(s, i - 1, s[i].pc)
          PROVE  RestsOn(stack'[p], i - 1, s[i].pc)
      BY <3>2, <3>3 DEF RestsOn
    <3>4. QED
      BY <3>1, <3>3
  <2>2. IF Userureg(u) THEN n + 1 = 1 /\ u.r6 = UserR6
        ELSE /\ u.r6 = p /\ u.cause # "ecall"
             /\ RestsOn(stack'[p], n, u.pc)
             /\ Masked(u.pc) => ~u.spie
    <3>1. CASE spp = "U"
      <4>1. n = 0 /\ r6 = UserR6
        BY <3>1 DEF Vec
      <4>2. QED
        BY <3>1, <4>1, <1>7 DEF Userureg
    <3>2. CASE spp # "U"
      <4>1. r6 = p /\ cause # "ecall" /\ RestsOn(s, n, sepc) /\ (Masked(sepc) => ~spie)
        BY <3>2 DEF Vec
      <4>2. QED
        BY <1>4, <1>6, <1>7, <3>2, <4>1 DEF Userureg, RestsOn
    <3>3. QED
      BY <3>1, <3>2
  <2>3. ASSUME NEW i \in 1 .. Len(stack'[p])
        PROVE  IF Userureg(stack'[p][i]) THEN i = 1 /\ stack'[p][i].r6 = UserR6
               ELSE /\ stack'[p][i].r6 = p /\ stack'[p][i].cause # "ecall"
                    /\ RestsOn(stack'[p], i - 1, stack'[p][i].pc)
                    /\ Masked(stack'[p][i].pc) => ~stack'[p][i].spie
    <3>1. CASE i \in 1 .. n
      BY <1>6, <2>1, <3>1
    <3>2. CASE i = n + 1
      BY <1>4, <1>6, <2>2, <3>2
    <3>3. QED
      BY <1>4, <1>6, <3>1, <3>2
  <2>4. QED
    BY <2>3 DEF Nests, RestsOn, Userureg, Masked
<1>10. Bottom(p)'
  <2>1. ~InSys(p) /\ (InSys(p)' <=> cause = "ecall")
    BY <1>1, <1>2 DEF InSys, InKernel, K
  <2>2. CASE n = 0
    <3>1. stack'[p][1] = u
      BY <1>6, <2>2
    <3>2. spp # "U" => expect[p] = Entry
      BY <2>2 DEF Vec, RestsOn
    <3>3. spp = "U" => IF cause = "ecall" THEN EcallAt(p, sepc) ELSE GoesOn(p, sepc)
      BY DEF Vec
    <3>4. QED
      BY <1>1, <1>7, <2>1, <3>1, <3>2, <3>3 DEF Bottom, Userureg, EcallAt, GoesOn
  <2>3. CASE n # 0
    <3>1. stack'[p][1] = s[1] /\ s # <<>>
      BY <1>4, <1>6, <2>3
    <3>2. cause # "ecall"
      BY <2>3 DEF Vec
    <3>3. QED
      BY <1>1, <2>1, <3>1, <3>2 DEF Bottom, GoesOn
  <2>4. QED
    BY <2>2, <2>3
<1>11. Handling(p, c)'
  <2>1. c = "sys" => n = 0 /\ spp = "U"
    BY <1>2 DEF Vec
  <2>2. c # "lo" => ~sie'
    BY <1>1, <1>2
  <2>3. RestsOn(stack'[p], Len(stack'[p]), K("lo"))
    BY <1>4, <1>6 DEF RestsOn
  <2>4. r6' = p
    BY <1>1 DEF Vec
  <2>5. QED
    BY <1>1, <1>2, <1>4, <1>6, <1>7, <2>1, <2>2, <2>3, <2>4
       DEF Handling, Userureg, Ureg
<1>12. Hart'
  BY <1>1, <1>2, <1>11, GoesTo DEF InKernel
<1>13. Waiting(p)' /\ NoteOK(p)'
  BY <1>1 DEF Waiting, NoteOK
<1>14. QED
  BY <1>1, <1>8, <1>9, <1>10, <1>12, <1>13, Local DEF TypeOK

-----------------------------------------------------------------------------
(* The pc of the user's Ureg is changed and nothing else of it. *)
LEMMA SetUserPc ==
  ASSUME TypeOK, NEW p \in Proc, Nests(p), stack[p] # <<>>, Userureg(Ureg(p)),
         NEW a \in Pc, SetUreg(p, [Ureg(p) EXCEPT !.pc = a])
  PROVE  /\ stack' \in [Proc -> Seq(UregType)]
         /\ \A q \in Proc \ {p} : stack'[q] = stack[q]
         /\ Len(stack[p]) = 1 /\ Ureg(p) = stack[p][1]
         /\ stack'[p] # <<>> /\ Len(stack'[p]) = 1
         /\ Ureg(p)' = stack'[p][1] /\ stack'[p][1].pc = a
         /\ stack'[p][1].cause = stack[p][1].cause
         /\ stack'[p][1].spp = "U"
         /\ Nests(p)'
<1> DEFINE s == stack[p]
           r == stack'[p]
           u == [Ureg(p) EXCEPT !.pc = a]
<1>1. s \in Seq(UregType)
  BY DEF TypeOK
<1>2. Len(s) \in Nat \ {0} /\ Ureg(p) = s[Len(s)] /\ Ureg(p) \in UregType
  BY <1>1, PopUreg DEF Ureg
<1>3. Len(s) = 1 /\ Ureg(p).r6 = UserR6
  <2>1. Len(s) \in 1 .. Len(s) /\ Userureg(s[Len(s)])
    BY <1>2
  <2>2. QED
    BY <1>2, <2>1 DEF Nests
<1>4. u \in UregType /\ u.pc = a /\ u.spp = "U" /\ u.r6 = UserR6 /\ u.cause = Ureg(p).cause
  BY <1>2, <1>3 DEF UregType, Userureg
<1>5. r = Append(Front(s), u) /\ \A q \in Proc \ {p} : stack'[q] = stack[q]
  BY DEF SetUreg, TypeOK
<1> HIDE DEF u
<1>6. r \in Seq(UregType) /\ Len(r) = 1 /\ r # <<>> /\ Last(r) = u /\ r[1] = u
  BY <1>1, <1>3, <1>4, <1>5, ReplaceUreg
<1>7. stack' \in [Proc -> Seq(UregType)]
  BY <1>6 DEF SetUreg, TypeOK
<1>8. Nests(p)'
  BY <1>4, <1>6 DEF Nests, Userureg
<1>9. QED
  BY <1>2, <1>3, <1>4, <1>5, <1>6, <1>7, <1>8 DEF Ureg

(* The Ureg of a system call is the user's. *)
LEMMA SyscallUreg ==
  ASSUME IInv, NEW p \in Proc, InSyscall(p)
  PROVE  stack[p] # <<>> /\ Userureg(Ureg(p)) /\ Handling(p, "lo")
<1>1. Handling(p, "lo") /\ stack[p] # <<>>
  BY AtPoint DEF InSyscall, Handling
<1>2. stack[p] \in Seq(UregType) /\ Nests(p)
  BY DEF IInv, TypeOK, Stacks
<1>3. Len(stack[p]) \in Nat \ {0} /\ Ureg(p) = stack[p][Len(stack[p])]
  BY <1>1, <1>2, PopUreg DEF Ureg
<1>4. QED
  BY <1>1, <1>2, <1>3 DEF InSyscall, Nests

(* ureg->pc past the ecall is where the program goes on. *)
LEMMA StepSyscall ==
  ASSUME IInv, NEW p \in Proc, Syscall(p)
  PROVE  IInv'
<1> TypeOK /\ Nests(p) /\ Bottom(p) /\ Waiting(p) /\ NoteOK(p) /\ up = p
  BY DEF IInv, Stacks, Syscall, InKernel
<1>1. Handling(p, "sys") /\ stack[p] # <<>> /\ Userureg(Ureg(p))
  <2>1. Handling(p, "sys")
    BY AtPoint DEF Syscall
  <2>2. Len(<<>>) = 0
    OBVIOUS
  <2>3. QED
    BY <2>1, <2>2 DEF Handling
<1>2. Ureg(p) = stack[p][1]
  BY <1>1 DEF Handling, Ureg, Last
<1>3. EcallAt(p, Ureg(p).pc)
  BY <1>1, <1>2 DEF Bottom, InSys, Syscall, InKernel
<1>4. PastEcall(Ureg(p).pc) = U(expect[p]) /\ U(expect[p]) \in Pc
  BY <1>3 DEF EcallAt, PastEcall, U, TypeOK, Pc
<1>5. Ureg(p) \in UregType
  BY <1>1, PopUreg DEF Ureg, TypeOK
<1>6. SetUreg(p, [Ureg(p) EXCEPT !.pc = U(expect[p])])
  BY <1>4, <1>5 DEF Syscall, UregType
<1>7. /\ stack' \in [Proc -> Seq(UregType)]
      /\ \A q \in Proc \ {p} : stack'[q] = stack[q]
      /\ stack'[p] # <<>> /\ Len(stack'[p]) = 1
      /\ Ureg(p)' = stack'[p][1] /\ stack'[p][1].pc = U(expect[p])
      /\ stack'[p][1].spp = "U"
      /\ Nests(p)'
  BY <1>1, <1>4, <1>6, SetUserPc
<1>8. TypeOK'
  BY <1>7 DEF TypeOK, Syscall, Pc
<1>9. Bottom(p)'
  BY <1>7 DEF Bottom, Syscall, InSys, K, Userureg, GoesOn
<1>10. Handling(p, "lo")'
  BY <1>1, <1>7 DEF Handling, Syscall, RestsOn
<1>11. Hart'
  BY <1>10, GoesTo DEF Syscall, InKernel
<1>12. Waiting(p)' /\ NoteOK(p)'
  BY DEF Waiting, NoteOK, Syscall
<1>13. QED
  BY <1>7, <1>8, <1>9, <1>11, <1>12, Local DEF Syscall

(* forkchild: the child goes on where its parent does. *)
LEMMA StepFork ==
  ASSUME IInv, NEW p \in Proc, NEW c \in Proc, Fork(p, c)
  PROVE  IInv'
<1> TypeOK /\ Nests(p) /\ Bottom(p) /\ Waiting(p) /\ up = p
  BY DEF IInv, Stacks, Fork, InSyscall, InKernel
<1>1. stack[p] # <<>> /\ Userureg(Ureg(p)) /\ Handling(p, "lo")
  BY SyscallUreg DEF Fork
<1>2. p # c
  BY DEF Fork, Waiting
<1>3. /\ stack[p] \in Seq(UregType) /\ Len(stack[p]) \in Nat \ {0}
      /\ Ureg(p) = stack[p][Len(stack[p])] /\ Ureg(p) \in UregType
  BY <1>1, PopUreg DEF TypeOK, Ureg
<1>4. Len(stack[p]) \in 1 .. Len(stack[p])
  BY <1>3
<1>5. Len(stack[p]) = 1 /\ Ureg(p).r6 = UserR6
  BY <1>1, <1>3, <1>4 DEF Nests
<1>6. GoesOn(p, Ureg(p).pc)
  BY <1>1, <1>3, <1>5 DEF Bottom, InSys, Fork, InSyscall, InKernel, K
<1>7. \A q \in Proc \ {c} :
        /\ stack'[q] = stack[q] /\ at'[q] = at[q]
        /\ expect'[q] = expect[q] /\ note'[q] = note[q]
  BY DEF Fork, TypeOK
<1>8. /\ stack'[c] = <<Ureg(p)>> /\ at'[c] = "ret0"
      /\ expect'[c] = expect[p] /\ note'[c] = NoNote
      /\ UNCHANGED <<up, pc, mode, sie, spie, spp, sepc, cause, sscratch, r6>>
  BY DEF Fork, TypeOK, csrs
<1>9. \A q \in Proc : InSys(q)' <=> InSys(q)
  BY <1>8 DEF InSys
<1>10. \A q \in Proc \ {c} : Nests(q)' /\ Bottom(q)' /\ Waiting(q)' /\ NoteOK(q)'
  BY <1>7, <1>8, <1>9, Same
<1>11. <<Ureg(p)>> \in Seq(UregType) /\ Len(<<Ureg(p)>>) = 1 /\ <<Ureg(p)>>[1] = Ureg(p)
  BY <1>3
<1>12. Nests(c)'
  BY <1>1, <1>5, <1>8, <1>11 DEF Nests, Userureg
<1>13. Bottom(c)'
  BY <1>1, <1>2, <1>6, <1>8, <1>11 DEF Bottom, InSys, Userureg, GoesOn
<1>14. Waiting(c)' /\ NoteOK(c)'
  BY <1>2, <1>8, <1>11 DEF Waiting, NoteOK
<1>15. TypeOK'
  <2>1. NoNote \in [pc : Pc, expect : Addr, notified : BOOLEAN]
    BY AddrAssumption DEF NoNote, Pc
  <2>2. QED
    BY <1>8, <1>11, <2>1 DEF Fork, TypeOK
<1>16. Handling(p, "lo")'
  BY <1>1, <1>2, <1>7, <1>8 DEF Handling, Ureg, RestsOn
<1>17. Hart'
  BY <1>8, <1>16, GoesTo DEF Fork, InSyscall, InKernel
<1>18. QED
  BY <1>10, <1>12, <1>13, <1>14, <1>15, <1>17 DEF IInv, Stacks

(* What changes where p's program goes on changes the Ureg's pc, too. *)
LEMMA StepRedirect ==
  ASSUME IInv, NEW p \in Proc, Exec(p) \/ Noted(p) \/ Notify(p)
  PROVE  IInv'
<1> TypeOK /\ Nests(p) /\ Bottom(p) /\ Waiting(p) /\ NoteOK(p)
  BY DEF IInv, Stacks
<1>1. /\ UNCHANGED <<up, pc, mode, sie, spie, spp, sepc, cause, sscratch, r6, at>>
      /\ up = p
      /\ \A q \in Proc \ {p} : expect'[q] = expect[q] /\ note'[q] = note[q]
  BY DEF Exec, Noted, Notify, InSyscall, InDonotify, InKernel, csrs, TypeOK
<1>2. PICK c \in {"lo", "hi"} : InKernel(p, c) /\ Handling(p, c)
  BY AtPoint DEF Exec, Noted, Notify, InSyscall, InDonotify
<1>3. stack[p] # <<>> /\ Userureg(Ureg(p))
  BY SyscallUreg, <1>2 DEF Exec, Noted, Notify, InDonotify, Handling
<1>4. Ureg(p) \in UregType
  BY <1>3, PopUreg DEF Ureg, TypeOK
<1>5. PICK a \in Pc : SetUreg(p, [Ureg(p) EXCEPT !.pc = a]) /\ GoesOn(p, a)'
  <2>1. CASE Exec(p)
    BY <2>1, AddrAssumption DEF Exec, TypeOK, Pc, GoesOn
  <2>2. CASE Notify(p)
    <3>1. Handler \in Addr
      BY AddrAssumption
    <3>2. QED
      BY <2>2, <3>1 DEF Notify, TypeOK, Pc, GoesOn
  <2>3. CASE Noted(p)
    <3>1. note[p].pc \in {U(note[p].expect), K("ret1")}
      BY <2>3 DEF Noted, NoteOK
    <3>2. PICK s \in {"U", "S"} :
            SetUreg(p, SetRegisters(Ureg(p), [Ureg(p) EXCEPT !.pc = note[p].pc, !.spp = s]))
      BY <2>3 DEF Noted
    <3>3. SetRegisters(Ureg(p), [Ureg(p) EXCEPT !.pc = note[p].pc, !.spp = s])
            = [Ureg(p) EXCEPT !.pc = note[p].pc]
      BY <1>4 DEF SetRegisters, UregType
    <3>4. note[p].pc \in Pc /\ expect'[p] = note[p].expect
      BY <2>3 DEF TypeOK, Noted
    <3>5. QED
      BY <3>1, <3>2, <3>3, <3>4 DEF GoesOn
  <2>4. QED
    BY <2>1, <2>2, <2>3
<1>6. /\ stack' \in [Proc -> Seq(UregType)]
      /\ \A q \in Proc \ {p} : stack'[q] = stack[q]
      /\ Len(stack[p]) = 1 /\ Ureg(p) = stack[p][1]
      /\ stack'[p] # <<>> /\ Len(stack'[p]) = 1
      /\ Ureg(p)' = stack'[p][1] /\ stack'[p][1].pc = a
      /\ stack'[p][1].spp = "U"
      /\ Nests(p)'
  BY <1>3, <1>5, SetUserPc
<1>7. Bottom(p)'
  BY <1>1, <1>2, <1>5, <1>6 DEF Bottom, InSys, InKernel, K, Userureg
<1>8. expect' \in [Proc -> Addr] /\ note' \in [Proc -> [pc : Pc, expect : Addr, notified : BOOLEAN]]
  <2>1. NoNote \in [pc : Pc, expect : Addr, notified : BOOLEAN]
    BY AddrAssumption DEF NoNote, Pc
  <2>2. Ureg(p).pc \in Pc
    BY <1>4 DEF UregType
  <2>3. Handler \in Addr /\ Entry \in Addr
    BY AddrAssumption
  <2>4. CASE Exec(p)
    BY <2>1, <2>3, <2>4 DEF TypeOK, Exec
  <2>5. CASE Noted(p)
    <3>1. note' = [note EXCEPT ![p] = NoNote] \/ note' = [note EXCEPT ![p].notified = FALSE]
      BY <2>5 DEF Noted
    <3>2. expect' = [expect EXCEPT ![p] = note[p].expect]
      BY <2>5 DEF Noted
    <3>3. note[p] \in [pc : Pc, expect : Addr, notified : BOOLEAN]
      BY DEF TypeOK
    <3>4. [note[p] EXCEPT !.notified = FALSE] \in [pc : Pc, expect : Addr, notified : BOOLEAN]
      BY <3>3
    <3>5. note' = [note EXCEPT ![p] = NoNote]
          \/ note' = [note EXCEPT ![p] = [note[p] EXCEPT !.notified = FALSE]]
      BY <3>1
    <3>6. note' \in [Proc -> [pc : Pc, expect : Addr, notified : BOOLEAN]]
      BY <2>1, <3>4, <3>5 DEF TypeOK
    <3>7. QED
      BY <3>2, <3>3, <3>6 DEF TypeOK
  <2>6. CASE Notify(p)
    BY <2>2, <2>3, <2>6 DEF TypeOK, Notify
  <2>7. QED
    BY <2>4, <2>5, <2>6
<1>9. TypeOK'
  BY <1>1, <1>6, <1>8 DEF TypeOK
<1>10. NoteOK(p)'
  <2>1. Ureg(p).pc \in {U(expect[p]), K("ret1")}
    BY <1>1, <1>2, <1>3, <1>6 DEF Bottom, InSys, InKernel, K, GoesOn
  <2>2. \/ note'[p] = NoNote
        \/ note'[p].pc = note[p].pc /\ note'[p].expect = note[p].expect /\ note[p] # NoNote
        \/ note'[p].pc = Ureg(p).pc /\ note'[p].expect = expect[p]
    BY DEF TypeOK, Exec, Noted, Notify
  <2>3. QED
    BY <2>1, <2>2 DEF NoteOK
<1>11. Handling(p, c)'
  <2>1. ~sie \/ c = "lo"
    BY <1>2 DEF Handling, RestsOn, K
  <2>2. QED
    BY <1>1, <1>2, <1>6, <2>1 DEF Handling, RestsOn
<1>12. Hart'
  BY <1>1, <1>2, <1>11, GoesTo DEF InKernel
<1>13. Waiting(p)'
  BY <1>1 DEF Waiting
<1>14. QED
  BY <1>1, <1>6, <1>7, <1>9, <1>10, <1>12, <1>13, Local

-----------------------------------------------------------------------------
(* Leaving the hart. *)
LEMMA StepSched ==
  ASSUME IInv, NEW p \in Proc, Sleep(p) \/ Preempt(p) \/ Delaysched(p) \/ Exit(p)
  PROVE  IInv'
<1> TypeOK /\ Nests(p) /\ Bottom(p) /\ Waiting(p) /\ NoteOK(p)
  BY DEF IInv, Stacks
<1>1. PICK c \in {"lo", "kproc", "intr", "hi"} : InKernel(p, c) /\ Handling(p, c)
  BY AtPoint DEF Sleep, Preempt, Delaysched, Exit, InSyscall, InDonotify
<1>2. /\ up' = NoProc /\ pc' = K("sched") /\ sie' = FALSE /\ r6' = NoProc
      /\ UNCHANGED <<mode, spie, spp, sepc, cause, sscratch>>
      /\ \A q \in Proc \ {p} : /\ stack'[q] = stack[q] /\ at'[q] = at[q]
                              /\ expect'[q] = expect[q] /\ note'[q] = note[q]
  BY DEF Sleep, Preempt, Delaysched, Exit, Sched, TypeOK
<1>3. Hart'
  BY <1>1, <1>2 DEF Hart, Idle, InKernel, Handling
<1>4. ~InSys(p) /\ ~InSys(p)'
  BY <1>1, <1>2 DEF InSys, InKernel, K
<1>5. /\ stack' \in [Proc -> Seq(UregType)]
      /\ at' \in [Proc -> {"dead", "running", "kproc", "lo", "ret0", "ret0lo"}]
      /\ expect' \in [Proc -> Addr]
      /\ note' \in [Proc -> [pc : Pc, expect : Addr, notified : BOOLEAN]]
  <2>1. CASE Exit(p)
    <3>1. NoNote \in [pc : Pc, expect : Addr, notified : BOOLEAN]
      BY AddrAssumption DEF NoNote, Pc
    <3>2. QED
      BY <2>1, <3>1, EmptySeq, AddrAssumption DEF TypeOK, Exit
  <2>2. CASE Sleep(p) \/ Preempt(p) \/ Delaysched(p)
    BY <2>2 DEF TypeOK, Sleep, Preempt, Delaysched, Sched
  <2>3. QED
    BY <2>1, <2>2
<1>6. TypeOK'
  BY <1>2, <1>5 DEF TypeOK, Pc
<1>7. CASE Exit(p)
  <2>1. stack'[p] = <<>> /\ at'[p] = "dead" /\ note'[p] = NoNote
    BY <1>7 DEF Exit, TypeOK
  <2>2. Len(<<>>) = 0
    OBVIOUS
  <2>3. Nests(p)' /\ Bottom(p)' /\ Waiting(p)' /\ NoteOK(p)'
    BY <1>2, <2>1, <2>2, ProcAssumption DEF Nests, Bottom, Waiting, NoteOK
  <2>4. QED
    BY <1>1, <1>2, <1>3, <1>6, <2>3, Local DEF InKernel
<1>8. CASE ~Exit(p)
  <2>1. PICK w \in {"lo", "kproc", "ret0lo"} :
          /\ at' = [at EXCEPT ![p] = w] /\ UNCHANGED <<stack, expect, note>>
          /\ w = "lo" => c \in {"lo", "intr"}
          /\ w = "kproc" => c = "kproc"
          /\ w = "ret0lo" => c = "hi" /\ Ureg(p).cause = "ecall"
    BY <1>1, <1>8 DEF Sleep, Preempt, Delaysched, Sched, InKernel, K
  <2>2. w # "kproc" => stack[p] # <<>>
    BY <1>1, <2>1 DEF Handling
  <2>3. w = "kproc" => stack[p] = <<>> /\ expect[p] = Entry
    BY <1>1, <2>1 DEF Handling
  <2>4. w = "ret0lo" => Userureg(Ureg(p))
    <3>1. SUFFICES ASSUME w = "ret0lo" PROVE Userureg(Ureg(p))
      OBVIOUS
    <3>2. Len(stack[p]) \in 1 .. Len(stack[p]) /\ Ureg(p) = stack[p][Len(stack[p])]
      <4>1. stack[p] \in Seq(UregType) /\ stack[p] # <<>>
        BY <2>2, <3>1 DEF TypeOK
      <4>2. Len(stack[p]) \in Nat \ {0} /\ Last(stack[p]) = stack[p][Len(stack[p])]
        BY <4>1, PopUreg
      <4>3. QED
        BY <4>2 DEF Ureg
    <3>3. QED
      BY <2>1, <3>1, <3>2 DEF Nests
  <2>5. Nests(p)' /\ Bottom(p)'
    BY <1>2, <1>4, <2>1 DEF Nests, Bottom, RestsOn, Userureg, GoesOn, Masked
  <2>6. Waiting(p)' /\ NoteOK(p)'
    BY <1>2, <2>1, <2>2, <2>3, <2>4, ProcAssumption DEF TypeOK, Waiting, NoteOK, Ureg
  <2>7. QED
    BY <1>1, <1>2, <1>3, <1>6, <2>5, <2>6, Local DEF InKernel
<1>9. QED
  BY <1>7, <1>8

(* Coming back to it, where the process left. *)
LEMMA StepSwitchIn ==
  ASSUME IInv, NEW p \in Proc, SwitchIn(p)
  PROVE  IInv'
<1> TypeOK /\ Nests(p) /\ Bottom(p) /\ Waiting(p) /\ NoteOK(p) /\ Idle
  BY DEF IInv, Stacks, Hart, SwitchIn
<1>1. /\ up = NoProc /\ up' = p /\ r6' = p /\ at' = [at EXCEPT ![p] = "running"]
      /\ sie' = (at[p] # "ret0")
      /\ UNCHANGED <<mode, spie, spp, sepc, cause, sscratch, stack, expect, note>>
  BY DEF SwitchIn
<1>2. at[p] \in {"kproc", "lo", "ret0", "ret0lo"}
  BY <1>1, ProcAssumption DEF SwitchIn, TypeOK, Waiting
<1>3. PICK c \in {"kproc", "lo", "ret0"} :
        /\ pc' = K(c)
        /\ c = "kproc" => at[p] = "kproc"
        /\ c = "lo" => at[p] = "lo"
        /\ c = "ret0" => at[p] \in {"ret0", "ret0lo"}
  BY <1>2 DEF SwitchIn
<1>4. stack[p] # <<>> => Len(stack[p]) \in Nat \ {0} /\ Ureg(p) = stack[p][Len(stack[p])]
  BY PopUreg DEF TypeOK, Ureg
<1>5. RestsOn(stack[p], Len(stack[p]), K(c)) \/ ~sie'
  <2>1. CASE c = "kproc"
    BY <1>3, <2>1 DEF RestsOn, Waiting
  <2>2. CASE c = "lo"
    BY <1>3, <1>4, <2>2 DEF RestsOn, Waiting
  <2>3. CASE c = "ret0" /\ at[p] = "ret0lo"
    BY <1>3, <1>4, <2>3 DEF RestsOn, Waiting
  <2>4. CASE at[p] = "ret0"
    BY <1>1, <2>4
  <2>5. QED
    BY <1>3, <2>1, <2>2, <2>3, <2>4
<1>6. Handling(p, c)'
  <2>1. c = "lo" => sie'
    BY <1>1, <1>3
  <2>2. c \in {"lo", "ret0"} => stack[p] # <<>>
    BY <1>3 DEF Waiting
  <2>3. c = "kproc" => stack[p] = <<>> /\ expect[p] = Entry
    BY <1>3 DEF Waiting
  <2>4. QED
    BY <1>1, <1>5, <2>1, <2>2, <2>3 DEF Handling, Idle, RestsOn
<1>7. Hart'
  BY <1>1, <1>3, <1>6, GoesTo DEF Idle, InKernel
<1>8. TypeOK'
  BY <1>1, <1>3 DEF TypeOK, Pc
<1>9. ~InSys(p) /\ ~InSys(p)'
  BY <1>1, <1>3, ProcAssumption DEF InSys, K
<1>10. Nests(p)' /\ Bottom(p)'
  BY <1>1, <1>9 DEF Nests, Bottom, RestsOn, Userureg, GoesOn, Masked
<1>11. Waiting(p)' /\ NoteOK(p)'
  BY <1>1 DEF TypeOK, Waiting, NoteOK
<1>12. QED
  BY <1>1, <1>7, <1>8, <1>10, <1>11, Local DEF TypeOK

-----------------------------------------------------------------------------
(* The kernel on its way, its stack as it is. *)
KernelMove(p) ==
  \/ Splhi(p) \/ HandlerReturn(p)
  \/ RestoreSepc(p) \/ RestoreSstatus(p) \/ RestoreSscratch(p)
  \/ Init0(p) \/ Touser(p)

(* Such a step keeps the invariant. *)
LEMMA StepKernelMove ==
  ASSUME IInv, NEW p \in Proc, KernelMove(p)
  PROVE  IInv'
<1> USE DEF KernelMove
<1> TypeOK /\ Nests(p) /\ Bottom(p) /\ Waiting(p) /\ NoteOK(p)
  BY DEF IInv, Stacks
<1>1. PICK c \in KPoint \ {"vec", "sched"} :
        /\ InKernel(p, c) /\ Handling(p, c)
        /\ c \in {"lo", "intr", "hi", "ret0", "ret1", "ret2", "kproc", "touser"}
  BY AtPoint DEF Splhi, HandlerReturn, RestoreSepc, RestoreSstatus,
                 RestoreSscratch, Init0, Touser
<1>2. UNCHANGED <<up, mode, r6, stack, at, expect, note, cause>>
  BY DEF Splhi, HandlerReturn, RestoreSepc, RestoreSstatus, RestoreSscratch,
         Init0, Touser, csrs
<1>3. PICK d \in KPoint \ {"vec", "sched", "sys", "lo", "intr"} : pc' = K(d)
  BY DEF Splhi, HandlerReturn, RestoreSepc, RestoreSstatus, RestoreSscratch,
         Init0, Touser
<1>4. stack[p] # <<>> => Ureg(p) \in UregType
  BY PopUreg DEF TypeOK, Ureg
<1>5. stack[p] # <<>> \/ c \in {"kproc", "touser"}
  BY <1>1 DEF Handling
<1>6. TypeOK'
  <2>1. U(Entry) \in Pc
    BY AddrAssumption DEF Pc
  <2>2. /\ sie' \in BOOLEAN /\ spie' \in BOOLEAN /\ spp' \in {"U", "S"}
        /\ sscratch' \in {"m", "0"} /\ sepc' \in Pc
    BY <1>1, <1>4, <1>5, <2>1
       DEF TypeOK, UregType, InKernel, K, csrs, Splhi, HandlerReturn, RestoreSepc,
           RestoreSstatus, RestoreSscratch, Init0, Touser
  <2>3. QED
    BY <1>2, <1>3, <2>2 DEF TypeOK, Pc
<1>7. Nests(p)' /\ Bottom(p)' /\ Waiting(p)' /\ NoteOK(p)'
  <2>1. ~InSys(p) /\ ~InSys(p)'
    BY <1>1, <1>3 DEF InSys, InKernel, K
  <2>2. QED
    BY <1>2, <2>1, Same
<1>8. Ureg(p)' = Ureg(p)
  BY <1>2 DEF Ureg
<1>9. Hart'
  <2>1. CASE Splhi(p)
    <3>1. Handling(p, "hi")'
      BY <1>1, <1>2, <1>8, <2>1 DEF Splhi, InKernel, K, Handling
    <3>2. QED
      BY <1>1, <1>2, <2>1, <3>1, GoesTo DEF Splhi, InKernel
  <2>2. CASE HandlerReturn(p)
    <3>1. Handling(p, "ret0")'
      BY <1>1, <1>2, <1>8, <2>2 DEF HandlerReturn, InKernel, K, Handling, RestsOn, csrs
    <3>2. QED
      BY <1>1, <1>2, <2>2, <3>1, GoesTo DEF HandlerReturn, InKernel
  <2>3. CASE RestoreSepc(p)
    <3>1. Handling(p, "ret1")'
      BY <1>1, <1>2, <1>8, <2>3 DEF RestoreSepc, InKernel, K, Handling, RestsOn
    <3>2. QED
      BY <1>1, <1>2, <2>3, <3>1, GoesTo DEF RestoreSepc, InKernel
  <2>4. CASE RestoreSstatus(p)
    <3>1. Handling(p, "ret2")'
      BY <1>1, <1>2, <1>8, <2>4 DEF RestoreSstatus, InKernel, K, Handling, RestsOn
    <3>2. QED
      BY <1>1, <1>2, <2>4, <3>1, GoesTo DEF RestoreSstatus, InKernel
  <2>5. CASE RestoreSscratch(p)
    <3>1. Handling(p, "ret3")'
      BY <1>1, <1>2, <1>8, <2>5 DEF RestoreSscratch, InKernel, K, Handling, RestsOn
    <3>2. QED
      BY <1>1, <1>2, <2>5, <3>1, GoesTo DEF RestoreSscratch, InKernel
  <2>6. CASE Init0(p)
    <3>1. Handling(p, "touser")'
      BY <1>1, <1>2, <1>8, <2>6 DEF Init0, InKernel, K, Handling, RestsOn
    <3>2. QED
      BY <1>1, <1>2, <2>6, <3>1, GoesTo DEF Init0, InKernel
  <2>7. CASE Touser(p)
    <3>1. Handling(p, "touser1")'
      BY <1>1, <1>2, <1>8, <2>7 DEF Touser, InKernel, K, Handling, RestsOn
    <3>2. QED
      BY <1>1, <1>2, <2>7, <3>1, GoesTo DEF Touser, InKernel
  <2>8. QED
    BY <2>1, <2>2, <2>3, <2>4, <2>5, <2>6, <2>7
<1>10. QED
  BY <1>1, <1>2, <1>6, <1>7, <1>9, Local DEF InKernel

(* The first process's way to its program. *)
LEMMA StepTouserSret ==
  ASSUME IInv, NEW p \in Proc, TouserSret(p)
  PROVE  IInv'
<1> TypeOK /\ Nests(p) /\ Bottom(p) /\ Waiting(p) /\ NoteOK(p) /\ up = p
  BY DEF IInv, Stacks, TouserSret, InKernel
<1>1. Handling(p, "touser1")
  BY AtPoint DEF TouserSret
<1>2. /\ UNCHANGED <<up, stack, at, expect, note, sepc, cause, sscratch>>
      /\ mode' = "U" /\ pc' = U(Entry) /\ r6' = UserR6
      /\ sie' = spie /\ spie' = TRUE /\ spp' = "U"
  BY <1>1 DEF TouserSret, Sret, Handling
<1>3. stack[p] = <<>> /\ expect[p] = Entry /\ sscratch = "m"
  BY <1>1 DEF Handling
<1>4. Hart'
  BY <1>2, <1>3, ProcAssumption DEF Hart, Running, GoesOn
<1>5. TypeOK'
  BY <1>2, AddrAssumption DEF TypeOK, Pc
<1>6. Nests(p)' /\ Bottom(p)' /\ Waiting(p)' /\ NoteOK(p)'
  <2>1. ~InSys(p) /\ ~InSys(p)'
    BY <1>2 DEF InSys, TouserSret, InKernel, K, U
  <2>2. QED
    BY <1>2, <2>1, Same
<1>7. QED
  BY <1>2, <1>4, <1>5, <1>6, Local

(* SRET: to the user from the first Ureg, to the kernel it was taken in from *)
(* any other.                                                                *)
LEMMA StepTrapReturn ==
  ASSUME IInv, NEW p \in Proc, TrapReturn(p)
  PROVE  IInv'
<1> TypeOK /\ Nests(p) /\ Bottom(p) /\ Waiting(p) /\ NoteOK(p) /\ up = p
  BY DEF IInv, Stacks, TrapReturn, InKernel
<1> DEFINE s == stack[p]
           r == stack'[p]
           n == Len(s)
<1>1. Handling(p, "ret3")
  BY AtPoint DEF TrapReturn
<1>2. /\ UNCHANGED <<up, at, expect, note, sepc, cause, sscratch>>
      /\ \A q \in Proc \ {p} : stack'[q] = stack[q]
      /\ stack' = [stack EXCEPT ![p] = Front(@)] /\ r6' = Ureg(p).r6
      /\ mode' = spp /\ pc' = sepc /\ sie' = spie /\ spie' = TRUE /\ spp' = "U"
  BY DEF TrapReturn, Sret, TypeOK
<1>3. /\ s # <<>> /\ spp = Ureg(p).spp /\ spie = Ureg(p).spie
      /\ sscratch = IF Userureg(Ureg(p)) THEN "m" ELSE "0"
      /\ (sepc = Ureg(p).pc \/ (sepc = K("ret1") /\ Userureg(Ureg(p))))
  BY <1>1 DEF Handling
<1>4. /\ n \in Nat \ {0} /\ Ureg(p) = s[n] /\ Ureg(p) \in UregType
      /\ r \in Seq(UregType) /\ Len(r) = n - 1
      /\ \A i \in 1 .. n - 1 : r[i] = s[i]
  <2>1. s \in Seq(UregType) /\ r = Front(s)
    BY <1>2 DEF TypeOK
  <2>2. QED
    BY <1>3, <2>1, PopUreg DEF Ureg
<1>5. n \in 1 .. n
  BY <1>4
<1>6. TypeOK'
  BY <1>2, <1>4 DEF TypeOK, UregType
<1>7. ~InSys(p)
  BY DEF InSys, TrapReturn, InKernel, K
<1>8. n = 1 => r = <<>>
  BY <1>4, EmptySeq
<1>9. n # 1 => s[1] = r[1] /\ r # <<>>
  <2>1. Len(<<>>) = 0
    OBVIOUS
  <2>2. \A k \in Nat \ {0} : k # 1 => k >= 2
    OBVIOUS
  <2>3. n >= 2 => 1 \in 1 .. n - 1 /\ n - 1 # 0
    BY <1>4
  <2>4. QED
    BY <1>4, <2>1, <2>2, <2>3
<1>10. Nests(p)'
  <2>1. ASSUME NEW i \in 1 .. Len(r)
        PROVE  IF Userureg(r[i]) THEN i = 1 /\ r[i].r6 = UserR6
               ELSE /\ r[i].r6 = p /\ r[i].cause # "ecall" /\ RestsOn(r, i - 1, r[i].pc)
                    /\ Masked(r[i].pc) => ~r[i].spie
    <3>1. i \in 1 .. n /\ r[i] = s[i] /\ (i - 1 > 0 => r[i - 1] = s[i - 1])
      BY <1>4
    <3>2. QED
      BY <3>1 DEF Nests, RestsOn
  <2>2. QED
    BY <2>1 DEF Nests, Userureg, RestsOn, Masked
<1>11. CASE Userureg(Ureg(p))
  <2>1. n = 1 /\ Ureg(p).r6 = UserR6
    BY <1>4, <1>5, <1>11 DEF Nests
  <2>2. GoesOn(p, sepc)
    BY <1>3, <1>4, <1>7, <1>11, <2>1 DEF Bottom, GoesOn
  <2>3. Hart'
    BY <1>2, <1>3, <1>8, <1>11, <2>1, <2>2, ProcAssumption
       DEF Hart, Running, GoesOn, Userureg
  <2>4. Bottom(p)' /\ Waiting(p)' /\ NoteOK(p)'
    BY <1>2, <1>8, <2>1 DEF Bottom, Waiting, NoteOK
  <2>5. QED
    BY <1>2, <1>6, <1>10, <2>3, <2>4, Local
<1>12. CASE ~Userureg(Ureg(p))
  <2>1. Ureg(p).r6 = p /\ RestsOn(s, n - 1, sepc) /\ (Masked(sepc) => ~sie')
    BY <1>2, <1>3, <1>4, <1>5, <1>12 DEF Nests
  <2>2. RestsOn(r, Len(r), sepc)
    BY <1>4, <2>1 DEF RestsOn
  <2>3. PICK c \in {"kproc", "touser", "lo", "hi", "ret0", "ret1"} : sepc = K(c)
    BY <2>1 DEF RestsOn
  <2>4. c \in {"kproc", "touser"} => r = <<>> /\ expect[p] = Entry
    <3>1. SUFFICES ASSUME c \in {"kproc", "touser"} PROVE r = <<>> /\ expect[p] = Entry
      OBVIOUS
    <3>2. n = 1
      BY <1>4, <2>1, <2>3, <3>1 DEF RestsOn, K
    <3>3. QED
      BY <1>3, <1>4, <1>8, <1>12, <3>2 DEF Bottom
  <2>5. c \notin {"kproc", "touser"} => r # <<>>
    BY <2>2, <2>3 DEF RestsOn, K
  <2>6. c \in {"ret0", "ret1"} => Userureg(Ureg(p))'
    BY <1>4, <2>2, <2>3 DEF RestsOn, K, Ureg, Last, Userureg
  <2>7. Handling(p, c)'
    BY <1>2, <1>3, <1>12, <2>1, <2>2, <2>3, <2>4, <2>5, <2>6
       DEF Handling, RestsOn, Userureg, Masked
  <2>8. Hart'
    BY <1>2, <1>3, <1>4, <1>12, <2>3, <2>7, GoesTo DEF InKernel, UregType, Userureg
  <2>9. Bottom(p)'
    <3>1. ~InSys(p)'
      BY <1>2, <2>3 DEF InSys, K
    <3>2. QED
      BY <1>2, <1>3, <1>7, <1>8, <1>9, <3>1 DEF Bottom, GoesOn, Userureg
  <2>10. Waiting(p)' /\ NoteOK(p)'
    BY <1>2 DEF Waiting, NoteOK
  <2>11. QED
    BY <1>2, <1>6, <1>10, <2>8, <2>9, <2>10, Local
<1>13. QED
  BY <1>11, <1>12

(* So do an interrupt in the scheduler and a stutter. *)
LEMMA StepIdle ==
  ASSUME IInv, SchedInterrupt \/ UNCHANGED vars
  PROVE  IInv'
<1>1. /\ UNCHANGED <<up, pc, mode, sie, sscratch, r6, stack, at, expect, note>>
      /\ up = NoProc \/ UNCHANGED <<sepc, spp, spie, cause>>
      /\ TypeOK'
  BY DEF SchedInterrupt, vars, csrs, IInv, TypeOK
<1>2. \A p \in Proc : Nests(p)' /\ Bottom(p)' /\ Waiting(p)' /\ NoteOK(p)'
  BY <1>1, Same DEF InSys
<1>3. Hart'
  <2>1. CASE up = NoProc
    BY <1>1, <2>1 DEF IInv, Hart, Idle
  <2>2. CASE up # NoProc
    BY <1>1, <2>2
       DEF IInv, Hart, Running, GoesOn, Vec, EcallAt, Handling, Ureg, RestsOn, Userureg, Masked
  <2>3. QED
    BY <2>1, <2>2
<1>4. QED
  BY <1>1, <1>2, <1>3 DEF IInv, Stacks

(* So the invariant always holds. *)
LEMMA Invariance == Spec => []IInv
<1>1. IInv /\ [Next]_vars => IInv'
  <2>1. SUFFICES ASSUME IInv, [Next]_vars PROVE IInv'
    OBVIOUS
  <2>2. QED
    BY <2>1, StepTake, StepTrapvec, StepSyscall, StepFork, StepRedirect, StepSched,
       StepSwitchIn, StepKernelMove, StepTouserSret, StepTrapReturn, StepIdle
       DEF Next, Work, KernelMove
<1>2. QED
  BY InitIInv, <1>1, PTL DEF Spec

(* Trap's variables have their types in every reachable state (l.s, trap.c). *)
THEOREM TypeCorrect == Spec => []TypeOK
<1>1. IInv => TypeOK
  BY DEF IInv
<1>2. QED
  BY Invariance, <1>1, PTL

(* However traps nest and processes are switched, sscratch is m in user mode *)
(* and 0 wherever the kernel can take a trap (l.s:106-128, 199-209).          *)
THEOREM SscratchSaysModeHolds == Spec => []SscratchSaysMode
<1>1. ASSUME IInv PROVE SscratchSaysMode
  <2>1. CASE up = NoProc
    BY <1>1, <2>1 DEF IInv, Hart, Idle, SscratchSaysMode
  <2>2. CASE up # NoProc
    <3>1. Running(up)
      BY <1>1, <2>2 DEF IInv, Hart
    <3>2. CASE mode = "U"
      BY <3>1, <3>2 DEF Running, SscratchSaysMode
    <3>3. CASE mode = "S" /\ pc = K("vec")
      BY <3>1, <3>3 DEF Running, SscratchSaysMode, Vec, K
    <3>4. CASE mode = "S" /\ \E c \in KPoint \ {"vec", "sched"} : pc = K(c) /\ Handling(up, c)
      BY <3>4 DEF SscratchSaysMode, Handling, RestsOn, K
    <3>5. QED
      BY <3>1, <3>2, <3>3, <3>4 DEF Running
  <2>3. QED
    BY <2>1, <2>2
<1>2. QED
  BY Invariance, <1>1, PTL

(* Past trapvec the kernel's up is the process it runs for (l.s:181-187). *)
THEOREM KernelHasUpHolds == Spec => []KernelHasUp
<1>1. IInv => KernelHasUp
  BY DEF IInv, Hart, Idle, Running, Handling, KernelHasUp
<1>2. QED
  BY Invariance, <1>1, PTL

(* Only the first Ureg of a kernel stack returns to user mode, at any depth  *)
(* of nested traps and whatever a note handler hands back (trap.c, l.s).     *)
THEOREM UregsNestHolds == Spec => []UregsNest
<1>1. ASSUME IInv PROVE UregsNest
  <2>1. SUFFICES ASSUME NEW p \in Proc, NEW i \in 1 .. Len(stack[p])
                 PROVE  LET u == stack[p][i] IN
                        /\ IF i = 1 /\ u.pc \notin {K("kproc"), K("touser")}
                           THEN Userureg(u) /\ u.r6 = UserR6
                           ELSE ~Userureg(u) /\ u.r6 = p
                        /\ u.pc \in {K("hi"), K("touser")} => ~u.spie
    BY DEF UregsNest
  <2>2. IF Userureg(stack[p][i]) THEN i = 1 /\ stack[p][i].r6 = UserR6
        ELSE /\ stack[p][i].r6 = p
             /\ RestsOn(stack[p], i - 1, stack[p][i].pc)
             /\ Masked(stack[p][i].pc) => ~stack[p][i].spie
    BY <1>1 DEF IInv, Stacks, Nests
  <2>3. stack[p] # <<>> /\ Len(stack[p]) \in Nat
    BY <1>1, EmptySeq DEF IInv, TypeOK
  <2>4. Userureg(stack[p][i]) =>
          stack[p][i].pc \notin {K("kproc"), K("touser"), K("hi")}
    <3>1. Bottom(p)
      BY <1>1 DEF IInv, Stacks
    <3>2. QED
      BY <2>2, <2>3, <3>1 DEF Bottom, EcallAt, GoesOn, U, K
  <2>5. i = 1 /\ ~Userureg(stack[p][i]) => stack[p][i].pc \in {K("kproc"), K("touser")}
    BY <2>2 DEF RestsOn
  <2>6. QED
    BY <2>2, <2>4, <2>5 DEF Masked
<1>2. QED
  BY Invariance, <1>1, PTL

(* A program goes on where its last trap, exec, note or rfork left it,       *)
(* however many traps, sleeps and switches lie between (l.s:195-244,         *)
(* trap.c); the one other address it can reach is that of the sstatus write. *)
THEOREM UserResumesHolds == Spec => []UserResumes
<1>1. IInv => UserResumes
  BY DEF IInv, Hart, Idle, Running, GoesOn, UserResumes
<1>2. QED
  BY Invariance, <1>1, PTL
=============================================================================
