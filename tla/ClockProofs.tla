----------------------------- MODULE ClockProofs -----------------------------
(* Theorems about Clock, for any devices, timers, periods and horizon. *)
EXTENDS Clock, FiniteSetTheorems, TLAPS

(* What is in service, by where plicintr is. *)
ServiceOK ==
  /\ pc \in {"run", "claim"} => irq = None /\ claimed = {}
  /\ pc = "handler" => irq \in Dev /\ claimed = {irq}
  /\ pc \in {"clockintr", "timerintr"} => claimed = {irq}
  /\ pc = "complete" => claimed \subseteq {irq}

(* The HZ clock is the first Timer anybody adds, and nobody deletes it;      *)
(* until then the timer reloads itself.                                      *)
HzOK == due[Hz] = Off => Listed(due) = {} /\ tmr.on /\ tmr.reload

(* How long the timer may count with a Timer due in d. *)
Late(d) == IF d < MinPeriod THEN MinPeriod ELSE d

(* But where clockintr is about to set it, the timer counts and goes off in  *)
(* time for every Timer, or has gone off.                                    *)
TimerOK ==
  pc \notin {"clockintr", "timerintr"} /\ ~sta =>
    \A t \in Listed(due) : tmr.on /\ tmr.left <= Late(due[t])

IInv == TypeOK /\ ServiceOK /\ HzOK /\ TimerOK

-----------------------------------------------------------------------------

(* Induction, without an operator for the induction hypothesis: a set of     *)
(* naturals that has 0 and every successor is Nat.  The successor would map  *)
(* the finitely many of its members below a missing k to themselves, one to  *)
(* one, and so onto 0.                                                       *)
LEMMA Induction ==
  ASSUME NEW D \in SUBSET Nat, 0 \in D, \A m \in D : m + 1 \in D, NEW k \in Nat
  PROVE  k \in D
<1> SUFFICES ASSUME k \notin D PROVE FALSE
  OBVIOUS
<1> DEFINE E == {m \in D : m < k}
           succ == [m \in E |-> m + 1]
<1>1. E \subseteq Nat /\ \A m \in E : m <= k
  <2>1. \A m \in E : m \in Nat /\ m < k
    OBVIOUS
  <2>2. \A m \in Nat : m < k => m <= k
    OBVIOUS
  <2> HIDE DEF E
  <2>3. QED
    BY <2>1, <2>2
<1>2. 0 \in E /\ \A m \in E : m + 1 \in E
  <2>1. \A m \in D : m # k
    OBVIOUS
  <2>2. 0 < k
    BY <2>1
  <2>3. ASSUME NEW m \in E PROVE m + 1 \in E
    <3>1. m + 1 \in D /\ m + 1 # k /\ m < k /\ m \in Nat
      BY <2>1
    <3>2. m + 1 < k
      BY <3>1
    <3>3. QED
      BY <3>1, <3>2
  <2>4. QED
    BY <2>2, <2>3
<1>3. IsFiniteSet(E)
  <2> HIDE DEF E
  <2>1. QED
    BY <1>1, FS_BoundedSetOfNaturals
<1>4. succ \in Injection(E, E)
  <2>1. succ \in [E -> E]
    BY <1>2
  <2>2. \A m, n \in E : succ[m] = succ[n] => m = n
    BY <1>1
  <2> HIDE DEF E, succ
  <2>3. QED
    BY <2>1, <2>2 DEF Injection, IsInjective
<1>5. succ \in Surjection(E, E)
  <2> HIDE DEF E, succ
  <2>1. QED
    BY <1>3, <1>4, FS_Injection
<1>6. PICK m \in E : succ[m] = 0
  BY <1>2, <1>5 DEF Surjection
<1>7. QED
  BY <1>1, <1>6

(* Min of a set of naturals is its least element. *)
LEMMA MinIs ==
  ASSUME NEW S \in SUBSET Nat, S # {}
  PROVE  Min(S) \in S /\ \A y \in S : Min(S) <= y
<1> DEFINE D == {m \in Nat : \A y \in S : m <= y}
<1>1. ASSUME \A x \in S : \E y \in S : ~(x <= y) PROVE FALSE
  <2>1. 0 \in D
    OBVIOUS
  <2>2. ASSUME NEW m \in D PROVE m + 1 \in D
    <3>1. \A y \in S : m <= y /\ m # y
      BY <1>1
    <3>2. QED
      BY <3>1
  <2>3. PICK x \in S : TRUE
    OBVIOUS
  <2>4. D \in SUBSET Nat /\ x + 1 \in Nat
    OBVIOUS
  <2>5. x + 1 \in D
    <3> HIDE DEF D
    <3>1. QED
      BY <2>1, <2>2, <2>4, Induction
  <2>6. QED
    BY <2>5
<1>2. \E x \in S : \A y \in S : x <= y
  BY <1>1
<1>3. QED
  BY <1>2 DEF Min


-----------------------------------------------------------------------------
TmrType == [on : BOOLEAN, reload : BOOLEAN,
            intv : MinPeriod .. MaxPeriod, left : 1 .. MaxPeriod]

(* timerset keeps the period within its limits, and late by no more than the *)
(* lower of them.                                                            *)
LEMMA PeriodIs ==
  ASSUME NEW d \in Nat
  PROVE  Period(d) \in MinPeriod .. MaxPeriod /\ Period(d) <= Late(d)
<1>1. MinPeriod \in Nat /\ MaxPeriod \in Nat /\ MinPeriod < MaxPeriod
  BY PeriodAssumption
<1>2. Min({d, MaxPeriod}) \in {d, MaxPeriod} /\ Min({d, MaxPeriod}) <= d
      /\ Min({d, MaxPeriod}) <= MaxPeriod
  BY <1>1, MinIs
<1> HIDE DEF Min
<1>3. QED
  BY <1>1, <1>2 DEF Period, Late

(* A Timer due later may be late no less. *)
LEMMA LateOrder ==
  ASSUME NEW d \in Nat, NEW e \in Nat, d <= e
  PROVE  Late(d) \in Nat /\ Late(d) <= Late(e)
BY PeriodAssumption DEF Late

(* timerset leaves the timer on, to go off no later than d, or MinPeriod. *)
LEMMA TimersetIs ==
  ASSUME NEW d \in Nat, Timerset(d)
  PROVE  tmr' \in TmrType /\ tmr'.on /\ tmr'.left <= Late(d)
<1>1. Period(d) \in MinPeriod .. MaxPeriod /\ Period(d) <= Late(d)
  BY PeriodIs
<1>2. Period(d) \in 1 .. MaxPeriod
  BY <1>1, PeriodAssumption
<1>3. QED
  BY <1>1, <1>2 DEF Timerset, TmrType

(* The first of the list is a Timer of it, and no later than any other. *)
LEMMA FirstIs ==
  ASSUME NEW f \in [Timers -> {Off} \union (0 .. Horizon)], Listed(f) # {}
  PROVE  First(f) \in 0 .. Horizon /\ \A t \in Listed(f) : First(f) <= f[t]
<1> DEFINE S == {f[t] : t \in Listed(f)}
<1>1. S \subseteq 0 .. Horizon /\ S # {}
  BY DEF Listed
<1>2. S \in SUBSET Nat
  BY <1>1, PeriodAssumption
<1>3. Min(S) \in S /\ \A y \in S : Min(S) <= y
  <2> HIDE DEF S
  <2>1. QED
    BY <1>1, <1>2, MinIs
<1>4. First(f) = Min(S)
  BY DEF First
<1>5. QED
  BY <1>1, <1>3, <1>4

(* Once the timer is set for the first of the list it is in time for all. *)
LEMMA TimersetInTime ==
  ASSUME NEW f \in [Timers -> {Off} \union (0 .. Horizon)], NEW d \in Nat,
         \A t \in Listed(f) : d <= f[t], Timerset(d)
  PROVE  \A t \in Listed(f) : tmr'.on /\ tmr'.left <= Late(f[t])
<1> SUFFICES ASSUME NEW t \in Listed(f) PROVE tmr'.on /\ tmr'.left <= Late(f[t])
  OBVIOUS
<1>1. f[t] \in Nat
  BY PeriodAssumption DEF Listed
<1>2. tmr'.on /\ tmr'.left \in Nat /\ tmr'.left <= Late(d)
  BY TimersetIs, PeriodAssumption DEF TmrType
<1>3. Late(d) \in Nat /\ Late(f[t]) \in Nat /\ Late(d) <= Late(f[t])
  BY <1>1, LateOrder
<1>4. QED
  BY <1>2, <1>3


-----------------------------------------------------------------------------
(* The invariant holds at the start. *)
LEMMA InitIInv == Init => IInv
<1> SUFFICES ASSUME Init PROVE IInv
  OBVIOUS
<1> USE DEF Init
<1>1. TypeOK
  <2>1. MaxPeriod \in MinPeriod .. MaxPeriod /\ MaxPeriod \in 1 .. MaxPeriod
    BY PeriodAssumption
  <2>2. QED
    BY <2>1 DEF TypeOK
<1>2. Listed(due) = {}
  BY DEF Listed
<1>3. ServiceOK /\ HzOK /\ TimerOK
  BY <1>2 DEF ServiceOK, HzOK, TimerOK
<1>4. QED
  BY <1>1, <1>3 DEF IInv

(* Time takes as much from the timer as from every Timer. *)
LEMMA TickKeeps == IInv /\ Tick => IInv'
<1> SUFFICES ASSUME IInv, Tick PROVE IInv'
  OBVIOUS
<1>1. TypeOK /\ ServiceOK /\ HzOK /\ TimerOK /\ UNCHANGED <<pc, irq, batch, level, claimed>>
  BY DEF IInv, Tick
<1>2. /\ due \in [Timers -> {Off} \union (0 .. Horizon)]
      /\ due' = [t \in Timers |-> IF due[t] > 0 THEN due[t] - 1 ELSE due[t]]
  BY <1>1 DEF TypeOK, Tick
<1>3. \A t \in Timers : \/ due[t] = Off /\ due'[t] = Off
                        \/ due[t] = 0 /\ due'[t] = 0
                        \/ due[t] \in 1 .. Horizon /\ due'[t] = due[t] - 1
  BY <1>2 DEF Off
<1>4. /\ due' \in [Timers -> {Off} \union (0 .. Horizon)]
      /\ Listed(due') = Listed(due)
      /\ due'[Hz] = Off => due[Hz] = Off
  <2>1. \A t \in Timers : due'[t] \in {Off} \union (0 .. Horizon) /\ (due'[t] = Off <=> due[t] = Off)
    BY <1>3, PeriodAssumption DEF Off
  <2>2. QED
    BY <1>2, <2>1 DEF Listed, Timers
<1>5. tmr \in TmrType
  BY <1>1 DEF TypeOK, TmrType
<1>6. CASE ~tmr.on
  <2>1. UNCHANGED <<tmr, sta>>
    BY <1>6 DEF Tick
  <2>2. TypeOK' /\ ServiceOK' /\ HzOK'
    BY <1>1, <1>4, <2>1 DEF TypeOK, ServiceOK, HzOK
  <2>3. TimerOK'
    BY <1>1, <1>4, <1>6, <2>1 DEF TimerOK
  <2>4. QED
    BY <2>2, <2>3 DEF IInv
<1>7. CASE tmr.on /\ tmr.left > 1
  <2>1. tmr' = [tmr EXCEPT !.left = @ - 1] /\ UNCHANGED sta
    BY <1>7 DEF Tick
  <2>2. tmr.left - 1 \in 1 .. MaxPeriod
    BY <1>5, <1>7, PeriodAssumption DEF TmrType
  <2>3. tmr' \in TmrType /\ tmr'.on = tmr.on /\ tmr'.reload = tmr.reload /\ tmr'.left = tmr.left - 1
    BY <1>5, <2>1, <2>2 DEF TmrType
  <2>4. TypeOK' /\ ServiceOK' /\ HzOK'
    BY <1>1, <1>4, <2>1, <2>3 DEF TypeOK, TmrType, ServiceOK, HzOK
  <2>5. TimerOK'
    <3> SUFFICES ASSUME pc \notin {"clockintr", "timerintr"}, ~sta, NEW t \in Listed(due)
                 PROVE  tmr.left - 1 <= Late(due'[t])
      BY <1>1, <1>4, <1>7, <2>1, <2>3 DEF TimerOK
    <3>1. tmr.left <= Late(due[t]) /\ t \in Timers /\ due[t] # Off
      BY <1>1 DEF TimerOK, Listed
    <3>2. due'[t] = due[t] \/ due'[t] = due[t] - 1
      BY <1>3, <3>1
    <3>3. due[t] \in Nat /\ due'[t] \in Nat /\ tmr.left \in Nat /\ MinPeriod \in Nat
      BY <1>3, <1>5, <3>1, PeriodAssumption DEF TmrType, Off
    <3>4. QED
      BY <3>1, <3>2, <3>3 DEF Late
  <2>6. QED
    BY <2>4, <2>5 DEF IInv
<1>8. CASE tmr.on /\ ~(tmr.left > 1)
  <2>1. sta' = TRUE /\ tmr' = [tmr EXCEPT !.on = tmr.reload, !.left = tmr.intv]
    BY <1>8 DEF Tick
  <2>2. tmr.intv \in 1 .. MaxPeriod
    BY <1>5, PeriodAssumption DEF TmrType
  <2>3. tmr' \in TmrType /\ tmr'.on = tmr.reload /\ tmr'.reload = tmr.reload
    BY <1>5, <2>1, <2>2 DEF TmrType
  <2>4. TypeOK' /\ ServiceOK'
    BY <1>1, <1>4, <2>1, <2>3 DEF TypeOK, TmrType, ServiceOK
  <2>5. HzOK' /\ TimerOK'
    BY <1>1, <1>4, <2>1, <2>3 DEF HzOK, TimerOK
  <2>6. QED
    BY <2>4, <2>5 DEF IInv
<1>9. QED
  BY <1>6, <1>7, <1>8

(* A new Timer is behind the first of the list, or the timer is set for it. *)
LEMMA TimeraddKeeps ==
  ASSUME IInv, NEW t \in Timers, NEW d \in 0 .. Horizon, Timeradd(t, d)
  PROVE  IInv'
<1>1. TypeOK /\ ServiceOK /\ HzOK /\ TimerOK /\ UNCHANGED <<pc, irq, batch, sta, level, claimed>>
      /\ pc = "run" /\ due[t] = Off /\ (t = Hz \/ due[Hz] # Off)
  BY DEF IInv, Timeradd
<1>2. due' = [due EXCEPT ![t] = d] /\ due \in [Timers -> {Off} \union (0 .. Horizon)]
      /\ d \in Nat /\ d # Off /\ tmr \in TmrType
  BY <1>1, PeriodAssumption DEF Timeradd, TypeOK, TmrType, Off
<1>3. /\ due' \in [Timers -> {Off} \union (0 .. Horizon)]
      /\ Listed(due') = Listed(due) \union {t}
      /\ due'[t] = d /\ \A s \in Listed(due) : due'[s] = due[s]
      /\ Hz \in Timers /\ due'[Hz] # Off
  BY <1>1, <1>2 DEF Listed, Timers
<1>4. ServiceOK' /\ HzOK'
  BY <1>1, <1>3 DEF ServiceOK, HzOK
<1>5. CASE \A s \in Listed(due) : d < due[s]
  <2>1. Timerset(d)
    BY <1>5 DEF Timeradd
  <2>2. \A s \in Listed(due') : d <= due'[s]
    <3>1. \A s \in Listed(due) : due[s] \in Nat /\ d <= due[s]
      BY <1>2, <1>5, PeriodAssumption DEF Listed
    <3>2. QED
      BY <1>2, <1>3, <3>1
  <2>3. \A s \in Listed(due') : tmr'.on /\ tmr'.left <= Late(due'[s])
    BY <1>2, <1>3, <2>1, <2>2, TimersetInTime
  <2>4. tmr' \in TmrType
    BY <1>2, <2>1, TimersetIs
  <2>5. TypeOK' /\ TimerOK'
    BY <1>1, <1>3, <2>3, <2>4 DEF TypeOK, TmrType, TimerOK
  <2>6. QED
    BY <1>4, <2>5 DEF IInv
<1>6. CASE ~ \A s \in Listed(due) : d < due[s]
  <2>1. UNCHANGED tmr
    BY <1>6 DEF Timeradd
  <2>2. PICK s \in Listed(due) : ~(d < due[s])
    BY <1>6
  <2>3. due[s] \in Nat /\ due[s] <= d
    BY <1>2, <2>2, PeriodAssumption DEF Listed
  <2>4. Late(due[s]) \in Nat /\ Late(d) \in Nat /\ Late(due[s]) <= Late(d)
    <3>1. Late(d) \in Nat
      BY <1>2, PeriodAssumption DEF Late
    <3>2. QED
      BY <1>2, <2>3, <3>1, LateOrder
  <2>5. TimerOK'
    <3> SUFFICES ASSUME ~sta, NEW u \in Listed(due') PROVE tmr.on /\ tmr.left <= Late(due'[u])
      BY <1>1, <2>1 DEF TimerOK
    <3>1. \A w \in Listed(due) : tmr.on /\ tmr.left <= Late(due[w])
      BY <1>1 DEF TimerOK
    <3>2. tmr.left \in Nat
      BY <1>2, PeriodAssumption DEF TmrType
    <3>3. CASE u = t
      <4>1. tmr.on /\ tmr.left <= Late(due[s])
        BY <2>2, <3>1
      <4>2. tmr.left <= Late(d)
        BY <2>4, <3>2, <4>1
      <4>3. QED
        BY <1>3, <3>3, <4>1, <4>2
    <3>4. CASE u \in Listed(due)
      BY <1>3, <3>1, <3>4
    <3>5. QED
      BY <1>3, <3>3, <3>4
  <2>6. TypeOK'
    BY <1>1, <1>3, <2>1 DEF TypeOK
  <2>7. QED
    BY <1>4, <2>5, <2>6 DEF IInv
<1>7. QED
  BY <1>5, <1>6


(* Taking a Timer away makes no other late. *)
LEMMA TimerdelKeeps ==
  ASSUME IInv, NEW t \in Timers, Timerdel(t)
  PROVE  IInv'
<1>1. TypeOK /\ ServiceOK /\ HzOK /\ TimerOK /\ UNCHANGED <<pc, irq, batch, sta, level, claimed>>
      /\ pc = "run" /\ t # Hz
  BY DEF IInv, Timerdel
<1>2. due' = [due EXCEPT ![t] = Off] /\ due \in [Timers -> {Off} \union (0 .. Horizon)]
      /\ tmr \in TmrType
  BY <1>1 DEF Timerdel, TypeOK, TmrType
<1>3. /\ due' \in [Timers -> {Off} \union (0 .. Horizon)]
      /\ \A s \in Listed(due') : s \in Listed(due) /\ due'[s] = due[s]
      /\ Hz \in Timers /\ due'[Hz] = due[Hz]
  BY <1>1, <1>2 DEF Listed, Timers
<1>4. ServiceOK'
  BY <1>1 DEF ServiceOK
<1>5. CASE UNCHANGED tmr
  <2>1. TypeOK' /\ HzOK'
    BY <1>1, <1>3, <1>5 DEF TypeOK, HzOK
  <2>2. TimerOK'
    BY <1>1, <1>3, <1>5 DEF TimerOK
  <2>3. QED
    BY <1>4, <2>1, <2>2 DEF IInv
<1>6. CASE Listed(due') # {} /\ Timerset(First(due'))
  <2>1. First(due') \in Nat /\ \A s \in Listed(due') : First(due') <= due'[s]
    BY <1>3, <1>6, FirstIs, PeriodAssumption
  <2> HIDE DEF First
  <2>2. tmr' \in TmrType
    BY <1>6, <2>1, TimersetIs
  <2>3. \A s \in Listed(due') : tmr'.on /\ tmr'.left <= Late(due'[s])
    BY <1>3, <1>6, <2>1, TimersetInTime
  <2>4. due'[Hz] # Off
    BY <1>1, <1>3, <1>6 DEF HzOK
  <2>5. TypeOK' /\ HzOK' /\ TimerOK'
    BY <1>1, <1>3, <2>2, <2>3, <2>4 DEF TypeOK, TmrType, HzOK, TimerOK
  <2>6. QED
    BY <1>4, <2>5 DEF IInv
<1>7. QED
  BY <1>5, <1>6 DEF Timerdel

(* timerintr: a Timer is run while the timer is still to be set ... *)
LEMMA RunTimerKeeps ==
  ASSUME IInv, NEW t \in Timers, RunTimer(t)
  PROVE  IInv'
<1>1. TypeOK /\ ServiceOK /\ HzOK /\ UNCHANGED <<pc, irq, tmr, sta, level, claimed>>
      /\ pc = "timerintr" /\ batch' = batch \ {t}
  BY DEF IInv, RunTimer
<1>2. due' = [due EXCEPT ![t] = IF t = Hz THEN MaxPeriod ELSE Off]
      /\ due \in [Timers -> {Off} \union (0 .. Horizon)]
  BY <1>1 DEF RunTimer, TypeOK
<1>3. MaxPeriod \in 0 .. Horizon /\ MaxPeriod # Off
  BY PeriodAssumption DEF Off
<1>4. due' \in [Timers -> {Off} \union (0 .. Horizon)]
  BY <1>2, <1>3
<1>5. HzOK'
  <2>1. Hz \in Timers
    BY DEF Timers
  <2>2. due'[Hz] = Off => due[Hz] = Off /\ Listed(due') \subseteq Listed(due)
    BY <1>2, <1>3, <2>1 DEF Listed
  <2>3. QED
    BY <1>1, <2>2 DEF HzOK
<1>6. TypeOK' /\ ServiceOK' /\ TimerOK'
  BY <1>1, <1>4 DEF TypeOK, ServiceOK, TimerOK
<1>7. QED
  BY <1>5, <1>6 DEF IInv

(* ... for the first that is left. *)
LEMMA RearmKeeps == IInv /\ Rearm => IInv'
<1> SUFFICES ASSUME IInv, Rearm PROVE IInv'
  OBVIOUS
<1>1. TypeOK /\ ServiceOK /\ HzOK /\ UNCHANGED <<irq, due, batch, sta, level, claimed>>
      /\ pc = "timerintr" /\ pc' = "complete"
  BY DEF IInv, Rearm, Goes
<1>2. ServiceOK'
  BY <1>1 DEF ServiceOK
<1>3. due \in [Timers -> {Off} \union (0 .. Horizon)]
  BY <1>1 DEF TypeOK
<1>4. CASE Listed(due) # {}
  <2>1. Timerset(First(due))
    BY <1>4 DEF Rearm
  <2>2. First(due) \in Nat /\ \A s \in Listed(due) : First(due) <= due[s]
    BY <1>3, <1>4, FirstIs, PeriodAssumption
  <2> HIDE DEF First
  <2>3. tmr' \in TmrType
    BY <2>1, <2>2, TimersetIs
  <2>4. \A s \in Listed(due) : tmr'.on /\ tmr'.left <= Late(due[s])
    BY <1>3, <2>1, <2>2, TimersetInTime
  <2>5. TypeOK' /\ HzOK' /\ TimerOK'
    BY <1>1, <1>4, <2>3, <2>4 DEF TypeOK, TmrType, HzOK, TimerOK
  <2>6. QED
    BY <1>2, <2>5 DEF IInv
<1>5. CASE Listed(due) = {}
  <2>1. UNCHANGED tmr
    BY <1>5 DEF Rearm
  <2>2. TypeOK' /\ HzOK' /\ TimerOK'
    BY <1>1, <1>5, <2>1 DEF TypeOK, HzOK, TimerOK
  <2>3. QED
    BY <1>2, <2>2 DEF IInv
<1>6. QED
  BY <1>4, <1>5

(* Every step keeps the invariant. *)
LEMMA StepIInv == IInv /\ [Next]_vars => IInv'
<1> SUFFICES ASSUME IInv, [Next]_vars PROVE IInv'
  OBVIOUS
<1> TypeOK /\ ServiceOK /\ HzOK /\ TimerOK
  BY DEF IInv
<1> USE IrqAssumption DEF IInv, TypeOK, ServiceOK, Goes, Irq
<1>1. ASSUME UNCHANGED vars
      PROVE  IInv'
  BY <1>1 DEF vars, HzOK, TimerOK
<1>2. ASSUME NEW i \in Dev, Device(i)
      PROVE  IInv'
  BY <1>2 DEF Device, HzOK, TimerOK
<1>3. ASSUME Interrupt
      PROVE  IInv'
  BY <1>3 DEF Interrupt, HzOK, TimerOK
<1>4. ASSUME NEW i \in Irq, Claim(i)
      PROVE  IInv'
  BY <1>4 DEF Claim, HzOK, TimerOK
<1>5. ASSUME ClaimNone
      PROVE  IInv'
  BY <1>5 DEF ClaimNone, HzOK, TimerOK
<1>6. ASSUME Handler
      PROVE  IInv'
  BY <1>6 DEF Handler, HzOK, TimerOK
<1>7. ASSUME Clockintr
      PROVE  IInv'
  BY <1>7 DEF Clockintr, HzOK, TimerOK
<1>8. ASSUME Complete
      PROVE  IInv'
  BY <1>8 DEF Complete, HzOK, TimerOK
<1>9. QED
  BY <1>1, <1>2, <1>3, <1>4, <1>5, <1>6, <1>7, <1>8,
     TickKeeps, TimeraddKeeps, TimerdelKeeps, RunTimerKeeps, RearmKeeps
     DEF Next, HandlerStep

(* So the invariant always holds. *)
LEMMA Invariance == Spec => []IInv
BY InitIInv, StepIInv, PTL DEF Spec


(* Clock's variables have their types in every reachable state (timer.c,     *)
(* plic.c, trap.c).                                                          *)
THEOREM TypeCorrect == Spec => []TypeOK
<1>1. IInv => TypeOK
  BY DEF IInv
<1>2. QED
  BY Invariance, <1>1, PTL

(* The timer counts, or its interrupt is still to come or to set it again,   *)
(* whatever Timers are added, deleted and run late (timerset, clockintr).    *)
THEOREM ClockAliveHolds == Spec => []ClockAlive
<1>1. IInv => ClockAlive
  <2> SUFFICES ASSUME IInv, ~sta, pc \notin {"clockintr", "timerintr"} PROVE tmr.on
    BY DEF ClockAlive
  <2>1. Hz \in Timers
    BY DEF Timers
  <2>2. due[Hz] # Off => Hz \in Listed(due)
    BY <2>1 DEF Listed
  <2>3. QED
    BY <2>2 DEF IInv, HzOK, TimerOK
<1>2. QED
  BY Invariance, <1>1, PTL

(* Outside of the handler the timer is late for no Timer, but for one due    *)
(* sooner than the shortest period timerset sets.                            *)
THEOREM InTimeHolds == Spec => []InTime
<1>1. IInv => InTime
  BY DEF IInv, TimerOK, InTime, Late
<1>2. QED
  BY Invariance, <1>1, PTL

(* A process runs with no interrupt in service: whatever plicintr claimed it *)
(* has completed (plicintr).                                                 *)
THEOREM NoneInServiceHolds == Spec => []NoneInService
<1>1. IInv => NoneInService
  BY DEF IInv, ServiceOK, NoneInService
<1>2. QED
  BY Invariance, <1>1, PTL
=============================================================================
