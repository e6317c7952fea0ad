-------------------------------- MODULE Clock --------------------------------
(***************************************************************************)
(* The one-shot timer, the interrupt controller and the clock interrupt    *)
(* (timer.c, plic.c, clockintr in trap.c), with time that passes between   *)
(* any two steps.  The list of Timers is port/portclock.c's, which is not  *)
(* in the repository: it calls timerset when a timer becomes the first of  *)
(* the list and when the clock interrupt has run those that were due.      *)
(***************************************************************************)
EXTENDS Integers, FiniteSets, FiniteSetsExt

CONSTANTS
  Dev,         \* interrupts of devices
  Timer0,      \* TIMER0IRQ
  None,        \* interrupt 0: nothing to claim
  OneShot, Hz, \* Timers: those processes add; the HZ clock
  MinPeriod, MaxPeriod,   \* the limits of timerset; the latter is one tick
  Horizon      \* bound: how far ahead a Timer may be

ASSUME IrqAssumption == Timer0 \notin Dev /\ None \notin Dev \union {Timer0}
ASSUME TimerAssumption == Hz \notin OneShot
ASSUME PeriodAssumption ==
  /\ {MinPeriod, MaxPeriod, Horizon} \subseteq Nat
  /\ 0 < MinPeriod /\ MinPeriod < MaxPeriod /\ MaxPeriod <= Horizon

VARIABLES
  pc,       \* the handler; or "run" outside of it
  irq,      \* what plicintr has claimed
  due,      \* due[t]: time till t's twhen, 0 if past; Off if not in the list
  batch,    \* the Timers timerintr found due
  tmr,      \* the timer: [on, reload, intv, left]
  sta,      \* its bit in irqsta
  level,    \* the devices that ask for an interrupt
  claimed   \* interrupts claimed and not completed

vars == <<pc, irq, due, batch, tmr, sta, level, claimed>>

Irq == Dev \union {Timer0}
Timers == OneShot \union {Hz}
Off == -1

(* After trapinit and intrinit: the timer reloads itself, for nobody has     *)
(* added a Timer.                                                            *)
Init ==
  /\ pc = "run" /\ irq = None
  /\ due = [t \in Timers |-> Off] /\ batch = {}
  /\ tmr = [on |-> TRUE, reload |-> TRUE, intv |-> MaxPeriod, left |-> MaxPeriod]
  /\ sta = FALSE /\ level = {} /\ claimed = {}

-----------------------------------------------------------------------------
(* What could go wrong: nothing keeps the period within a tick ... *)
PeriodUncapped(d) == IF d < MinPeriod THEN MinPeriod ELSE d

(* ... or a Timer that is due waits for the next tick. *)
PeriodSwapped(d) == IF d < MinPeriod THEN MaxPeriod ELSE Min({d, MaxPeriod})

(* timerset's period for a time d from now. *)
Period(d) == IF d < MinPeriod THEN MinPeriod ELSE Min({d, MaxPeriod})

(* timerset *)
Timerset(d) ==
  tmr' = [on |-> TRUE, reload |-> FALSE, intv |-> Period(d), left |-> Period(d)]

Listed(f) == {t \in Timers : f[t] # Off}
First(f) == Min({f[t] : t \in Listed(f)})

(* What asks for an interrupt and is not being served. *)
Asserted == level \union (IF sta THEN {Timer0} ELSE {})
Pending == Asserted \ claimed

Goes(c) == pc' = c

-----------------------------------------------------------------------------
(* Time passes; a timer that has counted down once stops or starts over. *)
Tick ==
  /\ due' = [t \in Timers |-> IF due[t] > 0 THEN due[t] - 1 ELSE due[t]]
  /\ IF ~tmr.on THEN UNCHANGED <<tmr, sta>>
     ELSE IF tmr.left > 1
     THEN tmr' = [tmr EXCEPT !.left = @ - 1] /\ UNCHANGED sta
     ELSE /\ sta' = TRUE
          /\ tmr' = [tmr EXCEPT !.on = tmr.reload, !.left = tmr.intv]
  /\ UNCHANGED <<pc, irq, batch, level, claimed>>

(* A device asks, or stops asking because its driver looked at it. *)
Device(i) ==
  /\ level' \in {level \union {i}, level \ {i}}
  /\ UNCHANGED <<pc, irq, due, batch, tmr, sta, claimed>>

(* timeradd, interrupts masked: timersinit for the HZ clock first, tsleep    *)
(* and others for the rest.                                                  *)
Timeradd(t, d) ==
  /\ pc = "run" /\ due[t] = Off /\ (t = Hz \/ due[Hz] # Off)
  /\ due' = [due EXCEPT ![t] = d]
  /\ IF \A s \in Listed(due) : d < due[s] THEN Timerset(d) ELSE UNCHANGED tmr
  /\ UNCHANGED <<pc, irq, batch, sta, level, claimed>>

(* timerdel; the timer is left as it is, or set for the new first, unless    *)
(* that is due already and only waits for the timer.                         *)
Timerdel(t) ==
  /\ pc = "run" /\ t # Hz /\ due[t] # Off
  /\ due' = [due EXCEPT ![t] = Off]
  /\ UNCHANGED tmr \/ (Listed(due') # {} /\ First(due') > 0 /\ Timerset(First(due')))
  /\ UNCHANGED <<pc, irq, batch, sta, level, claimed>>

Interrupt ==
  /\ pc = "run" /\ Pending # {} /\ Goes("claim")
  /\ UNCHANGED <<irq, due, batch, tmr, sta, level, claimed>>

(* plicclaim; all priorities are 1. *)
Claim(i) ==
  /\ pc = "claim" /\ i \in Pending
  /\ irq' = i /\ claimed' = claimed \union {i}
  /\ Goes(IF i = Timer0 THEN "clockintr" ELSE "handler")
  /\ UNCHANGED <<due, batch, tmr, sta, level>>

ClaimNone ==
  /\ pc = "claim" /\ Pending = {}
  /\ Goes("complete")
  /\ UNCHANGED <<irq, due, batch, tmr, sta, level, claimed>>

(* A device's handler leaves it nothing to ask for. *)
Handler ==
  /\ pc = "handler" /\ Goes("complete")
  /\ level' = level \ {irq}
  /\ UNCHANGED <<irq, due, batch, tmr, sta, claimed>>

(* clockintr up to timerintr's reading of the time. *)
Clockintr ==
  /\ pc = "clockintr" /\ Goes("timerintr")
  /\ sta' = FALSE
  /\ batch' = {t \in Timers : due[t] = 0}
  /\ UNCHANGED <<irq, due, tmr, level, claimed>>

(* timerintr runs a Timer that was due; the HZ clock goes back into the list.*)
RunTimer(t) ==
  /\ pc = "timerintr" /\ t \in batch
  /\ batch' = batch \ {t}
  /\ due' = [due EXCEPT ![t] = IF t = Hz THEN MaxPeriod ELSE Off]
  /\ UNCHANGED <<pc, irq, tmr, sta, level, claimed>>

(* It sets the timer for the first that is left. *)
Rearm ==
  /\ pc = "timerintr" /\ batch = {} /\ Goes("complete")
  /\ IF Listed(due) # {} THEN Timerset(First(due)) ELSE UNCHANGED tmr
  /\ UNCHANGED <<irq, due, batch, sta, level, claimed>>

(* What could go wrong: the timer is acknowledged on the way out, too ... *)
CompleteAcks ==
  /\ pc = "complete" /\ Goes("run")
  /\ claimed' = claimed \ {irq} /\ irq' = None
  /\ sta' = FALSE
  /\ UNCHANGED <<due, batch, tmr, level>>

(* ... or the clock's interrupt is not completed, for its handler switches.  *)
CompleteNotTimer ==
  /\ pc = "complete" /\ Goes("run")
  /\ claimed' = IF irq = Timer0 THEN claimed ELSE claimed \ {irq}
  /\ irq' = None
  /\ UNCHANGED <<due, batch, tmr, sta, level>>

(* pliccomplete; trap() may switch to another process after it. *)
Complete ==
  /\ pc = "complete" /\ Goes("run")
  /\ claimed' = claimed \ {irq} /\ irq' = None
  /\ UNCHANGED <<due, batch, tmr, sta, level>>

HandlerStep ==
  ClaimNone \/ Handler \/ Clockintr \/ (\E t \in Timers : RunTimer(t)) \/ Rearm \/ Complete

Next ==
  \/ Tick
  \/ \E i \in Dev : Device(i)
  \/ \E t \in Timers, d \in 0 .. Horizon : Timeradd(t, d)
  \/ \E t \in Timers : Timerdel(t)
  \/ Interrupt \/ (\E i \in Irq : Claim(i)) \/ HandlerStep

Spec == Init /\ [][Next]_vars

(* Time passes, handlers end, interrupts are unmasked again and again, and   *)
(* no device asks so often that another is never claimed.                    *)
FairSpec ==
  /\ Spec
  /\ WF_vars(Tick) /\ WF_vars(HandlerStep) /\ SF_vars(Interrupt)
  /\ \A i \in Irq : SF_vars(Claim(i))

-----------------------------------------------------------------------------
(* Every variable has its type. *)
TypeOK ==
  /\ pc \in {"run", "claim", "handler", "clockintr", "timerintr", "complete"}
  /\ irq \in Irq \union {None}
  /\ due \in [Timers -> {Off} \union (0 .. Horizon)]
  /\ batch \subseteq Timers
  /\ tmr \in [on : BOOLEAN, reload : BOOLEAN,
              intv : MinPeriod .. MaxPeriod, left : 1 .. MaxPeriod]
  /\ sta \in BOOLEAN /\ level \subseteq Dev
  /\ claimed \subseteq Irq

(* The clock never dies: the timer counts, or its interrupt is still to come *)
(* or still to set it again, whoever sets it when and however late.          *)
ClockAlive == tmr.on \/ sta \/ pc \in {"clockintr", "timerintr"}

(* Outside of the handler the timer goes off no later than the first Timer   *)
(* is due, or MinPeriod from its setting.                                    *)
InTime ==
  pc = "run" /\ ~sta =>
    \A t \in Listed(due) : tmr.on /\ tmr.left <= IF due[t] < MinPeriod THEN MinPeriod ELSE due[t]

(* No interrupt is in service when a process runs: trap() switches only      *)
(* after plicintr has completed it, so no device is shut out.                *)
NoneInService == pc = "run" => claimed = {}

(* A Timer that is due is run, or taken off the list; ... *)
TimersRun == \A t \in Timers : due[t] = 0 ~> due[t] # 0

(* ... a device that keeps asking is served; ... *)
DevicesServed == \A i \in Dev : i \in level ~> i \notin level

(* ... so nobody who waits for an interrupt waits for ever: plicintr claims  *)
(* and completes one after the other, clockintr among them.                  *)
Served == TimersRun /\ DevicesServed
=============================================================================
