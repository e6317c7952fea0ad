--------------------------------- MODULE Ccu ---------------------------------
(***************************************************************************)
(* The clocks of the core and of the SD card (ccu.c): cpuclockinit moves   *)
(* the core off PLL_CPU while that changes, mmc0clock picks the card's     *)
(* divider.  Rates are in MHz for the core and in kHz for the card.  The   *)
(* PLL is hardware: it does here what the code's steps provide for.        *)
(***************************************************************************)
EXTENDS Integers

CONSTANTS
  Mhz,    \* what cpuclockinit may be asked for
  Khz,    \* what mmc0clock may be asked for
  Peri    \* <<n, m, p>>: what U-Boot left in PLL_PERI's register

ASSUME MhzAssumption == Mhz \subseteq Int
ASSUME KhzAssumption == Khz \subseteq Int
ASSUME PeriAssumption == Peri \subseteq (0 .. 255) \X (0 .. 1) \X (0 .. 7)

Osc == 24          \* MHz
Hoscfreq == 24000  \* kHz
MmcPostdiv == 2

VARIABLES
  pc,       \* where the caller of ccu.c is
  mhz,      \* the argument of cpuclockinit
  mux,      \* what the core runs from
  nfield,   \* the N field of PLL_CPU
  lockEn, lock,   \* its PLL_LOCK_ENABLE and PLL_LOCK bits
  settled,  \* the PLL runs at the N it was given
  core,     \* history: what the core was last asked to run at
  peri,     \* the fields of PLL_PERI
  khz,      \* the argument of mmc0clock
  card      \* the card's clock: [on, parent, m, p]

cpuvars == <<mhz, mux, nfield, lockEn, lock, settled, core>>
cardvars == <<khz, card>>
vars == <<pc, cpuvars, peri, cardvars>>

Init ==
  /\ pc = "idle"
  /\ mhz = 408 /\ core = 408 /\ mux = "PllCpu" /\ nfield = 16
  /\ lockEn = TRUE /\ lock = TRUE /\ settled = TRUE
  /\ peri \in Peri
  /\ khz = 0 /\ card = [on |-> FALSE, parent |-> Hoscfreq, m |-> 1, p |-> 0]

-----------------------------------------------------------------------------
(* The card's divider. *)

(* peri1xfreq() *)
Peri1xfreq(f) == (((Hoscfreq * (f[1] + 1)) \div (f[2] + 1)) \div (f[3] + 1)) \div 2

Freq(hz) == IF hz <= Hoscfreq \div MmcPostdiv THEN Hoscfreq ELSE Peri1xfreq(peri)

AtLeast1(n) == IF n < 1 THEN 1 ELSE n

Div(hz) == AtLeast1((Freq(hz) \div MmcPostdiv) \div hz)

(* The first p whose four bits of M reach div, or the last p. *)
P(div) == CHOOSE p \in 0 .. 3 :
            /\ p = 3 \/ div <= 16 * 2^p
            /\ \A q \in 0 .. p - 1 : div > 16 * 2^q

(* What could go wrong: nothing keeps M within its four bits ... *)
MUncapped(div) == AtLeast1((div + 2^P(div) - 1) \div 2^P(div))

(* ... or div is not rounded up to a multiple of 1<<p. *)
MTruncated(div) == LET m == div \div 2^P(div) IN IF m > 16 THEN 16 ELSE AtLeast1(m)

M(div) == LET p == P(div)
              m == (div + 2^p - 1) \div 2^p
          IN IF m > 16 THEN 16 ELSE AtLeast1(m)

Divider(c) == c.m * 2^c.p

-----------------------------------------------------------------------------
At(c) == pc = c
Goes(c) == pc' = c

(* cpuclockinit(v) up to step 1: run from PLL_PERI(1X). *)
CpuStart(v) ==
  /\ At("idle") /\ v \div Osc \in 12 .. 255 /\ Goes("setN")
  /\ mhz' = v
  /\ mux' = "PllPeri"
  /\ UNCHANGED <<nfield, lockEn, lock, settled, core, peri, cardvars>>

(* The field that makes the PLL multiply by n. *)
Field(n) == n - 1

(* 2. Set N: the PLL starts to move, and may still say that it is locked. *)
CpuSetN ==
  /\ At("setN") /\ Goes("lockLow")
  /\ nfield' = Field(mhz \div Osc)
  /\ settled' = FALSE
  /\ UNCHANGED <<mhz, mux, lockEn, lock, core, peri, cardvars>>

(* What could go wrong: LOCK_ENABLE is not taken low first. *)
CpuLockLowSkipped ==
  /\ At("lockLow") /\ Goes("lockHigh")
  /\ UNCHANGED <<cpuvars, peri, cardvars>>

(* 3. LOCK_ENABLE low, which forgets the old lock ... *)
CpuLockLow ==
  /\ At("lockLow") /\ Goes("lockHigh")
  /\ lockEn' = FALSE /\ lock' = FALSE
  /\ UNCHANGED <<mhz, mux, nfield, settled, core, peri, cardvars>>

(* What could go wrong: ... and it is left low. *)
CpuLockHighSkipped ==
  /\ At("lockHigh") /\ Goes("wait")
  /\ UNCHANGED <<cpuvars, peri, cardvars>>

(* ... then high. *)
CpuLockHigh ==
  /\ At("lockHigh") /\ Goes("wait")
  /\ lockEn' = TRUE
  /\ UNCHANGED <<mhz, mux, nfield, lock, settled, core, peri, cardvars>>

(* 4. Wait for lock; 5. back to PLL_CPU. *)
CpuDone ==
  /\ At("wait") /\ lock /\ Goes("idle")
  /\ mux' = "PllCpu" /\ core' = mhz
  /\ UNCHANGED <<mhz, nfield, lockEn, lock, settled, peri, cardvars>>

(* The PLL, in its own time. *)
Settle ==
  /\ ~settled /\ settled' = TRUE
  /\ UNCHANGED <<pc, mhz, mux, nfield, lockEn, lock, core, peri, cardvars>>

Lock ==
  /\ settled /\ lockEn /\ ~lock /\ lock' = TRUE
  /\ UNCHANGED <<pc, mhz, mux, nfield, lockEn, settled, core, peri, cardvars>>

(* mmc0clock(hz) up to its first write: source and divider, gate off. *)
CardClock(hz) ==
  /\ At("idle") /\ hz > 0 /\ Goes("gate")
  /\ khz' = hz
  /\ LET d == Div(hz) IN
     card' = [on |-> FALSE, parent |-> Freq(hz), m |-> M(d), p |-> P(d)]
  /\ UNCHANGED <<cpuvars, peri>>

CardGate ==
  /\ At("gate") /\ Goes("idle")
  /\ card' = [card EXCEPT !.on = TRUE]
  /\ UNCHANGED <<cpuvars, peri, khz>>

CpuStep == CpuSetN \/ CpuLockLow \/ CpuLockHigh \/ CpuDone

Next ==
  \/ \E v \in Mhz : CpuStart(v)
  \/ CpuStep \/ Settle \/ Lock
  \/ \E hz \in Khz : CardClock(hz)
  \/ CardGate

Spec == Init /\ [][Next]_vars

(* Straight-line code on one hart; a PLL that is left alone settles and, if  *)
(* told to, says so.                                                         *)
FairSpec == Spec /\ WF_vars(CpuStep) /\ WF_vars(Settle) /\ WF_vars(Lock)

-----------------------------------------------------------------------------
(* Every variable has its type; the fields fit their registers. *)
TypeOK ==
  /\ pc \in {"idle", "setN", "lockLow", "lockHigh", "wait", "gate"}
  /\ mhz \in Mhz \union {408} /\ core \in Mhz \union {408}
  /\ mux \in {"PllCpu", "PllPeri"}
  /\ nfield \in 0 .. 255
  /\ lockEn \in BOOLEAN /\ lock \in BOOLEAN /\ settled \in BOOLEAN
  /\ peri \in Peri
  /\ khz \in Khz \union {0}
  /\ card \in [on : BOOLEAN, parent : Nat, m : 1 .. 16, p : 0 .. 3]

(* The core never runs from PLL_CPU while that moves to another rate, stale  *)
(* lock bit or not, and once cpuclockinit is done it runs at the multiple of *)
(* 24 MHz asked for, no faster.                                              *)
CoreSteady ==
  mux = "PllCpu" =>
    /\ settled
    /\ core - Osc < Osc * (nfield + 1) /\ Osc * (nfield + 1) <= core

(* The divider is the nearest that mmc0clock can make of the whole part of   *)
(* the quotient: one more would be slower than asked, and the card gets at   *)
(* least 8/9 of what was asked or half its parent's rate.  Below 94 kHz the  *)
(* two fields end.                                                           *)
CardRate ==
  card.on /\ khz >= 94 /\ (khz > 12000 => khz * 256 >= card.parent) =>
    /\ card.parent \div 2 < khz * (Divider(card) + 1)
    /\ Divider(card) = 1 \/ 16 * Divider(card) * khz <= 9 * card.parent

(* "The divider is rounded up, so the card is never clocked faster than      *)
(* asked" (ccu.c:144).                                                       *)
NeverFaster ==
  card.on /\ khz >= 94 => card.parent <= MmcPostdiv * khz * Divider(card)

(* cpuclockinit waits for a lock that comes. *)
CpuReturns == pc = "setN" ~> pc = "idle"
=============================================================================
