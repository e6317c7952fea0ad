------------------------------ MODULE CcuProofs ------------------------------
(* Theorems about Ccu, for any rates asked for and any PLL_PERI. *)
EXTENDS Ccu, TLAPS

(* The core is on PLL_CPU but between steps 1 and 5; there the lock bit      *)
(* vouches for the PLL again once LOCK_ENABLE has gone low and high.         *)
CpuOK ==
  /\ pc \in {"idle", "gate"} => mux = "PllCpu"
  /\ pc \in {"setN", "lockLow", "lockHigh", "wait"} =>
       mux = "PllPeri" /\ mhz \div Osc \in 12 .. 255
  /\ pc \in {"lockLow", "lockHigh", "wait"} => nfield = Field(mhz \div Osc)
  /\ pc = "lockHigh" => ~lockEn /\ ~lock
  /\ pc = "wait" /\ lock => settled

(* What mmc0clock made of khz, if it was ever called. *)
CardOK ==
  \/ khz = 0 /\ ~card.on /\ pc # "gate"
  \/ /\ khz > 0
     /\ card.parent = Freq(khz) /\ card.m = M(Div(khz)) /\ card.p = P(Div(khz))

IInv == TypeOK /\ CoreSteady /\ CpuOK /\ CardOK

-----------------------------------------------------------------------------
(* The divider. *)

(* The values of a two-bit predivider. *)
LEMMA Powers == 2^0 = 1 /\ 2^1 = 2 /\ 2^2 = 4 /\ 2^3 = 8
OBVIOUS

(* C's division of naturals: it rounds down. *)
LEMMA Quotient ==
  ASSUME NEW a \in Nat, NEW b \in Nat, b > 0
  PROVE  a \div b \in Nat /\ b * (a \div b) <= a /\ a < b * ((a \div b) + 1)
OBVIOUS

(* p is the first that reaches div, or the last. *)
LEMMA PIs ==
  ASSUME NEW div \in Nat, div > 0
  PROVE  \/ P(div) = 0 /\ div <= 16
         \/ P(div) = 1 /\ div > 16 /\ div <= 32
         \/ P(div) = 2 /\ div > 32 /\ div <= 64
         \/ P(div) = 3 /\ div > 64
<1> DEFINE Fits(p) == /\ p = 3 \/ div <= 16 * 2^p
                      /\ \A q \in 0 .. p - 1 : div > 16 * 2^q
<1>1. \E p \in 0 .. 3 : Fits(p)
  <2>1. CASE div <= 16
    <3>1. Fits(0)
      BY <2>1, Powers
    <3>2. QED
      BY <3>1
  <2>2. CASE div > 16 /\ div <= 32
    <3>1. \A q \in 0 .. 0 : div > 16 * 2^q
      BY <2>2, Powers
    <3>2. Fits(1)
      BY <2>2, <3>1, Powers
    <3>3. QED
      BY <3>2
  <2>3. CASE div > 32 /\ div <= 64
    <3>1. \A q \in 0 .. 1 : q = 0 \/ q = 1
      OBVIOUS
    <3>2. Fits(2)
      BY <2>3, <3>1, Powers
    <3>3. QED
      BY <3>2
  <2>4. CASE div > 64
    <3>1. \A q \in 0 .. 2 : q = 0 \/ q = 1 \/ q = 2
      OBVIOUS
    <3>2. Fits(3)
      BY <2>4, <3>1, Powers
    <3>3. QED
      BY <3>2
  <2>5. QED
    BY <2>1, <2>2, <2>3, <2>4
<1>2. P(div) \in 0 .. 3 /\ Fits(P(div))
  <2>1. P(div) = CHOOSE p \in 0 .. 3 : Fits(p)
    BY DEF P
  <2> HIDE DEF Fits
  <2>2. QED
    BY <1>1, <2>1
<1>3. CASE P(div) = 0
  BY <1>2, <1>3, Powers
<1>4. CASE P(div) = 1
  <2>1. 0 \in 0 .. P(div) - 1
    BY <1>4
  <2>2. QED
    BY <1>2, <1>4, <2>1, Powers
<1>5. CASE P(div) = 2
  <2>1. 1 \in 0 .. P(div) - 1
    BY <1>5
  <2>2. QED
    BY <1>2, <1>5, <2>1, Powers
<1>6. CASE P(div) = 3
  <2>1. 2 \in 0 .. P(div) - 1
    BY <1>6
  <2>2. QED
    BY <1>2, <1>6, <2>1, Powers
<1>7. QED
  BY <1>2, <1>3, <1>4, <1>5, <1>6

(* M rounds div up to a multiple of 1<<p, if its four bits reach that far. *)
LEMMA MIs ==
  ASSUME NEW div \in Nat, div > 0
  PROVE  /\ P(div) \in 0 .. 3 /\ M(div) \in 1 .. 16
         /\ P(div) = 0 => M(div) * 2^P(div) = div
         /\ P(div) = 1 => M(div) * 2^P(div) \in {div, div + 1}
         /\ P(div) = 2 => M(div) * 2^P(div) \in div .. div + 3
         /\ P(div) = 3 /\ div <= 128 => M(div) * 2^P(div) \in div .. div + 7
<1> HIDE DEF P
<1>1. CASE P(div) = 0 /\ div <= 16
  BY <1>1, Powers DEF M, AtLeast1
<1>2. CASE P(div) = 1 /\ div > 16 /\ div <= 32
  BY <1>2, Powers DEF M, AtLeast1
<1>3. CASE P(div) = 2 /\ div > 32 /\ div <= 64
  BY <1>3, Powers DEF M, AtLeast1
<1>4. CASE P(div) = 3 /\ div > 64
  BY <1>4, Powers DEF M, AtLeast1
<1>5. QED
  BY <1>1, <1>2, <1>3, <1>4, PIs


(* So the divider is div and at most an eighth of it more. *)
LEMMA RoundsUp ==
  ASSUME NEW div \in Nat, div > 0, div <= 128
  PROVE  \E r \in 0 .. 7 : M(div) * 2^P(div) = div + r /\ 8 * r <= div
<1> DEFINE D == M(div) * 2^P(div)
<1>0. /\ P(div) \in 0 .. 3
      /\ P(div) = 0 => D = div
      /\ P(div) = 1 => D \in {div, div + 1}
      /\ P(div) = 2 => D \in div .. div + 3
      /\ P(div) = 3 => D \in div .. div + 7
  BY MIs
<1>1. CASE P(div) = 0
  <2>1. D = div + 0
    BY <1>0, <1>1
  <2>2. QED
    BY <2>1
<1>2. CASE P(div) = 1
  <2>1. D \in {div, div + 1} /\ div > 16
    BY <1>0, <1>2, PIs
  <2>2. D = div + 0 \/ D = div + 1
    BY <2>1
  <2> HIDE DEF D
  <2>3. \E r \in 0 .. 7 : D = div + r /\ 8 * r <= div
    BY <2>1, <2>2
  <2>4. QED
    BY <2>3 DEF D
<1>3. CASE P(div) = 2
  <2>1. D \in div .. div + 3 /\ div > 32
    BY <1>0, <1>3, PIs
  <2> HIDE DEF D
  <2>2. D - div \in 0 .. 7 /\ D = div + (D - div) /\ 8 * (D - div) <= div
    BY <2>1
  <2>3. QED
    BY <2>2 DEF D
<1>4. CASE P(div) = 3
  <2>1. D \in div .. div + 7 /\ div > 64
    BY <1>0, <1>4, PIs
  <2> HIDE DEF D
  <2>2. D - div \in 0 .. 7 /\ D = div + (D - div) /\ 8 * (D - div) <= div
    BY <2>1
  <2>3. QED
    BY <2>2 DEF D
<1>5. QED
  BY <1>0, <1>1, <1>2, <1>3, <1>4

(* PLL_PERI's rate is a rate, whatever its fields. *)
LEMMA FreqIs ==
  ASSUME peri \in Peri, NEW hz \in Int
  PROVE  Freq(hz) \in Nat
<1> DEFINE n == peri[1]
          m == peri[2]
          p == peri[3]
<1>1. n \in 0 .. 255 /\ m \in 0 .. 1 /\ p \in 0 .. 7
  <2>1. peri \in (0 .. 255) \X (0 .. 1) \X (0 .. 7)
    BY PeriAssumption
  <2>2. QED
    BY <2>1
<1>2. (Hoscfreq * (n + 1)) \div (m + 1) \in Nat
  <2> HIDE DEF n, m
  <2>1. QED
    BY <1>1 DEF Hoscfreq
<1>3. ((Hoscfreq * (n + 1)) \div (m + 1)) \div (p + 1) \in Nat
  <2> HIDE DEF n, m, p
  <2>1. QED
    BY <1>1, <1>2, Quotient
<1>4. Peri1xfreq(peri) \in Nat
  BY <1>1, <1>3, Quotient DEF Peri1xfreq
<1>5. QED
  BY <1>4 DEF Freq, Hoscfreq

(* div, its quotient, is between the card's rate at one more and at itself. *)
LEMMA DivIs ==
  ASSUME peri \in Peri, NEW hz \in Int, hz > 0
  PROVE  LET h == Freq(hz) \div 2 IN
         /\ h \in Nat /\ 2 * h <= Freq(hz) /\ Freq(hz) < 2 * (h + 1)
         /\ Div(hz) \in Nat /\ Div(hz) > 0
         /\ h < hz * (Div(hz) + 1)
         /\ Div(hz) = 1 \/ hz * Div(hz) <= h
<1> DEFINE h == Freq(hz) \div 2
           q == h \div hz
<1>1. h \in Nat /\ 2 * h <= Freq(hz) /\ Freq(hz) < 2 * (h + 1)
  BY FreqIs, Quotient
<1> HIDE DEF h
<1>2. q \in Nat /\ hz * q <= h /\ h < hz * (q + 1)
  BY <1>1, Quotient
<1>3. Div(hz) = AtLeast1(q)
  BY DEF Div, MmcPostdiv, h
<1> HIDE DEF q
<1>4. CASE q < 1
  <2>1. q = 0 /\ Div(hz) = 1
    BY <1>2, <1>3, <1>4 DEF AtLeast1
  <2>2. h < hz * (1 + 1)
    BY <1>1, <1>2, <2>1
  <2>3. QED
    BY <1>1, <2>1, <2>2 DEF h
<1>5. CASE ~(q < 1)
  <2>1. Div(hz) = q
    BY <1>3, <1>5 DEF AtLeast1
  <2>2. QED
    BY <1>1, <1>2, <1>5, <2>1 DEF h
<1>6. QED
  BY <1>4, <1>5

(* What CardRate says of any rate mmc0clock may be asked for. *)
LEMMA RateIs ==
  ASSUME peri \in Peri, NEW hz \in Int, hz >= 94, hz > 12000 => hz * 256 >= Freq(hz)
  PROVE  LET D == M(Div(hz)) * 2^P(Div(hz)) IN
         /\ Freq(hz) \div 2 < hz * (D + 1)
         /\ D = 1 \/ 16 * D * hz <= 9 * Freq(hz)
<1> DEFINE F == Freq(hz)
           h == F \div 2
           d == Div(hz)
           D == M(d) * 2^P(d)
<1>1. /\ h \in Nat /\ 2 * h <= F /\ F < 2 * (h + 1) /\ F \in Nat
      /\ d \in Nat /\ d > 0
      /\ h < hz * (d + 1)
      /\ d = 1 \/ hz * d <= h
  BY DivIs, FreqIs
<1>2. d <= 128
  <2>1. hz <= 12000 => F = 24000 /\ h = 12000
    BY DEF Freq, Hoscfreq, MmcPostdiv
  <2> HIDE DEF F, h, d
  <2>2. CASE hz <= 12000 /\ d > 128
    <3>1. 94 * d <= hz * d
      BY <1>1
    <3>2. QED
      BY <1>1, <2>1, <2>2, <3>1
  <2>3. CASE hz > 12000 /\ d > 128
    <3>1. hz * 129 <= hz * d
      BY <1>1, <2>3
    <3>2. hz * 256 >= F
      BY <2>3 DEF F
    <3>3. QED
      BY <1>1, <2>3, <3>1, <3>2
  <2>4. QED
    BY <1>1, <2>2, <2>3
<1> HIDE DEF F, h, d, D
<1>4. PICK r \in 0 .. 7 : D = d + r /\ 8 * r <= d
  <2>1. \A div \in Nat : div > 0 /\ div <= 128 =>
          \E r \in 0 .. 7 : M(div) * 2^P(div) = div + r /\ 8 * r <= div
    BY RoundsUp
  <2>2. QED
    BY <1>1, <1>2, <2>1 DEF D
<1>5. h < hz * (D + 1)
  <2>1. hz * (d + 1) <= hz * (D + 1)
    BY <1>1, <1>4
  <2>2. D \in Nat /\ hz * (d + 1) \in Nat /\ hz * (D + 1) \in Nat
    BY <1>1, <1>4
  <2>3. QED
    BY <1>1, <2>1, <2>2
<1>6. D = 1 \/ 16 * D * hz <= 9 * F
  <2>1. CASE d = 1
    BY <1>4, <2>1
  <2>2. CASE hz * d <= h
    <3> DEFINE X == hz * d
               Y == hz * r
    <3>1. 16 * D * hz = 16 * X + 16 * Y
      BY <1>1, <1>4
    <3>2. X \in Nat /\ Y \in Nat
      BY <1>1
    <3>3. 8 * Y <= X
      <4>1. hz * (8 * r) <= hz * d
        BY <1>1, <1>4
      <4>2. QED
        BY <4>1
    <3> HIDE DEF X, Y
    <3>4. X <= h
      BY <2>2 DEF X
    <3>5. QED
      BY <1>1, <3>1, <3>2, <3>3, <3>4
  <2>3. QED
    BY <1>1, <2>1, <2>2
<1>7. QED
  BY <1>5, <1>6 DEF F, h, d, D


-----------------------------------------------------------------------------
(* The invariant holds at the start. *)
LEMMA InitIInv == Init => IInv
<1> SUFFICES ASSUME Init PROVE IInv
  OBVIOUS
<1> USE DEF Init
<1>1. card = [on |-> FALSE, parent |-> 24000, m |-> 1, p |-> 0]
  BY DEF Hoscfreq
<1>2. TypeOK
  BY <1>1 DEF TypeOK
<1>3. CoreSteady /\ CpuOK /\ CardOK
  BY DEF CoreSteady, CpuOK, CardOK, Osc
<1>4. QED
  BY <1>2, <1>3 DEF IInv

(* mmc0clock: a divider its fields hold. *)
LEMMA CardClockKeeps ==
  ASSUME IInv, NEW hz \in Khz, CardClock(hz)
  PROVE  IInv'
<1>1. TypeOK /\ CoreSteady /\ CpuOK
  BY DEF IInv
<1>2. /\ pc = "idle" /\ pc' = "gate" /\ khz' = hz /\ hz > 0 /\ hz \in Int
      /\ card' = [on |-> FALSE, parent |-> Freq(hz), m |-> M(Div(hz)), p |-> P(Div(hz))]
      /\ UNCHANGED <<cpuvars, peri>>
  BY KhzAssumption DEF CardClock, At, Goes
<1>3. peri \in Peri /\ Freq(hz) \in Nat
  BY <1>1, <1>2, FreqIs DEF TypeOK
<1>4. Div(hz) \in Nat /\ Div(hz) > 0
  BY <1>2, <1>3, DivIs
<1>5. M(Div(hz)) \in 1 .. 16 /\ P(Div(hz)) \in 0 .. 3
  BY <1>4, MIs
<1>6. TypeOK' /\ CoreSteady' /\ CpuOK'
  BY <1>1, <1>2, <1>3, <1>5 DEF TypeOK, CoreSteady, CpuOK, cpuvars
<1>7. CardOK'
  <2>1. Freq(hz)' = Freq(hz) /\ Div(hz)' = Div(hz)
    BY <1>2 DEF Freq, Div
  <2>2. QED
    BY <1>2, <2>1 DEF CardOK
<1>8. QED
  BY <1>6, <1>7 DEF IInv

(* What leaves the card's clock and its parent alone, but for the gate. *)
LEMMA CardKept ==
  ASSUME CardOK, UNCHANGED <<khz, peri>>, khz > 0 \/ (~card'.on /\ pc' # "gate"),
         card'.parent = card.parent, card'.m = card.m, card'.p = card.p
  PROVE  CardOK'
<1>1. \A hz : Freq(hz)' = Freq(hz) /\ Div(hz)' = Div(hz)
  BY DEF Freq, Div
<1>2. QED
  BY <1>1 DEF CardOK

(* Every step keeps the invariant. *)
LEMMA StepIInv == IInv /\ [Next]_vars => IInv'
<1> SUFFICES ASSUME IInv, [Next]_vars PROVE IInv'
  OBVIOUS
<1> TypeOK /\ CoreSteady /\ CpuOK /\ CardOK
  BY DEF IInv
<1> USE DEF At, Goes
<1>1. ASSUME UNCHANGED <<peri, cardvars>>, pc' # "gate" \/ UNCHANGED pc
      PROVE  CardOK'
  <2>1. UNCHANGED <<khz, card, peri>>
    BY <1>1 DEF cardvars
  <2>2. QED
    BY <1>1, <2>1, CardKept DEF CardOK
<1>2. CASE UNCHANGED vars
  <2>1. UNCHANGED <<peri, cardvars, cpuvars, pc>>
    BY <1>2 DEF vars
  <2>2. QED
    BY <1>1, <2>1 DEF IInv, TypeOK, CoreSteady, CpuOK, cpuvars, cardvars
<1>3. ASSUME NEW v \in Mhz, CpuStart(v)
      PROVE  IInv'
  <2>1. TypeOK' /\ CoreSteady' /\ CpuOK'
    BY <1>3 DEF CpuStart, TypeOK, CoreSteady, CpuOK, cardvars
  <2>2. CardOK'
    BY <1>1, <1>3 DEF CpuStart
  <2>3. QED
    BY <2>1, <2>2 DEF IInv
<1>4. ASSUME CpuSetN \/ CpuLockLow \/ CpuLockHigh
      PROVE  IInv'
  <2>1. mux = "PllPeri" /\ mhz \div Osc \in 12 .. 255 /\ UNCHANGED <<mux, mhz>>
    BY <1>4 DEF CpuOK, CpuSetN, CpuLockLow, CpuLockHigh
  <2>2. Field(mhz \div Osc) \in 0 .. 255
    BY <2>1 DEF Field
  <2>3. TypeOK'
    <3>1. UNCHANGED <<mhz, core, mux, peri, khz, card>>
          /\ pc' \in {"lockLow", "lockHigh", "wait"}
      BY <1>4 DEF CpuSetN, CpuLockLow, CpuLockHigh, Goes, cardvars
    <3>2. nfield' \in 0 .. 255
      BY <1>4, <2>2 DEF CpuSetN, CpuLockLow, CpuLockHigh, TypeOK
    <3>3. lockEn' \in BOOLEAN /\ lock' \in BOOLEAN /\ settled' \in BOOLEAN
      <4>1. lockEn' \in {lockEn, TRUE, FALSE}
        BY <1>4 DEF CpuSetN, CpuLockLow, CpuLockHigh
      <4>2. lock' \in {lock, FALSE}
        BY <1>4 DEF CpuSetN, CpuLockLow, CpuLockHigh
      <4>3. settled' \in {settled, FALSE}
        BY <1>4 DEF CpuSetN, CpuLockLow, CpuLockHigh
      <4>4. QED
        BY <4>1, <4>2, <4>3 DEF TypeOK
    <3>4. QED
      BY <3>1, <3>2, <3>3 DEF TypeOK
  <2>4. CoreSteady' /\ CpuOK'
    BY <1>4, <2>1 DEF CpuSetN, CpuLockLow, CpuLockHigh, CoreSteady, CpuOK
  <2>5. CardOK'
    BY <1>1, <1>4 DEF CpuSetN, CpuLockLow, CpuLockHigh
  <2>6. QED
    BY <2>3, <2>4, <2>5 DEF IInv
<1>5. ASSUME CpuDone
      PROVE  IInv'
  <2>1. TypeOK' /\ CpuOK'
    BY <1>5 DEF CpuDone, TypeOK, CpuOK, cardvars
  <2>2. CoreSteady'
    <3>1. settled' /\ core' = mhz /\ nfield' = (mhz \div Osc) - 1
      BY <1>5 DEF CpuDone, CpuOK, Field
    <3>2. mhz \in Int
      BY MhzAssumption DEF TypeOK
    <3>3. mhz - 24 < 24 * (mhz \div 24) /\ 24 * (mhz \div 24) <= mhz
      BY <3>2
    <3>4. QED
      BY <3>1, <3>2, <3>3 DEF CoreSteady, Osc
  <2>3. CardOK'
    BY <1>1, <1>5 DEF CpuDone
  <2>4. QED
    BY <2>1, <2>2, <2>3 DEF IInv
<1>6. ASSUME Settle \/ Lock
      PROVE  IInv'
  <2>1. TypeOK'
    <3>1. CASE Settle
      BY <3>1 DEF Settle, TypeOK, cardvars
    <3>2. CASE Lock
      BY <3>2 DEF Lock, TypeOK, cardvars
    <3>3. QED
      BY <1>6, <3>1, <3>2
  <2>2. CoreSteady' /\ CpuOK'
    BY <1>6 DEF Settle, Lock, CoreSteady, CpuOK
  <2>3. CardOK'
    BY <1>1, <1>6 DEF Settle, Lock
  <2>4. QED
    BY <2>1, <2>2, <2>3 DEF IInv
<1>7. ASSUME CardGate
      PROVE  IInv'
  <2>1. card' = [card EXCEPT !.on = TRUE] /\ UNCHANGED <<khz, peri, cpuvars>>
        /\ pc = "gate" /\ pc' = "idle"
    BY <1>7 DEF CardGate
  <2>2. TypeOK' /\ CoreSteady' /\ CpuOK'
    <3>1. TypeOK'
      <4>1. card' \in [on : BOOLEAN, parent : Nat, m : 1 .. 16, p : 0 .. 3]
        BY <2>1 DEF TypeOK
      <4>2. UNCHANGED <<mhz, core, mux, nfield, lockEn, lock, settled, peri, khz>>
            /\ pc' = "idle"
        BY <2>1 DEF cpuvars
      <4>3. QED
        BY <4>1, <4>2 DEF TypeOK
    <3>2. CoreSteady'
      BY <2>1 DEF CoreSteady, cpuvars
    <3>3. CpuOK'
      BY <2>1 DEF CpuOK, cpuvars
    <3>4. QED
      BY <3>1, <3>2, <3>3
  <2>3. card'.parent = card.parent /\ card'.m = card.m /\ card'.p = card.p
    BY <2>1 DEF TypeOK
  <2>4. CardOK'
    BY <2>1, <2>3, CardKept DEF CardOK
  <2>5. QED
    BY <2>2, <2>4 DEF IInv
<1>8. QED
  BY <1>2, <1>3, <1>4, <1>5, <1>6, <1>7, CardClockKeeps DEF Next, CpuStep

(* So the invariant always holds. *)
LEMMA Invariance == Spec => []IInv
BY InitIInv, StepIInv, PTL DEF Spec

(* Ccu's variables have their types in every reachable state: N fits its     *)
(* eight bits and the card's M and P theirs, whatever is asked for (ccu.c).  *)
THEOREM TypeCorrect == Spec => []TypeOK
<1>1. IInv => TypeOK
  BY DEF IInv
<1>2. QED
  BY Invariance, <1>1, PTL

(* The core never runs from PLL_CPU while that moves, a stale lock bit or    *)
(* not, and never faster than asked (cpuclockinit).                          *)
THEOREM CoreSteadyHolds == Spec => []CoreSteady
<1>1. IInv => CoreSteady
  BY DEF IInv
<1>2. QED
  BY Invariance, <1>1, PTL

(* The card's divider is the nearest there is, for every rate from 94 kHz    *)
(* up and every setting of PLL_PERI (mmc0clock).                             *)
THEOREM CardRateHolds == Spec => []CardRate
<1>1. IInv => CardRate
  <2> SUFFICES ASSUME IInv, card.on, khz >= 94, khz > 12000 => khz * 256 >= card.parent
               PROVE  /\ card.parent \div 2 < khz * (Divider(card) + 1)
                      /\ Divider(card) = 1 \/ 16 * Divider(card) * khz <= 9 * card.parent
    BY DEF CardRate
  <2>1. peri \in Peri /\ khz \in Int
    BY KhzAssumption DEF IInv, TypeOK
  <2>2. card.parent = Freq(khz) /\ card.m = M(Div(khz)) /\ card.p = P(Div(khz))
    BY DEF IInv, CardOK
  <2>3. QED
    BY <2>1, <2>2, RateIs DEF Divider
<1>2. QED
  BY Invariance, <1>1, PTL
=============================================================================
