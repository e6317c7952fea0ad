------------------------------ MODULE SmhcProofs ------------------------------
(* Theorems about Smhc, for any sizes of the FIFO and of transfers, any      *)
(* limits and any width of m->ticks.                                         *)
EXTENDS Smhc, TLAPS

(* m->ticks is elapsed past now, or so past a wrap, and no loop goes on for  *)
(* long after its limit.                                                     *)
Since(n, t, e, l) == e <= l + 1 /\ (t = n + e \/ t = n + e - Wrap)

TicksOK == pc \in Poll => Since(now, ticks, elapsed, Limit)

(* What the driver is at, loop by loop. *)
LoopOK ==
  /\ pc \in {"idle", "busy", "resp", "r1b", "clkoff", "clkon"} => buf = <<>>
  /\ pc = "io" => Len(buf) < Words(cmd)
  /\ pc = "over" => Len(buf) = Words(cmd)
  /\ pc \in {"io", "over"} => cmd.data # 0
  /\ pc \in {"idle", "r1b", "clkoff", "clkon"} \/ cmd.busy => cmd.data = 0

(* The driver is at the transfer the controller makes. *)
Mine == pc \in {"resp", "io", "over"} /\ cmd.data # 0 /\ xfer # None /\ xfer.id = id

(* Words go from one side through the FIFO f to the other: the one has put   *)
(* a in, the other has taken z out, f holds those in between.                *)
Flow(a, z, f, i) ==
  /\ Len(a) = Len(z) + Len(f)
  /\ \A k \in 1 .. Len(a) : a[k] = <<i, k>>
  /\ \A k \in 1 .. Len(z) : z[k] = <<i, k>>
  /\ \A k \in 1 .. Len(f) : f[k] = <<i, Len(z) + k>>

MineOK ==
  /\ xfer.cmd = cmd
  /\ Len(xfer.took) <= Words(cmd)
  /\ xfer.phase \in {"stop", "done"} => Len(xfer.took) = Words(cmd)
  /\ xfer.phase = "failed" => "Interr" \in rint
  /\ IF Write(cmd) THEN Flow(buf, xfer.took, fifo, id) ELSE Flow(xfer.took, buf, fifo, id)

(* A transfer the driver has left: it has done its share, and the words of a *)
(* write that the card has not taken are in the FIFO.                        *)
Shared(t, f, n) == Len(t) + Len(f) = n

LeftOK ==
  /\ xfer.phase # "failed"
  /\ Shared(xfer.took, fifo, Words(xfer.cmd))
  /\ (xfer.phase = "data" /\ Write(xfer.cmd)) \/ fifo = <<>>
  /\ xfer.id = id \/ (pc = "resp" /\ cmd.data # 0)

XferOK ==
  /\ xfer = None => fifo = <<>>
  /\ Mine => MineOK
  /\ xfer # None /\ ~Mine => LeftOK

(* Which command is out, and what its answer says. *)
PendOK ==
  /\ \/ pend = None
     \/ pc = "resp" /\ pend = cmd /\ ~Mine
     \/ pc \in {"clkoff", "clkon"} /\ pend = Upclkonly
  /\ pc \in {"io", "over"} => pend = None /\ Mine
  /\ pc = "resp" /\ "Commanddone" \in rint => pend = None /\ (cmd.data # 0 => Mine)

(* With no transfer under way when the command was given, what says that one *)
(* is over means the command's own.                                          *)
OverOK ==
  ~old /\ pc \in {"resp", "io", "over"} =>
    /\ xfer # None => Mine
    /\ {"Dataover", "Autocmddone"} \intersect rint # {} =>
         /\ Mine /\ Len(xfer.took) = Words(cmd)
         /\ xfer.phase \in {"stop", "done", "failed"}

Shape == TypeOK /\ TicksOK /\ LoopOK
Sound == XferOK /\ PendOK /\ OverOK

IInv == Shape /\ (~failed => Sound)

-----------------------------------------------------------------------------
(* The constants. *)

(* A transfer has at least one word and no more than a multiblock one. *)
LEMMA WordsIs ==
  ASSUME NEW c
  PROVE  Words(c) \in Nat /\ Words(c) >= 1 /\ Words(c) <= Multi /\ Multi \in Nat
BY SizeAssumption DEF Words

(* The tick counter holds more than twice the longest wait. *)
LEMMA WrapIs ==
  /\ Wrap \in Nat /\ DataWait \in Nat /\ 2 * (DataWait + 1) < Wrap
  /\ Starts \subseteq 0 .. Wrap - 1
BY WaitAssumption, WrapAssumption

(* Every loop's limit is within the longest. *)
LEMMA LimitIs == Limit \in Nat /\ Limit <= DataWait
BY WaitAssumption DEF Limit

(* One subtraction or addition of ticks, as the counter wraps. *)
LEMMA Modulo ==
  ASSUME NEW a \in Int
  PROVE  /\ a \in 0 .. Wrap - 1 => a % Wrap = a
         /\ a = Wrap => a % Wrap = 0
         /\ a < 0 /\ a >= 0 - Wrap => a % Wrap = a + Wrap
<1>1. Wrap \in Nat /\ Wrap > 0
  BY WrapIs
<1>2. a \in 0 .. Wrap - 1 => a % Wrap = a
  BY <1>1
<1>3. a = Wrap => a % Wrap = 0
  BY <1>1
<1>4. a < 0 /\ a >= 0 - Wrap => a % Wrap = a + Wrap
  BY <1>1
<1>5. QED
  BY <1>2, <1>3, <1>4

(* A command is not the clock's update. *)
LEMMA CommandIs ==
  ASSUME NEW c \in Command
  PROVE  c.data \in Data /\ c.busy \in BOOLEAN /\ c \notin {Upclkonly, None}
BY ValueAssumption DEF Command

(* The command that stands for none has no data and no busy. *)
LEMMA NocmdIs == Nocmd \in Command /\ Nocmd.data = 0 /\ ~Nocmd.busy
BY DataAssumption DEF Nocmd, Command

-----------------------------------------------------------------------------
(* The invariant holds at the start. *)
LEMMA InitIInv == Init => IInv
<1> SUFFICES ASSUME Init PROVE IInv
  OBVIOUS
<1>1. TypeOK
  <2>1. 0 \in 0 .. Wrap - 1 /\ 0 \in 0 .. DataWait + 1 /\ 0 <= Fifo
    BY WrapIs, SizeAssumption
  <2>2. <<>> \in Seq(Word) /\ Len(<<>>) = 0
    OBVIOUS
  <2>3. cmd \in Command /\ pend \in Command \union {Upclkonly, None}
    BY NocmdIs DEF Init
  <2>4. now \in 0 .. Wrap - 1 /\ ticks \in 0 .. Wrap - 1 /\ elapsed \in 0 .. DataWait + 1
    BY <2>1 DEF Init
  <2>5. buf \in Seq(Word) /\ fifo \in Seq(Word) /\ Len(fifo) <= Fifo
    BY <2>1, <2>2 DEF Init
  <2>6. pc = "idle" /\ rint = {} /\ xfer = None /\ id \in 0 .. 1
    BY DEF Init
  <2>7. busy \in BOOLEAN /\ old \in BOOLEAN /\ failed \in BOOLEAN
    BY Zenon DEF Init
  <2>8. QED
    BY <2>3, <2>4, <2>5, <2>6, <2>7 DEF TypeOK
<1>2. TicksOK /\ LoopOK
  BY NocmdIs DEF Init, TicksOK, LoopOK, Poll
<1>3. XferOK /\ PendOK /\ OverOK
  BY DEF Init, XferOK, PendOK, OverOK, Mine
<1>4. QED
  BY <1>1, <1>2, <1>3 DEF IInv, Shape, Sound

(* A loop begins with all its time. *)
LEMMA LoopKeeps ==
  ASSUME NEW c \in Poll, Loop(c)
  PROVE  /\ TicksOK' /\ pc' = c /\ elapsed' \in 0 .. DataWait + 1
         /\ now' \in 0 .. Wrap - 1 /\ ticks' \in 0 .. Wrap - 1
<1>1. pc' = c /\ now' \in Starts /\ ticks' = now' /\ elapsed' = 0
  BY DEF Loop
<1>2. Limit' \in Nat
  BY WaitAssumption DEF Limit
<1>3. TicksOK'
  <2>1. \A n, l \in Nat : Since(n, n, 0, l)
    BY DEF Since
  <2>2. now' \in Nat
    BY <1>1, WrapIs
  <2>3. Since(now', ticks', elapsed', Limit')
    BY <1>1, <1>2, <2>1, <2>2
  <2>4. QED
    BY <2>3 DEF TicksOK
<1>4. QED
  BY <1>1, <1>3, WrapIs

(* Return starts no loop: its time, command and buffer are those of an idle driver. *)
LEMMA ReturnKeeps ==
  ASSUME Shape, Return
  PROVE  /\ TicksOK' /\ LoopOK' /\ pc' = "idle"
         /\ rint' \subseteq Flag /\ UNCHANGED <<busy, fifo>> /\ failed' \in BOOLEAN => TypeOK'
<1>1. /\ pc' = "idle" /\ cmd' = Nocmd /\ buf' = <<>> /\ now' = 0 /\ ticks' = 0 /\ elapsed' = 0
      /\ old' = FALSE /\ (xfer' = xfer \/ xfer' = None) /\ UNCHANGED <<pend, id>>
  BY DEF Return
<1>2. TicksOK' /\ LoopOK'
  BY <1>1, NocmdIs DEF TicksOK, LoopOK, Poll
<1>3. ASSUME rint' \subseteq Flag, UNCHANGED <<busy, fifo>>, failed' \in BOOLEAN
      PROVE  TypeOK'
  <2>1. now' \in 0 .. Wrap - 1 /\ ticks' \in 0 .. Wrap - 1 /\ elapsed' \in 0 .. DataWait + 1
    BY <1>1, WrapIs
  <2>2. buf' \in Seq(Word) /\ cmd' \in Command /\ old' \in BOOLEAN
    <3>1. buf' \in Seq(Word)
      BY <1>1
    <3>2. cmd' \in Command
      BY <1>1, NocmdIs
    <3>3. old' \in BOOLEAN
      BY <1>1
    <3>4. QED
      BY <3>1, <3>2, <3>3
  <2>3. xfer' = None \/ xfer' \in Transfer
    BY <1>1 DEF Shape, TypeOK, Transfer
  <2>4. QED
    BY <1>1, <1>3, <2>1, <2>2, <2>3 DEF Shape, TypeOK, Transfer
<1>4. QED
  BY <1>1, <1>2, <1>3


(* A word that smhcio moves is one of those it is to move. *)
LEMMA MovedKeeps ==
  ASSUME Shape, pc = "io", NEW w \in Word, buf' = Append(buf, w), UNCHANGED cmd,
         Moved(Len(buf) + 1)
  PROVE  /\ TicksOK' /\ LoopOK' /\ pc' \in {"io", "over"} /\ elapsed' \in 0 .. DataWait + 1
         /\ now' \in 0 .. Wrap - 1 /\ ticks' \in 0 .. Wrap - 1
         /\ buf' \in Seq(Word) /\ Len(buf') = Len(buf) + 1
<1>1. TypeOK /\ TicksOK /\ LoopOK
  BY DEF Shape
<1>2. buf \in Seq(Word) /\ Len(buf) < Words(cmd) /\ cmd.data # 0 /\ ~cmd.busy
  BY <1>1 DEF TypeOK, LoopOK
<1>3. buf' \in Seq(Word) /\ Len(buf') = Len(buf) + 1
  BY <1>2
<1>4. CASE Len(buf) + 1 = Words(cmd)
  <2>1. Loop("over")
    BY <1>4 DEF Moved
  <2>2. "over" \in Poll
    BY DEF Poll
  <2>3. /\ TicksOK' /\ pc' = "over" /\ elapsed' \in 0 .. DataWait + 1
        /\ now' \in 0 .. Wrap - 1 /\ ticks' \in 0 .. Wrap - 1
    BY <2>1, <2>2, LoopKeeps
  <2>4. LoopOK'
    BY <1>2, <1>3, <1>4, <2>3 DEF LoopOK
  <2>5. QED
    BY <1>3, <2>3, <2>4
<1>5. CASE Len(buf) + 1 # Words(cmd)
  <2>1. UNCHANGED <<pc, now, ticks, elapsed>>
    BY <1>5 DEF Moved
  <2>2. TicksOK'
    BY <1>1, <2>1 DEF TicksOK, Limit
  <2>3. Words(cmd) \in Nat /\ Words(cmd)' = Words(cmd)
    BY WordsIs DEF Words
  <2>4. Len(buf) + 1 < Words(cmd)
    BY <1>2, <1>5, <2>3
  <2>5. LoopOK'
    BY <1>2, <1>3, <2>1, <2>3, <2>4 DEF LoopOK
  <2>6. QED
    BY <1>1, <1>3, <2>1, <2>2, <2>5 DEF TypeOK
<1>6. QED
  BY <1>4, <1>5

(* What the hardware does leaves the driver where it is. *)
LEMMA DriverKept ==
  ASSUME Shape, UNCHANGED <<driver, ticks, elapsed>>
  PROVE  TicksOK' /\ LoopOK'
<1>1. TicksOK /\ LoopOK /\ UNCHANGED <<pc, cmd, now, buf, ticks, elapsed>>
  BY DEF Shape, driver
<1>2. QED
  BY <1>1 DEF TicksOK, LoopOK, Limit, Words

(* A tick keeps the shape. *)
LEMMA TickKeeps == Shape /\ Tick => Shape'
<1> SUFFICES ASSUME Shape, Tick PROVE Shape'
  OBVIOUS
<1>1. /\ TypeOK /\ TicksOK /\ LoopOK /\ pc \in Poll /\ elapsed <= Limit
      /\ ticks' = (ticks + 1) % Wrap /\ elapsed' = elapsed + 1
      /\ UNCHANGED <<pc, cmd, now, buf, rint, busy, fifo, pend, xfer, id, old, failed>>
  BY DEF Shape, Tick, driver, regs, ctlr
<1>2. now \in 0 .. Wrap - 1 /\ ticks \in 0 .. Wrap - 1 /\ elapsed \in Nat
  BY <1>1, WrapIs DEF TypeOK
<1>3. Limit \in Nat /\ Limit <= DataWait /\ DataWait \in Nat
  BY LimitIs, WrapIs
<1>4. Since(now, ticks, elapsed, Limit)
  BY <1>1 DEF TicksOK
<1>5. Since(now, (ticks + 1) % Wrap, elapsed + 1, Limit) /\ (ticks + 1) % Wrap \in 0 .. Wrap - 1
  <2>1. CASE ticks + 1 < Wrap
    <3>1. (ticks + 1) % Wrap = ticks + 1 /\ ticks + 1 \in 0 .. Wrap - 1
      BY <1>2, <2>1, Modulo, WrapIs
    <3>2. QED
      BY <1>1, <1>2, <1>3, <1>4, <3>1, WrapIs DEF Since
  <2>2. CASE ticks + 1 = Wrap
    <3>1. (ticks + 1) % Wrap = 0
      BY <1>2, <2>2, Modulo
    <3>2. ticks = now + elapsed
      BY <1>2, <1>3, <1>4, <1>1, <2>2, WrapIs DEF Since
    <3>3. QED
      BY <1>1, <1>2, <1>3, <2>2, <3>1, <3>2, WrapIs DEF Since
  <2>3. QED
    BY <1>2, <2>1, <2>2, WrapIs
<1>6. Limit' = Limit
  BY <1>1 DEF Limit
<1>7. TicksOK'
  BY <1>1, <1>5, <1>6 DEF TicksOK
<1>8. elapsed + 1 \in 0 .. DataWait + 1
  BY <1>1, <1>2, <1>3
<1>9. TypeOK'
  BY <1>1, <1>5, <1>8 DEF TypeOK
<1>10. LoopOK'
  BY <1>1 DEF LoopOK, Words
<1>11. QED
  BY <1>7, <1>9, <1>10 DEF Shape

(* Every step of the controller and the card keeps the shape. *)
LEMMA HardwareShape == Shape /\ Hardware => Shape'
<1> SUFFICES ASSUME Shape, Hardware PROVE Shape'
  OBVIOUS
<1>1. UNCHANGED <<driver, ticks, elapsed, id, old>>
  BY DEF Hardware, Answer, NoAnswer, CardWord, DataOver, AutoStop, TransferFails,
         Programmed, ClockUpdated, ctlr
<1>2. TicksOK' /\ LoopOK'
  BY <1>1, DriverKept
<1>3. TypeOK /\ UNCHANGED <<pc, cmd, now, buf, ticks, elapsed, id, old>>
  BY <1>1 DEF Shape, driver
<1>4. xfer = None \/ xfer \in Transfer
  BY <1>3 DEF TypeOK
<1>5. CASE Answer
  <2>1. pend \in Command /\ <<>> \in Seq(Word)
    BY <1>5 DEF Answer
  <2>2. pend.busy \in BOOLEAN /\ id \in 0 .. 1 /\ busy \in BOOLEAN
    BY <1>3, <2>1, CommandIs DEF TypeOK
  <2>3. [cmd |-> pend, id |-> id, took |-> <<>>, phase |-> "data"] \in Transfer
    BY <2>1, <2>2 DEF Transfer
  <2>4. xfer' = None \/ xfer' \in Transfer
    BY <1>4, <1>5, <2>3 DEF Answer
  <2>5. busy' \in BOOLEAN
    BY <1>5, <2>2 DEF Answer
  <2>6. rint' \subseteq Flag /\ pend' = None /\ UNCHANGED <<fifo, failed>>
    BY <1>3, <1>5 DEF Answer, Raise, TypeOK, Flag
  <2>7. TypeOK'
    BY <1>3, <2>4, <2>5, <2>6 DEF TypeOK
  <2>8. QED
    BY <1>2, <2>7 DEF Shape
<1>6. CASE NoAnswer \/ Programmed \/ ClockUpdated
  <2>1. rint' \subseteq Flag /\ pend' \in {pend, None} /\ UNCHANGED <<fifo, failed, xfer>>
    BY <1>3, <1>6 DEF NoAnswer, Programmed, ClockUpdated, Raise, TypeOK, Flag, ctlr
  <2>2. busy' \in BOOLEAN
    BY <1>3, <1>6 DEF NoAnswer, Programmed, ClockUpdated, TypeOK
  <2>3. TypeOK'
    BY <1>3, <2>1, <2>2 DEF TypeOK
  <2>4. QED
    BY <1>2, <2>3 DEF Shape
<1>7. CASE CardWord
  <2>1. xfer \in Transfer /\ Len(xfer.took) < Words(xfer.cmd)
    BY <1>4, <1>7 DEF CardWord, InPhase
  <2>2. xfer.took \in Seq(Word) /\ fifo \in Seq(Word) /\ xfer.id \in 0 .. 1 /\ Len(fifo) <= Fifo
    BY <1>3, <2>1 DEF Transfer, TypeOK
  <2>3. PICK w \in Word :
          /\ xfer' = [xfer EXCEPT !.took = Append(@, w)]
          /\ \/ fifo # <<>> /\ fifo' = Tail(fifo)
             \/ Len(fifo) < Fifo /\ fifo' = Append(fifo, w)
    <3>1. CASE Write(xfer.cmd)
      <4>1. fifo # <<>> => Head(fifo) \in Word
        BY <2>2
      <4>2. QED
        BY <1>7, <3>1, <4>1 DEF CardWord
    <3>2. CASE ~Write(xfer.cmd)
      <4>1. Len(xfer.took) + 1 \in 1 .. Multi
        BY <2>1, <2>2, WordsIs
      <4>2. <<xfer.id, Len(xfer.took) + 1>> \in Word
        BY <2>2, <4>1 DEF Word
      <4>3. QED
        BY <1>7, <3>2, <4>2 DEF CardWord
    <3>3. QED
      BY <3>1, <3>2
  <2>4. xfer' \in Transfer
    <3>1. Append(xfer.took, w) \in Seq(Word)
      BY <2>2, <2>3
    <3>2. QED
      BY <2>1, <2>3, <3>1 DEF Transfer
  <2>5. fifo' \in Seq(Word) /\ Len(fifo') <= Fifo
    <3>1. Fifo \in Nat
      BY SizeAssumption
    <3>2. fifo # <<>> => Tail(fifo) \in Seq(Word) /\ Len(Tail(fifo)) <= Fifo
      BY <2>2, <3>1
    <3>3. Len(fifo) < Fifo => Append(fifo, w) \in Seq(Word) /\ Len(Append(fifo, w)) <= Fifo
      BY <2>2, <2>3, <3>1
    <3>4. QED
      BY <2>3, <3>2, <3>3
  <2>6. UNCHANGED <<rint, busy, pend, failed>>
    BY <1>7 DEF CardWord
  <2>7. TypeOK'
    BY <1>3, <2>4, <2>5, <2>6 DEF TypeOK
  <2>8. QED
    BY <1>2, <2>7 DEF Shape
<1>8. CASE DataOver \/ AutoStop \/ TransferFails
  <2>1. xfer \in Transfer
    BY <1>4, <1>8 DEF DataOver, AutoStop, TransferFails, Underway, InPhase
  <2>2. xfer' \in Transfer
    BY <1>8, <2>1 DEF DataOver, AutoStop, TransferFails, Transfer
  <2>3. rint' \subseteq Flag /\ UNCHANGED <<fifo, pend>>
    BY <1>3, <1>8 DEF DataOver, AutoStop, TransferFails, Raise, TypeOK, Flag
  <2>4. busy' \in BOOLEAN
    <3>1. Write(xfer.cmd) \in BOOLEAN
      BY DEF Write
    <3>2. QED
      BY <1>3, <1>8, <3>1 DEF DataOver, AutoStop, TransferFails, TypeOK
  <2>5. failed' \in BOOLEAN
    BY <1>3, <1>8 DEF DataOver, AutoStop, TransferFails, TypeOK
  <2>6. TypeOK'
    BY <1>3, <2>2, <2>3, <2>4, <2>5 DEF TypeOK
  <2>7. QED
    BY <1>2, <2>6 DEF Shape
<1>9. QED
  BY <1>5, <1>6, <1>7, <1>8 DEF Hardware


(* A loop of smhccmd, or of smhcclock, has moved no word yet. *)
LEMMA CommandShape ==
  ASSUME Shape, NEW c \in {"busy", "resp", "r1b", "clkoff", "clkon"}, Loop(c),
         cmd' \in Command, buf = <<>>, UNCHANGED <<buf, busy, fifo>>,
         c \in {"r1b", "clkoff", "clkon"} \/ cmd'.busy => cmd'.data = 0,
         rint' \subseteq Flag, pend' \in Command \union {Upclkonly, None},
         xfer' \in {xfer, None}, id' \in 0 .. 1, old' \in BOOLEAN, failed' \in BOOLEAN
  PROVE  Shape'
<1>1. TypeOK
  BY DEF Shape
<1>2. c \in Poll
  BY DEF Poll
<1>3. /\ TicksOK' /\ pc' = c /\ elapsed' \in 0 .. DataWait + 1
      /\ now' \in 0 .. Wrap - 1 /\ ticks' \in 0 .. Wrap - 1
  BY <1>2, LoopKeeps
<1>4. LoopOK'
  BY <1>3 DEF LoopOK
<1>5. xfer' = None \/ xfer' \in Transfer
  BY <1>1 DEF TypeOK
<1>6. TypeOK'
  BY <1>1, <1>2, <1>3, <1>5 DEF TypeOK
<1>7. QED
  BY <1>3, <1>4, <1>6 DEF Shape

(* Every step of the driver keeps the shape. *)
LEMMA DriverShape ==
  ASSUME Shape,
         DriverStep \/ Smhcclock \/ (\E c \in Command : (c.busy => c.data = 0) /\ Smhccmd(c))
  PROVE  Shape'
<1>1. TypeOK /\ TicksOK /\ LoopOK
  BY DEF Shape
<1>2. cmd \in Command /\ rint \subseteq Flag /\ id \in 0 .. 1 /\ busy \in BOOLEAN
      /\ old \in BOOLEAN /\ failed \in BOOLEAN /\ pend \in Command \union {Upclkonly, None}
  BY <1>1 DEF TypeOK
<1>3. ASSUME NEW c \in Command, c.busy => c.data = 0, Smhccmd(c)
      PROVE  Shape'
  <2>1. /\ pc = "idle" /\ cmd' = c /\ Loop("busy")
        /\ UNCHANGED <<buf, rint, busy, fifo, pend, xfer, id, old, failed>>
    BY <1>3 DEF Smhccmd, regs, ctlr
  <2>2. buf = <<>>
    BY <1>1, <2>1 DEF LoopOK
  <2>3. QED
    BY <1>2, <1>3, <2>1, <2>2, CommandShape
<1>4. CASE Smhcclock
  <2>1. /\ pc = "idle" /\ pend' = Upclkonly /\ Loop("clkoff")
        /\ UNCHANGED <<cmd, buf, rint, busy, fifo, xfer, id, old, failed>>
    BY <1>4 DEF Smhcclock, regs
  <2>2. buf = <<>> /\ cmd.data = 0
    BY <1>1, <2>1 DEF LoopOK
  <2>3. QED
    BY <1>2, <2>1, <2>2, CommandShape
<1>5. CASE Issue
  <2>1. /\ pc = "busy" /\ rint' = {} /\ pend' = cmd /\ Loop("resp")
        /\ UNCHANGED <<cmd, buf, busy, fifo, failed>> /\ xfer' \in {xfer, None}
        /\ id' = IF cmd.data = 0 THEN id ELSE 1 - id
    BY <1>5 DEF Issue
  <2>2. old' \in BOOLEAN
    BY <1>5 DEF Issue, Underway, InPhase
  <2>3. id' \in 0 .. 1
    BY <1>2, <2>1
  <2>4. buf = <<>> /\ (cmd.busy => cmd.data = 0)
    BY <1>1, <2>1 DEF LoopOK
  <2>5. QED
    BY <1>2, <2>1, <2>2, <2>3, <2>4, CommandShape
<1>6. CASE Response /\ cmd.busy
  <2>1. /\ pc = "resp" /\ Loop("r1b")
        /\ UNCHANGED <<cmd, buf, old, rint, busy, fifo, pend, xfer, id, failed>>
    BY <1>6 DEF Response, regs, ctlr
  <2>2. buf = <<>> /\ cmd.data = 0
    BY <1>1, <1>6, <2>1 DEF LoopOK
  <2>3. QED
    BY <1>2, <2>1, <2>2, CommandShape
<1>7. CASE Response /\ ~cmd.busy /\ cmd.data # 0
  <2>1. /\ pc = "resp" /\ Loop("io")
        /\ UNCHANGED <<cmd, buf, old, rint, busy, fifo, pend, xfer, id, failed>>
    BY <1>7 DEF Response, regs, ctlr
  <2>2. "io" \in Poll
    BY DEF Poll
  <2>3. /\ TicksOK' /\ pc' = "io" /\ elapsed' \in 0 .. DataWait + 1
        /\ now' \in 0 .. Wrap - 1 /\ ticks' \in 0 .. Wrap - 1
    BY <2>1, <2>2, LoopKeeps
  <2>4. buf = <<>> /\ Len(buf) < Words(cmd)
    <3>1. buf = <<>>
      BY <1>1, <2>1 DEF LoopOK
    <3>2. Words(cmd) \in Nat /\ Words(cmd) >= 1
      BY WordsIs
    <3>3. QED
      BY <3>1, <3>2
  <2>5. LoopOK'
    BY <1>7, <2>1, <2>3, <2>4 DEF LoopOK, Words
  <2>6. TypeOK'
    BY <1>1, <2>1, <2>2, <2>3 DEF TypeOK
  <2>7. QED
    BY <2>3, <2>5, <2>6 DEF Shape
<1>8. ASSUME Done \/ Error
      PROVE  Shape'
  <2>1. Return /\ UNCHANGED <<rint, busy, fifo>>
    BY <1>8 DEF Done, Error, regs
  <2>2. failed' \in BOOLEAN
    BY <1>2, <1>8 DEF Done, Error, InPhase
  <2>3. QED
    BY <1>2, <2>1, <2>2, ReturnKeeps DEF Shape
<1>9. ASSUME PutWord \/ GetWord
      PROVE  Shape'
  <2>1. /\ pc = "io" /\ Moved(Len(buf) + 1)
        /\ UNCHANGED <<cmd, rint, busy, pend, xfer, id, old, failed>>
    BY <1>9 DEF PutWord, GetWord, ctlr
  <2>2. buf \in Seq(Word) /\ fifo \in Seq(Word) /\ Len(fifo) <= Fifo /\ Fifo \in Nat
    BY <1>1, SizeAssumption DEF TypeOK
  <2>3. PICK w \in Word : /\ buf' = Append(buf, w)
                          /\ \/ Len(fifo) < Fifo /\ fifo' = Append(fifo, w)
                             \/ fifo # <<>> /\ fifo' = Tail(fifo)
    <3>1. CASE PutWord
      <4>1. Len(buf) < Words(cmd) /\ Words(cmd) \in Nat /\ Words(cmd) <= Multi /\ Multi \in Nat
        BY <1>1, <2>1, WordsIs DEF LoopOK
      <4>2. Len(buf) + 1 \in 1 .. Multi
        BY <2>2, <4>1
      <4>3. <<id, Len(buf) + 1>> \in Word
        BY <1>2, <4>2 DEF Word
      <4>4. QED
        BY <3>1, <4>3 DEF PutWord
    <3>2. CASE GetWord
      <4>1. fifo # <<>> /\ Head(fifo) \in Word
        BY <2>2, <3>2 DEF GetWord
      <4>2. QED
        BY <3>2, <4>1 DEF GetWord
    <3>3. QED
      BY <1>9, <3>1, <3>2
  <2>4. fifo' \in Seq(Word) /\ Len(fifo') <= Fifo
    <3>1. fifo # <<>> => Tail(fifo) \in Seq(Word) /\ Len(Tail(fifo)) <= Fifo
      BY <2>2
    <3>2. Len(fifo) < Fifo => Append(fifo, w) \in Seq(Word) /\ Len(Append(fifo, w)) <= Fifo
      BY <2>2, <2>3
    <3>3. QED
      BY <2>3, <3>1, <3>2
  <2>5. /\ TicksOK' /\ LoopOK' /\ pc' \in {"io", "over"} /\ elapsed' \in 0 .. DataWait + 1
        /\ now' \in 0 .. Wrap - 1 /\ ticks' \in 0 .. Wrap - 1
        /\ buf' \in Seq(Word)
    BY <2>1, <2>3, MovedKeeps
  <2>6. TypeOK'
    BY <1>1, <2>1, <2>4, <2>5 DEF TypeOK, Poll
  <2>7. QED
    BY <2>5, <2>6 DEF Shape
<1>10. CASE Updated
  <2>1. /\ pc \in {"clkoff", "clkon"} /\ rint' \in {rint, {}} /\ UNCHANGED <<busy, fifo>>
        /\ failed' = (failed \/ pend # None)
    BY <1>10 DEF Updated
  <2>2. rint' \subseteq Flag /\ failed' \in BOOLEAN
    BY <1>2, <2>1
  <2>3. CASE pc = "clkoff"
    <3>1. pend' = Upclkonly /\ Loop("clkon") /\ UNCHANGED <<cmd, buf, old, xfer, id>>
      BY <1>10, <2>3 DEF Updated
    <3>2. buf = <<>> /\ cmd.data = 0
      BY <1>1, <2>3 DEF LoopOK
    <3>3. QED
      BY <1>2, <2>1, <2>2, <3>1, <3>2, CommandShape
  <2>4. CASE pc = "clkon"
    <3>1. Return
      BY <1>10, <2>4 DEF Updated
    <3>2. QED
      BY <2>1, <2>2, <3>1, ReturnKeeps DEF Shape
  <2>5. QED
    BY <2>1, <2>3, <2>4
<1>11. Response => \/ cmd.busy \/ cmd.data # 0 \/ Done
  BY DEF Response
<1>12. NotBusy \/ Over => Done
  BY DEF NotBusy, Over
<1>13. Flagged \/ Timeout => Error
  BY DEF Flagged, Timeout
<1>14. QED
  BY <1>3, <1>4, <1>5, <1>6, <1>7, <1>8, <1>9, <1>10, <1>11, <1>12, <1>13 DEF DriverStep


-----------------------------------------------------------------------------
(* The FIFO. *)

(* A transfer that has moved nothing is in order. *)
LEMMA FlowEmpty == ASSUME NEW i PROVE Flow(<<>>, <<>>, <<>>, i)
BY DEF Flow

(* The word put in is the next of the transfer ... *)
LEMMA FlowIn ==
  ASSUME NEW a \in Seq(Word), NEW z \in Seq(Word), NEW f \in Seq(Word), NEW i \in 0 .. 1,
         Flow(a, z, f, i), NEW w \in Word, w = <<i, Len(a) + 1>>
  PROVE  Flow(Append(a, w), z, Append(f, w), i)
<1>1. /\ Len(Append(a, w)) = Len(a) + 1 /\ Len(Append(f, w)) = Len(f) + 1
      /\ Len(a) \in Nat /\ Len(z) \in Nat /\ Len(f) \in Nat
  OBVIOUS
<1>2. Len(a) = Len(z) + Len(f)
  BY DEF Flow
<1>3. \A k \in 1 .. Len(a) + 1 : Append(a, w)[k] = <<i, k>>
  <2>1. \A k \in 1 .. Len(a) : Append(a, w)[k] = a[k]
    OBVIOUS
  <2>2. Append(a, w)[Len(a) + 1] = w
    OBVIOUS
  <2>3. QED
    BY <1>1, <2>1, <2>2 DEF Flow
<1>4. \A k \in 1 .. Len(f) + 1 : Append(f, w)[k] = <<i, Len(z) + k>>
  <2>1. \A k \in 1 .. Len(f) : Append(f, w)[k] = f[k]
    OBVIOUS
  <2>2. Append(f, w)[Len(f) + 1] = w
    OBVIOUS
  <2>3. Len(a) + 1 = Len(z) + (Len(f) + 1)
    BY <1>1, <1>2
  <2>4. QED
    <3>1. \A k \in 1 .. Len(f) + 1 : k \in 1 .. Len(f) \/ k = Len(f) + 1
      BY <1>1
    <3>2. \A k \in 1 .. Len(f) : f[k] = <<i, Len(z) + k>>
      BY DEF Flow
    <3>3. Append(f, w)[Len(f) + 1] = <<i, Len(z) + (Len(f) + 1)>>
      BY <2>2, <2>3
    <3>4. QED
      BY <2>1, <3>1, <3>2, <3>3
<1>5. Len(a) + 1 = Len(z) + (Len(f) + 1) /\ \A k \in 1 .. Len(z) : z[k] = <<i, k>>
  BY <1>1, <1>2 DEF Flow
<1>6. QED
  BY <1>1, <1>3, <1>4, <1>5 DEF Flow

(* ... and so is the word taken out. *)
LEMMA FlowOut ==
  ASSUME NEW a \in Seq(Word), NEW z \in Seq(Word), NEW f \in Seq(Word), NEW i \in 0 .. 1,
         Flow(a, z, f, i), f # <<>>
  PROVE  Flow(a, Append(z, Head(f)), Tail(f), i) /\ Len(z) < Len(a)
<1>1. /\ Head(f) \in Word /\ Head(f) = f[1] /\ Tail(f) \in Seq(Word)
      /\ Len(f) \in Nat /\ Len(f) >= 1 /\ Len(Tail(f)) = Len(f) - 1
      /\ Len(a) \in Nat /\ Len(z) \in Nat
  OBVIOUS
<1>2. Len(Append(z, Head(f))) = Len(z) + 1
  BY <1>1
<1>3. Len(a) = Len(z) + Len(f)
  BY DEF Flow
<1>4. Head(f) = <<i, Len(z) + 1>>
  BY <1>1 DEF Flow
<1>5. \A k \in 1 .. Len(z) + 1 : Append(z, Head(f))[k] = <<i, k>>
  <2>1. \A k \in 1 .. Len(z) : Append(z, Head(f))[k] = z[k]
    BY <1>1
  <2>2. Append(z, Head(f))[Len(z) + 1] = Head(f)
    BY <1>1
  <2>3. QED
    BY <1>1, <1>4, <2>1, <2>2 DEF Flow
<1>6. \A k \in 1 .. Len(f) - 1 : Tail(f)[k] = <<i, (Len(z) + 1) + k>>
  <2> SUFFICES ASSUME NEW k \in 1 .. Len(f) - 1 PROVE Tail(f)[k] = <<i, (Len(z) + 1) + k>>
    OBVIOUS
  <2>1. Tail(f)[k] = f[k + 1]
    BY <1>1
  <2>2. k + 1 \in 1 .. Len(f) /\ Len(z) + (k + 1) = (Len(z) + 1) + k
    BY <1>1
  <2>3. QED
    BY <2>1, <2>2 DEF Flow
<1>7. Len(a) = (Len(z) + 1) + (Len(f) - 1) /\ Len(z) < Len(a)
  BY <1>1, <1>3
<1>8. \A k \in 1 .. Len(a) : a[k] = <<i, k>>
  BY DEF Flow
<1>9. QED
  BY <1>1, <1>2, <1>5, <1>6, <1>7, <1>8 DEF Flow

(* What the driver left the card takes. *)
LEMMA SharedOut ==
  ASSUME NEW t \in Seq(Word), NEW f \in Seq(Word), NEW n \in Nat, Shared(t, f, n), f # <<>>
  PROVE  Shared(Append(t, Head(f)), Tail(f), n)
<1>1. /\ Head(f) \in Word /\ Len(f) \in Nat /\ Len(f) >= 1 /\ Len(Tail(f)) = Len(f) - 1
      /\ Len(t) \in Nat
  OBVIOUS
<1>2. Len(Append(t, Head(f))) = Len(t) + 1
  BY <1>1
<1>3. QED
  BY <1>1, <1>2 DEF Shared

(* A transfer that the driver leaves with its last word moved. *)
LEMMA FlowShared ==
  ASSUME NEW a \in Seq(Word), NEW z \in Seq(Word), NEW f \in Seq(Word), NEW i \in 0 .. 1,
         Flow(a, z, f, i), NEW n \in Nat
  PROVE  /\ Len(a) = n => Shared(z, f, n)
         /\ Len(z) = n /\ Len(a) <= n => Len(a) = n /\ f = <<>> /\ Shared(a, f, n)
<1>1. Len(a) = Len(z) + Len(f) /\ Len(a) \in Nat /\ Len(z) \in Nat /\ Len(f) \in Nat
  BY DEF Flow
<1>2. Len(f) = 0 => f = <<>>
  OBVIOUS
<1>3. QED
  BY <1>1, <1>2 DEF Shared

-----------------------------------------------------------------------------
(* What the FIFO and the flags say, step by step. *)

(* A step that changes nothing that Sound speaks of keeps it. *)
LEMMA SoundKept ==
  ASSUME Sound, UNCHANGED <<pc, cmd, buf, rint, fifo, pend, xfer, id, old>>
  PROVE  Sound'
BY DEF Sound, XferOK, PendOK, OverOK, Mine, MineOK, LeftOK, Words, Write, Multiblock

(* The types of what Sound is about. *)
LEMMA Types ==
  ASSUME Shape
  PROVE  /\ cmd \in Command /\ buf \in Seq(Word) /\ fifo \in Seq(Word) /\ id \in 0 .. 1
         /\ xfer # None => /\ xfer \in Transfer /\ xfer.cmd \in Command
                           /\ xfer.took \in Seq(Word) /\ xfer.id \in 0 .. 1
                           /\ xfer.phase \in {"data", "stop", "done", "failed"}
BY DEF Shape, TypeOK, Transfer

(* A command that is out is the one the driver is at. *)
LEMMA PendIs ==
  ASSUME Shape, PendOK, pend \in Command
  PROVE  pc = "resp" /\ pend = cmd /\ ~Mine /\ buf = <<>>
<1>1. pend \notin {None, Upclkonly}
  BY CommandIs
<1>2. QED
  BY <1>1 DEF PendOK, Shape, LoopOK

(* A card that answers keeps Sound. *)
LEMMA AnswerSound ==
  ASSUME Shape, Sound, Answer
  PROVE  Sound'
<1>1. /\ rint' = rint \union {"Commanddone"} /\ pend' = None
      /\ UNCHANGED <<pc, cmd, buf, fifo, id, old>>
      /\ pend.data = 0 \/ ~Underway
      /\ xfer' = IF pend.data = 0 THEN xfer
                 ELSE [cmd |-> pend, id |-> id, took |-> <<>>, phase |-> "data"]
  BY DEF Answer, Raise, driver
<1>2. pc = "resp" /\ pend = cmd /\ ~Mine /\ buf = <<>>
  BY PendIs DEF Sound, Answer
<1>3. CASE cmd.data = 0
  <2>1. xfer' = xfer /\ ~Mine'
    BY <1>1, <1>2, <1>3 DEF Mine
  <2>2. XferOK'
    BY <1>1, <1>2, <2>1 DEF Sound, XferOK, LeftOK, Words, Write, Multiblock
  <2>3. PendOK'
    BY <1>1, <1>2, <1>3 DEF PendOK
  <2>4. OverOK'
    BY <1>1, <1>2, <2>1 DEF Sound, OverOK
  <2>5. QED
    BY <2>2, <2>3, <2>4 DEF Sound
<1>4. CASE cmd.data # 0
  <2> DEFINE x == [cmd |-> cmd, id |-> id, took |-> <<>>, phase |-> "data"]
  <2>1. xfer' = x
    BY <1>1, <1>2, <1>4
  <2>2. x # None
    <3>1. <<>> \in Seq(Word)
      OBVIOUS
    <3>2. x \in Transfer
      BY <3>1, Types DEF Transfer
    <3>3. QED
      BY <3>2, ValueAssumption
  <2>3. fifo = <<>>
    <3>1. CASE xfer = None
      BY <3>1 DEF Sound, XferOK
    <3>2. CASE xfer # None
      <4>1. xfer.phase \in {"data", "stop", "done", "failed"} /\ LeftOK
        BY <1>2, <3>2, Types DEF Sound, XferOK
      <4>2. xfer.phase # "data"
        BY <1>1, <1>2, <1>4, <3>2 DEF Underway, InPhase
      <4>3. QED
        BY <4>1, <4>2 DEF LeftOK
    <3>3. QED
      BY <3>1, <3>2
  <2>4. Mine'
    BY <1>1, <1>2, <1>4, <2>1, <2>2 DEF Mine
  <2>5. MineOK'
    <3>1. Len(<<>>) = 0 /\ Words(cmd)' \in Nat
      BY WordsIs DEF Words
    <3>2. Flow(<<>>, <<>>, <<>>, id)
      BY FlowEmpty
    <3>3. Flow(buf', xfer'.took, fifo', id') /\ Flow(xfer'.took, buf', fifo', id')
      BY <1>1, <1>2, <2>1, <2>3, <3>2
    <3>4. QED
      BY <1>1, <2>1, <3>1, <3>3 DEF MineOK
  <2>6. XferOK'
    BY <2>1, <2>2, <2>4, <2>5 DEF XferOK
  <2>7. PendOK'
    BY <1>1, <1>2, <2>4 DEF PendOK
  <2>8. OverOK'
    BY <1>1, <1>2, <2>4 DEF Sound, OverOK
  <2>9. QED
    BY <2>6, <2>7, <2>8 DEF Sound
<1>5. QED
  BY <1>3, <1>4

(* So does a card that does not answer, *)
LEMMA NoAnswerSound ==
  ASSUME Shape, Sound, NoAnswer
  PROVE  Sound'
<1>1. /\ rint' = rint \union {"Interr"} /\ pend' = None
      /\ UNCHANGED <<pc, cmd, buf, fifo, xfer, id, old>>
  BY DEF NoAnswer, Raise, driver
<1>2. pc = "resp" /\ pend = cmd /\ ~Mine
  BY PendIs DEF Sound, NoAnswer
<1>3. ~Mine'
  BY <1>1, <1>2 DEF Mine
<1>4. XferOK'
  BY <1>1, <1>2, <1>3 DEF Sound, XferOK, LeftOK, Words, Write, Multiblock
<1>5. PendOK'
  <2>1. "Commanddone" \notin rint
    BY <1>2, CommandIs, Types DEF Sound, PendOK
  <2>2. QED
    BY <1>1, <1>2, <2>1 DEF PendOK
<1>6. OverOK'
  BY <1>1, <1>2, <1>3 DEF Sound, OverOK
<1>7. QED
  BY <1>4, <1>5, <1>6 DEF Sound

(* the update of the clock, *)
LEMMA ClockUpdatedSound ==
  ASSUME Shape, Sound, ClockUpdated
  PROVE  Sound'
<1>1. /\ rint' = rint \union {"Commanddone"} /\ pend = Upclkonly /\ pend' = None
      /\ UNCHANGED <<pc, cmd, buf, fifo, xfer, id, old>>
  BY DEF ClockUpdated, Raise, driver
<1>2. pc \in {"clkoff", "clkon"}
  <2>1. cmd \in Command /\ Upclkonly # None
    BY Types, ValueAssumption
  <2>2. cmd # Upclkonly
    BY <2>1, CommandIs
  <2>3. QED
    BY <1>1, <2>1, <2>2 DEF Sound, PendOK
<1>3. ~Mine /\ ~Mine'
  BY <1>1, <1>2 DEF Mine
<1>4. XferOK'
  BY <1>1, <1>3 DEF Sound, XferOK, LeftOK, Words, Write, Multiblock
<1>5. PendOK' /\ OverOK'
  BY <1>1, <1>2 DEF PendOK, OverOK
<1>6. QED
  BY <1>4, <1>5 DEF Sound

(* and a word from the card, the next in order. *)
LEMMA CardWordSound ==
  ASSUME Shape, Shape', Sound, CardWord
  PROVE  Sound'
<1>1. /\ xfer # None /\ xfer.phase = "data" /\ Len(xfer.took) < Words(xfer.cmd)
      /\ UNCHANGED <<pc, cmd, buf, rint, pend, id, old>>
  BY DEF CardWord, InPhase, driver
<1>2. /\ xfer \in Transfer /\ xfer.cmd \in Command /\ xfer.took \in Seq(Word) /\ xfer.id \in 0 .. 1
      /\ buf \in Seq(Word) /\ fifo \in Seq(Word) /\ id \in 0 .. 1
  BY <1>1, Types
<1>3. Words(xfer.cmd) \in Nat /\ Words(xfer.cmd)' = Words(xfer'.cmd)
  BY WordsIs DEF Words, Multiblock
<1>4. PICK w : /\ xfer' = [xfer EXCEPT !.took = Append(@, w)]
               /\ IF Write(xfer.cmd) THEN fifo # <<>> /\ w = Head(fifo) /\ fifo' = Tail(fifo)
                  ELSE w = <<xfer.id, Len(xfer.took) + 1>> /\ fifo' = Append(fifo, w)
  BY DEF CardWord
<1>5. w \in Word
  <2>1. CASE Write(xfer.cmd)
    BY <1>2, <1>4, <2>1
  <2>2. CASE ~Write(xfer.cmd)
    <3>1. Len(xfer.took) + 1 \in 1 .. Multi
      BY <1>1, <1>2, WordsIs
    <3>2. QED
      BY <1>2, <1>4, <2>2, <3>1 DEF Word
  <2>3. QED
    BY <2>1, <2>2
<1>6. /\ xfer'.took = Append(xfer.took, w) /\ xfer'.cmd = xfer.cmd /\ xfer'.id = xfer.id
      /\ xfer'.phase = "data" /\ xfer' # None
  <2>1. /\ xfer'.took = Append(xfer.took, w) /\ xfer'.cmd = xfer.cmd /\ xfer'.id = xfer.id
        /\ xfer'.phase = "data"
    BY <1>1, <1>2, <1>4 DEF Transfer
  <2>2. xfer' \in Transfer
    <3>1. Append(xfer.took, w) \in Seq(Word)
      BY <1>2, <1>5
    <3>2. QED
      BY <1>2, <1>4, <3>1 DEF Transfer
  <2>3. QED
    BY <2>1, <2>2, ValueAssumption
<1>7. Mine' <=> Mine
  BY <1>1, <1>6 DEF Mine
<1>8. PendOK'
  BY <1>1, <1>7 DEF Sound, PendOK
<1>9. OverOK'
  BY <1>1, <1>6, <1>7 DEF Sound, OverOK
<1>10. CASE Mine
  <2>1. MineOK /\ xfer.cmd = cmd /\ xfer.id = id
    BY <1>10 DEF Sound, XferOK, Mine, MineOK
  <2>2. Len(xfer'.took) <= Words(cmd)
    <3>1. Len(Append(xfer.took, w)) = Len(xfer.took) + 1
      BY <1>2, <1>5
    <3>2. Len(xfer.took) + 1 <= Words(xfer.cmd)
      BY <1>1, <1>2, <1>3
    <3>3. QED
      BY <1>6, <2>1, <3>1, <3>2
  <2>3. CASE Write(cmd)
    <3>1. fifo # <<>> /\ w = Head(fifo) /\ fifo' = Tail(fifo) /\ Flow(buf, xfer.took, fifo, id)
      BY <1>4, <2>1, <2>3 DEF MineOK
    <3>2. Flow(buf, Append(xfer.took, Head(fifo)), Tail(fifo), id)
      BY <1>2, <3>1, FlowOut
    <3>3. Flow(buf', xfer'.took, fifo', id')
      BY <1>1, <1>6, <3>1, <3>2
    <3>4. Write(cmd)' /\ Words(cmd)' = Words(cmd)
      BY <1>1, <2>3 DEF Write, Words, Multiblock
    <3>5. MineOK'
      BY <1>1, <1>6, <2>1, <2>2, <3>3, <3>4 DEF MineOK
    <3>6. QED
      BY <1>6, <1>7, <1>8, <1>9, <1>10, <3>5 DEF Sound, XferOK
  <2>4. CASE ~Write(cmd)
    <3>1. /\ w = <<id, Len(xfer.took) + 1>> /\ fifo' = Append(fifo, w)
          /\ Flow(xfer.took, buf, fifo, id)
      BY <1>4, <2>1, <2>4 DEF MineOK
    <3>2. Flow(Append(xfer.took, w), buf, Append(fifo, w), id)
      BY <1>2, <1>5, <3>1, FlowIn
    <3>3. Flow(xfer'.took, buf', fifo', id')
      BY <1>1, <1>6, <3>1, <3>2
    <3>4. ~Write(cmd)' /\ Words(cmd)' = Words(cmd)
      BY <1>1, <2>4 DEF Write, Words, Multiblock
    <3>5. MineOK'
      BY <1>1, <1>6, <2>1, <2>2, <3>3, <3>4 DEF MineOK
    <3>6. QED
      BY <1>6, <1>7, <1>8, <1>9, <1>10, <3>5 DEF Sound, XferOK
  <2>5. QED
    BY <2>3, <2>4
<1>11. CASE ~Mine
  <2>1. LeftOK
    BY <1>1, <1>11 DEF Sound, XferOK
  <2>2. Write(xfer.cmd)
    <3>1. fifo = <<>> => Len(fifo) = 0
      OBVIOUS
    <3>2. Len(xfer.took) + Len(fifo) = Words(xfer.cmd) /\ Len(xfer.took) \in Nat
      BY <1>2, <2>1 DEF LeftOK, Shared
    <3>3. fifo # <<>>
      BY <1>1, <1>3, <3>1, <3>2
    <3>4. QED
      BY <2>1, <3>3 DEF LeftOK
  <2>3. fifo # <<>> /\ w = Head(fifo) /\ fifo' = Tail(fifo)
    BY <1>4, <2>2
  <2>4. Shared(Append(xfer.took, Head(fifo)), Tail(fifo), Words(xfer.cmd))
    BY <1>2, <1>3, <2>1, <2>3, SharedOut DEF LeftOK
  <2>5. Shared(xfer'.took, fifo', Words(xfer.cmd))
    BY <1>6, <2>3, <2>4
  <2>6. LeftOK'
    BY <1>1, <1>6, <2>1, <2>2, <2>5 DEF LeftOK, Words, Write, Multiblock
  <2>7. QED
    BY <1>6, <1>7, <1>11, <2>6, <1>8, <1>9 DEF Sound, XferOK
<1>12. QED
  BY <1>8, <1>9, <1>10, <1>11 DEF Sound

(* The end of the data, of CMD12, or of both by an error: the words stay.   *)
LEMMA EndSound ==
  ASSUME Shape, Sound, xfer # None, UNCHANGED <<pc, cmd, buf, fifo, pend, id, old>>,
         NEW ph \in {"stop", "done", "failed"}, xfer' = [xfer EXCEPT !.phase = ph],
         NEW f \in {"Dataover", "Autocmddone", "Interr"}, rint' = rint \union {f},
         ph # "failed" => Len(xfer.took) = Words(xfer.cmd),
         ph = "failed" => Mine /\ f = "Interr"
  PROVE  Sound'
<1>1. /\ xfer \in Transfer /\ xfer.cmd \in Command /\ xfer.took \in Seq(Word) /\ xfer.id \in 0 .. 1
      /\ buf \in Seq(Word) /\ fifo \in Seq(Word) /\ id \in 0 .. 1
  BY Types
<1>2. /\ xfer'.took = xfer.took /\ xfer'.cmd = xfer.cmd /\ xfer'.id = xfer.id
      /\ xfer'.phase = ph /\ xfer' # None
  <2>1. xfer' \in Transfer
    BY <1>1 DEF Transfer
  <2>2. QED
    BY <1>1, <2>1, ValueAssumption DEF Transfer
<1>3. Mine' <=> Mine
  BY <1>2 DEF Mine
<1>4. PendOK'
  BY <1>3 DEF Sound, PendOK
<1>5. CASE Mine
  <2>1. MineOK /\ xfer.cmd = cmd
    BY <1>5 DEF Sound, XferOK, MineOK
  <2>2. MineOK'
    BY <1>2, <2>1 DEF MineOK, Words, Write, Multiblock
  <2>3. OverOK'
    <3>1. CASE {"Dataover", "Autocmddone"} \intersect rint = {}
      BY <1>2, <1>3, <1>5, <2>1, <3>1 DEF OverOK, Words, Multiblock
    <3>2. CASE {"Dataover", "Autocmddone"} \intersect rint # {}
      BY <1>2, <1>3, <1>5, <2>1, <3>2 DEF Sound, OverOK, Words, Multiblock
    <3>3. QED
      BY <3>1, <3>2
  <2>4. QED
    BY <1>2, <1>3, <1>4, <1>5, <2>2, <2>3 DEF Sound, XferOK
<1>6. CASE ~Mine
  <2>1. LeftOK /\ ph # "failed"
    BY <1>6 DEF Sound, XferOK
  <2>2. fifo = <<>>
    <3>1. Len(xfer.took) + Len(fifo) = Len(xfer.took) /\ Len(fifo) \in Nat /\ Len(xfer.took) \in Nat
      BY <1>1, <2>1 DEF LeftOK, Shared
    <3>2. Len(fifo) = 0
      BY <3>1
    <3>3. QED
      BY <1>1, <3>2
  <2>3. LeftOK'
    BY <1>2, <2>1, <2>2 DEF LeftOK, Words, Multiblock
  <2>4. OverOK'
    BY <1>3, <1>6 DEF Sound, OverOK
  <2>5. QED
    BY <1>2, <1>3, <1>4, <1>6, <2>3, <2>4 DEF Sound, XferOK
<1>7. QED
  BY <1>5, <1>6

(* Every step of the controller and the card keeps Sound while nothing fails. *)
LEMMA HardwareSound ==
  ASSUME Shape, Shape', Sound, Hardware, ~failed'
  PROVE  Sound'
<1>1. CASE Answer
  BY <1>1, AnswerSound
<1>2. CASE NoAnswer
  BY <1>2, NoAnswerSound
<1>3. CASE CardWord
  BY <1>3, CardWordSound
<1>4. CASE DataOver
  <2>1. /\ xfer # None /\ UNCHANGED <<pc, cmd, buf, fifo, pend, id, old>>
        /\ rint' = rint \union {"Dataover"} /\ Len(xfer.took) = Words(xfer.cmd)
    BY <1>4 DEF DataOver, InPhase, Raise, driver
  <2>2. PICK ph \in {"stop", "done"} : xfer' = [xfer EXCEPT !.phase = ph]
    BY <1>4 DEF DataOver
  <2>3. QED
    BY <2>1, <2>2, EndSound
<1>5. CASE AutoStop
  <2>1. /\ xfer # None /\ UNCHANGED <<pc, cmd, buf, fifo, pend, id, old>>
        /\ rint' = rint \union {"Autocmddone"} /\ xfer.phase = "stop"
        /\ xfer' = [xfer EXCEPT !.phase = "done"]
    BY <1>5 DEF AutoStop, InPhase, Raise, driver
  <2>2. Len(xfer.took) = Words(xfer.cmd)
    <3>1. CASE Mine
      BY <2>1, <3>1 DEF Sound, XferOK, MineOK
    <3>2. CASE ~Mine
      <4>1. fifo = <<>> /\ Shared(xfer.took, fifo, Words(xfer.cmd))
        BY <2>1, <3>2 DEF Sound, XferOK, LeftOK
      <4>2. Len(xfer.took) \in Nat /\ Len(<<>>) = 0
        BY <2>1, Types
      <4>3. QED
        BY <4>1, <4>2 DEF Shared
    <3>3. QED
      BY <3>1, <3>2
  <2>3. QED
    BY <2>1, <2>2, EndSound
<1>6. CASE TransferFails
  <2>1. /\ xfer # None /\ UNCHANGED <<pc, cmd, buf, fifo, pend, id, old>>
        /\ rint' = rint \union {"Interr"} /\ xfer' = [xfer EXCEPT !.phase = "failed"]
    BY <1>6 DEF TransferFails, Underway, InPhase, Raise, driver
  <2>2. xfer.id = id /\ cmd.data # 0 /\ pc # "busy"
    BY <1>6 DEF TransferFails
  <2>3. Mine
    BY <2>1, <2>2 DEF Mine, Shape, TypeOK, LoopOK, Poll
  <2>4. QED
    BY <2>1, <2>3, EndSound
<1>7. CASE Programmed
  BY <1>7, SoundKept DEF Programmed, driver, ctlr
<1>8. CASE ClockUpdated
  BY <1>8, ClockUpdatedSound
<1>9. QED
  BY <1>1, <1>2, <1>3, <1>4, <1>5, <1>6, <1>7, <1>8 DEF Hardware

(* Back in sdmmc.c: the transfer that goes on needs the driver no more.      *)
LEMMA ReturnSound ==
  ASSUME Sound, Return, UNCHANGED fifo, pend = None, ~InPhase("failed"),
         xfer = None => fifo = <<>>,
         xfer # None => /\ Shared(xfer.took, fifo, Words(xfer.cmd)) /\ xfer.id = id
                        /\ (xfer.phase = "data" /\ Write(xfer.cmd)) \/ fifo = <<>>
  PROVE  Sound'
<1>1. pc' = "idle" /\ xfer' = (IF Underway THEN xfer ELSE None) /\ UNCHANGED <<pend, id>>
  BY DEF Return
<1>2. ~Mine'
  BY <1>1 DEF Mine
<1>3. PendOK' /\ OverOK'
  BY <1>1 DEF PendOK, OverOK
<1>4. CASE Underway
  <2>1. xfer # None /\ xfer' = xfer
    BY <1>1, <1>4 DEF Underway, InPhase
  <2>2. LeftOK'
    BY <1>1, <2>1 DEF LeftOK, InPhase, Words, Write, Multiblock
  <2>3. QED
    BY <1>2, <1>3, <2>1, <2>2 DEF Sound, XferOK
<1>5. CASE ~Underway
  <2>1. xfer' = None
    BY <1>1, <1>5
  <2>2. fifo = <<>>
    BY <1>5 DEF Underway, InPhase
  <2>3. QED
    BY <1>2, <1>3, <2>1, <2>2 DEF Sound, XferOK
<1>6. QED
  BY <1>4, <1>5

(* A command without data, or none: the transfer is the one before. *)
LEMMA NotMine ==
  ASSUME Shape, Sound, pc \notin {"io", "over"}, pc = "resp" => cmd.data = 0
  PROVE  /\ ~Mine /\ (xfer = None => fifo = <<>>)
         /\ xfer # None => /\ xfer.phase # "failed" /\ xfer.id = id
                           /\ Shared(xfer.took, fifo, Words(xfer.cmd))
                           /\ (xfer.phase = "data" /\ Write(xfer.cmd)) \/ fifo = <<>>
<1>1. ~Mine
  BY DEF Mine
<1>2. QED
  BY <1>1 DEF Sound, XferOK, LeftOK

(* From one loop of smhccmd, or of smhcclock, to the next. *)
LEMMA NextLoopSound ==
  ASSUME Shape, Sound, pc \notin {"io", "over"}, pc = "resp" => cmd.data = 0,
         pc' \in {"busy", "r1b", "clkoff", "clkon"}, UNCHANGED <<fifo, xfer, id>>,
         pend' = None \/ (pend' = Upclkonly /\ pc' \in {"clkoff", "clkon"})
  PROVE  Sound'
<1>1. ~Mine'
  BY DEF Mine
<1>2. PendOK' /\ OverOK'
  BY DEF PendOK, OverOK
<1>3. XferOK'
  BY <1>1, NotMine DEF XferOK, LeftOK, Words, Write, Multiblock
<1>4. QED
  BY <1>2, <1>3 DEF Sound

(* Writing a command keeps Sound. *)
LEMMA IssueSound ==
  ASSUME Shape, Sound, Issue
  PROVE  Sound'
<1>1. /\ pc = "busy" /\ pc' = "resp" /\ rint' = {} /\ pend' = cmd /\ old' = Underway
      /\ xfer' = (IF Underway THEN xfer ELSE None)
      /\ id' = (IF cmd.data = 0 THEN id ELSE 1 - id)
      /\ UNCHANGED <<cmd, buf, fifo>>
  BY DEF Issue, Loop
<1>2. /\ ~Mine /\ (xfer = None => fifo = <<>>)
      /\ xfer # None => /\ xfer.phase # "failed" /\ xfer.id = id
                        /\ Shared(xfer.took, fifo, Words(xfer.cmd))
                        /\ (xfer.phase = "data" /\ Write(xfer.cmd)) \/ fifo = <<>>
  BY <1>1, NotMine
<1>3. CASE Underway
  <2>1. xfer # None /\ xfer' = xfer /\ xfer.id = id
    BY <1>1, <1>2, <1>3 DEF Underway, InPhase
  <2>2. id \in 0 .. 1
    BY Types
  <2>3. ~Mine'
    BY <1>1, <2>1, <2>2 DEF Mine
  <2>4. LeftOK'
    BY <1>1, <1>2, <2>1, <2>2 DEF LeftOK, Words, Write, Multiblock
  <2>5. PendOK' /\ OverOK'
    BY <1>1, <1>3, <2>3 DEF PendOK, OverOK
  <2>6. QED
    BY <2>1, <2>3, <2>4, <2>5 DEF Sound, XferOK
<1>4. CASE ~Underway
  <2>1. xfer' = None /\ ~Mine'
    BY <1>1, <1>4 DEF Mine
  <2>2. fifo = <<>>
    BY <1>2, <1>4 DEF Underway, InPhase
  <2>3. PendOK' /\ OverOK'
    BY <1>1, <2>1 DEF PendOK, OverOK
  <2>4. QED
    BY <1>1, <2>1, <2>2, <2>3 DEF Sound, XferOK
<1>5. QED
  BY <1>3, <1>4

(* A word into the FIFO, or out of it. *)
LEMMA WordSound ==
  ASSUME Shape, Shape', Sound, PutWord \/ GetWord
  PROVE  Sound'
<1>1. /\ pc = "io" /\ Moved(Len(buf) + 1)
      /\ UNCHANGED <<cmd, rint, pend, xfer, id, old>>
  BY DEF PutWord, GetWord, ctlr
<1>2. pc' \in {"io", "over"}
  BY <1>1 DEF Moved, Loop
<1>3. Mine /\ Mine' /\ xfer # None
  BY <1>1, <1>2 DEF Sound, PendOK, Mine
<1>4. /\ xfer.cmd = cmd /\ Len(xfer.took) <= Words(cmd) /\ MineOK
      /\ buf \in Seq(Word) /\ fifo \in Seq(Word) /\ xfer.took \in Seq(Word) /\ id \in 0 .. 1
  BY <1>3, Types DEF Sound, XferOK, MineOK
<1>5. Words(cmd)' = Words(cmd) /\ (Write(cmd)' <=> Write(cmd))
  BY <1>1 DEF Words, Multiblock, Write
<1>6. IF Write(cmd) THEN Flow(buf', xfer.took, fifo', id) ELSE Flow(xfer.took, buf', fifo', id)
  <2>1. CASE PutWord
    <3>1. /\ Write(cmd) /\ Flow(buf, xfer.took, fifo, id)
          /\ fifo' = Append(fifo, <<id, Len(buf) + 1>>) /\ buf' = Append(buf, <<id, Len(buf) + 1>>)
      BY <1>4, <2>1 DEF PutWord, MineOK
    <3>2. <<id, Len(buf) + 1>> \in Word
      <4>1. Len(buf) < Words(cmd) /\ Words(cmd) \in Nat /\ Words(cmd) <= Multi /\ Multi \in Nat
        BY <1>1, WordsIs DEF Shape, LoopOK
      <4>2. Len(buf) + 1 \in 1 .. Multi
        BY <1>4, <4>1
      <4>3. QED
        BY <1>4, <4>2 DEF Word
    <3>3. Flow(Append(buf, <<id, Len(buf) + 1>>), xfer.took, Append(fifo, <<id, Len(buf) + 1>>), id)
      BY <1>4, <3>1, <3>2, FlowIn
    <3>4. QED
      BY <3>1, <3>3
  <2>2. CASE GetWord
    <3>1. /\ ~Write(cmd) /\ Flow(xfer.took, buf, fifo, id) /\ fifo # <<>>
          /\ fifo' = Tail(fifo) /\ buf' = Append(buf, Head(fifo))
      BY <1>4, <2>2 DEF GetWord, MineOK
    <3>2. Flow(xfer.took, Append(buf, Head(fifo)), Tail(fifo), id)
      BY <1>4, <3>1, FlowOut
    <3>3. QED
      BY <3>1, <3>2
  <2>3. QED
    BY <2>1, <2>2
<1>7. MineOK'
  BY <1>1, <1>4, <1>5, <1>6 DEF MineOK
<1>8. PendOK'
  BY <1>1, <1>2, <1>3 DEF Sound, PendOK
<1>9. OverOK'
  BY <1>1, <1>3, <1>5 DEF Sound, OverOK
<1>10. QED
  BY <1>3, <1>7, <1>8, <1>9, <1>1 DEF Sound, XferOK

(* smhcio's last word is moved: what the card has not taken is in the FIFO.  *)
LEMMA OverSound ==
  ASSUME Shape, Sound, Over, ~failed'
  PROVE  Sound'
<1>1. pc = "over" /\ Return /\ UNCHANGED fifo /\ ~InPhase("failed")
  BY DEF Over, Done, regs
<1>2. /\ pend = None /\ Mine /\ MineOK /\ xfer # None /\ xfer.id = id /\ xfer.cmd = cmd
      /\ Len(buf) = Words(cmd)
  BY <1>1 DEF Sound, PendOK, XferOK, MineOK, Mine, Shape, LoopOK
<1>3. /\ buf \in Seq(Word) /\ fifo \in Seq(Word) /\ xfer.took \in Seq(Word) /\ id \in 0 .. 1
      /\ xfer.phase \in {"data", "stop", "done", "failed"} /\ xfer.phase # "failed"
      /\ Words(cmd) \in Nat
  BY <1>1, <1>2, Types, WordsIs DEF InPhase
<1>4. /\ Shared(xfer.took, fifo, Words(cmd))
      /\ (xfer.phase = "data" /\ Write(cmd)) \/ fifo = <<>>
  <2>1. CASE Write(cmd)
    <3>1. Flow(buf, xfer.took, fifo, id)
      BY <1>2, <2>1 DEF MineOK
    <3>2. /\ Shared(xfer.took, fifo, Words(cmd))
          /\ Len(xfer.took) = Words(cmd) => fifo = <<>>
      BY <1>2, <1>3, <3>1, FlowShared
    <3>3. xfer.phase = "data" \/ Len(xfer.took) = Words(cmd)
      BY <1>2, <1>3 DEF MineOK
    <3>4. QED
      BY <2>1, <3>2, <3>3
  <2>2. CASE ~Write(cmd)
    <3>1. Flow(xfer.took, buf, fifo, id) /\ Len(xfer.took) <= Words(cmd)
      BY <1>2, <2>2 DEF MineOK
    <3>2. Shared(xfer.took, fifo, Words(cmd)) /\ fifo = <<>>
      BY <1>2, <1>3, <3>1, FlowShared
    <3>3. QED
      BY <3>2
  <2>3. QED
    BY <2>1, <2>2
<1>5. QED
  BY <1>1, <1>2, <1>4, ReturnSound

(* Every step of the driver keeps Sound while nothing fails. *)
LEMMA DriverSound ==
  ASSUME Shape, Shape', Sound, ~failed, ~failed',
         DriverStep \/ Smhcclock \/ (\E c \in Command : (c.busy => c.data = 0) /\ Smhccmd(c))
  PROVE  Sound'
<1>1. ASSUME pc \notin {"resp", "io", "over"}
      PROVE  pend \in {None, Upclkonly} /\ (pend # None => pc \in {"clkoff", "clkon"})
  BY <1>1 DEF Sound, PendOK
<1>2. ASSUME NEW c \in Command, Smhccmd(c)
      PROVE  Sound'
  <2>1. pc = "idle" /\ pc' = "busy" /\ UNCHANGED <<fifo, pend, xfer, id>>
    BY <1>2 DEF Smhccmd, Loop, regs, ctlr
  <2>2. pend' = None
    BY <1>1, <2>1
  <2>3. QED
    BY <2>1, <2>2, NextLoopSound
<1>3. CASE Smhcclock
  <2>1. pc = "idle" /\ pc' = "clkoff" /\ pend' = Upclkonly /\ UNCHANGED <<fifo, xfer, id>>
    BY <1>3 DEF Smhcclock, Loop, regs
  <2>2. QED
    BY <2>1, NextLoopSound
<1>4. CASE Issue
  BY <1>4, IssueSound
<1>5. CASE Response
  <2>1. pc = "resp" /\ pend = None /\ (cmd.data # 0 => Mine)
    BY <1>5 DEF Response, Sound, PendOK
  <2>2. CASE cmd.busy
    <3>1. cmd.data = 0
      BY <2>2 DEF Shape, LoopOK
    <3>2. pc' = "r1b" /\ UNCHANGED <<fifo, pend, xfer, id>>
      BY <1>5, <2>2 DEF Response, Loop, regs, ctlr
    <3>3. QED
      BY <2>1, <3>1, <3>2, NextLoopSound
  <2>3. CASE ~cmd.busy /\ cmd.data # 0
    <3>1. pc' = "io" /\ UNCHANGED <<cmd, buf, rint, fifo, pend, xfer, id, old>>
      BY <1>5, <2>3 DEF Response, Loop, regs, ctlr
    <3>2. Mine /\ Mine' /\ MineOK /\ xfer # None
      BY <2>1, <2>3, <3>1 DEF Mine, Sound, XferOK
    <3>3. MineOK'
      BY <3>1, <3>2 DEF MineOK, Words, Multiblock, Write
    <3>4. OverOK'
      BY <2>1, <3>1, <3>2 DEF Sound, OverOK, Words, Multiblock
    <3>5. QED
      BY <2>1, <3>1, <3>2, <3>3, <3>4 DEF Sound, XferOK, PendOK
  <2>4. CASE ~cmd.busy /\ cmd.data = 0
    <3>1. Return /\ UNCHANGED fifo /\ ~InPhase("failed")
      BY <1>5, <2>4 DEF Response, Done, regs
    <3>2. QED
      BY <2>1, <2>4, <3>1, NotMine, ReturnSound
  <2>5. QED
    BY <2>2, <2>3, <2>4
<1>6. CASE NotBusy
  <2>1. pc = "r1b" /\ Return /\ UNCHANGED fifo /\ ~InPhase("failed")
    BY <1>6 DEF NotBusy, Done, regs
  <2>2. pend = None
    BY <1>1, <2>1
  <2>3. QED
    BY <2>1, <2>2, NotMine, ReturnSound
<1>7. CASE PutWord \/ GetWord
  BY <1>7, WordSound
<1>8. CASE Over
  BY <1>8, OverSound
<1>9. CASE Flagged \/ Timeout
  BY <1>9 DEF Flagged, Timeout, Error
<1>10. CASE Updated
  <2>1. pc \in {"clkoff", "clkon"} /\ UNCHANGED fifo /\ pend = None
    BY <1>10 DEF Updated
  <2>2. CASE pc = "clkoff"
    <3>1. pc' = "clkon" /\ pend' = Upclkonly /\ UNCHANGED <<xfer, id>>
      BY <1>10, <2>2 DEF Updated, Loop
    <3>2. QED
      BY <2>1, <3>1, NextLoopSound
  <2>3. CASE pc = "clkon"
    <3>1. Return
      BY <1>10, <2>3 DEF Updated
    <3>2. ~InPhase("failed")
      BY <2>1, NotMine DEF InPhase
    <3>3. QED
      BY <2>1, <3>1, <3>2, NotMine, ReturnSound
  <2>4. QED
    BY <2>1, <2>2, <2>3
<1>11. QED
  BY <1>2, <1>3, <1>4, <1>5, <1>6, <1>7, <1>8, <1>9, <1>10 DEF DriverStep

(* A first failure is not forgotten. *)
LEMMA FailedStays == Next /\ failed => failed'
BY DEF Next, Smhccmd, Smhcclock, DriverStep, Issue, Response, Done, NotBusy, PutWord, GetWord,
       Over, Flagged, Timeout, Error, Updated, Tick, Hardware, Answer, NoAnswer, CardWord,
       DataOver, AutoStop, TransferFails, Programmed, ClockUpdated

(* Every step keeps the invariant. *)
LEMMA StepIInv == IInv /\ [Next]_vars => IInv'
<1> SUFFICES ASSUME IInv, [Next]_vars PROVE IInv'
  OBVIOUS
<1>1. Shape /\ (~failed => Sound)
  BY DEF IInv
<1>2. CASE UNCHANGED vars
  <2>1. UNCHANGED <<pc, cmd, now, buf, ticks, rint, busy, fifo, pend, xfer, id, elapsed, old, failed>>
    BY <1>2 DEF vars, driver, regs, ctlr
  <2>2. Shape'
    BY <1>1, <2>1, DriverKept DEF Shape, TypeOK, driver
  <2>3. ~failed' => Sound'
    BY <1>1, <2>1, SoundKept
  <2>4. QED
    BY <2>2, <2>3 DEF IInv
<1>3. CASE Next
  <2> DEFINE Driver == DriverStep \/ Smhcclock
                       \/ (\E c \in Command : (c.busy => c.data = 0) /\ Smhccmd(c))
  <2>1. Driver \/ Tick \/ Hardware
    BY <1>3 DEF Next
  <2>2. Shape'
    BY <1>1, <2>1, TickKeeps, HardwareShape, DriverShape
  <2>3. ASSUME ~failed' PROVE Sound'
    <3>1. ~failed
      BY <1>3, <2>3, FailedStays
    <3>2. CASE Driver
      BY <1>1, <2>2, <2>3, <3>1, <3>2, DriverSound
    <3>3. CASE Tick
      BY <1>1, <3>1, <3>3, SoundKept DEF Tick, driver, regs, ctlr
    <3>4. CASE Hardware
      BY <1>1, <2>2, <2>3, <3>1, <3>4, HardwareSound
    <3>5. QED
      BY <2>1, <3>2, <3>3, <3>4
  <2>4. QED
    BY <2>2, <2>3 DEF IInv
<1>4. QED
  BY <1>2, <1>3

(* The invariant the theorems rest on. *)
THEOREM Invariance == Spec => []IInv
BY InitIInv, StepIInv, PTL DEF Spec

-----------------------------------------------------------------------------
(* The registers and the driver's variables keep their types, and m->ticks   *)
(* its width (smhc.c).                                                       *)
THEOREM TypeCorrect == Spec => []TypeOK
<1>1. IInv => TypeOK
  BY DEF IInv, Shape
<1>2. QED
  BY <1>1, Invariance, PTL

(* Until a first failure, what a read gives is its own transfer's words, each *)
(* once and in order, however the card and smhcio take turns at the FIFO.     *)
THEOREM ReadIntactHolds == Spec => []ReadIntact
<1>1. IInv => ReadIntact
  <2> SUFFICES ASSUME IInv, ~failed, pc \in {"io", "over"}, ~Write(cmd)
               PROVE  \A k \in 1 .. Len(buf) : buf[k] = <<id, k>>
    BY DEF ReadIntact
  <2>1. Flow(xfer.took, buf, fifo, id)
    BY DEF IInv, Sound, XferOK, PendOK, MineOK
  <2>2. QED
    BY <2>1 DEF Flow
<1>2. QED
  BY <1>1, Invariance, PTL

(* The comparison of m->ticks is exact however long ago it began and whether *)
(* it wraps or not: smhccmd's and smhcio's limits are the times they name.   *)
THEOREM TimeoutExactHolds == Spec => []TimeoutExact
<1>1. IInv => TimeoutExact
  <2> SUFFICES ASSUME IInv, pc \in Poll PROVE Expired <=> elapsed > Limit
    BY DEF TimeoutExact
  <2>1. /\ Since(now, ticks, elapsed, Limit)
        /\ now \in 0 .. Wrap - 1 /\ ticks \in 0 .. Wrap - 1 /\ elapsed \in 0 .. DataWait + 1
    BY DEF IInv, Shape, TicksOK, TypeOK
  <2>2. Limit \in Nat /\ Limit <= DataWait /\ DataWait \in Nat
    BY LimitIs, WrapIs
  <2>3. Wrap \in Nat /\ Wrap % 2 = 0 /\ 2 * (DataWait + 1) < Wrap
    BY WrapAssumption, WrapIs
  <2>4. (ticks - now) % Wrap = elapsed
    <3>1. CASE ticks = now + elapsed
      <4>1. ticks - now = elapsed /\ elapsed \in 0 .. Wrap - 1
        BY <2>1, <2>2, <2>3, <3>1
      <4>2. elapsed % Wrap = elapsed
        BY <4>1, Modulo
      <4>3. QED
        BY <4>1, <4>2
    <3>2. CASE ticks = now + elapsed - Wrap
      <4>1. /\ ticks - now \in Int /\ ticks - now < 0 /\ ticks - now >= 0 - Wrap
            /\ (ticks - now) + Wrap = elapsed
        BY <2>1, <2>2, <2>3, <3>2
      <4>2. (ticks - now) % Wrap = (ticks - now) + Wrap
        BY <4>1, Modulo
      <4>3. QED
        BY <4>1, <4>2
    <3>3. QED
      BY <2>1, <3>1, <3>2 DEF Since
  <2>5. elapsed < Wrap \div 2
    BY <2>1, <2>2, <2>3
  <2>6. QED
    BY <2>4, <2>5 DEF Expired
<1>2. QED
  BY <1>1, Invariance, PTL

(* When smhcio reports a transfer as done, the card has taken, or sent, every *)
(* word of it, in order, unless the command was given while the last          *)
(* transfer's CMD12 was still to end.                                         *)
THEOREM DoneIsOverHolds == Spec => DoneIsOver
<1>1. ASSUME IInv, Over, ~failed, ~old
      PROVE  xfer.phase \in {"stop", "done", "failed"} /\ Whole(xfer.took, cmd)
  <2>1. pc = "over" /\ {"Dataover", "Autocmddone"} \intersect rint # {}
    BY <1>1 DEF Over
  <2>2. /\ Mine /\ MineOK /\ Len(xfer.took) = Words(cmd) /\ xfer.phase \in {"stop", "done", "failed"}
    BY <1>1, <2>1 DEF IInv, Sound, XferOK, OverOK
  <2>3. xfer.took \in Seq(Word) /\ Words(cmd) \in Nat
    BY <1>1, <2>2, Types, WordsIs DEF IInv, Mine
  <2>4. \A k \in 1 .. Len(xfer.took) : xfer.took[k] = <<id, k>>
    BY <2>2 DEF MineOK, Flow
  <2>5. xfer.took = [k \in 1 .. Len(xfer.took) |-> xfer.took[k]]
    BY <2>3
  <2>6. Whole(xfer.took, cmd)
    BY <2>2, <2>4, <2>5 DEF Whole
  <2>7. QED
    BY <2>2, <2>6
<1>2. QED
  BY <1>1, Invariance, PTL DEF DoneIsOver
=============================================================================
