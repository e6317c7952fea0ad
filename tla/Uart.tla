--------------------------------- MODULE Uart ---------------------------------
(***************************************************************************)
(* The serial console (uartsun20i.c): a receive interrupt, output that is  *)
(* polled by whoever prints, and a rate that a process may change.  While  *)
(* the divisor latch is open (DLAB) the first two registers are the        *)
(* divisor and not data and interrupt enable.                              *)
(***************************************************************************)
EXTENDS Naturals

CONSTANTS
  Rate,    \* divisors a process may ask for
  MaxRx    \* bound: bytes in the receive FIFO

MaxRxAssumption == MaxRx \in Nat \ {0}

VARIABLES
  bpc,      \* where suartbaud is
  want,     \* its divisor
  asked,    \* history: the divisor last set; "uboot" at first
  ier, dlab,  \* IER_ERDA, LCR_DLAB
  divisor,  \* DLL and DLM: one of Rate, "uboot", or "text"
  rx,       \* bytes received and not read
  intr,     \* suartintr runs
  spilt     \* history: somebody printed while DLAB was set, after U-Boot or the last change

vars == <<bpc, want, asked, ier, dlab, divisor, rx, intr, spilt>>

Init ==
  /\ bpc = "idle" /\ want = "uboot" /\ asked = "uboot"
  /\ ier = FALSE /\ dlab = FALSE /\ divisor = "uboot"
  /\ rx = 0 /\ intr = FALSE /\ spilt = FALSE

-----------------------------------------------------------------------------
(* A byte on the line; when the FIFO is full it is lost. *)
Receive ==
  /\ rx < MaxRx /\ rx' = rx + 1
  /\ UNCHANGED <<bpc, want, asked, ier, dlab, divisor, intr, spilt>>

Interrupt ==
  /\ ier /\ rx > 0 /\ ~intr /\ intr' = TRUE
  /\ UNCHANGED <<bpc, want, asked, ier, dlab, divisor, rx, spilt>>

(* What could go wrong: the loop tests after it has read ... *)
SuartintrUnchecked ==
  /\ intr
  /\ rx' = (IF dlab THEN rx ELSE rx - 1) /\ intr' = (rx > 0)
  /\ UNCHANGED <<bpc, want, asked, ier, dlab, divisor, spilt>>

(* ... or does not read at all. *)
SuartintrDeaf ==
  /\ intr /\ intr' = FALSE
  /\ UNCHANGED <<bpc, want, asked, ier, dlab, divisor, rx, spilt>>

(* suartintr: LSR_DR, then RBR, which is DLL while DLAB is set. *)
Suartintr ==
  /\ intr
  /\ IF rx = 0 THEN intr' = FALSE /\ UNCHANGED rx
     ELSE rx' = (IF dlab THEN rx ELSE rx - 1) /\ UNCHANGED intr
  /\ UNCHANGED <<bpc, want, asked, ier, dlab, divisor, spilt>>

(* suartenable(uart, 1), interrupts masked; port/ calls neither it nor        *)
(* suartbaud in the middle of the other.                                     *)
Suartenable ==
  /\ ~intr /\ bpc = "idle"
  /\ dlab' = FALSE /\ ier' = TRUE
  /\ UNCHANGED <<bpc, want, asked, divisor, rx, intr, spilt>>

(* suartkick and uart_putc: THR, which is DLL while DLAB is set. *)
Suartkick ==
  /\ ~intr /\ dlab
  /\ divisor' = "text" /\ spilt' = TRUE
  /\ UNCHANGED <<bpc, want, asked, ier, dlab, rx, intr>>

(* What could go wrong: the divisor is set before the latch is open. *)
BaudOpenLate ==
  /\ bpc = "open" /\ ~intr /\ bpc' = "divisor"
  /\ spilt' = FALSE
  /\ UNCHANGED <<want, asked, ier, dlab, divisor, rx, intr>>

(* suartbaud: up to the wait for the transmitter ... *)
Baud(d) ==
  /\ bpc = "idle" /\ ~intr /\ bpc' = "open"
  /\ want' = d
  /\ UNCHANGED <<asked, ier, dlab, divisor, rx, intr, spilt>>

BaudOpen ==
  /\ bpc = "open" /\ ~intr /\ bpc' = "divisor"
  /\ dlab' = TRUE /\ spilt' = FALSE
  /\ UNCHANGED <<want, asked, ier, divisor, rx, intr>>

(* DLL and DLM. *)
BaudDivisor ==
  /\ bpc = "divisor" /\ ~intr /\ bpc' = "close"
  /\ IF dlab THEN divisor' = want /\ UNCHANGED ier
             ELSE ier' = FALSE /\ UNCHANGED divisor
  /\ UNCHANGED <<want, asked, dlab, rx, intr, spilt>>

BaudClose ==
  /\ bpc = "close" /\ ~intr /\ bpc' = "idle"
  /\ dlab' = FALSE /\ asked' = want
  /\ UNCHANGED <<want, ier, divisor, rx, intr, spilt>>

BaudStep == BaudOpen \/ BaudDivisor \/ BaudClose

-----------------------------------------------------------------------------
(* Every variable has its type. *)
TypeOK ==
  /\ bpc \in {"idle", "open", "divisor", "close"}
  /\ {want, asked} \subseteq Rate \union {"uboot"}
  /\ divisor \in Rate \union {"uboot", "text"}
  /\ {ier, dlab, intr, spilt} \subseteq BOOLEAN
  /\ rx \in 0 .. MaxRx

(* The console runs at the rate last asked for and its receive interrupt is  *)
(* on, whatever is printed and received while that is changed; except that   *)
(* what somebody prints while the latch is open is taken for the rate.  With *)
(* interrupts on in suartbaud anybody may.                                   *)
RateKept ==
  bpc = "idle" => ~dlab /\ (spilt \/ divisor = asked) /\ (asked # "uboot" => ier)

(* A received byte is read, unless the interrupt comes while the latch is    *)
(* open: its handler then reads the divisor, and has no end.                 *)
ReceiveEnds == ier /\ rx > 0 ~> rx = 0 \/ (intr /\ dlab)
=============================================================================
