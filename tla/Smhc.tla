--------------------------------- MODULE Smhc --------------------------------
(***************************************************************************)
(* The SD host controller's driver (smhc.c) against a controller, a card   *)
(* and a clock that run by themselves.  sdmmc.c (port/) is not in the      *)
(* repository: it gives one command at a time and, if the command has      *)
(* data, moves them with smhcio.  Its CMD12 changes nothing: smhccmd       *)
(* returns at once, the controller sends its own (Autostop).               *)
(*                                                                         *)
(* A word of data is <<transfer, index>>.                                  *)
(***************************************************************************)
EXTENDS Integers, Sequences

CONSTANTS
  Data,                          \* the kinds of commands: see Command
  Fifo,                          \* bound: words the FIFO holds
  Single, Multi,                 \* bound: words in one block, in several
  CmdWait, R1bWait, DataWait,    \* HZ, 3*HZ and 5*HZ ticks
  Wrap,                          \* m->ticks is a ulong: 2^32
  Starts,                        \* bound: m->ticks when a loop begins
  Upclkonly,                     \* the command that changes the clock
  None

ASSUME DataAssumption == 0 \in Data /\ Data \subseteq 0 .. 4
ASSUME SizeAssumption ==
  {Fifo, Single, Multi} \subseteq Nat \ {0} /\ Single <= Multi
ASSUME WaitAssumption ==
  /\ {CmdWait, R1bWait, DataWait} \subseteq Nat
  /\ CmdWait <= R1bWait /\ R1bWait <= DataWait /\ 2 * (DataWait + 1) < Wrap
ASSUME WrapAssumption ==
  Wrap \in Nat /\ Wrap % 2 = 0 /\ Starts \subseteq 0 .. Wrap - 1 /\ Starts # {}

VARIABLES
  pc, cmd,        \* the driver: the loop it is in, the command it was given
  now, buf,       \* its now; the words it has moved
  ticks,          \* m->ticks
  rint, busy,     \* Rint; Carddatabusy in Status
  fifo,
  pend,           \* the command that has Cmdstart set, or None
  xfer,           \* the transfer it makes, or made last; or None
  id,             \* history: which transfer was asked for, modulo 2
  elapsed,        \* history: ticks since now was set
  old,            \* history: the command was given while a transfer went on
  failed          \* history: a transfer has failed, or the driver given up,
                  \* before the command it is at

driver == <<pc, cmd, now, buf>>
regs == <<rint, busy, fifo>>
ctlr == <<pend, xfer>>
vars == <<driver, ticks, regs, ctlr, id, elapsed, old, failed>>

(* SDiocmd: data is 0, 1 or 3 for a read, 2 or 4 for a write; busy for R1b. *)
Command == [data : Data, busy : BOOLEAN]
Nocmd == [data |-> 0, busy |-> FALSE]

Write(c) == c.data \in {2, 4}
Multiblock(c) == c.data > 2
Words(c) == IF Multiblock(c) THEN Multi ELSE Single
Word == (0 .. 1) \X (1 .. Multi)
Transfer == [cmd : Command, id : 0 .. 1, took : Seq(Word),
             phase : {"data", "stop", "done", "failed"}]

ASSUME ValueAssumption ==
  /\ Upclkonly # None /\ {Upclkonly, None} \intersect Command = {}
  /\ None \notin Transfer

Flag == {"Commanddone", "Dataover", "Autocmddone", "Interr"}
Poll == {"busy", "resp", "r1b", "io", "over", "clkoff", "clkon"}

(* After smhcinit. *)
Init ==
  /\ pc = "idle" /\ cmd = Nocmd /\ now = 0 /\ buf = <<>>
  /\ ticks = 0
  /\ rint = {} /\ busy = FALSE /\ fifo = <<>>
  /\ pend = None /\ xfer = None
  /\ id = 0 /\ elapsed = 0 /\ old = FALSE /\ failed = FALSE

-----------------------------------------------------------------------------
(* A transfer goes on until its data, and its CMD12, have ended. *)
InPhase(ph) == xfer # None /\ xfer.phase = ph
Underway == InPhase("data") \/ InPhase("stop")

(* The driver. *)

Limit == CASE pc \in {"resp", "clkoff", "clkon"} -> CmdWait
           [] pc = "r1b"                         -> R1bWait
           [] OTHER                              -> DataWait

(* What could go wrong: the comparison does not survive a wrap. *)
ExpiredAbsolute == ticks > (now + Limit) % Wrap

(* (long)(m->ticks - now) > Limit *)
Expired ==
  LET d == (ticks - now) % Wrap IN d < Wrap \div 2 /\ d > Limit

(* Into a loop that polls, with its own now; it may be long since the last. *)
Loop(c) == pc' = c /\ now' \in Starts /\ ticks' = now' /\ elapsed' = 0

(* Back to sdmmc.c; what it has no use for is forgotten. *)
Return ==
  /\ pc' = "idle" /\ cmd' = Nocmd /\ buf' = <<>> /\ now' = 0 /\ ticks' = 0 /\ elapsed' = 0
  /\ old' = FALSE
  /\ xfer' = IF Underway THEN xfer ELSE None
  /\ UNCHANGED <<pend, id>>
Done == Return /\ failed' = (failed \/ InPhase("failed")) /\ UNCHANGED regs
Error == Return /\ failed' = TRUE /\ UNCHANGED regs

(* smhccmd(c), into its first loop. *)
Smhccmd(c) ==
  /\ pc = "idle"
  /\ cmd' = c /\ Loop("busy")
  /\ UNCHANGED <<buf, regs, ctlr, id, old, failed>>

(* The registers are cleared and the command goes out. *)
Issue ==
  /\ pc = "busy" /\ ~busy
  /\ rint' = {} /\ pend' = cmd
  /\ id' = IF cmd.data = 0 THEN id ELSE 1 - id
  /\ old' = Underway
  /\ xfer' = IF Underway THEN xfer ELSE None
  /\ Loop("resp")
  /\ UNCHANGED <<cmd, buf, busy, fifo, failed>>

(* The answer is there; a command with data goes on to smhcio. *)
Response ==
  /\ pc = "resp" /\ "Commanddone" \in rint /\ "Interr" \notin rint
  /\ IF cmd.busy \/ cmd.data # 0
     THEN /\ Loop(IF cmd.busy THEN "r1b" ELSE "io")
          /\ UNCHANGED <<cmd, buf, old, regs, ctlr, id, failed>>
     ELSE Done

NotBusy ==
  /\ pc = "r1b" /\ ~busy
  /\ Done

(* After the last word, the second loop. *)
Moved(n) == IF n = Words(cmd) THEN Loop("over") ELSE UNCHANGED <<pc, now, ticks, elapsed>>

(* What could go wrong: Fifofull is not tested ... *)
PutWordUnchecked ==
  /\ pc = "io" /\ ~Expired /\ "Interr" \notin rint
  /\ Write(cmd)
  /\ fifo' = Append(fifo, <<id, Len(buf) + 1>>)
  /\ buf' = Append(buf, <<id, Len(buf) + 1>>)
  /\ Moved(Len(buf) + 1)
  /\ UNCHANGED <<cmd, rint, busy, ctlr, id, old, failed>>

(* smhcio moves a word ... *)
PutWord ==
  /\ pc = "io" /\ ~Expired /\ "Interr" \notin rint
  /\ Write(cmd) /\ Len(fifo) < Fifo
  /\ fifo' = Append(fifo, <<id, Len(buf) + 1>>)
  /\ buf' = Append(buf, <<id, Len(buf) + 1>>)
  /\ Moved(Len(buf) + 1)
  /\ UNCHANGED <<cmd, rint, busy, ctlr, id, old, failed>>

(* ... or Fifoempty is not, and the FIFO gives what it held last. *)
GetWordUnchecked ==
  /\ pc = "io" /\ ~Expired /\ "Interr" \notin rint
  /\ ~Write(cmd)
  /\ buf' = Append(buf, IF fifo = <<>> THEN <<1 - id, 1>> ELSE Head(fifo))
  /\ fifo' = IF fifo = <<>> THEN fifo ELSE Tail(fifo)
  /\ Moved(Len(buf) + 1)
  /\ UNCHANGED <<cmd, rint, busy, ctlr, id, old, failed>>

GetWord ==
  /\ pc = "io" /\ ~Expired /\ "Interr" \notin rint
  /\ ~Write(cmd) /\ fifo # <<>>
  /\ buf' = Append(buf, Head(fifo))
  /\ fifo' = Tail(fifo)
  /\ Moved(Len(buf) + 1)
  /\ UNCHANGED <<cmd, rint, busy, ctlr, id, old, failed>>

(* What could go wrong: the end is taken from the command's own flag. *)
OverOnAny ==
  /\ pc = "over" /\ rint # {}
  /\ Done

(* ... and waits for the end, tested before errors are. *)
Over ==
  /\ pc = "over" /\ {"Dataover", "Autocmddone"} \intersect rint # {}
  /\ Done

(* An error flag: in smhccmd it decides, in smhcio's second loop the end of  *)
(* the transfer does.                                                        *)
Flagged ==
  /\ "Interr" \in rint
  /\ \/ pc \in {"resp", "io"}
     \/ pc = "over" /\ {"Dataover", "Autocmddone"} \intersect rint = {}
  /\ Error

(* What could go wrong: smhccmd waits for its answer without a limit. *)
TimeoutNotResp ==
  /\ pc \in {"busy", "r1b", "io", "over"} /\ Expired
  /\ Error

(* A loop gives up; each tests what it waits for first, but for "io". *)
Timeout ==
  /\ Expired
  /\ \/ pc = "busy" /\ busy
     \/ pc = "resp" /\ {"Commanddone", "Interr"} \intersect rint = {}
     \/ pc = "r1b" /\ busy
     \/ pc = "io"
     \/ pc = "over" /\ {"Dataover", "Autocmddone", "Interr"} \intersect rint = {}
  /\ Error

(* smhcclock(hz): the card's clock off, updateclk ... *)
Smhcclock ==
  /\ pc = "idle"
  /\ pend' = Upclkonly /\ Loop("clkoff")
  /\ UNCHANGED <<cmd, buf, regs, xfer, id, old, failed>>

(* ... mmc0clock(hz), the clock on, updateclk.  Nobody looks at what         *)
(* updateclk returns: without the update the spurious flags stay.            *)
Updated ==
  /\ pc \in {"clkoff", "clkon"} /\ (pend = None \/ Expired)
  /\ rint' = IF pend = None THEN {} ELSE rint
  /\ failed' = (failed \/ pend # None)
  /\ IF pc = "clkoff"
     THEN pend' = Upclkonly /\ Loop("clkon") /\ UNCHANGED <<cmd, buf, old, xfer, id>>
     ELSE Return
  /\ UNCHANGED <<busy, fifo>>

DriverStep ==
  \/ Issue \/ Response \/ NotBusy \/ PutWord \/ GetWord \/ Over
  \/ Flagged \/ Timeout \/ Updated

-----------------------------------------------------------------------------
(* The clock, the controller and the card, in their own time or never. *)

Raise(f) == rint' = rint \union {f}

(* Ticks past a limit are all the same to the driver. *)
Tick ==
  /\ pc \in Poll /\ elapsed <= Limit
  /\ ticks' = (ticks + 1) % Wrap /\ elapsed' = elapsed + 1
  /\ UNCHANGED <<driver, regs, ctlr, id, old, failed>>

(* Waitpreover holds back a command with data until the last transfer ends. *)
Answer ==
  /\ pend \in Command /\ (pend.data = 0 \/ ~Underway)
  /\ Raise("Commanddone")
  /\ xfer' = IF pend.data = 0 THEN xfer
             ELSE [cmd |-> pend, id |-> id, took |-> <<>>, phase |-> "data"]
  /\ busy' = (busy \/ pend.busy)
  /\ pend' = None
  /\ UNCHANGED <<driver, ticks, fifo, id, elapsed, old, failed>>

NoAnswer ==
  /\ pend \in Command
  /\ Raise("Interr") /\ pend' = None
  /\ UNCHANGED <<driver, ticks, busy, fifo, xfer, id, elapsed, old, failed>>

(* A word moves between the card and the FIFO. *)
CardWord ==
  /\ InPhase("data") /\ Len(xfer.took) < Words(xfer.cmd)
  /\ IF Write(xfer.cmd)
     THEN /\ fifo # <<>> /\ fifo' = Tail(fifo)
          /\ xfer' = [xfer EXCEPT !.took = Append(@, Head(fifo))]
     ELSE LET w == <<xfer.id, Len(xfer.took) + 1>> IN
          /\ Len(fifo) < Fifo /\ fifo' = Append(fifo, w)
          /\ xfer' = [xfer EXCEPT !.took = Append(@, w)]
  /\ UNCHANGED <<driver, ticks, rint, busy, pend, id, elapsed, old, failed>>

(* The data are over; a written card is busy, and CMD12 follows a multiblock *)
(* transfer.                                                                 *)
DataOver ==
  /\ InPhase("data") /\ Len(xfer.took) = Words(xfer.cmd)
  /\ Raise("Dataover")
  /\ busy' = (busy \/ Write(xfer.cmd))
  /\ xfer' = [xfer EXCEPT !.phase = IF Multiblock(xfer.cmd) THEN "stop" ELSE "done"]
  /\ UNCHANGED <<driver, ticks, fifo, pend, id, elapsed, old, failed>>

AutoStop ==
  /\ InPhase("stop")
  /\ Raise("Autocmddone") /\ xfer' = [xfer EXCEPT !.phase = "done"]
  /\ UNCHANGED <<driver, ticks, busy, fifo, pend, id, elapsed, old, failed>>

(* A CRC, a time-out, an overrun: in the data or in CMD12; the driver sees   *)
(* it if it is in the transfer's own loops.                                  *)
TransferFails ==
  /\ Underway
  /\ Raise("Interr") /\ xfer' = [xfer EXCEPT !.phase = "failed"]
  /\ failed' = (failed \/ xfer.id # id \/ cmd.data = 0 \/ pc = "busy")
  /\ UNCHANGED <<driver, ticks, busy, fifo, pend, id, elapsed, old>>

Programmed ==
  /\ busy /\ busy' = FALSE
  /\ UNCHANGED <<driver, ticks, rint, fifo, ctlr, id, elapsed, old, failed>>

(* It holds back an update too, which sets spurious flags. *)
ClockUpdated ==
  /\ pend = Upclkonly /\ ~Underway
  /\ Raise("Commanddone") /\ pend' = None
  /\ UNCHANGED <<driver, ticks, busy, fifo, xfer, id, elapsed, old, failed>>

Hardware ==
  \/ Answer \/ NoAnswer \/ CardWord \/ DataOver \/ AutoStop \/ TransferFails
  \/ Programmed \/ ClockUpdated

Next ==
  \/ \E c \in Command : (c.busy => c.data = 0) /\ Smhccmd(c)
  \/ Smhcclock \/ DriverStep \/ Tick \/ Hardware

Spec == Init /\ [][Next]_vars

(* The driver runs with interrupts on, so ticks are counted, and its process *)
(* is scheduled again; the controller and the card need not do anything.     *)
FairSpec == Spec /\ WF_vars(DriverStep) /\ WF_vars(Tick)

-----------------------------------------------------------------------------
(* Every variable has its type. *)
TypeOK ==
  /\ pc \in Poll \union {"idle"} /\ cmd \in Command
  /\ now \in 0 .. Wrap - 1 /\ ticks \in 0 .. Wrap - 1
  /\ buf \in Seq(Word) /\ fifo \in Seq(Word) /\ Len(fifo) <= Fifo
  /\ rint \subseteq Flag /\ busy \in BOOLEAN
  /\ pend \in Command \union {Upclkonly, None}
  /\ xfer \in Transfer \union {None}
  /\ id \in 0 .. 1 /\ elapsed \in 0 .. DataWait + 1
  /\ old \in BOOLEAN /\ failed \in BOOLEAN

Whole(s, c) == s = [k \in 1 .. Words(c) |-> <<id, k>>]

(* Until a first failure leaves words in the FIFO, a read gives the words of   *)
(* its own transfer, each once and in order (smhcio).                        *)
ReadIntact ==
  ~failed /\ pc \in {"io", "over"} /\ ~Write(cmd) =>
    \A k \in 1 .. Len(buf) : buf[k] = <<id, k>>

(* A transfer that smhcio reports as done is: the card has taken every word  *)
(* of a write, or sent every word of a read, in order and without an error.  *)
(* The exception is a command given before the last one's CMD12 had ended:   *)
(* its Autocmddone, coming late, ends the wait for this one.                 *)
DoneIsOver ==
  [][Over /\ ~failed /\ ~old =>
       xfer.phase \in {"stop", "done", "failed"} /\ Whole(xfer.took, cmd)]_vars

(* A loop gives up when its time is over and not before, when m->ticks wraps *)
(* in between, too.                                                          *)
TimeoutExact == pc \in Poll => (Expired <=> elapsed > Limit)

(* Whatever the controller and the card do or fail to do, every command,     *)
(* transfer and change of clock comes to an end.                             *)
Returns == pc # "idle" ~> pc = "idle"
=============================================================================
