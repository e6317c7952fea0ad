--------------------------------- MODULE Boot ---------------------------------
(***************************************************************************)
(* From _start to the first process (l.s, main.c): what main calls, in     *)
(* order, each with its own module, and the console that receives and      *)
(* changes its rate in the middle of it.  The USB host's reset             *)
(* (usbehcisun20i.c) and the gates of ccu.c are here.                      *)
(***************************************************************************)
EXTENDS Naturals, Sequences, SequencesExt

CONSTANTS
  NTABLES,                            \* KernelMap's
  MAXCONF, Name, Fold, Star, Value, Long,  \* Bootargs'
  Half, Whole,                        \* DramProbe's
  PerBlock, NBlock,                   \* Uncache's
  Rate, MaxRx,                        \* Uart's
  File,    \* what plan9.ini may be: [lines, newline, high], Bootargs' variables
  Nousb,   \* the name "*nousbehci"
  Tries    \* how often ehcireset looks: 100 times

VARIABLES
  mpc, call, maps, tables, on, text, uart, tlb,
  file, newline, high, at, conf, env,
  dpc, real, cell, cache, found, last, fetched,
  upc, req, split, l0, given, utlb, lines,
  bpc, want, asked, ier, dlab, divisor, rx, intr, spilt,
  stage,   \* where main, and then the first process, is
  ready,   \* what has its clocks and is out of reset: "mmc0", "usb1", "phy1"
  hcreset, \* Chcreset in the controller's cmd register
  tries    \* ehcireset's i

K == INSTANCE KernelMap
B == INSTANCE Bootargs
D == INSTANCE DramProbe
N == INSTANCE Uncache
S == INSTANCE Uart

(* The parts' assumptions, and main's own. *)
ASSUME BootAssumption ==
  /\ K!NTablesAssumption
  /\ B!MaxconfAssumption /\ B!FoldAssumption /\ B!StarAssumption /\ B!LongAssumption
  /\ D!SizeAssumption /\ N!BlockAssumption /\ S!MaxRxAssumption
  /\ File \subseteq [lines : Seq(B!Line), newline : BOOLEAN, high : BOOLEAN]
  /\ \A f \in File : B!Begins(f.lines, f.high)
  /\ Nousb \in Name /\ Tries \in Nat \ {0}

kvars == <<mpc, call, maps, tables, on, text, uart, tlb>>
bvars == <<file, newline, high, at, conf, env>>
dvars == <<dpc, real, cell, cache, found, last, fetched>>
nvars == <<upc, req, split, l0, given, utlb, lines>>
svars == <<bpc, want, asked, ier, dlab, divisor, rx, intr, spilt>>
vars == <<kvars, bvars, dvars, nvars, svars, stage, ready, hcreset, tries>>
usb == <<ready, hcreset, tries>>

Init ==
  /\ K!Init /\ B!Init({<<>>}, {FALSE}, {FALSE}) /\ D!Init /\ N!Init /\ S!Init
  /\ stage = "start" /\ ready = {} /\ hcreset = FALSE /\ tries = 0

-----------------------------------------------------------------------------
(* main is at a, and no interrupt has the hart. *)
In(a) == stage = a /\ ~intr
To(a) == stage' = a

(* l.s, up to main.  plan9.ini, there since U-Boot, is any from here on.     *)
Start ==
  /\ In("start") /\ (K!Step \/ K!Fill)
  /\ IF mpc' = "main"
     THEN /\ To("args")
          /\ \E f \in File : file' = f.lines /\ newline' = f.newline /\ high' = f.high
     ELSE UNCHANGED <<stage, file, newline, high>>
  /\ UNCHANGED <<at, conf, env, dvars, nvars, svars, usb>>

Args ==
  /\ In("args") /\ To("traps") /\ B!Bootargsinit
  /\ UNCHANGED <<kvars, dvars, nvars, svars, usb>>

(* Bound: a part whose last call of main's has been made is forgotten, so    *)
(* that its outcomes do not multiply those of the next.                      *)
ForgetDram ==
  /\ dpc' = "done" /\ real' = Half /\ cell' = [a \in D!Addr |-> "old"]
  /\ cache' = [a \in D!Addr |-> D!Absent] /\ found' = Half /\ last' = "none" /\ fetched' = FALSE

ForgetUncache ==
  /\ upc' = "idle" /\ req' = [v |-> 0, size |-> 0] /\ split' = {}
  /\ l0' = [p \in N!Page |-> [pa |-> 0, c |-> FALSE]]
  /\ given' = {} /\ utlb' = {} /\ lines' = {}

(* cpuclockinit and trapinit are in Ccu and Clock. *)
Trapinit ==
  /\ In("traps") /\ To("conf")
  /\ UNCHANGED <<kvars, bvars, dvars, nvars, svars, usb>>

(* confinit *)
Confinit ==
  /\ In("conf") /\ (D!Step \/ D!Hardware)
  /\ IF dpc' = "done" THEN To("mmc0enable") ELSE UNCHANGED stage
  /\ UNCHANGED <<kvars, bvars, nvars, svars, usb>>

(* What could go wrong: the card's controller stays in reset. *)
Mmc0enableForgotten ==
  /\ In("mmc0enable") /\ To("smhcprobe") /\ ForgetDram
  /\ UNCHANGED <<kvars, bvars, nvars, svars, usb>>

Mmc0enable ==
  /\ In("mmc0enable") /\ To("smhcprobe") /\ ForgetDram
  /\ ready' = ready \union {"mmc0"}
  /\ UNCHANGED <<kvars, bvars, nvars, svars, hcreset, tries>>

Smhcprobe ==
  /\ In("smhcprobe") /\ To("uartreset")
  /\ UNCHANGED <<kvars, bvars, dvars, nvars, svars, usb>>

(* chandevreset: devuart's reset enables the console ... *)
Uartreset ==
  /\ In("uartreset") /\ To("usbreset") /\ S!Suartenable
  /\ UNCHANGED <<kvars, bvars, dvars, nvars, usb>>

(* What could go wrong: the host is reset whatever plan9.ini says. *)
UsbresetAlways ==
  /\ In("usbreset") /\ To("usb1enable")
  /\ UNCHANGED <<kvars, bvars, dvars, nvars, svars, usb>>

(* ... and devusb's calls the host's reset(), which leaves it off if it is   *)
(* told to. *)
Usbreset ==
  /\ In("usbreset") /\ To(IF B!Getconf(Nousb) THEN "init0" ELSE "usb1enable")
  /\ UNCHANGED <<kvars, bvars, dvars, nvars, svars, usb>>

Usb1enable ==
  /\ In("usb1enable") /\ To("phy1enable")
  /\ ready' = ready \union {"usb1"}
  /\ UNCHANGED <<kvars, bvars, dvars, nvars, svars, hcreset, tries>>

Phy1enable ==
  /\ In("phy1enable") /\ To("ehcireset")
  /\ ready' = ready \union {"phy1"}
  /\ UNCHANGED <<kvars, bvars, dvars, nvars, svars, hcreset, tries>>

(* ehcireset up to its loop, interrupts masked. *)
Ehcireset ==
  /\ In("ehcireset") /\ To("ehciwait")
  /\ hcreset' = TRUE /\ tries' = 0
  /\ UNCHANGED <<kvars, bvars, dvars, nvars, svars, ready>>

(* After the loop: the controller's frame-list size, which may be one that   *)
(* nobody knows.  One that reads all ones is in reset for ever and has it so. *)
Fls == To("ehcimeminit") \/ To("unknownfls")

(* What could go wrong: the loop waits for the controller. *)
EhciwaitForever ==
  /\ In("ehciwait")
  /\ IF ~hcreset THEN Fls /\ UNCHANGED tries
     ELSE UNCHANGED <<stage, tries>>
  /\ UNCHANGED <<kvars, bvars, dvars, nvars, svars, ready, hcreset>>

(* One turn of it; a controller that never leaves its reset is printed.      *)
Ehciwait ==
  /\ In("ehciwait")
  /\ IF ~hcreset \/ tries = Tries
     THEN Fls /\ tries' = 0
     ELSE tries' = tries + 1 /\ UNCHANGED stage
  /\ UNCHANGED <<kvars, bvars, dvars, nvars, svars, ready, hcreset>>

(* The controller leaves its reset, some time. *)
Controller ==
  /\ hcreset /\ hcreset' = FALSE
  /\ UNCHANGED <<kvars, bvars, dvars, nvars, svars, stage, ready, tries>>

(* ehcimeminit (port/) calls ucalloc, which calls mmuuncache when it needs   *)
(* another megabyte.                                                         *)
Ehcimeminit ==
  /\ In("ehcimeminit") /\ (N!Call \/ N!NoTable \/ N!Step \/ N!Hardware)
  /\ UNCHANGED <<kvars, bvars, dvars, svars, stage, usb>>

Meminitdone ==
  /\ In("ehcimeminit") /\ upc = "idle" /\ To("init0") /\ ForgetUncache
  /\ UNCHANGED <<kvars, bvars, dvars, svars, usb>>

(* It may not get what it asks for: mmuuncache has no page for splitblock,   *)
(* or ucalloc none to begin with.  What port/ does then is not here: it goes *)
(* on, or it panics.                                                         *)
Meminitfails ==
  /\ In("ehcimeminit") /\ upc = "idle" /\ To("nomemory") /\ ForgetUncache
  /\ UNCHANGED <<kvars, bvars, dvars, svars, usb>>

(* schedinit starts the first process, and that its environment.  init0 goes *)
(* on after an error of ksetenv. *)
Init0 ==
  /\ In("init0") /\ To("up") /\ B!Setconfenv
  /\ UNCHANGED <<kvars, dvars, nvars, svars, usb>>

(* main has panicked, and the machine does nothing more. *)
Panic == {"unknownfls", "nomemory"}

(* The console, from chandevreset on; a process may change its rate.         *)
Console ==
  /\ stage \notin Panic
  /\ \/ S!Receive \/ S!Interrupt \/ S!Suartintr
     \/ stage = "up" /\ (S!Suartkick \/ S!BaudStep \/ \E d \in Rate : S!Baud(d))
  /\ UNCHANGED <<kvars, bvars, dvars, nvars, stage, usb>>

(* main's own steps, without what the processor and the devices do.          *)
Go ==
  \/ stage = "start" /\ K!Step /\ Start
  \/ Args \/ Trapinit
  \/ stage = "conf" /\ D!Step /\ Confinit
  \/ Mmc0enable \/ Smhcprobe \/ Uartreset \/ Usbreset
  \/ Usb1enable \/ Phy1enable \/ Ehcireset \/ Ehciwait
  \/ stage = "ehcimeminit" /\ N!Step /\ Ehcimeminit
  \/ Meminitdone \/ Meminitfails \/ Init0

Next ==
  \/ Start \/ Args \/ Trapinit \/ Confinit \/ Mmc0enable \/ Smhcprobe \/ Uartreset
  \/ Usbreset \/ Usb1enable \/ Phy1enable \/ Ehcireset \/ Ehciwait \/ Ehcimeminit
  \/ Meminitdone \/ Meminitfails \/ Init0 \/ Controller \/ Console

(* Interrupts only put main off: each step of it is taken if it can be again *)
(* and again.  suartintr's loop ends if the line is slower than the hart.    *)
Spec == Init /\ [][Next]_vars
FairSpec ==
  /\ Spec
  /\ SF_vars(Go)
  /\ SF_vars(S!Interrupt /\ Console)
  /\ \A n \in 0 .. MaxRx : SF_vars(rx = n /\ S!Suartintr /\ Console)

-----------------------------------------------------------------------------
(* Every variable has its type. *)
TypeOK ==
  /\ (stage = "start" => K!TypeOK) /\ B!TypeOK /\ D!TypeOK /\ N!TypeOK /\ S!TypeOK
  /\ stage \in {"start", "args", "traps", "conf", "mmc0enable", "smhcprobe", "uartreset",
               "usbreset", "usb1enable", "phy1enable", "ehcireset", "ehciwait", "ehcimeminit",
               "init0", "up"} \union Panic
  /\ ready \subseteq {"mmc0", "usb1", "phy1"}
  /\ hcreset \in BOOLEAN /\ tries \in 0 .. Tries

(* The parts' own, in the order main calls them; nothing touches the map     *)
(* after _start.  KernelMap: there are tables enough for every call of       *)
(* mmubootstrap (mmu.c:20), instructions and console are found through every *)
(* change of the map (l.s), and mmulowdrop leaves nothing of the low half    *)
(* and all of the high one.                                                  *)
MapSound == stage \in {"start", "args"} => K!TablesSuffice /\ K!Reaches /\ K!LowFree

(* Bootargs: main's getconf and, at the end of it all, the first process get *)
(* what plan9.ini says.                                                      *)
ConfTrue == B!ConfTrue /\ B!EnvTrue

(* DramProbe: dramsize misses no memory.                                     *)
DramFound == D!DramFound

(* Uncache: memory given to the USB host is in no cache, and all other       *)
(* memory as it was.                                                         *)
Uncached == N!Uncached

(* Uart: suartbaud leaves the rate it was asked for.                         *)
RateKept == S!RateKept

(* Uart: what is received is read, or the handler is stuck in the latch, as  *)
(* long as main does not panic.                                              *)
ReceiveEnds == [](stage \notin Panic) => S!ReceiveEnds

(* No register of a controller is touched before its clocks, its reset and   *)
(* its PHY are up and KADDR leads to it: an access to a gated device stops   *)
(* the bus, and the hart with it.                                            *)
Touched ==
  CASE stage = "smhcprobe" -> K!PHYSMMC0
    [] stage \in {"phy1enable", "ehcireset", "ehciwait", "ehcimeminit"} -> K!PHYSEHCI1
    [] OTHER -> K!PHYSUART0
DevicesReady ==
  stage # "start" =>
    /\ K!Goes(K!KADDR(Touched)) = Touched
    /\ Touched = K!PHYSMMC0 => "mmc0" \in ready
    /\ Touched = K!PHYSEHCI1 => "usb1" \in ready
    /\ stage \in {"ehcireset", "ehciwait", "ehcimeminit"} => "phy1" \in ready

(* main comes to its end, whatever is received meanwhile, with a controller  *)
(* that never leaves its reset (usbehcisun20i.c:68) and when memory fails:   *)
(* the first process runs, or main has panicked, and that only for the sake  *)
(* of the USB host (usbehcisun20i.c:90): a plan9.ini that says *nousbehci    *)
(* always brings the machine up.                                             *)
BootEnds == <>(stage = "up" \/ (stage \in Panic /\ B!Lines(Nousb) = {}))
=============================================================================
