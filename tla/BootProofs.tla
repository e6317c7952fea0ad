------------------------------ MODULE BootProofs ------------------------------
(* Theorems about Boot: what main's parts promise, for any number and size   *)
(* of blocks, any rates, any FIFO, any file and any number of tries.         *)
EXTENDS Boot, FiniteSetTheorems, TLAPS

-----------------------------------------------------------------------------
(* dramsize: the words in the cache and in memory while it has not found the *)
(* size yet.  From its store on, the lower word is dirty till it is let go;  *)
(* the upper one is not there before its own.                                *)
DramOK ==
  /\ D!TypeOK
  /\ dpc \in {"save", "storelo", "storehi"} => ~cache["hi"].in /\ last # "hi"
  /\ dpc \in {"storehi", "test"} =>
       /\ cache["lo"].in => cache["lo"].v = "55aa" /\ cache["lo"].dirty
       /\ real = Whole /\ ~cache["lo"].in => cell["lo"] = "55aa"
  /\ dpc = "test" =>
       /\ cache["hi"].in => cache["hi"].v = "aa55"
       /\ real = Half /\ last = "hi" => cell["lo"] = "aa55"
  /\ dpc \notin {"restore", "done"} => found = "unknown" /\ ~fetched
  /\ dpc \in {"restore", "done"} => DramFound

(* mmuuncache: where it is, which leaves it has changed. *)
Stretch(v, n) == v .. v + n - 1
Within(v, n) ==
  /\ v \in N!Page /\ n \in 1 .. PerBlock /\ Stretch(v, n) \subseteq N!Page \ given
  /\ N!BlockOf(v) = N!BlockOf(v + n - 1)

UncacheOK ==
  /\ N!TypeOK
  /\ \A p \in N!Page : N!Leaf(p).pa = p
  /\ \A p \in given : ~N!Leaf(p).c /\ p \notin utlb \union lines
  /\ upc # "idle" => Within(req.v, req.size)
  /\ upc \in {"idle", "split", "clear"} => \A p \in N!Page \ given : N!Leaf(p).c
  /\ upc = "split" => N!BlockOf(req.v) \notin split
  /\ upc \in {"clear", "fence", "flush"} => N!BlockOf(req.v) \in split
  /\ upc \in {"fence", "flush"} =>
       \A p \in N!Page \ given : N!Leaf(p).c <=> p \notin N!Asked
  /\ upc = "flush" => N!Asked \intersect utlb = {}

(* The console: a change of rate is made by a process, after it was enabled. *)
Early == {"start", "args", "traps", "conf", "mmc0enable", "smhcprobe", "uartreset"}
UartOK ==
  /\ bpc \in {"idle", "open", "divisor", "close"}
  /\ stage \in Early => bpc = "idle" /\ asked = "uboot"
  /\ stage \notin Early => ier
  /\ dlab <=> bpc \in {"divisor", "close"}
  /\ bpc = "idle" => spilt \/ divisor = asked
  /\ bpc = "close" => spilt \/ divisor = want

(* The gates, in the order main opens them. *)
Host == {"phy1enable", "ehcireset", "ehciwait", "ehcimeminit"}
ReadyOK ==
  /\ stage = "smhcprobe" => "mmc0" \in ready
  /\ stage \in Host => "usb1" \in ready
  /\ stage \in Host \ {"phy1enable"} => "phy1" \in ready

(* The map, till mmulowdrop has left the high half of it. *)
Called(n) == {K!Calls[i] : i \in 1 .. n}
MapOK ==
  /\ stage # "start" <=> mpc = "main"
  /\ on <=> mpc \notin {"map", "stopped", "satp"}
  /\ mpc = "map" => call \in 1 .. Len(K!Calls) /\ maps = Called(call - 1)
  /\ mpc \in {"satp", "jump", "uarthigh", "lowdrop"} => maps = Called(Len(K!Calls))
  /\ mpc = "main" => maps = {r \in Called(Len(K!Calls)) : K!PTLX(r.va, 2) \notin {0, 1}}

-----------------------------------------------------------------------------
(* What the parts assume, as it is used. *)
LEMMA Assumed ==
  /\ Half # Whole
  /\ PerBlock \in Nat \ {0} /\ NBlock \in Nat \ {0}
  /\ MaxRx \in Nat \ {0}
BY BootAssumption DEF D!SizeAssumption, N!BlockAssumption, S!MaxRxAssumption

(* What a step of main, or of what runs beside it, is for each part. *)
DramStep == UNCHANGED dvars \/ D!Step \/ D!Hardware \/ ForgetDram
UncacheStep ==
  UNCHANGED nvars \/ N!Call \/ N!NoTable \/ N!Step \/ N!Hardware \/ ForgetUncache
Printing == stage = "up" /\ (S!Suartkick \/ S!BaudStep \/ \E d \in Rate : S!Baud(d))
UartStep ==
  \/ UNCHANGED svars
  \/ stage = "uartreset" /\ S!Suartenable
  \/ S!Receive \/ S!Interrupt \/ S!Suartintr \/ Printing
MapStep == UNCHANGED kvars \/ (stage = "start" /\ (K!Step \/ K!Fill))

(* dramsize sees its own steps, the cache's, and that it is forgotten. *)
LEMMA DramParts == Next => DramStep
BY DEF Next, DramStep, Start, Args, Trapinit, Confinit, Mmc0enable, Smhcprobe, Uartreset,
       Usbreset, Usb1enable, Phy1enable, Ehcireset, Ehciwait, Fls, Controller, Ehcimeminit,
       Meminitdone, Meminitfails, Init0, Console

(* mmuuncache likewise. *)
LEMMA UncacheParts == Next => UncacheStep
BY DEF Next, UncacheStep, Start, Args, Trapinit, Confinit, Mmc0enable, Smhcprobe, Uartreset,
       Usbreset, Usb1enable, Phy1enable, Ehcireset, Ehciwait, Fls, Controller, Ehcimeminit,
       Meminitdone, Meminitfails, Init0, Console

(* The console, which other processes use once main is through. *)
LEMMA UartParts == Next => UartStep
BY DEF Next, UartStep, Printing, Start, Args, Trapinit, Confinit, Mmc0enable, Smhcprobe,
       Uartreset, Usbreset, Usb1enable, Phy1enable, Ehcireset, Ehciwait, Fls, Controller,
       Ehcimeminit, Meminitdone, Meminitfails, Init0, Console, In

(* The map changes before main only. *)
LEMMA MapParts == Next => MapStep
BY DEF Next, MapStep, Start, Args, Trapinit, Confinit, Mmc0enable, Smhcprobe, Uartreset,
       Usbreset, Usb1enable, Phy1enable, Ehcireset, Ehciwait, Fls, Controller, Ehcimeminit,
       Meminitdone, Meminitfails, Init0, Console, In

(* Where main may go from where it is. *)
LEMMA Stages ==
  ASSUME Next
  PROVE  \/ stage' = stage
         \/ stage = "start" /\ stage' = "args" /\ mpc' = "main"
         \/ stage \in Early \ {"uartreset"} /\ stage' \in Early \ {"start"}
         \/ stage = "uartreset" /\ stage' = "usbreset"
         \/ stage \notin Early /\ stage' \notin Early
BY DEF Next, Early, Start, Args, Trapinit, Confinit, Mmc0enable, Smhcprobe, Uartreset,
       Usbreset, Usb1enable, Phy1enable, Ehcireset, Ehciwait, Fls, Controller, Ehcimeminit,
       Meminitdone, Meminitfails, Init0, Console, In, To

-----------------------------------------------------------------------------
(* The size of DRAM. *)

(* Nothing is stored yet. *)
LEMMA DramInit == Init => DramOK
<1> SUFFICES ASSUME Init PROVE DramOK
  OBVIOUS
<1>1. /\ dpc = "save" /\ real \in {Half, Whole} /\ cell = [a \in D!Addr |-> "old"]
      /\ cache = [a \in D!Addr |-> D!Absent] /\ found = "unknown" /\ last = "none"
      /\ fetched = FALSE
  BY DEF Init, D!Init
<1>2. D!TypeOK
  BY <1>1 DEF D!TypeOK, D!Word, D!Absent
<1>3. QED
  BY <1>1, <1>2 DEF DramOK, D!Addr, D!Absent

(* Forgotten, dramsize is as after a run that found what there is. *)
LEMMA ForgetDramKeeps == ForgetDram => DramOK'
<1> SUFFICES ASSUME ForgetDram PROVE DramOK'
  OBVIOUS
<1>1. /\ dpc' = "done" /\ real' = Half /\ cell' = [a \in D!Addr |-> "old"]
      /\ cache' = [a \in D!Addr |-> D!Absent] /\ found' = Half /\ last' = "none"
      /\ fetched' = FALSE
  BY DEF ForgetDram
<1>2. D!TypeOK'
  BY <1>1 DEF D!TypeOK, D!Word, D!Absent
<1>3. DramFound'
  BY <1>1, Assumed DEF DramFound, D!DramFound
<1>4. QED
  BY <1>1, <1>2, <1>3 DEF DramOK

(* The cache and memory, word by word. *)
LEMMA DramTypes ==
  ASSUME D!TypeOK, NEW a \in D!Addr
  PROVE  /\ cache[a].in \in BOOLEAN /\ cache[a].dirty \in BOOLEAN /\ cache[a].v \in D!Word
         /\ cell[a] \in D!Word /\ D!Cell(a) \in D!Addr /\ D!Read(a) \in D!Word
         /\ real \in {Half, Whole}
BY DEF D!TypeOK, D!Cell, D!Read, D!Addr

(* dramsize, store by store. *)
LEMMA DramStepKeeps ==
  ASSUME DramOK, D!Step
  PROVE  DramOK'
<1>1. D!TypeOK /\ Half # Whole
  BY Assumed DEF DramOK
<1>2. /\ "lo" \in D!Addr /\ "hi" \in D!Addr /\ "lo" # "hi"
      /\ cache \in [D!Addr -> [in : BOOLEAN, dirty : BOOLEAN, v : D!Word]]
      /\ cell \in [D!Addr -> D!Word]
      /\ D!Read("lo") \in D!Word /\ real \in {Half, Whole}
      /\ {"old", "55aa", "aa55"} = D!Word
  BY <1>1, DramTypes DEF D!Addr, D!TypeOK, D!Word
<1>3. CASE D!Save
  <2>1. /\ dpc = "save" /\ dpc' = "storelo" /\ UNCHANGED <<real, cell, found, last, fetched>>
        /\ cache' = [cache EXCEPT !["lo"] =
             IF @.in THEN @ ELSE [in |-> TRUE, dirty |-> FALSE, v |-> D!Read("lo")]]
    BY <1>3 DEF D!Save, D!Goes, D!Load
  <2>2. D!TypeOK'
    BY <1>1, <1>2, <2>1 DEF D!TypeOK
  <2>3. QED
    BY <1>2, <2>1, <2>2 DEF DramOK
<1>4. CASE D!StoreLo
  <2>1. /\ dpc = "storelo" /\ dpc' = "storehi" /\ UNCHANGED <<real, cell, found, last, fetched>>
        /\ cache' = [cache EXCEPT !["lo"] = [in |-> TRUE, dirty |-> TRUE, v |-> "55aa"]]
    BY <1>4 DEF D!StoreLo, D!Goes, D!Store
  <2>2. D!TypeOK'
    BY <1>1, <1>2, <2>1 DEF D!TypeOK
  <2>3. QED
    BY <1>2, <2>1, <2>2 DEF DramOK
<1>5. CASE D!StoreHi
  <2>1. /\ dpc = "storehi" /\ dpc' = "test" /\ UNCHANGED <<real, cell, found, last, fetched>>
        /\ cache' = [cache EXCEPT !["hi"] = [in |-> TRUE, dirty |-> TRUE, v |-> "aa55"]]
    BY <1>5 DEF D!StoreHi, D!Goes, D!Store
  <2>2. D!TypeOK'
    BY <1>1, <1>2, <2>1 DEF D!TypeOK
  <2>3. QED
    BY <1>2, <2>1, <2>2 DEF DramOK
<1>6. CASE D!Test
  <2>1. /\ dpc = "test" /\ dpc' = "restore" /\ UNCHANGED <<real, cell, last>>
        /\ cache' = [cache EXCEPT !["lo"] =
             IF @.in THEN @ ELSE [in |-> TRUE, dirty |-> FALSE, v |-> D!Read("lo")]]
        /\ found' = (IF D!Read("lo") = "55aa" THEN Whole ELSE Half)
        /\ fetched' = (~cache["lo"].in /\ last = "hi")
    BY <1>6 DEF D!Test, D!Goes, D!Load
  <2>2. D!TypeOK'
    <3>1. fetched' \in BOOLEAN
      BY <2>1
    <3>2. QED
      BY <1>1, <1>2, <2>1, <3>1 DEF D!TypeOK
  <2>3. D!Read("lo") = IF cache["lo"].in THEN cache["lo"].v ELSE cell["lo"]
    BY DEF D!Read, D!Cell
  <2>4. real = Whole => found' = Whole
    BY <2>1, <2>3 DEF DramOK
  <2>5. fetched' => found' = real
    BY <1>2, <2>1, <2>3, <2>4 DEF DramOK
  <2>6. QED
    BY <2>1, <2>2, <2>4, <2>5 DEF DramOK, DramFound, D!DramFound
<1>7. CASE D!Restore
  <2>1. /\ dpc = "restore" /\ dpc' = "done" /\ UNCHANGED <<real, found>>
        /\ cell' = [a \in D!Addr |-> "old"] /\ cache' = [a \in D!Addr |-> D!Absent]
        /\ last' = "none" /\ fetched' = FALSE
    BY <1>7 DEF D!Restore, D!Goes
  <2>2. D!TypeOK'
    BY <1>1, <2>1 DEF D!TypeOK, D!Word, D!Absent
  <2>3. QED
    BY <2>1, <2>2 DEF DramOK, DramFound, D!DramFound
<1>8. QED
  BY <1>3, <1>4, <1>5, <1>6, <1>7 DEF D!Step

(* A word that the cache lets go reaches memory if it is dirty. *)
LEMMA EvictKeeps ==
  ASSUME DramOK, NEW a \in D!Addr, D!Evict(a)
  PROVE  DramOK'
<1>1. /\ D!TypeOK /\ a \in {"lo", "hi"} /\ Half # Whole
      /\ cache \in [D!Addr -> [in : BOOLEAN, dirty : BOOLEAN, v : D!Word]]
      /\ cell \in [D!Addr -> D!Word]
      /\ D!Cell(a) = (IF real = Half THEN "lo" ELSE a)
      /\ D!Addr = {"lo", "hi"} /\ D!Word = {"old", "55aa", "aa55"}
      /\ D!Absent = [in |-> FALSE, dirty |-> FALSE, v |-> "old"]
  BY Assumed DEF DramOK, D!TypeOK, D!Cell, D!Addr, D!Word, D!Absent
<1>2. /\ cache[a].in /\ cache' = [cache EXCEPT ![a] = D!Absent]
      /\ UNCHANGED <<dpc, real, found, fetched>>
      /\ IF cache[a].dirty
         THEN cell' = [cell EXCEPT ![D!Cell(a)] = cache[a].v] /\ last' = a
         ELSE UNCHANGED <<cell, last>>
  BY DEF D!Evict
<1>3. D!TypeOK'
  <2>1. cache' \in [D!Addr -> [in : BOOLEAN, dirty : BOOLEAN, v : D!Word]]
    BY <1>1, <1>2
  <2>2. cell' \in [D!Addr -> D!Word]
    BY <1>1, <1>2
  <2>3. last' \in D!Addr \union {"none"}
    BY <1>1, <1>2 DEF D!TypeOK
  <2>4. QED
    BY <1>1, <1>2, <2>1, <2>2, <2>3 DEF D!TypeOK
<1>4. /\ \A b \in D!Addr : cache'[b] = IF b = a THEN D!Absent ELSE cache[b]
      /\ cache[a].dirty => \A b \in D!Addr : cell'[b] = IF b = D!Cell(a) THEN cache[a].v ELSE cell[b]
  BY <1>1, <1>2
<1>5. real \in {Half, Whole}
  BY <1>1 DEF D!TypeOK
<1>6. CASE a = "lo"
  BY <1>1, <1>2, <1>3, <1>4, <1>5, <1>6 DEF DramOK, DramFound, D!DramFound
<1>7. CASE a = "hi"
  BY <1>1, <1>2, <1>3, <1>4, <1>5, <1>7 DEF DramOK, DramFound, D!DramFound
<1>8. QED
  BY <1>1, <1>6, <1>7

(* All that happens to it. *)
LEMMA DramKeeps == DramOK /\ DramStep => DramOK'
<1> SUFFICES ASSUME DramOK, DramStep PROVE DramOK'
  OBVIOUS
<1>1. CASE UNCHANGED dvars
  BY <1>1 DEF DramOK, dvars, D!TypeOK, DramFound, D!DramFound
<1>2. CASE D!Step
  BY <1>2, DramStepKeeps
<1>3. CASE D!Hardware
  BY <1>3, EvictKeeps DEF D!Hardware
<1>4. CASE ForgetDram
  BY <1>4, ForgetDramKeeps
<1>5. QED
  BY <1>1, <1>2, <1>3, <1>4 DEF DramStep

-----------------------------------------------------------------------------
(* The console. *)

(* U-Boot's rate. *)
LEMMA UartInit == Init => UartOK
BY DEF Init, S!Init, UartOK, Early

(* The rate, the latch and the receive interrupt, step by step. *)
LEMMA UartKeeps ==
  ASSUME UartOK, Next
  PROVE  UartOK'
<1>1. /\ stage \notin Early => stage' \notin Early
      /\ stage \in Early \ {"uartreset"} => stage' \in Early
  BY Stages DEF Early
<1>2. stage = "uartreset" /\ stage' # stage => S!Suartenable
  BY DEF Next, Start, Args, Trapinit, Confinit, Mmc0enable, Smhcprobe, Uartreset, Usbreset,
         Usb1enable, Phy1enable, Ehcireset, Ehciwait, Fls, Controller, Ehcimeminit,
         Meminitdone, Meminitfails, Init0, Console, In, To
<1>3. CASE S!Suartenable /\ stage = "uartreset"
  BY <1>1, <1>3 DEF UartOK, S!Suartenable, Early
<1>4. CASE UNCHANGED svars \/ S!Receive \/ S!Interrupt \/ S!Suartintr
  <2>1. UNCHANGED <<bpc, want, asked, ier, dlab, divisor, spilt>>
    BY <1>4 DEF svars, S!Receive, S!Interrupt, S!Suartintr
  <2>2. stage = "uartreset" /\ stage' # stage => ier'
    BY <1>2, <2>1 DEF S!Suartenable
  <2>3. QED
    BY <1>1, <2>1, <2>2 DEF UartOK, Early
<1>5. CASE Printing
  <2>1. stage' \notin Early /\ stage \notin Early /\ ier
    BY <1>1, <1>5 DEF Printing, Early, UartOK
  <2>2. CASE S!Suartkick
    BY <2>1, <2>2 DEF UartOK, S!Suartkick
  <2>3. CASE \E d \in Rate : S!Baud(d)
    BY <2>1, <2>3 DEF UartOK, S!Baud
  <2>4. CASE S!BaudOpen
    BY <2>1, <2>4 DEF UartOK, S!BaudOpen
  <2>5. CASE S!BaudDivisor
    BY <2>1, <2>5 DEF UartOK, S!BaudDivisor
  <2>6. CASE S!BaudClose
    BY <2>1, <2>6 DEF UartOK, S!BaudClose
  <2>7. QED
    BY <1>5, <2>2, <2>3, <2>4, <2>5, <2>6 DEF Printing, S!BaudStep
<1>6. QED
  BY <1>3, <1>4, <1>5, UartParts DEF UartStep

-----------------------------------------------------------------------------
(* The gates. *)

(* No gate is open, and main is before all of them. *)
LEMMA ReadyInit == Init => ReadyOK
BY DEF Init, ReadyOK, Host

(* Gates are opened in order and none is closed again. *)
LEMMA ReadyKeeps ==
  ASSUME ReadyOK, Next
  PROVE  ReadyOK'
<1>1. ready \subseteq ready'
  BY DEF Next, Start, Args, Trapinit, Confinit, Mmc0enable, Smhcprobe, Uartreset, Usbreset,
         Usb1enable, Phy1enable, Ehcireset, Ehciwait, Fls, Controller, Ehcimeminit,
         Meminitdone, Meminitfails, Init0, Console, usb
<1>2. stage' = "smhcprobe" => stage = "smhcprobe" \/ "mmc0" \in ready'
  BY DEF Next, Start, Args, Trapinit, Confinit, Mmc0enable, Smhcprobe, Uartreset, Usbreset,
         Usb1enable, Phy1enable, Ehcireset, Ehciwait, Fls, Controller, Ehcimeminit,
         Meminitdone, Meminitfails, Init0, Console, In, To
<1>3. stage' \in Host => stage \in Host \/ (stage' = "phy1enable" /\ "usb1" \in ready')
  BY DEF Next, Start, Args, Trapinit, Confinit, Mmc0enable, Smhcprobe, Uartreset, Usbreset,
         Usb1enable, Phy1enable, Ehcireset, Ehciwait, Fls, Controller, Ehcimeminit,
         Meminitdone, Meminitfails, Init0, Console, In, To, Host
<1>4. stage' \in Host \ {"phy1enable"} =>
        stage \in Host \ {"phy1enable"} \/ "phy1" \in ready'
  BY DEF Next, Start, Args, Trapinit, Confinit, Mmc0enable, Smhcprobe, Uartreset, Usbreset,
         Usb1enable, Phy1enable, Ehcireset, Ehciwait, Fls, Controller, Ehcimeminit,
         Meminitdone, Meminitfails, Init0, Console, In, To, Host
<1>5. QED
  BY <1>1, <1>2, <1>3, <1>4 DEF ReadyOK

-----------------------------------------------------------------------------
(* Blocks of PerBlock pages, and the pages of each: products grow ... *)
LEMMA Grows ==
  ASSUME NEW k \in Nat, NEW a \in Int, NEW b \in Int, a <= b
  PROVE  k * a <= k * b
OBVIOUS

(* Division, ... *)
LEMMA Quotient ==
  ASSUME NEW a \in Nat, NEW b \in Nat, b > 0
  PROVE  /\ a \div b \in Nat /\ a % b \in 0 .. b - 1
         /\ a = b * (a \div b) + (a % b)
OBVIOUS

(* ... and what makes a number a quotient. *)
LEMMA QuotientIs ==
  ASSUME NEW a \in Nat, NEW b \in Nat, b > 0, NEW q \in Nat
  PROVE  b * q <= a /\ a < b * q + b <=> q = a \div b
<1> DEFINE d == a \div b
<1>1. d \in Nat /\ b * d <= a /\ a < b * d + b
  BY Quotient
<1> HIDE DEF d
<1>2. ASSUME b * q <= a, a < b * q + b
      PROVE  q = d
  <2>1. ~ (q + 1 <= d)
    <3>1. q + 1 <= d => b * (q + 1) <= b * d
      BY <1>1, Grows
    <3>2. b * (q + 1) = b * q + b
      OBVIOUS
    <3>3. QED
      BY <1>1, <1>2, <3>1, <3>2
  <2>2. ~ (d + 1 <= q)
    <3>1. d + 1 <= q => b * (d + 1) <= b * q
      BY <1>1, Grows
    <3>2. b * (d + 1) = b * d + b
      BY <1>1
    <3>3. QED
      BY <1>1, <1>2, <3>1, <3>2
  <2>3. QED
    BY <1>1, <2>1, <2>2
<1>3. QED
  BY <1>1, <1>2 DEF d

(* Every page is in one block, at its remainder. *)
LEMMA PageBlock ==
  ASSUME NEW p \in N!Page
  PROVE  /\ p \in Nat /\ N!BlockOf(p) \in N!Block
         /\ p % PerBlock \in 0 .. PerBlock - 1
         /\ p = N!BlockOf(p) * PerBlock + (p % PerBlock)
         /\ \A b \in N!Block : p \in N!PagesOf(b) <=> N!BlockOf(p) = b
<1>1. p \in Nat /\ PerBlock \in Nat /\ PerBlock > 0 /\ NBlock \in Nat
      /\ p < NBlock * PerBlock
  BY Assumed DEF N!Page
<1> DEFINE q == p \div PerBlock
           r == p % PerBlock
<1>2. q \in Nat /\ r \in 0 .. PerBlock - 1 /\ p = PerBlock * q + r
  BY <1>1, Quotient
<1>3. \A b \in Nat : PerBlock * b <= p /\ p < PerBlock * b + PerBlock <=> b = q
  BY <1>1, QuotientIs
<1> HIDE DEF q, r
<1>4. q < NBlock
  <2>1. NBlock <= q => PerBlock * NBlock <= PerBlock * q
    BY <1>1, <1>2, Grows
  <2>2. PerBlock * NBlock = NBlock * PerBlock
    BY <1>1
  <2>3. QED
    BY <1>1, <1>2, <2>1, <2>2
<1>5. ASSUME NEW b \in N!Block
      PROVE  p \in N!PagesOf(b) <=> q = b
  <2>1. b \in Nat
    BY DEF N!Block
  <2>2. b * PerBlock = PerBlock * b /\ (b + 1) * PerBlock = PerBlock * b + PerBlock
    BY <1>1, <2>1
  <2>3. PerBlock * b \in Int /\ (PerBlock * b + PerBlock) \in Int
    BY <1>1, <2>1
  <2>4. p \in N!PagesOf(b) <=> PerBlock * b <= p /\ p <= PerBlock * b + PerBlock - 1
    BY <1>1, <2>2, <2>3 DEF N!PagesOf
  <2>5. QED
    BY <1>1, <1>3, <2>1, <2>3, <2>4
<1>6. q * PerBlock = PerBlock * q
  BY <1>1, <1>2
<1>7. QED
  BY <1>1, <1>2, <1>4, <1>5, <1>6 DEF q, r, N!BlockOf, N!Block

(* All pages of a range that begins and ends in a block are in it. *)
LEMMA Inside ==
  ASSUME NEW v, NEW n, Within(v, n), NEW p \in Stretch(v, n)
  PROVE  N!BlockOf(p) = N!BlockOf(v)
<1>1. v \in N!Page /\ n \in 1 .. PerBlock /\ Stretch(v, n) \subseteq N!Page
      /\ N!BlockOf(v) = N!BlockOf(v + n - 1)
  BY DEF Within
<1>2. v \in Nat /\ n \in Nat /\ n > 0
  BY <1>1, PageBlock, Assumed
<1>3. p \in N!Page /\ v + n - 1 \in N!Page
  BY <1>1, <1>2 DEF Stretch
<1> DEFINE b == N!BlockOf(v)
<1>4. b \in N!Block /\ v \in N!PagesOf(b) /\ v + n - 1 \in N!PagesOf(b)
  BY <1>1, <1>3, PageBlock
<1> HIDE DEF b
<1>5. b * PerBlock \in Int /\ (b + 1) * PerBlock \in Int
  BY <1>4, Assumed DEF N!Block
<1>6. p \in N!PagesOf(b)
  BY <1>2, <1>4, <1>5 DEF N!PagesOf, Stretch
<1>7. QED
  BY <1>3, <1>4, <1>6, PageBlock DEF b

-----------------------------------------------------------------------------
(* Uncached memory. *)

(* No block is split, no page given. *)
LEMMA FreshUncache ==
  /\ Init => UncacheOK
  /\ ForgetUncache => UncacheOK'
<1>1. PerBlock \in Nat /\ PerBlock > 0 /\ NBlock \in Nat /\ NBlock > 0 /\ 0 \in N!Page
  <2>1. PerBlock \in Nat /\ PerBlock > 0 /\ NBlock \in Nat /\ NBlock > 0
    BY Assumed
  <2>2. PerBlock * 1 <= PerBlock * NBlock
    BY <2>1, Grows
  <2>3. PerBlock * 1 = PerBlock /\ PerBlock * NBlock = NBlock * PerBlock
        /\ NBlock * PerBlock \in Nat
    BY <2>1
  <2>4. QED
    BY <2>1, <2>2, <2>3 DEF N!Page
<1>2. ASSUME Init
      PROVE  UncacheOK
  <2>1. upc = "idle" /\ req = [v |-> 0, size |-> 0] /\ split = {} /\ given = {}
        /\ l0 = [p \in N!Page |-> [pa |-> 0, c |-> FALSE]] /\ utlb = {} /\ lines = {}
    BY <1>2 DEF Init, N!Init
  <2>2. N!TypeOK
    BY <1>1, <2>1 DEF N!TypeOK
  <2>3. QED
    BY <2>1, <2>2 DEF UncacheOK, N!Leaf
<1>3. ASSUME ForgetUncache
      PROVE  UncacheOK'
  <2>1. upc' = "idle" /\ req' = [v |-> 0, size |-> 0] /\ split' = {} /\ given' = {}
        /\ l0' = [p \in N!Page |-> [pa |-> 0, c |-> FALSE]] /\ utlb' = {} /\ lines' = {}
    BY <1>3 DEF ForgetUncache
  <2>2. N!TypeOK'
    BY <1>1, <2>1 DEF N!TypeOK
  <2>3. QED
    BY <2>1, <2>2 DEF UncacheOK, N!Leaf
<1>4. QED
  BY <1>2, <1>3

(* A call: its range is in one block, in no hands. *)
LEMMA StartKeeps ==
  ASSUME UncacheOK, NEW v \in N!Page, NEW n \in 1 .. PerBlock, N!Start(v, n)
  PROVE  UncacheOK'
<1>1. /\ upc = "idle" /\ upc' = (IF N!BlockOf(v) \in split THEN "clear" ELSE "split")
      /\ req' = [v |-> v, size |-> n] /\ UNCHANGED <<split, l0, given, utlb, lines>>
      /\ Within(v, n)
  BY DEF N!Start, Within, Stretch
<1>2. N!TypeOK'
  <2>1. n \in 0 .. PerBlock
    BY Assumed
  <2>2. QED
    BY <1>1, <2>1 DEF UncacheOK, N!TypeOK
<1>3. /\ \A p \in N!Page : N!Leaf(p)' = N!Leaf(p)
      /\ req'.v = v /\ req'.size = n
  BY <1>1 DEF N!Leaf
<1>4. Within(req.v, req.size)'
  BY <1>1, <1>3 DEF Within
<1>5. N!BlockOf(req.v)' = N!BlockOf(v)
  BY <1>1 DEF N!BlockOf
<1>6. /\ \A p \in N!Page : N!Leaf(p)'.pa = p
      /\ \A p \in given' : ~N!Leaf(p)'.c /\ p \notin utlb' \union lines'
      /\ \A p \in N!Page \ given' : N!Leaf(p)'.c
  <2>1. given \subseteq N!Page
    BY DEF UncacheOK, N!TypeOK
  <2>2. QED
    BY <1>1, <1>3, <2>1 DEF UncacheOK
<1>7. QED
  BY <1>1, <1>2, <1>4, <1>5, <1>6 DEF UncacheOK

(* splitblock leaves every page what it was. *)
LEMMA SplitKeeps ==
  ASSUME UncacheOK, N!Splitblock
  PROVE  UncacheOK'
<1> DEFINE b == N!BlockOf(req.v)
<1>1. /\ upc = "split" /\ upc' = "clear" /\ utlb' = {} /\ UNCHANGED <<req, given, lines>>
      /\ l0' = [p \in N!Page |-> IF p \in N!PagesOf(b) THEN [pa |-> p, c |-> TRUE] ELSE l0[p]]
      /\ split' = split \union {b}
  BY DEF N!Splitblock
<1>2. N!TypeOK /\ Within(req.v, req.size) /\ b \notin split
  BY <1>1 DEF UncacheOK
<1>3. b \in N!Block
  BY <1>2, PageBlock DEF Within
<1>4. \A p \in N!Page : p \in N!PagesOf(b) <=> N!BlockOf(p) = b
  BY <1>3, PageBlock
<1> HIDE DEF b
<1>5. N!TypeOK'
  <2>1. \A p \in N!Page : l0'[p] \in [pa : N!Page, c : BOOLEAN]
    BY <1>1, <1>2 DEF N!TypeOK
  <2>2. l0' \in [N!Page -> [pa : N!Page, c : BOOLEAN]]
    BY <1>1, <2>1
  <2>3. QED
    BY <1>1, <1>2, <1>3, <2>2 DEF N!TypeOK
<1>6. \A p \in N!Page : N!Leaf(p)' = N!Leaf(p)
  BY <1>1, <1>2, <1>4 DEF N!Leaf
<1>7. /\ \A p \in N!Page : N!Leaf(p)'.pa = p
      /\ \A p \in given' : ~N!Leaf(p)'.c /\ p \notin utlb' \union lines'
      /\ \A p \in N!Page \ given' : N!Leaf(p)'.c
  <2>1. given \subseteq N!Page
    BY <1>2 DEF N!TypeOK
  <2>2. QED
    BY <1>1, <1>6, <2>1 DEF UncacheOK
<1>8. N!BlockOf(req.v)' \in split'
  BY <1>1 DEF b, N!BlockOf
<1>9. Within(req.v, req.size)'
  BY <1>1, <1>2 DEF Within
<1>10. QED
  BY <1>1, <1>5, <1>7, <1>8, <1>9 DEF UncacheOK

(* The leaves that lose C are those of the pages asked for, none else. *)
LEMMA ClearKeeps ==
  ASSUME UncacheOK, N!Clear
  PROVE  UncacheOK'
<1> DEFINE b == N!BlockOf(req.v)
           cleared == {b * PerBlock + (p % PerBlock) : p \in N!Asked}
<1>1. /\ upc = "clear" /\ upc' = "fence" /\ UNCHANGED <<req, split, given, utlb, lines>>
      /\ l0' = [p \in N!Page |-> IF p \in cleared THEN [l0[p] EXCEPT !.c = FALSE] ELSE l0[p]]
  BY DEF N!Clear
<1>2. N!TypeOK /\ Within(req.v, req.size) /\ b \in split
  BY <1>1 DEF UncacheOK
<1>3. N!Asked = Stretch(req.v, req.size) /\ N!Asked \subseteq N!Page \ given
  BY <1>2 DEF N!Asked, Stretch, Within
<1>4. \A p \in N!Asked : N!BlockOf(p) = b
  BY <1>2, <1>3, Inside
<1>5. cleared = N!Asked
  BY <1>3, <1>4, PageBlock
<1> HIDE DEF b, cleared
<1>6. N!TypeOK'
  <2>1. \A p \in N!Page : l0'[p] \in [pa : N!Page, c : BOOLEAN]
    <3> SUFFICES ASSUME NEW p \in N!Page
                 PROVE  l0'[p] \in [pa : N!Page, c : BOOLEAN]
      OBVIOUS
    <3>1. l0[p] \in [pa : N!Page, c : BOOLEAN]
      BY <1>2 DEF N!TypeOK
    <3>2. [l0[p] EXCEPT !.c = FALSE] \in [pa : N!Page, c : BOOLEAN]
      BY <3>1
    <3>3. l0'[p] \in {[l0[p] EXCEPT !.c = FALSE], l0[p]}
      BY <1>1
    <3>4. QED
      BY <3>1, <3>2, <3>3
  <2>2. l0' \in [N!Page -> [pa : N!Page, c : BOOLEAN]]
    BY <1>1, <2>1
  <2>3. QED
    BY <1>1, <1>2, <2>2 DEF N!TypeOK
<1>7. \A p \in N!Page :
        /\ N!Leaf(p)'.pa = N!Leaf(p).pa
        /\ N!Leaf(p)'.c = IF p \in N!Asked THEN FALSE ELSE N!Leaf(p).c
  <2> SUFFICES ASSUME NEW p \in N!Page
               PROVE  /\ N!Leaf(p)'.pa = N!Leaf(p).pa
                      /\ N!Leaf(p)'.c = IF p \in N!Asked THEN FALSE ELSE N!Leaf(p).c
    OBVIOUS
  <2>1. p \in N!Asked => N!BlockOf(p) \in split
    BY <1>2, <1>4
  <2>2. l0[p] \in [pa : N!Page, c : BOOLEAN]
    BY <1>2 DEF N!TypeOK
  <2>3. QED
    BY <1>1, <1>5, <2>1, <2>2 DEF N!Leaf
<1>8. N!Asked' = N!Asked
  BY <1>1 DEF N!Asked
<1>9. \A p \in N!Page \ given : N!Leaf(p).c
  BY <1>1 DEF UncacheOK
<1>10. \A p \in given : p \notin N!Asked
  BY <1>3
<1>11. QED
  <2>1. \A p \in N!Page : N!Leaf(p)'.pa = p
    BY <1>7 DEF UncacheOK
  <2>2. \A p \in given' : ~N!Leaf(p)'.c /\ p \notin utlb' \union lines'
    BY <1>1, <1>2, <1>7, <1>10 DEF UncacheOK, N!TypeOK
  <2>3. \A p \in N!Page \ given' : N!Leaf(p)'.c <=> p \notin N!Asked'
    BY <1>1, <1>7, <1>8, <1>9
  <2>4. Within(req.v, req.size)'
    BY <1>1, <1>2 DEF Within
  <2>5. (N!BlockOf(req.v) \in split)'
    BY <1>1, <1>2 DEF b
  <2>6. QED
    BY <1>1, <1>6, <2>1, <2>2, <2>3, <2>4, <2>5 DEF UncacheOK

(* The fence, dcflush and the processor change no leaf. *)
LEMMA UncacheStepKeeps ==
  ASSUME UncacheOK, \/ N!NoTable \/ N!Fence \/ N!Dcflush \/ N!Hardware
                    \/ UNCHANGED nvars
  PROVE  UncacheOK'
<1>1. UNCHANGED <<req, split, l0>>
  BY DEF N!NoTable, N!Fence, N!Dcflush, N!Hardware, N!Fill, N!Fetch, nvars
<1>2. /\ \A p \in N!Page : N!Leaf(p)' = N!Leaf(p)
      /\ N!Asked' = N!Asked
  BY <1>1 DEF N!Leaf, N!Asked
<1>3. /\ given' = given => Within(req.v, req.size)' = Within(req.v, req.size)
      /\ N!BlockOf(req.v)' = N!BlockOf(req.v)
  BY <1>1 DEF Within, N!BlockOf
<1>4. /\ N!TypeOK /\ given \subseteq N!Page
      /\ upc # "idle" => Within(req.v, req.size) /\ N!Asked \subseteq N!Page \ given
  BY DEF UncacheOK, N!TypeOK, Within, N!Asked, Stretch
<1>5. CASE N!NoTable
  <2>1. upc = "split" /\ upc' = "idle" /\ UNCHANGED <<given, utlb, lines>>
    BY <1>5 DEF N!NoTable
  <2>2. N!TypeOK'
    BY <1>1, <1>4, <2>1 DEF N!TypeOK
  <2>3. /\ \A p \in given' : ~N!Leaf(p)'.c /\ p \notin utlb' \union lines'
        /\ \A p \in N!Page \ given' : N!Leaf(p)'.c
    BY <1>2, <1>4, <2>1 DEF UncacheOK
  <2>4. QED
    BY <1>2, <2>1, <2>2, <2>3 DEF UncacheOK
<1>6. CASE N!Fence
  <2>1. upc = "fence" /\ upc' = "flush" /\ utlb' = {} /\ UNCHANGED <<given, lines>>
    BY <1>6 DEF N!Fence
  <2>2. N!TypeOK'
    BY <1>1, <1>4, <2>1 DEF N!TypeOK
  <2>3. \A p \in given' : ~N!Leaf(p)'.c /\ p \notin utlb' \union lines'
    BY <1>2, <1>4, <2>1 DEF UncacheOK
  <2>4. \A p \in N!Page \ given' : N!Leaf(p)'.c <=> p \notin N!Asked'
    BY <1>2, <2>1 DEF UncacheOK
  <2>5. Within(req.v, req.size)' /\ N!BlockOf(req.v)' \in split'
    BY <1>1, <1>3, <1>4, <2>1 DEF UncacheOK
  <2>6. QED
    BY <1>2, <2>1, <2>2, <2>3, <2>4, <2>5 DEF UncacheOK
<1>7. CASE N!Dcflush
  <2>1. /\ upc = "flush" /\ upc' = "idle" /\ lines' = lines \ N!Asked
        /\ given' = given \union N!Asked /\ UNCHANGED utlb
    BY <1>7 DEF N!Dcflush
  <2>2. N!TypeOK'
    BY <1>1, <1>4, <2>1 DEF N!TypeOK
  <2>3. \A p \in given' : ~N!Leaf(p).c /\ p \notin utlb' \union lines'
    BY <1>4, <2>1 DEF UncacheOK
  <2>4. \A p \in N!Page \ given' : N!Leaf(p).c
    BY <2>1 DEF UncacheOK
  <2>5. given' \subseteq N!Page
    BY <1>4, <2>1
  <2>6. QED
    BY <1>1, <1>2, <2>1, <2>2, <2>3, <2>4, <2>5 DEF UncacheOK
<1>8. CASE N!Fill
  <2>1. utlb' = utlb \union {p \in N!Page : N!Leaf(p).c} /\ UNCHANGED <<upc, given, lines>>
    BY <1>8 DEF N!Fill
  <2>2. N!TypeOK'
    BY <1>1, <1>4, <2>1 DEF N!TypeOK
  <2>3. \A p \in given : p \notin utlb'
    BY <2>1 DEF UncacheOK
  <2>4. upc = "flush" => N!Asked \intersect utlb' = {}
    BY <1>4, <2>1 DEF UncacheOK
  <2>5. QED
    BY <1>1, <1>2, <1>3, <1>4, <2>1, <2>2, <2>3, <2>4 DEF UncacheOK
<1>9. CASE N!Fetch
  <2>1. lines' = lines \union utlb /\ UNCHANGED <<upc, given, utlb>>
    BY <1>9 DEF N!Fetch
  <2>2. N!TypeOK'
    BY <1>1, <1>4, <2>1 DEF N!TypeOK
  <2>3. QED
    BY <1>1, <1>2, <1>3, <1>4, <2>1, <2>2 DEF UncacheOK
<1>10. CASE UNCHANGED nvars
  <2>1. UNCHANGED <<upc, given, utlb, lines>>
    BY <1>10 DEF nvars
  <2>2. N!TypeOK'
    BY <1>1, <1>4, <2>1 DEF N!TypeOK
  <2>3. QED
    BY <1>1, <1>2, <1>3, <1>4, <2>1, <2>2 DEF UncacheOK
<1>11. QED
  BY <1>5, <1>6, <1>7, <1>8, <1>9, <1>10 DEF N!Hardware

(* All that happens to it. *)
LEMMA UncacheKeeps == UncacheOK /\ UncacheStep => UncacheOK'
BY StartKeeps, SplitKeeps, ClearKeeps, UncacheStepKeeps, FreshUncache
   DEF UncacheStep, N!Call, N!Step

-----------------------------------------------------------------------------
(* The map: mmubootstrap's ranges, as a set. *)
Ranges == {K!Dram} \union {K!Devices[i] : i \in 1 .. 7}
RangeOK(r) ==
  /\ r.va = r.pa /\ r.pa \in Nat /\ r.pa <= K!PHYSDRAM
  /\ K!High(r).va = K!KADDR(r.va) /\ K!High(r).pa = r.pa /\ K!High(r).n = r.n

(* Seven in a row. *)
LEMMA Tuple7 ==
  ASSUME NEW T, NEW a \in T, NEW b \in T, NEW c \in T, NEW d \in T, NEW e \in T, NEW f \in T,
         NEW g \in T
  PROVE  /\ <<a, b, c, d, e, f, g>> \in Seq(T) /\ Len(<<a, b, c, d, e, f, g>>) = 7
         /\ \A i \in 1 .. 7 : <<a, b, c, d, e, f, g>>[i] \in {a, b, c, d, e, f, g}
OBVIOUS

(* A range that begins at its own address, and its high image. *)
LEMMA PagesIs ==
  ASSUME NEW va, NEW n, NEW attr
  PROVE  /\ K!Pages(va, va, n, attr).va = va /\ K!Pages(va, va, n, attr).pa = va
         /\ K!Pages(va, va, n, attr).n = n
         /\ K!High(K!Pages(va, va, n, attr)).va = K!KADDR(va)
         /\ K!High(K!Pages(va, va, n, attr)).pa = va
         /\ K!High(K!Pages(va, va, n, attr)).n = n
         /\ K!Blocks(va, va, n, attr).va = va /\ K!Blocks(va, va, n, attr).pa = va
         /\ K!Blocks(va, va, n, attr).n = n
         /\ K!High(K!Blocks(va, va, n, attr)).va = K!KADDR(va)
         /\ K!High(K!Blocks(va, va, n, attr)).pa = va
         /\ K!High(K!Blocks(va, va, n, attr)).n = n
BY DEF K!Pages, K!Blocks, K!High

Bases ==
  {K!PHYSPIO, K!PHYSWDTRISCV, K!PHYSMMC0, K!PHYSEHCI1, K!PHYSPLIC, K!PHYSPLICEN,
   K!PHYSPLICCTL, K!PHYSDRAM}

(* mem.h and io.h, as far as they matter here. *)
LEMMA Numerals ==
  /\ \A a \in Bases : a \in Nat /\ a <= K!PHYSDRAM
  /\ K!KZERO = K!PHYSDRAM * 510 /\ 512^2 = K!PHYSDRAM /\ K!PHYSDRAM > 0
  /\ K!PHYSUART0 >= K!PHYSPIO /\ K!PHYSUART0 < K!PHYSPIO + K!PHYSPIOSIZE /\ K!PHYSUART0 \in Nat
  /\ K!PHYSPIOSIZE \in Nat
BY SMT DEF Bases, K!PHYSPIO, K!PHYSWDTRISCV, K!PHYSMMC0, K!PHYSEHCI1, K!PHYSPLIC, K!PHYSPLICEN,
       K!PHYSPLICCTL, K!PHYSDRAM, K!KZERO, K!PHYSUART0, K!PHYSPIOSIZE

(* The three controllers that main touches. *)
LEMMA Distinct ==
  /\ K!PHYSUART0 # K!PHYSMMC0 /\ K!PHYSUART0 # K!PHYSEHCI1 /\ K!PHYSMMC0 # K!PHYSEHCI1
BY SMT DEF K!PHYSUART0, K!PHYSMMC0, K!PHYSEHCI1

(* The ranges are those of the tuple, each its own address, none above DRAM. *)
LEMMA DevicesAre ==
  /\ K!Devices \in Seq(Ranges) /\ Len(K!Devices) = 7
  /\ \A r \in Ranges : RangeOK(r)
  /\ K!Pages(K!PHYSPIO, K!PHYSPIO, K!PHYSPIOSIZE, "dev") \in Ranges
  /\ K!Pages(K!PHYSMMC0, K!PHYSMMC0, 1, "dev") \in Ranges
  /\ K!Pages(K!PHYSEHCI1, K!PHYSEHCI1, 1, "dev") \in Ranges
<1> DEFINE P(a, n) == K!Pages(a, a, n, "dev")
           T == {P(K!PHYSPIO, K!PHYSPIOSIZE), P(K!PHYSWDTRISCV, 1), P(K!PHYSMMC0, 1),
                 P(K!PHYSEHCI1, 1), P(K!PHYSPLIC, 1), P(K!PHYSPLICEN, 1), P(K!PHYSPLICCTL, 1)}
<1>1. K!Devices = <<P(K!PHYSPIO, K!PHYSPIOSIZE), P(K!PHYSWDTRISCV, 1), P(K!PHYSMMC0, 1),
                 P(K!PHYSEHCI1, 1), P(K!PHYSPLIC, 1), P(K!PHYSPLICEN, 1), P(K!PHYSPLICCTL, 1)>>
  BY DEF K!Devices
<1>2. RangeOK(K!Dram)
  BY PagesIs, Numerals DEF K!Dram, RangeOK
<1>3. \A r \in T : RangeOK(r)
  <2>1. \A a, n : a \in Nat /\ a <= K!PHYSDRAM => RangeOK(P(a, n))
    BY PagesIs DEF RangeOK
  <2>2. \A a \in Bases : \A n : RangeOK(P(a, n))
    BY <2>1, Numerals, Zenon
  <2> HIDE DEF P
  <2>3. QED
    BY <2>2, Zenon DEF Bases
<1> HIDE DEF P
<1>4. Len(K!Devices) = 7 /\ \A i \in 1 .. 7 : K!Devices[i] \in T
  BY <1>1, Tuple7
<1>5. /\ K!Devices[1] = P(K!PHYSPIO, K!PHYSPIOSIZE) /\ K!Devices[3] = P(K!PHYSMMC0, 1)
      /\ K!Devices[4] = P(K!PHYSEHCI1, 1)
  BY <1>1
<1>6. T \subseteq Ranges
  BY <1>1 DEF Ranges
<1>7. K!Devices \in Seq(Ranges)
  BY <1>1, <1>6, Tuple7
<1>8. QED
  BY <1>2, <1>3, <1>4, <1>5, <1>6, <1>7 DEF Ranges, P

-----------------------------------------------------------------------------
(* mmubootstrap makes all its calls. *)

(* What is in a sequence; of two, what is in either. *)
Elems(s) == {s[i] : i \in 1 .. Len(s)}

(* The same of two in a row. *)
LEMMA Concat ==
  ASSUME NEW T, NEW s \in Seq(T), NEW t \in Seq(T)
  PROVE  /\ s \o t \in Seq(T) /\ Len(s \o t) = Len(s) + Len(t)
         /\ Elems(s \o t) = Elems(s) \union Elems(t)
<1>1. /\ s \o t \in Seq(T) /\ Len(s \o t) = Len(s) + Len(t)
      /\ Len(s) \in Nat /\ Len(t) \in Nat
  OBVIOUS
<1>2. \A i \in 1 .. Len(s) : (s \o t)[i] = s[i] /\ i \in 1 .. Len(s \o t)
  OBVIOUS
<1>3. \A i \in 1 .. Len(t) : (s \o t)[i + Len(s)] = t[i] /\ i + Len(s) \in 1 .. Len(s \o t)
  OBVIOUS
<1>4. \A i \in 1 .. Len(s \o t) : i \in 1 .. Len(s) \/ i - Len(s) \in 1 .. Len(t)
  BY <1>1
<1>5. ASSUME NEW i \in 1 .. Len(s \o t)
      PROVE  (s \o t)[i] \in Elems(s) \union Elems(t)
  <2>1. CASE i \in 1 .. Len(s)
    BY <1>2, <2>1 DEF Elems
  <2>2. CASE i - Len(s) \in 1 .. Len(t)
    BY <1>1, <1>3, <2>2 DEF Elems
  <2>3. QED
    BY <1>4, <2>1, <2>2
<1>6. Elems(s \o t) \subseteq Elems(s) \union Elems(t)
  BY <1>5 DEF Elems
<1>7. Elems(s) \subseteq Elems(s \o t)
  BY <1>2 DEF Elems
<1>8. Elems(t) \subseteq Elems(s \o t)
  BY <1>3 DEF Elems
<1>9. QED
  BY <1>1, <1>6, <1>7, <1>8

(* mmubootstrap's calls, as sets: every range low, and the same range high.  *)
LEMMA CallsAre ==
  /\ Len(K!Identity) = 8 /\ Elems(K!Identity) = Ranges
  /\ Len(K!Calls) = 16
  /\ Called(16) = Ranges \union {K!High(r) : r \in Ranges}
<1> DEFINE n == Len(K!Identity)
           above == [i \in 1 .. n |-> K!High(K!Identity[i])]
           T == Ranges \union {K!High(r) : r \in Ranges}
<1>1. /\ <<K!Dram>> \in Seq(Ranges) /\ Len(<<K!Dram>>) = 1 /\ Elems(<<K!Dram>>) = {K!Dram}
  BY DEF Ranges, Elems
<1>2. /\ K!Identity \in Seq(Ranges) /\ n = 8 /\ Elems(K!Identity) = Ranges
  <2>1. K!Identity = <<K!Dram>> \o K!Devices
    BY DEF K!Identity
  <2>2. Elems(K!Devices) = {K!Devices[i] : i \in 1 .. 7} /\ Len(K!Devices) = 7
        /\ K!Devices \in Seq(Ranges)
    BY DevicesAre DEF Elems
  <2>3. /\ K!Identity \in Seq(Ranges) /\ n = 1 + 7
        /\ Elems(K!Identity) = {K!Dram} \union {K!Devices[i] : i \in 1 .. 7}
    <3>1. /\ K!Identity \in Seq(Ranges)
          /\ Len(K!Identity) = Len(<<K!Dram>>) + Len(K!Devices)
          /\ Elems(K!Identity) = Elems(<<K!Dram>>) \union Elems(K!Devices)
      BY <1>1, <2>1, <2>2, Concat, Zenon
    <3>2. QED
      BY <1>1, <2>2, <3>1
  <2>4. QED
    BY <2>3 DEF Ranges
<1>3. above \in Seq(T) /\ Len(above) = 8 /\ Elems(above) = {K!High(r) : r \in Ranges}
  <2>1. \A i \in 1 .. 8 : K!Identity[i] \in Ranges
    BY <1>2 DEF Elems
  <2>2. above \in Seq(T) /\ Len(above) = 8
    BY <1>2, <2>1
  <2>3. Elems(above) = {K!High(K!Identity[i]) : i \in 1 .. 8}
    BY <1>2, <2>2 DEF Elems
  <2>4. QED
    BY <1>2, <2>3 DEF Elems
<1>4. K!Identity \in Seq(T)
  BY <1>2
<1>5. K!Calls = above \o K!Identity
  BY DEF K!Calls
<1>6. /\ Len(K!Calls) = 16
      /\ Elems(K!Calls) = Ranges \union {K!High(r) : r \in Ranges}
  <2> HIDE DEF above, T
  <2>0. above \in Seq(T)
    BY <1>3
  <2>1. /\ Len(above \o K!Identity) = Len(above) + Len(K!Identity)
        /\ Elems(above \o K!Identity) = Elems(above) \union Elems(K!Identity)
    BY <2>0, <1>4, Concat, SMT
  <2>2. QED
    BY <1>2, <1>3, <1>5, <2>1
<1>7. QED
  BY <1>2, <1>6 DEF Called, Elems

(* Nothing is mapped yet. *)
LEMMA MapInit == Init => MapOK
BY CallsAre DEF Init, K!Init, MapOK, Called

(* Every call adds its range; mmulowdrop leaves the high ones. *)
LEMMA MapKeeps ==
  ASSUME MapOK, Next
  PROVE  MapOK'
<1>1. \/ UNCHANGED kvars /\ (stage' = "start" <=> stage = "start")
      \/ stage = "start" /\ (K!Step \/ K!Fill) /\ (stage' # "start" <=> mpc' = "main")
  <2>1. CASE Start
    BY <2>1 DEF Start, In, To
  <2>2. CASE ~Start
    BY <2>2, Stages DEF Next, Args, Trapinit, Confinit, Mmc0enable, Smhcprobe, Uartreset,
           Usbreset, Usb1enable, Phy1enable, Ehcireset, Ehciwait, Fls, Controller,
           Ehcimeminit, Meminitdone, Meminitfails, Init0, Console, In, To
  <2>3. QED
    BY <2>1, <2>2
<1>2. Len(K!Calls) = 16
  BY CallsAre
<1>3. CASE UNCHANGED kvars /\ (stage' = "start" <=> stage = "start")
  BY <1>3 DEF MapOK, kvars
<1>4. ASSUME stage = "start", stage' # "start" <=> mpc' = "main", K!Mapcall
      PROVE  MapOK'
  <2>1. mpc = "map" /\ call' = call + 1 /\ maps' = maps \union {K!Calls[call]}
        /\ mpc' \in {"stopped", "satp", "map"} /\ (mpc' = "satp" => call = 16)
        /\ (mpc' = "map" => call # 16) /\ UNCHANGED on
    BY <1>2, <1>4 DEF K!Mapcall
  <2>2. call \in 1 .. 16 /\ maps = Called(call - 1)
    BY <1>2, <2>1 DEF MapOK
  <2>3. maps' = Called(call)
    BY <2>1, <2>2 DEF Called
  <2>4. call' - 1 = call
    BY <2>1, <2>2
  <2>5. QED
    BY <1>2, <1>4, <2>1, <2>2, <2>3, <2>4 DEF MapOK
<1>5. ASSUME stage = "start", stage' # "start" <=> mpc' = "main",
             K!Satp \/ K!Jump \/ K!Uarthigh \/ K!Fill
      PROVE  MapOK'
  BY <1>5 DEF MapOK, K!Satp, K!Jump, K!Uarthigh, K!Fill
<1>6. ASSUME stage = "start", stage' # "start" <=> mpc' = "main", K!Mmulowdrop
      PROVE  MapOK'
  <2>1. K!PTLX(K!PHYSTEXT, 2) = 1 /\ K!PTLX(K!PHYSPIO, 2) = 0
    BY SMT DEF K!PTLX, K!PHYSTEXT, K!PHYSPIO
  <2>2. /\ mpc = "lowdrop" /\ mpc' = "main" /\ UNCHANGED on
        /\ maps' = {r \in maps : K!PTLX(r.va, 2) \notin {0, 1}}
    BY <1>6, <2>1 DEF K!Mmulowdrop
  <2>3. QED
    BY <1>6, <2>2 DEF MapOK
<1>7. QED
  BY <1>1, <1>3, <1>4, <1>5, <1>6 DEF K!Step

(* A page of the identity map is below the two entries that mmulowdrop       *)
(* leaves, its high image in one of them.                                    *)
LEMMA Halves ==
  ASSUME NEW a \in Nat, a <= K!PHYSDRAM
  PROVE  K!PTLX(a, 2) \in {0, 1} /\ K!PTLX(K!KADDR(a), 2) \in {510, 511}
<1> DEFINE q == K!PHYSDRAM
<1>1. q \in Nat /\ q > 0 /\ 512^2 = q /\ K!KADDR(a) = a + q * 510
  BY Numerals DEF K!KADDR, Bases
<1> HIDE DEF q
<1>2. a <= q
  BY DEF q
<1>3. a \div q \in {0, 1} /\ (a + q * 510) \div q \in {510, 511}
  <2>1. CASE a < q
    <3>1. /\ q * 0 <= a /\ a < q * 0 + q
          /\ q * 510 <= a + q * 510 /\ a + q * 510 < q * 510 + q /\ a + q * 510 \in Nat
      BY <1>1, <2>1
    <3>2. 0 = a \div q /\ 510 = (a + q * 510) \div q
      BY <1>1, <3>1, QuotientIs
    <3>3. QED
      BY <3>2
  <2>2. CASE a = q
    <3>1. /\ q * 1 <= a /\ a < q * 1 + q
          /\ q * 511 <= a + q * 510 /\ a + q * 510 < q * 511 + q /\ a + q * 510 \in Nat
      BY <1>1, <2>2
    <3>2. 1 = a \div q /\ 511 = (a + q * 510) \div q
      BY <1>1, <3>1, QuotientIs
    <3>3. QED
      BY <3>2
  <2>3. QED
    BY <1>1, <1>2, <2>1, <2>2
<1>4. QED
  BY SMT, <1>1, <1>3 DEF K!PTLX

(* In main the map leads from KADDR of a device to the device. *)
LEMMA KaddrFound ==
  ASSUME MapOK, mpc = "main", NEW pa \in {K!PHYSUART0, K!PHYSMMC0, K!PHYSEHCI1}
  PROVE  K!Goes(K!KADDR(pa)) = pa
<1>1. on /\ maps = {r \in Ranges \union {K!High(r) : r \in Ranges} : K!PTLX(r.va, 2) \notin {0, 1}}
  BY CallsAre DEF MapOK
<1>2. \A r \in Ranges : r.va = r.pa /\ r.pa \in Nat /\ r.pa <= K!PHYSDRAM
  BY DevicesAre DEF RangeOK
<1>3. \A r \in Ranges : K!High(r).va = K!KADDR(r.va) /\ K!High(r).pa = r.pa /\ K!High(r).n = r.n
  BY DevicesAre DEF RangeOK
<1>4. \A r \in maps : \E s \in Ranges : r = K!High(s)
  BY <1>1, <1>2, Halves
<1>5. \A s \in Ranges : K!High(s) \in maps
  BY <1>1, <1>2, <1>3, Halves
<1>6. \A r \in maps : r.va = K!KADDR(r.pa) /\ r.pa \in Nat
  BY <1>2, <1>3, <1>4
<1>7. pa \in Nat /\ \E s \in Ranges : s.pa <= pa /\ pa < s.pa + s.n /\ s.n \in Nat
  <2> DEFINE P(a, n) == K!Pages(a, a, n, "dev")
  <2>1. /\ P(K!PHYSPIO, K!PHYSPIOSIZE) \in Ranges /\ P(K!PHYSMMC0, 1) \in Ranges
        /\ P(K!PHYSEHCI1, 1) \in Ranges
    BY DevicesAre
  <2>2. /\ P(K!PHYSPIO, K!PHYSPIOSIZE).pa = K!PHYSPIO
        /\ P(K!PHYSPIO, K!PHYSPIOSIZE).n = K!PHYSPIOSIZE
        /\ P(K!PHYSMMC0, 1).pa = K!PHYSMMC0 /\ P(K!PHYSMMC0, 1).n = 1
        /\ P(K!PHYSEHCI1, 1).pa = K!PHYSEHCI1 /\ P(K!PHYSEHCI1, 1).n = 1
    BY PagesIs
  <2> HIDE DEF P
  <2>3. CASE pa = K!PHYSUART0
    BY SMT, <2>1, <2>2, <2>3, Numerals
  <2>4. CASE pa = K!PHYSMMC0
    BY SMT, <2>1, <2>2, <2>4, Numerals DEF Bases
  <2>5. CASE pa = K!PHYSEHCI1
    BY SMT, <2>1, <2>2, <2>5, Numerals DEF Bases
  <2>6. QED
    BY <2>3, <2>4, <2>5
<1> DEFINE kz == K!KZERO
<1>8. kz \in Int /\ \A a : K!KADDR(a) = a + kz
  BY Numerals DEF K!KADDR, Bases
<1> HIDE DEF kz
<1>9. \E r \in maps : K!Holds(r, K!KADDR(pa))
  <2>1. PICK s \in Ranges : s.pa <= pa /\ pa < s.pa + s.n /\ s.n \in Nat
    BY <1>7
  <2>2. K!High(s) \in maps /\ s.pa \in Nat
        /\ K!High(s).va = s.pa + kz /\ K!High(s).n = s.n
    BY <1>2, <1>3, <1>5, <1>8
  <2>3. s.pa + kz <= pa + kz /\ pa + kz < (s.pa + kz) + s.n
    BY <1>7, <1>8, <2>1, <2>2
  <2>4. K!Holds(K!High(s), K!KADDR(pa))
    BY <1>8, <2>2, <2>3 DEF K!Holds
  <2>5. QED
    BY <2>2, <2>4
<1> DEFINE r == CHOOSE r \in maps : K!Holds(r, K!KADDR(pa))
<1>10. r \in maps
  BY <1>9
<1>11. K!Goes(K!KADDR(pa)) = r.pa + (K!KADDR(pa) - r.va)
  BY <1>1, <1>9 DEF K!Goes, K!Translate
<1> HIDE DEF r
<1>12. r.pa \in Nat /\ r.va = r.pa + kz
  BY <1>6, <1>8, <1>10
<1>13. r.pa + ((pa + kz) - (r.pa + kz)) = pa
  BY <1>7, <1>8, <1>12
<1>14. QED
  BY <1>8, <1>11, <1>12, <1>13

-----------------------------------------------------------------------------
(* Induction, without an operator for the induction hypothesis: a set of     *)
(* naturals that has 0 and every successor is Nat.  The successor would map  *)
(* the finitely many of its members below a missing k to themselves, one to  *)
(* one, and so onto 0.                                                       *)
LEMMA Induction ==
  ASSUME NEW Q \in SUBSET Nat, 0 \in Q, \A m \in Q : m + 1 \in Q, NEW k \in Nat
  PROVE  k \in Q
<1> SUFFICES ASSUME k \notin Q PROVE FALSE
  OBVIOUS
<1> DEFINE E == {m \in Q : m < k}
           succ == [m \in E |-> m + 1]
<1>1. E \subseteq Nat /\ \A m \in E : m <= k
  <2>1. \A m \in E : m \in Nat /\ m < k
    OBVIOUS
  <2>2. \A m \in Nat : m < k => m <= k
    OBVIOUS
  <2> HIDE DEF E
  <2>3. QED
    BY <2>1, <2>2
<1>2. 0 \in E /\ \A m \in E : m + 1 \in E
  <2>1. \A m \in Q : m # k
    OBVIOUS
  <2>2. 0 < k
    BY <2>1
  <2>3. ASSUME NEW m \in E PROVE m + 1 \in E
    <3>1. m + 1 \in Q /\ m + 1 # k /\ m < k /\ m \in Nat
      BY <2>1
    <3>2. m + 1 < k
      BY <3>1
    <3>3. QED
      BY <3>1, <3>2
  <2>4. QED
    BY <2>2, <2>3
<1>3. IsFiniteSet(E)
  <2> HIDE DEF E
  <2>1. QED
    BY <1>1, FS_BoundedSetOfNaturals
<1>4. succ \in Injection(E, E)
  <2>1. succ \in [E -> E]
    BY <1>2
  <2>2. \A m, n \in E : succ[m] = succ[n] => m = n
    BY <1>1
  <2> HIDE DEF E, succ
  <2>3. QED
    BY <2>1, <2>2 DEF Injection, IsInjective
<1>5. succ \in Surjection(E, E)
  <2> HIDE DEF E, succ
  <2>1. QED
    BY <1>3, <1>4, FS_Injection
<1>6. PICK m \in E : succ[m] = 0
  BY <1>2, <1>5 DEF Surjection
<1>7. QED
  BY <1>1, <1>6

-----------------------------------------------------------------------------
(* plan9.ini.  Line m gives c's name a value. *)
Gives(m, c) == file[m].kind = "pair" /\ B!Same(c, file[m].name)

Conf == [name : Name, value : Value, tail : BOOLEAN]

(* What a text makes that runs on to a '='. *)
Spanning == [name |-> Long, value |-> Long, tail |-> TRUE]

(* What conf is when n lines have been read: each name these lines give, is  *)
(* there once, as in its first line, with the value of its last.             *)
From(c, f, l, n) ==
  /\ Gives(f, c) /\ Gives(l, c) /\ \A m \in 1 .. n : Gives(m, c) => f <= m /\ m <= l
  /\ c.name = file[f].name /\ c.value = file[l].value /\ c.tail = B!RunsOn(l)
Means(cs, n) ==
  /\ cs \in Seq(Conf) /\ Len(cs) <= n
  /\ \A i, j \in 1 .. Len(cs) : B!Same(cs[i], cs[j].name) => i = j
  /\ \A m \in 1 .. n : file[m].kind = "pair" => \E i \in 1 .. Len(cs) : Gives(m, cs[i])
  /\ \A i \in 1 .. Len(cs) : \E f, l \in 1 .. n : From(cs[i], f, l, n)

(* And when all have been. *)
Final(cs, n) == Means(cs, n) \/ \E ds : Means(ds, n) /\ Len(ds) < n /\ cs = Append(ds, Spanning)

(* The lines of the file. *)
LEMMA FieldsAre ==
  ASSUME file \in Seq(B!Line)
  PROVE  /\ MAXCONF \in Nat \ {0} /\ Len(B!Fields) \in Nat
         /\ Len(B!Fields) = IF Len(file) < MAXCONF THEN Len(file) ELSE MAXCONF
         /\ \A i \in 1 .. Len(B!Fields) : B!Fields[i] = file[i] /\ file[i] \in B!Line
<1>1. MAXCONF \in Nat \ {0}
  BY BootAssumption DEF B!MaxconfAssumption
<1>2. Len(file) \in Nat
  OBVIOUS
<1> DEFINE n == IF Len(file) < MAXCONF THEN Len(file) ELSE MAXCONF
<1>3. n \in Nat /\ n <= Len(file)
  BY <1>1, <1>2
<1> HIDE DEF n
<1>4. B!Fields = [i \in 1 .. n |-> file[i]] 
  BY DEF B!Fields, n
<1>5. \A i \in 1 .. n : file[i] \in B!Line
  BY <1>3
<1>6. Len(B!Fields) = n /\ \A i \in 1 .. n : B!Fields[i] = file[i]
  BY <1>3, <1>4, <1>5
<1>7. QED
  BY <1>1, <1>3, <1>5, <1>6 DEF n

(* A line with a name has one, and a value. *)
LEMMA PairIs ==
  ASSUME NEW x \in B!Line, x.kind = "pair"
  PROVE  x.name \in Name /\ x.value \in Value
BY DEF B!Line, B!Pair, B!Comment, B!Commented, B!Text

Finds(cs, n) == {i \in 1 .. Len(cs) : B!Same(cs[i], n)}

(* findconf, of a table that has no name twice. *)
LEMMA FindconfIs ==
  ASSUME NEW cs \in Seq(Conf), NEW k \in Name,
         \A i, j \in 1 .. Len(cs) : B!Same(cs[i], cs[j].name) => i = j
  PROVE  \/ B!Findconf(cs, k) = 0 /\ \A i \in 1 .. Len(cs) : ~B!Same(cs[i], k)
         \/ B!Findconf(cs, k) \in 1 .. Len(cs) /\ B!Same(cs[B!Findconf(cs, k)], k)
<1>1. B!Findconf(cs, k) = IF Finds(cs, k) # {}
        THEN CHOOSE x \in Finds(cs, k) : \A y \in Finds(cs, k) : x <= y ELSE 0
  BY DEF B!Findconf, B!SelectInSeq, B!Min, Finds
<1>2. CASE Finds(cs, k) = {}
  BY <1>1, <1>2 DEF Finds
<1>3. CASE Finds(cs, k) # {}
  <2>1. PICK i \in 1 .. Len(cs) : B!Same(cs[i], k)
    BY <1>3 DEF Finds
  <2>2. Finds(cs, k) = {i}
    BY <2>1 DEF Finds, B!Same
  <2>3. i <= i
    OBVIOUS
  <2>4. B!Findconf(cs, k) = i
    BY <1>1, <2>2, <2>3
  <2>5. QED
    BY <2>1, <2>4
<1>4. QED
  BY <1>2, <1>3

(* Adding a line to those that conf means ... *)
LEMMA FromNext ==
  ASSUME NEW c, NEW n \in Nat, ~Gives(n + 1, c), \E f, l \in 1 .. n : From(c, f, l, n)
  PROVE  \E f, l \in 1 .. n + 1 : From(c, f, l, n + 1)
<1>1. PICK f \in 1 .. n, l \in 1 .. n : From(c, f, l, n)
  OBVIOUS
<1>2. \A m \in 1 .. n + 1 : Gives(m, c) => m \in 1 .. n
  OBVIOUS
<1>3. From(c, f, l, n + 1)
  BY <1>1, <1>2 DEF From
<1>4. QED
  BY <1>3

(* ... one that is not a pair, ... *)
LEMMA MeansOther ==
  ASSUME NEW n \in Nat, NEW cs, Means(cs, n), file[n + 1].kind # "pair"
  PROVE  Means(cs, n + 1)
<1>1. \A i \in 1 .. Len(cs) : \E f, l \in 1 .. n + 1 : From(cs[i], f, l, n + 1)
  BY FromNext DEF Means, Gives
<1>2. \A m \in 1 .. n + 1 : file[m].kind = "pair" => m \in 1 .. n
  OBVIOUS
<1>3. cs \in Seq(Conf) /\ Len(cs) <= n + 1
  BY DEF Means
<1>4. \A m \in 1 .. n + 1 : file[m].kind = "pair" => \E i \in 1 .. Len(cs) : Gives(m, cs[i])
  BY <1>2 DEF Means
<1>5. QED
  BY <1>1, <1>3, <1>4 DEF Means

(* ... one with a name that is there, ... *)
LEMMA MeansAgain ==
  ASSUME NEW n \in Nat, NEW cs, Means(cs, n), file[n + 1] \in B!Line,
         file[n + 1].kind = "pair", NEW i \in 1 .. Len(cs), Gives(n + 1, cs[i])
  PROVE  Means([cs EXCEPT ![i] = [@ EXCEPT !.value = file[n + 1].value,
                                           !.tail = B!RunsOn(n + 1)]], n + 1)
<1> DEFINE c == [cs[i] EXCEPT !.value = file[n + 1].value, !.tail = B!RunsOn(n + 1)]
           ds == [cs EXCEPT ![i] = c]
<1>1. /\ cs \in Seq(Conf) /\ Len(cs) \in Nat /\ Len(cs) <= n
      /\ cs[i] \in Conf /\ file[n + 1].value \in Value /\ B!RunsOn(n + 1) \in BOOLEAN
  BY PairIs DEF Means, B!RunsOn
<1>2. /\ c \in Conf /\ c.name = cs[i].name /\ c.value = file[n + 1].value
      /\ c.tail = B!RunsOn(n + 1)
  BY <1>1 DEF Conf
<1> HIDE DEF c
<1>3. /\ ds \in Seq(Conf) /\ Len(ds) = Len(cs)
      /\ \A j \in 1 .. Len(cs) : ds[j] = IF j = i THEN c ELSE cs[j]
  BY <1>1, <1>2
<1> HIDE DEF ds
<1>4. \A j \in 1 .. Len(cs) : ds[j].name = cs[j].name
  BY <1>2, <1>3
<1>5. \A j \in 1 .. Len(cs) : \A m : Gives(m, ds[j]) <=> Gives(m, cs[j])
  BY <1>4 DEF Gives, B!Same
<1>6. ASSUME NEW j \in 1 .. Len(cs), j # i
      PROVE  ~Gives(n + 1, cs[j])
  BY <1>6 DEF Means, Gives, B!Same
<1>7. ASSUME NEW j \in 1 .. Len(cs)
      PROVE  \E f, l \in 1 .. n + 1 : From(ds[j], f, l, n + 1)
  <2>1. CASE j = i
    <3>1. PICK f \in 1 .. n, l \in 1 .. n : From(cs[i], f, l, n)
      BY DEF Means
    <3>2. From(ds[i], f, n + 1, n + 1)
      <4>1. \A m \in 1 .. n + 1 : Gives(m, cs[i]) => f <= m /\ m <= n + 1
        <5>1. \A m \in 1 .. n + 1 : m \in 1 .. n \/ m = n + 1
          OBVIOUS
        <5>2. QED
          BY <3>1, <5>1 DEF From
      <4>2. QED
        BY <1>2, <1>3, <1>5, <3>1, <4>1 DEF From
    <3>3. QED
      BY <2>1, <3>2
  <2>2. CASE j # i
    BY <1>3, <1>6, <2>2, FromNext DEF Means
  <2>3. QED
    BY <2>1, <2>2
<1>8. \A j, k \in 1 .. Len(cs) : B!Same(ds[j], ds[k].name) => j = k
  BY <1>4 DEF Means, B!Same
<1>9. ASSUME NEW m \in 1 .. n + 1, file[m].kind = "pair"
      PROVE  \E j \in 1 .. Len(cs) : Gives(m, ds[j])
  <2>1. CASE m = n + 1
    BY <1>5, <2>1
  <2>2. CASE m # n + 1
    <3>1. m \in 1 .. n
      BY <2>2
    <3>2. QED
      BY <1>5, <1>9, <3>1 DEF Means
  <2>3. QED
    BY <2>1, <2>2
<1>10. Means(ds, n + 1)
  BY <1>1, <1>3, <1>7, <1>8, <1>9 DEF Means
<1>11. QED
  BY <1>10 DEF ds, c

(* ... and one with a new name, for which there is room. *)
LEMMA MeansNew ==
  ASSUME NEW n \in Nat, NEW cs, Means(cs, n), file[n + 1] \in B!Line,
         file[n + 1].kind = "pair", \A i \in 1 .. Len(cs) : ~Gives(n + 1, cs[i])
  PROVE  Means(Append(cs, [name |-> file[n + 1].name, value |-> file[n + 1].value,
                           tail |-> B!RunsOn(n + 1)]), n + 1)
<1> DEFINE c == [name |-> file[n + 1].name, value |-> file[n + 1].value, tail |-> B!RunsOn(n + 1)]
           ds == Append(cs, c)
           k == Len(cs)
<1>1. /\ cs \in Seq(Conf) /\ k \in Nat /\ k <= n
      /\ file[n + 1].name \in Name /\ file[n + 1].value \in Value
      /\ B!RunsOn(n + 1) \in BOOLEAN
  BY PairIs DEF Means, B!RunsOn
<1>2. /\ c \in Conf /\ c.name = file[n + 1].name /\ c.value = file[n + 1].value
      /\ c.tail = B!RunsOn(n + 1)
  BY <1>1 DEF Conf
<1> HIDE DEF c
<1>3. /\ ds \in Seq(Conf) /\ Len(ds) = k + 1 /\ ds[k + 1] = c
      /\ \A j \in 1 .. k : ds[j] = cs[j]
  BY <1>1, <1>2
<1> HIDE DEF ds
<1>4. \A j \in 1 .. k + 1 : j \in 1 .. k \/ j = k + 1
  BY <1>1
<1>5. \A j \in 1 .. k : ~B!Same(cs[j], c.name) /\ ~B!Same(c, cs[j].name)
  BY <1>2 DEF Gives, B!Same
<1>6. \A j \in 1 .. n + 1 : j \in 1 .. n \/ j = n + 1
  OBVIOUS
<1>7. \A m \in 1 .. n : ~Gives(m, c)
  <2> SUFFICES ASSUME NEW m \in 1 .. n, Gives(m, c) PROVE FALSE
    OBVIOUS
  <2>1. PICK j \in 1 .. k : Gives(m, cs[j])
    BY DEF Means, Gives
  <2>2. QED
    BY <1>5, <2>1 DEF Gives, B!Same
<1>8. Gives(n + 1, c)
  BY <1>2 DEF Gives, B!Same
<1>9. \A j \in 1 .. k + 1 : \E f, l \in 1 .. n + 1 : From(ds[j], f, l, n + 1)
  <2>1. From(c, n + 1, n + 1, n + 1)
    BY <1>2, <1>6, <1>7, <1>8 DEF From
  <2>2. n + 1 \in 1 .. n + 1
    OBVIOUS
  <2>3. \A j \in 1 .. k : \E f, l \in 1 .. n + 1 : From(ds[j], f, l, n + 1)
    BY <1>3, FromNext DEF Means
  <2>4. QED
    BY <1>3, <1>4, <2>1, <2>2, <2>3
<1>10. \A i, j \in 1 .. k + 1 : B!Same(ds[i], ds[j].name) => i = j
  BY <1>3, <1>4, <1>5 DEF Means
<1>11. \A m \in 1 .. n + 1 : file[m].kind = "pair" => \E j \in 1 .. k + 1 : Gives(m, ds[j])
  <2>1. \A m \in 1 .. n : file[m].kind = "pair" => \E j \in 1 .. k : Gives(m, ds[j])
    BY <1>3 DEF Means
  <2>2. k + 1 \in 1 .. k + 1 /\ \A j \in 1 .. k : j \in 1 .. k + 1
    BY <1>1
  <2>3. QED
    BY <1>3, <1>6, <1>8, <2>1, <2>2
<1>12. k + 1 <= n + 1
  BY <1>1
<1>13. Means(ds, n + 1)
  BY <1>3, <1>9, <1>10, <1>11, <1>12 DEF Means
<1>14. QED
  BY <1>13 DEF ds, c

(* One line is read. *)
LEMMA BootargMeans ==
  ASSUME file \in Seq(B!Line), NEW n \in Nat, n + 1 \in 1 .. Len(B!Fields),
         NEW cs, Means(cs, n)
  PROVE  /\ Final(B!Bootarg(cs, n + 1), n + 1)
         /\ n + 1 < MAXCONF => Means(B!Bootarg(cs, n + 1), n + 1)
<1>1. /\ B!Fields[n + 1] = file[n + 1] /\ file[n + 1] \in B!Line /\ n + 1 <= MAXCONF
      /\ MAXCONF \in Nat
  BY FieldsAre
<1>2. CASE file[n + 1].kind # "pair"
  <2>1. Means(cs, n + 1)
    BY <1>1, <1>2, MeansOther
  <2>2. CASE B!Meets(n + 1)
    <3>1. B!Bootarg(cs, n + 1) = Append(cs, Spanning) /\ n + 1 = MAXCONF
      BY <1>1, <1>2, <2>2 DEF B!Bootarg, B!Meets, B!RunsOn, Spanning
    <3>2. Len(cs) < n + 1
      BY DEF Means
    <3>3. ~(n + 1 < MAXCONF)
      BY <3>1, <1>1
    <3>4. QED
      BY <2>1, <3>1, <3>2, <3>3 DEF Final
  <2>3. CASE ~B!Meets(n + 1)
    <3>1. B!Bootarg(cs, n + 1) = cs
      BY <1>1, <1>2, <2>3 DEF B!Bootarg
    <3>2. QED
      BY <2>1, <3>1 DEF Final
  <2>4. QED
    BY <2>2, <2>3
<1>3. CASE file[n + 1].kind = "pair"
  <2> DEFINE k == file[n + 1].name
             v == file[n + 1].value
             t == B!RunsOn(n + 1)
  <2>1. B!Bootarg(cs, n + 1) = B!Addconf(cs, k, v, t)
    BY <1>1, <1>3 DEF B!Bootarg
  <2>2. k \in Name /\ cs \in Seq(Conf) /\ Len(cs) \in Nat /\ Len(cs) <= n
    BY <1>1, <1>3, PairIs DEF Means
  <2>3. \/ B!Findconf(cs, k) = 0 /\ \A i \in 1 .. Len(cs) : ~B!Same(cs[i], k)
        \/ B!Findconf(cs, k) \in 1 .. Len(cs) /\ B!Same(cs[B!Findconf(cs, k)], k)
    BY <2>2, FindconfIs DEF Means
  <2>4. CASE B!Findconf(cs, k) = 0 /\ \A i \in 1 .. Len(cs) : ~B!Same(cs[i], k)
    <3>1. ~(Len(cs) >= MAXCONF)
      BY <1>1, <2>2
    <3>2. B!Addconf(cs, k, v, t) = Append(cs, [name |-> k, value |-> v, tail |-> t])
      BY <2>4, <3>1 DEF B!Addconf
    <3>3. Means(B!Bootarg(cs, n + 1), n + 1)
      BY <1>1, <1>3, <2>1, <2>4, <3>2, MeansNew DEF Gives
    <3>4. QED
      BY <3>3 DEF Final
  <2>5. CASE B!Findconf(cs, k) \in 1 .. Len(cs) /\ B!Same(cs[B!Findconf(cs, k)], k)
    <3> DEFINE i == B!Findconf(cs, k)
    <3>1. i # 0
      BY <2>2, <2>5
    <3>2. B!Addconf(cs, k, v, t) = [cs EXCEPT ![i] = [@ EXCEPT !.value = v, !.tail = t]]
      BY <3>1 DEF B!Addconf
    <3> HIDE DEF i
    <3>3. i \in 1 .. Len(cs) /\ Gives(n + 1, cs[i])
      BY <1>3, <2>5 DEF Gives, i
    <3>4. Means([cs EXCEPT ![i] = [@ EXCEPT !.value = v, !.tail = t]], n + 1)
      BY <1>1, <1>3, <3>3, MeansAgain
    <3>5. QED
      BY <2>1, <3>2, <3>4 DEF Final
  <2>6. QED
    BY <2>3, <2>4, <2>5
<1>4. QED
  BY <1>2, <1>3

(* conf after each line is what the line before it left, with this line. *)
LEMMA ReadIs ==
  ASSUME file \in Seq(B!Line)
  PROVE  /\ B!Read[0] = <<>>
         /\ \A n \in Nat : n + 1 \in 1 .. Len(B!Fields) =>
              B!Read[n + 1] = B!Bootarg(B!Read[n], n + 1)
<1> DEFINE N0 == Len(B!Fields)
           Rec(g, n) == [i \in 0 .. n |-> IF i = 0 THEN <<>> ELSE B!Bootarg(g[i - 1], i)]
           E == {n \in Nat : \E g : g = Rec(g, n)}
<1>1. N0 \in Nat
  BY FieldsAre
<1>2. 0 \in E
  <2> DEFINE g == [i \in 0 .. 0 |-> <<>>]
  <2>1. \A i \in 0 .. 0 : i = 0
    OBVIOUS
  <2>2. g = Rec(g, 0)
    BY <2>1
  <2> HIDE DEF g
  <2>3. QED
    BY <2>2
<1>3. ASSUME NEW n \in E PROVE n + 1 \in E
  <2>1. PICK g : g = Rec(g, n)
    OBVIOUS
  <2> n \in Nat
    OBVIOUS
  <2> DEFINE h == [i \in 0 .. n + 1 |-> IF i = n + 1 THEN B!Bootarg(g[n], n + 1) ELSE g[i]]
  <2>2. \A i \in 0 .. n + 1 : h[i] = IF i = n + 1 THEN B!Bootarg(g[n], n + 1) ELSE g[i]
    OBVIOUS
  <2>3. \A i \in 0 .. n : g[i] = IF i = 0 THEN <<>> ELSE B!Bootarg(g[i - 1], i)
    BY <2>1, Zenon
  <2>4. ASSUME NEW i \in 0 .. n + 1
        PROVE  h[i] = IF i = 0 THEN <<>> ELSE B!Bootarg(h[i - 1], i)
    <3>1. CASE i = n + 1
      <4>1. i # 0 /\ i - 1 = n /\ n \in 0 .. n + 1 /\ n # n + 1
        BY <3>1
      <4>2. h[i] = B!Bootarg(g[n], i) /\ h[i - 1] = g[n]
        BY <2>2, <3>1, <4>1
      <4>3. QED
        BY <4>1, <4>2
    <3>2. CASE i # n + 1
      <4>1. i \in 0 .. n /\ (i # 0 => i - 1 \in 0 .. n + 1 /\ i - 1 # n + 1)
        BY <3>2
      <4>2. h[i] = g[i] /\ (i # 0 => h[i - 1] = g[i - 1])
        BY <2>2, <3>2, <4>1
      <4>3. QED
        BY <2>3, <4>1, <4>2
    <3>3. QED
      BY <3>1, <3>2
  <2>5. h = Rec(h, n + 1)
    BY <2>4
  <2> HIDE DEF h
  <2>6. QED
    BY <2>5
<1>4. E \in SUBSET Nat
  OBVIOUS
<1>5. N0 \in E
  <2> HIDE DEF E, N0
  <2>1. QED
    BY <1>1, <1>2, <1>3, <1>4, Induction
<1>6. B!Read = CHOOSE g : g = Rec(g, N0)
  BY DEF B!Read
<1>7. B!Read = Rec(B!Read, N0)
  <2>1. \E g : g = Rec(g, N0)
    BY <1>5
  <2> HIDE DEF Rec
  <2>2. QED
    BY <1>6, <2>1
<1>8. \A i \in 0 .. N0 : B!Read[i] = IF i = 0 THEN <<>> ELSE B!Bootarg(B!Read[i - 1], i)
  BY <1>7, Zenon
<1> HIDE DEF N0
<1>9. 0 \in 0 .. N0 /\ \A n \in Nat : n + 1 \in 1 .. N0 =>
        n + 1 \in 0 .. N0 /\ n + 1 # 0 /\ (n + 1) - 1 = n
  BY <1>1
<1>10. QED
  BY <1>8, <1>9 DEF N0

(* ... so that it means them all in the end. *)
LEMMA ReadMeans ==
  ASSUME file \in Seq(B!Line)
  PROVE  Final(B!Read[Len(B!Fields)], Len(B!Fields))
<1> DEFINE E == {n \in Nat : n <= Len(B!Fields) =>
                   Final(B!Read[n], n) /\ (n < MAXCONF => Means(B!Read[n], n))}
<1>1. Len(B!Fields) \in Nat /\ Len(B!Fields) <= MAXCONF /\ MAXCONF \in Nat
  BY FieldsAre
<1>2. 0 \in E
  <2>1. Means(<<>>, 0)
    <3>1. <<>> \in Seq(Conf) /\ Len(<<>>) = 0 /\ \A i \in 1 .. 0 : FALSE
      OBVIOUS
    <3>2. QED
      BY <3>1 DEF Means
  <2>2. QED
    BY <2>1, ReadIs DEF Final
<1>3. ASSUME NEW n \in E PROVE n + 1 \in E
  <2>1. CASE n + 1 <= Len(B!Fields)
    <3>1. n \in Nat /\ n + 1 \in 1 .. Len(B!Fields) /\ Means(B!Read[n], n)
      BY <1>1, <2>1
    <3>2. /\ Final(B!Read[n + 1], n + 1)
          /\ n + 1 < MAXCONF => Means(B!Read[n + 1], n + 1)
      BY <3>1, ReadIs, BootargMeans
    <3>3. QED
      BY <3>1, <3>2
  <2>2. CASE ~(n + 1 <= Len(B!Fields))
    BY <2>2
  <2>3. QED
    BY <2>1, <2>2
<1>4. E \in SUBSET Nat
  OBVIOUS
<1>5. Len(B!Fields) \in E
  <2> HIDE DEF E
  <2>1. QED
    BY <1>1, <1>2, <1>3, <1>4, Induction
<1>6. QED
  BY <1>1, <1>5

(* The least of a set, where there is one. *)
LEMMA LeastIs ==
  ASSUME NEW S0 \in SUBSET Int, NEW i \in S0, \A j \in S0 : i <= j
  PROVE  B!Least(S0) = i
<1>1. \A x \in S0 : (\A j \in S0 : x <= j) => x = i
  OBVIOUS
<1>2. QED
  BY <1>1 DEF B!Least

(* The same for the greatest. *)
LEMMA GreatestIs ==
  ASSUME NEW S0 \in SUBSET Int, NEW i \in S0, \A j \in S0 : j <= i
  PROVE  B!Greatest(S0) = i
<1>1. \A x \in S0 : (\A j \in S0 : j <= x) => x = i
  OBVIOUS
<1>2. QED
  BY <1>1 DEF B!Greatest

(* Of the lines that mean what they say there are no more than are read, and *)
(* the others run on.                                                        *)
LEMMA PlainIs ==
  ASSUME file \in Seq(B!Line), newline \in BOOLEAN, ~high
  PROVE  /\ B!Readable \in Nat /\ B!Readable <= Len(file) /\ B!Readable <= Len(B!Fields)
         /\ \A m \in 1 .. Len(B!Fields) : m \in 1 .. B!Readable \/ B!RunsOn(m)
<1>1. /\ MAXCONF \in Nat \ {0} /\ Len(file) \in Nat
      /\ Len(B!Fields) = IF Len(file) < MAXCONF THEN Len(file) ELSE MAXCONF
  BY FieldsAre
<1>2. QED
  BY <1>1 DEF B!Readable, B!RunsOn

(* What a table of entries says of every name, is what the file says. *)
True(S0) ==
  \A n \in Name :
    IF B!Lines(n) = {} THEN \A c \in B!Of(S0, n) : c.tail ELSE B!Says(S0, n)

(* A table that means what has been read does. *)
LEMMA MeansTrue ==
  ASSUME file \in Seq(B!Line), newline \in BOOLEAN, ~high,
         NEW cs, Means(cs, Len(B!Fields))
  PROVE  True(B!ToSet(cs))
<1> DEFINE Seen(k) == B!Lines(k)
           mine(k) == {c \in B!ToSet(cs) : B!Same(c, k)}
<1>1. Len(B!Fields) \in Nat /\ Len(file) \in Nat
  BY FieldsAre
<1>2. ASSUME NEW k \in Name, NEW c \in mine(k)
      PROVE  \E i \in 1 .. Len(cs) : c = cs[i]
  BY DEF B!ToSet, Means
<1>3. ASSUME NEW k \in Name, NEW c, B!Same(c, k), NEW m \in 1 .. B!Readable
      PROVE  Gives(m, c) <=> m \in Seen(k)
  BY <1>1, <1>3, PlainIs DEF Gives, B!Same, B!Lines
<1>4. ASSUME NEW k \in Name, NEW c \in mine(k)
      PROVE  \E f, l \in 1 .. Len(B!Fields) : From(c, f, l, Len(B!Fields))
  BY <1>2 DEF Means
<1>5. ASSUME NEW k \in Name, NEW c \in mine(k), Seen(k) = {}
      PROVE  c.tail
  <2>1. PICK f \in 1 .. Len(B!Fields), l \in 1 .. Len(B!Fields) : From(c, f, l, Len(B!Fields))
    BY <1>4
  <2>2. B!Same(c, k)
    OBVIOUS
  <2>3. l \notin 1 .. B!Readable
    BY <1>3, <1>5, <2>1, <2>2 DEF From
  <2>4. QED
    BY <2>1, <2>3, PlainIs DEF From
<1>6. ASSUME NEW k \in Name, Seen(k) # {}
      PROVE  /\ \A c \in mine(k) : c.name = file[B!Least(Seen(k))].name
             /\ \E c \in mine(k) :
                  mine(k) = {c} /\ (c.tail \/ c.value = file[B!Greatest(Seen(k))].value)
  <2>1. PICK s \in Seen(k) : TRUE
    BY <1>6
  <2>2. s \in 1 .. B!Readable /\ s \in 1 .. Len(B!Fields) /\ file[s].kind = "pair"
        /\ Fold[file[s].name] = Fold[k]
    BY <1>1, PlainIs DEF B!Lines
  <2>3. PICK i \in 1 .. Len(cs) : Gives(s, cs[i])
    BY <2>2 DEF Means
  <2> DEFINE c == cs[i]
  <2>4. c \in mine(k) /\ B!Same(c, k)
    BY <2>2, <2>3 DEF Gives, B!Same, B!ToSet, Means
  <2>5. \A d \in mine(k) : d = c
    <3> SUFFICES ASSUME NEW d \in mine(k) PROVE d = c
      OBVIOUS
    <3>1. PICK j \in 1 .. Len(cs) : d = cs[j]
      BY <1>2
    <3>2. B!Same(cs[j], cs[i].name)
      BY <2>4, <3>1 DEF B!Same
    <3>3. QED
      BY <3>1, <3>2 DEF Means
  <2>6. PICK f \in 1 .. Len(B!Fields), l \in 1 .. Len(B!Fields) : From(c, f, l, Len(B!Fields))
    BY <1>4, <2>4
  <2> HIDE DEF c
  <2>7. Seen(k) \in SUBSET Int
    BY DEF B!Lines
  <2>8. \A m \in Seen(k) : m \in 1 .. Len(B!Fields) /\ Gives(m, c)
    BY <1>1, <1>3, <2>4, PlainIs DEF B!Lines
  <2>9. B!Least(Seen(k)) = f
    <3>1. \A m \in Seen(k) : f <= m
      BY <2>6, <2>8 DEF From
    <3>2. f \in 1 .. B!Readable
      <4>1. f <= s
        BY <3>1
      <4>2. QED
        BY <2>2, <4>1, PlainIs
    <3>3. f \in Seen(k)
      BY <1>3, <2>4, <2>6, <3>2 DEF From
    <3> HIDE DEF Seen
    <3>4. QED
      BY <2>7, <3>1, <3>3, LeastIs
  <2>10. c.tail \/ c.value = file[B!Greatest(Seen(k))].value
    <3>1. CASE l \in 1 .. B!Readable
      <4>1. l \in Seen(k)
        BY <1>3, <2>4, <2>6, <3>1 DEF From
      <4>2. \A m \in Seen(k) : m <= l
        BY <2>6, <2>8 DEF From
      <4> HIDE DEF Seen
      <4>3. B!Greatest(Seen(k)) = l
        BY <2>7, <4>1, <4>2, GreatestIs
      <4>4. QED
        BY <2>6, <4>3 DEF From
    <3>2. CASE l \notin 1 .. B!Readable
      BY <2>6, <3>2, PlainIs DEF From
    <3>3. QED
      BY <3>1, <3>2
  <2> HIDE DEF Seen, mine
  <2>11. c.name = file[B!Least(Seen(k))].name
    BY <2>6, <2>9 DEF From
  <2>12. QED
    BY <2>4, <2>5, <2>10, <2>11
<1>7. ASSUME NEW k \in Name
      PROVE  IF Seen(k) = {} THEN \A c \in mine(k) : c.tail
             ELSE /\ \A c \in mine(k) : c.name = file[B!Least(Seen(k))].name
                  /\ \E c \in mine(k) :
                       mine(k) = {c} /\ (c.tail \/ c.value = file[B!Greatest(Seen(k))].value)
  <2> HIDE DEF Seen, mine
  <2>1. QED
    BY <1>5, <1>6
<1>8. QED
  BY <1>7 DEF True, B!Says, B!Of

(* A name of several lines is nobody's. *)
LEMMA FinalTrue ==
  ASSUME file \in Seq(B!Line), newline \in BOOLEAN, ~high,
         NEW cs, Final(cs, Len(B!Fields))
  PROVE  True(B!ToSet(cs))
<1>1. CASE Means(cs, Len(B!Fields))
  BY <1>1, MeansTrue
<1>2. CASE \E ds : Means(ds, Len(B!Fields)) /\ cs = Append(ds, Spanning)
  <2>1. PICK ds : Means(ds, Len(B!Fields)) /\ cs = Append(ds, Spanning)
    BY <1>2
  <2>2. ds \in Seq(Conf) /\ True(B!ToSet(ds))
    BY <2>1, MeansTrue DEF Means
  <2>3. B!ToSet(cs) = B!ToSet(ds) \union {Spanning}
    <3>1. /\ Len(cs) = Len(ds) + 1 /\ cs[Len(ds) + 1] = Spanning /\ Len(ds) \in Nat
          /\ \A i \in 1 .. Len(ds) : cs[i] = ds[i]
      BY <2>1, <2>2
    <3>2. \A i \in 1 .. Len(cs) : i \in 1 .. Len(ds) \/ i = Len(ds) + 1
      BY <3>1
    <3>3. \A i \in 1 .. Len(ds) : i \in 1 .. Len(cs)
      BY <3>1
    <3>4. Len(ds) + 1 \in 1 .. Len(cs)
      BY <3>1
    <3>5. QED
      BY <3>1, <3>2, <3>3, <3>4 DEF B!ToSet
  <2>4. \A n \in Name : ~B!Same(Spanning, n)
    BY BootAssumption DEF B!FoldAssumption, B!LongAssumption, B!Same, Spanning
  <2>5. \A n \in Name : B!Of(B!ToSet(cs), n) = B!Of(B!ToSet(ds), n)
    BY <2>3, <2>4 DEF B!Of
  <2>6. QED
    BY <2>2, <2>5 DEF True, B!Says
<1>3. QED
  BY <1>1, <1>2 DEF Final

(* plan9.ini's file, table and environment, whoever reads them when. *)
Entry == [name : Name \union {Long}, value : Value \union {Long}, tail : BOOLEAN]
ConfOK ==
  /\ file \in Seq(B!Line) /\ newline \in BOOLEAN /\ high \in BOOLEAN
  /\ at \in {"start", "read", "set", "error"}
  /\ stage \in {"start", "args"} => at = "start"
  /\ conf \in Seq(Entry) /\ Len(conf) <= MAXCONF
  /\ env \in [{0, 1} -> SUBSET B!ToSet(conf)]
  /\ \A c \in env[0] : c.name \notin Star
  /\ at \in {"start", "read"} => env = [f \in {0, 1} |-> {}]
  /\ at # "start" => IF high THEN conf = <<>> ELSE Final(conf, Len(B!Fields))
  /\ at = "set" => env[1] = B!ToSet(conf) /\ env[0] = {c \in env[1] : c.name \notin Star}

(* Nothing is read yet. *)
LEMMA ConfInit == Init => ConfOK
<1> SUFFICES ASSUME Init PROVE ConfOK
  OBVIOUS
<1>1. /\ file = <<>> /\ newline = FALSE /\ high = FALSE /\ at = "start"
      /\ conf = <<>> /\ env = [f \in {0, 1} |-> {}] /\ stage = "start"
  BY DEF Init, B!Init
<1>2. MAXCONF \in Nat
  BY BootAssumption DEF B!MaxconfAssumption
<1>3. /\ file \in Seq(B!Line) /\ conf \in Seq(Entry) /\ Len(conf) <= MAXCONF
      /\ newline \in BOOLEAN /\ high \in BOOLEAN
  BY <1>1, <1>2
<1>4. env \in [{0, 1} -> SUBSET B!ToSet(conf)] /\ env[0] = {}
  BY <1>1
<1>5. QED
  BY <1>1, <1>3, <1>4 DEF ConfOK

(* Who changes them. *)
LEMMA ConfParts ==
  ASSUME Next
  PROVE  \/ UNCHANGED bvars /\ (stage' \in {"start", "args"} => stage \in {"start", "args"})
         \/ /\ UNCHANGED <<at, conf, env>>
            /\ file' \in Seq(B!Line) /\ newline' \in BOOLEAN /\ high' \in BOOLEAN
            /\ stage = "start" /\ stage' = "args"
         \/ stage = "args" /\ stage' = "traps" /\ B!Bootargsinit
         \/ stage' = "up" /\ B!Setconfenv
<1>1. CASE Start
  <2>1. CASE mpc' = "main"
    <3>1. PICK f \in File : file' = f.lines /\ newline' = f.newline /\ high' = f.high
      BY <1>1, <2>1 DEF Start
    <3>2. f \in [lines : Seq(B!Line), newline : BOOLEAN, high : BOOLEAN]
      BY BootAssumption
    <3>3. /\ file' \in Seq(B!Line) /\ newline' \in BOOLEAN /\ high' \in BOOLEAN
      BY <3>1, <3>2
    <3>4. QED
      BY <1>1, <2>1, <3>3 DEF Start, In, To
  <2>2. CASE mpc' # "main"
    BY <1>1, <2>2 DEF Start, bvars
  <2>3. QED
    BY <2>1, <2>2
<1>2. CASE Args \/ Trapinit \/ Init0
  BY <1>2 DEF Args, Trapinit, Init0, In, To
<1>3. CASE Confinit \/ Mmc0enable \/ Smhcprobe \/ Uartreset \/ Usbreset \/ Usb1enable
           \/ Phy1enable \/ Ehcireset \/ Ehciwait \/ Meminitdone \/ Meminitfails
  BY <1>3 DEF Confinit, Mmc0enable, Smhcprobe, Uartreset, Usbreset, Usb1enable, Phy1enable,
              Ehcireset, Ehciwait, Fls, Meminitdone, Meminitfails, In, To
<1>4. CASE Ehcimeminit \/ Controller \/ Console
  BY <1>4 DEF Ehcimeminit, Controller, Console
<1>5. QED
  BY <1>1, <1>2, <1>3, <1>4 DEF Next

(* What a table meant it means as long as the file is the same. *)
LEMMA FinalKept ==
  ASSUME UNCHANGED <<file, newline>>, Final(conf', Len(B!Fields))
  PROVE  Final(conf, Len(B!Fields))'
<1>1. B!Fields' = B!Fields
  BY DEF B!Fields
<1>2. CASE Means(conf', Len(B!Fields))
  <2>1. (conf \in Seq(Conf) /\ Len(conf) <= Len(B!Fields))'
    BY <1>1, <1>2 DEF Means, Conf
  <2>2. (\A i, j \in 1 .. Len(conf) : B!Same(conf[i], conf[j].name) => i = j)'
    BY <1>2 DEF Means, B!Same
  <2>3. (\A m \in 1 .. Len(B!Fields) :
           file[m].kind = "pair" => \E i \in 1 .. Len(conf) : Gives(m, conf[i]))'
    BY <1>1, <1>2 DEF Means, Gives, B!Same
  <2>4. (\A i \in 1 .. Len(conf) :
           \E f, l \in 1 .. Len(B!Fields) : From(conf[i], f, l, Len(B!Fields)))'
    <3> SUFFICES ASSUME NEW i \in 1 .. Len(conf')
                 PROVE  (\E f, l \in 1 .. Len(B!Fields) : From(conf[i], f, l, Len(B!Fields)))'
      OBVIOUS
    <3>1. PICK f \in 1 .. Len(B!Fields), l \in 1 .. Len(B!Fields) :
            From(conf'[i], f, l, Len(B!Fields))
      BY <1>2 DEF Means
    <3>2. From(conf[i], f, l, Len(B!Fields))'
      BY <1>1, <3>1 DEF From, Gives, B!Same, B!RunsOn
    <3>3. QED
      BY <1>1, <3>2
  <2>5. Means(conf, Len(B!Fields))'
    BY <2>1, <2>2, <2>3, <2>4 DEF Means
  <2>6. QED
    BY <2>5 DEF Final
<1>3. CASE \E ds : /\ Means(ds, Len(B!Fields)) /\ Len(ds) < Len(B!Fields)
                  /\ conf' = Append(ds, Spanning)
  <2>1. PICK ds : /\ Means(ds, Len(B!Fields)) /\ Len(ds) < Len(B!Fields)
                  /\ conf' = Append(ds, Spanning)
    BY <1>3
  <2>2. Means(ds, Len(B!Fields))'
    BY <1>1, <2>1 DEF Means, From, Gives, B!Same, B!RunsOn
  <2>3. (Len(ds) < Len(B!Fields) /\ conf = Append(ds, Spanning))'
    BY <1>1, <2>1 DEF Spanning
  <2>4. QED
    BY <2>2, <2>3 DEF Final
<1>4. QED
  BY <1>2, <1>3 DEF Final

(* The entries of a table that means what has been read. *)
LEMMA FinalTypes ==
  ASSUME NEW cs, NEW n \in Nat, Final(cs, n)
  PROVE  cs \in Seq(Entry) /\ Len(cs) <= n
<1>1. Spanning \in Entry
  BY DEF Spanning, Entry
<1>2. \A ds \in Seq(Conf) : ds \in Seq(Entry)
  <2>1. Conf \subseteq Entry
    BY DEF Conf, Entry
  <2>2. QED
    BY <2>1
<1>3. CASE Means(cs, n)
  BY <1>2, <1>3 DEF Means
<1>4. CASE \E ds : Means(ds, n) /\ Len(ds) < n /\ cs = Append(ds, Spanning)
  <2>1. PICK ds : Means(ds, n) /\ Len(ds) < n /\ cs = Append(ds, Spanning)
    BY <1>4
  <2>2. ds \in Seq(Entry)
    BY <1>2, <2>1 DEF Means
  <2>3. QED
    BY <1>1, <2>1, <2>2
<1>5. QED
  BY <1>3, <1>4 DEF Final

(* setconfenv, to its end or an error. *)
LEMMA SetKeeps ==
  ASSUME ConfOK, stage' = "up", B!Setconfenv
  PROVE  ConfOK'
<1>1. UNCHANGED <<file, newline, high, conf>> /\ at = "read" /\ at' \in {"set", "error"}
  BY DEF B!Setconfenv
<1>2. conf \in Seq(Entry) /\ Len(conf) \in Nat
  BY DEF ConfOK
<1>3. ASSUME NEW n \in 0 .. Len(conf)
      PROVE  B!ToSet(SubSeq(conf, 1, n)) \subseteq B!ToSet(conf)
  <2>1. Len(SubSeq(conf, 1, n)) = n /\ \A i \in 1 .. n : SubSeq(conf, 1, n)[i] = conf[i]
    BY <1>2
  <2>2. \A i \in 1 .. n : i \in 1 .. Len(conf)
    BY <1>2
  <2>3. QED
    BY <2>1, <2>2 DEF B!ToSet
<1>4. ASSUME NEW n \in 0 .. Len(conf), NEW m \in 0 .. Len(conf)
      PROVE  /\ B!Exported(n, m) \in [{0, 1} -> SUBSET B!ToSet(conf)]
             /\ B!Exported(n, m)[1] = B!ToSet(SubSeq(conf, 1, m))
             /\ B!Exported(n, m)[0] = {c \in B!ToSet(SubSeq(conf, 1, n)) : c.name \notin Star}
  BY <1>3 DEF B!Exported
<1>5. \E n, m \in 0 .. Len(conf) :
        env' = B!Exported(n, m) /\ (at' = "set" => n = Len(conf) /\ m = Len(conf))
  <2>1. CASE at' = "set"
    BY <1>2, <2>1 DEF B!Setconfenv
  <2>2. CASE at' = "error"
    <3>1. PICK m \in 0 .. Len(conf) - 1 : \E n \in {m, m + 1} : env' = B!Exported(n, m)
      BY <2>2 DEF B!Setconfenv
    <3>2. m \in 0 .. Len(conf) /\ m + 1 \in 0 .. Len(conf)
      BY <1>2
    <3>3. QED
      BY <2>2, <3>1, <3>2
  <2>3. QED
    BY <1>1, <2>1, <2>2
<1>6. PICK n \in 0 .. Len(conf), m \in 0 .. Len(conf) :
        env' = B!Exported(n, m) /\ (at' = "set" => n = Len(conf) /\ m = Len(conf))
  BY <1>5
<1>7. SubSeq(conf, 1, Len(conf)) = conf
  BY <1>2
<1>8. /\ env' \in [{0, 1} -> SUBSET B!ToSet(conf)]
      /\ \A c \in env'[0] : c.name \notin Star
      /\ at' = "set" =>
           env'[1] = B!ToSet(conf) /\ env'[0] = {c \in env'[1] : c.name \notin Star}
  BY <1>4, <1>6, <1>7
<1>9. (IF high THEN conf = <<>> ELSE Final(conf, Len(B!Fields)))'
  <2>1. ~high => Final(conf, Len(B!Fields))
    BY <1>1 DEF ConfOK
  <2>2. ~high => Final(conf, Len(B!Fields))'
    <3>1. ~high => Final(conf', Len(B!Fields))
      BY <1>1, <2>1
    <3>2. QED
      BY <1>1, <3>1, FinalKept
  <2>3. QED
    BY <1>1, <2>2 DEF ConfOK
<1>10. QED
  BY <1>1, <1>8, <1>9 DEF ConfOK, B!ToSet

(* bootargsinit. *)
LEMMA ReadKeeps ==
  ASSUME ConfOK, stage' = "traps", B!Bootargsinit
  PROVE  ConfOK'
<1>1. /\ conf' = IF high THEN <<>> ELSE B!Read[Len(B!Fields)]
      /\ UNCHANGED <<file, newline, high, env>> /\ at = "start" /\ at' = "read"
  BY DEF B!Bootargsinit
<1>2. /\ Len(B!Fields) <= MAXCONF /\ Len(B!Fields) \in Nat /\ MAXCONF \in Nat
  BY FieldsAre DEF ConfOK
<1>3. ~high => Final(conf', Len(B!Fields))
  BY <1>1, ReadMeans DEF ConfOK
<1>4. conf' \in Seq(Entry) /\ Len(conf') <= MAXCONF
  <2>1. CASE high
    BY <1>1, <1>2, <2>1
  <2>2. CASE ~high
    <3>1. conf' \in Seq(Entry) /\ Len(conf') <= Len(B!Fields)
      BY <1>2, <1>3, <2>2, FinalTypes
    <3>2. Len(conf') \in Nat
      BY <3>1
    <3>3. QED
      BY <1>2, <3>1, <3>2
  <2>3. QED
    BY <2>1, <2>2
<1>5. (IF high THEN conf = <<>> ELSE Final(conf, Len(B!Fields)))'
  <2>1. ~high => Final(conf, Len(B!Fields))'
    BY <1>1, <1>3, FinalKept
  <2>2. QED
    BY <1>1, <2>1
<1>6. env' = [f \in {0, 1} |-> {}] /\ env'[0] = {} /\ env' \in [{0, 1} -> SUBSET B!ToSet(conf')]
  BY <1>1 DEF ConfOK
<1>7. QED
  BY <1>1, <1>4, <1>5, <1>6 DEF ConfOK, B!ToSet

(* bootargsinit reads, setconfenv copies, and the rest leaves them alone. *)
LEMMA ConfKeeps ==
  ASSUME ConfOK, [Next]_vars
  PROVE  ConfOK'
<1>1. CASE UNCHANGED bvars /\ (stage' \in {"start", "args"} => stage \in {"start", "args"})
  <2>1. UNCHANGED <<file, newline, high, at, conf, env>>
    BY <1>1 DEF bvars
  <2>2. at # "start" /\ ~high => Final(conf, Len(B!Fields))'
    BY <2>1, FinalKept DEF ConfOK
  <2>3. QED
    BY <1>1, <2>1, <2>2 DEF ConfOK, B!ToSet
<1>2. CASE /\ UNCHANGED <<at, conf, env>> /\ file' \in Seq(B!Line) /\ newline' \in BOOLEAN
           /\ high' \in BOOLEAN /\ stage = "start" /\ stage' = "args"
  <2>1. at = "start"
    BY <1>2 DEF ConfOK
  <2>2. QED
    BY <1>2, <2>1 DEF ConfOK, B!ToSet
<1>3. CASE Next
  BY <1>1, <1>2, <1>3, ConfParts, SetKeeps, ReadKeeps
<1>4. CASE UNCHANGED vars
  BY <1>1, <1>4 DEF vars
<1>5. QED
  BY <1>3, <1>4

(* What it all says is what the file says. *)
LEMMA ConfSays == ConfOK => ConfTrue
<1> SUFFICES ASSUME ConfOK PROVE ConfTrue
  OBVIOUS
<1>1. high => \A n \in Name : B!Lines(n) = {}
  <2>1. high => B!Readable = 0
    BY DEF B!Readable
  <2>2. \A i \in 1 .. 0 : FALSE
    OBVIOUS
  <2>3. QED
    BY <2>1, <2>2 DEF B!Lines
<1>2. at # "start" => True(B!ToSet(conf))
  <2>1. CASE high
    <3>1. at # "start" => B!ToSet(conf) = {}
      BY <2>1 DEF ConfOK, B!ToSet
    <3>2. QED
      BY <1>1, <2>1, <3>1 DEF True, B!Of
  <2>2. CASE ~high
    BY <2>2, FinalTrue DEF ConfOK
  <2>3. QED
    BY <2>1, <2>2
<1>3. B!ConfTrue
  BY <1>2 DEF B!ConfTrue, True
<1>4. B!EnvTrue
  <2> SUFFICES ASSUME at \in {"set", "error"}, NEW n \in Name, NEW f \in {0, 1}
      PROVE  IF f = 0 /\ n \in Star THEN B!Of(env[f], n) = {}
             ELSE IF B!Lines(n) = {} THEN \A c \in B!Of(env[f], n) : c.tail
             ELSE B!Says(env[f], n) \/ (at = "error" /\ B!Of(env[f], n) = {})
    BY DEF B!EnvTrue
  <2>1. env[f] \subseteq B!ToSet(conf) /\ B!Of(env[f], n) \subseteq B!Of(B!ToSet(conf), n)
    BY DEF ConfOK, B!Of
  <2>2. ASSUME NEW c \in B!Of(B!ToSet(conf), n) PROVE c.name \in Star <=> n \in Star
    <3>1. c.name \in Name \union {Long} /\ Fold[c.name] = Fold[n]
      <4>1. PICK i \in 1 .. Len(conf) : c = conf[i]
        BY <2>2 DEF B!Of, B!ToSet
      <4>2. c \in Entry
        BY <4>1 DEF ConfOK
      <4>3. QED
        BY <2>2, <4>2 DEF B!Of, B!Same, Entry
    <3>2. c.name \in Name
      BY <3>1, BootAssumption DEF B!FoldAssumption, B!LongAssumption
    <3>3. QED
      BY <3>1, <3>2, BootAssumption DEF B!StarAssumption
  <2>3. CASE f = 0 /\ n \in Star
    <3>1. \A c \in B!Of(env[f], n) : c.name \notin Star
      BY <2>3 DEF ConfOK, B!Of
    <3>2. QED
      BY <2>1, <2>2, <2>3, <3>1
  <2>4. CASE ~(f = 0 /\ n \in Star) /\ B!Lines(n) = {}
    <3>1. \A c \in B!Of(B!ToSet(conf), n) : c.tail
      BY <1>2, <2>4 DEF True
    <3>2. QED
      BY <2>1, <2>4, <3>1
  <2>5. CASE ~(f = 0 /\ n \in Star) /\ B!Lines(n) # {}
    <3>1. B!Says(B!ToSet(conf), n)
      BY <1>2, <2>5 DEF True
    <3>2. PICK c \in B!Of(B!ToSet(conf), n) : B!Of(B!ToSet(conf), n) = {c}
      BY <3>1 DEF B!Says
    <3>3. at = "set" => c \in env[f]
      <4>1. c \in B!ToSet(conf) /\ (f = 0 => c.name \notin Star)
        BY <2>2, <2>5 DEF B!Of
      <4>2. QED
        BY <4>1 DEF ConfOK
    <3>4. at = "set" => c \in B!Of(env[f], n)
      BY <3>3 DEF B!Of
    <3>5. B!Of(env[f], n) = {} \/ B!Of(env[f], n) = B!Of(B!ToSet(conf), n)
      BY <2>1, <3>2
    <3>6. B!Of(env[f], n) = B!Of(B!ToSet(conf), n) => B!Says(env[f], n)
      BY <3>1 DEF B!Says
    <3>7. QED
      BY <2>5, <3>4, <3>5, <3>6
  <2>6. QED
    BY <2>3, <2>4, <2>5
<1>5. QED
  BY <1>3, <1>4 DEF ConfTrue

-----------------------------------------------------------------------------
(* The tables that mmubootstrap takes.  A device's ranges are within one     *)
(* gigabyte, and need a table for that and one for each block of 512 pages.  *)
Dev(a, n) == K!Pages(a, a, n, "dev")
Under(x, y, z) == {<<x>>} \union {x} \X (y .. z)

(* What a range in 4 KB leaves needs, with all of it under one entry. *)
LEMMA NeedsPages ==
  ASSUME NEW r, r.level = 0, NEW x \in Nat, NEW y \in Nat, NEW z \in Nat,
         K!PTLX(r.va, 2) = x, K!PTLX(r.va + r.n - 1, 2) = x,
         K!PTLX(r.va, 1) = y, K!PTLX(r.va + r.n - 1, 1) = z
  PROVE  K!Needs(r) = Under(x, y, z)
<1>1. K!Indices(r, 2) = {x} /\ K!Indices(r, 1) = y .. z
  BY DEF K!Indices
<1>2. {<<v>> : v \in {x}} = {<<x>>} /\ r.level # 1
  OBVIOUS
<1>3. QED
  BY <1>1, <1>2 DEF K!Needs, Under

(* What one in 2 MB leaves needs. *)
LEMMA NeedsBlocks ==
  ASSUME NEW r, r.level = 1, NEW x, x \in Nat,
         K!PTLX(r.va, 2) = x, K!PTLX(r.va + r.n - 1, 2) = x
  PROVE  K!Needs(r) = {<<x>>}
<1>1. K!Indices(r, 2) = {x}
  BY DEF K!Indices
<1>2. QED
  BY <1>1 DEF K!Needs

(* The indices of the high half, from those of the low one. *)
LEMMA HighIndices ==
  ASSUME NEW a \in Nat, a < K!PHYSDRAM * 2
  PROVE  /\ K!PTLX(K!KADDR(a), 2) = K!PTLX(a, 2) + 510
         /\ K!PTLX(K!KADDR(a), 1) = K!PTLX(a, 1)
BY SMT DEF K!PTLX, K!KADDR, K!KZERO, K!PHYSDRAM

(* Where the ranges are in the tables. *)
LEMMA Idx ==
  /\ K!PTLX(K!PHYSPIO, 2) = 0 /\ K!PTLX(K!PHYSPIO + K!PHYSPIOSIZE - 1, 2) = 0
  /\ K!PTLX(K!PHYSPIO, 1) = 16 /\ K!PTLX(K!PHYSPIO + K!PHYSPIOSIZE - 1, 1) = 18
  /\ K!PTLX(K!PHYSWDTRISCV, 2) = 0 /\ K!PTLX(K!PHYSWDTRISCV, 1) = 48
  /\ K!PTLX(K!PHYSMMC0, 2) = 0 /\ K!PTLX(K!PHYSMMC0, 1) = 32
  /\ K!PTLX(K!PHYSEHCI1, 2) = 0 /\ K!PTLX(K!PHYSEHCI1, 1) = 33
  /\ K!PTLX(K!PHYSPLIC, 2) = 0 /\ K!PTLX(K!PHYSPLIC, 1) = 128
  /\ K!PTLX(K!PHYSPLICEN, 2) = 0 /\ K!PTLX(K!PHYSPLICEN, 1) = 128
  /\ K!PTLX(K!PHYSPLICCTL, 2) = 0 /\ K!PTLX(K!PHYSPLICCTL, 1) = 129
  /\ K!PTLX(K!PHYSDRAM, 2) = 1 /\ K!PTLX(K!PHYSDRAM + K!DRAMMAX - 1, 2) = 1
BY SMT DEF K!PTLX, K!PHYSPIO, K!PHYSWDTRISCV, K!PHYSMMC0, K!PHYSEHCI1, K!PHYSPLIC, K!PHYSPLICEN,
       K!PHYSPLICCTL, K!PHYSDRAM, K!DRAMMAX, K!PHYSPIOSIZE

(* Every range, as it is. *)
Devs ==
  {Dev(K!PHYSPIO, K!PHYSPIOSIZE), Dev(K!PHYSWDTRISCV, 1), Dev(K!PHYSMMC0, 1), Dev(K!PHYSEHCI1, 1),
   Dev(K!PHYSPLIC, 1), Dev(K!PHYSPLICEN, 1), Dev(K!PHYSPLICCTL, 1)}

(* There are no others. *)
LEMMA RangesAre == Ranges = {K!Dram} \union Devs
<1> DEFINE T == {K!Devices[i] : i \in 1 .. 7}
<1>1. K!Devices = <<Dev(K!PHYSPIO, K!PHYSPIOSIZE), Dev(K!PHYSWDTRISCV, 1), Dev(K!PHYSMMC0, 1),
    Dev(K!PHYSEHCI1, 1), Dev(K!PHYSPLIC, 1), Dev(K!PHYSPLICEN, 1), Dev(K!PHYSPLICCTL, 1)>>
  BY DEF K!Devices, Dev
<1>2. \A i \in 1 .. 7 : K!Devices[i] \in Devs
  BY <1>1, Tuple7 DEF Devs
<1>3. /\ K!Devices[1] = Dev(K!PHYSPIO, K!PHYSPIOSIZE) /\ K!Devices[2] = Dev(K!PHYSWDTRISCV, 1)
      /\ K!Devices[3] = Dev(K!PHYSMMC0, 1) /\ K!Devices[4] = Dev(K!PHYSEHCI1, 1)
      /\ K!Devices[5] = Dev(K!PHYSPLIC, 1) /\ K!Devices[6] = Dev(K!PHYSPLICEN, 1)
      /\ K!Devices[7] = Dev(K!PHYSPLICCTL, 1)
  BY <1>1
<1>4. 1 \in 1 .. 7 /\ 2 \in 1 .. 7 /\ 3 \in 1 .. 7 /\ 4 \in 1 .. 7 /\ 5 \in 1 .. 7
      /\ 6 \in 1 .. 7 /\ 7 \in 1 .. 7
  OBVIOUS
<1>5. Devs \subseteq T
  <2>1. \A i \in 1 .. 7 : K!Devices[i] \in T
    OBVIOUS
  <2> HIDE DEF T
  <2>2. QED
    BY <1>3, <1>4, <2>1 DEF Devs
<1>6. T \subseteq Devs
  BY <1>2
<1>7. QED
  BY <1>5, <1>6 DEF Ranges

Second == {16, 17, 18, 32, 33, 48, 128, 129}
Tabs(x) == {<<x>>, <<x + 1>>} \union {x} \X Second
AllTables == {<<>>} \union Tabs(0) \union Tabs(510)

(* What a device needs, low and high. *)
LEMMA DevNeeds ==
  ASSUME NEW a \in Nat, NEW n \in Nat \ {0}, a + n <= K!PHYSDRAM,
         NEW y \in Nat, NEW z \in Nat,
         K!PTLX(a, 2) = 0, K!PTLX(a + n - 1, 2) = 0,
         K!PTLX(a, 1) = y, K!PTLX(a + n - 1, 1) = z
  PROVE  /\ K!Needs(Dev(a, n)) = Under(0, y, z)
         /\ K!Needs(K!High(Dev(a, n))) = Under(510, y, z)
<1> DEFINE kz == K!KZERO
<1>1. /\ Dev(a, n).va = a /\ Dev(a, n).n = n /\ Dev(a, n).level = 0
      /\ K!High(Dev(a, n)).va = K!KADDR(a) /\ K!High(Dev(a, n)).n = n
      /\ K!High(Dev(a, n)).level = 0
  BY DEF Dev, K!Pages, K!High
<1>2. kz \in Nat /\ \A b : K!KADDR(b) = b + kz
  BY Numerals DEF K!KADDR, Bases
<1>3. a + n - 1 \in Nat /\ a < K!PHYSDRAM * 2 /\ a + n - 1 < K!PHYSDRAM * 2
  BY Numerals DEF Bases
<1> HIDE DEF kz
<1>4. K!KADDR(a) + n - 1 = K!KADDR(a + n - 1)
  BY <1>2
<1>5. /\ K!PTLX(K!KADDR(a), 2) = 510 /\ K!PTLX(K!KADDR(a + n - 1), 2) = 510
      /\ K!PTLX(K!KADDR(a), 1) = y /\ K!PTLX(K!KADDR(a + n - 1), 1) = z
  <2>1. 0 + 510 = 510
    OBVIOUS
  <2>2. QED
    BY <1>3, <2>1, HighIndices
<1>6. K!Needs(Dev(a, n)) = Under(0, y, z)
  BY <1>1, NeedsPages
<1>7. K!Needs(K!High(Dev(a, n))) = Under(510, y, z)
  BY <1>1, <1>4, <1>5, NeedsPages
<1>8. QED
  BY <1>6, <1>7

(* Every device is below DRAM. *)
LEMMA Small ==
  /\ K!PHYSPIO + K!PHYSPIOSIZE <= K!PHYSDRAM /\ K!PHYSPIOSIZE \in Nat \ {0}
  /\ K!PHYSWDTRISCV + 1 <= K!PHYSDRAM /\ K!PHYSMMC0 + 1 <= K!PHYSDRAM
  /\ K!PHYSEHCI1 + 1 <= K!PHYSDRAM /\ K!PHYSPLIC + 1 <= K!PHYSDRAM
  /\ K!PHYSPLICEN + 1 <= K!PHYSDRAM /\ K!PHYSPLICCTL + 1 <= K!PHYSDRAM
BY SMT DEF K!PHYSPIO, K!PHYSWDTRISCV, K!PHYSMMC0, K!PHYSEHCI1, K!PHYSPLIC, K!PHYSPLICEN,
       K!PHYSPLICCTL, K!PHYSDRAM, K!PHYSPIOSIZE

(* The seven devices. *)
LEMMA DevsNeed ==
  /\ K!Needs(Dev(K!PHYSPIO, K!PHYSPIOSIZE)) = Under(0, 16, 18)
  /\ K!Needs(K!High(Dev(K!PHYSPIO, K!PHYSPIOSIZE))) = Under(510, 16, 18)
  /\ K!Needs(Dev(K!PHYSWDTRISCV, 1)) = Under(0, 48, 48)
  /\ K!Needs(K!High(Dev(K!PHYSWDTRISCV, 1))) = Under(510, 48, 48)
  /\ K!Needs(Dev(K!PHYSMMC0, 1)) = Under(0, 32, 32)
  /\ K!Needs(K!High(Dev(K!PHYSMMC0, 1))) = Under(510, 32, 32)
  /\ K!Needs(Dev(K!PHYSEHCI1, 1)) = Under(0, 33, 33)
  /\ K!Needs(K!High(Dev(K!PHYSEHCI1, 1))) = Under(510, 33, 33)
  /\ K!Needs(Dev(K!PHYSPLIC, 1)) = Under(0, 128, 128)
  /\ K!Needs(K!High(Dev(K!PHYSPLIC, 1))) = Under(510, 128, 128)
  /\ K!Needs(Dev(K!PHYSPLICEN, 1)) = Under(0, 128, 128)
  /\ K!Needs(K!High(Dev(K!PHYSPLICEN, 1))) = Under(510, 128, 128)
  /\ K!Needs(Dev(K!PHYSPLICCTL, 1)) = Under(0, 129, 129)
  /\ K!Needs(K!High(Dev(K!PHYSPLICCTL, 1))) = Under(510, 129, 129)
<1>1. ASSUME NEW a \in Nat, a + 1 <= K!PHYSDRAM, K!PTLX(a, 2) = 0, NEW y \in Nat,
             K!PTLX(a, 1) = y
      PROVE  /\ K!Needs(Dev(a, 1)) = Under(0, y, y)
             /\ K!Needs(K!High(Dev(a, 1))) = Under(510, y, y)
  <2>1. a + 1 - 1 = a
    OBVIOUS
  <2>2. QED
    BY <1>1, <2>1, DevNeeds
<1>2. \A a \in Bases : a \in Nat
  BY Numerals
<1>3. /\ K!PHYSPIO \in Nat /\ K!PHYSWDTRISCV \in Nat /\ K!PHYSMMC0 \in Nat /\ K!PHYSEHCI1 \in Nat
      /\ K!PHYSPLIC \in Nat /\ K!PHYSPLICEN \in Nat /\ K!PHYSPLICCTL \in Nat
  BY <1>2, Zenon DEF Bases
<1>4. /\ K!Needs(Dev(K!PHYSPIO, K!PHYSPIOSIZE)) = Under(0, 16, 18)
      /\ K!Needs(K!High(Dev(K!PHYSPIO, K!PHYSPIOSIZE))) = Under(510, 16, 18)
  BY <1>3, Idx, Small, DevNeeds, SMT
<1>5. /\ K!Needs(Dev(K!PHYSWDTRISCV, 1)) = Under(0, 48, 48)
      /\ K!Needs(K!High(Dev(K!PHYSWDTRISCV, 1))) = Under(510, 48, 48)
  BY <1>1, <1>3, Idx, Small, SMT
<1>6. /\ K!Needs(Dev(K!PHYSMMC0, 1)) = Under(0, 32, 32)
      /\ K!Needs(K!High(Dev(K!PHYSMMC0, 1))) = Under(510, 32, 32)
  BY <1>1, <1>3, Idx, Small, SMT
<1>7. /\ K!Needs(Dev(K!PHYSEHCI1, 1)) = Under(0, 33, 33)
      /\ K!Needs(K!High(Dev(K!PHYSEHCI1, 1))) = Under(510, 33, 33)
  BY <1>1, <1>3, Idx, Small, SMT
<1>8. /\ K!Needs(Dev(K!PHYSPLIC, 1)) = Under(0, 128, 128)
      /\ K!Needs(K!High(Dev(K!PHYSPLIC, 1))) = Under(510, 128, 128)
  BY <1>1, <1>3, Idx, Small, SMT
<1>9. /\ K!Needs(Dev(K!PHYSPLICEN, 1)) = Under(0, 128, 128)
      /\ K!Needs(K!High(Dev(K!PHYSPLICEN, 1))) = Under(510, 128, 128)
  BY <1>1, <1>3, Idx, Small, SMT
<1>10. /\ K!Needs(Dev(K!PHYSPLICCTL, 1)) = Under(0, 129, 129)
      /\ K!Needs(K!High(Dev(K!PHYSPLICCTL, 1))) = Under(510, 129, 129)
  BY <1>1, <1>3, Idx, Small, SMT
<1>11. QED
  BY <1>4, <1>5, <1>6, <1>7, <1>8, <1>9, <1>10

(* DRAM is mapped by entries of its two gigabytes' tables. *)
LEMMA DramNeeds == K!Needs(K!Dram) = {<<1>>} /\ K!Needs(K!High(K!Dram)) = {<<511>>}
<1> DEFINE d == K!PHYSDRAM
           m == K!PHYSDRAM + K!DRAMMAX - 1
<1>1. /\ K!Dram.va = d /\ K!Dram.n = K!DRAMMAX /\ K!Dram.level = 1
      /\ K!High(K!Dram).va = K!KADDR(d) /\ K!High(K!Dram).n = K!DRAMMAX
      /\ K!High(K!Dram).level = 1
  BY DEF K!Dram, K!Blocks, K!High
<1>2. d \in Nat /\ m \in Nat /\ d < K!PHYSDRAM * 2 /\ m < K!PHYSDRAM * 2
      /\ K!KADDR(m) = K!KADDR(d) + K!DRAMMAX - 1
  BY SMT DEF K!PHYSDRAM, K!DRAMMAX, K!KADDR, K!KZERO
<1>3. K!PTLX(d, 2) = 1 /\ K!PTLX(m, 2) = 1
  BY Idx
<1> HIDE DEF d
<1>4. K!PTLX(K!KADDR(d), 2) = 511 /\ K!PTLX(K!KADDR(d) + K!DRAMMAX - 1, 2) = 511
  <2>1. 1 + 510 = 511
    OBVIOUS
  <2> HIDE DEF m
  <2>2. QED
    BY <1>2, <1>3, <2>1, HighIndices
<1>5. K!Needs(K!Dram) = {<<1>>}
  BY <1>1, <1>3, NeedsBlocks DEF d
<1>6. K!Needs(K!High(K!Dram)) = {<<511>>}
  BY <1>1, <1>4, NeedsBlocks
<1>7. QED
  BY <1>5, <1>6

(* All calls together: both halves need the same, under entries 0 and 510. *)
LEMMA UnionIs ==
  UNION {K!Needs(r) : r \in Ranges \union {K!High(r) : r \in Ranges}} = Tabs(0) \union Tabs(510)
<1> DEFINE Low == UNION {K!Needs(r) : r \in Ranges}
           Up == UNION {K!Needs(K!High(r)) : r \in Ranges}
           Here(x) == UNION {Under(x, 16, 18), Under(x, 48, 48), Under(x, 32, 32), Under(x, 33, 33),
                             Under(x, 128, 128), Under(x, 129, 129), {<<x + 1>>}}
<1>1. Low = Here(0)
  <2>1. Low = UNION {K!Needs(Dev(K!PHYSPIO, K!PHYSPIOSIZE)), K!Needs(Dev(K!PHYSWDTRISCV, 1)),
      K!Needs(Dev(K!PHYSMMC0, 1)), K!Needs(Dev(K!PHYSEHCI1, 1)), K!Needs(Dev(K!PHYSPLIC, 1)),
      K!Needs(Dev(K!PHYSPLICEN, 1)), K!Needs(Dev(K!PHYSPLICCTL, 1)), K!Needs(K!Dram)}
    BY RangesAre DEF Devs
  <2>2. 0 + 1 = 1
    OBVIOUS
  <2>3. QED
    BY <2>1, <2>2, DevsNeed, DramNeeds
<1>2. Up = Here(510)
  <2>1. Up = UNION {K!Needs(K!High(Dev(K!PHYSPIO, K!PHYSPIOSIZE))),
      K!Needs(K!High(Dev(K!PHYSWDTRISCV, 1))), K!Needs(K!High(Dev(K!PHYSMMC0, 1))),
      K!Needs(K!High(Dev(K!PHYSEHCI1, 1))), K!Needs(K!High(Dev(K!PHYSPLIC, 1))),
      K!Needs(K!High(Dev(K!PHYSPLICEN, 1))), K!Needs(K!High(Dev(K!PHYSPLICCTL, 1))),
      K!Needs(K!High(K!Dram))}
    BY RangesAre DEF Devs
  <2>2. 510 + 1 = 511
    OBVIOUS
  <2>3. QED
    BY <2>1, <2>2, DevsNeed, DramNeeds
<1>3. ASSUME NEW x \in Nat
      PROVE  Here(x) = Tabs(x)
  <2>1. Second = (16 .. 18) \union (48 .. 48) \union (32 .. 32) \union (33 .. 33)
                 \union (128 .. 128) \union (129 .. 129)
    BY DEF Second
  <2>2. {x} \X Second = ({x} \X (16 .. 18)) \union ({x} \X (48 .. 48)) \union ({x} \X (32 .. 32))
            \union ({x} \X (33 .. 33)) \union ({x} \X (128 .. 128)) \union ({x} \X (129 .. 129))
    BY <2>1
  <2>3. QED
    BY <2>2 DEF Tabs, Under
<1>4. UNION {K!Needs(r) : r \in Ranges \union {K!High(r) : r \in Ranges}} = Low \union Up
  OBVIOUS
<1>5. QED
  BY <1>1, <1>2, <1>3, <1>4

(* 21 tables, as mmu.c counts them. *)
LEMMA Twentyone == IsFiniteSet(AllTables) /\ Cardinality(AllTables) = 21
<1>1. IsFiniteSet(Second) /\ Cardinality(Second) = 8
  <2>1. IsFiniteSet(16 .. 18) /\ Cardinality(16 .. 18) = 3
    <3>1. 16 \in Int /\ 18 \in Int /\ ~(16 > 18) /\ 18 - 16 + 1 = 3
      OBVIOUS
    <3>2. /\ IsFiniteSet(16 .. 18)
          /\ Cardinality(16 .. 18) = IF 16 > 18 THEN 0 ELSE 18 - 16 + 1
      BY <3>1, FS_Interval, Zenon
    <3>3. QED
      BY <3>1, <3>2
  <2>2. IsFiniteSet((16 .. 18) \union {32}) /\ Cardinality((16 .. 18) \union {32}) = 4
    BY <2>1, FS_AddElement
  <2> DEFINE a == (16 .. 18) \union {32}
  <2>3. IsFiniteSet(a \union {33}) /\ Cardinality(a \union {33}) = 5
    BY <2>2, FS_AddElement
  <2> DEFINE b == a \union {33}
  <2>4. IsFiniteSet(b \union {48}) /\ Cardinality(b \union {48}) = 6
    BY <2>3, FS_AddElement
  <2> DEFINE c == b \union {48}
  <2>5. IsFiniteSet(c \union {128}) /\ Cardinality(c \union {128}) = 7
    BY <2>4, FS_AddElement
  <2> DEFINE d == c \union {128}
  <2>6. IsFiniteSet(d \union {129}) /\ Cardinality(d \union {129}) = 8
    BY <2>5, FS_AddElement
  <2>7. Second = d \union {129}
    BY DEF Second
  <2>8. QED
    BY <2>6, <2>7
<1>2. ASSUME NEW x \in Nat
      PROVE  IsFiniteSet(Tabs(x)) /\ Cardinality(Tabs(x)) = 10
  <2> DEFINE p == {x} \X Second
  <2>1. IsFiniteSet(p) /\ Cardinality(p) = 8
    <3>1. IsFiniteSet({x}) /\ Cardinality({x}) = 1
      BY FS_Singleton
    <3>2. Cardinality(p) = 1 * 8 /\ IsFiniteSet(p)
      BY <1>1, <3>1, FS_Product
    <3>3. QED
      BY <3>2
  <2>2. \A t \in p : Len(t) = 2
    OBVIOUS
  <2>3. Len(<<x>>) = 1 /\ Len(<<x + 1>>) = 1 /\ <<x>> # <<x + 1>>
    <3>1. <<x>>[1] # <<x + 1>>[1]
      OBVIOUS
    <3>2. QED
      BY <3>1
  <2>4. <<x>> \notin p /\ <<x + 1>> \notin p
    BY <2>2, <2>3
  <2> HIDE DEF p
  <2>5. IsFiniteSet(p \union {<<x>>}) /\ Cardinality(p \union {<<x>>}) = 9
    BY <2>1, <2>4, FS_AddElement
  <2>6. <<x + 1>> \notin p \union {<<x>>}
    BY <2>3, <2>4
  <2> DEFINE q == p \union {<<x>>}
  <2>7. IsFiniteSet(q) /\ Cardinality(q) = 9 /\ <<x + 1>> \notin q
    BY <2>5, <2>6
  <2> HIDE DEF q
  <2>8. IsFiniteSet(q \union {<<x + 1>>}) /\ Cardinality(q \union {<<x + 1>>}) = 10
    BY <2>7, FS_AddElement
  <2>9. Tabs(x) = q \union {<<x + 1>>}
    BY DEF Tabs, p, q
  <2>10. QED
    BY <2>8, <2>9
<1>3. Tabs(0) \intersect Tabs(510) = {}
  <2>1. ASSUME NEW x \in Nat, NEW t \in Tabs(x)
        PROVE  t[1] \in {x, x + 1}
    BY <2>1 DEF Tabs
  <2>2. \A t \in Tabs(0) : t[1] \in {0, 0 + 1}
    BY <2>1
  <2>3. \A t \in Tabs(510) : t[1] \in {510, 510 + 1}
    BY <2>1
  <2>4. QED
    BY <2>2, <2>3
<1>4. IsFiniteSet(Tabs(0) \union Tabs(510)) /\ Cardinality(Tabs(0) \union Tabs(510)) = 20
  <2> DEFINE a == Tabs(0)
             b == Tabs(510)
  <2>1. /\ IsFiniteSet(a) /\ Cardinality(a) = 10 /\ IsFiniteSet(b) /\ Cardinality(b) = 10
        /\ a \intersect b = {} /\ Cardinality({}) = 0
    BY <1>2, <1>3, FS_EmptySet
  <2> HIDE DEF a, b
  <2>2. /\ IsFiniteSet(a \union b)
        /\ Cardinality(a \union b) = Cardinality(a) + Cardinality(b) - Cardinality(a \intersect b)
    BY <2>1, FS_Union
  <2>3. IsFiniteSet(a \union b) /\ Cardinality(a \union b) = 20
    BY <2>1, <2>2
  <2>4. QED
    BY <2>3 DEF a, b
<1>5. <<>> \notin Tabs(0) \union Tabs(510)
  <2>1. ASSUME NEW x \in Nat, NEW t \in Tabs(x)
        PROVE  t # <<>>
    BY <2>1 DEF Tabs
  <2>2. QED
    BY <2>1
<1> DEFINE u == Tabs(0) \union Tabs(510)
<1>6. IsFiniteSet(u) /\ Cardinality(u) = 20 /\ <<>> \notin u /\ AllTables = u \union {<<>>}
  BY <1>4, <1>5 DEF AllTables
<1> HIDE DEF u
<1>7. QED
  BY <1>6, FS_AddElement

(* Where the tables lead.  Every range is below twice PHYSDRAM, its image    *)
(* above KZERO.                                                              *)
Highs == {K!High(r) : r \in Ranges}

(* The ranges' bounds. *)
LEMMA Sizes ==
  /\ \A r \in Devs : r.level = 0 /\ r.va = r.pa /\ r.pa \in Nat /\ r.n \in Nat \ {0}
                     /\ r.pa + r.n <= K!PHYSDRAM
  /\ \A r \in Ranges : r.va = r.pa /\ r.pa \in Nat /\ r.n \in Nat \ {0} /\ r.pa + r.n <= K!KZERO
  /\ \A r \in Ranges : K!High(r).va = r.pa + K!KZERO /\ K!High(r).pa = r.pa /\ K!High(r).n = r.n
                       /\ K!High(r).level = r.level
  /\ K!Dram.level = 1 /\ K!KZERO \in Nat /\ K!PHYSDRAM \in Nat
<1>1. /\ \A a \in Bases : a \in Nat
      /\ K!KZERO \in Nat /\ K!PHYSDRAM \in Nat /\ K!PHYSDRAM <= K!KZERO
      /\ K!DRAMMAX \in Nat \ {0} /\ K!PHYSDRAM + K!DRAMMAX <= K!KZERO
  <2>1. K!KZERO \in Nat /\ K!PHYSDRAM \in Nat /\ K!PHYSDRAM <= K!KZERO
        /\ K!DRAMMAX \in Nat \ {0} /\ K!PHYSDRAM + K!DRAMMAX <= K!KZERO
    BY SMT DEF K!KZERO, K!PHYSDRAM, K!DRAMMAX
  <2>2. QED
    BY <2>1, Numerals
<1>2. ASSUME NEW a \in Nat, NEW n \in Nat \ {0}, a + n <= K!PHYSDRAM
      PROVE  /\ Dev(a, n).level = 0 /\ Dev(a, n).va = a /\ Dev(a, n).pa = a /\ Dev(a, n).n = n
             /\ K!High(Dev(a, n)).va = a + K!KZERO /\ K!High(Dev(a, n)).pa = a
             /\ K!High(Dev(a, n)).n = n /\ K!High(Dev(a, n)).level = 0
  BY DEF Dev, K!Pages, K!High, K!KADDR
<1> DEFINE OK(r) == r.level = 0 /\ r.va = r.pa /\ r.pa \in Nat /\ r.n \in Nat \ {0}
                    /\ r.pa + r.n <= K!PHYSDRAM
                    /\ K!High(r).va = r.pa + K!KZERO /\ K!High(r).pa = r.pa /\ K!High(r).n = r.n
                    /\ K!High(r).level = 0
<1>3. ASSUME NEW a \in Nat, NEW n \in Nat \ {0}, a + n <= K!PHYSDRAM
      PROVE  OK(Dev(a, n))
  BY <1>2, <1>3
<1>4. /\ K!PHYSPIO \in Nat /\ K!PHYSWDTRISCV \in Nat /\ K!PHYSMMC0 \in Nat /\ K!PHYSEHCI1 \in Nat
      /\ K!PHYSPLIC \in Nat /\ K!PHYSPLICEN \in Nat /\ K!PHYSPLICCTL \in Nat
  BY <1>1, Zenon DEF Bases
<1> HIDE DEF OK
<1>5. /\ OK(Dev(K!PHYSPIO, K!PHYSPIOSIZE)) /\ OK(Dev(K!PHYSWDTRISCV, 1)) /\ OK(Dev(K!PHYSMMC0, 1))
      /\ OK(Dev(K!PHYSEHCI1, 1)) /\ OK(Dev(K!PHYSPLIC, 1)) /\ OK(Dev(K!PHYSPLICEN, 1))
      /\ OK(Dev(K!PHYSPLICCTL, 1))
  <2>1. 1 \in Nat \ {0}
    OBVIOUS
  <2>2. QED
    BY <1>3, <1>4, <2>1, Small, Zenon
<1>6. \A r \in Devs : OK(r)
  BY <1>5, Zenon DEF Devs
<1>7. /\ K!Dram.va = K!PHYSDRAM /\ K!Dram.pa = K!PHYSDRAM /\ K!Dram.n = K!DRAMMAX
      /\ K!Dram.level = 1 /\ K!High(K!Dram).va = K!PHYSDRAM + K!KZERO
      /\ K!High(K!Dram).pa = K!PHYSDRAM /\ K!High(K!Dram).n = K!DRAMMAX
      /\ K!High(K!Dram).level = 1
  BY DEF K!Dram, K!Blocks, K!High, K!KADDR
<1>8. \A r \in Devs : r.level = 0 /\ r.va = r.pa /\ r.pa \in Nat /\ r.n \in Nat \ {0}
                     /\ r.pa + r.n <= K!PHYSDRAM /\ r.pa + r.n <= K!KZERO
  BY <1>1, <1>6 DEF OK
<1>9. \A r \in Ranges : r.va = r.pa /\ r.pa \in Nat /\ r.n \in Nat \ {0} /\ r.pa + r.n <= K!KZERO
  BY <1>1, <1>7, <1>8, RangesAre
<1>10. \A r \in Devs : K!High(r).va = r.pa + K!KZERO /\ K!High(r).pa = r.pa /\ K!High(r).n = r.n
                       /\ K!High(r).level = r.level
  BY <1>6, Zenon DEF OK
<1>11. \A r \in Ranges : K!High(r).va = r.pa + K!KZERO /\ K!High(r).pa = r.pa /\ K!High(r).n = r.n
                       /\ K!High(r).level = r.level
  BY <1>7, <1>10, RangesAre, Zenon
<1>12. QED
  BY <1>1, <1>7, <1>8, <1>9, <1>11

(* An address below KZERO leads to itself, if a range has it ... *)
LEMMA LowFound ==
  ASSUME maps \subseteq Ranges \union Highs, NEW a \in Nat, a < K!KZERO,
         NEW s \in Ranges, s \in maps, s.pa <= a, a < s.pa + s.n
  PROVE  K!Translate(a) = a
<1> DEFINE r == CHOOSE r \in maps : K!Holds(r, a)
           kz == K!KZERO
<1>1. K!Holds(s, a)
  BY Sizes DEF K!Holds
<1>2. r \in maps /\ K!Holds(r, a) /\ K!Translate(a) = r.pa + (a - r.va)
  BY <1>1 DEF K!Translate
<1> HIDE DEF r
<1>3. r \notin Highs
  <2>1. ASSUME NEW h \in Ranges, r = K!High(h) PROVE FALSE
    <3>1. r.va = h.pa + kz /\ h.pa \in Nat /\ kz \in Nat
      BY <2>1, Sizes
    <3>2. r.va <= a /\ a < kz
      BY <1>2 DEF K!Holds
    <3> HIDE DEF kz
    <3>3. QED
      BY <3>1, <3>2
  <2>2. QED
    BY <2>1 DEF Highs
<1>4. r.va = r.pa /\ r.pa \in Nat
  BY <1>2, <1>3, Sizes
<1>5. QED
  BY <1>2, <1>4

(* ... and KADDR of one to it, if the range's image is there. *)
LEMMA HighFound ==
  ASSUME maps \subseteq Ranges \union Highs, NEW a \in Nat,
         NEW s \in Ranges, K!High(s) \in maps, s.pa <= a, a < s.pa + s.n
  PROVE  K!Translate(K!KADDR(a)) = a
<1> DEFINE kz == K!KZERO
           v == a + kz
           r == CHOOSE r \in maps : K!Holds(r, v)
<1>0. K!KADDR(a) = v /\ kz \in Nat
  BY Sizes DEF K!KADDR
<1>1. K!High(s).va = s.pa + kz /\ K!High(s).n = s.n /\ s.pa \in Nat /\ s.n \in Nat
  BY Sizes
<1> HIDE DEF kz
<1>2. K!Holds(K!High(s), v)
  <2>1. s.pa + kz <= a + kz /\ a + kz < (s.pa + kz) + s.n
    BY <1>0, <1>1
  <2>2. QED
    BY <1>1, <2>1 DEF K!Holds
<1> HIDE DEF v
<1>3. r \in maps /\ K!Holds(r, v) /\ K!Translate(v) = r.pa + (v - r.va)
  BY <1>2 DEF K!Translate
<1> HIDE DEF r
<1>4. r \notin Ranges
  <2>1. ASSUME r \in Ranges PROVE FALSE
    <3>1. r.va = r.pa /\ r.pa \in Nat /\ r.n \in Nat /\ r.pa + r.n <= kz
      BY <2>1, Sizes DEF kz
    <3>2. v < r.va + r.n /\ v \in Nat /\ kz <= v
      BY <1>0, <1>3 DEF K!Holds, v
    <3>3. QED
      BY <1>0, <3>1, <3>2
  <2>2. QED
    BY <2>1
<1>5. PICK h \in Ranges : r = K!High(h)
  BY <1>3, <1>4 DEF Highs
<1>6. r.va = h.pa + kz /\ r.pa = h.pa /\ h.pa \in Nat
  BY <1>5, Sizes DEF kz
<1>7. h.pa + ((a + kz) - (h.pa + kz)) = a
  BY <1>0, <1>6
<1>8. QED
  BY <1>0, <1>3, <1>6, <1>7 DEF v

(* No leaf of a device's is where an entry of DRAM's is. *)
LEMMA DeviceSpan ==
  ASSUME NEW a \in Nat, NEW n \in Nat \ {0}, a + n <= K!PHYSDRAM
  PROVE  /\ (a + n - 1) \div 512 < 512
         /\ (a + K!KZERO) \div 512 >= 261120 /\ (a + K!KZERO + n - 1) \div 512 < 261632
BY SMT DEF K!PHYSDRAM, K!KZERO

(* DRAM's entries begin where those end. *)
LEMMA DramSpan ==
  /\ (K!PHYSDRAM) \div 512 = 512 /\ (K!PHYSDRAM + K!DRAMMAX - 1) \div 512 = 1023
  /\ (K!PHYSDRAM + K!KZERO) \div 512 = 261632
BY SMT DEF K!PHYSDRAM, K!KZERO, K!DRAMMAX

(* So no table's place is a 2 MB leaf's. *)
LEMMA SpansApart ==
  ASSUME NEW r \in Ranges \union Highs, NEW s \in Ranges \union Highs, r.level # s.level
  PROVE  K!Span(r) \intersect K!Span(s) = {}
<1> DEFINE HighDevs == {K!High(x) : x \in Devs}
           Drams == {K!Dram, K!High(K!Dram)}
           kz == K!KZERO
<1>1. Ranges \union Highs = Devs \union HighDevs \union Drams
  BY RangesAre DEF Highs
<1>2. \A x \in Devs \union HighDevs : x.level = 0
  BY Sizes, RangesAre
<1>3. \A x \in Drams : x.level = 1
  BY Sizes, RangesAre
<1>4. ASSUME NEW x \in Devs \union HighDevs
      PROVE  \A y \in K!Span(x) : y \in Int /\ (y < 512 \/ (y >= 261120 /\ y < 261632))
  <2>1. CASE x \in Devs
    <3>1. x.va \in Nat /\ x.n \in Nat \ {0} /\ x.va + x.n <= K!PHYSDRAM
      BY <2>1, Sizes
    <3>2. (x.va + x.n - 1) \div 512 < 512
      BY <3>1, DeviceSpan
    <3>3. (x.va + x.n - 1) \div 512 \in Int /\ x.va \div 512 \in Int
      BY <3>1
    <3>4. QED
      BY <3>2, <3>3 DEF K!Span
  <2>2. CASE x \in HighDevs
    <3>1. PICK h \in Devs : x = K!High(h)
      BY <2>2
    <3>2. h.pa \in Nat /\ h.n \in Nat \ {0} /\ h.pa + h.n <= K!PHYSDRAM
          /\ x.va = h.pa + kz /\ x.n = h.n /\ kz \in Nat
      BY <3>1, Sizes, RangesAre
    <3>3. x.va \div 512 >= 261120 /\ (x.va + x.n - 1) \div 512 < 261632
      BY <3>2, DeviceSpan
    <3> HIDE DEF kz
    <3>4. (x.va + x.n - 1) \div 512 \in Int /\ x.va \div 512 \in Int
      BY <3>2
    <3>5. QED
      BY <3>3, <3>4 DEF K!Span
  <2>3. QED
    BY <2>1, <2>2
<1>5. ASSUME NEW x \in Drams
      PROVE  \A y \in K!Span(x) : y \in Int /\ ((y >= 512 /\ y < 1024) \/ y >= 261632)
  <2>1. CASE x = K!Dram
    <3>1. x.va = K!PHYSDRAM /\ x.n = K!DRAMMAX
      BY <2>1 DEF K!Dram, K!Blocks
    <3>2. x.va \div 512 = 512 /\ (x.va + x.n - 1) \div 512 = 1023
      BY <3>1, DramSpan
    <3>3. QED
      BY <3>2 DEF K!Span
  <2>2. CASE x = K!High(K!Dram)
    <3>1. x.va = K!PHYSDRAM + K!KZERO
      BY <2>2 DEF K!Dram, K!Blocks, K!High, K!KADDR
    <3>2. x.va \div 512 = 261632
      BY <3>1, DramSpan
    <3>3. QED
      BY <3>2 DEF K!Span
  <2>3. QED
    BY <2>1, <2>2
<1> HIDE DEF HighDevs, Drams
<1>6. CASE r \in Drams
  <2>1. s \in Devs \union HighDevs
    BY <1>1, <1>2, <1>3, <1>6
  <2>2. QED
    BY <1>4, <1>5, <1>6, <2>1
<1>7. CASE r \notin Drams
  <2>1. r \in Devs \union HighDevs /\ s \in Drams
    BY <1>1, <1>2, <1>7
  <2>2. QED
    BY <1>4, <1>5, <2>1
<1>8. QED
  BY <1>6, <1>7

(* The map's tables, and the way into it. *)
Phases == {"map", "stopped", "satp", "jump", "uarthigh", "lowdrop", "main"}
TablesOK ==
  /\ mpc \in Phases /\ call \in 1 .. 17
  /\ maps \subseteq Ranges \union Highs
  /\ tables \subseteq AllTables
  /\ mpc = "map" => tables = {<<>>} \union UNION {K!Needs(r) : r \in maps}
  /\ mpc \notin {"map", "stopped"} => tables = AllTables
  /\ mpc = "stopped" => Cardinality(tables) > NTABLES

Physical == {"map", "stopped", "satp", "jump"}
Entries ==
  {<<K!PHYSTEXT, K!PHYSTEXT>>, <<K!KADDR(K!PHYSTEXT), K!PHYSTEXT>>,
   <<K!PHYSUART0, K!PHYSUART0>>, <<K!KADDR(K!PHYSUART0), K!PHYSUART0>>}
WayOK ==
  /\ text = IF mpc \in Physical THEN K!PHYSTEXT ELSE K!KADDR(K!PHYSTEXT)
  /\ uart = IF mpc \in Physical \union {"uarthigh"} THEN K!PHYSUART0 ELSE K!KADDR(K!PHYSUART0)
  /\ tlb \subseteq Entries
  /\ \A e \in tlb : e[1] \in {text, uart, K!PHYSTEXT, K!PHYSUART0}
  /\ on \in BOOLEAN
  /\ ~on \/ mpc = "main" => tlb = {}

(* Before mmulowdrop both halves lead to text and console, after it the high *)
(* one still does.                                                           *)
LEMMA Found ==
  ASSUME MapOK, TablesOK, mpc \in {"jump", "uarthigh", "lowdrop", "main"},
         NEW a \in {K!PHYSTEXT, K!PHYSUART0}
  PROVE  /\ mpc # "main" => K!Translate(a) = a
         /\ K!Translate(K!KADDR(a)) = a
<1>1. PICK s \in Ranges : a \in Nat /\ s.pa <= a /\ a < s.pa + s.n /\ a < K!KZERO
  <2>1. CASE a = K!PHYSTEXT
    <3>1. K!PHYSTEXT \in Nat /\ K!PHYSDRAM <= K!PHYSTEXT /\ K!PHYSTEXT < K!PHYSDRAM + K!DRAMMAX
          /\ K!PHYSTEXT < K!KZERO
      BY SMT DEF K!PHYSTEXT, K!PHYSDRAM, K!DRAMMAX, K!KZERO
    <3>2. K!Dram \in Ranges /\ K!Dram.pa = K!PHYSDRAM /\ K!Dram.n = K!DRAMMAX
      BY DEF Ranges, K!Dram, K!Blocks
    <3>3. QED
      BY <2>1, <3>1, <3>2
  <2>2. CASE a = K!PHYSUART0
    <3>1. K!PHYSUART0 \in Nat /\ K!PHYSPIO <= K!PHYSUART0
          /\ K!PHYSUART0 < K!PHYSPIO + K!PHYSPIOSIZE /\ K!PHYSUART0 < K!KZERO
      BY SMT DEF K!PHYSUART0, K!PHYSPIO, K!PHYSPIOSIZE, K!KZERO
    <3>2. K!Pages(K!PHYSPIO, K!PHYSPIO, K!PHYSPIOSIZE, "dev") \in Ranges
      BY DevicesAre
    <3>3. /\ K!Pages(K!PHYSPIO, K!PHYSPIO, K!PHYSPIOSIZE, "dev").pa = K!PHYSPIO
          /\ K!Pages(K!PHYSPIO, K!PHYSPIO, K!PHYSPIOSIZE, "dev").n = K!PHYSPIOSIZE
      BY DEF K!Pages
    <3>4. QED
      BY <2>2, <3>1, <3>2, <3>3
  <2>3. QED
    BY <2>1, <2>2
<1>2. Called(16) = Ranges \union Highs /\ Len(K!Calls) = 16
  BY CallsAre DEF Highs
<1>3. maps \subseteq Ranges \union Highs
  BY DEF TablesOK
<1>4. mpc # "main" => K!Translate(a) = a
  <2>1. mpc # "main" => s \in maps
    BY <1>2 DEF MapOK
  <2>2. QED
    BY <1>1, <1>3, <2>1, LowFound
<1>5. K!High(s) \in maps
  <2>1. CASE mpc = "main"
    <3>1. K!PTLX(K!High(s).va, 2) \notin {0, 1}
      <4>1. s.pa \in Nat /\ s.pa <= K!PHYSDRAM /\ K!High(s).va = K!KADDR(s.pa)
        BY DevicesAre DEF RangeOK
      <4>2. QED
        BY <4>1, Halves
    <3>2. QED
      BY <1>2, <2>1, <3>1 DEF MapOK, Highs
  <2>2. CASE mpc # "main"
    BY <1>2, <2>2 DEF MapOK, Highs
  <2>3. QED
    BY <2>1, <2>2
<1>6. K!Translate(K!KADDR(a)) = a
  BY <1>1, <1>3, <1>5, HighFound
<1>7. QED
  BY <1>4, <1>6

(* The root alone is taken, and nothing is cached. *)
LEMMA WayInit == Init => TablesOK /\ WayOK
<1> SUFFICES ASSUME Init PROVE TablesOK /\ WayOK
  OBVIOUS
<1>1. /\ mpc = "map" /\ call = 1 /\ maps = {} /\ tables = {<<>>}
      /\ on = FALSE /\ text = K!PHYSTEXT /\ uart = K!PHYSUART0 /\ tlb = {}
  BY DEF Init, K!Init
<1>2. TablesOK
  BY <1>1 DEF TablesOK, AllTables, Phases
<1>3. WayOK
  BY <1>1 DEF WayOK, Physical
<1>4. QED
  BY <1>2, <1>3

(* KernelMap counts as its library does. *)
LEMMA SameCount == \A t : K!Cardinality(t) = Cardinality(t)
BY DEF K!Cardinality, Cardinality

(* Each call takes the tables it needs and there are not more than 21 ...    *)
LEMMA TablesKeep ==
  ASSUME MapOK, TablesOK, MapStep
  PROVE  TablesOK'
<1>1. Len(K!Calls) = 16 /\ Called(16) = Ranges \union Highs
  BY CallsAre DEF Highs
<1>2. CASE K!Mapcall
  <2>1. /\ mpc = "map" /\ call \in 1 .. 16 /\ call' = call + 1 /\ maps = Called(call - 1)
        /\ maps' = maps \union {K!Calls[call]}
        /\ tables' = tables \union K!Needs(K!Calls[call])
        /\ mpc' = IF Cardinality(tables') > NTABLES THEN "stopped"
                  ELSE IF call = 16 THEN "satp" ELSE "map"
    <3>1. /\ mpc = "map" /\ call' = call + 1
          /\ maps' = maps \union {K!Calls[call]}
          /\ tables' = tables \union K!Needs(K!Calls[call])
          /\ mpc' = IF Cardinality(tables') > NTABLES THEN "stopped"
                    ELSE IF call = Len(K!Calls) THEN "satp" ELSE "map"
      BY <1>2, SameCount, Zenon DEF K!Mapcall
    <3>2. call \in 1 .. 16 /\ maps = Called(call - 1)
      BY <1>1, <3>1 DEF MapOK
    <3>3. QED
      BY <1>1, <3>1, <3>2
  <2>2. K!Calls[call] \in Called(16) /\ Called(call - 1) \union {K!Calls[call]} = Called(call)
    BY <2>1 DEF Called
  <2>3. maps' = Called(call) /\ maps' \subseteq Ranges \union Highs
    BY <1>1, <2>1, <2>2 DEF TablesOK
  <2>4. tables' = {<<>>} \union UNION {K!Needs(r) : r \in maps'}
    <3>1. tables = {<<>>} \union UNION {K!Needs(r) : r \in maps}
      BY <2>1 DEF TablesOK
    <3>2. UNION {K!Needs(r) : r \in maps \union {K!Calls[call]}}
            = (UNION {K!Needs(r) : r \in maps}) \union K!Needs(K!Calls[call])
      OBVIOUS
    <3>3. QED
      BY <2>1, <3>1, <3>2
  <2>5. {<<>>} \union UNION {K!Needs(r) : r \in Ranges \union Highs} = AllTables
    BY UnionIs DEF AllTables, Highs
  <2>6. tables' \subseteq AllTables
    BY <2>3, <2>4, <2>5
  <2>7. call = 16 => tables' = AllTables
    BY <1>1, <2>3, <2>4, <2>5
  <2>8. mpc' \in Phases /\ call' \in 1 .. 17
    BY <2>1 DEF Phases
  <2>9. /\ mpc' = "stopped" => Cardinality(tables') > NTABLES
        /\ mpc' \notin {"map", "stopped"} => call = 16
    BY <2>1
  <2>10. QED
    BY <2>3, <2>4, <2>6, <2>7, <2>8, <2>9 DEF TablesOK
<1>3. CASE UNCHANGED kvars \/ K!Satp \/ K!Jump \/ K!Uarthigh \/ K!Mmulowdrop \/ K!Fill
  <2>1. /\ UNCHANGED <<call, tables>> /\ maps' \subseteq maps
        /\ \/ UNCHANGED <<mpc, maps>>
           \/ mpc \notin {"map", "stopped"} /\ mpc' \in Phases \ {"map", "stopped"}
    BY <1>3 DEF kvars, K!Satp, K!Jump, K!Uarthigh, K!Mmulowdrop, K!Fill, Phases
  <2>2. QED
    BY <2>1 DEF TablesOK
<1>4. QED
  BY <1>2, <1>3 DEF MapStep, K!Step

(* ... and what the hart uses and caches is text and console, at either      *)
(* address, once each may be used.                                           *)
LEMMA WayKeeps ==
  ASSUME MapOK, TablesOK, WayOK, MapStep
  PROVE  WayOK'
<1>1. on <=> mpc \notin {"map", "stopped", "satp"}
  BY DEF MapOK
<1>2. CASE UNCHANGED kvars
  BY <1>2 DEF WayOK, kvars
<1>3. CASE K!Mapcall
  <2>1. mpc = "map" /\ mpc' \in {"map", "stopped", "satp"} /\ UNCHANGED <<on, text, uart, tlb>>
    BY <1>3 DEF K!Mapcall
  <2>2. QED
    BY <1>1, <2>1 DEF WayOK, Physical
<1>4. CASE K!Satp \/ K!Mmulowdrop
  <2>1. /\ tlb' = {} /\ UNCHANGED <<text, uart>> /\ (on' = TRUE \/ on' = on)
        /\ \/ mpc = "satp" /\ mpc' = "jump"
           \/ mpc = "lowdrop" /\ mpc' = "main"
    BY <1>4 DEF K!Satp, K!Mmulowdrop
  <2>2. QED
    BY <2>1 DEF WayOK, Physical
<1>5. CASE K!Jump
  <2>1. /\ mpc = "jump" /\ mpc' = "uarthigh" /\ text' = K!KADDR(K!PHYSTEXT)
        /\ UNCHANGED <<on, uart, tlb>>
    BY <1>5 DEF K!Jump
  <2>2. text = K!PHYSTEXT /\ on
    BY <1>1, <2>1 DEF WayOK, Physical
  <2>3. QED
    BY <2>1, <2>2 DEF WayOK, Physical
<1>6. CASE K!Uarthigh
  <2>1. /\ mpc = "uarthigh" /\ mpc' = "lowdrop" /\ uart' = K!KADDR(K!PHYSUART0)
        /\ UNCHANGED <<on, text, tlb>>
    BY <1>6 DEF K!Uarthigh
  <2>2. uart = K!PHYSUART0 /\ on
    BY <1>1, <2>1 DEF WayOK, Physical
  <2>3. QED
    BY <2>1, <2>2 DEF WayOK, Physical
<1>7. CASE K!Fill
  <2>1. PICK va \in {text, uart} : tlb' = tlb \union {<<va, K!Translate(va)>>}
    BY <1>7 DEF K!Fill
  <2>2. on /\ mpc # "main" /\ UNCHANGED <<mpc, on, text, uart>>
    BY <1>7 DEF K!Fill
  <2>3. mpc \in {"jump", "uarthigh", "lowdrop", "main"}
    BY <1>1, <2>2 DEF TablesOK, Phases
  <2>4. \A a \in {K!PHYSTEXT, K!PHYSUART0} : K!Translate(a) = a /\ K!Translate(K!KADDR(a)) = a
    BY <2>2, <2>3, Found
  <2>5. <<va, K!Translate(va)>> \in Entries
    BY <2>4 DEF WayOK, Entries
  <2>6. QED
    BY <2>1, <2>2, <2>5 DEF WayOK
<1>8. QED
  BY <1>2, <1>3, <1>4, <1>5, <1>6, <1>7 DEF MapStep, K!Step

(* mmu.c has tables for all its calls.                                       *)
LEMMA Enough ==
  ASSUME MapOK, TablesOK, NTABLES >= 21
  PROVE  K!TablesSuffice
<1>1. IsFiniteSet(AllTables) /\ Cardinality(AllTables) = 21
  BY Twentyone
<1>2. Cardinality(tables) <= 21 /\ Cardinality(tables) \in Nat
  <2>1. tables \in SUBSET AllTables
    BY DEF TablesOK
  <2>2. IsFiniteSet(tables) /\ Cardinality(tables) <= Cardinality(AllTables)
    BY <1>1, <2>1, FS_Subset
  <2>3. QED
    BY <1>1, <2>2, FS_CardinalityType
<1>3. mpc # "stopped"
  <2>1. NTABLES \in Nat
    BY BootAssumption DEF K!NTablesAssumption
  <2>2. QED
    BY <1>2, <2>1 DEF TablesOK
<1>4. mpc # "map" => Cardinality(tables) = 21
  BY <1>1, <1>3 DEF TablesOK
<1>5. \A r, s \in maps : r.level # s.level => K!Span(r) \intersect K!Span(s) = {}
  BY SpansApart DEF TablesOK
<1>6. QED
  BY <1>3, <1>4, <1>5, SameCount, Zenon DEF K!TablesSuffice

(* The four addresses of text and console. *)
LEMMA FourPages ==
  /\ K!PHYSTEXT # K!PHYSUART0 /\ K!PHYSTEXT # K!KADDR(K!PHYSTEXT)
  /\ K!PHYSTEXT # K!KADDR(K!PHYSUART0) /\ K!PHYSUART0 # K!KADDR(K!PHYSTEXT)
  /\ K!PHYSUART0 # K!KADDR(K!PHYSUART0) /\ K!KADDR(K!PHYSTEXT) # K!KADDR(K!PHYSUART0)
BY SMT DEF K!PHYSTEXT, K!PHYSUART0, K!KADDR, K!KZERO

(* The hart finds them where it looks. *)
LEMMA Reached ==
  ASSUME MapOK, TablesOK, WayOK
  PROVE  K!Reaches
<1>1. K!Goes(text) = K!PHYSTEXT /\ K!Goes(uart) = K!PHYSUART0
  <2>1. CASE mpc \in {"map", "stopped", "satp"}
    BY <2>1 DEF MapOK, WayOK, Physical, K!Goes
  <2>2. CASE mpc \in {"jump", "uarthigh", "lowdrop", "main"}
    BY <2>2, Found DEF MapOK, WayOK, Physical, K!Goes
  <2>3. QED
    BY <2>1, <2>2 DEF TablesOK, Phases
<1>2. /\ text \in {K!PHYSTEXT, K!KADDR(K!PHYSTEXT)}
      /\ uart \in {K!PHYSUART0, K!KADDR(K!PHYSUART0)}
  BY DEF WayOK
<1>3. ASSUME NEW e \in tlb, e[1] \in {text, uart}
      PROVE  e[2] = K!Goes(e[1])
  <2>1. e \in Entries
    BY DEF WayOK
  <2>2. /\ e[1] = text => e[2] = K!PHYSTEXT
        /\ e[1] = uart => e[2] = K!PHYSUART0
    BY <1>2, <2>1, FourPages DEF Entries
  <2>3. QED
    BY <1>1, <1>3, <2>2
<1>4. QED
  BY <1>1, <1>3 DEF K!Reaches

(* In main the low half is free and the high half whole. *)
LEMMA Freed ==
  ASSUME MapOK, TablesOK, WayOK
  PROVE  K!LowFree
<1> SUFFICES ASSUME mpc = "main" PROVE K!LowFree
  BY DEF K!LowFree
<1>1. /\ maps = {r \in Ranges \union Highs : K!PTLX(r.va, 2) \notin {0, 1}}
      /\ tlb = {} /\ maps \subseteq Ranges \union Highs
  BY CallsAre DEF MapOK, WayOK, Highs, TablesOK
<1>2. \A s \in Ranges : /\ s.va = s.pa /\ K!PTLX(s.pa, 2) \in {0, 1}
                        /\ K!PTLX(K!High(s).va, 2) \in {510, 511}
  <2>1. ASSUME NEW s \in Ranges
        PROVE  /\ s.va = s.pa /\ K!PTLX(s.pa, 2) \in {0, 1}
               /\ K!PTLX(K!High(s).va, 2) \in {510, 511}
    <3>1. s.va = s.pa /\ s.pa \in Nat /\ s.pa <= K!PHYSDRAM /\ K!High(s).va = K!KADDR(s.pa)
      BY DevicesAre DEF RangeOK
    <3>2. QED
      BY <3>1, Halves
  <2>2. QED
    BY <2>1
<1>3. \A r \in maps : K!PTLX(r.va, 2) >= 256
  <2>1. ASSUME NEW r \in maps
        PROVE  K!PTLX(r.va, 2) >= 256
    <3>1. r \notin Ranges
      BY <1>1, <1>2
    <3>2. PICK s \in Ranges : r = K!High(s)
      BY <1>1, <3>1 DEF Highs
    <3>3. K!PTLX(r.va, 2) \in {510, 511}
      BY <1>2, <3>2
    <3>4. QED
      BY <3>3
  <2>2. QED
    BY <2>1
<1>4. ASSUME NEW i \in 1 .. Len(K!Identity), NEW pa \in {K!Identity[i].pa, K!Identity[i].pa + K!Identity[i].n - 1}
      PROVE  K!Translate(K!KADDR(pa)) = pa
  <2> DEFINE s == K!Identity[i]
  <2>1. s \in Ranges
    BY CallsAre DEF Elems
  <2> HIDE DEF s
  <2>2. s.pa \in Nat /\ s.n \in Nat \ {0} /\ pa \in {s.pa, s.pa + s.n - 1}
    BY <2>1, Sizes DEF s
  <2>3. pa \in Nat /\ s.pa <= pa /\ pa < s.pa + s.n
    BY <2>2
  <2>4. K!PTLX(K!High(s).va, 2) \notin {0, 1}
    BY <1>2, <2>1
  <2>5. K!High(s) \in maps
    BY <1>1, <2>1, <2>4 DEF Highs
  <2>6. QED
    BY <1>1, <2>1, <2>3, <2>5, HighFound
<1>5. QED
  BY <1>1, <1>3, <1>4 DEF K!LowFree

(* The types of the map's variables. *)
LEMMA MapTypes ==
  ASSUME MapOK, TablesOK, WayOK
  PROVE  K!TypeOK
<1>1. Len(K!Calls) = 16 /\ Called(16) = Ranges \union Highs
  BY CallsAre DEF Highs
<1>2. call \in 1 .. Len(K!Calls) + 1
  BY <1>1 DEF TablesOK
<1>3. maps \subseteq K!ToSet(K!Calls)
  <2>1. Called(16) \subseteq K!ToSet(K!Calls)
    BY <1>1, CallsAre DEF Called, K!ToSet
  <2>2. QED
    BY <1>1, <2>1 DEF TablesOK
<1>4. \A t \in tables : Len(t) \in 0 .. 2
  BY DEF TablesOK, AllTables, Tabs
<1>5. on \in BOOLEAN
  BY DEF WayOK
<1>6. /\ text \in {K!PHYSTEXT, K!KADDR(K!PHYSTEXT)}
      /\ uart \in {K!PHYSUART0, K!KADDR(K!PHYSUART0)}
  BY DEF WayOK
<1>7. tlb \subseteq {text, uart, K!PHYSTEXT, K!PHYSUART0} \X Int
  <2>1. K!PHYSTEXT \in Int /\ K!PHYSUART0 \in Int
    BY SMT DEF K!PHYSTEXT, K!PHYSUART0
  <2>2. \A e \in Entries : e = <<e[1], e[2]>> /\ e[2] \in Int
    BY <2>1 DEF Entries
  <2>3. QED
    BY <2>2 DEF WayOK
<1>8. QED
  BY <1>2, <1>3, <1>4, <1>5, <1>6, <1>7 DEF K!TypeOK, TablesOK, Phases

(* The types of the console's variables ... *)
LEMMA UartTypes ==
  ASSUME S!TypeOK, UartStep
  PROVE  S!TypeOK'
<1>1. MaxRx \in Nat /\ rx \in 0 .. MaxRx
  BY Assumed DEF S!TypeOK
<1>2. CASE UNCHANGED svars
  BY <1>2 DEF S!TypeOK, svars
<1>3. CASE S!Suartenable \/ S!Interrupt \/ S!Suartkick
  BY <1>3 DEF S!TypeOK, S!Suartenable, S!Interrupt, S!Suartkick
<1>4. CASE S!Receive
  <2>1. rx' \in 0 .. MaxRx
    BY <1>1, <1>4 DEF S!Receive
  <2>2. QED
    BY <1>4, <2>1 DEF S!TypeOK, S!Receive
<1>5. CASE S!Suartintr
  <2>1. rx' \in 0 .. MaxRx
    <3>1. rx' = rx \/ (rx # 0 /\ rx' = rx - 1)
      BY <1>5, Zenon DEF S!Suartintr
    <3>2. QED
      BY <1>1, <3>1
  <2>2. QED
    BY <1>5, <2>1 DEF S!TypeOK, S!Suartintr
<1>6. CASE S!BaudStep \/ \E d \in Rate : S!Baud(d)
  <2>1. CASE \E d \in Rate : S!Baud(d)
    BY <2>1 DEF S!TypeOK, S!Baud
  <2>2. CASE S!BaudOpen
    BY <2>2 DEF S!TypeOK, S!BaudOpen
  <2>3. CASE S!BaudDivisor
    BY <2>3 DEF S!TypeOK, S!BaudDivisor
  <2>4. CASE S!BaudClose
    BY <2>4 DEF S!TypeOK, S!BaudClose
  <2>5. QED
    BY <1>6, <2>1, <2>2, <2>3, <2>4 DEF S!BaudStep
<1>7. QED
  BY <1>2, <1>3, <1>4, <1>5, <1>6 DEF UartStep, Printing

(* ... and of main's own. *)
OwnOK ==
  /\ stage \in {"start", "args", "traps", "conf", "mmc0enable", "smhcprobe", "uartreset",
               "usbreset", "usb1enable", "phy1enable", "ehcireset", "ehciwait", "ehcimeminit",
               "init0", "up"} \union Panic
  /\ ready \subseteq {"mmc0", "usb1", "phy1"}
  /\ hcreset \in BOOLEAN /\ tries \in 0 .. Tries

(* Every step keeps them. *)
LEMMA OwnKeeps ==
  ASSUME OwnOK, [Next]_vars
  PROVE  OwnOK'
<1>1. Tries \in Nat \ {0} /\ tries \in 0 .. Tries /\ 0 \in 0 .. Tries
  BY BootAssumption DEF OwnOK
<1>2. CASE Start \/ Args \/ Trapinit \/ Confinit \/ Smhcprobe \/ Uartreset \/ Usbreset
           \/ Ehcimeminit \/ Meminitdone \/ Meminitfails \/ Init0
  BY <1>2 DEF OwnOK, Panic, usb, Start, Args, Trapinit, Confinit, Smhcprobe, Uartreset,
              Usbreset, Ehcimeminit, Meminitdone, Meminitfails, Init0, In, To
<1>3. CASE Mmc0enable \/ Usb1enable \/ Phy1enable
  BY <1>3 DEF OwnOK, Mmc0enable, Usb1enable, Phy1enable, In, To
<1>4. CASE Ehcireset \/ Controller \/ Console
  BY <1>1, <1>4 DEF OwnOK, usb, Ehcireset, Controller, Console, In, To
<1>5. CASE Ehciwait
  <2>1. tries' \in 0 .. Tries
    BY <1>1, <1>5 DEF Ehciwait
  <2>2. QED
    BY <1>5, <2>1 DEF OwnOK, Panic, Ehciwait, Fls, In, To
<1>6. CASE UNCHANGED vars
  BY <1>6 DEF OwnOK, vars
<1>7. QED
  BY <1>2, <1>3, <1>4, <1>5, <1>6 DEF Next

(* They begin so. *)
LEMMA TypesInit == Init => S!TypeOK /\ OwnOK
<1> SUFFICES ASSUME Init PROVE S!TypeOK /\ OwnOK
  OBVIOUS
<1>1. MaxRx \in Nat /\ Tries \in Nat
  BY BootAssumption, Assumed
<1>2. S!TypeOK
  <2>1. /\ bpc = "idle" /\ want = "uboot" /\ asked = "uboot" /\ divisor = "uboot"
        /\ ier = FALSE /\ dlab = FALSE /\ rx = 0 /\ intr = FALSE /\ spilt = FALSE
    BY Zenon DEF Init, S!Init
  <2>2. rx \in 0 .. MaxRx
    BY <1>1, <2>1
  <2>3. QED
    BY <2>1, <2>2 DEF S!TypeOK
<1>3. OwnOK
  <2>1. stage = "start" /\ ready = {} /\ hcreset = FALSE /\ tries = 0
    BY Zenon DEF Init
  <2>2. tries \in 0 .. Tries
    BY <1>1, <2>1
  <2>3. QED
    BY <2>1, <2>2 DEF OwnOK
<1>4. QED
  BY <1>2, <1>3

-----------------------------------------------------------------------------
(* All of it. *)

(* The inductive invariant: the parts', and the types of what they leave.    *)
IInv ==
  /\ DramOK /\ UncacheOK /\ UartOK /\ ReadyOK
  /\ MapOK /\ TablesOK /\ WayOK
  /\ ConfOK /\ S!TypeOK /\ OwnOK

(* The boot begins so ... *)
LEMMA InitIInv == Init => IInv
BY DramInit, FreshUncache, UartInit, ReadyInit, MapInit, WayInit, ConfInit, TypesInit DEF IInv

(* ... and every step, of main, of a device or of the processor, keeps it. *)
LEMMA StepIInv == IInv /\ [Next]_vars => IInv'
<1> SUFFICES ASSUME IInv, [Next]_vars PROVE IInv'
  OBVIOUS
<1>1. DramStep /\ UncacheStep /\ UartStep /\ MapStep
  <2>1. CASE Next
    BY <2>1, DramParts, UncacheParts, UartParts, MapParts
  <2>2. CASE UNCHANGED vars
    BY <2>2 DEF vars, DramStep, UncacheStep, UartStep, MapStep
  <2>3. QED
    BY <2>1, <2>2
<1>2. DramOK' /\ UncacheOK'
  BY <1>1, DramKeeps, UncacheKeeps DEF IInv
<1>3. UartOK' /\ ReadyOK' /\ MapOK'
  <2>1. CASE Next
    BY <2>1, UartKeeps, ReadyKeeps, MapKeeps DEF IInv
  <2>2. CASE UNCHANGED vars
    <3>1. UNCHANGED kvars /\ UNCHANGED svars /\ UNCHANGED <<stage, ready>>
      BY <2>2 DEF vars
    <3>2. QED
      BY <3>1 DEF IInv, svars, kvars, UartOK, ReadyOK, MapOK
  <2>3. QED
    BY <2>1, <2>2
<1>4. TablesOK' /\ WayOK'
  BY <1>1, TablesKeep, WayKeeps DEF IInv
<1>5. ConfOK' /\ S!TypeOK' /\ OwnOK'
  BY <1>1, ConfKeeps, UartTypes, OwnKeeps DEF IInv
<1>6. QED
  BY <1>2, <1>3, <1>4, <1>5 DEF IInv

(* So it is in every reachable state. *)
LEMMA Invariance == Spec => []IInv
BY InitIInv, StepIInv, PTL DEF Spec

(* Whatever the cache lets go between dramsize's stores and its load, memory *)
(* that is there is not missed, and what was fetched back tells the size     *)
(* (mmu.c, dramsize), for any two sizes.                                     *)
THEOREM DramFoundHolds == Spec => []DramFound
<1>1. IInv => DramFound
  BY DEF IInv, DramOK, DramFound, D!DramFound
<1>2. QED
  BY Invariance, <1>1, PTL

(* Memory given to the USB host is what it was, in no cache, and all other   *)
(* memory is as cacheable as before (mmu.c, mmuuncache), for any number and  *)
(* size of blocks and any calls.                                             *)
THEOREM UncachedHolds == Spec => []Uncached
<1>1. IInv => Uncached
  BY DEF IInv, UncacheOK, Uncached, N!Uncached
<1>2. QED
  BY Invariance, <1>1, PTL

(* suartbaud leaves the rate it was asked for, the latch closed and the      *)
(* receive interrupt on, unless something was printed with the latch open    *)
(* (uartsun20i.c), for any rates and any FIFO.                               *)
THEOREM RateKeptHolds == Spec => []RateKept
<1>1. IInv => RateKept
  BY DEF IInv, UartOK, RateKept, S!RateKept
<1>2. QED
  BY Invariance, <1>1, PTL

(* No register of a controller is touched before its clocks, reset and PHY   *)
(* are up and the high half leads to it (main.c, ccu.c, mmu.c), whatever is  *)
(* in plan9.ini, however often ehcireset looks.                              *)
THEOREM DevicesReadyHolds == Spec => []DevicesReady
<1>1. ASSUME IInv, stage # "start"
      PROVE  K!Goes(K!KADDR(Touched)) = Touched
  <2>1. Touched \in {K!PHYSUART0, K!PHYSMMC0, K!PHYSEHCI1}
    BY DEF Touched
  <2>2. QED
    BY <1>1, <2>1, KaddrFound DEF IInv, MapOK
<1>2. /\ Touched = K!PHYSMMC0 => stage = "smhcprobe"
      /\ Touched = K!PHYSEHCI1 => stage \in Host
  BY Distinct DEF Touched, Host
<1>3. IInv => DevicesReady
  BY <1>1, <1>2 DEF IInv, ReadyOK, Host, DevicesReady
<1>4. QED
  BY Invariance, <1>3, PTL

(* mmubootstrap makes all its calls with the 21 tables it counts             *)
(* (mmu.c:20), the hart finds its next instruction and its console through   *)
(* every change of the map (l.s), and mmulowdrop leaves nothing of the low   *)
(* half and all of the high one: for any tablestore of 21 pages or more; the *)
(* code's has 24.                                                            *)
THEOREM MapSoundHolds ==
  ASSUME NTABLES >= 21
  PROVE  Spec => []MapSound
<1>1. IInv => MapSound
  BY Enough, Reached, Freed DEF IInv, MapSound
<1>2. QED
  BY Invariance, <1>1, PTL

(* main's getconf and the environment get what plan9.ini says (bootargs.c),  *)
(* for any names and values, any file of any length and any MAXCONF, and     *)
(* whatever ksetenv fails at (main.c, init0).                                *)
THEOREM ConfTrueHolds == Spec => []ConfTrue
<1>1. IInv => ConfTrue
  BY ConfSays DEF IInv
<1>2. QED
  BY Invariance, <1>1, PTL

(* Every variable of main's parts has its type: the map has no range but     *)
(* mmubootstrap's, conf never more than MAXCONF entries (bootargs.c,         *)
(* addconf), the FIFO never less than nothing (uartsun20i.c, suartintr).     *)
THEOREM TypeOKHolds == Spec => []TypeOK
<1>1. IInv => K!TypeOK
  BY MapTypes DEF IInv
<1>2. IInv => B!TypeOK
  BY DEF IInv, ConfOK, B!TypeOK, Entry
<1>3. IInv => D!TypeOK /\ N!TypeOK /\ S!TypeOK
  BY DEF IInv, DramOK, UncacheOK
<1>4. IInv => TypeOK
  BY <1>1, <1>2, <1>3 DEF IInv, OwnOK, TypeOK
<1>5. QED
  BY Invariance, <1>4, PTL
=============================================================================
