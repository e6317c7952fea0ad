------------------------------ MODULE KernelMap ------------------------------
(***************************************************************************)
(* The boot page tables (mmu.c from newtable to mmulowdrop) and the way    *)
(* into them (l.s): translation comes on while the hart runs at physical   *)
(* addresses, the hart jumps to the high half, the console follows, and    *)
(* the low half is dropped.  Addresses count pages of 4 KB, so that an     *)
(* Sv39 address has 27 bits.  Calls that fill a whole range are one step:  *)
(* one hart, no interrupts yet.                                            *)
(***************************************************************************)
EXTENDS Integers, Sequences, FiniteSets, SequencesExt

CONSTANT NTABLES   \* pages in tablestore
NTablesAssumption == NTABLES \in Nat

VARIABLES
  mpc,      \* where _start is
  call,     \* the next of mmubootstrap's calls
  maps,     \* the leaves, as ranges of one attribute
  tables,   \* the tables in use, each by the indices that lead to it
  on,       \* satp names the tables
  text,     \* the page the hart executes from
  uart,     \* the page uart_putc stores to
  tlb       \* cached translations of the two: <<va, pa>>

vars == <<mpc, call, maps, tables, on, text, uart, tlb>>

-----------------------------------------------------------------------------
(* mem.h, io.h *)
PHYSDRAM == \h40000
PHYSTEXT == \h41000
DRAMMAX == \h40000
PHYSPIO == \h2000
PHYSPIOSIZE == \h600
PHYSUART0 == \h2500
PHYSMMC0 == \h4020
PHYSEHCI1 == \h4200
PHYSWDTRISCV == \h6011
PHYSPLIC == \h10000
PHYSPLICEN == \h10002
PHYSPLICCTL == \h10201
KZERO == 2^27 - 2^19
KADDR(pa) == pa + KZERO

(* PTLX(v, l) *)
PTLX(v, l) == (v \div 512^l) % 512

-----------------------------------------------------------------------------
(* A range of n pages, in 4 KB leaves ... *)
Pages(va, pa, n, attr) == [va |-> va, pa |-> pa, n |-> n, attr |-> attr, level |-> 0]

(* ... or in 2 MB leaves. *)
Blocks(va, pa, n, attr) == [va |-> va, pa |-> pa, n |-> n, attr |-> attr, level |-> 1]

Devices ==
  <<Pages(PHYSPIO, PHYSPIO, PHYSPIOSIZE, "dev"), Pages(PHYSWDTRISCV, PHYSWDTRISCV, 1, "dev"),
    Pages(PHYSMMC0, PHYSMMC0, 1, "dev"), Pages(PHYSEHCI1, PHYSEHCI1, 1, "dev"),
    Pages(PHYSPLIC, PHYSPLIC, 1, "dev"), Pages(PHYSPLICEN, PHYSPLICEN, 1, "dev"),
    Pages(PHYSPLICCTL, PHYSPLICCTL, 1, "dev")>>

Dram == Blocks(PHYSDRAM, PHYSDRAM, DRAMMAX, "mem")

(* maphigh *)
High(r) == [r EXCEPT !.va = KADDR(@)]

(* mmubootstrap's calls of mapblock, maphigh and mapident, in order. *)
Identity == <<Dram>> \o Devices
Calls == [i \in 1 .. Len(Identity) |-> High(Identity[i])] \o Identity

(* The tables a range needs under the root. *)
Indices(r, l) == PTLX(r.va, l) .. PTLX(r.va + r.n - 1, l)
Needs(r) ==
  {<<x>> : x \in Indices(r, 2)}
    \union IF r.level = 1 THEN {} ELSE Indices(r, 2) \X Indices(r, 1)

Holds(r, va) == r.va <= va /\ va < r.va + r.n

(* What the hart finds in the tables: the physical page, or -1. *)
Translate(va) ==
  IF \E r \in maps : Holds(r, va)
  THEN LET r == CHOOSE r \in maps : Holds(r, va) IN r.pa + (va - r.va)
  ELSE -1

(* Where an access to va goes. *)
Goes(va) == IF on THEN Translate(va) ELSE va

-----------------------------------------------------------------------------
Init ==
  /\ mpc = "map" /\ call = 1 /\ maps = {} /\ tables = {<<>>}
  /\ on = FALSE /\ text = PHYSTEXT /\ uart = PHYSUART0 /\ tlb = {}

(* The next call; newtable stops the machine when it has no more tables. *)
Mapcall ==
  /\ mpc = "map" /\ call' = call + 1
  /\ LET r == Calls[call] IN
     /\ maps' = maps \union {r}
     /\ tables' = tables \union Needs(r)
     /\ mpc' = IF Cardinality(tables') > NTABLES THEN "stopped"
               ELSE IF call = Len(Calls) THEN "satp" ELSE "map"
  /\ UNCHANGED <<on, text, uart, tlb>>

(* satp, with the PC still physical. *)
Satp ==
  /\ mpc = "satp" /\ mpc' = "jump"
  /\ on' = TRUE /\ tlb' = {}
  /\ UNCHANGED <<call, maps, tables, text, uart>>

(* mmuhighentry, and the jump there. *)
Jump ==
  /\ mpc = "jump" /\ mpc' = "uarthigh"
  /\ text' = KADDR(PHYSTEXT)
  /\ UNCHANGED <<call, maps, tables, on, uart, tlb>>

Uarthigh ==
  /\ mpc = "uarthigh" /\ mpc' = "lowdrop"
  /\ uart' = KADDR(PHYSUART0)
  /\ UNCHANGED <<call, maps, tables, on, text, tlb>>

(* What could go wrong: no fence. *)
MmulowdropUnfenced ==
  /\ mpc = "lowdrop" /\ mpc' = "main"
  /\ maps' = {r \in maps : PTLX(r.va, 2) \notin {PTLX(PHYSTEXT, 2), PTLX(PHYSPIO, 2)}}
  /\ UNCHANGED <<call, tables, on, text, uart, tlb>>

(* Two entries of the root are cleared; the tables under them stay. *)
Mmulowdrop ==
  /\ mpc = "lowdrop" /\ mpc' = "main"
  /\ maps' = {r \in maps : PTLX(r.va, 2) \notin {PTLX(PHYSTEXT, 2), PTLX(PHYSPIO, 2)}}
  /\ tlb' = {}
  /\ UNCHANGED <<call, tables, on, text, uart>>

(* The hart keeps what it used; in main nothing changes in the tables that   *)
(* lead to these two.                                                        *)
Fill ==
  /\ on /\ mpc # "main"
  /\ \E va \in {text, uart} : tlb' = tlb \union {<<va, Translate(va)>>}
  /\ UNCHANGED <<mpc, call, maps, tables, on, text, uart>>

Step == Mapcall \/ Satp \/ Jump \/ Uarthigh \/ Mmulowdrop
Next == Step \/ Fill

-----------------------------------------------------------------------------
(* Every variable has its type. *)
TypeOK ==
  /\ mpc \in {"map", "stopped", "satp", "jump", "uarthigh", "lowdrop", "main"}
  /\ call \in 1 .. Len(Calls) + 1
  /\ maps \subseteq ToSet(Calls)
  /\ \A t \in tables : Len(t) \in 0 .. 2
  /\ on \in BOOLEAN
  /\ text \in {PHYSTEXT, KADDR(PHYSTEXT)}
  /\ uart \in {PHYSUART0, KADDR(PHYSUART0)}
  /\ tlb \subseteq {text, uart, PHYSTEXT, PHYSUART0} \X Int

(* "21 needed: 1 root + 2 high kernel + 8 high MMIO + 2 identity kernel + 8  *)
(* identity MMIO" (mmu.c:20): no more are taken, the machine is not left in  *)
(* newtable's loop, and mapleaf, which takes any valid level-1 entry for a   *)
(* table, never goes through a 2 MB leaf.                                    *)
Span(r) == (r.va \div 512) .. ((r.va + r.n - 1) \div 512)
TablesSuffice ==
  /\ mpc # "stopped"
  /\ mpc # "map" => Cardinality(tables) = 21
  /\ \A r, s \in maps : r.level # s.level => Span(r) \intersect Span(s) = {}

(* The hart always finds its next instruction and its console: through the   *)
(* tables or not, from the TLB or not, before and after the identity map.    *)
Reaches ==
  /\ Goes(text) = PHYSTEXT /\ Goes(uart) = PHYSUART0
  /\ \A e \in tlb : e[1] \in {text, uart} => e[2] = Goes(e[1])

(* After mmulowdrop "the low half is free for user space" (mmu.c:177), in    *)
(* the tables and in the TLB, and KADDR still reaches every page of memory   *)
(* and devices that mmubootstrap was given.                                  *)
LowFree ==
  mpc = "main" =>
    /\ \A r \in maps : PTLX(r.va, 2) >= 256
    /\ \A e \in tlb : PTLX(e[1], 2) >= 256
    /\ \A i \in 1 .. Len(Identity) :
         LET r == Identity[i] IN
         \A pa \in {r.pa, r.pa + r.n - 1} : Translate(KADDR(pa)) = pa
=============================================================================
