------------------------------- MODULE Uncache -------------------------------
(***************************************************************************)
(* Memory made uncached while the kernel runs (mmu.c from splitblock to    *)
(* dcflush), for ucalloc(): the 2 MB leaf over it is split, its 4 KB       *)
(* leaves lose their C bit, the TLB is fenced, and then the data cache is  *)
(* cleaned.  Other code and the processor's guesses use the TLB and the    *)
(* cache at any time; ucalloc's lock (port/) keeps the calls apart.        *)
(***************************************************************************)
EXTENDS Integers

CONSTANTS
  PerBlock,  \* pages in a block: 512
  NBlock     \* blocks of kernel memory

BlockAssumption == PerBlock \in Nat \ {0} /\ NBlock \in Nat \ {0}

Block == 0 .. NBlock - 1
Page == 0 .. NBlock * PerBlock - 1

VARIABLES
  upc,    \* where mmuuncache is
  req,    \* its arguments, in pages: [v, size]
  split,  \* the blocks whose 2 MB leaf has been replaced by a table
  l0,     \* the 4 KB leaves in those tables: where they lead; their C bit
  given,  \* the pages ucalloc has
  utlb,   \* the pages the TLB has a cacheable translation of
  lines   \* the pages of which the data cache has something

vars == <<upc, req, split, l0, given, utlb, lines>>

Init ==
  /\ upc = "idle" /\ req = [v |-> 0, size |-> 0]
  /\ split = {} /\ l0 = [p \in Page |-> [pa |-> 0, c |-> FALSE]]
  /\ given = {} /\ utlb = {} /\ lines = {}

-----------------------------------------------------------------------------
BlockOf(p) == p \div PerBlock
PagesOf(b) == b * PerBlock .. (b + 1) * PerBlock - 1

(* The leaf over p: the page it leads to, cacheable or not. *)
Leaf(p) == IF BlockOf(p) \in split THEN l0[p] ELSE [pa |-> p, c |-> TRUE]

Asked == req.v .. req.v + req.size - 1

(* What could go wrong: the range may leave its block. *)
StartAnywhere(v, size) ==
  /\ upc = "idle" /\ size > 0 /\ v .. v + size - 1 \subseteq Page \ given
  /\ req' = [v |-> v, size |-> size]
  /\ upc' = IF BlockOf(v) \in split THEN "clear" ELSE "split"
  /\ UNCHANGED <<split, l0, given, utlb, lines>>

(* mmuuncache(v, size), where it does not return nil at once. *)
Start(v, size) ==
  /\ upc = "idle" /\ size > 0 /\ v .. v + size - 1 \subseteq Page \ given
  /\ BlockOf(v) = BlockOf(v + size - 1)
  /\ req' = [v |-> v, size |-> size]
  /\ upc' = IF BlockOf(v) \in split THEN "clear" ELSE "split"
  /\ UNCHANGED <<split, l0, given, utlb, lines>>

(* mallocalign has no page. *)
NoTable ==
  /\ upc = "split" /\ upc' = "idle"
  /\ UNCHANGED <<req, split, l0, given, utlb, lines>>

(* splitblock: the same memory with the same attributes, and a fence. *)
Splitblock ==
  /\ upc = "split" /\ upc' = "clear"
  /\ LET b == BlockOf(req.v) IN
     /\ l0' = [p \in Page |-> IF p \in PagesOf(b) THEN [pa |-> p, c |-> TRUE] ELSE l0[p]]
     /\ split' = split \union {b}
  /\ utlb' = {}
  /\ UNCHANGED <<req, given, lines>>

(* C is cleared in as many leaves as the range has pages, in v's table; the  *)
(* index of a page beyond the table's end would be one of its first leaves.  *)
Clear ==
  /\ upc = "clear" /\ upc' = "fence"
  /\ LET b == BlockOf(req.v)
         cleared == {b * PerBlock + (p % PerBlock) : p \in Asked}
     IN l0' = [p \in Page |-> IF p \in cleared THEN [l0[p] EXCEPT !.c = FALSE] ELSE l0[p]]
  /\ UNCHANGED <<req, split, given, utlb, lines>>

(* What could go wrong: the cache is cleaned before the fence. *)
FenceLate ==
  /\ upc = "fence" /\ upc' = "flush"
  /\ lines' = lines \ Asked
  /\ UNCHANGED <<req, split, l0, given, utlb>>

Fence ==
  /\ upc = "fence" /\ upc' = "flush"
  /\ utlb' = {}
  /\ UNCHANGED <<req, split, l0, given, lines>>

(* dcflush, and the return to ucalloc. *)
Dcflush ==
  /\ upc = "flush" /\ upc' = "idle"
  /\ lines' = lines \ Asked
  /\ given' = given \union Asked
  /\ UNCHANGED <<req, split, l0, utlb>>

(* The processor caches translations, and lines through those it has cached: *)
(* all it can at once, for having more of either never stops a step.         *)
Fill ==
  /\ utlb' = utlb \union {p \in Page : Leaf(p).c}
  /\ UNCHANGED <<upc, req, split, l0, given, lines>>

Fetch ==
  /\ lines' = lines \union utlb
  /\ UNCHANGED <<upc, req, split, l0, given, utlb>>

Step == Splitblock \/ Clear \/ Fence \/ Dcflush
Hardware == Fill \/ Fetch
Call == \E v \in Page, size \in 1 .. PerBlock : Start(v, size)

-----------------------------------------------------------------------------
(* Every variable has its type. *)
TypeOK ==
  /\ upc \in {"idle", "split", "clear", "fence", "flush"}
  /\ req \in [v : Page \union {0}, size : 0 .. PerBlock]
  /\ split \subseteq Block /\ l0 \in [Page -> [pa : Page, c : BOOLEAN]]
  /\ given \subseteq Page /\ utlb \subseteq Page /\ lines \subseteq Page

(* What ucalloc hands to a device is the memory it had, and the processor    *)
(* has nothing of it in its cache, nor a translation by which it could get   *)
(* some there: no line is written back over what the device wrote, no read   *)
(* misses it.  All other memory stays what and as cacheable as it was.       *)
Uncached ==
  /\ \A p \in Page : Leaf(p).pa = p
  /\ \A p \in given : ~Leaf(p).c /\ p \notin utlb \union lines
  /\ upc \in {"idle", "split"} => \A p \in Page \ given : Leaf(p).c
=============================================================================
