------------------------------ MODULE DramProbe ------------------------------
(***************************************************************************)
(* dramsize() (mmu.c): is there a second half of DRAM, or does the first   *)
(* show up there again?  Two words 512 MB apart are written and the lower  *)
(* one is read back, through a data cache that writes back when it likes:  *)
(* memory is mapped cacheable, and coherence() orders, it does not clean.  *)
(***************************************************************************)
CONSTANTS
  Half, Whole   \* 512 MB and 1 GB

SizeAssumption == Half # Whole

VARIABLES
  dpc,     \* where dramsize is
  real,    \* the size of this board's DRAM
  cell,    \* the words in memory, by address
  cache,   \* the words in the cache: [in, dirty, v]
  found,   \* what dramsize returns; or "unknown"
  last,    \* history: the word last written back
  fetched  \* history: the lower word was read from memory after the upper one got there

vars == <<dpc, real, cell, cache, found, last, fetched>>

Addr == {"lo", "hi"}
Absent == [in |-> FALSE, dirty |-> FALSE, v |-> "old"]

Init ==
  /\ dpc = "save" /\ real \in {Half, Whole}
  /\ cell = [a \in Addr |-> "old"] /\ cache = [a \in Addr |-> Absent]
  /\ found = "unknown" /\ last = "none" /\ fetched = FALSE

-----------------------------------------------------------------------------
(* The controller of a small part leaves out the address bit that differs. *)
Cell(a) == IF real = Half THEN "lo" ELSE a

(* What a load of a returns. *)
Read(a) == IF cache[a].in THEN cache[a].v ELSE cell[Cell(a)]

Load(a) == cache' = [cache EXCEPT ![a] = IF @.in THEN @ ELSE [in |-> TRUE, dirty |-> FALSE, v |-> Read(a)]]
Store(a, v) == cache' = [cache EXCEPT ![a] = [in |-> TRUE, dirty |-> TRUE, v |-> v]]

Goes(from, to) == dpc = from /\ dpc' = to

(* save = *lo; what it was is all the program has to know of it. *)
Save ==
  /\ Goes("save", "storelo") /\ Load("lo")
  /\ UNCHANGED <<real, cell, found, last, fetched>>

StoreLo ==
  /\ Goes("storelo", "storehi") /\ Store("lo", "55aa")
  /\ UNCHANGED <<real, cell, found, last, fetched>>

StoreHi ==
  /\ Goes("storehi", "test") /\ Store("hi", "aa55")
  /\ UNCHANGED <<real, cell, found, last, fetched>>

(* What could go wrong: the answers are swapped. *)
TestSwapped ==
  /\ Goes("test", "restore") /\ Load("lo")
  /\ found' = IF Read("lo") = "55aa" THEN Half ELSE Whole
  /\ fetched' = (~cache["lo"].in /\ last = "hi")
  /\ UNCHANGED <<real, cell, last>>

Test ==
  /\ Goes("test", "restore") /\ Load("lo")
  /\ found' = IF Read("lo") = "55aa" THEN Whole ELSE Half
  /\ fetched' = (~cache["lo"].in /\ last = "hi")
  /\ UNCHANGED <<real, cell, last>>

(* *lo = save, and the return: nobody asks for the two words after that. *)
Restore ==
  /\ Goes("restore", "done")
  /\ cell' = [a \in Addr |-> "old"] /\ cache' = [a \in Addr |-> Absent]
  /\ last' = "none" /\ fetched' = FALSE
  /\ UNCHANGED <<real, found>>

(* The cache lets a word go. *)
Evict(a) ==
  /\ cache[a].in
  /\ cache' = [cache EXCEPT ![a] = Absent]
  /\ IF cache[a].dirty THEN cell' = [cell EXCEPT ![Cell(a)] = cache[a].v] /\ last' = a
                       ELSE UNCHANGED <<cell, last>>
  /\ UNCHANGED <<dpc, real, found, fetched>>

Step == Save \/ StoreLo \/ StoreHi \/ Test \/ Restore
Hardware == \E a \in Addr : Evict(a)

-----------------------------------------------------------------------------
(* Every variable has its type. *)
Word == {"old", "55aa", "aa55"}
TypeOK ==
  /\ dpc \in {"save", "storelo", "storehi", "test", "restore", "done"}
  /\ real \in {Half, Whole} /\ found \in {Half, Whole, "unknown"}
  /\ cell \in [Addr -> Word] /\ cache \in [Addr -> [in : BOOLEAN, dirty : BOOLEAN, v : Word]]
  /\ last \in Addr \union {"none"} /\ fetched \in BOOLEAN

(* "D1 boards ship with either 512MB or 1GB, detect it" (mmu.c:194): memory  *)
(* that is there is never missed.  A small part is only found small when the *)
(* cache happens to let both words go in the order they were written; with   *)
(* both still cached it is taken for a large one.                            *)
DramFound ==
  found # "unknown" =>
    /\ real = Whole => found = Whole
    /\ fetched => found = real
=============================================================================
