--------------------------------- MODULE Mmu ---------------------------------
(***************************************************************************)
(* Per-process Sv39 page tables (mmu.c from mmurootalloc to mmuswitch).    *)
(* A virtual address is its three indices <<VPN2, VPN1, VPN0>>; a frame is *)
(* a physical page with its attributes, the leaf putmmu writes.  A step    *)
(* with interrupts masked is one action, or a run of actions no process    *)
(* switch separates.  The page allocator and the scheduler (port/) are not *)
(* in the repository: they do here what these functions require of them.   *)
(***************************************************************************)
CONSTANTS
  Proc, NoProc,  \* user processes; NoProc is a kernel process or the scheduler
  Page,          \* physical pages newpage may hand out for tables
  Idx, VA,       \* table indices; user addresses
  Frame,
  Nil,           \* an invalid entry, a nil Page*
  Junk,          \* what a page holds that nobody has cleared
  Kernel, Bare   \* satp values: the boot tables; 0, no translation

ASSUME NoProcAssumption == NoProc \notin Proc
ASSUME ValueAssumption ==
  /\ {Nil, Junk, Kernel, Bare} \intersect Page = {}
  /\ Frame \intersect (Page \union {Nil, Junk}) = {}
  /\ Nil # Junk /\ Kernel # Bare
ASSUME VAAssumption == VA \subseteq Idx \X Idx \X Idx

VARIABLES
  up,       \* the running process
  pc,       \* where each process is
  arg,      \* the arguments of its putmmu, an address and a frame; or Nil
  mmuroot, psatp, newtlb,   \* p->mmuroot, p->satp, p->newtlb
  mmuused, mmufree,         \* p->mmuused, p->mmufree, as sets
  avail,    \* the pages nobody holds
  tbl,      \* the user half of each page used as a table
  khalf,    \* the pages whose kernel half is that of the boot root
  satp,     \* the hart's satp
  tlb       \* cached translations: <<va, frame or Nil>>

lists == <<mmuused, mmufree, avail>>
tables == <<tbl, khalf>>
hart == <<satp, tlb>>
proc == <<mmuroot, psatp, newtlb>>
vars == <<up, pc, arg, proc, lists, tables, hart>>

(* putmmu: "rootalloc" before newpage returns in mmurootalloc, "satp" before *)
(* p->satp is set, "satpset" before satpset, "walk" inside splhi, "newpage"  *)
(* inside the spllo of the loop.  "release" is mmurelease after mmuswitch.   *)
Putting == {"rootalloc", "satp", "satpset", "walk", "newpage"}
PC == {"dead", "user", "kernel", "release"} \union Putting
Preemptible == {"kernel"} \union (Putting \ {"walk"})

EmptyTable == [i \in Idx |-> Nil]
JunkTable == [i \in Idx |-> Junk]

Init ==
  /\ up = NoProc
  /\ pc = [p \in Proc |-> "dead"]
  /\ arg = [p \in Proc |-> Nil]
  /\ mmuroot = [p \in Proc |-> Nil]
  /\ psatp = [p \in Proc |-> Bare]
  /\ newtlb = [p \in Proc |-> FALSE]
  /\ mmuused = [p \in Proc |-> {}]
  /\ mmufree = [p \in Proc |-> {}]
  /\ avail = Page
  /\ tbl = [pg \in Page |-> JunkTable]
  /\ khalf = {}
  /\ satp = Kernel
  /\ tlb = {}

-----------------------------------------------------------------------------
(* The entry at index x of table t; no table, no entry. *)
Entry(t, x) == IF t \in Page THEN tbl[t][x] ELSE t

Translate(r, va) == Entry(Entry(Entry(r, va[1]), va[2]), va[3])

(* The head of a list of pages; which page that is makes no difference. *)
First(S) == CHOOSE pg \in S : TRUE

Runs(p, c) == up = p /\ pc[p] = c
Goes(p, c) == pc' = [pc EXCEPT ![p] = c]

(* What could go wrong: satp is written and not fenced. *)
SatpSetUnfenced(v) == satp' = v /\ UNCHANGED tlb

(* satpset(v) fences, too. *)
SatpSet(v) == satp' = v /\ tlb' = {}

(* What could go wrong: the root keeps its entries ... *)
MmufreeKeepsRoot(p) ==
  /\ tbl' = [pg \in Page |-> IF pg \in mmuused[p] THEN JunkTable ELSE tbl[pg]]
  /\ mmufree' = [mmufree EXCEPT ![p] = @ \union mmuused[p]]
  /\ mmuused' = [mmuused EXCEPT ![p] = {}]
  /\ UNCHANGED <<avail, khalf>>

(* ... or the used list its pages. *)
MmufreeKeepsUsed(p) ==
  /\ tbl' = [tbl EXCEPT ![mmuroot[p]] = EmptyTable]
  /\ mmufree' = [mmufree EXCEPT ![p] = @ \union mmuused[p]]
  /\ UNCHANGED <<mmuused, avail, khalf>>

(* mmufree(p): the tables onto the free list, their contents now junk; the   *)
(* user half of the root emptied.                                            *)
Mmufree(p) ==
  /\ tbl' = [pg \in Page |-> CASE pg = mmuroot[p]     -> EmptyTable
                               [] pg \in mmuused[p]   -> JunkTable
                               [] OTHER               -> tbl[pg]]
  /\ mmufree' = [mmufree EXCEPT ![p] = @ \union mmuused[p]]
  /\ mmuused' = [mmuused EXCEPT ![p] = {}]
  /\ UNCHANGED <<avail, khalf>>

(* What could go wrong: newtlb is forgotten without emptying the tables. *)
MmuswitchForgets(p, nt) ==
  /\ newtlb' = [newtlb EXCEPT ![p] = FALSE]
  /\ SatpSet(IF mmuroot[p] = Nil THEN Kernel ELSE psatp[p])
  /\ UNCHANGED <<lists, tables>>

(* mmuswitch(p) when p->newtlb is nt. *)
Mmuswitch(p, nt) ==
  /\ newtlb' = [newtlb EXCEPT ![p] = FALSE]
  /\ IF mmuroot[p] = Nil
     THEN SatpSet(Kernel) /\ UNCHANGED <<lists, tables>>
     ELSE /\ IF nt THEN Mmufree(p) ELSE UNCHANGED <<lists, tables>>
          /\ SatpSet(psatp[p])

-----------------------------------------------------------------------------
(* rfork: a new process has no tables. *)
Start(p) ==
  /\ pc[p] = "dead" /\ Goes(p, "kernel")
  /\ UNCHANGED <<up, arg, proc, lists, tables, hart>>

Enter(p) ==
  /\ Runs(p, "user") /\ Goes(p, "kernel")
  /\ UNCHANGED <<up, arg, proc, lists, tables, hart>>

Return(p) ==
  /\ Runs(p, "kernel") /\ Goes(p, "user")
  /\ UNCHANGED <<up, arg, proc, lists, tables, hart>>

(* fault() calls putmmu(va, pa, pg). *)
Putmmu(p, va, f) ==
  /\ Runs(p, "kernel")
  /\ arg' = [arg EXCEPT ![p] = <<va, f>>]
  /\ Goes(p, IF mmuroot[p] = Nil THEN "rootalloc" ELSE "walk")
  /\ UNCHANGED <<up, proc, lists, tables, hart>>

(* mmurootalloc up to p->mmuroot = pg; newpage may sleep before. *)
RootAlloc(p) ==
  /\ Runs(p, "rootalloc") /\ avail # {}
  /\ LET pg == First(avail) IN
     /\ avail' = avail \ {pg}
     /\ tbl' = [tbl EXCEPT ![pg] = EmptyTable]
     /\ khalf' = khalf \union {pg}
     /\ mmuroot' = [mmuroot EXCEPT ![p] = pg]
  /\ Goes(p, "satp")
  /\ UNCHANGED <<up, arg, psatp, newtlb, mmuused, mmufree, hart>>

(* What could go wrong: satp is taken from the hart. *)
RootSatpOfHart(p) ==
  /\ Runs(p, "satp") /\ Goes(p, "satpset")
  /\ psatp' = [psatp EXCEPT ![p] = satp]
  /\ UNCHANGED <<up, arg, mmuroot, newtlb, lists, tables, hart>>

(* Its last line. *)
RootSatp(p) ==
  /\ Runs(p, "satp") /\ Goes(p, "satpset")
  /\ psatp' = [psatp EXCEPT ![p] = mmuroot[p]]
  /\ UNCHANGED <<up, arg, mmuroot, newtlb, lists, tables, hart>>

(* satpset(up->satp), then splhi. *)
RootLive(p) ==
  /\ Runs(p, "satpset") /\ Goes(p, "walk")
  /\ SatpSet(psatp[p])
  /\ UNCHANGED <<up, arg, proc, lists, tables>>

(* mmuwalk stops at an invalid entry: entry x of table t. *)
Missing(p, t, x) ==
  LET va == arg[p][1]
      t1 == Entry(mmuroot[p], va[1])
      t0 == Entry(t1, va[2])
  IN \/ t = mmuroot[p] /\ x = va[1] /\ t1 = Nil
     \/ t = t1 /\ x = va[2] /\ t1 # Nil /\ t0 = Nil

Walked(p) == \A t \in Page, x \in Idx : ~Missing(p, t, x)

(* It takes a table from the free list, clears it and links it in. *)
WalkLink(p) ==
  /\ Runs(p, "walk") /\ mmufree[p] # {}
  /\ \E t \in Page, x \in Idx :
       /\ Missing(p, t, x)
       /\ LET pg == First(mmufree[p]) IN
          /\ mmufree' = [mmufree EXCEPT ![p] = @ \ {pg}]
          /\ mmuused' = [mmuused EXCEPT ![p] = @ \union {pg}]
          /\ tbl' = [[tbl EXCEPT ![pg] = EmptyTable] EXCEPT ![t][x] = pg]
          /\ khalf' = khalf \ {pg}
  /\ UNCHANGED <<up, pc, arg, proc, avail, hart>>

(* Its list is empty: it returns nil, and putmmu goes for another page. *)
WalkNil(p) ==
  /\ Runs(p, "walk") /\ mmufree[p] = {} /\ ~Walked(p)
  /\ Goes(p, "newpage")
  /\ UNCHANGED <<up, arg, proc, lists, tables, hart>>

(* What could go wrong: the page does not reach the list. *)
RefillLost(p) ==
  /\ Runs(p, "newpage") /\ avail # {}
  /\ avail' = avail \ {First(avail)}
  /\ Goes(p, "walk")
  /\ UNCHANGED <<up, arg, proc, mmuused, mmufree, tables, hart>>

(* newpage returns, having slept or not; splhi, and the walk starts over. *)
Refill(p) ==
  /\ Runs(p, "newpage") /\ avail # {}
  /\ LET new == First(avail) IN
     /\ avail' = avail \ {new}
     /\ mmufree' = [mmufree EXCEPT ![p] = @ \union {new}]
  /\ Goes(p, "walk")
  /\ UNCHANGED <<up, arg, proc, mmuused, tables, hart>>

(* What could go wrong: no fence after the leaf. *)
PutLeafUnfenced(p) ==
  /\ Runs(p, "walk") /\ Walked(p)
  /\ LET va == arg[p][1]
         l0 == Entry(Entry(mmuroot[p], va[1]), va[2])
     IN tbl' = [tbl EXCEPT ![l0][va[3]] = arg[p][2]]
  /\ arg' = [arg EXCEPT ![p] = Nil]
  /\ Goes(p, "kernel")
  /\ UNCHANGED <<up, proc, lists, khalf, hart>>

(* The leaf is written and the TLB fenced. *)
PutLeaf(p) ==
  /\ Runs(p, "walk") /\ Walked(p)
  /\ LET va == arg[p][1]
         l0 == Entry(Entry(mmuroot[p], va[1]), va[2])
     IN tbl' = [tbl EXCEPT ![l0][va[3]] = arg[p][2]]
  /\ tlb' = {}
  /\ arg' = [arg EXCEPT ![p] = Nil]
  /\ Goes(p, "kernel")
  /\ UNCHANGED <<up, proc, lists, khalf, satp>>

(* exec, segdetach: flushmmu. *)
Flushmmu(p) ==
  /\ Runs(p, "kernel")
  /\ Mmuswitch(p, TRUE)
  /\ UNCHANGED <<up, pc, arg, mmuroot, psatp>>

(* The pager, or another process that shares a segment, takes a mapping away.*)
Invalidate(p) ==
  /\ up # p /\ pc[p] \notin {"dead", "release"}
  /\ newtlb' = [newtlb EXCEPT ![p] = TRUE]
  /\ UNCHANGED <<up, pc, arg, mmuroot, psatp, lists, tables, hart>>

(* sched(): the tables stay those of p until the next mmuswitch. *)
SwitchOut(p) ==
  /\ up = p /\ pc[p] \in Preemptible
  /\ up' = NoProc
  /\ UNCHANGED <<pc, arg, proc, lists, tables, hart>>

SwitchIn(p) ==
  /\ up = NoProc /\ pc[p] \in Preemptible
  /\ up' = p
  /\ Mmuswitch(p, newtlb[p])
  /\ UNCHANGED <<pc, arg, mmuroot, psatp>>

SwitchKproc ==
  /\ up = NoProc /\ satp # Kernel
  /\ \A p \in Proc : pc[p] # "release"
  /\ SatpSet(Kernel)
  /\ UNCHANGED <<up, pc, arg, proc, lists, tables>>

(* What could go wrong: p's root is given back while satp names it. *)
ReleaseNoSwitch(p) ==
  /\ Runs(p, "kernel") /\ Goes(p, "release")
  /\ UNCHANGED <<up, arg, proc, lists, tables, hart>>

(* mmurelease of a Moribund process, in the scheduler: mmuswitch(nil) ...    *)
ReleaseSwitch(p) ==
  /\ Runs(p, "kernel") /\ Goes(p, "release")
  /\ SatpSet(Kernel)
  /\ UNCHANGED <<up, arg, proc, lists, tables>>

(* ... then every page of p goes back. *)
Release(p) ==
  /\ Runs(p, "release") /\ Goes(p, "dead")
  /\ up' = NoProc
  /\ LET mine == mmuused[p] \union mmufree[p] \union ({mmuroot[p]} \ {Nil}) IN
     /\ avail' = avail \union mine
     /\ tbl' = [pg \in Page |-> IF pg \in mine THEN JunkTable ELSE tbl[pg]]
     /\ khalf' = khalf \ mine
  /\ mmuused' = [mmuused EXCEPT ![p] = {}]
  /\ mmufree' = [mmufree EXCEPT ![p] = {}]
  /\ mmuroot' = [mmuroot EXCEPT ![p] = Nil]
  /\ psatp' = [psatp EXCEPT ![p] = Bare]
  /\ UNCHANGED <<arg, newtlb, hart>>

(* The hart walks the tables satp points at when it likes, for an address it *)
(* accesses or guesses, and may keep what it finds, an invalid entry too.    *)
Fill(va) ==
  /\ satp \in Page
  /\ tlb' = tlb \union {<<va, Translate(satp, va)>>}
  /\ UNCHANGED <<up, pc, arg, proc, lists, tables, satp>>

(* putmmu's own steps. *)
PutStep(p) ==
  \/ RootAlloc(p) \/ RootSatp(p) \/ RootLive(p)
  \/ WalkLink(p) \/ WalkNil(p) \/ Refill(p) \/ PutLeaf(p)

(* With satp Bare the hart fetches from nowhere, its trap vector included.   *)
Next ==
  \/ /\ satp # Bare
     /\ \/ \E p \in Proc :
             \/ Start(p) \/ Enter(p) \/ Return(p)
             \/ \E va \in VA, f \in Frame : Putmmu(p, va, f)
             \/ PutStep(p)
             \/ Flushmmu(p) \/ Invalidate(p)
             \/ SwitchOut(p) \/ SwitchIn(p)
             \/ ReleaseSwitch(p) \/ Release(p)
        \/ SwitchKproc
        \/ \E va \in VA : Fill(va)
  \/ satp = Bare /\ UNCHANGED vars

Spec == Init /\ [][Next]_vars

-----------------------------------------------------------------------------
(* Every variable has its type. *)
TypeOK ==
  /\ up \in Proc \union {NoProc}
  /\ pc \in [Proc -> PC]
  /\ arg \in [Proc -> (VA \X Frame) \union {Nil}]
  /\ mmuroot \in [Proc -> Page \union {Nil}]
  /\ psatp \in [Proc -> Page \union {Bare}]
  /\ newtlb \in [Proc -> BOOLEAN]
  /\ mmuused \in [Proc -> SUBSET Page]
  /\ mmufree \in [Proc -> SUBSET Page]
  /\ avail \in SUBSET Page
  /\ tbl \in [Page -> [Idx -> Page \union Frame \union {Nil, Junk}]]
  /\ khalf \in SUBSET Page
  /\ satp \in Page \union {Kernel, Bare}
  /\ tlb \in SUBSET (VA \X (Page \union Frame \union {Nil, Junk}))

Held(p) == mmuused[p] \union mmufree[p] \union ({mmuroot[p]} \ {Nil})

(* Every table page has one holder and one use: none is lost, none is freed  *)
(* twice, none serves two processes or is both in a table tree and on a free *)
(* list (mmurootalloc, mmuwalk, mmufree, putmmu, mmurelease).                *)
PagesConserved ==
  /\ \A pg \in Page : pg \in avail \/ \E p \in Proc : pg \in Held(p)
  /\ \A p \in Proc :
       /\ Held(p) \intersect avail = {}
       /\ mmuused[p] \intersect mmufree[p] = {}
       /\ mmuroot[p] \notin mmuused[p] \union mmufree[p]
       /\ \A q \in Proc \ {p} : Held(p) \intersect Held(q) = {}

(* A process's tree is exactly its used list, under its root: no entry leads *)
(* to a freed page, to another tree or to contents nobody cleared.           *)
Children(t) == {tbl[t][x] : x \in Idx} \intersect Page
Tree(p) ==
  IF mmuroot[p] = Nil THEN {}
  ELSE Children(mmuroot[p]) \union UNION {Children(t) : t \in Children(mmuroot[p])}

TreeIsUsed ==
  \A p \in Proc :
    /\ Tree(p) = mmuused[p]
    /\ \A va \in VA : Translate(mmuroot[p], va) \in Frame \union {Nil}

(* satp points at the boot tables or at a root some process holds, with the  *)
(* kernel mapped in it, so the hart always has its next instruction; unless  *)
(* a process was switched away inside mmurootalloc (see GivenRoot).          *)
SatpLive ==
  \/ satp = Kernel
  \/ satp \in khalf /\ \E p \in Proc : mmuroot[p] = satp
  \/ satp = Bare /\ \E p \in Proc : Runs(p, "satp")

(* In user mode every translation the hart has cached is the one p's own     *)
(* tables hold, and nobody is waiting for p to drop it: no stale entry       *)
(* outlives putmmu, flushmmu, an invalidation by the pager or a switch.      *)
TlbCoherent ==
  \A p \in Proc : Runs(p, "user") =>
    /\ ~newtlb[p]
    /\ satp = (IF mmuroot[p] = Nil THEN Kernel ELSE mmuroot[p])
    /\ \A e \in tlb : e[2] = Translate(mmuroot[p], e[1])

(* "Give p its own root table: user half empty, kernel half copied from the  *)
(* boot root" (mmu.c:243): a process that has been given one runs on it, or  *)
(* on the boot root, and has the kernel mapped either way.                   *)
GivenRoot ==
  \A p \in Proc : up = p /\ mmuroot[p] # Nil => satp \in {Kernel, mmuroot[p]}

(* The address space a process sees: nothing, while a flush is pending. *)
Seen ==
  [p \in Proc |-> [va \in VA |-> IF newtlb[p] THEN Nil ELSE Translate(mmuroot[p], va)]]

AS == INSTANCE AddrSpace WITH maps <- Seen

(* The tables implement address spaces: putmmu, with every table it links in *)
(* on the way, changes one address of one process.                           *)
Implements == AS!Spec
=============================================================================
