------------------------------ MODULE MmuProofs ------------------------------
(* Theorems about Mmu, for any processes, pages, addresses and frames. *)
EXTENDS Mmu, TLAPS

(* Where a process can be, by its tables: p->satp names the root from the    *)
(* moment after it is assigned, and what cannot be switched away is up.      *)
ProcOK(p) ==
  /\ pc[p] \in Putting => arg[p] \in VA \X Frame
  /\ pc[p] \in {"dead", "rootalloc"} => mmuroot[p] = Nil
  /\ pc[p] \in Putting \ {"rootalloc"} => mmuroot[p] # Nil
  /\ psatp[p] = IF mmuroot[p] = Nil \/ pc[p] = "satp" THEN Bare ELSE mmuroot[p]
  /\ pc[p] \in {"user", "walk", "release"} => up = p
  /\ mmuroot[p] # Nil => mmuroot[p] \in khalf
  /\ pc[p] = "release" => satp = Kernel
  /\ up = p => pc[p] # "dead"

IInv ==
  /\ TypeOK
  /\ PagesConserved
  /\ SatpLive
  /\ \A p \in Proc : ProcOK(p)

USE DEF PC, Putting, Preemptible

EntryType == Page \union Frame \union {Nil, Junk}

(* The page that comes off a list is one of the list. *)
LEMMA FirstIn == ASSUME NEW S, S # {} PROVE First(S) \in S
BY DEF First

(* What a table holds is an entry; nothing holds none. *)
LEMMA EntryTyped ==
  ASSUME TypeOK, NEW t \in EntryType, NEW x \in Idx
  PROVE  Entry(t, x) \in EntryType
BY DEF TypeOK, Entry, EntryType

(* What a walk finds is an entry. *)
LEMMA TranslateTyped ==
  ASSUME TypeOK, NEW r \in EntryType, NEW va \in VA
  PROVE  Translate(r, va) \in EntryType
<1>1. va[1] \in Idx /\ va[2] \in Idx /\ va[3] \in Idx
  BY VAAssumption
<1>2. Entry(r, va[1]) \in EntryType
  BY <1>1, EntryTyped
<1>3. Entry(Entry(r, va[1]), va[2]) \in EntryType
  BY <1>1, <1>2, EntryTyped
<1>4. QED
  BY <1>1, <1>3, EntryTyped DEF Translate

(* The invariant holds at the start. *)
LEMMA InitIInv == Init => IInv
<1> SUFFICES ASSUME Init PROVE IInv
  OBVIOUS
<1> USE NoProcAssumption, ValueAssumption DEF Init
<1>1. TypeOK
  <2>1. JunkTable \in [Idx -> EntryType]
    BY DEF JunkTable, EntryType
  <2>2. QED
    BY <2>1 DEF TypeOK, EntryType
<1>2. PagesConserved
  BY DEF PagesConserved, Held
<1>3. SatpLive
  BY DEF SatpLive
<1>4. \A p \in Proc : ProcOK(p)
  BY DEF ProcOK
<1>5. QED
  BY <1>1, <1>2, <1>3, <1>4 DEF IInv

-----------------------------------------------------------------------------
(* What mmufree and mmuswitch leave typed, and that they keep every page     *)
(* with the process that held it.                                            *)
ListsTyped ==
  /\ mmuused \in [Proc -> SUBSET Page]
  /\ mmufree \in [Proc -> SUBSET Page]
  /\ avail \in SUBSET Page

TablesTyped ==
  /\ tbl \in [Page -> [Idx -> EntryType]]
  /\ khalf \in SUBSET Page

(* mmufree moves p's used pages to its free list and touches nobody else's. *)
LEMMA MmufreeKeeps ==
  ASSUME TypeOK, NEW p \in Proc, Mmufree(p), UNCHANGED mmuroot
  PROVE  /\ ListsTyped' /\ TablesTyped'
         /\ UNCHANGED <<avail, khalf>>
         /\ \A q \in Proc : /\ mmuused'[q] = IF q = p THEN {} ELSE mmuused[q]
                            /\ mmufree'[q] = IF q = p THEN mmufree[p] \union mmuused[p]
                                             ELSE mmufree[q]
<1>1. EmptyTable \in [Idx -> EntryType] /\ JunkTable \in [Idx -> EntryType]
  BY DEF EmptyTable, JunkTable, EntryType
<1>2. TablesTyped'
  BY <1>1 DEF TypeOK, Mmufree, TablesTyped, EntryType
<1>3. QED
  BY <1>2 DEF TypeOK, Mmufree, ListsTyped

(* mmuswitch empties the TLB, sets satp to the process's root or the kernel's *)
(* and moves all of a process's used pages to its free list, or none.        *)
LEMMA MmuswitchKeeps ==
  ASSUME TypeOK, NEW p \in Proc, NEW nt \in BOOLEAN, Mmuswitch(p, nt),
         UNCHANGED mmuroot
  PROVE  /\ newtlb' \in [Proc -> BOOLEAN]
         /\ ListsTyped' /\ TablesTyped'
         /\ UNCHANGED <<avail, khalf>>
         /\ tlb' = {} /\ satp' = IF mmuroot[p] = Nil THEN Kernel ELSE psatp[p]
         /\ \A q \in Proc :
              \/ mmuused'[q] = mmuused[q] /\ mmufree'[q] = mmufree[q]
              \/ mmuused'[q] = {} /\ mmufree'[q] = mmufree[q] \union mmuused[q]
<1>1. newtlb' \in [Proc -> BOOLEAN]
  BY DEF TypeOK, Mmuswitch
<1>2. tlb' = {} /\ satp' = IF mmuroot[p] = Nil THEN Kernel ELSE psatp[p]
  BY DEF Mmuswitch, SatpSet
<1>3. CASE Mmufree(p)
  BY <1>1, <1>2, <1>3, MmufreeKeeps
<1>4. CASE UNCHANGED <<lists, tables>>
  BY <1>1, <1>2, <1>4 DEF TypeOK, ListsTyped, TablesTyped, lists, tables, EntryType
<1>5. QED
  BY <1>3, <1>4 DEF Mmuswitch

-----------------------------------------------------------------------------
(* Every step keeps the types. *)
LEMMA StepTypeOK == IInv /\ [Next]_vars => TypeOK'
<1> SUFFICES ASSUME IInv, [Next]_vars PROVE TypeOK'
  OBVIOUS
<1> TypeOK
  BY DEF IInv
<1> USE DEF Runs, Goes, proc, lists, tables, hart
<1>1. CASE UNCHANGED vars
  BY <1>1 DEF TypeOK, vars
<1>2. ASSUME NEW p \in Proc,
             \/ Start(p) \/ Enter(p) \/ Return(p) \/ RootSatp(p) \/ WalkNil(p)
             \/ Invalidate(p) \/ SwitchOut(p)
      PROVE TypeOK'
  <2>1. RootSatp(p) => mmuroot[p] \in Page
    BY <1>2 DEF IInv, ProcOK, TypeOK, RootSatp
  <2>2. QED
    BY <1>2, <2>1 DEF TypeOK, Start, Enter, Return, RootSatp, WalkNil,
                      Invalidate, SwitchOut
<1>3. ASSUME NEW p \in Proc, NEW va \in VA, NEW f \in Frame, Putmmu(p, va, f)
      PROVE TypeOK'
  <2>1. <<va, f>> \in (VA \X Frame) \union {Nil}
    OBVIOUS
  <2>2. QED
    BY <1>3, <2>1 DEF TypeOK, Putmmu
<1>4. ASSUME NEW p \in Proc, RootAlloc(p)
      PROVE TypeOK'
  <2>1. First(avail) \in Page
    BY <1>4, FirstIn DEF RootAlloc, TypeOK
  <2>2. EmptyTable \in [Idx -> Page \union Frame \union {Nil, Junk}]
    BY DEF EmptyTable
  <2>3. QED
    BY <1>4, <2>1, <2>2 DEF TypeOK, RootAlloc
<1>5. ASSUME NEW p \in Proc, RootLive(p)
      PROVE TypeOK'
  BY <1>5 DEF TypeOK, RootLive, SatpSet
<1>6. ASSUME NEW p \in Proc, WalkLink(p)
      PROVE TypeOK'
  <2>1. PICK t \in Page, x \in Idx :
          tbl' = [[tbl EXCEPT ![First(mmufree[p])] = EmptyTable]
                    EXCEPT ![t][x] = First(mmufree[p])]
    BY <1>6 DEF WalkLink
  <2>2. First(mmufree[p]) \in Page
    BY <1>6, FirstIn DEF WalkLink, TypeOK
  <2>3. EmptyTable \in [Idx -> Page \union Frame \union {Nil, Junk}]
    BY DEF EmptyTable
  <2>4. tbl' \in [Page -> [Idx -> Page \union Frame \union {Nil, Junk}]]
    BY <2>1, <2>2, <2>3 DEF TypeOK
  <2>5. QED
    BY <1>6, <2>2, <2>4 DEF TypeOK, WalkLink
<1>7. ASSUME NEW p \in Proc, Refill(p)
      PROVE TypeOK'
  <2>1. First(avail) \in Page
    BY <1>7, FirstIn DEF Refill, TypeOK
  <2>2. QED
    BY <1>7, <2>1 DEF TypeOK, Refill
<1>8. ASSUME NEW p \in Proc, PutLeaf(p)
      PROVE TypeOK'
  <2>1. arg[p] \in VA \X Frame
    BY <1>8 DEF IInv, ProcOK, TypeOK, PutLeaf
  <2>2. arg[p][1][3] \in Idx /\ arg[p][2] \in Frame
    BY <2>1, VAAssumption
  <2>3. PICK l0 : tbl' = [tbl EXCEPT ![l0][arg[p][1][3]] = arg[p][2]]
    BY <1>8 DEF PutLeaf
  <2>4. tbl' \in [Page -> [Idx -> Page \union Frame \union {Nil, Junk}]]
    BY <2>2, <2>3 DEF TypeOK
  <2>5. QED
    BY <1>8, <2>4 DEF TypeOK, PutLeaf
<1>9. ASSUME NEW p \in Proc, Flushmmu(p) \/ SwitchIn(p)
      PROVE TypeOK'
  <2>1. PICK nt \in BOOLEAN : Mmuswitch(p, nt)
    BY <1>9 DEF Flushmmu, SwitchIn, TypeOK
  <2>2. UNCHANGED <<mmuroot, psatp, pc, arg>> /\ up' \in Proc \union {NoProc}
    BY <1>9 DEF Flushmmu, SwitchIn, TypeOK
  <2>3. ListsTyped' /\ TablesTyped' /\ newtlb' \in [Proc -> BOOLEAN]
        /\ tlb' = {} /\ satp' = IF mmuroot[p] = Nil THEN Kernel ELSE psatp[p]
    BY <2>1, <2>2, MmuswitchKeeps
  <2>4. QED
    BY <2>2, <2>3 DEF TypeOK, ListsTyped, TablesTyped, EntryType
<1>10. ASSUME NEW p \in Proc, ReleaseSwitch(p)
       PROVE TypeOK'
  BY <1>10 DEF TypeOK, ReleaseSwitch, SatpSet
<1>11. ASSUME NEW p \in Proc, Release(p)
       PROVE TypeOK'
  <2>1. JunkTable \in [Idx -> Page \union Frame \union {Nil, Junk}]
    BY DEF JunkTable
  <2>2. Held(p) \in SUBSET Page
    BY DEF TypeOK, Held
  <2>3. avail' \in SUBSET Page /\ khalf' \in SUBSET Page
        /\ tbl' \in [Page -> [Idx -> Page \union Frame \union {Nil, Junk}]]
    BY <1>11, <2>1, <2>2 DEF TypeOK, Release, Held
  <2>4. QED
    BY <1>11, <2>3 DEF TypeOK, Release
<1>12. ASSUME NEW va \in VA, Fill(va)
       PROVE TypeOK'
  <2>1. Translate(satp, va) \in Page \union Frame \union {Nil, Junk}
    BY <1>12, TranslateTyped DEF Fill, EntryType
  <2>2. QED
    BY <1>12, <2>1 DEF TypeOK, Fill
<1>13. ASSUME SwitchKproc
       PROVE TypeOK'
  BY <1>13 DEF TypeOK, SwitchKproc, SatpSet
<1>14. QED
  BY <1>1, <1>2, <1>3, <1>4, <1>5, <1>6, <1>7, <1>8, <1>9, <1>10, <1>11,
     <1>12, <1>13 DEF Next, PutStep

(* No step loses a page or gives it a second holder. *)
LEMMA StepPagesConserved == IInv /\ [Next]_vars => PagesConserved'
<1> SUFFICES ASSUME IInv, [Next]_vars PROVE PagesConserved'
  OBVIOUS
<1> TypeOK /\ PagesConserved
  BY DEF IInv
<1> USE DEF Runs, Goes, proc, lists, tables, hart
<1>1. CASE UNCHANGED <<mmuroot, lists>>
  BY <1>1 DEF PagesConserved, Held
<1>2. ASSUME NEW p \in Proc, RootAlloc(p)
      PROVE PagesConserved'
  <2>1. First(avail) \in avail
    BY <1>2, FirstIn DEF RootAlloc
  <2>2. mmuroot[p] = Nil
    BY <1>2 DEF IInv, ProcOK, RootAlloc
  <2>3. QED
    BY <1>2, <2>1, <2>2, ValueAssumption DEF TypeOK, PagesConserved, Held, RootAlloc
<1>3. ASSUME NEW p \in Proc, WalkLink(p)
      PROVE PagesConserved'
  <2>1. First(mmufree[p]) \in mmufree[p]
    BY <1>3, FirstIn DEF WalkLink
  <2>2. UNCHANGED <<mmuroot, avail>> /\ \A q \in Proc : Held(q)' = Held(q)
    BY <1>3, <2>1 DEF TypeOK, Held, WalkLink
  <2>3. \A q \in Proc : mmuused'[q] \intersect mmufree'[q] = {}
    BY <1>3, <2>1 DEF TypeOK, PagesConserved, WalkLink
  <2>4. \A q \in Proc :
          mmuused'[q] \union mmufree'[q] = mmuused[q] \union mmufree[q]
    BY <1>3, <2>1 DEF TypeOK, WalkLink
  <2>5. QED
    BY <2>2, <2>3, <2>4 DEF PagesConserved
<1>4. ASSUME NEW p \in Proc, Refill(p)
      PROVE PagesConserved'
  <2>1. First(avail) \in avail
    BY <1>4, FirstIn DEF Refill
  <2>2. QED
    BY <1>4, <2>1, ValueAssumption DEF TypeOK, PagesConserved, Held, Refill
<1>5. ASSUME NEW p \in Proc, Flushmmu(p) \/ SwitchIn(p)
      PROVE PagesConserved'
  <2>1. PICK nt \in BOOLEAN : Mmuswitch(p, nt)
    BY <1>5 DEF Flushmmu, SwitchIn, TypeOK
  <2>2. UNCHANGED mmuroot
    BY <1>5 DEF Flushmmu, SwitchIn
  <2>3. UNCHANGED avail
        /\ \A q \in Proc :
             \/ mmuused'[q] = mmuused[q] /\ mmufree'[q] = mmufree[q]
             \/ mmuused'[q] = {} /\ mmufree'[q] = mmufree[q] \union mmuused[q]
    BY <2>1, <2>2, MmuswitchKeeps
  <2>4. \A q \in Proc :
          /\ Held(q)' = Held(q)
          /\ mmuused'[q] \intersect mmufree'[q] = {}
          /\ mmuused'[q] \union mmufree'[q] = mmuused[q] \union mmufree[q]
    BY <2>2, <2>3 DEF PagesConserved, Held
  <2>5. QED
    BY <2>2, <2>3, <2>4 DEF PagesConserved
<1>6. ASSUME NEW p \in Proc, Release(p)
      PROVE PagesConserved'
  <2>1. avail' = avail \union Held(p)
    BY <1>6 DEF Release, Held
  <2>2. \A q \in Proc : /\ Held(q)' = IF q = p THEN {} ELSE Held(q)
                        /\ q # p => /\ mmuused'[q] = mmuused[q]
                                     /\ mmufree'[q] = mmufree[q]
                                     /\ mmuroot'[q] = mmuroot[q]
                        /\ q = p => /\ mmuused'[q] = {}
                                     /\ mmufree'[q] = {}
    BY <1>6 DEF TypeOK, Release, Held
  <2>3. QED
    BY <2>1, <2>2 DEF PagesConserved
<1>7. ASSUME NEW p \in Proc,
             \/ Start(p) \/ Enter(p) \/ Return(p) \/ RootSatp(p) \/ RootLive(p)
             \/ WalkNil(p) \/ PutLeaf(p) \/ Invalidate(p) \/ SwitchOut(p)
             \/ ReleaseSwitch(p)
      PROVE UNCHANGED <<mmuroot, lists>>
  BY <1>7 DEF Start, Enter, Return, RootSatp, RootLive, WalkNil, PutLeaf,
              Invalidate, SwitchOut, ReleaseSwitch
<1>8. ASSUME NEW p \in Proc, NEW va \in VA, NEW f \in Frame, Putmmu(p, va, f)
      PROVE UNCHANGED <<mmuroot, lists>>
  BY <1>8 DEF Putmmu
<1>9. UNCHANGED vars => UNCHANGED <<mmuroot, lists>>
  BY DEF vars
<1>10. ASSUME NEW va \in VA, Fill(va)
       PROVE UNCHANGED <<mmuroot, lists>>
  BY <1>10 DEF Fill
<1>11. SwitchKproc => UNCHANGED <<mmuroot, lists>>
  BY DEF SwitchKproc
<1>12. QED
  BY <1>1, <1>2, <1>3, <1>4, <1>5, <1>6, <1>7, <1>8, <1>9, <1>10, <1>11
     DEF Next, PutStep

(* A table taken off a list, or a page given back, is nobody's live root.    *)
LEMMA NotARoot ==
  ASSUME TypeOK, PagesConserved, NEW p \in Proc, NEW q \in Proc, mmuroot[q] # Nil
  PROVE  /\ mmuroot[q] \notin mmufree[p]
         /\ q # p => mmuroot[q] \notin Held(p)
<1>1. mmuroot[q] \in Held(q) /\ mmufree[p] \subseteq Held(p)
  BY DEF Held
<1>2. q # p => Held(q) \intersect Held(p) = {}
  BY DEF PagesConserved
<1>3. mmuroot[q] \notin mmufree[q]
  BY DEF PagesConserved
<1>4. QED
  BY <1>1, <1>2, <1>3

(* Every step leaves each process where its tables say. *)
LEMMA StepProcOK ==
  ASSUME IInv, [Next]_vars, NEW q \in Proc
  PROVE  ProcOK(q)'
<1> TypeOK /\ PagesConserved /\ ProcOK(q)
  BY DEF IInv
<1> USE NoProcAssumption, ValueAssumption
    DEF Runs, Goes, proc, lists, tables, hart, ProcOK
<1>1. CASE UNCHANGED vars
  BY <1>1 DEF vars
<1>2. ASSUME NEW p \in Proc,
             \/ Start(p) \/ Enter(p) \/ Return(p) \/ RootSatp(p) \/ WalkNil(p)
             \/ Invalidate(p) \/ SwitchOut(p) \/ Refill(p) \/ PutLeaf(p)
      PROVE ProcOK(q)'
  BY <1>2 DEF TypeOK, Start, Enter, Return, RootSatp, WalkNil, Invalidate,
              SwitchOut, Refill, PutLeaf
<1>3. ASSUME NEW p \in Proc, NEW va \in VA, NEW f \in Frame, Putmmu(p, va, f)
      PROVE ProcOK(q)'
  <2>1. <<va, f>> \in VA \X Frame
    OBVIOUS
  <2>2. QED
    BY <1>3, <2>1 DEF TypeOK, Putmmu
<1>4. ASSUME NEW p \in Proc, RootAlloc(p)
      PROVE ProcOK(q)'
  <2>1. First(avail) \in Page
    BY <1>4, FirstIn DEF RootAlloc, TypeOK
  <2>2. QED
    BY <1>4, <2>1 DEF TypeOK, RootAlloc
<1>5. ASSUME NEW p \in Proc, RootLive(p)
      PROVE ProcOK(q)'
  BY <1>5 DEF TypeOK, RootLive, SatpSet
<1>6. ASSUME NEW p \in Proc, WalkLink(p)
      PROVE ProcOK(q)'
  <2>1. First(mmufree[p]) \in mmufree[p]
    BY <1>6, FirstIn DEF WalkLink
  <2>2. mmuroot[q] # Nil => mmuroot[q] \in khalf'
    BY <1>6, <2>1, NotARoot DEF WalkLink
  <2>3. QED
    BY <1>6, <2>2 DEF WalkLink
<1>7. ASSUME NEW p \in Proc, Flushmmu(p) \/ SwitchIn(p)
      PROVE ProcOK(q)'
  <2>1. PICK nt \in BOOLEAN : Mmuswitch(p, nt)
    BY <1>7 DEF Flushmmu, SwitchIn, TypeOK
  <2>2. UNCHANGED <<mmuroot, psatp, pc, arg>>
    BY <1>7 DEF Flushmmu, SwitchIn
  <2>3. UNCHANGED khalf
    BY <2>1, <2>2, MmuswitchKeeps
  <2>4. pc[q] \in {"user", "walk", "release"} => up = q /\ up' = up /\ p = q /\ pc[q] = "kernel"
    BY <1>7 DEF IInv, Flushmmu, SwitchIn
  <2>5. up' = p /\ pc[p] # "dead"
    BY <1>7 DEF Flushmmu, SwitchIn
  <2>6. QED
    BY <2>2, <2>3, <2>4, <2>5
<1>8. ASSUME NEW p \in Proc, ReleaseSwitch(p)
      PROVE ProcOK(q)'
  BY <1>8 DEF TypeOK, ReleaseSwitch, SatpSet
<1>9. ASSUME NEW p \in Proc, Release(p)
      PROVE ProcOK(q)'
  <2>1. khalf' = khalf \ Held(p)
    BY <1>9 DEF Release, Held
  <2>2. CASE q = p
    BY <1>9, <2>2 DEF TypeOK, Release
  <2>3. CASE q # p
    BY <1>9, <2>1, <2>3, NotARoot DEF TypeOK, Release
  <2>4. QED
    BY <2>2, <2>3
<1>10. ASSUME NEW va \in VA, Fill(va)
       PROVE ProcOK(q)'
  BY <1>10 DEF Fill
<1>11. ASSUME SwitchKproc
       PROVE ProcOK(q)'
  BY <1>11 DEF SwitchKproc, SatpSet
<1>12. QED
  BY <1>1, <1>2, <1>3, <1>4, <1>5, <1>6, <1>7, <1>8, <1>9, <1>10, <1>11
     DEF Next, PutStep

(* No step takes the kernel's mapping from under the hart, but a switch back *)
(* to a process at "satp".                                                   *)
LEMMA StepSatpLive == IInv /\ [Next]_vars => SatpLive'
<1> SUFFICES ASSUME IInv, [Next]_vars PROVE SatpLive'
  OBVIOUS
<1> TypeOK /\ PagesConserved /\ SatpLive /\ \A p \in Proc : ProcOK(p)
  BY DEF IInv
<1> USE NoProcAssumption, ValueAssumption
    DEF Runs, Goes, proc, lists, tables, hart
<1>1. CASE UNCHANGED vars
  BY <1>1 DEF vars, SatpLive
<1>2. CASE satp # Bare /\ UNCHANGED <<satp, khalf, mmuroot>>
  BY <1>2 DEF SatpLive
<1>3. ASSUME satp # Bare, NEW p \in Proc, RootAlloc(p)
      PROVE SatpLive'
  <2>1. mmuroot[p] = Nil
    BY <1>3 DEF ProcOK, RootAlloc
  <2>2. \A q \in Proc : mmuroot[q] # Nil => mmuroot'[q] = mmuroot[q]
    BY <1>3, <2>1 DEF TypeOK, RootAlloc
  <2>3. UNCHANGED satp /\ khalf \subseteq khalf'
    BY <1>3 DEF RootAlloc
  <2>4. QED
    BY <1>3, <2>2, <2>3 DEF SatpLive, TypeOK
<1>4. ASSUME satp # Bare, NEW p \in Proc, RootLive(p)
      PROVE SatpLive'
  BY <1>4 DEF RootLive, SatpSet, SatpLive, ProcOK
<1>5. ASSUME satp # Bare, NEW p \in Proc, WalkLink(p)
      PROVE SatpLive'
  <2>1. First(mmufree[p]) \in mmufree[p]
    BY <1>5, FirstIn DEF WalkLink
  <2>2. UNCHANGED <<satp, mmuroot>> /\ khalf' = khalf \ {First(mmufree[p])}
    BY <1>5 DEF WalkLink
  <2>3. QED
    BY <1>5, <2>1, <2>2, NotARoot DEF SatpLive, TypeOK
<1>6. ASSUME NEW p \in Proc, Flushmmu(p) \/ SwitchIn(p)
      PROVE SatpLive'
  <2>1. PICK nt \in BOOLEAN : Mmuswitch(p, nt)
    BY <1>6 DEF Flushmmu, SwitchIn, TypeOK
  <2>2. UNCHANGED <<mmuroot, pc>> /\ up' = p
    BY <1>6 DEF Flushmmu, SwitchIn
  <2>3. UNCHANGED khalf /\ satp' = IF mmuroot[p] = Nil THEN Kernel ELSE psatp[p]
    BY <2>1, <2>2, MmuswitchKeeps
  <2>4. QED
    BY <2>2, <2>3 DEF SatpLive, ProcOK
<1>7. ASSUME NEW p \in Proc, ReleaseSwitch(p) \/ SwitchKproc
      PROVE SatpLive'
  BY <1>7 DEF ReleaseSwitch, SwitchKproc, SatpSet, SatpLive
<1>8. ASSUME NEW p \in Proc, Release(p)
      PROVE SatpLive'
  BY <1>8 DEF Release, SatpLive, ProcOK
<1>9. ASSUME NEW p \in Proc,
             \/ Start(p) \/ Enter(p) \/ Return(p) \/ RootSatp(p) \/ WalkNil(p)
             \/ Invalidate(p) \/ SwitchOut(p) \/ Refill(p) \/ PutLeaf(p)
             \/ \E va \in VA, f \in Frame : Putmmu(p, va, f)
      PROVE UNCHANGED <<satp, khalf, mmuroot>>
  BY <1>9 DEF Start, Enter, Return, RootSatp, WalkNil, Invalidate, SwitchOut,
              Refill, PutLeaf, Putmmu
<1>10. ASSUME NEW va \in VA, Fill(va)
       PROVE UNCHANGED <<satp, khalf, mmuroot>>
  BY <1>10 DEF Fill
<1>11. SwitchKproc => SatpLive'
  BY DEF SwitchKproc, SatpSet, SatpLive
<1>12. QED
  BY <1>1, <1>2, <1>3, <1>4, <1>5, <1>6, <1>7, <1>8, <1>9, <1>10, <1>11
     DEF Next, PutStep

(* So the invariant always holds. *)
LEMMA Invariance == Spec => []IInv
<1>1. IInv /\ [Next]_vars => IInv'
  BY StepTypeOK, StepPagesConserved, StepSatpLive, StepProcOK DEF IInv
<1>2. QED
  BY InitIInv, <1>1, PTL DEF Spec

(* Mmu's variables have their types in every reachable state (mmu.c). *)
THEOREM TypeCorrect == Spec => []TypeOK
<1>1. IInv => TypeOK
  BY DEF IInv
<1>2. QED
  BY Invariance, <1>1, PTL

(* No page table is lost, freed twice or held twice, whatever process exits, *)
(* faults, is flushed or waits for a page when (mmu.c:242-391).              *)
THEOREM PagesConservedHolds == Spec => []PagesConserved
<1>1. IInv => PagesConserved
  BY DEF IInv
<1>2. QED
  BY Invariance, <1>1, PTL

(* satp names the boot tables or a held root with the kernel mapped in it,   *)
(* outside the window in mmurootalloc (mmu.c:258-259).                       *)
THEOREM SatpLiveHolds == Spec => []SatpLive
<1>1. IInv => SatpLive
  BY DEF IInv
<1>2. QED
  BY Invariance, <1>1, PTL

-----------------------------------------------------------------------------
(* What the tables hold, what the hart has cached of them, and that they     *)
(* implement AddrSpace.                                                      *)

(* The tables of p's tree: those the root names, and those these name. *)
Level1(p) == {tbl[mmuroot[p]][x] : x \in Idx} \intersect Page
Level0(p) == {pg \in Page : \E t \in Level1(p), x \in Idx : tbl[t][x] = pg}

(* p's tree has two levels under its root, leaves in the lower one only, no  *)
(* table named twice, and is what the used list says.                        *)
TreeOK(p) ==
  IF mmuroot[p] = Nil THEN mmuused[p] = {}
  ELSE /\ \A x \in Idx : tbl[mmuroot[p]][x] \in Page \union {Nil}
       /\ \A t \in Level1(p), x \in Idx : tbl[t][x] \in Page \union {Nil}
       /\ \A t \in Level0(p), x \in Idx : tbl[t][x] \in Frame \union {Nil}
       /\ Level1(p) \union Level0(p) = mmuused[p]
       /\ Level1(p) \intersect Level0(p) = {}
       /\ \A x, y \in Idx :
            tbl[mmuroot[p]][x] = tbl[mmuroot[p]][y] /\ tbl[mmuroot[p]][x] # Nil => x = y
       /\ \A t, u \in Level1(p) : \A x, y \in Idx :
            tbl[t][x] = tbl[u][y] /\ tbl[t][x] # Nil => t = u /\ x = y

(* The hart caches only what the tables satp names hold. *)
CacheOK ==
  \A e \in tlb : satp \in Page /\ e[2] = Translate(satp, e[1])

(* A running process has dropped what it was to drop and, but for its first  *)
(* table's satp, runs on its own tables.                                     *)
UpOK(p) ==
  up = p =>
    /\ ~newtlb[p]
    /\ pc[p] \notin {"satp", "satpset", "release"} =>
         satp = IF mmuroot[p] = Nil THEN Kernel ELSE mmuroot[p]

TreeInv ==
  /\ IInv
  /\ CacheOK
  /\ \A p \in Proc : TreeOK(p) /\ UpOK(p)

-----------------------------------------------------------------------------
(* The tables an address goes through, and what is at its end. *)
LEMMA Path ==
  ASSUME TypeOK, NEW p \in Proc, TreeOK(p), mmuroot[p] # Nil, NEW va \in VA
  PROVE  LET t1 == Entry(mmuroot[p], va[1])
             t0 == Entry(t1, va[2])
         IN /\ t1 = tbl[mmuroot[p]][va[1]]
            /\ \/ t1 = Nil /\ t0 = Nil /\ Translate(mmuroot[p], va) = Nil
               \/ /\ t1 \in Level1(p) /\ t0 = Nil /\ Translate(mmuroot[p], va) = Nil
                  /\ tbl[t1][va[2]] = Nil
               \/ /\ t1 \in Level1(p) /\ t0 \in Level0(p) /\ t0 = tbl[t1][va[2]]
                  /\ Translate(mmuroot[p], va) = tbl[t0][va[3]]
                  /\ tbl[t0][va[3]] \in Frame \union {Nil}
<1> DEFINE r == mmuroot[p]
           t1 == Entry(r, va[1])
           t0 == Entry(t1, va[2])
<1>1. va[1] \in Idx /\ va[2] \in Idx /\ va[3] \in Idx
  BY VAAssumption
<1>2. r \in Page /\ Nil \notin Page
  BY ValueAssumption DEF TypeOK
<1>3. t1 = tbl[r][va[1]] /\ t1 \in Level1(p) \union {Nil}
  BY <1>1, <1>2 DEF Entry, TreeOK, Level1
<1>4. CASE t1 = Nil
  BY <1>2, <1>3, <1>4 DEF Entry, Translate
<1>5. CASE t1 \in Level1(p)
  <2>1. t1 \in Page
    BY <1>5 DEF Level1
  <2>2. t0 = tbl[t1][va[2]] /\ t0 \in Level0(p) \union {Nil}
    BY <1>1, <1>2, <1>5, <2>1 DEF Entry, TreeOK, Level0
  <2>3. CASE t0 = Nil
    BY <1>2, <1>3, <1>5, <2>2, <2>3 DEF Entry, Translate
  <2>4. CASE t0 \in Level0(p)
    <3>1. t0 \in Page
      BY <2>4 DEF Level0
    <3>2. Translate(r, va) = tbl[t0][va[3]]
      BY <3>1 DEF Entry, Translate
    <3>3. tbl[t0][va[3]] \in Frame \union {Nil}
      BY <1>1, <1>2, <2>4 DEF TreeOK
    <3>4. QED
      BY <1>3, <1>5, <2>2, <2>4, <3>2, <3>3
  <2>5. QED
    BY <2>2, <2>3, <2>4
<1>6. QED
  BY <1>3, <1>4, <1>5

(* No table is named by two entries of the level above it. *)
LEMMA OneEntry ==
  ASSUME NEW p \in Proc, TreeOK(p), mmuroot[p] # Nil,
         NEW t \in Level1(p), NEW u \in Level1(p), NEW x \in Idx, NEW y \in Idx,
         tbl[t][x] = tbl[u][y], tbl[t][x] # Nil
  PROVE  t = u /\ x = y
BY DEF TreeOK

(* Without a table there is no translation. *)
LEMMA TranslateNil == ASSUME NEW va PROVE Translate(Nil, va) = Nil
BY ValueAssumption DEF Translate, Entry

(* What p sees at va, flushes aside. *)
Maps(p, va) == Translate(mmuroot[p], va)

(* A process whose tables no step touches keeps its tree and its addresses. *)
LEMMA TablesKept ==
  ASSUME TypeOK, NEW q \in Proc, TreeOK(q),
         mmuroot'[q] = mmuroot[q], mmuused'[q] = mmuused[q],
         \A t \in Page : t = mmuroot[q] \/ t \in mmuused[q] => tbl'[t] = tbl[t]
  PROVE  TreeOK(q)' /\ \A va \in VA : Maps(q, va)' = Maps(q, va)
<1>1. CASE mmuroot[q] = Nil
  <2>1. mmuroot'[q] = Nil
    BY <1>1
  <2>2. \A va \in VA : Maps(q, va) = Nil
    BY <1>1, TranslateNil DEF Maps
  <2>3. \A va \in VA : Maps(q, va)' = Nil
    BY <2>1, ValueAssumption DEF Maps, Translate, Entry
  <2>4. QED
    BY <1>1, <2>1, <2>2, <2>3 DEF TreeOK
<1>2. CASE mmuroot[q] # Nil
  <2>1. mmuroot[q] \in Page /\ tbl'[mmuroot[q]] = tbl[mmuroot[q]]
    BY <1>2 DEF TypeOK
  <2>2. Level1(q)' = Level1(q)
    BY <2>1 DEF Level1
  <2>3. \A t \in Level1(q) \union Level0(q) : t \in Page /\ tbl'[t] = tbl[t]
    BY <1>2 DEF TreeOK, Level1, Level0
  <2>4. Level0(q)' = Level0(q)
    BY <2>2, <2>3 DEF Level0
  <2>5. TreeOK(q)'
    BY <1>2, <2>1, <2>2, <2>3, <2>4 DEF TreeOK
  <2>6. ASSUME NEW va \in VA
        PROVE  Maps(q, va)' = Maps(q, va)
    <3> DEFINE t1 == Entry(mmuroot[q], va[1])
               t0 == Entry(t1, va[2])
    <3>1. \/ t1 = Nil /\ t0 = Nil
          \/ t1 \in Level1(q) /\ t0 = Nil
          \/ t1 \in Level1(q) /\ t0 \in Level0(q)
      BY <1>2, Path
    <3>2. t1' = t1
      BY <2>1 DEF Entry
    <3>3. t0' = t0
      BY <2>3, <3>1, <3>2, ValueAssumption DEF Entry
    <3>4. Entry(t0, va[3])' = Entry(t0, va[3])
      BY <2>3, <3>1, <3>3, ValueAssumption DEF Entry
    <3>5. QED
      BY <3>4 DEF Maps, Translate
  <2>7. QED
    BY <2>5, <2>6
<1>3. QED
  BY <1>1, <1>2

-----------------------------------------------------------------------------
(* A root whose entries are all invalid, over no tables, maps nothing. *)
LEMMA EmptyRoot ==
  ASSUME TypeOK', NEW p \in Proc, mmuused'[p] = {},
         mmuroot'[p] = Nil \/ tbl'[mmuroot'[p]] = EmptyTable
  PROVE  TreeOK(p)' /\ \A va \in VA : Maps(p, va)' = Nil
<1>1. Nil \notin Page
  BY ValueAssumption
<1>2. CASE mmuroot'[p] = Nil
  BY <1>1, <1>2 DEF TreeOK, Maps, Translate, Entry
<1>3. CASE mmuroot'[p] # Nil /\ tbl'[mmuroot'[p]] = EmptyTable
  <2>1. mmuroot'[p] \in Page
    BY <1>3 DEF TypeOK
  <2>2. \A x \in Idx : tbl'[mmuroot'[p]][x] = Nil
    BY <1>3 DEF EmptyTable
  <2>3. Level1(p)' = {} /\ Level0(p)' = {}
    BY <1>1, <2>2 DEF Level1, Level0
  <2>4. TreeOK(p)'
    BY <1>3, <2>2, <2>3 DEF TreeOK
  <2>5. \A va \in VA : Maps(p, va)' = Nil
    BY <1>1, <2>1, <2>2, VAAssumption DEF Maps, Translate, Entry
  <2>6. QED
    BY <2>4, <2>5
<1>4. QED
  BY <1>2, <1>3

(* mmurootalloc gives p an empty tree where it had none. *)
LEMMA TreeRootAlloc ==
  ASSUME TreeInv, TypeOK', NEW p \in Proc, RootAlloc(p), NEW q \in Proc
  PROVE  TreeOK(q)' /\ \A va \in VA : Maps(q, va)' = Maps(q, va)
<1> DEFINE pg == First(avail)
<1>1. TypeOK /\ PagesConserved /\ TreeOK(q) /\ TreeOK(p) /\ mmuroot[p] = Nil
  BY DEF TreeInv, IInv, ProcOK, RootAlloc, Runs
<1>2. pg \in avail /\ pg \in Page
  BY <1>1, FirstIn DEF RootAlloc, TypeOK
<1>3. /\ tbl' = [tbl EXCEPT ![pg] = EmptyTable]
      /\ mmuroot' = [mmuroot EXCEPT ![p] = pg]
      /\ mmuused' = mmuused
  BY DEF RootAlloc
<1>4. CASE q = p
  <2>1. mmuused'[p] = {} /\ mmuroot'[p] = pg /\ tbl'[pg] = EmptyTable
    BY <1>1, <1>2, <1>3 DEF TreeOK, TypeOK
  <2>2. \A va \in VA : Maps(p, va) = Nil
    BY <1>1, TranslateNil DEF Maps
  <2>3. QED
    BY <1>4, <2>1, <2>2, EmptyRoot
<1>5. CASE q # p
  <2>1. pg \notin Held(q)
    BY <1>1, <1>2 DEF PagesConserved
  <2>2. /\ mmuroot'[q] = mmuroot[q] /\ mmuused'[q] = mmuused[q]
        /\ \A t \in Page : t = mmuroot[q] \/ t \in mmuused[q] => tbl'[t] = tbl[t]
    BY <1>1, <1>2, <1>3, <1>5, <2>1, ValueAssumption DEF TypeOK, Held
  <2>3. QED
    BY <1>1, <2>2, TablesKept
<1>6. QED
  BY <1>4, <1>5

(* The walk links an empty table in: the tree grows, no address changes. *)
LEMMA TreeWalkLink ==
  ASSUME TreeInv, TypeOK', NEW p \in Proc, WalkLink(p), NEW q \in Proc
  PROVE  TreeOK(q)' /\ \A va \in VA : Maps(q, va)' = Maps(q, va)
<1> DEFINE r == mmuroot[p]
<1>1. TypeOK /\ PagesConserved /\ TreeOK(q) /\ TreeOK(p) /\ r # Nil /\ arg[p] \in VA \X Frame
  BY DEF TreeInv, IInv, ProcOK, WalkLink, Runs, Putting
<1>2. PICK pg \in Page :
        /\ pg = First(mmufree[p]) /\ pg \in mmufree[p]
        /\ pg \notin mmuused[p] /\ pg # r /\ r \in Page
  BY <1>1, FirstIn DEF WalkLink, TypeOK, PagesConserved
<1>3. PICK t \in Page, x \in Idx :
        /\ Missing(p, t, x)
        /\ mmuused' = [mmuused EXCEPT ![p] = @ \union {pg}]
        /\ tbl' = [[tbl EXCEPT ![pg] = EmptyTable] EXCEPT ![t][x] = pg]
  BY <1>2 DEF WalkLink
<1>4. mmuroot' = mmuroot
  BY DEF WalkLink, proc
<1>5. tbl[t][x] = Nil /\ (t = r \/ t \in Level1(p))
  <2>1. arg[p][1] \in VA
    BY <1>1
  <2>2. QED
    BY <1>1, <1>3, <2>1, Path DEF Missing
<1>6. Level1(p) \union Level0(p) = mmuused[p] /\ Level1(p) \intersect Level0(p) = {}
      /\ r \notin mmuused[p]
  BY <1>1 DEF TreeOK, PagesConserved
<1>7. t # pg
  BY <1>2, <1>5, <1>6
<1>8. /\ tbl'[pg] = EmptyTable
      /\ tbl'[t] = [tbl[t] EXCEPT ![x] = pg]
      /\ \A s \in Page \ {t, pg} : tbl'[s] = tbl[s]
  BY <1>1, <1>2, <1>3, <1>7 DEF TypeOK
<1>9. mmuused'[p] = mmuused[p] \union {pg}
  BY <1>1, <1>3 DEF TypeOK

<1>10. /\ tbl'[t][x] = pg /\ pg # Nil
       /\ \A y \in Idx \ {x} : tbl'[t][y] = tbl[t][y]
       /\ \A y \in Idx : tbl'[pg][y] = Nil
  BY <1>1, <1>2, <1>8, ValueAssumption DEF TypeOK, EmptyTable
<1>11. CASE q # p
  <2>1. Held(q) \intersect Held(p) = {} /\ pg \in Held(p) /\ t \in Held(p)
    BY <1>1, <1>2, <1>5, <1>6, <1>11 DEF PagesConserved, Held
  <2>2. \A s \in Page : s = mmuroot[q] \/ s \in mmuused[q] => tbl'[s] = tbl[s]
    BY <1>8, <2>1, ValueAssumption DEF Held
  <2>3. mmuroot'[q] = mmuroot[q] /\ mmuused'[q] = mmuused[q]
    BY <1>1, <1>3, <1>4, <1>11 DEF TypeOK
  <2>4. QED
    BY <1>1, <2>2, <2>3, TablesKept
<1>12. CASE t = r
  <2>1. \A s \in Level1(p) \union Level0(p) : s \in Page /\ s # r /\ s # pg /\ tbl'[s] = tbl[s]
    BY <1>2, <1>6, <1>8, <1>12 DEF Level1, Level0
  <2>2. Level1(p)' = Level1(p) \union {pg}
    BY <1>2, <1>4, <1>5, <1>10, <1>12, ValueAssumption DEF Level1
  <2>3. Level0(p)' = Level0(p)
    BY <1>10, <2>1, <2>2, ValueAssumption DEF Level0
  <2>4. TreeOK(p)'
    <3>1. \A y \in Idx : tbl'[r][y] \in Page \union {Nil}
      BY <1>1, <1>2, <1>10, <1>12 DEF TreeOK
    <3>2. \A s \in Level1(p)', y \in Idx : tbl'[s][y] \in Page \union {Nil}
      BY <1>1, <1>10, <2>1, <2>2 DEF TreeOK
    <3>3. \A s \in Level0(p)', y \in Idx : tbl'[s][y] \in Frame \union {Nil}
      BY <1>1, <2>1, <2>3 DEF TreeOK
    <3>4. \A y, z \in Idx : tbl'[r][y] = tbl'[r][z] /\ tbl'[r][y] # Nil => y = z
      <4>1. \A y \in Idx : tbl[r][y] # pg
        BY <1>2, <1>6 DEF Level1
      <4>2. QED
        BY <1>1, <1>10, <1>12, <4>1 DEF TreeOK
    <3>5. \A s, u \in Level1(p)' : \A y, z \in Idx :
            tbl'[s][y] = tbl'[u][z] /\ tbl'[s][y] # Nil => s = u /\ y = z
      BY <1>1, <1>10, <2>1, <2>2 DEF TreeOK
    <3>6. Level1(p)' \union Level0(p)' = mmuused'[p] /\ Level1(p)' \intersect Level0(p)' = {}
      BY <1>2, <1>6, <1>9, <2>2, <2>3
    <3>7. QED
      BY <1>1, <1>4, <3>1, <3>2, <3>3, <3>4, <3>5, <3>6 DEF TreeOK
  <2>5. ASSUME NEW va \in VA
        PROVE  Maps(p, va)' = Maps(p, va)
    <3> DEFINE t1 == Entry(r, va[1])
               t0 == Entry(t1, va[2])
    <3>1. va[1] \in Idx /\ va[2] \in Idx /\ va[3] \in Idx
      BY VAAssumption
    <3>2. \/ t1 = Nil /\ t0 = Nil /\ Maps(p, va) = Nil
          \/ /\ t1 \in Level1(p) /\ t0 = Nil /\ Maps(p, va) = Nil
          \/ /\ t1 \in Level1(p) /\ t0 \in Level0(p)
      BY <1>1, Path DEF Maps
    <3>3. CASE va[1] = x
      <4>1. Entry(r, va[1])' = pg /\ Maps(p, va) = Nil
        BY <1>2, <1>4, <1>5, <1>10, <1>12, <3>2, <3>3, ValueAssumption DEF Entry, Level1
      <4>2. Entry(pg, va[2])' = Nil
        BY <1>2, <1>10, <3>1 DEF Entry
      <4>3. QED
        BY <4>1, <4>2, ValueAssumption DEF Maps, Translate, Entry
    <3>4. CASE va[1] # x
      <4>1. t1' = t1
        BY <1>2, <1>4, <1>10, <1>12, <3>1, <3>4 DEF Entry
      <4>2. t0' = t0
        BY <2>1, <3>2, <4>1, ValueAssumption DEF Entry
      <4>3. Entry(t0, va[3])' = Entry(t0, va[3])
        BY <2>1, <3>2, <4>2, ValueAssumption DEF Entry
      <4>4. QED
        BY <4>3 DEF Maps, Translate
    <3>5. QED
      BY <3>3, <3>4
  <2>6. QED
    BY <1>11, <2>4, <2>5
<1>13. CASE t \in Level1(p)
  <2>1. /\ \A s \in Level0(p) : s \in Page /\ s # t /\ s # pg /\ tbl'[s] = tbl[s]
        /\ \A s \in Level1(p) \ {t} : s \in Page /\ s # pg /\ tbl'[s] = tbl[s]
        /\ tbl'[r] = tbl[r]
    BY <1>2, <1>6, <1>8, <1>13 DEF Level1, Level0
  <2>2. Level1(p)' = Level1(p)
    BY <1>4, <2>1 DEF Level1
  <2>3. Level0(p)' = Level0(p) \union {pg}
    BY <1>2, <1>5, <1>10, <1>13, <2>1, <2>2, ValueAssumption DEF Level0
  <2>4. TreeOK(p)'
    <3>1. \A y \in Idx : tbl'[r][y] \in Page \union {Nil}
      BY <1>1, <2>1 DEF TreeOK
    <3>2. \A s \in Level1(p)', y \in Idx : tbl'[s][y] \in Page \union {Nil}
      BY <1>1, <1>2, <1>10, <1>13, <2>1, <2>2 DEF TreeOK
    <3>3. \A s \in Level0(p)', y \in Idx : tbl'[s][y] \in Frame \union {Nil}
      BY <1>1, <1>10, <2>1, <2>3 DEF TreeOK
    <3>4. \A y, z \in Idx : tbl'[r][y] = tbl'[r][z] /\ tbl'[r][y] # Nil => y = z
      BY <1>1, <2>1 DEF TreeOK
    <3>5. \A s, u \in Level1(p)' : \A y, z \in Idx :
            tbl'[s][y] = tbl'[u][z] /\ tbl'[s][y] # Nil => s = u /\ y = z
      <4>1. \A s \in Level1(p), y \in Idx : tbl[s][y] # pg
        BY <1>2, <1>6 DEF Level0
      <4>2. QED
        BY <1>1, <1>10, <2>1, <2>2, <4>1 DEF TreeOK
    <3>6. Level1(p)' \union Level0(p)' = mmuused'[p] /\ Level1(p)' \intersect Level0(p)' = {}
      BY <1>2, <1>6, <1>9, <2>2, <2>3
    <3>7. QED
      BY <1>1, <1>4, <3>1, <3>2, <3>3, <3>4, <3>5, <3>6 DEF TreeOK
  <2>5. ASSUME NEW va \in VA
        PROVE  Maps(p, va)' = Maps(p, va)
    <3> DEFINE t1 == Entry(r, va[1])
               t0 == Entry(t1, va[2])
    <3>1. va[1] \in Idx /\ va[2] \in Idx /\ va[3] \in Idx
      BY VAAssumption
    <3>2. \/ t1 = Nil /\ t0 = Nil /\ Maps(p, va) = Nil
          \/ /\ t1 \in Level1(p) /\ t0 = Nil /\ Maps(p, va) = Nil
          \/ /\ t1 \in Level1(p) /\ t0 \in Level0(p)
             /\ t0 = tbl[t1][va[2]]
      BY <1>1, Path DEF Maps
    <3>3. t1' = t1
      BY <1>4, <2>1 DEF Entry
    <3>4. CASE t1 = t /\ va[2] = x
      <4>1. t0' = pg /\ Maps(p, va) = Nil
        BY <1>5, <1>10, <3>2, <3>3, <3>4, ValueAssumption DEF Entry, Level0
      <4>2. Entry(pg, va[3])' = Nil
        BY <1>2, <1>10, <3>1 DEF Entry
      <4>3. QED
        BY <4>1, <4>2 DEF Maps, Translate
    <3>5. CASE ~(t1 = t /\ va[2] = x)
      <4>1. t0' = t0
        <5>1. CASE t1 = Nil
          BY <3>3, <5>1, ValueAssumption DEF Entry
        <5>2. CASE t1 \in Level1(p)
          <6>1. t1 \in Page /\ tbl'[t1][va[2]] = tbl[t1][va[2]]
            BY <1>10, <2>1, <3>1, <3>5, <5>2 DEF Level1
          <6>2. QED
            BY <3>3, <6>1 DEF Entry
        <5>3. QED
          BY <3>2, <5>1, <5>2
      <4>2. Entry(t0, va[3])' = Entry(t0, va[3])
        BY <2>1, <3>2, <4>1, ValueAssumption DEF Entry
      <4>3. QED
        BY <4>2 DEF Maps, Translate
    <3>6. QED
      BY <3>4, <3>5
  <2>6. QED
    BY <1>11, <2>4, <2>5
<1>14. QED
  BY <1>5, <1>12, <1>13

(* The leaf: one address of one process changes. *)
LEMMA TreePutLeaf ==
  ASSUME TreeInv, TypeOK', NEW p \in Proc, PutLeaf(p), NEW q \in Proc
  PROVE  /\ TreeOK(q)'
         /\ arg[p][1] \in VA /\ arg[p][2] \in Frame
         /\ \A va \in VA :
              Maps(q, va)' = IF q = p /\ va = arg[p][1] THEN arg[p][2] ELSE Maps(q, va)
<1> DEFINE r == mmuroot[p]
<1>1. TypeOK /\ PagesConserved /\ TreeOK(q) /\ TreeOK(p) /\ r # Nil /\ arg[p] \in VA \X Frame
  BY DEF TreeInv, IInv, ProcOK, PutLeaf, Runs, Putting
<1>2. PICK wa \in VA, f \in Frame : arg[p] = <<wa, f>>
  BY <1>1
<1>3. wa[1] \in Idx /\ wa[2] \in Idx /\ wa[3] \in Idx /\ r \in Page
  BY <1>1, VAAssumption DEF TypeOK
<1>4. PICK l1 \in Page, l0 \in Page :
        /\ l1 \in Level1(p) /\ l0 \in Level0(p)
        /\ l1 = tbl[r][wa[1]] /\ l0 = tbl[l1][wa[2]]
        /\ tbl' = [tbl EXCEPT ![l0][wa[3]] = f]
  <2> DEFINE t1 == Entry(r, wa[1])
             t0 == Entry(t1, wa[2])
  <2>1. ~Missing(p, r, wa[1]) /\ (t1 \in Page => ~Missing(p, t1, wa[2]))
    BY <1>3 DEF PutLeaf, Walked
  <2>2. t1 # Nil /\ t0 # Nil
    <3>1. t1 # Nil
      BY <1>2, <2>1 DEF Missing
    <3>2. t1 \in Page
      BY <1>1, <3>1, Path DEF Level1
    <3>3. QED
      BY <1>2, <2>1, <3>1, <3>2 DEF Missing
  <2>3. t1 \in Level1(p) /\ t0 \in Level0(p) /\ t1 = tbl[r][wa[1]] /\ t0 = tbl[t1][wa[2]]
    BY <1>1, <2>2, Path
  <2>4. t1 \in Page /\ t0 \in Page
    BY <2>3 DEF Level1, Level0
  <2>5. tbl' = [tbl EXCEPT ![t0][wa[3]] = f]
    BY <1>2 DEF PutLeaf
  <2>6. QED
    BY <2>3, <2>4, <2>5
<1>5. UNCHANGED <<mmuroot, mmuused>>
  BY DEF PutLeaf, proc, lists
<1>6. Level1(p) \union Level0(p) = mmuused[p] /\ Level1(p) \intersect Level0(p) = {}
      /\ r \notin mmuused[p]
  BY <1>1 DEF TreeOK, PagesConserved
<1>7. /\ tbl'[l0][wa[3]] = f
      /\ \A y \in Idx \ {wa[3]} : tbl'[l0][y] = tbl[l0][y]
      /\ \A s \in Page \ {l0} : tbl'[s] = tbl[s]
  <2>1. tbl'[l0] = [tbl[l0] EXCEPT ![wa[3]] = f] /\ \A s \in Page \ {l0} : tbl'[s] = tbl[s]
    BY <1>1, <1>4 DEF TypeOK
  <2>2. DOMAIN tbl[l0] = Idx
    BY <1>1, <1>4 DEF TypeOK
  <2>3. QED
    BY <1>3, <2>1, <2>2
<1>8. CASE q # p
  <2>1. Held(q) \intersect Held(p) = {} /\ l0 \in Held(p)
    BY <1>1, <1>4, <1>6, <1>8 DEF PagesConserved, Held
  <2>2. \A s \in Page : s = mmuroot[q] \/ s \in mmuused[q] => tbl'[s] = tbl[s]
    BY <1>7, <2>1, ValueAssumption DEF Held
  <2>3. QED
    BY <1>1, <1>2, <1>5, <1>8, <2>2, TablesKept
<1>9. CASE q = p
  <2>1. tbl'[r] = tbl[r] /\ \A s \in Level1(p) : s \in Page /\ tbl'[s] = tbl[s]
    <3>1. r # l0 /\ l0 \notin Level1(p)
      BY <1>4, <1>6
    <3>2. Level1(p) \subseteq Page
      BY DEF Level1
    <3>3. QED
      BY <1>3, <1>7, <3>1, <3>2
  <2>2. Level1(p)' = Level1(p) /\ Level0(p)' = Level0(p)
    BY <1>5, <2>1 DEF Level1, Level0
  <2>3. TreeOK(p)'
    <3>1. \A s \in Level0(p), y \in Idx : tbl'[s][y] \in Frame \union {Nil}
      BY <1>1, <1>7 DEF TreeOK, Level0
    <3>2. QED
      BY <1>1, <1>5, <2>1, <2>2, <3>1 DEF TreeOK
  <2>4. ASSUME NEW va \in VA
        PROVE  Maps(p, va)' = IF va = wa THEN f ELSE Maps(p, va)
    <3> DEFINE t1 == Entry(r, va[1])
               t0 == Entry(t1, va[2])
    <3>1. va[1] \in Idx /\ va[2] \in Idx /\ va[3] \in Idx
      BY VAAssumption
    <3>2. \/ t1 = Nil /\ t0 = Nil /\ Maps(p, va) = Nil
          \/ /\ t1 \in Level1(p) /\ t0 = Nil /\ Maps(p, va) = Nil
          \/ /\ t1 \in Level1(p) /\ t0 \in Level0(p)
             /\ t0 = tbl[t1][va[2]]
      BY <1>1, Path DEF Maps
    <3>3. t1 = tbl[r][va[1]] /\ t1' = t1
      BY <1>3, <1>5, <2>1 DEF Entry
    <3>4. t0' = t0
      BY <2>1, <3>2, <3>3, ValueAssumption DEF Entry
    <3>5. CASE t0 = l0 /\ va[3] = wa[3]
      <4>1. va[1] = wa[1] /\ va[2] = wa[2]
        <5>1. t1 \in Level1(p) /\ tbl[t1][va[2]] = tbl[l1][wa[2]] /\ tbl[t1][va[2]] # Nil
          BY <1>4, <3>2, <3>5, ValueAssumption
        <5>2. t1 = l1 /\ va[2] = wa[2]
          <6>1. l1 \in Level1(p) /\ va[2] \in Idx /\ wa[2] \in Idx
            BY <1>3, <1>4, <3>1
          <6> HIDE DEF t1
          <6>2. QED
            BY <1>1, <5>1, <6>1, OneEntry
        <5>3. va[1] = wa[1]
          <6>1. \A x, y \in Idx : tbl[r][x] = tbl[r][y] /\ tbl[r][x] # Nil => x = y
            BY <1>1 DEF TreeOK
          <6>2. tbl[r][va[1]] = tbl[r][wa[1]] /\ tbl[r][va[1]] # Nil
            BY <1>4, <3>3, <5>2, ValueAssumption
          <6>3. QED
            BY <1>3, <3>1, <6>1, <6>2
        <5>4. QED
          BY <5>2, <5>3
      <4>2. va = wa
        BY <3>5, <4>1, VAAssumption
      <4>3. Entry(t0, va[3])' = f
        <5>1. Entry(t0, va[3])' = tbl'[l0][wa[3]]
          BY <1>4, <3>4, <3>5 DEF Entry
        <5>2. QED
          BY <1>7, <5>1
      <4>4. QED
        BY <4>2, <4>3 DEF Maps, Translate
    <3>6. CASE ~(t0 = l0 /\ va[3] = wa[3])
      <4>1. va # wa
        <5>1. va = wa => t1 = l1 /\ l1 # Nil
          BY <1>4, <3>3, ValueAssumption
        <5>2. va = wa => t0 = l0
          BY <1>4, <5>1, ValueAssumption DEF Entry
        <5>3. QED
          BY <3>6, <5>2
      <4>2. Entry(t0, va[3])' = Entry(t0, va[3])
        <5>1. t0 \in Page => tbl'[t0][va[3]] = tbl[t0][va[3]]
          BY <1>7, <3>1, <3>6
        <5> HIDE DEF t0
        <5>2. QED
          BY <3>4, <5>1 DEF Entry
      <4>3. QED
        BY <4>1, <4>2 DEF Maps, Translate
    <3>7. QED
      BY <3>5, <3>6
  <2>5. QED
    BY <1>2, <1>9, <2>3, <2>4
<1>10. QED
  BY <1>8, <1>9

(* mmuswitch: a pending flush empties p's tree; nothing else does. *)
LEMMA TreeMmuswitch ==
  ASSUME TreeInv, TypeOK', NEW p \in Proc, NEW nt \in BOOLEAN, Mmuswitch(p, nt),
         UNCHANGED mmuroot, NEW q \in Proc
  PROVE  /\ TreeOK(q)'
         /\ \A va \in VA : Maps(q, va)' = IF q = p /\ nt THEN Nil ELSE Maps(q, va)
<1>1. TypeOK /\ PagesConserved /\ TreeOK(q) /\ TreeOK(p)
  BY DEF TreeInv, IInv
<1>2. CASE mmuroot[p] = Nil \/ ~nt
  <2>1. UNCHANGED <<lists, tables>>
    BY <1>2 DEF Mmuswitch
  <2>2. TreeOK(q)' /\ \A va \in VA : Maps(q, va)' = Maps(q, va)
    BY <1>1, <2>1, TablesKept DEF lists, tables
  <2>3. mmuroot[p] = Nil => \A va \in VA : Maps(p, va) = Nil
    BY TranslateNil DEF Maps
  <2>4. QED
    BY <1>2, <2>2, <2>3
<1>3. CASE mmuroot[p] # Nil /\ nt
  <2>1. /\ mmuused' = [mmuused EXCEPT ![p] = {}]
        /\ tbl' = [pg \in Page |-> CASE pg = mmuroot[p]   -> EmptyTable
                                     [] pg \in mmuused[p] -> JunkTable
                                     [] OTHER             -> tbl[pg]]
    BY <1>3 DEF Mmuswitch, Mmufree
  <2>2. mmuroot[p] \in Page /\ mmuroot[p] \notin mmuused[p]
    BY <1>1, <1>3 DEF TypeOK, PagesConserved
  <2>3. CASE q = p
    <3>1. mmuused'[p] = {} /\ tbl'[mmuroot'[p]] = EmptyTable
      BY <1>1, <2>1, <2>2 DEF TypeOK
    <3>2. QED
      BY <1>3, <2>3, <3>1, EmptyRoot
  <2>4. CASE q # p
    <3>1. Held(q) \intersect Held(p) = {}
      BY <1>1, <2>4 DEF PagesConserved
    <3>2. /\ mmuroot'[q] = mmuroot[q] /\ mmuused'[q] = mmuused[q]
          /\ \A t \in Page : t = mmuroot[q] \/ t \in mmuused[q] => tbl'[t] = tbl[t]
      BY <1>1, <1>3, <2>1, <2>2, <2>4, <3>1, ValueAssumption DEF TypeOK, Held
    <3>3. QED
      BY <1>1, <2>4, <3>2, TablesKept
  <2>5. QED
    BY <2>3, <2>4
<1>4. QED
  BY <1>2, <1>3

(* mmurelease leaves p without a tree and every other as it was. *)
LEMMA TreeRelease ==
  ASSUME TreeInv, TypeOK', NEW p \in Proc, Release(p), NEW q \in Proc
  PROVE  /\ TreeOK(q)'
         /\ \A va \in VA : Maps(q, va)' = IF q = p THEN Nil ELSE Maps(q, va)
<1>1. TypeOK /\ PagesConserved /\ TreeOK(q)
  BY DEF TreeInv, IInv
<1>2. /\ mmuused' = [mmuused EXCEPT ![p] = {}] /\ mmuroot' = [mmuroot EXCEPT ![p] = Nil]
      /\ tbl' = [pg \in Page |-> IF pg \in Held(p) THEN JunkTable ELSE tbl[pg]]
  BY DEF Release, Held
<1>3. CASE q = p
  <2>1. mmuused'[p] = {} /\ mmuroot'[p] = Nil
    BY <1>1, <1>2 DEF TypeOK
  <2>2. QED
    BY <1>3, <2>1, EmptyRoot
<1>4. CASE q # p
  <2>1. Held(q) \intersect Held(p) = {}
    BY <1>1, <1>4 DEF PagesConserved
  <2>2. /\ mmuroot'[q] = mmuroot[q] /\ mmuused'[q] = mmuused[q]
        /\ \A t \in Page : t = mmuroot[q] \/ t \in mmuused[q] => tbl'[t] = tbl[t]
    BY <1>1, <1>2, <1>4, <2>1, ValueAssumption DEF TypeOK, Held
  <2>3. QED
    BY <1>1, <1>4, <2>2, TablesKept
<1>5. QED
  BY <1>3, <1>4

(* The other steps do not touch a table in use. *)
Idles(p) ==
  \/ Start(p) \/ Enter(p) \/ Return(p) \/ RootSatp(p) \/ RootLive(p)
  \/ WalkNil(p) \/ Refill(p) \/ SwitchOut(p) \/ ReleaseSwitch(p)
  \/ \E va \in VA, f \in Frame : Putmmu(p, va, f)

(* Such a step, the pager and the hart leave every tree and translation. *)
LEMMA TreeIdles ==
  ASSUME TreeInv, NEW p \in Proc, NEW q \in Proc,
         Idles(p) \/ Invalidate(p) \/ SwitchKproc \/ (\E va \in VA : Fill(va))
                  \/ UNCHANGED vars
  PROVE  TreeOK(q)' /\ \A va \in VA : Maps(q, va)' = Maps(q, va)
<1>1. UNCHANGED <<mmuroot, mmuused, tbl>>
  BY DEF Idles, Start, Enter, Return, RootSatp, RootLive, WalkNil, Refill, SwitchOut,
         ReleaseSwitch, Putmmu, Invalidate, SwitchKproc, Fill, vars, proc, lists, tables
<1>2. QED
  BY <1>1, TablesKept DEF TreeInv, IInv


-----------------------------------------------------------------------------
(* No process has tables, is up or has anything cached at first. *)
LEMMA InitTreeInv == Init => TreeInv
<1> SUFFICES ASSUME Init PROVE TreeInv
  OBVIOUS
<1>1. IInv
  BY InitIInv
<1>2. CacheOK
  BY DEF Init, CacheOK
<1>3. \A p \in Proc : TreeOK(p) /\ UpOK(p)
  BY NoProcAssumption DEF Init, TreeOK, UpOK
<1>4. QED
  BY <1>1, <1>2, <1>3 DEF TreeInv

(* Steps that leave the hart alone, and every address where it was. *)
Quiet(p) ==
  \/ Start(p) \/ Enter(p) \/ Return(p) \/ RootSatp(p)
  \/ WalkNil(p) \/ Refill(p) \/ SwitchOut(p) \/ Invalidate(p)
  \/ \E va \in VA, f \in Frame : Putmmu(p, va, f)

(* No step changes a translation under a hart that caches it: what rewrites  *)
(* the tables satp names fences, too.                                        *)
LEMMA StepCacheOK ==
  ASSUME TreeInv, [Next]_vars, TypeOK'
  PROVE  CacheOK'
<1> USE DEF TreeInv, IInv
<1>1. CASE tlb' = {}
  BY <1>1 DEF CacheOK
<1>2. ASSUME UNCHANGED hart,
             \A q \in Proc, va \in VA : Maps(q, va)' = Maps(q, va),
             \A q \in Proc : mmuroot[q] # Nil => mmuroot'[q] = mmuroot[q]
      PROVE  CacheOK'
  <2> SUFFICES ASSUME NEW e \in tlb
               PROVE  satp' \in Page /\ e[2] = Translate(satp, e[1])'
    BY <1>2 DEF CacheOK, hart
  <2>1. satp \in Page /\ e[1] \in VA /\ e[2] = Translate(satp, e[1])
    BY DEF CacheOK, TypeOK
  <2>2. PICK q \in Proc : mmuroot[q] = satp
    BY <2>1, ValueAssumption DEF SatpLive
  <2>3. mmuroot'[q] = satp' /\ satp' = satp
    BY <1>2, <2>1, <2>2, ValueAssumption DEF hart
  <2>4. Maps(q, e[1])' = Maps(q, e[1])
    BY <1>2, <2>1
  <2>5. QED
    BY <2>1, <2>2, <2>3, <2>4 DEF Maps
<1>3. CASE UNCHANGED vars
  BY <1>2, <1>3, TreeIdles DEF vars, proc
<1>4. ASSUME NEW p \in Proc, Quiet(p)
      PROVE  CacheOK'
  <2>1. UNCHANGED <<mmuroot, hart>>
    BY <1>4 DEF Quiet, Start, Enter, Return, RootSatp, WalkNil, Refill, SwitchOut,
                Invalidate, Putmmu, proc
  <2>2. Idles(p) \/ Invalidate(p)
    BY <1>4 DEF Quiet, Idles
  <2>3. QED
    BY <1>2, <2>1, <2>2, TreeIdles
<1>5. ASSUME NEW p \in Proc, RootAlloc(p)
      PROVE  CacheOK'
  <2>1. mmuroot[p] = Nil /\ UNCHANGED hart
    BY <1>5 DEF RootAlloc, Runs, ProcOK
  <2>2. \A q \in Proc : mmuroot[q] # Nil => mmuroot'[q] = mmuroot[q]
    BY <1>5, <2>1 DEF RootAlloc, TypeOK
  <2>3. QED
    BY <1>2, <1>5, <2>1, <2>2, TreeRootAlloc
<1>6. ASSUME NEW p \in Proc, WalkLink(p)
      PROVE  CacheOK'
  BY <1>2, <1>6, TreeWalkLink DEF WalkLink, proc
<1>7. ASSUME NEW p \in Proc, RootLive(p) \/ PutLeaf(p) \/ ReleaseSwitch(p)
      PROVE  tlb' = {}
  BY <1>7 DEF RootLive, PutLeaf, ReleaseSwitch, SatpSet
<1>8. ASSUME NEW p \in Proc, Flushmmu(p) \/ SwitchIn(p)
      PROVE  tlb' = {}
  BY <1>8 DEF Flushmmu, SwitchIn, Mmuswitch, SatpSet
<1>9. ASSUME NEW p \in Proc, Release(p)
      PROVE  CacheOK'
  <2>1. satp = Kernel /\ UNCHANGED hart
    BY <1>9 DEF Release, Runs, ProcOK
  <2>2. tlb = {}
    BY <2>1, ValueAssumption DEF CacheOK
  <2>3. QED
    BY <1>1, <2>1, <2>2 DEF hart
<1>10. ASSUME NEW va \in VA, Fill(va)
       PROVE  CacheOK'
  <2>1. satp \in Page /\ satp' = satp /\ tbl' = tbl
    BY <1>10 DEF Fill, tables
  <2>2. \A r, wa : Translate(r, wa)' = Translate(r, wa)
    BY <2>1 DEF Translate, Entry
  <2>3. \A e \in tlb' : e \in tlb \/ e = <<va, Translate(satp, va)>>
    BY <1>10 DEF Fill
  <2>4. QED
    BY <2>1, <2>2, <2>3 DEF CacheOK
<1>11. SwitchKproc => tlb' = {}
  BY DEF SwitchKproc, SatpSet
<1>12. QED
  BY <1>1, <1>3, <1>4, <1>5, <1>6, <1>7, <1>8, <1>9, <1>10, <1>11
     DEF Next, PutStep, Quiet

(* A process comes up with its flush done and on its own tables. *)
LEMMA StepUpOK ==
  ASSUME TreeInv, [Next]_vars, NEW q \in Proc
  PROVE  UpOK(q)'
<1> USE NoProcAssumption DEF TreeInv, IInv, UpOK, Runs, Goes
<1>1. CASE UNCHANGED vars
  BY <1>1 DEF vars, proc, hart
<1>2. ASSUME NEW p \in Proc,
             \/ Start(p) \/ Enter(p) \/ Return(p) \/ WalkNil(p) \/ Refill(p)
             \/ SwitchOut(p) \/ Invalidate(p) \/ WalkLink(p)
      PROVE  UpOK(q)'
  BY <1>2 DEF Start, Enter, Return, WalkNil, Refill, SwitchOut, Invalidate, WalkLink,
              proc, hart, TypeOK, ProcOK
<1>3. ASSUME NEW p \in Proc, RootAlloc(p) \/ RootSatp(p) \/ PutLeaf(p) \/ ReleaseSwitch(p)
      PROVE  UpOK(q)'
  BY <1>3 DEF RootAlloc, RootSatp, PutLeaf, ReleaseSwitch, proc, hart, TypeOK
<1>4. ASSUME NEW p \in Proc, NEW va \in VA, NEW f \in Frame, Putmmu(p, va, f)
      PROVE  UpOK(q)'
  BY <1>4 DEF Putmmu, proc, hart, TypeOK
<1>5. ASSUME NEW p \in Proc, RootLive(p)
      PROVE  UpOK(q)'
  BY <1>5 DEF RootLive, SatpSet, proc, TypeOK, ProcOK, Putting
<1>6. ASSUME NEW p \in Proc, Flushmmu(p) \/ SwitchIn(p)
      PROVE  UpOK(q)'
  <2>1. up' = p /\ UNCHANGED <<pc, mmuroot>> /\ pc[p] # "release"
    BY <1>6 DEF Flushmmu, SwitchIn, Preemptible, Putting
  <2>2. PICK nt \in BOOLEAN : Mmuswitch(p, nt)
    BY <1>6 DEF Flushmmu, SwitchIn, TypeOK
  <2>3. newtlb'[p] = FALSE /\ satp' = IF mmuroot[p] = Nil THEN Kernel ELSE psatp[p]
    BY <2>2 DEF Mmuswitch, SatpSet, TypeOK
  <2>4. pc[p] # "satp" => satp' = IF mmuroot[p] = Nil THEN Kernel ELSE mmuroot[p]
    BY <2>3 DEF ProcOK
  <2>5. QED
    BY <2>1, <2>3, <2>4
<1>7. ASSUME NEW p \in Proc, Release(p)
      PROVE  UpOK(q)'
  BY <1>7 DEF Release
<1>8. ASSUME NEW va \in VA, Fill(va)
      PROVE  UpOK(q)'
  BY <1>8 DEF Fill, proc
<1>9. SwitchKproc => UpOK(q)'
  BY DEF SwitchKproc
<1>10. QED
  BY <1>1, <1>2, <1>3, <1>4, <1>5, <1>6, <1>7, <1>8, <1>9 DEF Next, PutStep

(* Every step keeps q's tree, whoever takes it. *)
LEMMA StepTreeOK ==
  ASSUME TreeInv, [Next]_vars, TypeOK', NEW q \in Proc
  PROVE  TreeOK(q)'
<1>1. ASSUME NEW p \in Proc, Flushmmu(p) \/ SwitchIn(p)
      PROVE  TreeOK(q)'
  <2>1. PICK nt \in BOOLEAN : Mmuswitch(p, nt)
    BY <1>1 DEF Flushmmu, SwitchIn, TypeOK, TreeInv, IInv
  <2>2. UNCHANGED mmuroot
    BY <1>1 DEF Flushmmu, SwitchIn
  <2>3. QED
    BY <2>1, <2>2, TreeMmuswitch
<1>2. \A p \in Proc : RootAlloc(p) \/ WalkLink(p) \/ PutLeaf(p) \/ Release(p) => TreeOK(q)'
  BY TreeRootAlloc, TreeWalkLink, TreePutLeaf, TreeRelease
<1>3. \A p \in Proc : Idles(p) \/ Invalidate(p) => TreeOK(q)'
  BY TreeIdles
<1>4. SwitchKproc \/ (\E va \in VA : Fill(va)) \/ UNCHANGED vars => TreeOK(q)'
  BY TreeIdles
<1>5. QED
  BY <1>1, <1>2, <1>3, <1>4 DEF Next, PutStep, Idles

(* Every step keeps the trees and what the TLB and satp know of them. *)
LEMMA StepTreeInv == TreeInv /\ [Next]_vars => TreeInv'
<1> SUFFICES ASSUME TreeInv, [Next]_vars PROVE TreeInv'
  OBVIOUS
<1>1. IInv'
  BY StepTypeOK, StepPagesConserved, StepSatpLive, StepProcOK DEF IInv, TreeInv
<1>2. TypeOK'
  BY <1>1 DEF IInv
<1>3. QED
  BY <1>1, <1>2, StepCacheOK, StepUpOK, StepTreeOK DEF TreeInv

(* So the invariant always holds. *)
LEMMA TreeInvariance == Spec => []TreeInv
BY InitTreeInv, StepTreeInv, PTL DEF Spec


-----------------------------------------------------------------------------
(* A process's tree is exactly its used list, and every address ends in a    *)
(* frame or in nothing (mmuwalk, putmmu, mmufree), for any table size.       *)
THEOREM TreeIsUsedHolds == Spec => []TreeIsUsed
<1>1. TreeInv => TreeIsUsed
  <2> SUFFICES ASSUME TreeInv, NEW p \in Proc
               PROVE  /\ Tree(p) = mmuused[p]
                      /\ \A va \in VA : Translate(mmuroot[p], va) \in Frame \union {Nil}
    BY DEF TreeIsUsed
  <2>1. TypeOK /\ TreeOK(p)
    BY DEF TreeInv, IInv
  <2>2. CASE mmuroot[p] = Nil
    BY <2>1, <2>2, TranslateNil DEF TreeOK, Tree
  <2>3. CASE mmuroot[p] # Nil
    <3>1. Children(mmuroot[p]) = Level1(p)
      BY DEF Children, Level1
    <3>2. UNION {Children(t) : t \in Level1(p)} = Level0(p)
      BY DEF Children, Level0
    <3>3. Tree(p) = mmuused[p]
      BY <2>1, <2>3, <3>1, <3>2 DEF Tree, TreeOK
    <3>4. \A va \in VA : Translate(mmuroot[p], va) \in Frame \union {Nil}
      BY <2>1, <2>3, Path
    <3>5. QED
      BY <3>3, <3>4
  <2>4. QED
    BY <2>2, <2>3
<1>2. QED
  BY TreeInvariance, <1>1, PTL

(* In user mode the hart has cached nothing but what p's tables hold now,    *)
(* and p owes nobody a flush (satpset, putmmu, flushmmu, mmuswitch).         *)
THEOREM TlbCoherentHolds == Spec => []TlbCoherent
<1>1. TreeInv => TlbCoherent
  <2> SUFFICES ASSUME TreeInv, NEW p \in Proc, Runs(p, "user")
               PROVE  /\ ~newtlb[p]
                      /\ satp = IF mmuroot[p] = Nil THEN Kernel ELSE mmuroot[p]
                      /\ \A e \in tlb : e[2] = Translate(mmuroot[p], e[1])
    BY DEF TlbCoherent
  <2>1. ~newtlb[p] /\ satp = IF mmuroot[p] = Nil THEN Kernel ELSE mmuroot[p]
    BY DEF TreeInv, UpOK, Runs
  <2>2. \A e \in tlb : satp = mmuroot[p] /\ e[2] = Translate(satp, e[1])
    BY <2>1, ValueAssumption DEF TreeInv, CacheOK
  <2>3. QED
    BY <2>1, <2>2
<1>2. QED
  BY TreeInvariance, <1>1, PTL

-----------------------------------------------------------------------------
(* The address space p sees, by address. *)
SeenAt(p, va) == IF newtlb[p] THEN Nil ELSE Maps(p, va)

(* The refinement mapping, an address at a time. *)
LEMMA SeenIs == Seen = [p \in Proc |-> [va \in VA |-> SeenAt(p, va)]]
BY DEF Seen, SeenAt, Maps

(* If no address is seen otherwise, AddrSpace stutters. *)
LEMMA SeenKept ==
  ASSUME \A q \in Proc, va \in VA : SeenAt(q, va)' = SeenAt(q, va)
  PROVE  Seen' = Seen
<1>1. Seen' = [p \in Proc |-> [va \in VA |-> SeenAt(p, va)']]
  BY DEF Seen, SeenAt, Maps
<1>2. QED
  BY <1>1, SeenIs

(* If p sees nothing any more, AddrSpace empties p. *)
LEMMA SeenEmptied ==
  ASSUME NEW p \in Proc,
         \A q \in Proc, va \in VA : SeenAt(q, va)' = IF q = p THEN Nil ELSE SeenAt(q, va)
  PROVE  AS!Empty(p)
<1>1. Seen' = [q \in Proc |-> [va \in VA |-> SeenAt(q, va)']]
  BY DEF Seen, SeenAt, Maps
<1>2. Seen' = [Seen EXCEPT ![p] = [va \in VA |-> Nil]]
  BY <1>1, SeenIs
<1>3. QED
  BY <1>2 DEF AS!Empty, AS!Unmapped

(* If p sees wa at f and nothing else changes, AddrSpace puts it there. *)
LEMMA SeenPut ==
  ASSUME NEW p \in Proc, NEW wa \in VA, NEW f \in Frame,
         \A q \in Proc, va \in VA :
           SeenAt(q, va)' = IF q = p /\ va = wa THEN f ELSE SeenAt(q, va)
  PROVE  AS!Put(p, wa, f)
<1>1. Seen' = [q \in Proc |-> [va \in VA |-> SeenAt(q, va)']]
  BY DEF Seen, SeenAt, Maps
<1>2. Seen' = [Seen EXCEPT ![p][wa] = f]
  BY <1>1, SeenIs
<1>3. QED
  BY <1>2 DEF AS!Put

(* What a process sees of its addresses, and the others of theirs: no step   *)
(* but these three changes it.                                               *)
LEMMA SeenAtPut ==
  ASSUME TreeInv, TypeOK', NEW p \in Proc, PutLeaf(p)
  PROVE  /\ arg[p] \in VA \X Frame
         /\ \A q \in Proc, va \in VA :
              SeenAt(q, va)' = IF q = p /\ va = arg[p][1] THEN arg[p][2] ELSE SeenAt(q, va)
<1>1. arg[p] \in VA \X Frame
  BY DEF TreeInv, IInv, ProcOK, PutLeaf, Runs
<1>2. ~newtlb[p] /\ UNCHANGED newtlb
  BY DEF TreeInv, PutLeaf, UpOK, Runs, proc
<1>3. QED
  BY <1>1, <1>2, TreePutLeaf DEF SeenAt

(* A flush, the pager and an exit leave p with nothing. *)
LEMMA SeenAtEmptied ==
  ASSUME TreeInv, TypeOK', NEW p \in Proc, Flushmmu(p) \/ Invalidate(p) \/ Release(p)
  PROVE  \A q \in Proc, va \in VA : SeenAt(q, va)' = IF q = p THEN Nil ELSE SeenAt(q, va)
<1> TypeOK
  BY DEF TreeInv, IInv
<1>1. CASE Flushmmu(p)
  <2>1. Mmuswitch(p, TRUE) /\ UNCHANGED mmuroot
    BY <1>1 DEF Flushmmu
  <2>2. \A q \in Proc, va \in VA : Maps(q, va)' = IF q = p THEN Nil ELSE Maps(q, va)
    BY <2>1, TreeMmuswitch
  <2>3. newtlb' = [newtlb EXCEPT ![p] = FALSE]
    BY <2>1 DEF Mmuswitch
  <2>4. QED
    BY <2>2, <2>3 DEF SeenAt, TypeOK
<1>2. CASE Invalidate(p)
  <2>1. \A q \in Proc, va \in VA : Maps(q, va)' = Maps(q, va)
    BY <1>2, TreeIdles
  <2>2. newtlb' = [newtlb EXCEPT ![p] = TRUE]
    BY <1>2 DEF Invalidate
  <2>3. QED
    BY <2>1, <2>2 DEF SeenAt, TypeOK
<1>3. CASE Release(p)
  <2>1. \A q \in Proc, va \in VA : Maps(q, va)' = IF q = p THEN Nil ELSE Maps(q, va)
    BY <1>3, TreeRelease
  <2>2. UNCHANGED newtlb
    BY <1>3 DEF Release
  <2>3. QED
    BY <2>1, <2>2 DEF SeenAt
<1>4. QED
  BY <1>1, <1>2, <1>3

(* Steps that show nobody anything new. *)
Hides(p) == Idles(p) \/ RootAlloc(p) \/ WalkLink(p) \/ SwitchIn(p)

(* No other step but putmmu's store changes what anyone sees. *)
LEMMA SeenAtKept ==
  ASSUME TreeInv, TypeOK', NEW p \in Proc,
         Hides(p) \/ SwitchKproc \/ (\E va \in VA : Fill(va)) \/ UNCHANGED vars
  PROVE  \A q \in Proc, va \in VA : SeenAt(q, va)' = SeenAt(q, va)
<1> TypeOK
  BY DEF TreeInv, IInv
<1>1. CASE Idles(p) \/ SwitchKproc \/ (\E va \in VA : Fill(va)) \/ UNCHANGED vars
  <2>1. UNCHANGED newtlb
    BY <1>1 DEF Idles, Start, Enter, Return, RootSatp, RootLive, WalkNil, Refill,
                SwitchOut, ReleaseSwitch, Putmmu, SwitchKproc, Fill, vars, proc
  <2>2. QED
    BY <1>1, <2>1, TreeIdles DEF SeenAt
<1>2. CASE RootAlloc(p) \/ WalkLink(p)
  BY <1>2, TreeRootAlloc, TreeWalkLink DEF RootAlloc, WalkLink, proc, SeenAt
<1>3. CASE SwitchIn(p)
  <2>1. Mmuswitch(p, newtlb[p]) /\ UNCHANGED mmuroot /\ newtlb[p] \in BOOLEAN
    BY <1>3 DEF SwitchIn, TypeOK
  <2>2. \A q \in Proc, va \in VA :
          Maps(q, va)' = IF q = p /\ newtlb[p] THEN Nil ELSE Maps(q, va)
    BY <2>1, TreeMmuswitch
  <2>3. newtlb' = [newtlb EXCEPT ![p] = FALSE]
    BY <2>1 DEF Mmuswitch
  <2>4. QED
    BY <2>2, <2>3 DEF SeenAt, TypeOK
<1>4. QED
  BY <1>1, <1>2, <1>3 DEF Hides

(* Each step of the tables is a put, an emptying or nothing to see. *)
LEMMA StepImplements ==
  ASSUME TreeInv, [Next]_vars
  PROVE  [AS!Next]_Seen
<1> TypeOK'
  BY StepTypeOK DEF TreeInv
<1>1. ASSUME NEW p \in Proc, Hides(p)
      PROVE  Seen' = Seen
  BY <1>1, SeenAtKept, SeenKept
<1>2. SwitchKproc \/ (\E va \in VA : Fill(va)) \/ UNCHANGED vars => Seen' = Seen
  <2>1. CASE Proc = {}
    BY <2>1, SeenKept
  <2>2. CASE Proc # {}
    BY <2>2, SeenAtKept, SeenKept
  <2>3. QED
    BY <2>1, <2>2
<1>3. ASSUME NEW p \in Proc, PutLeaf(p)
      PROVE  \E va \in VA, f \in Frame : AS!Put(p, va, f)
  <2>1. arg[p][1] \in VA /\ arg[p][2] \in Frame
    BY <1>3, SeenAtPut
  <2>2. AS!Put(p, arg[p][1], arg[p][2])
    BY <1>3, <2>1, SeenAtPut, SeenPut
  <2>3. QED
    BY <2>1, <2>2
<1>4. ASSUME NEW p \in Proc, Flushmmu(p) \/ Invalidate(p) \/ Release(p)
      PROVE  AS!Empty(p)
  BY <1>4, SeenAtEmptied, SeenEmptied
<1>5. QED
  BY <1>1, <1>2, <1>3, <1>4 DEF Next, PutStep, Hides, Idles, AS!Next

(* The page tables implement the address spaces port/ relies on: with every  *)
(* table it links in on the way, putmmu changes one address of one process,  *)
(* and a flush, however long it was pending, empties one (mmu.c:242-391).    *)
THEOREM ImplementsHolds == Spec => Implements
<1>1. Init => AS!Init
  <2> SUFFICES ASSUME Init PROVE AS!Init
    OBVIOUS
  <2>1. \A p \in Proc, va \in VA : SeenAt(p, va) = Nil
    BY TranslateNil DEF Init, SeenAt, Maps
  <2>2. QED
    BY <2>1, SeenIs DEF AS!Init, AS!Unmapped
<1>2. TreeInv /\ [Next]_vars => [AS!Next]_Seen
  BY StepImplements
<1>3. QED
  BY <1>1, <1>2, TreeInvariance, PTL DEF Spec, Implements, AS!Spec
=============================================================================
