# Plan 9 on the Allwinner D1: a TLA+ model of the sun20i kernel port

This directory models the machine-dependent half of a 9front kernel for the
MangoPi MQ Pro (Allwinner D1, one C906 RISC-V hart): the code in
`src/mangopi_overlay/sys/src/9/sun20i`. The portable half, `port/`, is not in
the repository. Where the port calls it or is called by it, the models have an
*external* definition that does what the code in `sun20i` requires and no more;
the same goes for the hardware (hart, page-table walker, PLIC, timer, PLL, SD
controller). File names below are relative to `sun20i`.

## 1. The system

| Component | Code | State | Operations |
|---|---|---|---|
| Floating-point context | `fpu.c`, `forkretfp`, `fpsave`, `fprestore` in `l.s` | `p->fpstate`, `p->fpsave`, the registers | `procsetup`, `procsave`, `procrestore`, `fpunotify`, `fpunoted`, `forkretfp` |
| User MMU | `mmu.c` from `mmurootalloc` on, `satpset` | `p->mmuroot`, `p->satp`, `p->mmuused`, `p->mmufree`, `p->newtlb`, the tables, `satp`, the TLB | `putmmu`, `mmuwalk`, `mmuswitch`, `flushmmu`, `mmufree`, `mmurelease` |
| Traps, system calls, notes | `trap.c`, `trapvec`, `forkret`, `touser` in `l.s` | trap CSRs, R6 (`up`), the Uregs on the kernel stacks | `trap`, `syscall`, `faultriscv`, `notify`, `noted`, `setregisters`, `forkchild`, `execregs`, `touser` |
| Timer and clock interrupt | `timer.c`, `clockintr` | the one-shot timer, `irqsta` | `timerset`, `timer0ack`, `clockintr` |
| Interrupt controller | `plic.c` | enable bits, claims, `vctl` | `intrenable`, `plicintr`, `plicclaim`, `pliccomplete` |
| Clock control unit | `ccu.c` | PLL_CPU, core mux, card divider, gates | `cpuclockinit`, `mmc0clock`, `mmc0enable`, `usb1enable` |
| SD host controller | `smhc.c` | controller registers, FIFO | `smhccmd`, `smhcio`, `smhcclock`, `updateclk` |
| Serial console | `uartsun20i.c`, early console in `main.c` | 8250 registers | `suartintr`, `suartenable`, `suartkick`, `suartbaud`, `uarthigh` |
| Boot page tables | `mmu.c` but for the user's, `_start` and `highstart` in `l.s` | the boot root and its tables, the TLB | `mmubootstrap`, `mmulowdrop`, `dramsize`, `splitblock`, `mmuuncache`, `dcflush` |
| Boot arguments | `bootargs.c` | `confname`, `confval` | `bootargsinit`, `getconf`, `setconfenv` |
| USB host reset | `usbehcisun20i.c` | gates, resets, the controller's `cmd` | `reset`, `phy1enable`, `ehcireset` |
| Boot order | `main.c`, `l.s` | where main is | `main`, `confinit`, `smhcprobe`, `init0` |
| Watchdogs | `wdt.c` | registers | stateless |
| Tests, harness | `test/`, `bootstrap-harness/` | none | expected-output tests, scripts |

How they meet: a trap (`trapvec`) enters `trap`, which calls `plicintr`,
`faultriscv` or `syscall`; a fault ends in `putmmu`; the clock interrupt sets
the timer again and asks for a switch; a switch (`sched` in `port/`) calls
`procsave`, `mmuswitch` and `procrestore` around `gotolabel`; the way out
(`forkret`) restores the CSRs from the Ureg. The SD driver polls with interrupts
on and counts its limits in the clock's `m->ticks`; it asks `ccu.c` for its clock.
All of it stands on what `_start` and `main` have set up, in one order, with the
console taking interrupts from the middle of it on.

What is hard:

* *Interleaving.* One hart, but interrupts and process switches come between
  any two instructions that do not mask them, in the middle of `putmmu`,
  `procsetup`, `fpunotify`, a system call or the return path.
* *State in two places.* FP registers live and saved; tables in memory and in
  the TLB; `satp` of the hart and of the process; `sstatus` in the CSR and in a
  Ureg; a lock bit and the lock it stands for; an end of a transfer and the flag
  that tells of it.
* *Hardware in its own time.* Page walks, PLL lock, the timer's expiry, a data
  cache that writes back and fetches, a card or a USB controller that answers late,
  fails, stays silent or is dead.
* *Order.* Translation comes on under the running program; memory loses its cache
  while it may be cached; gates and resets precede the first access.
* *Limits.* Boot and user table pages, divider fields, lines of `plan9.ini`, a tick
  counter that wraps.

## 2. Modules

| Module | What it is |
|---|---|
| `Fpu` | FP context switching; `FpuProofs` its theorems, `MCFpu` its TLC instance |
| `AddrSpace` | what the MMU promises: one map of addresses to frames per process |
| `Mmu` | the page tables that implement it; `MmuProofs` on who holds which page, what the tables and the TLB hold, and the refinement, `MCMmu` |
| `Trap` | trap entry, handlers, return; `TrapProofs`, `MCTrap` |
| `Clock` | timer, PLIC, clock interrupt; `ClockProofs` |
| `Ccu` | core PLL and card clock; `CcuProofs`, `MCCcu` |
| `Smhc` | SD host driver, controller, card and ticks; `SmhcProofs` |
| `FaultPath` | composes `Trap` and `Mmu`; `FaultProofs`, `MCFaultPath` |
| `KernelMap` | the boot page tables and the way into them |
| `DramProbe` | `dramsize` and the data cache |
| `Uncache` | `mmuuncache` against TLB and data cache |
| `Bootargs` | `plan9.ini` and the environment |
| `Uart` | the console and its divisor latch |
| `Boot` | composes the last five in the order of `main`, with the USB host's reset; `BootProofs`, `MCBoot` |

Each module's header says what it leaves out. Operators named
`...Skipped`, `...Unchecked` and the like, under a comment "What could go
wrong", are faulty variants of the definition that follows them; no behaviour
uses them. Each shows that a property can fail: put in place of the definition
it precedes, TLC finds the property violated.

### Fpu

`fpstate`, `fpnotify` and `fpsave` are the fields of `Proc`, `regs` the 32
registers and `fcsr` as one value. `UserFp` is any FP instruction of the running
program; all other actions are kernel code. `Procsetup`/`ProcsetupLive` and
`Notify`/`NotifyBit` are two steps each because interrupts are on between them.
`view`, `wrote`, `notified` record what the program computed.

* `OwnRegisters`: until a note reaches it, a program finds its registers as it
  left them. `Isolation`: it never computes on another program's, notes or not.
  `ActiveIsUp`: only the running process is `FPactive`.
* `SurvivesSwitch` is violated (section 4).

### AddrSpace and Mmu

An address is its three indices, a table a function from indices to entries, a
page not yet cleared holds `Junk`. `RootAlloc`, `RootSatp`, `RootLive` are the
three steps of `mmurootalloc` and its use; `WalkLink`, `WalkNil`, `Refill`,
`PutLeaf` are the loop of `putmmu`, masked inside the walk and not around
`newpage`. `Fill` is the hart's walker: any address at any time, invalid entries
cached too. `Invalidate` is the pager setting `newtlb`.

* `PagesConserved`: every page has one holder and one use. `TreeIsUsed`: the
  tree under a root is its used list and nothing uncleared is reached.
  `SatpLive`: the hart always has a root with the kernel in it, but for the
  window of section 4. `TlbCoherent`: in user mode no cached translation differs
  from the tables.
* `Implements`: `Mmu` refines `AddrSpace` under `maps <- Seen` (what the tables
  translate, nothing while `newtlb` is pending).

### Trap

`pc` is a user instruction or one of thirteen kernel points; `stack[p]` the Uregs
of a kernel stack, user's first; `at[p]` where a process that was switched out
resumes. Entry (`Take`, `Trapvec`) and return (`RestoreSepc`, `RestoreSstatus`,
`RestoreSscratch`, `TrapReturn`) are separate steps as their CSR writes are
separate instructions. `Fault` comes in user mode and wherever the kernel touches user
memory (`OnUserMemory`): in a system call, in `donotify`, and in `init0`, which writes
the first program's stack and, after its `splhi`, reads its text. `note` is the Ureg
`notify` has put on the user's stack, and `up->notified`; `NSAVE` lets the next note in
without giving the Ureg back, and of the Uregs kept so only the last is in the model.
Where `notify` has no handler or no room, or `noted` fails, the program exits.

* `SscratchSaysMode`: `trapvec`'s one swap never mistakes where a trap came from.
  `KernelHasUp`: R6 is `up` in all kernel code. `UregsNest`: only the first Ureg
  returns to user mode, whatever a note handler hands back, and that one always does, but for
  a fault of `init0`, which has no program yet; a fault taken with interrupts masked returns
  with them masked, though its page was slept for. `UserResumes`: a
  program goes on where it must, past an ecall exactly once.

### FaultPath

Both modules are instantiated and share `up`. Each action is one of `Trap` with the
step of `Mmu` that the same code makes: entering and leaving the kernel, a switch, an
exit; or a step of one where the other stands still. `miss` is the address in
`faultriscv`, `done` the last `putmmu` that has not been undone. `fault()` itself is
the port's: it calls `putmmu` once or fails. A fault of the kernel on user memory
(`KernelFault`) goes the same way, with interrupts masked if they were; one that `fault()`
does not mend is a panic, and the model tries it again instead.

* `RetryWorks`: a program that `putmmu` has given a page finds it on its next try, in
  the tables the hart walks and in what the TLB remembers.
* `TrapsReturn` (liveness): a fault is mapped or becomes a note, and every trapped program
  comes back or exits, though `putmmu` sleeps, is switched away and may find its tables
  emptied each time. `satp = Bare` (section 4) stops the model.

### Clock

Times are relative: `due[t]` is the time till a portable Timer's `twhen`, `tmr`
the down counter. `Tick` may come between any two steps, so a handler may be
arbitrarily slow. `Init` is the machine after `trapinit`: the timer reloads itself
until `timersinit` adds the HZ clock.

* `ClockAlive`: the timer runs, or its interrupt is to come or to set it again.
  `InTime`: it is set for the first Timer due. `NoneInService`: no interrupt stays
  claimed while a process runs. `Served` (liveness): Timers that are
  due run and devices that ask are served.

### Ccu

`CpuStart` to `CpuDone` are the numbered steps of `cpuclockinit`; the PLL may keep
its lock bit from the old rate. `Freq`, `Div`, `P`, `M` are `mmc0clock`'s
arithmetic, in kHz; the kHz rounding changes no quotient because rates asked for
are whole kHz.

* `CoreSteady`: the core never runs from a PLL that moves, and ends at the 24 MHz
  multiple asked for. `CardRate`: the divider is the nearest the fields allow to the
  truncated quotient, no more than 1/8 above it. `CpuReturns` (liveness).

### Smhc

`pc` is the driver's polling loop. The controller and card (`Hardware`) answer,
refuse, move words, end, fail or do nothing at any time; a command with data
waits for the last transfer (`Waitpreover`), and so does the update of the clock,
which goes through the same command register (`pend`); CMD12 of a multiblock transfer ends
some time after its data. A word is its transfer and index.

* `ReadIntact`: until a failure a read gets its own words, once, in order.
  `DoneIsOver`: a transfer reported as done has moved all its words, unless the
  command was given while the last one's CMD12 was under way (history `old`).
  `TimeoutExact`: a loop gives up when its time is over, not before, across a wrap.
  `Returns` (liveness).

  The exception in `DoneIsOver` is real: `smhcio` stops at Dataover of a multiblock
  transfer and does not wait for Autocmddone, and CMD12 is a no-op in `smhccmd`. If
  the next command clears `Rint` first, the late Autocmddone ends *its* wait. With a
  write that then fails, its word stays in the FIFO and the next read returns it;
  this is why `failed` covers failures the driver never saw.

### KernelMap, DramProbe, Uncache, Bootargs, Uart

`KernelMap` has the code's own addresses, in pages, and its sixteen calls of
`mapblock`, `maphigh` and `mapident`, one step each; `Needs` is the set of tables a
range takes. The TLB keeps the translations of the page the hart runs from and of the
console's.

* `MapSound` is three things. `TablesSuffice`: 21 of the 24 tables are used, as the
  comment at `mmu.c:20` says, and no 4 KB leaf is put where a 2 MB leaf is. `Reaches`: at every step the hart finds its
  next instruction and its console, through the tables or what it remembers of them.
  `LowFree`: afterwards the low half is empty, the TLB included, and `KADDR` works.

`DramProbe` is the five accesses of `dramsize` over a cache that lets its words go at
any time (`fence` does not clean it). `DramFound`: a large part is never missed; a
small one is recognised when both words reached memory in order. `Uncache` has TLB and
cache fill at any time, all at once, as more in either stops nothing. `Uncached`: memory
handed to a device is uncached and in neither; all other memory is as it was.

`Bootargs` takes a file as its sequence of lines, those in the `BOOTARGSLEN` bytes at
`BOOTARGS`; `high` says that the first byte is 0x80 or more, and then nothing is read. `at`
is where `bootargsinit` and `setconfenv` are, or that an error of `ksetenv` has ended the
latter, at any name and between the two calls for a name (`init0` goes on). `ConfTrue`: each
name has its first spelling and last value. `EnvTrue`: the environment has each name so, once
under flag 1 and, without a `*`, under flag 0; after an error names may be missing, but none
is there that should not be. For line `MAXCONF` it need not be so: `getfields` gives that
line the rest of the file, as its value, or as its name (`Long`) if it is a text and a
later line has a `=`; such an entry is marked `tail`.

In `Uart`, DLAB turns the first two registers into the divisor. `RateKept`: `suartbaud`
leaves the rate asked for and the receive interrupt on. `ReceiveEnds` (liveness):
received bytes are read. Both name what the code leaves open, as it runs with interrupts
on: printing into the open latch, and an interrupt while it is open.

### Boot

`stage` is the next call of `main`. A part that main is done with is forgotten
(`ForgetDram`, `ForgetUncache`), so that the outcomes of one part do not multiply those of
the next; `file`, `conf` and `env` stay to the end. `ehcireset` ends at the frame-list size it
reads: one that nobody knows (a dead controller reads all ones) is a panic, stage
`unknownfls`. When `mmuuncache` returns nil, or `ucalloc` has nothing to begin with, what
`ehcimeminit` (`port/`) does is not known: boot goes on, or panics, stage `nomemory`. A
panicked machine does nothing more.

* The properties of the five, where main is in them; `ConfTrue` is `Bootargs`' and its `EnvTrue`.
  `DevicesReady`: no register is touched before its gate, reset and PHY, which are in three
  files. `BootEnds` (liveness): with every file, an endless input, no page for `splitblock`, a
  controller that never leaves its reset or is dead, main ends: in the first process, or in
  one of the two panics, and in those only if `plan9.ini` does not say `*nousbehci`. So a
  machine with a broken USB host can always be brought up.

## 3. Runs

| Run | Instance | States (about) | Shows |
|---|---|---|---|
| `fpu` | 2 processes, 3 register contents | thousands | types, `Isolation`, `OwnRegisters`, `ActiveIsUp` |
| `fpu_note` | the same | | `SurvivesSwitch` violated |
| `mmu` | 2 processes, 5 pages, 2 addresses in two leaf tables, 2 frames | 1.2 million | invariants and the refinement |
| `mmu_root` | 2 processes, 4 pages | | `GivenRoot` violated |
| `trap` | 2 processes, 2 user instructions, the second its handler, 2 nested Uregs | 2.2 million | invariants |
| `trap_sepc` | 2 processes | | `SepcIsUregPc` violated |
| `clock` | 2 devices, 3 Timers, times up to 5 | 80 000 | invariants, `Served` |
| `ccu` | 8 core rates, 89 card rates, 2 PLL_PERI settings | 56 000 | invariants, `CpuReturns` |
| `ccu_faster` | the same | | `NeverFaster` violated |
| `smhc` | every kind of command, blocks of 1 and 2 words, FIFO of 1, limits 1, 1, 2 ticks, a wrap in each loop | 408 000 | `ReadIntact`, `DoneIsOver`, `TimeoutExact`, `Returns` |
| `fault` | 1 process and what takes the hart from it, 1 address, 3 pages, 2 nested Uregs | 58 000 | `RetryWorks`, `TrapsReturn` |
| `boot` | the code's addresses; 11 files where 2 lines fit; 2 blocks of 2 pages; 2 rates, a FIFO of 2 | 98 000 | section 2's properties from `_start` on |

Why the bounds are enough. Interference is between the running process and one
other: two processes have every order of two; a third does what the second does.
Three register contents tell apart one's own, the other's and the initial ones.
Two processes with a full tree each need eight table pages; five make the allocator
run dry at every level of a walk. Two addresses in two leaf tables share the
root, whose entries differ from those of the next level only in level; two in one leaf table
differ in one entry of it, which the proofs have for any number of addresses. Three Uregs are an
interrupt in an interrupt, which the kernel's masking excludes; two reach every
nesting the code allows and `MaxDepth` only cuts faults inside a handler's fault.
Two user instructions are an ecall and what follows it, or the handler and what it
interrupted: a return to the wrong one of them is wrong for any number.
In `Clock` MaxPeriod is twice MinPeriod, times fall before, between and after the two,
and only the order of `due`, MinPeriod and MaxPeriod matters. In `Smhc` a FIFO of
one word is full and empty in turn, and two words in a multiblock transfer have
an order; `Starts` makes `m->ticks` wrap inside every loop; the limits are ticks
instead of HZ, 3\*HZ and 5\*HZ. The core rates of `Ccu` are both sides of the 12 and
255 limits; the card rates are every divider of the oscillator and the usual SD and
MMC speeds.
In `FaultPath` three pages are a root and the tables of one address; a page once mapped
is taken away again by the pager's flush or by an exec, as it would be by the flush for another
address, and one walk of `putmmu` knows nothing of another's; the kernel process
that takes the hart and the pager stand for all other processes; the program has two
instructions, the second its note handler. In `Boot` the map is the real one; its
eleven files have every kind of line before the last field's place, in it and past it, a
name in two spellings and orders, `*nousbehci` read, not read and run on in, with a newline at
the end and without, no file, and one that begins with 0x80; `ConfTrueHolds` is for all others. A range in two blocks of two pages can lie in one, fill one or, if nothing refused it, cross; a
FIFO of 2 makes the handler's loop turn.

`CHECK_DEADLOCK FALSE` is set where the system may stop: no process left (`Fpu`,
`Trap`), all pages held by processes that wait (`Mmu`), the hart without a
translation (`FaultPath` stutters there). `Boot` may come to rest once it is up or has
panicked; `BootEnds` excludes that it does so before.
`Ccu`, `Clock` and `Smhc` are checked for deadlock.

Fairness. Kernel code that runs masked, or a handler that is not held up, goes on
(`WF` of its steps). `SF` stands for what a process switched out again and again
still gets: some time slice reaches the step. The scheduler and the clock starve
nobody: that is `port/`'s promise and, for the clock, what `ClockAlive` shows. In
`Clock` no device may ask so often that others are never claimed (all PLIC
priorities are 1). In `Ccu` a PLL left alone settles. In `Smhc` nothing is assumed
of the controller and card; only the driver and the tick are fair, which needs
interrupts on. In `FaultPath` a scheduled process gets a time slice to each step of
`putmmu` and a handler gets on between interrupts; in `Boot` main goes on between the
console's interrupts, and `suartintr` reads faster than the line fills, without which its
loop has no end; nothing is assumed of the USB
controller, which may be dead.

## 4. What the runs found

* `fpu_note` (`fpu.c:83`): `fpunotify` saves the registers and marks the state
  `FPinactive` while the registers stay live; the next switch saves nothing, and
  what the note handler, or the program after `noted`, computed is lost.
* `mmu_root` (`mmu.c:258`): `p->mmuroot` is set before `p->satp` with interrupts
  on; a process preempted in between is switched back to with `satp` 0.
* `trap_sepc` (`trap.c:204`): after `syscall`'s delayed `sched()` interrupts are on
  in the return path, and one between the writes of `sepc` and `sstatus` sends the
  program to a kernel address in user mode.
* `ccu_faster` (`ccu.c:164`): the quotient truncates, against the comment at
  `ccu.c:144`; 52 MHz asked becomes 60 MHz.

The invariants of the other runs name the windows the first three open
(`notified`, `satp = Bare`, `K("ret1")`) and hold everywhere else. More of the code's weak
points are in the models and have no run of their own; the properties exclude them by name
and are silent about them:

* `dramsize` (`mmu.c:212`) reads back through the cache what it has just written and usually
  finds it there: a 512 MB part is then taken for 1 GB, against "detect it" (`mmu.c:194`);
  `DramFound` claims a small size only when the word came from memory (`fetched`). The other
  points contradict no document.
* `suartbaud` (`uartsun20i.c:178`) opens the divisor latch with interrupts on: a receive
  interrupt there reads the divisor for ever (excluded in `ReceiveEnds`), output becomes the
  divisor (`spilt` in `RateKept`).
* `bootargsinit` (`bootargs.c:67`) leaves the newline in line 64 and all further lines in it
  (`tail` in `ConfTrue`).
* An error of `ksetenv` hides all names after it (`bootargs.c:96`, `main.c:136`; `at = "error"` in `ConfTrue`).
* `smhcio` leaves a multiblock transfer before its CMD12 has ended (`smhc.c:274`; `old` in
  `DoneIsOver`), and after an error its words stay in the FIFO (`smhc.c:264`; `failed` in
  `ReadIntact` and `DoneIsOver`).

## 5. Proofs

A run of section 3 shows a property on a small instance, the theorem named after it
(`Isolation`, `IsolationHolds`) for all values of the constants. Every theorem rests on
the `ASSUME`s of the module it is about and on nothing else, but for `MapSoundHolds`, which
states its own; TLC evaluates them in the runs. Each proof module has an inductive invariant (`MmuProofs` a second one on top of it), checked with TLC on the run's
instance before it was proved, and the lemmas that it begins so (`InitIInv`, or one per
part) and that every step keeps it, one step of the proof per action.

`FpuProofs`: `TypeCorrect`, `IsolationHolds`, `OwnRegistersHolds`, `ActiveIsUpHolds`,
from sentinels outside the sets they stand beside. The invariant adds to the
properties what each control point knows of the three places a program's FP contents
can be: in the registers when active, in `fpsave` when inactive, the initial contents
otherwise. `Isolation` needs the history `wrote`: what is saved for `p` is something
`p` left, even where it is not the latest.

`MmuProofs`: `TypeCorrect`, `PagesConservedHolds`, `SatpLiveHolds`. `PagesConserved` is
close to inductive: it needs where `pc` says that a root is present. `SatpLive` adds
that `p->satp` names `p`'s root from `RootSatp` on, that the kernel half is in every
held root, and that `satp` is not `p`'s root after `mmurelease`'s switch.

On top of these, `TreeIsUsedHolds`, `TlbCoherentHolds`, `ImplementsHolds`. `TreeOK` says what `putmmu` makes of the pages it holds: two levels under the
root, no table named twice, leaves in the lower level only. So two addresses share a
leaf entry only if they are the same, and a store through the one changes no other.
`TablesKept` is the other half: a step that touches none of `q`'s pages leaves `q`'s
tree and translations, and pages are conserved. `CacheOK` and `UpOK` bring the TLB in:
it holds what `satp`'s tables hold, and `satp`'s are the running process's, outside the
window of section 4. The refinement takes each step of `Mmu` to a step of `AddrSpace`
or to none under `maps <- Seen`; that `WalkLink` is none needs that a table page just
linked was cleared.

`TrapProofs`: `TypeCorrect`, `SscratchSaysModeHolds`, `KernelHasUpHolds`,
`UregsNestHolds`, `UserResumesHolds`, for any depth of nesting. None is inductive alone:
what `RestoreSscratch` leaves depends on the Ureg, the Ureg on the trap that made it,
that trap on `sscratch`. The invariant follows the circle: `Nests` and `Bottom` say of
every Ureg on every stack what it goes back to, `Vec` and `Handling` what the CSRs are
at each kernel point, `Waiting` where a process that is switched out resumes; `Masked` has the
faults taken with interrupts off, of `notify` and of `init0`. The
kernel address of `trap_sepc` (section 4) is in `GoesOn`: the theorems hold in spite
of it, as the properties say.

`ClockProofs`: `TypeCorrect`, `ClockAliveHolds`, `InTimeHolds`, `NoneInServiceHolds`, for
any devices, Timers and periods 0 < MinPeriod < MaxPeriod. `InTime` needs `TimerOK`: while `clockintr`
is not about to set it, the timer goes off in time for every Timer, or has gone off; and
`HzOK`: once anybody has added a Timer there is one, the HZ clock. What `timerset`
computes is a minimum over a finite set of times; that there is a least one is
`Induction`, stated for sets of naturals because the library's induction takes an
operator.

`CcuProofs`: `TypeCorrect`, `CoreSteadyHolds`, `CardRateHolds`, for every rate and every
setting of PLL_PERI's fields. `CpuOK` is what the lock bit is worth at each
step: at `wait` it is the new rate's because LOCK_ENABLE went low and high. `CardRate` is
arithmetic: `RoundsUp` bounds what the divider loses to its fields (at most an eighth),
`DivIs` what the truncated quotient does.

`SmhcProofs`: `TypeCorrect`, `ReadIntactHolds`, `TimeoutExactHolds`, `DoneIsOverHolds`,
for any FIFO, any block sizes with Single <= Multi, any limits CmdWait <= R1bWait <=
DataWait with 2 (DataWait + 1) < Wrap: the code's are HZ, 3 HZ and 5 HZ against 2^32. `Flow` is the
invariant of a transfer: the words taken and those in the FIFO are the first of that
transfer, in order. `Mine` says when the transfer under way is the driver's, `LeftOK`
what one it has left may still do, `OverOK` that with nothing under way
before (`~old`) only the own transfer's end is seen. All but the types and the limits
stands under `~failed`, as the properties do.

`FaultProofs`: `MemoryIsMmu`, `TrapsAreTrap`, `RetryWorksHolds`, for any set of processes. The first
two say of the composition that it adds nothing to its parts: each of its steps is one step
of `Mmu` or none, and likewise of `Trap`. So `Mmu`'s tree and cache invariant (`TreeInv`) holds in
it without a second proof: `P` instantiates `MmuProofs` over `FaultPath`'s memory.
`RetryWorks` needs three facts more: `ModeOK`, that the running process is in user mode only
when its memory's `pc` is there too, `MissOK`, and `DoneOK`, that what `done` promises is still in
the process's tables, whoever else ran in between.

`BootProofs`: `TypeOKHolds`, `MapSoundHolds`, `DramFoundHolds`, `UncachedHolds`, `ConfTrueHolds`,
`RateKeptHolds`, `DevicesReadyHolds`, for any memory sizes, number and size of blocks, rates, FIFO,
contents of `plan9.ini` and patience of `ehcireset`; `MapSoundHolds` for any `NTABLES` that is at
least 21, where the code has 24.
The invariant has one part per module that `main` goes through, and a lemma (`DramParts`
and the like) says what of `Next` each part sees.

* `UncacheOK` needs that a range which begins and ends in a block lies in it (`Inside`), so
  that the leaves `Clear` changes, found by remainders, are those asked for.
* `MapOK` says which of `mmubootstrap`'s calls have been made. With all of them made and the
  low half dropped, every range left is a high one (`Halves`), and so `KADDR` leads to each
  device whichever range TLC's `CHOOSE` would pick.
* `TablesOK` says that the tables taken are those the calls made so far need. That all calls
  need 21 is counted from the code's addresses: the root, and ten tables in each half, under
  root entries 0 and 1 and under 510 and 511. A part of a set is no larger than the set, so no
  call before the last finds the array empty.
* `WayOK` follows the hart from `_start` to the high addresses: what it runs from and prints
  to is in the tables or remembered in the TLB, and the TLB remembers nothing of the low half
  once that is dropped.
* `ConfOK` says what `conf` is after `n` lines, name by name (`Means`): the first line that
  has the name gives its spelling, the last its value; after the last, there may be one entry
  more, of a text that ran on (`Final`); and which of it the environment has. `Read`, the loop of `bootargsinit`, is
  a recursive function, and what it returns for every file is by induction over its lines,
  on a set of naturals (`Induction`), as in `ClockProofs`.

Only model-checked: the liveness properties, `CpuReturns`, `Returns`, `Served`, `TrapsReturn`,
`ReceiveEnds` and `BootEnds`. Fairness and ENABLED are out of the proof system's reach. Every
other property of a passing run has its theorem.

## 6. Not modelled

Assembler atomics (`tas`, `cmpswap`): their meaning is the instruction set's.
Watchdogs: register writes without a state in the kernel; the one call, the feed in
`clockintr`, comes with every clock interrupt, which `Clock` shows to go on. The initialisers
of `port/` between those of `boot`, the EHCI driver and `ucalloc` are not in the
repository. The console's frame format and polled input, USB `shutdown` (the loop of
`ehcireset` again), the cycle-counter measurement, diagnostics, tests and the bootstrap
harness have no bearing on a property here.

## 7. Plan

Done: all modules of section 2 and the proofs of section 5, in the order of what breaks a
kernel worst. What is left is a composition of `Trap` and `Clock`: preemption from the tick to
the switch, and the time the watchdog allows the kernel to run masked.
