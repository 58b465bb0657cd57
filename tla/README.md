# A TLA+ model of the OS simulator

The repository (`src/os_lamiaatrium`) is a teaching simulator of an operating
system, written in C with POSIX threads. Every CPU is a thread that executes
processes loaded from text files; a loader thread adds them; a timer thread
divides time into slots; processes allocate and access memory through a paged
memory manager shared by all CPUs. This directory models what these parts do,
checks the models with TLC on small instances, and proves the most important
facts with TLAPS for every value of the constants.

All claims are about the build that the Makefile makes and `os-cfg.h` selects:
`MLQ_SCHED`, `MM_PAGING`, `MM64`.

## 1. The system

| Component | Source | State | Operations |
|---|---|---|---|
| Timer | `timer.c` | `_time`, and per device `done`, `fsh`, two mutexes, two condition variables | `next_slot`, `detach_event`, `timer_routine`, `stop_timer` |
| Queue | `queue.c` | an array of process pointers and its length | `enqueue`, `dequeue`, (`purgequeue`, no caller) |
| Scheduler | `sched.c` | one ready queue per level, quotas `slot`, the level being served, dispatches used; `running_list` | `get_proc`, `put_proc`, `add_proc` |
| CPUs, loader, main | `os.c` | per CPU `proc` and `time_left`; `done`; the loader's index | `cpu_routine`, `ld_routine`, `main` |
| Instructions | `cpu.c`, `libstd.c`, `syscall.c` | `pc` | `run`, dispatch of system calls |
| Program loader | `loader.c` | the PCB and its program | `load` |
| Memory library | `libmem.c` | symbol table, free regions, break, victim list per process; `mmvm_lock` | `__alloc`, `__free`, `__read`, `__write`, `pg_getpage`, (`free_pcb_memph`, no caller) |
| memmap system call | `sys_mem.c`, `mm-vm.c` | – | `MAP_OP`, `INC_OP`, `SWP_OP`, `IO_READ`, `IO_WRITE` |
| 64-bit paging | `mm64.c`, `mm.h`, `mm64.h` | five levels of tables per process, packed 32-bit entries | `pte_set_fpn`, `pte_set_swap`, `pte_get_entry`, `vmap_*`, `vm_map_ram` |
| 32-bit paging | `mm.c` | one array of entries per process (build without `MM64`) | the same interface |
| Devices | `mm-memphy.c` | contents and free frame list of RAM and swap | `MEMPHY_get_freefp`, `put_freefp`, read, write |

### How the parts interact

- `os.c` calls the scheduler under `queue_lock`, one call at a time, and the
  timer at the end of every slot. A CPU's `proc` is a local variable: the only
  record that a process is running is the pointer in the thread.
- A process's instruction calls the memory library directly. The library goes
  back into the "kernel" through `syscall(krnl, pid, 17, regs)`, and
  `__sys_memmap` looks for the PCB with that pid: first in `krnl->ready_queue`,
  which the multi-level scheduler leaves empty, then in `running_list`, to which
  `put_proc` appends. **A process is found only after it has been put back
  once.** The list keeps addresses of PCBs; when `malloc` gives the address of a
  freed one to a new process, the new one is found at once. It takes 50 entries
  and is never emptied; processes put back later are not recorded.
- All processes share the free frames of RAM and swap. `alloc`, `free` and
  `write` hold `mmvm_lock`; `read` and the system calls of programs do not.
- Nothing is persisted and there are no messages: there is no crash recovery
  and no loss or duplication to model. A "crash" below is an invalid memory
  access, which ends the whole program.

### What is hard about it

1. **The handshake of the timer.** `done` is set under `event_lock` and cleared
   under `timer_lock`. No lock protects both; only the order of the protocol
   does. A lost wakeup stops every thread.
2. **Ownership without a record.** A process must be in exactly one place: a
   ready queue, one CPU's local variable, or freed.
3. **Quotas.** One cursor and one counter, shared by all CPUs, must starve no level,
   and the scan of `get_mlq_proc` is bounded by the number of levels.
4. **The end of the program.** `done` is set by the loader while CPUs are between
   their two calls of `get_proc`.
5. **Frames.** A frame is on a free list, or in exactly one entry of one table;
   it moves between them during eviction in several steps.
6. **Regions.** A long history of `alloc` and `free` cuts and moves list nodes.
7. **Lookups and errors.** A system call that does not find its caller does
   nothing, and its result is ignored.
8. **The whole.** CPUs wait for each other in two ways at once: for
   `mmvm_lock` in the middle of a slot, and for the end of the slot. What an
   instruction does depends on the scheduler's history of its process.

The list of hazards with their lines is in `PROJECT.json`.

### What makes each part correct

| Part | Properties |
|---|---|
| Timer | no lost wakeup; `done` has one writer at a time; all devices advance in lock step; `_time` changes only while nobody works; `next_slot` returns; the timer thread ends. It implements a *slot barrier*. |
| Scheduler | no process is lost, duplicated, or with two CPUs; quotas are kept; a level is passed over a bounded number of times; the loops do what the operators say. It implements a *pool of ready processes*. |
| CPUs and loader | one instruction per process and slot; full quanta; processes are loaded when they are due; CPUs stop only after the last one; added processes finish. |
| Page table | the tree is closed under prefixes, hides nothing, and implements a *map from pages to places*; the array of the other build sends every access to the same place, pages of `MAP_OP` excepted. |
| Memory | no byte has two owners or none; variables are mapped. Under `mmvm_lock` every frame has one use, victims are the pages in RAM and swap never runs out; without it victims are still pages in RAM. It implements a *virtual memory*: pages of one's own that keep what was written. |
| The whole | the memory behaves as `Memory` says; no access outlives its slot; a process's memory changes only by its own instructions, one per slot; all processes finish. |

## 2. The modules

```
SlotBarrier <--refines-- Timer -- TimerProofs
     ^
     |            ReadyPool <--refines-- Sched --EXTENDS--> Queue
     |                                     |  Sched <--EXTENDS-- SchedFairness, SchedLoops -- SchedProofs
     +-- OS (uses SlotBarrier as its clock, EXTENDS Sched) -- OSProofs
          ^
          | EXTENDS, and <--refines--
       Machine -- MachineProofs --INSTANCE--> MemoryProofs
          | INSTANCE, and --refines-->
          v
       Memory --EXTENDS--> Regions, Pte;    Memory --refines--> VirtualMemory;    Memory -- MemoryProofs

PageMap <--refines-- PageTable --EXTENDS--> Pte;    FlatTable --EXTENDS--> PageTable;    FlatTable -- PageTableProofs

ListProofs: used by SchedProofs and PteProofs;    PteProofs: used by MemoryProofs and PageTableProofs
```

| Module | Models |
|---|---|
| `SlotBarrier` | what the timer promises: a slot ends when every device has arrived or left |
| `Timer` | `timer.c`, one action per critical section of every thread |
| `Queue` | `queue.c` as operators on bounded sequences |
| `ReadyPool` | what the scheduler promises: a set of ready processes, taken and returned one at a time |
| `Sched` | `sched.c`, one action per function (each holds `queue_lock` throughout) |
| `SchedFairness` | `Sched` with a history variable that counts how often a level is passed over |
| `SchedLoops` | the loops of `get_mlq_proc` and `dequeue` as they are written, to compare with `Sched` and `Queue` |
| `OS` | `os.c` over `Sched` and `SlotBarrier`, one action per branch of the loops |
| `Pte` | the packed page table entry: flags, frame number, swap type and offset share their bits |
| `PageMap` | what a page table promises: each page is nowhere, in RAM or in swap |
| `PageTable` | the tree of tables of `mm64.c` |
| `FlatTable` | the array of `mm.c`, called in step with the tree |
| `VirtualMemory` | what the memory promises: every process has pages of its own, and a page holds what its process wrote last |
| `Regions` | the free list of a memory area: first fit, cut, enlist |
| `Memory` | `libmem.c` with the system call, areas, entries and devices below it |
| `Machine` | `cpu.c`, `loader.c` and the meeting of `OS` and `Memory`: a CPU executes an instruction in a slot, system calls look into `running_list`, a CPU ends a process |
| `MC*` | instances for TLC |
| `*Proofs` | theorems and proofs |

`PROJECT.json` maps every definition to its lines. Definitions marked
`(mutant: ...)` are not part of the models: each is a plausible bug in the
definition that follows it, kept to show that a property notices it.

### Notes on the correspondence

**Timer.** Holding a mutex is a program counter value, so taking a lock is a step
that waits for the other thread to be outside the section. `pthread_cond_wait`
releases and sleeps in one step; it may wake spuriously (`MaxSpurious` times).
The cursor `temp` walks `dev_list` as a number.

**Sched.** The scan of `get_mlq_proc` is written as "the first place, counted from
the current level, that is servable" (`Stops`, `Stop`). `SchedLoops` has the loops
themselves: `ScanAgrees` compares the result of the scan, and `DequeueIsLoop` the
entry that `dequeue` picks and the queue it leaves (`Best`, `RemoveAt`), in every
reachable state.

**OS.** `next_slot` is joined to the step before it. This is sound because no
thread but the timer looks at who has arrived, and it waits for everybody. The
timer is replaced by the barrier it is proved to implement.

**PageTable.** A table is named by the path of indices that leads to it. The index of
a level is a field of the page number; `SPAN[l]` is the number of pages below one entry of a
table of level l, a power of two in the code (the `LOBIT`s of `mm64.h`), so that the
shift and mask are a division and a remainder. Setting
an entry creates the missing tables on its path, empty. An entry keeps its two
flags and the number in the low bits, so that `pte_set_fpn` leaves the bits
above the frame number as they were, and a swap offset read as a frame number is
a different number. `Place` reads an entry as `pg_getpage` does, the swapped flag
first.

**FlatTable.** `mm.c` is what the Makefile's build would use without `MM64`.
Its entry of a swapped page has both flags set, where that of `mm64.c` has one.
It takes the table from `krnl->mm` instead of the caller, for all processes; the model
is of the one process whose table that is. Its `vmap_pgd_memset`, which serves `MAP_OP`, prints an
error and stores nothing, so a page that `MAP_OP` touched last is in swap by the tree and where it
was before by the array. Every call is made on both tables in one step, and `SamePlace` says that
`pg_getpage` cannot tell them apart at any other page.

**Memory.** `alloc`, `free` and `MAP_OP` are one action each: `alloc` and `free` hold `mmvm_lock`
throughout, and `MAP_OP` touches only the calling process's own table. (An unlocked `read` does not
respect the lock, so it can come between the single calls of `MEMPHY_get_freefp` of an `alloc` that
grows; the model has it before or after all of them.)

A read or write is a step for every free list it reads and one for every list it writes, because
`read` takes no lock and the functions of `mm-memphy.c` load the head of a list before they change it.
An access carries its place (`at`) and the list it has loaded (`free`):

| Action | At | What it does |
|---|---|---|
| `Begin` | – | takes the lock (`write`), checks the bounds, loads the free list of RAM |
| `AccessAbsent`, `AccessPresent` | `page` | the page is nowhere: fails. It is in RAM: `IO_READ` or `IO_WRITE` |
| `AccessFrame` | `page` | the page is in swap, the list loaded was not empty: takes its head |
| `AccessNoVictim`, `AccessVictim` | `page` | it was empty: fails without a victim, else loads the free list of swap |
| `AccessNoSwap`, `AccessEvict` | `swap` | that was empty: fails, and the victim is off its list; else its head is taken, and the victim copied out |
| `AccessLoad` | `load` | copies the page in, loads the free list of swap |
| `AccessPut` | `put` | puts the page's frame of swap on the list loaded, sets the entry, enlists the page |
| `AccessPresent` | `io` | as above |

What two unlocked accesses write is the list each had loaded, so frames are handed out twice, listed
twice or lost. The code also calls `free` on the same node twice in such a race, which is undefined;
the model takes the outcome in which the list is what was written last.

A page's contents are the name of the
page that was written; a copy between devices copies that name. `pte` is a
function from pages to entries, which `PageTable` justifies. `missed` is a history variable: it counts
the allocs of a process whose `INC_OP` did not raise its break. System call 17 has
five operations; programs use `MAP_OP` in all instances but those of the allocator and, according to
`CALLS`, the other four: `INC_OP` (`IncOp`), `SWP_OP` (`SwpOp`), `IO_READ` and
`IO_WRITE` (`IoWrite`, `CallCrash`). `PutBack` and `End` are what the scheduler
and the CPUs do to a process between its instructions; `ended` processes are
not found any more. `free_pcb_memph` looks at the first `PAGING64_MAX_PGN` pages (`Looked`): 512 of
16384 in the code, so it leaves the frames of the others allocated.

**VirtualMemory.** The mapping reads a page where its entry says it is: in the
frame of RAM or of swap. A process that has ended has no pages. A copy between
devices, a load and an eviction are stutters, a write is a write to one page.

**Machine.** A CPU that is at its call of `run` fetches a line of the program
(`Fetch`), executes it, and ends its slot (`EndIns`, which is `Run` of `OS`). Programs
are not constants: a line is chosen when it is fetched, from the opcodes of
`Opcodes[p]`, so the instance covers all programs of the given length. A read or write is
several steps within the slot, between which other CPUs go on. The variable `listed` of
`Memory` is no state here, but what the lookup finds in `running_list`; `ended`
is `freed`. `home` names the address of a PCB by the first process that had it.
`load` is called before the loader waits for the start time, so a PCB may take an
address that is freed in an earlier slot. After a crash nothing happens (`Over`).

Facts about the build are constants:

| Constant | Meaning | In the build |
|---|---|---|
| `KRNL_MM` | the process whose memory `krnl->mm` is | NULL (`NoProc`): no code sets it |
| `SAME_PCB` | `sys_mem.c` sees the PCB as the other files do | FALSE: it includes `os-mm.h` before `MM64` is defined, so `addr_t` is 32 bits wide there and every later field is at another offset |
| `AT_LOAD` | what a lookup says of a process that was never put back | `{FALSE}` |
| `FREES` | a process that ends gives its frames back with `free_pcb_memph` | FALSE: it has no caller |
| `PAGING64_MAX_PGN` | how many pages `free_pcb_memph` looks at | 512, of 16384 (`PAGING_MAX_PGN`) |
| `CALLS` | which of the operations but `MAP_OP` programs use | all |
| `REMAP` | programs map pages that are mapped already | they may; see "not modelled" |

`MCMemoryOverlap` uses the build's values, `MCMachine` and `MCMemory` all but
that of `SAME_PCB`: with the build's value the first access that is loaded from swap ends the
program. The other
instances give the library what it relies on, to see whether its own algorithm
is right: `MCMemoryGrowth` a process that is found and owns `krnl->mm` (and the build's `SAME_PCB`,
so that its programs end in these crashes),
`MCMemoryShared` and `MCMemoryRace` a system call that reads the PCB correctly. `MCMemoryShared`
lets processes give frames back when they end: `free_pcb_memph` looks at the first of their two
pages, must return its frame once, and leaves that of the second allocated.

## 3. The runs

Passing runs:

| Run | Instance | What it shows |
|---|---|---|
| `timer` | 3 devices, 2 slots, 2 spurious wakeups | all properties of the timer, the barrier, and both liveness properties |
| `sched` | 5 processes on 3 levels, 2 CPUs, queues of 3 | exclusion, conservation, quotas, bounded bypass, the loops (`LoopsAgree`), the pool |
| `os` | 4 processes, 2 CPUs, quantum 2, 2 levels | CPUs stop only after the last load, quanta, one instruction per slot, loading on time, progress |
| `page_table` | 3 levels of 2 entries, 3 pages, 2 frames, 2 swap types, 2 offsets | the tree is closed and implements the map; the array of `mm.c` agrees with it, pages of `MAP_OP` excepted |
| `memory` | 2 processes that read and write on 2 CPUs, 2 frames and 1 of swap for 4 pages, a growth each | without exclusion: victims are pages in RAM, each once; no byte forged |
| `memory_shared` | 2 writers on 2 CPUs that end with `free_pcb_memph`, 2 frames for 4 pages | under the lock: frames and victims through load, eviction and the end of processes, a frame of swap for every victim |
| `memory_growth` | the contract, 1 process, 2 variables, 2 growths, all system calls of the program, RAM for all | one owner per byte, none lost, variables mapped, a frame per page |
| `machine` | 2 CPUs, the loader, 3 processes, 2 of them with any program of 3 instructions | the parts keep their promises together: `Memory` is used as it allows, pages are `VirtualMemory`, accesses end in their slot, memory changes only by its own process, all finish |

Runs that find a disagreement (the program does what the run shows; `findings`
quotes the line that says otherwise):

| Run | Property | What happens |
|---|---|---|
| `os_end` | `Termination` | an idle CPU waits at the top of its loop and never looks at `done` again |
| `os_left` | `NoneLeftBehind` | the last process is put back, its level's quota is used up, `get_proc` says NULL, `done` is set: the last CPU stops |
| `memory_overlap` | `OneOwner` | before a process is first put back, raising the break fails unnoticed, and every growth hands out the same addresses |
| `memory_race` | `FramesPartitioned` | a read and another access take the same free frame |

### Bounds, and why they suffice

- **Timer**: a device can be ahead of, at, or behind the walk of the timer thread;
  three devices give one of each. Two slots show a device entering the next slot
  while others are released from this one. The proofs cover every number of
  devices, slots and wakeups.
- **Sched**: three levels are the current one, one passed and one ahead; a level
  of three has a least priority that is not the first and two equals. `SYMMETRY`
  exchanges the two equal processes. Queues have room for their level; the
  theorems say exactly this (`QueuesFit`).
- **OS**: two processes due in the same slot, one in the next, one late; programs
  shorter and longer than the quantum, and one of a single instruction; `Horizon`
  stops the clock after the last load, when nobody reads it any more.
- **PageTable**: three levels are the root, one in the middle and the last, which
  is created by a different function. The pages share all tables, some, or none
  with page 0. `SWPOFF`, `SWPTYP` and `FPN` spans keep the overlap of the real
  fields.
- **Memory**: pages of 2 bytes and growth in steps of 2 pages keep the relation of
  `PAGING_PAGESZ` to `PAGING64_PAGESZ` (a growth maps several pages). Sizes 1
  and 3 leave a rest within a page and across one. `MAX_GROWTH` bounds calls of
  `INC_OP`; in `memory` it is 1, so that no byte may be in two regions at all. Two processes are what a race
  takes; with two frames of RAM and one of swap every access finds each list empty or
  not. Reads that race list a frame of swap any number of times: `SwapListBound` stops `memory` where the
  list has more than two entries, one more than there are frames. The theorem has no such bound. `CHECK_DEADLOCK FALSE`, because the program may end by a crash and a
  bounded program runs out of instructions.
- **Machine**: two processes may be executed at once and reach for the lock
  together; the third computes only, and ends first, so that its PCB is free when
  the last one is loaded. The quantum is one instruction, so a process is put back after each, changes
  CPUs, and becomes known to the system call in the middle of its program.
  `running_list` takes three entries (50 in the code) and overflows. There are two levels because the quota of the
  last one is a single dispatch: with one level the second CPU would find
  nothing. Every page that can be mapped has a frame, so pages are not evicted
  here but in `memory_shared`. Deadlock is checked.

### Fairness

`Timer` and `OS` assume weak fairness of each thread's steps: threads are
scheduled by the operating system and never stop by themselves, and the locks
are held for a bounded time. `Timer` assumes in addition that a device at work
calls `next_slot` or `detach_event` in the end, which the loops of `os.c` do.
`OS` assumes that the timer ends a slot that is over, which is
`SlotReturns` and `TimerEnds` of `Timer`. Nothing is assumed of spurious wakeups. `Served` holds with the
proviso that not all CPUs have stopped; `os_left` shows why the proviso is
needed.

`Machine` assumes less: as long as some thread can take a step, some thread takes
one. `AllServed` follows because a thread has finitely much to do in a slot, so
a slot in which threads go on working ends. The proviso is that of `Served`, and that the
program has not crashed.

## 4. The proofs

Checked by TLAPS from the assumptions on constants (each is named, and TLC
evaluates it in a run) and, where a theorem states them, its own hypotheses on
constants; for these it is said below which runs meet them.

- **`TimerProofs`**. The properties of the timer are not inductive: that nobody
  sleeps on a true condition depends on where the cursor is, which flags the walk
  has passed and how many it has counted. `Inv` adds: the cursor is inside the list
  while the timer thread walks (`CursorOK`), `nfsh` reaches the number of devices passed
  only if all of these have finished (`CountOK`), and what `done` says for a device before and behind the cursor in each
  phase. From it follow the types, `NoLostWakeup` (`Wakeups`), `DoneHandover` (`Handover`), `LockStep` and
  `ParkedAtTick` (`Slots`), and the refinement of the barrier (`Refinement`). `NoDeadlock` says that
  in every reachable state before the end some thread's guards hold, without a spurious wakeup: a lock the timer
  thread waits for is held by a device that can let it go, and a device it sleeps for has work to do
  or was woken up.
- **`ListProofs`**. What the queues, free lists and victim lists have in common: cutting
  an element out, adding one at the head, no element twice, how often an element
  occurs (`Places`), the least and greatest number of a set. `Stepwise` and
  `StepwiseExists` say that a function defined by a recursion over numbers exists and satisfies its
  equation; they take the step as a function, so the provers can use them.
- **`SchedProofs`**. `Best` exists, is a member and has the least priority number; `Dequeue` removes
  exactly that entry and `Enqueue` adds exactly one if there is room. `SchedInv` says that the queues
  hold their own level's processes without repetition and that ready, held and freed are disjoint. From it:
  types, `Exclusive`, `QuotaKept`, and, if the queues can take their level
  (`QueuesFit`), `NoneLost` and the refinement of the pool. `BoundedBypass` is not inductive:
  how often a level can have been passed over depends on where the cursor is. `BypassInv` bounds it by the
  quotas of the levels the cursor has gone through since it left the level (`Passed`) and what is used of the
  current one, and the current level itself by a single `NULL`; `BoundedBypassAlways`
  follows. It assumes more than one level (the code has 140): with a single one, a `NULL` alone
  counts as passing over. `LoopsAgreeAlways` is an induction over the
  iterations of each loop: after n iterations without a find, the scan is n levels
  further (`ScanStates`); the search of `dequeue` is at the first least of what it
  has seen (`SearchFinds`).
- **`OSProofs`**. `OS` is written over the actions of `Sched`, so the theorems of
  `Sched` hold of the whole system (`SystemExclusion`; the lemma `SchedulerUse` says it once). `LoaderInv` and `CPUInv`
  relate the program counters to the slot and the history: `StopsAfterLastHolds`,
  `SystemTypes`, `FullQuantumHolds`, `OncePerSlotHolds`. `OnTime` says that the clock is
  never past the slot the next process is due in, and before it once the loader
  waits at the barrier (`LoadedOnTimeHolds`); `DueSlot` is a recursive function.
- **`PteProofs`**. What `pte_set_fpn` and `pte_set_swap` store is what the readers extract,
  as long as it fits its field, whatever was in the entry before (`PteFpn`, `PteSwap`).
- **`PageTableProofs`**. Different pages have different paths (`SPAN`, by division with remainder).
  The tree stays closed (`TreeClosedAlways`), so a setter changes the answer of
  `pte_get_entry` for its page and no other, and the tree implements the map
  (`ImplementsMap`). That needs the stored numbers to fit their fields; with a wider frame
  number the code cuts it. `SamePlaceAlways` needs no such condition, since both tables cut alike; it says
  nothing of pages that hold the pattern.
- **`MemoryProofs`**. Four groups, each with its own hypotheses, all conditions on constants:
  - *For all programs, all builds, locked or not*: `NoByteForgedAlways` and
    `NoByteLostAlways` (a step is a cut, a move or a join; `CoverStep` says what each does to the
    number of regions over a byte), and the types (`FrameTypes`). `NoByteForged` has two bounds. That a byte is in no
    more regions than `grown` is a count of grants. That it is in at most one more than `missed` needs
    `Below`: above its break a process owns nothing but on account of an `INC_OP` that failed, so a
    growth that works hands out fresh bytes. In particular no byte has two owners as long as every
    `INC_OP` of an `alloc` has raised the break. `MemoryTypes` holds in the build. If
    processes returned their frames (`FREES`), the offset in `0xdeadbeef` would have to be a frame of
    swap, because the pages of `MAP_OP` put that number on the free list; it is 1404407, and swap
    has 65536 frames in the configurations of the repository.
  - *Locked or not, but no page is mapped twice* (`~REMAP`), *frame numbers fit*
    (`RAM_FRAMES <= FPN_SPAN`: 2^13 in `mm.h`) and *growth maps fresh pages*
    (`OrderlyGrowth`: `krnl->mm` is `NULL`, as in the build, or belongs to the only
    process): `VictimsInRamAlways`. Whatever becomes of the free lists, a process's own table and victim list
    are touched by its own access only (`OthersKeep`), and every step that takes an entry out of RAM takes the page off the list.
  - *Accesses exclude each other* (`Serial`: programs that only write, so that `mmvm_lock` does, or
    one CPU, or one process): `SwapNeverEmptyAlways` (a frame of swap is taken only in exchange, so the
    list and the access in the middle of one add up, `SwapCounted`) and, with the conditions above,
    `FramesAlways` and `VictimsAlways`. Neither is inductive alone: that a frame
    taken by an access is nobody else's needs `Alone` (one access at most, and the list it
    has loaded is still the list), that eviction leaves no frame in two entries needs `FifoIsInRam`. An access that
    is loading holds its frame as one page more (`Hold`, `Moving`). Frames of pages that `free_pcb_memph` does not look at
    stay held by the process that has ended (`Keeps`). The
    hypotheses hold in `memory_shared` and `memory_growth`; `memory_race` shows
    what happens without `Serial`, and `memory` goes through states in which a victim finds no frame of swap.
  - *Processes that map pages* (`MapsOnly`: `krnl->mm` is `NULL`, as in the build, no page is mapped twice, and
    programs do not call `SWP_OP` and `IO_WRITE`; `Serial`; `RoomForAll`: RAM has a frame for every page that the
    processes may map): `ImplementsVMMapped`, for any number of processes, found or not, returning frames
    or not. A page that is mapped points at the swap frame of the pattern until its first access, so the argument
    needs that nothing is ever evicted to it. `NeverOut` says so: no entry but the pattern is in swap, and swap is
    blank. It holds because the list of free frames is not empty while a mapped page has no frame
    (`RoomLeft`): by `FramesPartitioned` the frames that are taken hold different pages, and there are
    at most as many as can be mapped, less this one. The offset of the pattern must be a frame of swap, as it is in the run
    `machine`, which meets all hypotheses. In the configurations of the repository it is not (1404407, beyond
    65536): there the first access to a mapped page ends the program (`AccessCrash`).
- **`MachineProofs`**. `Machine` is written over the actions of `OS`, so the theorems of `OS`
  hold whatever the instructions do (`MachineInvariance`). `AccessWithinSlot` is not
  inductive: that a process in an access is on a working CPU does not say that this CPU
  will not end its slot by another instruction. `AccessInv` adds that an
  instruction that was fetched is not over and that the access is the read or
  write its CPU is at (`AccessWithinSlotHolds`). `OwnMemoryOnlyHolds` uses that memory changes only in an
  access that goes on, or where an
  instruction ends (`OwnStep`), `RanOK` of `OS` (a process that has run in this slot is
  with a CPU that waits) and `Exclusive`. `MachineUsesMemory` says that each step is also a step of
  `Memory` or none. The hard part is the lookup: `listed` is there what `running_list`
  says of an address, and `HomeInv` says that two live PCBs have two addresses and that no process is at an
  address before it is loaded, so that scheduling changes `listed` only as
  `Memory` allows. Nothing is assumed of sizes, programs or the build's constants.

  So the theorems of `MemoryProofs` hold of the memory of the machine. `MemP` is that module with `Machine`'s
  variables; `MemoryConstants` shows that `Machine`'s constants are what `Memory` assumes, `MachineMemory`
  that its behaviours are `Memory`'s. `MachineTypeCorrect` (in the build, all variables keep their types),
  `MachineRegions` (no byte forged or lost: no hypotheses), `MachineVictims` (victims are pages in RAM: the
  hypotheses of the second group above), `MachineFrames` (one use per
  frame, victims are the pages in RAM, swap never empty: those of the third) and `MachineVirtualMemory`
  (`ImplementsVM`: those of the fourth) follow. Their hypotheses hold in the run `machine`.

  `MachineNeverStuck` says that threads do not wait for each other in a circle: in every state before the end, a
  CPU or the loader can take a step, or all wait for the end of the slot and the timer can end it. `CPUCan`
  and `LoaderCan` are the guards of their actions. If somebody has `mmvm_lock`, the holder can go on
  (`HolderGoesOn`), because its access is the instruction of a CPU that has not ended its slot
  (`AccessInv`) and has a step at every place it can be at (`PlaceInv`). If nobody has it, every CPU that has not ended
  its slot can go on (`WorkerGoesOn`). `WaitInv` adds that the program has not grown more often than it has executed
  instructions, that a page it is about to map is still fresh, and that a CPU has no process when it calls `get_proc` again.
  It assumes that every program has a line to go on with.

Constants have these assumptions beside their types, and the code has them all: the low bits of an entry
hold a whole number of frame fields (`FitAssumption`: 2^26 and 2^13), `SPAN` is a chain of factors
`WIDTH` (the fields of `mm64.h` meet), page numbers have no bits above the root's index,
`PAGING64_PAGESZ` is a multiple of `PAGING_PAGESZ`, a process has finitely many variables, and there are finitely many CPUs.
An `INSTANCE` does not make TLC evaluate the assumptions of its module, so `Machine` states
those of `Memory` and `Pte` itself, and the run `machine` evaluates them.

Only model-checked: liveness (`SlotReturns`, `TimerEnds`, `Served`, `AllServed`), which is out of the
provers' reach, and `OneOwner` and `VariablesMapped`, which are checked under the contract of the
allocator that no build of the repository meets: what holds of the allocator in every build is
`NoByteForgedAlways`. `ENABLED` is out of reach too, so `NoDeadlock` and `MachineNeverStuck` state the guards. All
other properties of the passing runs are theorems, those of `Memory` and `Machine` under the hypotheses above.

## 5. Not modelled

- Contents byte by byte, sequential devices (`os.c` creates none), and the dumps.
- What the pages hold after `SWP_OP` and `IO_WRITE` of programs: these overwrite any frame,
  so `ImplementsVM` is checked without them (the other properties of `Memory` with them).
- Contents of pages under growth: `ImplementsVM` is checked and proved for pages of `MAP_OP`, the only ones
  that processes of the build can have.
- An unlocked `read` between two frames that an `alloc` takes, and the double `free` of a list node.
- Mapping a page twice (`REMAP`): `MAP_OP` overwrites an entry that holds a frame,
  which is then lost, and the page stays a victim. Any instance with it violates
  `FramesPartitioned` and `FifoIsInRam` at once, and no document of the repository
  says that it should not.
- Addresses beyond the address space: `PAGING_PGN` keeps the 14 bits of the page,
  so pages would be shared.
- Variables outside the symbol table: `get_symrg_byid` admits one index too many
  and `__alloc` checks none.
- Memory that is read before it is set: `vm_freerg_list` of a fresh area and the
  free list of a device without a whole page. The model takes fresh memory to be
  zero; with another value the walk of the list ends the program.
- The syntax of the program files and of the configuration (input).
- The functions of `mm.c` that map ranges for `INC_OP`, compiled out: they are close to those of `mm64.c`,
  with the differences named below. (`vmap_pgd_memset` is in `FlatTable`.)
- `mem.c` (the memory of the build without `MM_PAGING`; nothing calls it), the single
  queue of `sched.c` (`#else` of `MLQ_SCHED`), `purgequeue`, `queue_empty`, `init_pte` (no caller), `paging.c` (not linked).

Disagreements seen while modelling that have no run: a full queue drops a process
silently (`queue.c:15`, against `sched.h:20` "Put a process back to run queue");
`running_list` keeps pointers to freed processes (`sched.c:116`); `krnl->mm` is
never set, so the first `INC_OP` of a process that is found ends the program
(`mm-vm.c:140`, action `AllocCrash`); `IO_READ` and `IO_WRITE` of a process that is
found do, because of the layout of the PCB (`sys_mem.c:84`, `88`, action `AccessCrash`); an
exhausted RAM is not noticed (`mm-vm.c:148`, an unsigned result compared with 0);
all pages of `MAP_OP` claim the same frame of swap, so evicted pages may share it;
a write to a page that is nowhere, or by a process that is not found, stores
nothing and returns 0 (`libmem.c:454`, against `libmem.c:420` "write a region
memory"); `free_pcb_memph` looks at 512 pages of 16384 and leaves the frames of the others allocated
(`libmem.c:499`, `mm64.h:13`); an eviction that finds no frame of swap has taken its victim off the list,
so that the page is never evicted again (`libmem.c:263`, `270`); unlocked reads list frames of swap twice
or lose them (`libmem.c:286`, `mm-memphy.c:153`). In `mm.c` a swapped entry keeps its present
flag, and `free_pcb_memph` of that build looks at this flag first; `vmap_page_range` enlists no victims; and
`alloc_pages_range` keeps the frames it has taken when RAM is exhausted, which that of
`mm64.c` gives back.

## 6. Plan

1. Swap frames that are shared by mapped pages, as an abstract memory that may lose pages; with it,
   what processes see when RAM has less than a frame for every page they map.
2. The single calls of `MEMPHY_get_freefp` of an `alloc` that grows, against unlocked reads.
