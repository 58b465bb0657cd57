------------------------------- MODULE Memory -------------------------------
(***************************************************************************)
(* The memory instructions of the processes (libmem.c) and the system call *)
(* they are built on (sys_mem.c), with the page tables, the frames of RAM  *)
(* and of the active swap device that the processes share.                 *)
(*                                                                         *)
(* alloc, free and write hold mmvm_lock from their first access to the     *)
(* last.  read takes no lock, and the lists of free frames have none       *)
(* either: an access is a step for every list that it reads, and one for   *)
(* every list that it writes.                                              *)
(***************************************************************************)
EXTENDS Regions, Pte, FiniteSets, Functions

CONSTANTS
    Proc, NoProc,
    CPUS,              \* processes that may execute at a time
    RgId,              \* variables of a process
    Sizes, Offsets,    \* operands of alloc, and of read and write
    Ops,               \* of "read" and "write", those the programs contain
    PAGING_PAGESZ, PAGING64_PAGESZ,
    PAGING_MAX_PGN,    \* pages of an address space
    PAGING64_MAX_PGN,  \* pages that free_pcb_memph looks at
    RAM_FRAMES, SWAP_FRAMES,
    Ranges,            \* page ranges <<first, number>> that programs map
    REMAP,             \* whether programs map a page that is mapped already
    CALLS,             \* of "inc", "swp", "in" and "out", the operations of system
                       \* call 17 that programs use besides MAP_OP
    MAX_GROWTH,        \* allocations that do not fit in free regions, per process

    (* What the build decides. *)
    KRNL_MM,           \* the process whose mm krnl->mm is, NoProc for NULL
    SAME_PCB,          \* sys_mem.c and cpu.c agree on the layout of a PCB
    AT_LOAD,           \* what running_list may say of a process just loaded
    FREES              \* free_pcb_memph is called when a process ends

ASSUME NoProcAssumption == NoProc \notin Proc /\ KRNL_MM \in Proc \cup {NoProc}
ASSUME PageSizeAssumption ==
    /\ PAGING_MAX_PGN \in Nat \ {0} /\ PAGING64_MAX_PGN \in Nat
    /\ PAGING_PAGESZ \in Nat \ {0}
    /\ PAGING64_PAGESZ \in Nat \ {0}
    /\ PAGING64_PAGESZ % PAGING_PAGESZ = 0
ASSUME DeviceAssumption == RAM_FRAMES \in Nat \ {0} /\ SWAP_FRAMES \in Nat \ {0}
ASSUME BuildAssumption ==
    SAME_PCB \in BOOLEAN /\ FREES \in BOOLEAN /\ AT_LOAD \subseteq BOOLEAN
ASSUME RgIdAssumption == IsFiniteSet(RgId)
ASSUME OperandAssumption ==
    /\ Sizes \subseteq Nat \ {0}
    /\ Offsets \subseteq Nat
    /\ MAX_GROWTH \in Nat

VARIABLES
    symrgtbl,          \* symrgtbl[p][rg], the region of a variable
    freerg,            \* vm_freerg_list of p's memory area
    sbrk,              \* its break
    grown,             \* INC_OP calls p has made
    missed,            \* of its allocs, those whose INC_OP did not raise its break
                       \* (a history variable: the code keeps no such count)
    pte,               \* pte[p][pgn]; PageTable shows that the tree is this map
    fifo,              \* fifo_pgn of p, newest first
    mram, mswp,        \* the free frames of RAM and of swap
    ram, swp,          \* what each frame holds: the page it was written as
    acc,               \* the access p is in the middle of
    lock,              \* holder of mmvm_lock
    listed,            \* whether sys_memmap finds p
    ended,             \* processes whose program has ended
    crashed

regionVars == <<symrgtbl, freerg, sbrk, grown, missed>>
frameVars  == <<pte, fifo, mram, mswp, ram, swp>>
procVars   == <<listed, ended>>
vars == <<regionVars, frameVars, acc, lock, procVars, crashed>>

Page == 0 .. PAGING_MAX_PGN - 1
RamFrame == 0 .. RAM_FRAMES - 1
SwapFrame == 0 .. SWAP_FRAMES - 1

\* PAGING_PGN keeps the bits of the page number only.
PAGING_PGN(addr) == (addr \div PAGING_PAGESZ) % PAGING_MAX_PGN

\* An access is at the entry of its "page" and the list of RAM, whose head it has
\* loaded, at the list of "swap", of which it wants a frame for its victim, before
\* the "load" of the page, at the list of swap again, to "put" a frame back, or at
\* the "io".  `free' is the list it has loaded; the page moves from swap frame
\* `from' to RAM frame `to'.
InAccess(op, pgn, at, free, from, to) ==
    [op |-> op, pgn |-> pgn, at |-> at, free |-> free, from |-> from, to |-> to]
Idle == InAccess("none", 0, "page", <<>>, 0, 0)
Blank == <<NoProc, 0>>

\* init_mm for every process, init_memphy for the devices
Init ==
    /\ symrgtbl = [p \in Proc |-> [rg \in RgId |-> NoRg]]
    /\ freerg = [p \in Proc |-> <<NoRg>>]
    /\ sbrk = [p \in Proc |-> 0]
    /\ grown = [p \in Proc |-> 0]
    /\ missed = [p \in Proc |-> 0]
    /\ pte = [p \in Proc |-> [g \in Page |-> NoPte]]
    /\ fifo = [p \in Proc |-> <<>>]
    /\ mram = [i \in 1 .. RAM_FRAMES |-> i - 1]
    /\ mswp = [i \in 1 .. SWAP_FRAMES |-> i - 1]
    /\ ram = [f \in RamFrame |-> Blank]
    /\ swp = [f \in SwapFrame |-> Blank]
    /\ acc = [p \in Proc |-> Idle]
    /\ lock = NoProc
    /\ listed \in [Proc -> AT_LOAD]
    /\ ended = {}
    /\ crashed = FALSE

\* How pg_getpage takes an entry: swapped goes first.
Absent(e)  == ~e.present /\ ~e.swapped
Present(e) == e.present /\ ~e.swapped

\* p may begin an instruction: it is not in one, and a CPU is free for it.
Ready(p) ==
    /\ ~crashed
    /\ p \notin ended
    /\ acc[p] = Idle
    /\ Cardinality({q \in Proc : acc[q] # Idle}) < CPUS

\* An invalid access ends the program, with all its processes.
Crash ==
    /\ crashed' = TRUE
    /\ UNCHANGED <<regionVars, frameVars, acc, lock, procVars>>

-----------------------------------------------------------------------------
(* alloc: a free region, or new addresses at the break *)

AllocFree(p, rg, size) ==
    LET i == FirstFit(freerg[p], size)
        s == freerg[p][i].rg_start
    IN /\ Ready(p) /\ lock = NoProc
       /\ i # 0
       /\ symrgtbl' = [symrgtbl EXCEPT ![p][rg] = Rg(s, s + size)]
       /\ freerg' = [freerg EXCEPT ![p] = Carve(@, i, size)]
       /\ UNCHANGED <<sbrk, grown, missed, frameVars, acc, lock, procVars, crashed>>

\* enlist_pgn_node: the newest page first
EnlistPgn(list, pgn) == <<pgn>> \o list

\* __swap_cp_page: frame s of one device is copied over frame d of another
CopyPage(src, s, dst, d) == [dst EXCEPT ![d] = src[s]]

\* (mutant: the last frame taken stays on the list)
FramesLeftOver(n) == SubSeq(mram, n, Len(mram))

\* The free list after n calls of MEMPHY_get_freefp
FramesLeft(n) == SubSeq(mram, n + 1, Len(mram))

\* alloc_pages_range and vmap_page_range map n pages from addr on.  The list of
\* frames is built from its end, so the first page gets the last frame.  If
\* there are not enough, all go back as they were.
MapRam(p, addr, n) ==
    LET page(i) == PAGING_PGN(addr + i * PAGING_PAGESZ)
        new == {page(i) : i \in 0 .. n - 1}
    IN IF Len(mram) < n
       THEN UNCHANGED <<pte, fifo, mram>>
       ELSE /\ mram' = FramesLeft(n)
            /\ pte' = [pte EXCEPT ![p] = [g \in Page |->
                 IF g \in new
                 THEN WithFpn(@[g], mram[n - Max({i \in 0 .. n - 1 : page(i) = g})])
                 ELSE @[g]]]
            /\ fifo' = [fifo EXCEPT ![p] = [i \in 1 .. n |-> page(n - i)] \o @]

\* inc_vma_limit raises the break of krnl->mm, whatever vm_map_ram returned: the
\* result is unsigned, and never negative.
IncVmaLimit(p, inc_sz) ==
    LET pages == (inc_sz + PAGING_PAGESZ - 1) \div PAGING_PAGESZ
    IN /\ MapRam(p, sbrk[KRNL_MM], pages)
       /\ sbrk' = [sbrk EXCEPT ![KRNL_MM] = @ + pages * PAGING_PAGESZ]

\* (mutant: rounds down)
RoundDown(size) == (size \div PAGING64_PAGESZ) * PAGING64_PAGESZ

RoundUp(size) ==
    ((size + PAGING64_PAGESZ - 1) \div PAGING64_PAGESZ) * PAGING64_PAGESZ

AllocGrow(p, rg, size) ==
    LET brk == sbrk[p]
        grow == RoundUp(size)
    IN /\ Ready(p) /\ lock = NoProc
       /\ FirstFit(freerg[p], size) = 0
       /\ grown[p] < MAX_GROWTH
       /\ listed[p] => KRNL_MM # NoProc
       /\ IF listed[p] THEN IncVmaLimit(p, grow)
                       ELSE UNCHANGED <<sbrk, pte, fifo, mram>>
       /\ symrgtbl' = [symrgtbl EXCEPT ![p][rg] = Rg(brk, brk + size)]
       /\ freerg' = [freerg EXCEPT ![p] = Enlist(@, Rg(brk + size, brk + grow))]
       /\ grown' = [grown EXCEPT ![p] = @ + 1]
       /\ missed' = IF listed[p] /\ KRNL_MM = p THEN missed
                    ELSE [missed EXCEPT ![p] = @ + 1]
       /\ UNCHANGED <<mswp, ram, swp, acc, lock, procVars, crashed>>

\* The same if krnl->mm is NULL and the system call finds the process.
AllocCrash(p, size) ==
    /\ Ready(p) /\ lock = NoProc
    /\ FirstFit(freerg[p], size) = 0
    /\ grown[p] < MAX_GROWTH
    /\ listed[p] /\ KRNL_MM = NoProc
    /\ Crash

-----------------------------------------------------------------------------
\* (mutant: the entry of the variable is not reset)
FreeKeepsEntry(p, rg) ==
    /\ Ready(p) /\ lock = NoProc
    /\ symrgtbl[p][rg] # NoRg
    /\ freerg' = [freerg EXCEPT ![p] = Enlist(@, symrgtbl[p][rg])]
    /\ UNCHANGED <<symrgtbl, sbrk, grown, missed, frameVars, acc, lock, procVars, crashed>>

\* free: a variable without a region is left alone
Free(p, rg) ==
    /\ Ready(p) /\ lock = NoProc
    /\ symrgtbl[p][rg] # NoRg
    /\ freerg' = [freerg EXCEPT ![p] = Enlist(@, symrgtbl[p][rg])]
    /\ symrgtbl' = [symrgtbl EXCEPT ![p][rg] = NoRg]
    /\ UNCHANGED <<sbrk, grown, missed, frameVars, acc, lock, procVars, crashed>>

\* syscall 17 with MAP_OP: the entries of a range of pages become the pattern.
\* The frames and the list of pages are not looked at.
MapOp(p, range) ==
    LET new == {(range[1] + i) % PAGING_MAX_PGN : i \in 0 .. range[2] - 1}
    IN /\ Ready(p)
       /\ listed[p]
       /\ REMAP \/ \A g \in new : pte[p][g] = NoPte
       /\ pte' = [pte EXCEPT ![p] =
                    [g \in Page |-> IF g \in new THEN Pattern ELSE @[g]]]
       /\ UNCHANGED <<regionVars, fifo, mram, mswp, ram, swp, acc, lock, procVars, crashed>>

\* SWP_OP: RAM frame f is copied over swap frame s, whatever they hold.
SwpOp(p, f, s) ==
    /\ "swp" \in CALLS
    /\ Ready(p) /\ listed[p]
    /\ swp' = CopyPage(ram, f, swp, s)
    /\ UNCHANGED <<regionVars, pte, fifo, mram, mswp, ram, acc, lock, procVars, crashed>>

\* IO_WRITE at an address in frame f, which no longer holds what was written to
\* the page it may belong to.
IoWrite(p, f) ==
    /\ "out" \in CALLS
    /\ Ready(p) /\ listed[p] /\ SAME_PCB
    /\ ram' = [ram EXCEPT ![f] = Blank]
    /\ UNCHANGED <<regionVars, pte, fifo, mram, mswp, swp, acc, lock, procVars, crashed>>

\* INC_OP, without mmvm_lock
IncOp(p, inc_sz) ==
    /\ "inc" \in CALLS
    /\ Ready(p) /\ listed[p] /\ KRNL_MM # NoProc
    /\ grown[p] < MAX_GROWTH
    /\ IncVmaLimit(p, inc_sz)
    /\ grown' = [grown EXCEPT ![p] = @ + 1]
    /\ UNCHANGED <<symrgtbl, freerg, missed, mswp, ram, swp, acc, lock, procVars, crashed>>

\* The calls that end the program: krnl->mm is NULL, or IO_READ and IO_WRITE take
\* the devices from a PCB of another layout.
CallCrash(p) ==
    /\ Ready(p) /\ listed[p]
    /\ \/ "inc" \in CALLS /\ KRNL_MM = NoProc
       \/ {"in", "out"} \cap CALLS # {} /\ ~SAME_PCB
    /\ Crash

-----------------------------------------------------------------------------
(* What the scheduler and the CPUs do to a process between its instructions. *)

\* The scheduler puts p back, and with that into running_list for good.
PutBack(p) ==
    /\ ~crashed /\ acc[p] = Idle /\ p \notin ended
    /\ listed' = [listed EXCEPT ![p] = TRUE]
    /\ UNCHANGED <<regionVars, frameVars, acc, lock, ended, crashed>>

\* The pages free_pcb_memph looks at: not all that a process may have.
Looked == {g \in Page : g < PAGING64_MAX_PGN}

\* The frames it gives back to RAM, and to swap, by page.
ReturnedRam(p) ==
    [g \in {h \in Looked : Present(pte[p][h])} |-> PAGING_FPN(pte[p][g])]
ReturnedSwap(p) ==
    [g \in {h \in Looked : pte[p][h].swapped} |-> PAGING_SWP(pte[p][g])]

\* The loop goes up, and every frame goes to the head of the list: the highest page
\* comes first.
Giving(frame, free) ==
    LET down == CHOOSE s \in [1 .. Cardinality(DOMAIN frame) -> DOMAIN frame] :
                    \A k, l \in DOMAIN s : k < l => s[k] > s[l]
    IN [k \in DOMAIN down |-> frame[down[k]]] \o free

\* The program of p has ended: its PCB is freed, and no pid in running_list is
\* its any more.  Its frames go back if free_pcb_memph is called.
End(p) ==
    /\ ~crashed /\ acc[p] = Idle /\ p \notin ended
    /\ ended' = ended \cup {p}
    /\ listed' = [listed EXCEPT ![p] = FALSE]
    /\ IF FREES
       THEN /\ lock = NoProc
            /\ mram' = Giving(ReturnedRam(p), mram)
            /\ mswp' = Giving(ReturnedSwap(p), mswp)
       ELSE UNCHANGED <<mram, mswp>>
    /\ UNCHANGED <<regionVars, pte, fifo, ram, swp, acc, lock, crashed>>

-----------------------------------------------------------------------------
(* read and write: the variable's bounds, then the page *)

\* (mutant: write does not wait for the lock)
BeginUnlocked(p, op, rg, off) ==
    LET r == symrgtbl[p][rg] IN
    /\ Ready(p)
    /\ off < r.rg_end - r.rg_start
    /\ acc' = [acc EXCEPT ![p] =
                 InAccess(op, PAGING_PGN(r.rg_start + off), "page", mram, 0, 0)]
    /\ lock' = lock
    /\ UNCHANGED <<regionVars, frameVars, procVars, crashed>>

\* __read and __write up to the free list of RAM, whose head pg_getpage loads.
Begin(p, op, rg, off) ==
    LET r == symrgtbl[p][rg] IN
    /\ Ready(p)
    /\ off < r.rg_end - r.rg_start
    /\ op = "write" => lock = NoProc
    /\ acc' = [acc EXCEPT ![p] =
                 InAccess(op, PAGING_PGN(r.rg_start + off), "page", mram, 0, 0)]
    /\ lock' = IF op = "write" THEN p ELSE lock
    /\ UNCHANGED <<regionVars, frameVars, procVars, crashed>>

\* The page of the access p is in, and its entry.
Pgn(p) == acc[p].pgn
Entry(p) == pte[p][Pgn(p)]

\* (mutant: __write keeps the lock if the page is nowhere)
DoneLocked(p) ==
    /\ acc' = [acc EXCEPT ![p] = Idle]
    /\ lock' = IF lock = p /\ ~Absent(Entry(p)) THEN NoProc ELSE lock
    /\ UNCHANGED <<regionVars, procVars, crashed>>

\* The access is over; __write releases the lock.
Done(p) ==
    /\ acc' = [acc EXCEPT ![p] = Idle]
    /\ lock' = IF lock = p THEN NoProc ELSE lock
    /\ UNCHANGED <<regionVars, procVars, crashed>>

\* IO_WRITE and IO_READ on frame f, if the system call finds the process.
Stores(p) == acc[p].op = "write" /\ listed[p]

\* The system call uses a PCB that it sees as the rest of the code does, and
\* frame f exists.
CanStore(p, f) == listed[p] => SAME_PCB /\ f \in RamFrame

\* p is in an access, at one of these places.
AccessAt(p, places) == acc[p] # Idle /\ acc[p].at \in places /\ ~crashed

\* The access goes on at another place; only p's own data and the lists change.
GoesOn(p, at, free, from, to) ==
    /\ acc' = [acc EXCEPT ![p] = InAccess(@.op, @.pgn, at, free, from, to)]
    /\ UNCHANGED <<regionVars, lock, procVars, crashed>>

\* pg_getpage of a page that is nowhere fails, and so does the access; the
\* caller of __write is not told.
AccessAbsent(p) ==
    /\ AccessAt(p, {"page"})
    /\ Absent(Entry(p))
    /\ Done(p)
    /\ UNCHANGED frameVars

AccessPresent(p) ==
    /\ AccessAt(p, {"page", "io"})
    /\ Present(Entry(p))
    /\ CanStore(p, PAGING_FPN(Entry(p)))
    /\ ram' = IF Stores(p) THEN [ram EXCEPT ![PAGING_FPN(Entry(p))] = <<p, Pgn(p)>>]
              ELSE ram
    /\ Done(p)
    /\ UNCHANGED <<pte, fifo, mram, mswp, swp>>

\* A swapped page, and the free list was not empty: it gets the frame that was
\* at its head.
AccessFrame(p) ==
    /\ AccessAt(p, {"page"})
    /\ Entry(p).swapped
    /\ acc[p].free # <<>>
    /\ mram' = Tail(acc[p].free)
    /\ GoesOn(p, "load", <<>>, PAGING_SWP(Entry(p)), Head(acc[p].free))
    /\ UNCHANGED <<pte, fifo, mswp, ram, swp>>

\* Otherwise the oldest page of p makes room, if it has one in RAM.
NeedsVictim(p) ==
    /\ AccessAt(p, {"page"})
    /\ Entry(p).swapped
    /\ acc[p].free = <<>>

Victim(p) == Last(fifo[p])

\* (mutant: the victim stays in the list)
VictimStays(p) == fifo[p]

WithoutVictim(p) == Front(fifo[p])

AccessNoVictim(p) ==
    /\ NeedsVictim(p)
    /\ fifo[p] = <<>>
    /\ Done(p)
    /\ UNCHANGED frameVars

AccessVictim(p) ==
    /\ NeedsVictim(p)
    /\ fifo[p] # <<>>
    /\ GoesOn(p, "swap", mswp, 0, 0)
    /\ UNCHANGED frameVars

\* There was no free frame of swap: the access fails, and the victim, which stays
\* in RAM, is no longer on the list.
AccessNoSwap(p) ==
    /\ AccessAt(p, {"swap"})
    /\ acc[p].free = <<>>
    /\ fifo' = [fifo EXCEPT ![p] = WithoutVictim(p)]
    /\ Done(p)
    /\ UNCHANGED <<pte, mram, mswp, ram, swp>>

\* The victim goes to the frame of swap, and its frame of RAM to the page.
AccessEvict(p) ==
    LET f == PAGING_FPN(pte[p][Victim(p)])
        s == Head(acc[p].free)
    IN /\ AccessAt(p, {"swap"})
       /\ acc[p].free # <<>>
       /\ f \in RamFrame
       /\ mswp' = Tail(acc[p].free)
       /\ swp' = IF listed[p] THEN CopyPage(ram, f, swp, s) ELSE swp
       /\ pte' = [pte EXCEPT ![p][Victim(p)] = WithSwap(@, 0, s)]
       /\ fifo' = [fifo EXCEPT ![p] = WithoutVictim(p)]
       /\ GoesOn(p, "load", <<>>, PAGING_SWP(Entry(p)), f)
       /\ UNCHANGED <<mram, ram>>

\* __swap_cp_page
AccessLoad(p) ==
    /\ AccessAt(p, {"load"})
    /\ acc[p].from \in SwapFrame
    /\ ram' = CopyPage(swp, acc[p].from, ram, acc[p].to)
    /\ GoesOn(p, "put", mswp, acc[p].from, acc[p].to)
    /\ UNCHANGED <<pte, fifo, mram, mswp, swp>>

\* (mutant: the frame is not put back)
PutNowhere(free, fpn) == free

\* MEMPHY_put_freefp
PutFree(free, fpn) == <<fpn>> \o free

\* The page's frame of swap is free again, and the page the newest one in RAM.
AccessPut(p) ==
    /\ AccessAt(p, {"put"})
    /\ mswp' = PutFree(acc[p].free, acc[p].from)
    /\ pte' = [pte EXCEPT ![p][Pgn(p)] = WithFpn(@, acc[p].to)]
    /\ fifo' = [fifo EXCEPT ![p] = EnlistPgn(@, Pgn(p))]
    /\ GoesOn(p, "io", <<>>, 0, 0)
    /\ UNCHANGED <<mram, ram, swp>>

\* An access that reaches outside a device, or a PCB read with another layout.
AccessCrash(p) ==
    /\ \/ /\ AccessAt(p, {"page", "io"})
          /\ Present(Entry(p)) /\ ~CanStore(p, PAGING_FPN(Entry(p)))
       \/ /\ AccessAt(p, {"swap"})
          /\ acc[p].free # <<>> /\ PAGING_FPN(pte[p][Victim(p)]) \notin RamFrame
       \/ AccessAt(p, {"load"}) /\ acc[p].from \notin SwapFrame
    /\ Crash

\* The access ends in this step, or goes on.
AccessReturns(p) ==
    AccessAbsent(p) \/ AccessPresent(p) \/ AccessNoVictim(p) \/ AccessNoSwap(p)
AccessGoesOn(p) ==
    \/ AccessFrame(p) \/ AccessVictim(p) \/ AccessEvict(p) \/ AccessLoad(p)
    \/ AccessPut(p)
Access(p) == AccessReturns(p) \/ AccessGoesOn(p) \/ AccessCrash(p)

Next ==
    \E p \in Proc :
        \/ \E rg \in RgId, size \in Sizes : AllocFree(p, rg, size) \/ AllocGrow(p, rg, size)
        \/ \E size \in Sizes : AllocCrash(p, size) \/ IncOp(p, size)
        \/ \E rg \in RgId : Free(p, rg)
        \/ \E range \in Ranges : MapOp(p, range)
        \/ \E f \in RamFrame : IoWrite(p, f) \/ \E s \in SwapFrame : SwpOp(p, f, s)
        \/ CallCrash(p)
        \/ PutBack(p) \/ End(p)
        \/ \E op \in Ops, rg \in RgId, off \in Offsets : Begin(p, op, rg, off)
        \/ Access(p)

Spec == Init /\ [][Next]_vars

-----------------------------------------------------------------------------
\* The variables keep their types.
TypeOK ==
    /\ symrgtbl \in [Proc -> [RgId -> [rg_start : Nat, rg_end : Nat]]]
    /\ freerg \in [Proc -> Seq([rg_start : Nat, rg_end : Nat])]
    /\ sbrk \in [Proc -> Nat] /\ grown \in [Proc -> Nat]
    /\ pte \in [Proc -> [Page -> PTE]]
    /\ fifo \in [Proc -> Seq(Page)]
    /\ mram \in Seq(RamFrame) /\ mswp \in Seq(SwapFrame)
    /\ ram \in [RamFrame -> (Proc \X Page) \cup {Blank}]
    /\ swp \in [SwapFrame -> (Proc \X Page) \cup {Blank}]
    /\ missed \in [Proc -> Nat]
    /\ \A p \in Proc : acc[p] = Idle \/
         /\ acc[p].op \in Ops /\ acc[p].pgn \in Page
         /\ acc[p].at \in {"page", "swap", "load", "put", "io"}
         /\ acc[p].free \in Seq(IF acc[p].at = "page" THEN RamFrame ELSE SwapFrame)
         /\ acc[p].from \in SwapFrame \cup {PAGING_SWP(Pattern)}
         /\ acc[p].to \in RamFrame
    /\ lock \in Proc \cup {NoProc}
    /\ listed \in [Proc -> BOOLEAN] /\ ended \in SUBSET Proc /\ crashed \in BOOLEAN

\* How many variables and free regions of p contain address b.
Cover(p, b) ==
    Cardinality({rg \in RgId : Holds(symrgtbl[p][rg], b)})
      + Cardinality({i \in DOMAIN freerg[p] : Holds(freerg[p][i], b)})

Addr == 0 .. PAGING_MAX_PGN * PAGING_PAGESZ - 1

\* Whatever a process allocates and frees, in whatever order, a byte belongs to at
\* most one of its variables and free regions, and to that only once.
OneOwner ==
    \A p \in Proc : \A b \in Addr : Cover(p, b) <= 1

\* A byte is handed out at most as often as the process has asked the kernel for
\* memory, and at most once more than it was told of new memory while its break
\* stayed: cutting, freeing and enlisting regions, in whatever order, never gives
\* a byte to two owners, so two variables overlap only after an INC_OP that did
\* not do what alloc takes for granted.
NoByteForged ==
    \A p \in Proc : \A b \in Addr :
        Cover(p, b) <= grown[p] /\ Cover(p, b) <= 1 + missed[p]

\* A byte leaves both the variables and the free list only when alloc gives a new
\* region to a variable that still has one containing it.
NoByteLost ==
    [][\A p \in Proc : \A b \in Addr :
         Cover(p, b)' >= Cover(p, b)
         \/ \E rg \in RgId : Holds(symrgtbl[p][rg], b) /\ symrgtbl'[p][rg] # NoRg]_vars

\* The pages of p that are in RAM.
InRam(p) == {g \in Page : Present(pte[p][g])}

\* The pages that keep their frames: also those of a process that has ended, but
\* for those that free_pcb_memph looks at, if it is called.
Keeps(p, g) == g \in InRam(p) /\ (FREES /\ p \in ended => g \notin Looked)

\* Every frame of RAM is on the free list, once, or holds exactly one page of one
\* process, or is the one that the access of a process is about to load its page
\* into.  The end of a process gives back the frames of the pages that are looked
\* at, and no frame of another process; the rest is never free again.
FramesPartitioned ==
    LET used == {u \in Proc \X Page : Keeps(u[1], u[2])}
        frame(u) == PAGING_FPN(pte[u[1]][u[2]])
        loading == {q \in Proc : acc[q].at \in {"load", "put"}}
        taken == {frame(u) : u \in used} \cup {acc[q].to : q \in loading}
    IN /\ IsInjective(mram)
       /\ \A u, v \in used : frame(u) = frame(v) => u = v
       /\ \A q \in loading, u \in used : acc[q].to # frame(u)
       /\ \A q, r \in loading : acc[q].to = acc[r].to => q = r
       /\ Range(mram) \cap taken = {}
       /\ Range(mram) \cup taken = RamFrame

\* The candidates for eviction of a process are its pages in RAM, each once.
FifoIsInRam ==
    \A p \in Proc : IsInjective(fifo[p]) /\ Range(fifo[p]) = InRam(p)

\* However the accesses of processes race for frames, the candidates for eviction of
\* a process are pages of its own in RAM, each once: no page that is gone is evicted
\* again, and no frame copied out for a page that it does not hold.
VictimsInRam ==
    \A p \in Proc : IsInjective(fifo[p]) /\ Range(fifo[p]) \subseteq InRam(p)

\* Swap has a frame for every victim, because no access takes one without returning
\* one, over any number of evictions: no page is lost from the list of its process
\* with its access failing.
SwapNeverEmpty == \A p \in Proc : AccessAt(p, {"swap"}) => acc[p].free # <<>>

\* What the page of entry e holds.
Contents(e) == IF e.swapped THEN swp[PAGING_SWP(e)] ELSE ram[PAGING_FPN(e)]

\* A process sees a memory of its own: what is in RAM and swap is, for each page
\* of each process, what that process wrote to it last, through load and eviction
\* and whatever other processes do.
Unmapped == <<NoProc, 1>>
Written(p, g) == <<p, g>>
VM == INSTANCE VirtualMemory WITH
        Value <- (Proc \X Page) \cup {Blank},
        mem <- [p \in Proc |-> [g \in Page |->
                  IF p \in ended \/ Absent(pte[p][g]) THEN Unmapped
                  ELSE Contents(pte[p][g])]]
ImplementsVM == VM!Spec

\* Every page of a variable is in RAM or in swap: the memory that inc_vma_limit
\* adds to a process is there.
Pages(r) == {PAGING_PGN(b) : b \in r.rg_start .. r.rg_end - 1}
VariablesMapped ==
    \A p \in Proc : \A rg \in RgId : \A g \in Pages(symrgtbl[p][rg]) :
        ~Absent(pte[p][g])
=============================================================================
