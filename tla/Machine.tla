------------------------------- MODULE Machine -------------------------------
(***************************************************************************)
(* The whole simulator: the threads of os.c (OS) execute the instructions  *)
(* of the processes (cpu.c, loader.c), which work on the memory they share *)
(* (Memory).  The two meet in three places.  A CPU executes an instruction *)
(* in a slot, between its last look at `proc' and next_slot.  The system   *)
(* call below the memory instructions looks for its caller in the          *)
(* scheduler's running_list.  And a CPU ends a process and frees its PCB.  *)
(***************************************************************************)
EXTENDS OS

CONSTANT Opcodes       \* Opcodes[p], the kinds of instructions in p's program

CONSTANTS              \* see Memory and Pte
    RgId, Sizes, Offsets, Ops, Ranges, REMAP, MAX_GROWTH,
    PAGING_PAGESZ, PAGING64_PAGESZ, PAGING_MAX_PGN, PAGING64_MAX_PGN, RAM_FRAMES,
    SWAP_FRAMES, KRNL_MM, SAME_PCB, FREES, FPN_SPAN, SWPTYP_SPAN, SWPOFF_SPAN, PATTERN_LOW

\* No process runs out of growths.
ASSUME GrowthAssumption == \A p \in Proc : Size[p] <= MAX_GROWTH
ASSUME OpsAssumption == Ops \subseteq {"read", "write"}

\* There are num_cpus CPUs.
ASSUME CPUFiniteAssumption == IsFiniteSet(CPU)

\* What Memory and Pte assume of the constants they share with this module.
ASSUME KernelAssumption == KRNL_MM \in Proc \cup {NoProc}
ASSUME PageSizeAssumption ==
    /\ PAGING_MAX_PGN \in Nat \ {0} /\ PAGING64_MAX_PGN \in Nat
    /\ PAGING_PAGESZ \in Nat \ {0} /\ PAGING64_PAGESZ \in Nat \ {0}
    /\ PAGING64_PAGESZ % PAGING_PAGESZ = 0
ASSUME DeviceAssumption == RAM_FRAMES \in Nat \ {0} /\ SWAP_FRAMES \in Nat \ {0}
ASSUME BuildAssumption == SAME_PCB \in BOOLEAN /\ FREES \in BOOLEAN
ASSUME RgIdAssumption == IsFiniteSet(RgId)
ASSUME OperandAssumption ==
    Sizes \subseteq Nat \ {0} /\ Offsets \subseteq Nat /\ MAX_GROWTH \in Nat
ASSUME SpanAssumption ==
    /\ FPN_SPAN \in Nat \ {0}
    /\ SWPTYP_SPAN \in Nat \ {0} /\ SWPOFF_SPAN \in Nat \ {0}
ASSUME FitAssumption ==
    /\ PATTERN_LOW \in 0 .. SWPTYP_SPAN * SWPOFF_SPAN - 1
    /\ (SWPTYP_SPAN * SWPOFF_SPAN) % FPN_SPAN = 0

VARIABLES
    symrgtbl, freerg, sbrk, grown, missed, pte, fifo, mram, mswp, ram, swp, acc, lock,
    crashed,           \* see Memory
    ins,               \* ins[c], the instruction that run is in on CPU c
    home               \* home[p], the address of p's PCB, NoProc before load

memVars == <<symrgtbl, freerg, sbrk, grown, missed, pte, fifo, mram, mswp, ram, swp,
             acc, lock, crashed>>
machineVars == <<vars, memVars, ins, home>>

\* The lookup of sys_memmap.  An entry of running_list is an address; the process
\* it finds is the one whose PCB is there now.  An address is named by the first
\* process that was there.
listed ==
    [p \in Proc |-> /\ home[p] # NoProc /\ p \notin freed
                    /\ \E q \in ToSet(running_list) : home[q] = home[p]]

Mem == INSTANCE Memory WITH
         CPUS <- Cardinality(CPU), CALLS <- {}, AT_LOAD <- {FALSE}, ended <- freed

-----------------------------------------------------------------------------
(* Instructions *)

NoIns == <<>>

\* What a line of a program may say.  "calc" stands for every instruction without
\* an effect: CALC, listsyscall, an unknown system call.
Code ==
    {<<"calc">>}
      \cup {<<"alloc", rg, size>> : rg \in RgId, size \in Sizes}
      \cup {<<"free", rg>> : rg \in RgId}
      \cup {<<op, rg, off>> : op \in Ops, rg \in RgId, off \in Offsets}
      \cup {<<"map", range>> : range \in Ranges}

Fresh(p, range) ==
    \A g \in {(range[1] + k) % PAGING_MAX_PGN : k \in 0 .. range[2] - 1} :
        pte[p][g] = Mem!NoPte

\* The variables keep their types.
TypeOKMachine ==
    /\ TypeOK
    /\ Mem!TypeOK
    /\ ins \in [CPU -> Code \cup {NoIns}]
    /\ home \in [Proc -> Proc \cup {NoProc}]

MachineInit ==
    /\ Init
    /\ ins = [c \in CPU |-> NoIns]
    /\ home = [p \in Proc |-> NoProc]
    /\ Mem!Init

\* run takes the next line of the program.  A program maps a page once, unless
\* REMAP.
Fetch(c) ==
    /\ At(c, "recheck") /\ HasProc(c) /\ ~Finished(c)
    /\ ins[c] = NoIns
    /\ \E line \in Code :
        /\ line[1] \in Opcodes[proc[c]]
        /\ line[1] = "map" => REMAP \/ Fresh(proc[c], line[2])
        /\ ins' = [ins EXCEPT ![c] = line]
    /\ UNCHANGED <<vars, memVars, home>>

\* CPU c is at an instruction of this kind.
Is(c, opcode) == At(c, "recheck") /\ ins[c] # NoIns /\ ins[c][1] = opcode

\* (mutant: the slot is not given up)
EndInsOn(c) ==
    /\ RunOn(c)
    /\ ins' = [ins EXCEPT ![c] = NoIns]
    /\ UNCHANGED home

\* run returns; time_left--, next_slot
EndIns(c) ==
    /\ Run(c)
    /\ ins' = [ins EXCEPT ![c] = NoIns]
    /\ UNCHANGED home

\* The process stays in its instruction, or the program ends in it.
Still == UNCHANGED <<vars, ins, home>>

\* calc, and what run does with a program that is over
ExecCalc(c) ==
    /\ Is(c, "calc") \/ (At(c, "recheck") /\ HasProc(c) /\ Finished(c))
    /\ EndIns(c)
    /\ UNCHANGED memVars

\* liballoc
ExecAlloc(c) ==
    LET p == proc[c] rg == ins[c][2] size == ins[c][3] IN
    /\ Is(c, "alloc")
    /\ \/ EndIns(c) /\ (Mem!AllocFree(p, rg, size) \/ Mem!AllocGrow(p, rg, size))
       \/ Still /\ Mem!AllocCrash(p, size)

\* libfree
ExecFree(c) ==
    LET p == proc[c] rg == ins[c][2] IN
    /\ Is(c, "free")
    /\ EndIns(c)
    /\ \/ Mem!Free(p, rg)
       \/ /\ symrgtbl[p][rg] = Mem!NoRg /\ lock = NoProc
          /\ UNCHANGED memVars

\* libread and libwrite: the bounds are looked at, and the access begins ...
ExecBegin(c) ==
    LET p == proc[c] rg == ins[c][2] off == ins[c][3]
        r == symrgtbl[p][rg]
    IN /\ Is(c, "read") \/ Is(c, "write")
       /\ \/ Still /\ Mem!Begin(p, ins[c][1], rg, off)
          \/ /\ EndIns(c)
             /\ acc[p] = Mem!Idle /\ off >= r.rg_end - r.rg_start
             /\ ins[c][1] = "write" => lock = NoProc
             /\ UNCHANGED memVars

\* ... and goes on until it returns.
ExecAccess(c) ==
    LET p == proc[c] IN
    /\ Is(c, "read") \/ Is(c, "write")
    /\ \/ EndIns(c) /\ Mem!AccessReturns(p)
       \/ Still /\ (Mem!AccessGoesOn(p) \/ Mem!AccessCrash(p))

\* libsyscall, to system call 17
ExecSyscall(c) ==
    LET p == proc[c] IN
    /\ Is(c, "map")
    /\ EndIns(c)
    /\ \/ Mem!MapOp(p, ins[c][2])
       \/ ~listed[p] /\ UNCHANGED memVars

Exec(c) ==
    \/ Fetch(c) \/ ExecCalc(c) \/ ExecAlloc(c) \/ ExecFree(c) \/ ExecBegin(c)
    \/ ExecAccess(c) \/ ExecSyscall(c)

-----------------------------------------------------------------------------
(* The threads *)

\* What a CPU does without touching memory.
Schedules(c) ==
    /\ FirstGet(c) \/ Preempt(c) \/ Continue(c) \/ NextGet(c) \/ StopCPU(c) \/ Skip(c)
    /\ UNCHANGED <<memVars, ins, home>>

\* The process has finished.
Ends(c) ==
    /\ Retire(c)
    /\ UNCHANGED <<ins, home>>
    /\ Mem!End(proc[c])

CPURuns(c) == ~crashed /\ (Schedules(c) \/ Ends(c) \/ Exec(c))

\* Where malloc may put the PCB of p: at a new address, or at one that was freed.
Addresses(p) ==
    {p} \cup ({home[q] : q \in freed} \ {home[q] : q \in Proc \ freed})

\* The loader calls load before it waits for the start time of the process.
Loads ==
    /\ ~crashed
    /\ LoaderStep
    /\ IF i \in Proc /\ home[i] = NoProc
       THEN \E a \in Addresses(i) : home' = [home EXCEPT ![i] = a]
       ELSE UNCHANGED home
    /\ UNCHANGED <<memVars, ins>>

TimerRuns ==
    /\ ~crashed
    /\ EndSlot \/ HaltTimer
    /\ UNCHANGED <<memVars, ins, home>>

\* Nothing happens after the end of the program.
Over == (halted \/ crashed) /\ UNCHANGED machineVars

Works == (\E c \in CPU : CPURuns(c)) \/ Loads \/ TimerRuns

MachineNext == Works \/ Over

\* As long as some thread can go on, one does.  That is enough: a thread has finitely
\* much to do in a slot, and then only waits for the others.
MachineSpec == MachineInit /\ [][MachineNext]_machineVars /\ WF_machineVars(Works)

-----------------------------------------------------------------------------
(* Properties *)

\* Whatever the threads do, a process, the lookup of its PCB and its frames go
\* through what Memory allows: a process that was found once is found until it
\* ends, and none ends in the middle of an access.
ImplementsMemory == Mem!Spec

\* Every process has pages of its own that hold what it wrote, on whatever CPUs
\* it and the others run.
ImplementsVM == Mem!ImplementsVM

\* A slot does not end while a process is in the middle of an access: mmvm_lock and
\* the copy of the free list that an access took are never kept to the next slot.
AccessWithinSlot ==
    /\ \A p \in Proc : acc[p] # Mem!Idle =>
         \E c \in CPU : proc[c] = p /\ cpc[c] = "recheck" /\ B!Working(c)
    /\ lock # NoProc => acc[lock] # Mem!Idle /\ acc[lock].op = "write"

\* The memory of a process changes only by an instruction of its own, in which it
\* stays or with which its run in this slot is over: no process is executed by two
\* CPUs, twice in a slot, or after its end.
MemoryOf(p) == <<symrgtbl[p], freerg[p], pte[p], fifo[p]>>
OwnMemoryOnly ==
    [][\A p \in Proc : MemoryOf(p)' # MemoryOf(p) =>
         p \notin ran /\ p \notin freed /\ (p \in ran' \/ acc'[p] # Mem!Idle)]_machineVars

\* All processes are loaded and finish, whatever they wait for, unless all CPUs have
\* stopped or the program has crashed.
AllServed == <>(freed = Proc \/ CPU \subseteq gone \/ crashed)
=============================================================================
