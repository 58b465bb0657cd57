---------------------------- MODULE MachineProofs ----------------------------
(***************************************************************************)
(* Proofs about Machine, for every number of CPUs and processes, every     *)
(* program and every size of memory: the threads behave as OS says, so     *)
(* that OS's theorems hold of the whole simulator; the memory behaves as   *)
(* Memory says, so that Memory's theorems hold of it too (the last part);  *)
(* an access to memory ends in the slot it began in, and with it the hold  *)
(* of mmvm_lock; the memory of a process changes only by its own           *)
(* instructions; and the threads never wait for each other in a circle.    *)
(***************************************************************************)
EXTENDS Machine, OSProofs

\* CPU c is at an instruction of its process.
Executing(c) == At(c, "recheck") /\ HasProc(c) /\ ~Finished(c)

\* CPU c is in a read or write of p.
Accessing(c, p) ==
    proc[c] = p /\ ins[c] # NoIns /\ ins[c][1] \in {"read", "write"}

\* An instruction that was fetched is not over, every access is the instruction of
\* some CPU, and the holder of mmvm_lock is in a write.
AccessInv ==
    /\ DOMAIN acc = Proc /\ DOMAIN ins = CPU
    /\ \A c \in CPU : ins[c] # NoIns => Executing(c)
    /\ \A p \in Proc : acc[p] # Mem!Idle => \E c \in CPU : Accessing(c, p)
    /\ lock # NoProc => lock \in Proc /\ acc[lock] # Mem!Idle /\ acc[lock].op = "write"

\* The memory of every process is there.
DomainInv ==
    /\ DOMAIN symrgtbl = Proc /\ DOMAIN freerg = Proc
    /\ DOMAIN pte = Proc /\ DOMAIN fifo = Proc

-----------------------------------------------------------------------------
(* The threads *)

\* A CPU's step is one of OS's CPU steps, or none.
LEMMA CPURunsStep ==
  ASSUME NEW c \in CPU, CPURuns(c)
  PROVE  CPUStep(c) \/ UNCHANGED vars
<1>1. CASE Schedules(c)
  BY <1>1 DEF Schedules, CPUStep
<1>2. CASE Ends(c)
  BY <1>2 DEF Ends, CPUStep
<1>3. CASE Exec(c)
  <2>1. EndIns(c) \/ UNCHANGED vars
    BY <1>3 DEF Exec, Fetch, ExecCalc, ExecAlloc, ExecFree, ExecBegin, ExecAccess,
                ExecSyscall, Still
  <2>2. EndIns(c) => CPUStep(c)
    BY DEF EndIns, CPUStep
  <2> QED  BY <2>1, <2>2
<1> QED  BY <1>1, <1>2, <1>3 DEF CPURuns

\* Each step of the machine is one of OS, or none.
LEMMA MachineStep ==
  ASSUME [MachineNext]_machineVars
  PROVE  [Next]_vars
<1>1. ASSUME NEW c \in CPU, CPURuns(c) PROVE [Next]_vars
  BY <1>1, CPURunsStep DEF Next
<1>2. CASE Loads
  BY <1>2 DEF Loads, Next
<1>3. CASE TimerRuns
  BY <1>3 DEF TimerRuns, Next
<1>4. CASE Over \/ UNCHANGED machineVars
  BY <1>4 DEF Over, machineVars
<1> QED  BY <1>1, <1>2, <1>3, <1>4 DEF MachineNext, Works

\* The actions of Machine are made of those of OS, so what holds of OS holds here.
LEMMA MachineUsesOS == MachineSpec => Spec
<1>1. MachineInit => Init
  BY DEF MachineInit
<1>2. [MachineNext]_machineVars => [Next]_vars
  BY MachineStep
<1> QED  BY <1>1, <1>2, PTL DEF MachineSpec, Spec

\* So the invariants of OS hold of the whole simulator.
THEOREM MachineInvariance == MachineSpec => [](LoaderInv /\ SchedInv /\ CPUInv)
BY MachineUsesOS, LoaderInvariance, SchedulerInvariance, CPUInvariance, PTL

-----------------------------------------------------------------------------
(* Accesses *)

\* The initial states satisfy the invariant.
LEMMA AccessInit == MachineInit => AccessInv
<1>1. MachineInit => DOMAIN ins = CPU /\ \A c \in CPU : ins[c] = NoIns
  BY DEF MachineInit
<1>2. MachineInit => DOMAIN acc = Proc /\ (\A p \in Proc : acc[p] = Mem!Idle) /\ lock = NoProc
  BY DEF MachineInit, Mem!Init
<1> QED  BY <1>1, <1>2 DEF AccessInv

\* A step preserves it that leaves instructions, accesses and the lock alone, and
\* lets those go on that are at an instruction.
LEMMA AccessKept ==
  ASSUME AccessInv, UNCHANGED <<acc, lock, ins>>,
         \A c \in CPU : ins[c] # NoIns => Executing(c)' /\ proc'[c] = proc[c]
  PROVE  AccessInv'
BY DEF AccessInv, Accessing

\* What a CPU does without touching memory leaves the instructions alone: it is
\* not at one.
LEMMA SchedulesOthers ==
  ASSUME SchedInv, CPUInv, NEW c \in CPU, Schedules(c) \/ Retire(c),
         NEW d \in CPU, Executing(d)
  PROVE  Executing(d)' /\ proc'[d] = proc[d]
<1> USE DEF SchedInv, SchedTypeOK, CPUInv, ThreadTypeOK
<1>1. d # c \/ Continue(c)
  BY DEF Schedules, Executing, At, HasProc, FirstGet, Retire, Preempt, NextGet, StopCPU, Skip
<1>2. proc'[d] = proc[d] /\ pc' = pc
  BY <1>1 DEF Schedules, FirstGet, Retire, Preempt, NextGet, StopCPU, Skip, Continue,
       GetProc, GetSome, GetNone, PutProc, FreeProc, schedVars, cpuVars
<1>3. cpc'[d] = cpc[d]
  BY <1>1 DEF Schedules, Executing, At, FirstGet, Retire, Preempt, NextGet, StopCPU, Skip,
       Continue, Goto, cpuVars
<1>4. B!Working(d)'
  <2>1. UNCHANGED barrierVars \/ (d # c /\ (B!Arrive(c) \/ B!Leave(c)))
    BY <1>1 DEF Schedules, FirstGet, Retire, Preempt, NextGet, StopCPU, Skip, Continue
  <2> QED  BY <2>1 DEF Executing, At, B!Working, B!Arrive, B!Leave, barrierVars
<1> QED  BY <1>2, <1>3, <1>4 DEF Executing, At, HasProc, Finished

\* Neither does the end of an instruction on another CPU.
LEMMA EndInsOthers ==
  ASSUME SchedInv, CPUInv, NEW c \in CPU, EndIns(c),
         NEW d \in CPU, d # c, Executing(d)
  PROVE  Executing(d)' /\ proc'[d] = proc[d]
<1> USE DEF SchedInv, SchedTypeOK, CPUInv, ThreadTypeOK
<1>1. Run(c) /\ proc[c] # NoProc /\ proc[d] # NoProc /\ proc[c] # proc[d]
  BY DEF EndIns, Run, HasProc, Executing, Exclusive
<1>2. proc' = proc /\ pc'[proc[d]] = pc[proc[d]] /\ cpc'[d] = cpc[d]
  BY <1>1 DEF Run, schedVars, Goto, Executing, HasProc
<1>3. B!Working(d)'
  BY <1>1 DEF Run, B!Arrive, B!Working, Executing, At
<1> QED  BY <1>2, <1>3 DEF Executing, At, HasProc, Finished

\* The loader does not touch the CPUs.
LEMMA LoadsOthers ==
  ASSUME Loads, NEW d \in CPU, Executing(d)
  PROVE  Executing(d)' /\ proc'[d] = proc[d]
<1>1. LoaderStep /\ d # Loader
  BY LoaderAssumption DEF Loads
<1>2. UNCHANGED <<proc, pc, cpc>>
  BY <1>1 DEF LoaderStep, AwaitStart, Load, EndLoading, AddProc, schedVars, cpuVars
<1>3. B!Arrive(Loader) \/ B!Leave(Loader)
  BY <1>1 DEF LoaderStep, AwaitStart, Load, EndLoading
<1>4. B!Working(d)'
  BY <1>1, <1>3 DEF B!Arrive, B!Leave, B!Working, Executing, At
<1> QED  BY <1>2, <1>4 DEF Executing, At, HasProc, Finished

\* A slot does not end while a CPU is at an instruction.
LEMMA TimerOthers ==
  ASSUME TimerRuns, NEW d \in CPU
  PROVE  ~Executing(d)
BY DEF TimerRuns, EndSlot, HaltTimer, B!SlotOver, B!Halt, B!Working, Executing, At, Device

\* The end of an instruction preserves it if no access of its process goes on.
LEMMA EndInsKeeps ==
  ASSUME SchedInv, CPUInv, AccessInv, NEW c \in CPU, EndIns(c),
         UNCHANGED <<acc, lock>>,
         acc[proc[c]] = Mem!Idle \/ ~Accessing(c, proc[c])
  PROVE  AccessInv'
<1>1. ins' = [ins EXCEPT ![c] = NoIns] /\ proc' = proc
  BY DEF EndIns, Run, schedVars
<1>2. \A d \in CPU : d # c /\ ins[d] # NoIns => Executing(d)'
  BY EndInsOthers DEF AccessInv
<1>3. ASSUME NEW p \in Proc, acc[p] # Mem!Idle
      PROVE  \E d \in CPU : Accessing(d, p)'
  <2>1. PICK d \in CPU : Accessing(d, p)
    BY <1>3 DEF AccessInv
  <2>2. d # c
    BY <1>3, <2>1 DEF Accessing
  <2> QED  BY <1>1, <2>1, <2>2 DEF Accessing, AccessInv
<1> QED  BY <1>1, <1>2, <1>3 DEF AccessInv

\* The beginning of an access preserves it.
LEMMA BeginKeeps ==
  ASSUME SchedInv, AccessInv, NEW c \in CPU,
         Is(c, "read") \/ Is(c, "write"), Still,
         Mem!Begin(proc[c], ins[c][1], ins[c][2], ins[c][3])
  PROVE  AccessInv'
<1> DEFINE p == proc[c]
           op == ins[c][1]
           r == symrgtbl[p][ins[c][2]]
           begun == Mem!InAccess(op, Mem!PAGING_PGN(r.rg_start + ins[c][3]), "page",
                                 mram, 0, 0)
<1>1. p \in Proc /\ op \in {"read", "write"} /\ ins[c] # NoIns
  BY DEF Is, AccessInv, Executing, HasProc, SchedInv, SchedTypeOK
<1>2. /\ acc[p] = Mem!Idle
      /\ acc' = [acc EXCEPT ![p] = begun]
      /\ lock' = IF op = "write" THEN p ELSE lock
  BY DEF Mem!Begin, Mem!Ready
<1>3. begun # Mem!Idle /\ begun.op = op
  BY <1>1 DEF Mem!Idle, Mem!InAccess
<1>4. UNCHANGED <<ins, proc>> /\ \A d \in CPU : Executing(d)' <=> Executing(d)
  BY DEF Still, vars, schedVars, barrierVars, cpuVars, Executing, At, HasProc, Finished,
         B!Working
<1> HIDE DEF begun
<1>5. DOMAIN acc' = Proc /\ acc'[p] = begun /\ \A q \in Proc \ {p} : acc'[q] = acc[q]
  BY <1>1, <1>2 DEF AccessInv
<1>6. ASSUME NEW q \in Proc, acc'[q] # Mem!Idle
      PROVE  \E d \in CPU : Accessing(d, q)'
  <2>1. CASE q = p
    BY <1>1, <1>4, <2>1 DEF Accessing
  <2>2. CASE q # p
    BY <1>4, <1>5, <1>6, <2>2 DEF AccessInv, Accessing
  <2> QED  BY <2>1, <2>2
<1>7. lock' # NoProc => lock' \in Proc /\ acc'[lock'] # Mem!Idle /\ acc'[lock'].op = "write"
  <2>1. CASE op = "write"
    BY <1>1, <1>2, <1>3, <1>5, <2>1
  <2>2. CASE op # "write"
    BY <1>2, <1>5, <2>2 DEF AccessInv
  <2> QED  BY <2>1, <2>2
<1> QED  BY <1>4, <1>5, <1>6, <1>7 DEF AccessInv

\* The end of an access preserves it.
LEMMA AccessKeeps ==
  ASSUME SchedInv, CPUInv, AccessInv, NEW c \in CPU,
         EndIns(c), Mem!AccessReturns(proc[c])
  PROVE  AccessInv'
<1> DEFINE p == proc[c]
<1>1. p \in Proc
  BY DEF EndIns, Run, HasProc, SchedInv, SchedTypeOK
<1>2. Mem!Done(p)
  BY DEF Mem!AccessReturns, Mem!AccessAbsent, Mem!AccessPresent, Mem!AccessNoVictim,
         Mem!AccessNoSwap
<1>3. /\ DOMAIN acc' = Proc /\ acc'[p] = Mem!Idle
      /\ \A q \in Proc \ {p} : acc'[q] = acc[q]
      /\ lock' = IF lock = p THEN NoProc ELSE lock
  BY <1>1, <1>2 DEF Mem!Done, AccessInv
<1>4. ins' = [ins EXCEPT ![c] = NoIns] /\ proc' = proc
  BY DEF EndIns, Run, schedVars
<1>5. \A d \in CPU : d # c /\ ins[d] # NoIns => Executing(d)'
  BY EndInsOthers DEF AccessInv
<1>6. ASSUME NEW q \in Proc, acc'[q] # Mem!Idle
      PROVE  \E d \in CPU : Accessing(d, q)'
  <2>1. PICK d \in CPU : Accessing(d, q) /\ d # c
    BY <1>3, <1>6 DEF AccessInv, Accessing
  <2> QED  BY <1>4, <2>1 DEF Accessing, AccessInv
<1>7. lock' # NoProc => lock' \in Proc /\ acc'[lock'] # Mem!Idle /\ acc'[lock'].op = "write"
  BY <1>3 DEF AccessInv
<1> QED  BY <1>3, <1>4, <1>5, <1>6, <1>7 DEF AccessInv

\* An access that goes on is in a read or write as before, and in no other process.
LEMMA GoesOnIn ==
  ASSUME AccessInv, NEW p \in Proc, Mem!AccessGoesOn(p)
  PROVE  /\ acc[p] # Mem!Idle /\ acc'[p] # Mem!Idle /\ acc'[p].op = acc[p].op
         /\ DOMAIN acc' = Proc /\ \A q \in Proc \ {p} : acc'[q] = acc[q]
         /\ lock' = lock
<1>1. PICK at, free, from, to :
        Mem!GoesOn(p, at, free, from, to) /\ acc[p] # Mem!Idle /\ at # "page"
  BY DEF Mem!AccessGoesOn, Mem!AccessFrame, Mem!AccessVictim, Mem!AccessEvict, Mem!AccessLoad,
         Mem!AccessPut, Mem!NeedsVictim, Mem!AccessAt
<1>2. acc' = [acc EXCEPT ![p] = Mem!InAccess(acc[p].op, acc[p].pgn, at, free, from, to)]
  BY <1>1 DEF Mem!GoesOn
<1>3. Mem!InAccess(acc[p].op, acc[p].pgn, at, free, from, to) # Mem!Idle
  <2>1. Mem!InAccess(acc[p].op, acc[p].pgn, at, free, from, to).at = at
    BY DEF Mem!InAccess
  <2>2. Mem!Idle.at = "page"
    BY DEF Mem!Idle, Mem!InAccess
  <2> QED  BY <1>1, <2>1, <2>2
<1>4. Mem!InAccess(acc[p].op, acc[p].pgn, at, free, from, to).op = acc[p].op
  BY DEF Mem!InAccess
<1>5. lock' = lock
  BY <1>1 DEF Mem!GoesOn
<1> QED  BY <1>1, <1>2, <1>3, <1>4, <1>5 DEF AccessInv

\* It preserves the invariant.
LEMMA GoesOnKeeps ==
  ASSUME SchedInv, AccessInv, NEW c \in CPU, Is(c, "read") \/ Is(c, "write"), Still,
         Mem!AccessGoesOn(proc[c])
  PROVE  AccessInv'
<1>1. proc[c] \in Proc
  BY DEF Is, AccessInv, Executing, HasProc, SchedInv, SchedTypeOK
<1>2. /\ acc[proc[c]] # Mem!Idle /\ acc'[proc[c]] # Mem!Idle
      /\ acc'[proc[c]].op = acc[proc[c]].op /\ DOMAIN acc' = Proc
      /\ \A q \in Proc \ {proc[c]} : acc'[q] = acc[q]
      /\ lock' = lock
  BY <1>1, GoesOnIn
<1>3. UNCHANGED <<ins, proc>> /\ \A d \in CPU : Executing(d)' <=> Executing(d)
  BY DEF Still, vars, schedVars, barrierVars, cpuVars, Executing, At, HasProc, Finished,
         B!Working
<1>4. ASSUME NEW q \in Proc, acc'[q] # Mem!Idle PROVE acc[q] # Mem!Idle
  BY <1>2, <1>4
<1>5. \A q \in Proc, d \in CPU : Accessing(d, q)' <=> Accessing(d, q)
  BY <1>3 DEF Accessing
<1> QED  BY <1>2, <1>3, <1>4, <1>5 DEF AccessInv

\* Every instruction preserves it.
LEMMA ExecKeeps ==
  ASSUME SchedInv, CPUInv, AccessInv, NEW c \in CPU, Exec(c)
  PROVE  AccessInv'
<1>1. CASE Fetch(c)
  <2>1. /\ UNCHANGED <<acc, lock, proc>>
        /\ DOMAIN ins' = CPU /\ \A d \in CPU \ {c} : ins'[d] = ins[d]
    BY <1>1 DEF Fetch, vars, schedVars, memVars, AccessInv
  <2>2. \A d \in CPU : Executing(d)' <=> Executing(d)
    BY <1>1 DEF Fetch, vars, schedVars, barrierVars, cpuVars, Executing, At, HasProc,
                Finished, B!Working
  <2>3. ins[c] = NoIns /\ Executing(c)
    BY <1>1 DEF Fetch, Executing
  <2>4. \A p \in Proc, d \in CPU : Accessing(d, p) => Accessing(d, p)'
    BY <2>1, <2>3 DEF Accessing
  <2> QED  BY <2>1, <2>2, <2>3, <2>4 DEF AccessInv
<1>2. CASE ExecCalc(c)
  <2>1. EndIns(c) /\ UNCHANGED <<acc, lock>>
    BY <1>2 DEF ExecCalc, memVars
  <2>2. ~Accessing(c, proc[c])
    BY <1>2 DEF ExecCalc, Accessing, Is, AccessInv, Executing
  <2> QED  BY <2>1, <2>2, EndInsKeeps
<1>3. CASE ExecAlloc(c)
  <2>1. ASSUME NEW rg, NEW size, EndIns(c),
               Mem!AllocFree(proc[c], rg, size) \/ Mem!AllocGrow(proc[c], rg, size)
        PROVE  AccessInv'
    <3>1. acc[proc[c]] = Mem!Idle /\ UNCHANGED <<acc, lock>>
      BY <2>1 DEF Mem!AllocFree, Mem!AllocGrow, Mem!Ready
    <3> QED  BY <2>1, <3>1, EndInsKeeps
  <2>2. ASSUME NEW size, Still, Mem!AllocCrash(proc[c], size)
        PROVE  AccessInv'
    <3>1. UNCHANGED <<acc, lock>>
      BY <2>2 DEF Mem!AllocCrash, Mem!Crash
    <3>2. UNCHANGED <<ins, proc>> /\ \A d \in CPU : Executing(d)' <=> Executing(d)
      BY <2>2 DEF Still, vars, schedVars, barrierVars, cpuVars, Executing, At, HasProc,
                  Finished, B!Working
    <3> QED  BY <3>1, <3>2, AccessKept DEF AccessInv
  <2> QED  BY <1>3, <2>1, <2>2 DEF ExecAlloc
<1>4. CASE ExecFree(c)
  <2>1. EndIns(c) /\ UNCHANGED <<acc, lock>>
    BY <1>4 DEF ExecFree, Mem!Free, memVars
  <2>2. ~Accessing(c, proc[c])
    BY <1>4 DEF ExecFree, Accessing, Is
  <2> QED  BY <2>1, <2>2, EndInsKeeps
<1>5. CASE ExecBegin(c)
  <2>1. ASSUME EndIns(c), acc[proc[c]] = Mem!Idle, UNCHANGED memVars
        PROVE  AccessInv'
    BY <2>1, EndInsKeeps DEF memVars
  <2> QED  BY <1>5, <2>1, BeginKeeps DEF ExecBegin
<1>6. CASE ExecAccess(c)
  <2>1. ASSUME Still, Mem!AccessCrash(proc[c])
        PROVE  AccessInv'
    <3>1. UNCHANGED <<acc, lock>>
      BY <2>1 DEF Mem!AccessCrash, Mem!Crash
    <3>2. UNCHANGED <<ins, proc>> /\ \A d \in CPU : Executing(d)' <=> Executing(d)
      BY <2>1 DEF Still, vars, schedVars, barrierVars, cpuVars, Executing, At, HasProc,
                  Finished, B!Working
    <3> QED  BY <3>1, <3>2, AccessKept DEF AccessInv
  <2> QED  BY <1>6, <2>1, AccessKeeps, GoesOnKeeps DEF ExecAccess
<1>7. CASE ExecSyscall(c)
  <2>1. EndIns(c) /\ UNCHANGED <<acc, lock>>
    BY <1>7 DEF ExecSyscall, Mem!MapOp, memVars
  <2>2. ~Accessing(c, proc[c])
    BY <1>7 DEF ExecSyscall, Accessing, Is
  <2> QED  BY <2>1, <2>2, EndInsKeeps
<1> QED  BY <1>1, <1>2, <1>3, <1>4, <1>5, <1>6, <1>7 DEF Exec

\* The invariant of the accesses holds in every reachable state.
THEOREM AccessInvariance == MachineSpec => []AccessInv
<1>1. SchedInv /\ CPUInv /\ AccessInv /\ [MachineNext]_machineVars => AccessInv'
  <2> SUFFICES ASSUME SchedInv, CPUInv, AccessInv, [MachineNext]_machineVars
               PROVE  AccessInv'
    OBVIOUS
  <2>1. ASSUME NEW c \in CPU, Schedules(c) \/ Ends(c) PROVE AccessInv'
    <3>1. UNCHANGED <<acc, lock, ins>> /\ (Schedules(c) \/ Retire(c))
      BY <2>1 DEF Schedules, Ends, Mem!End, memVars
    <3>2. \A d \in CPU : Executing(d) => Executing(d)' /\ proc'[d] = proc[d]
      BY <3>1, SchedulesOthers
    <3> QED  BY <3>1, <3>2, AccessKept DEF AccessInv
  <2>2. CASE Loads
    <3>1. UNCHANGED <<acc, lock, ins>>
      BY <2>2 DEF Loads, memVars
    <3> QED  BY <2>2, <3>1, LoadsOthers, AccessKept DEF AccessInv
  <2>3. CASE TimerRuns
    <3>1. UNCHANGED <<acc, lock, ins>>
      BY <2>3 DEF TimerRuns, memVars
    <3> QED  BY <2>3, <3>1, TimerOthers, AccessKept DEF AccessInv
  <2>4. CASE UNCHANGED machineVars
    <3>1. UNCHANGED <<acc, lock, ins, proc>> /\ \A d \in CPU : Executing(d)' <=> Executing(d)
      BY <2>4 DEF machineVars, memVars, vars, schedVars, barrierVars, cpuVars, Executing, At,
                  HasProc, Finished, B!Working
    <3> QED  BY <3>1, AccessKept DEF AccessInv
  <2> QED  BY <2>1, <2>2, <2>3, <2>4, ExecKeeps DEF MachineNext, Works, CPURuns, Over
<1> QED  BY AccessInit, <1>1, MachineInvariance, PTL DEF MachineSpec

\* A slot does not end while a process is in the middle of an access, so neither
\* mmvm_lock nor the free list that an access took outlives its slot.
THEOREM AccessWithinSlotHolds == MachineSpec => []AccessWithinSlot
<1>1. AccessInv => AccessWithinSlot
  <2> SUFFICES ASSUME AccessInv PROVE AccessWithinSlot
    OBVIOUS
  <2>1. \A p \in Proc : acc[p] # Mem!Idle =>
          \E c \in CPU : proc[c] = p /\ cpc[c] = "recheck" /\ B!Working(c)
    BY DEF AccessInv, Accessing, Executing, At
  <2> QED  BY <2>1 DEF AccessInv, AccessWithinSlot
<1> QED  BY AccessInvariance, <1>1, PTL

-----------------------------------------------------------------------------
(* The memory of a process *)

\* CPU c is in an access of its process, which goes on.
Accesses(c) ==
    /\ Is(c, "read") \/ Is(c, "write")
    /\ Still
    /\ Mem!AccessGoesOn(proc[c])

\* An instruction on CPU c leaves the memory of all processes but its own alone.
LEMMA ExecOwn ==
  ASSUME DomainInv, NEW c \in CPU, Exec(c)
  PROVE  /\ DomainInv'
         /\ \/ /\ EndIns(c) \/ Accesses(c)
               /\ \A p \in Proc \ {proc[c]} : MemoryOf(p)' = MemoryOf(p)
            \/ \A p \in Proc : MemoryOf(p)' = MemoryOf(p)
<1> USE DEF DomainInv, MemoryOf
<1> DEFINE Same == UNCHANGED <<symrgtbl, freerg, pte, fifo>>
           Own(q) == DomainInv' /\ \A p \in Proc \ {q} : MemoryOf(p)' = MemoryOf(p)
<1>1. Same => DomainInv' /\ \A p \in Proc : MemoryOf(p)' = MemoryOf(p)
  OBVIOUS
<1>2. CASE Fetch(c) \/ ExecCalc(c)
  BY <1>1, <1>2 DEF Fetch, ExecCalc, memVars
<1>3. CASE ExecAlloc(c)
  <2>1. ASSUME NEW q, NEW rg, NEW size, Mem!AllocFree(q, rg, size) PROVE Own(q)
    BY <2>1 DEF Mem!AllocFree, Mem!frameVars
  <2>2. ASSUME NEW q, NEW rg, NEW size, Mem!AllocGrow(q, rg, size) PROVE Own(q)
    BY <2>2 DEF Mem!AllocGrow, Mem!IncVmaLimit, Mem!MapRam
  <2>3. ASSUME NEW size, Mem!AllocCrash(proc[c], size) PROVE Same
    BY <2>3 DEF Mem!AllocCrash, Mem!Crash, Mem!regionVars, Mem!frameVars
  <2> QED  BY <1>1, <1>3, <2>1, <2>2, <2>3 DEF ExecAlloc
<1>4. CASE ExecFree(c)
  <2>1. ASSUME NEW q, NEW rg, Mem!Free(q, rg) PROVE Own(q)
    BY <2>1 DEF Mem!Free, Mem!frameVars
  <2> QED  BY <1>1, <1>4, <2>1 DEF ExecFree, memVars
<1>5. CASE ExecBegin(c)
  BY <1>1, <1>5 DEF ExecBegin, Mem!Begin, Mem!regionVars, Mem!frameVars, memVars
<1>6. CASE ExecAccess(c)
  <2>1. ASSUME NEW q, Mem!AccessReturns(q) PROVE Own(q)
    BY <2>1 DEF Mem!AccessReturns, Mem!AccessAbsent, Mem!AccessPresent, Mem!AccessNoVictim,
                Mem!AccessNoSwap, Mem!Done, Mem!regionVars, Mem!frameVars
  <2>2. ASSUME NEW q, Mem!AccessGoesOn(q) PROVE Own(q)
    <3>1. UNCHANGED <<symrgtbl, freerg>>
      BY <2>2 DEF Mem!AccessGoesOn, Mem!AccessFrame, Mem!AccessVictim, Mem!AccessEvict,
                  Mem!AccessLoad, Mem!AccessPut, Mem!GoesOn, Mem!regionVars
    <3>2. CASE Mem!AccessFrame(q) \/ Mem!AccessVictim(q) \/ Mem!AccessLoad(q)
      BY <3>1, <3>2 DEF Mem!AccessFrame, Mem!AccessVictim, Mem!AccessLoad, Mem!frameVars
    <3>3. CASE Mem!AccessEvict(q)
      BY <3>1, <3>3 DEF Mem!AccessEvict
    <3>4. CASE Mem!AccessPut(q)
      BY <3>1, <3>4 DEF Mem!AccessPut
    <3> QED  BY <2>2, <3>2, <3>3, <3>4 DEF Mem!AccessGoesOn
  <2>3. ASSUME NEW q, Mem!AccessCrash(q) PROVE Same
    BY <2>3 DEF Mem!AccessCrash, Mem!Crash, Mem!regionVars, Mem!frameVars
  <2>4. EndIns(c) /\ Mem!AccessReturns(proc[c]) => Own(proc[c])
    BY <2>1
  <2>5. Accesses(c) => Own(proc[c])
    BY <2>2 DEF Accesses
  <2> QED  BY <1>1, <1>6, <2>3, <2>4, <2>5 DEF ExecAccess, Accesses
<1>7. CASE ExecSyscall(c)
  <2>1. ASSUME NEW q, NEW range, Mem!MapOp(q, range) PROVE Own(q)
    BY <2>1 DEF Mem!MapOp, Mem!regionVars
  <2> QED  BY <1>1, <1>7, <2>1 DEF ExecSyscall, memVars
<1> QED  BY <1>2, <1>3, <1>4, <1>5, <1>6, <1>7 DEF Exec

\* So does every step: it changes memory only in an access or at the end of an
\* instruction of the process whose memory it is.
LEMMA OwnStep ==
  ASSUME DomainInv, [MachineNext]_machineVars
  PROVE  /\ DomainInv'
         /\ \A p \in Proc : MemoryOf(p)' # MemoryOf(p) =>
              \E c \in CPU : (EndIns(c) \/ Accesses(c)) /\ proc[c] = p
<1> DEFINE Same == UNCHANGED <<symrgtbl, freerg, pte, fifo>>
<1>1. Same => DomainInv' /\ \A p \in Proc : MemoryOf(p)' = MemoryOf(p)
  BY DEF DomainInv, MemoryOf
<1>2. ASSUME NEW c \in CPU, Schedules(c) \/ Ends(c) PROVE Same
  BY <1>2 DEF Schedules, Ends, Mem!End, Mem!regionVars, memVars
<1>3. CASE Loads \/ TimerRuns \/ UNCHANGED machineVars
  BY <1>1, <1>3 DEF Loads, TimerRuns, machineVars, memVars
<1> QED  BY <1>1, <1>2, <1>3, ExecOwn DEF MachineNext, Works, CPURuns, Over

\* The memory of a process changes only by its own instructions, one per slot, and
\* not after its end.
THEOREM OwnMemoryOnlyHolds == MachineSpec => OwnMemoryOnly
<1> DEFINE Own == \A p \in Proc : MemoryOf(p)' # MemoryOf(p) =>
                    p \notin ran /\ p \notin freed /\ (p \in ran' \/ acc'[p] # Mem!Idle)
           Inv == SchedInv /\ CPUInv /\ AccessInv /\ DomainInv
<1>1. MachineInit => DomainInv
  BY DEF MachineInit, Mem!Init, DomainInv
<1>2. DomainInv /\ [MachineNext]_machineVars => DomainInv'
  BY OwnStep
<1>3. ASSUME Inv, [MachineNext]_machineVars, NEW p \in Proc, MemoryOf(p)' # MemoryOf(p)
      PROVE  /\ p \notin ran /\ p \notin freed
             /\ p \in ran' \/ acc'[p] # Mem!Idle
  <2>1. PICK c \in CPU : (EndIns(c) \/ Accesses(c)) /\ proc[c] = p
    BY <1>3, OwnStep
  <2>2. p # NoProc /\ c \notin arrived
    BY <2>1, NoProcAssumption DEF EndIns, Run, Accesses, Is, At, B!Working
  <2>3. p \notin ran
    BY <1>3, <2>1, <2>2 DEF CPUInv, RanOK, SchedInv, Exclusive
  <2>4. p \in Held
    BY <2>1, <2>2 DEF Held
  <2>5. p \notin freed
    BY <1>3, <2>4 DEF SchedInv, Exclusive
  <2>6. CASE EndIns(c)
    BY <1>3, <2>1, <2>3, <2>5, <2>6 DEF EndIns, Run, CPUInv, RanOK
  <2>7. CASE Accesses(c)
    BY <1>3, <2>1, <2>3, <2>5, <2>7, GoesOnIn DEF Accesses
  <2> QED  BY <2>1, <2>6, <2>7
<1>4. Inv /\ [MachineNext]_machineVars => [Own]_machineVars
  BY <1>3
<1> QED  BY <1>1, <1>2, <1>4, MachineInvariance, AccessInvariance, PTL
         DEF MachineSpec, OwnMemoryOnly

-----------------------------------------------------------------------------
(* Machine implements Memory                                               *)

\* The instructions are lines of programs.  A process has an address once it is
\* loaded, two that live have two addresses, and running_list has processes that
\* were added only.  An address is named by the first process there, so no later
\* one is at it yet.
HomeInv ==
    /\ ins \in [CPU -> Code \cup {NoIns}]
    /\ home \in [Proc -> Proc \cup {NoProc}]
    /\ ToSet(running_list) \subseteq loaded
    /\ \A p \in loaded : home[p] # NoProc
    /\ \A p \in Proc : home[p] # NoProc => p <= i /\ home[p] <= p
    /\ \A p, q \in Proc \ freed : home[p] = home[q] /\ home[p] # NoProc => p = q

\* What sys_memmap finds depends on these three only.
LEMMA ListedStays ==
  ASSUME UNCHANGED <<home, freed, running_list>>
  PROVE  listed' = listed
BY DEF listed

\* It finds p if ...
LEMMA ListedIs ==
  ASSUME NEW p \in Proc
  PROVE  listed[p] <=> /\ home[p] # NoProc /\ p \notin freed
                       /\ \E q \in ToSet(running_list) : home[q] = home[p]
BY DEF listed

\* The loader gives a process an address where no other that lives is.
LEMMA AddressesFree ==
  ASSUME LoaderInv, SchedInv, HomeInv, i \in Proc, home[i] = NoProc,
         NEW a \in Addresses(i)
  PROVE  /\ a \in Proc /\ a <= i
         /\ \A q \in Proc \ freed : home[q] # a
<1>1. i \in Nat /\ NoProc \notin Proc /\ Proc = 1 .. num_processes
  BY ProcAssumption, NoProcAssumption
<1>2. CASE a = i
  <2>1. ASSUME NEW q \in Proc \ freed, home[q] = i PROVE FALSE
    <3>1. q <= i /\ i <= q
      BY <1>1, <2>1 DEF HomeInv
    <3>2. q = i
      BY <1>1, <3>1
    <3> QED  BY <1>1, <2>1, <3>2
  <2> QED  BY <1>1, <1>2, <2>1
<1>3. CASE a \in {home[q] : q \in freed} \ {home[q] : q \in Proc \ freed}
  <2>1. PICK q \in freed : a = home[q]
    BY <1>3
  <2>2. q \in loaded /\ q \in Proc /\ q < i
    BY <1>1, NumProcessesAssumption DEF LoaderInv, SchedInv
  <2>3. home[q] # NoProc /\ home[q] \in Proc /\ home[q] <= q
    BY <2>2 DEF HomeInv
  <2> QED  BY <1>1, <1>3, <2>1, <2>2, <2>3
<1> QED  BY <1>2, <1>3 DEF Addresses

\* A process that another is put behind in running_list, or none, is found there.
LEMMA PutIn ==
  ASSUME SchedInv, NEW c \in CPU, PutProc(c)
  PROVE  /\ proc[c] \in Proc /\ proc[c] \in loaded /\ proc[c] \notin freed
         /\ \/ ToSet(running_list') = ToSet(running_list) \cup {proc[c]}
            \/ running_list' = running_list
<1>1. proc[c] \in Proc /\ proc[c] \in Held
  BY DEF PutProc, SchedInv, SchedTypeOK, Held
<1>2. running_list \in Seq(Proc) /\ running_list' = Enqueue(running_list, proc[c])
  BY DEF PutProc, SchedInv, SchedTypeOK
<1>3. \/ ToSet(running_list') = ToSet(running_list) \cup {proc[c]}
      \/ running_list' = running_list
  <2>1. CASE Len(running_list) >= MAX_QUEUE_SIZE
    BY <1>2, <2>1 DEF Enqueue
  <2>2. CASE ~(Len(running_list) >= MAX_QUEUE_SIZE)
    <3>1. Len(running_list) < MAX_QUEUE_SIZE
      BY <1>2, <2>2, LenProperties, QueueSizeAssumption
    <3> QED  BY <1>1, <1>2, <3>1, EnqueueAdds
  <2> QED  BY <2>1, <2>2
<1> QED  BY <1>1, <1>3 DEF SchedInv, Exclusive

\* What a CPU does without touching memory puts one process back, or none.
LEMMA SchedulesLists ==
  ASSUME NEW c \in CPU, Schedules(c)
  PROVE  /\ UNCHANGED <<home, ins, loaded, freed, i>>
         /\ (Preempt(c) /\ PutProc(c)) \/ running_list' = running_list
BY DEF Schedules, FirstGet, Preempt, Continue, NextGet, StopCPU, Skip, GetProc, GetSome,
       GetNone, PutProc, queueVars, schedVars, loaderVars

\* Only a process that no CPU holds is loaded, so it is in no access.
LEMMA LoadedIdle ==
  ASSUME LoaderInv, SchedInv, AccessInv, i \in Proc
  PROVE  acc[i] = Mem!Idle /\ i \notin freed /\ i \notin loaded
<1>1. i \notin loaded
  BY ProcAssumption DEF LoaderInv
<1>2. i \notin Held /\ i \notin freed
  BY <1>1 DEF SchedInv
<1>3. ASSUME acc[i] # Mem!Idle PROVE FALSE
  <2>1. PICK c \in CPU : Accessing(c, i)
    BY <1>3 DEF AccessInv
  <2> QED  BY <1>2, <2>1, NoProcAssumption DEF Accessing, Held
<1> QED  BY <1>1, <1>2, <1>3

\* In the initial states nothing has an address.
LEMMA HomeInit == MachineInit => HomeInv
<1> SUFFICES ASSUME MachineInit  PROVE HomeInv
  OBVIOUS
<1>1. /\ ins = [c \in CPU |-> NoIns] /\ home = [p \in Proc |-> NoProc]
      /\ running_list = <<>> /\ loaded = {}
  BY DEF MachineInit, Init, SchedInit
<1>2. ToSet(running_list) = {}
  BY <1>1 DEF ToSet
<1> QED  BY <1>1, <1>2 DEF HomeInv

\* A CPU's step preserves it.
LEMMA HomeCPU ==
  ASSUME SchedInv, HomeInv, NEW c \in CPU, CPURuns(c)
  PROVE  HomeInv'
<1>1. CASE Schedules(c)
  <2>1. UNCHANGED <<home, ins, loaded, freed, i>>
    BY <1>1, SchedulesLists
  <2>2. ToSet(running_list') \subseteq loaded
    BY <1>1, SchedulesLists, PutIn DEF HomeInv
  <2> QED  BY <2>1, <2>2 DEF HomeInv
<1>2. CASE Ends(c)
  <2>1. UNCHANGED <<home, ins, loaded, i, running_list>> /\ freed \subseteq freed'
    BY <1>2 DEF Ends, Retire, FreeProc, queueVars, loaderVars
  <2> QED  BY <2>1 DEF HomeInv
<1>3. CASE Exec(c)
  <2>1. Fetch(c) \/ EndIns(c) \/ UNCHANGED <<vars, ins, home>>
    BY <1>3 DEF Exec, ExecCalc, ExecAlloc, ExecFree, ExecBegin, ExecAccess, ExecSyscall,
                Still
  <2>2. UNCHANGED <<home, loaded, i, running_list, freed>>
    BY <2>1 DEF Fetch, EndIns, Run, vars, schedVars, queueVars, loaderVars
  <2>3. ins' \in [CPU -> Code \cup {NoIns}]
    BY <2>1 DEF Fetch, EndIns, HomeInv
  <2> QED  BY <2>2, <2>3 DEF HomeInv
<1> QED  BY <1>1, <1>2, <1>3 DEF CPURuns

\* So does the loader's.
LEMMA HomeLoads ==
  ASSUME LoaderInv, SchedInv, HomeInv, Loads
  PROVE  HomeInv'
<1>1. /\ UNCHANGED <<ins, running_list, freed>>
      /\ i \in 1 .. num_processes + 1 /\ num_processes \in Nat /\ Proc = 1 .. num_processes
  BY ProcAssumption, NumProcessesAssumption
     DEF Loads, LoaderStep, AwaitStart, Load, EndLoading, AddProc, LoaderInv, schedVars,
         queueVars
<1>2. \/ loaded' = loaded /\ i' = i
      \/ i \in Proc /\ loaded' = loaded \cup {i} /\ i' = i + 1
  <2>1. CASE AwaitStart
    BY <2>1 DEF AwaitStart, loaderVars, schedVars
  <2>2. CASE Load
    BY <1>1, <2>2 DEF Load, AddProc
  <2>3. CASE EndLoading
    BY <2>3 DEF EndLoading, schedVars
  <2> QED  BY <2>1, <2>2, <2>3 DEF Loads, LoaderStep
<1>3. CASE ~(i \in Proc /\ home[i] = NoProc)
  <2>1. home' = home
    BY <1>3 DEF Loads
  <2> QED  BY <1>1, <1>2, <1>3, <2>1 DEF HomeInv
<1>4. CASE i \in Proc /\ home[i] = NoProc
  <2>1. PICK a \in Addresses(i) : home' = [home EXCEPT ![i] = a]
    BY <1>4 DEF Loads
  <2>2. a \in Proc /\ a <= i /\ \A q \in Proc \ freed : home[q] # a
    BY <1>4, AddressesFree
  <2>3. /\ home' \in [Proc -> Proc \cup {NoProc}]
        /\ \A q \in Proc : home'[q] = IF q = i THEN a ELSE home[q]
    BY <1>4, <2>1, <2>2 DEF HomeInv
  <2>4. ToSet(running_list') \subseteq loaded'
    BY <1>1, <1>2 DEF HomeInv
  <2>5. \A p \in loaded' : home'[p] # NoProc
    <3>1. NoProc \notin Proc /\ loaded \subseteq Proc
      BY NoProcAssumption DEF SchedInv, SchedTypeOK
    <3>2. loaded' \subseteq loaded \cup {i}
      BY <1>2
    <3> QED  BY <1>4, <2>2, <2>3, <3>1, <3>2 DEF HomeInv
  <2>6. \A p \in Proc : home'[p] # NoProc => p <= i' /\ home'[p] <= p
    BY <1>1, <1>2, <2>2, <2>3 DEF HomeInv
  <2>7. \A p, q \in Proc \ freed : home'[p] = home'[q] /\ home'[p] # NoProc => p = q
    BY <2>2, <2>3 DEF HomeInv
  <2> QED  BY <1>1, <2>3, <2>4, <2>5, <2>6, <2>7 DEF HomeInv
<1> QED  BY <1>3, <1>4

\* It holds in every reachable state.
THEOREM HomeInvariance == MachineSpec => []HomeInv
<1>1. LoaderInv /\ SchedInv /\ HomeInv /\ [MachineNext]_machineVars => HomeInv'
  <2> SUFFICES ASSUME LoaderInv, SchedInv, HomeInv, [MachineNext]_machineVars
               PROVE  HomeInv'
    OBVIOUS
  <2>1. CASE TimerRuns \/ Over \/ UNCHANGED machineVars
    <3>1. UNCHANGED <<ins, home, running_list, loaded, freed, i>>
      BY <2>1 DEF TimerRuns, EndSlot, HaltTimer, Over, machineVars, vars, schedVars,
                  queueVars, loaderVars
    <3> QED  BY <3>1 DEF HomeInv
  <2> QED  BY <2>1, HomeCPU, HomeLoads DEF MachineNext, Works
<1> QED  BY <1>1, HomeInit, MachineInvariance, PTL DEF MachineSpec

\* The operands of an instruction are what its kind says.
LEMMA Operands ==
  ASSUME NEW line \in Code
  PROVE  /\ line[1] = "alloc" => line[2] \in RgId /\ line[3] \in Sizes
         /\ line[1] = "free" => line[2] \in RgId
         /\ line[1] \in {"read", "write"} =>
              line[1] \in Ops /\ line[2] \in RgId /\ line[3] \in Offsets
         /\ line[1] = "map" => line[2] \in Ranges
<1>1. CASE line = <<"calc">>
  BY <1>1
<1>2. CASE line \in {<<"alloc", rg, size>> : rg \in RgId, size \in Sizes}
  BY <1>2
<1>3. CASE line \in {<<"free", rg>> : rg \in RgId}
  BY <1>3
<1>4. CASE line \in {<<op, rg, off>> : op \in Ops, rg \in RgId, off \in Offsets}
  BY <1>4, OpsAssumption
<1>5. CASE line \in {<<"map", range>> : range \in Ranges}
  BY <1>5
<1> QED  BY <1>1, <1>2, <1>3, <1>4, <1>5 DEF Code

\* A step of an instruction is one that Memory allows its process, or none.
LEMMA ExecUsesMemory ==
  ASSUME SchedInv, AccessInv, HomeInv, NEW c \in CPU, Exec(c)
  PROVE  [Mem!Next]_(Mem!vars)
<1> DEFINE p == proc[c]
<1>1. Fetch(c) \/ EndIns(c) \/ UNCHANGED <<vars, ins, home>>
  BY DEF Exec, ExecCalc, ExecAlloc, ExecFree, ExecBegin, ExecAccess, ExecSyscall, Still
<1>2. UNCHANGED <<home, running_list, freed>>
  BY <1>1 DEF Fetch, EndIns, Run, vars, schedVars, queueVars
<1>3. UNCHANGED memVars => UNCHANGED (Mem!vars)
  <2>1. listed' = listed
    BY <1>2, ListedStays
  <2> QED  BY <1>2, <2>1
           DEF memVars, Mem!vars, Mem!regionVars, Mem!frameVars, Mem!procVars
<1>4. ASSUME NEW opcode, Is(c, opcode)
      PROVE  p \in Proc /\ ins[c] \in Code /\ ins[c][1] = opcode
  BY <1>4 DEF Is, HomeInv, AccessInv, Executing, HasProc, SchedInv, SchedTypeOK
<1>5. CASE Fetch(c) \/ ExecCalc(c)
  BY <1>3, <1>5 DEF Fetch, ExecCalc
<1>6. CASE ExecAlloc(c)
  <2>1. p \in Proc /\ ins[c][2] \in RgId /\ ins[c][3] \in Sizes
    BY <1>4, <1>6, Operands DEF ExecAlloc
  <2>2. \/ Mem!AllocFree(p, ins[c][2], ins[c][3])
        \/ Mem!AllocGrow(p, ins[c][2], ins[c][3])
        \/ Mem!AllocCrash(p, ins[c][3])
    BY <1>6 DEF ExecAlloc
  <2> HIDE DEF p
  <2> QED  BY <2>1, <2>2 DEF Mem!Next
<1>7. CASE ExecFree(c)
  <2>1. p \in Proc /\ ins[c][2] \in RgId
    BY <1>4, <1>7, Operands DEF ExecFree
  <2>2. Mem!Free(p, ins[c][2]) \/ UNCHANGED memVars
    BY <1>7 DEF ExecFree
  <2> HIDE DEF p
  <2> QED  BY <1>3, <2>1, <2>2 DEF Mem!Next
<1>8. CASE ExecBegin(c)
  <2>1. p \in Proc /\ ins[c][1] \in Ops /\ ins[c][2] \in RgId /\ ins[c][3] \in Offsets
    BY <1>4, <1>8, Operands DEF ExecBegin
  <2>2. Mem!Begin(p, ins[c][1], ins[c][2], ins[c][3]) \/ UNCHANGED memVars
    BY <1>8 DEF ExecBegin
  <2> HIDE DEF p
  <2> QED  BY <1>3, <2>1, <2>2 DEF Mem!Next
<1>9. CASE ExecAccess(c)
  <2>1. p \in Proc
    BY <1>4, <1>9 DEF ExecAccess
  <2>2. Mem!Access(p)
    BY <1>9 DEF ExecAccess, Mem!Access
  <2> HIDE DEF p
  <2> QED  BY <2>1, <2>2 DEF Mem!Next
<1>10. CASE ExecSyscall(c)
  <2>1. p \in Proc /\ ins[c][2] \in Ranges
    BY <1>4, <1>10, Operands DEF ExecSyscall
  <2>2. Mem!MapOp(p, ins[c][2]) \/ UNCHANGED memVars
    BY <1>10 DEF ExecSyscall
  <2> HIDE DEF p
  <2> QED  BY <1>3, <2>1, <2>2 DEF Mem!Next
<1> QED  BY <1>5, <1>6, <1>7, <1>8, <1>9, <1>10 DEF Exec

\* put_mlq_proc puts a process into running_list that is in no instruction, and
\* from then on the system call finds that one besides those it found before.
LEMMA PreemptLists ==
  ASSUME SchedInv, AccessInv, HomeInv, NEW c \in CPU, ~crashed, Schedules(c), Preempt(c)
  PROVE  [Mem!Next]_(Mem!vars)
<1> DEFINE p == proc[c]
<1>1. UNCHANGED <<memVars, home, freed>> /\ PutProc(c)
  BY DEF Schedules, Preempt, PutProc
<1>2. p \in Proc /\ p \in loaded /\ p \notin freed
  BY <1>1, PutIn
<1>3. CASE running_list' = running_list
  <2>1. listed' = listed
    BY <1>1, <1>3, ListedStays
  <2> QED  BY <1>1, <2>1
           DEF memVars, Mem!vars, Mem!regionVars, Mem!frameVars, Mem!procVars
<1>4. CASE ToSet(running_list') = ToSet(running_list) \cup {p}
  <2>1. home[p] # NoProc
    BY <1>2 DEF HomeInv
  <2>2. ASSUME NEW q \in Proc
        PROVE  listed'[q] = IF q = p THEN TRUE ELSE listed[q]
    <3>1. listed'[q] = (/\ home[q] # NoProc /\ q \notin freed
                        /\ \E r \in ToSet(running_list) \cup {p} : home[r] = home[q])
      BY <1>1, <1>4 DEF listed
    <3>2. listed[q] = (/\ home[q] # NoProc /\ q \notin freed
                       /\ \E r \in ToSet(running_list) : home[r] = home[q])
      BY DEF listed
    <3>3. q # p /\ q \notin freed /\ home[q] # NoProc => home[q] # home[p]
      BY <1>2 DEF HomeInv
    <3> HIDE DEF p
    <3>4. CASE q = p
      BY <1>2, <2>1, <3>1, <3>4
    <3>5. CASE q # p
      BY <3>1, <3>2, <3>3, <3>5
    <3> QED  BY <3>4, <3>5
  <2>3. listed' = [listed EXCEPT ![p] = TRUE]
    <3>1. listed' = [q \in Proc |-> listed'[q]] /\ listed = [q \in Proc |-> listed[q]]
      BY DEF listed
    <3> HIDE DEF p
    <3> QED  BY <2>2, <3>1
  <2>4. acc[p] = Mem!Idle
    <3>1. ASSUME acc[p] # Mem!Idle PROVE FALSE
      <4>1. PICK d \in CPU : Accessing(d, p)
        BY <1>2, <3>1 DEF AccessInv
      <4>2. d = c
        BY <4>1, <1>2, NoProcAssumption DEF Accessing, SchedInv, Exclusive
      <4> QED  BY <4>1, <4>2 DEF AccessInv, Accessing, Executing, At, Preempt
    <3> QED  BY <3>1
  <2>5. Mem!PutBack(p)
    <3> HIDE DEF p
    <3> QED  BY <1>1, <1>2, <2>3, <2>4
             DEF Mem!PutBack, memVars, Mem!regionVars, Mem!frameVars
  <2> HIDE DEF p
  <2> QED  BY <1>2, <2>5 DEF Mem!Next
<1> QED  BY <1>1, <1>3, <1>4, PutIn

\* The system call may find a process that was just loaded, where a process was
\* that ended: Memory calls that being put back as well.
LEMMA LoadsLists ==
  ASSUME LoaderInv, SchedInv, AccessInv, HomeInv, Loads
  PROVE  [Mem!Next]_(Mem!vars)
<1>1. UNCHANGED <<memVars, running_list, freed>> /\ ~crashed
  BY DEF Loads, LoaderStep, AwaitStart, Load, EndLoading, AddProc, schedVars, queueVars
<1>2. listed' = listed => UNCHANGED (Mem!vars)
  BY <1>1 DEF memVars, Mem!vars, Mem!regionVars, Mem!frameVars, Mem!procVars
<1>3. CASE ~(i \in Proc /\ home[i] = NoProc)
  <2>1. home' = home
    BY <1>3 DEF Loads
  <2> QED  BY <1>1, <1>2, <2>1, ListedStays
<1>4. CASE i \in Proc /\ home[i] = NoProc
  <2>1. PICK a \in Addresses(i) : home' = [home EXCEPT ![i] = a]
    BY <1>4 DEF Loads
  <2>2. /\ a \in Proc
        /\ \A q \in Proc : home'[q] = IF q = i THEN a ELSE home[q]
    BY <1>4, <2>1, AddressesFree DEF HomeInv
  <2>3. acc[i] = Mem!Idle /\ i \notin freed /\ i \notin ToSet(running_list)
        /\ ToSet(running_list) \subseteq Proc
    BY <1>4, LoadedIdle DEF HomeInv, SchedInv, SchedTypeOK
  <2>4. ASSUME NEW q \in Proc, q # i
        PROVE  listed'[q] = listed[q]
    <3>1. listed'[q] = (/\ home'[q] # NoProc /\ q \notin freed
                        /\ \E r \in ToSet(running_list) : home'[r] = home'[q])
      BY <1>1 DEF listed
    <3>2. listed[q] = (/\ home[q] # NoProc /\ q \notin freed
                       /\ \E r \in ToSet(running_list) : home[r] = home[q])
      BY DEF listed
    <3> QED  BY <2>2, <2>3, <2>4, <3>1, <3>2
  <2>5. ~listed[i] /\ listed[i] \in BOOLEAN /\ listed'[i] \in BOOLEAN
    BY <1>4 DEF listed
  <2>6. listed' = [q \in Proc |-> listed'[q]] /\ listed = [q \in Proc |-> listed[q]]
    BY DEF listed
  <2>7. CASE ~listed'[i]
    <3>1. listed'[i] = listed[i]
      BY <2>5, <2>7
    <3>2. \A q \in Proc : listed'[q] = listed[q]
      BY <2>4, <3>1
    <3> QED  BY <1>2, <2>6, <3>2
  <2>8. CASE listed'[i]
    <3>1. \A q \in Proc : listed'[q] = IF q = i THEN TRUE ELSE listed[q]
      BY <2>4, <2>5, <2>8
    <3>2. listed' = [listed EXCEPT ![i] = TRUE]
      BY <2>6, <3>1
    <3>3. Mem!PutBack(i)
      BY <1>1, <2>3, <3>2 DEF Mem!PutBack, memVars, Mem!regionVars, Mem!frameVars
    <3> QED  BY <1>4, <3>3 DEF Mem!Next
  <2> QED  BY <2>7, <2>8
<1> QED  BY <1>3, <1>4

\* What the threads do to a process and to its memory is what Memory allows.
THEOREM MachineUsesMemory == MachineSpec => ImplementsMemory
<1>1. MachineInit => Mem!Init
  BY DEF MachineInit
<1>2. LoaderInv /\ SchedInv /\ AccessInv /\ HomeInv /\ [MachineNext]_machineVars
        => [Mem!Next]_(Mem!vars)
  <2> SUFFICES ASSUME LoaderInv, SchedInv, AccessInv, HomeInv, [MachineNext]_machineVars
               PROVE  [Mem!Next]_(Mem!vars)
    OBVIOUS
  <2>1. UNCHANGED <<memVars, home, running_list, freed>> => UNCHANGED (Mem!vars)
    BY ListedStays DEF memVars, Mem!vars, Mem!regionVars, Mem!frameVars, Mem!procVars
  <2>2. ASSUME NEW c \in CPU, ~crashed, Schedules(c)
        PROVE  [Mem!Next]_(Mem!vars)
    <3>1. UNCHANGED <<memVars, home, freed>>
      BY <2>2, SchedulesLists DEF Schedules
    <3> QED  BY <2>1, <2>2, <3>1, SchedulesLists, PreemptLists
  <2>3. ASSUME NEW c \in CPU, Ends(c)
        PROVE  Mem!Next
    <3>1. proc[c] \in Proc /\ Mem!End(proc[c])
      BY <2>3 DEF Ends, Retire, HasProc, SchedInv, SchedTypeOK
    <3> QED  BY <3>1 DEF Mem!Next
  <2>4. CASE TimerRuns \/ Over \/ UNCHANGED machineVars
    <3>1. UNCHANGED <<memVars, home, running_list, freed>>
      BY <2>4 DEF TimerRuns, EndSlot, HaltTimer, Over, machineVars, vars, schedVars,
                  queueVars
    <3> QED  BY <2>1, <3>1
  <2> QED  BY <2>2, <2>3, <2>4, ExecUsesMemory, LoadsLists
           DEF MachineNext, Works, CPURuns
<1> QED  BY <1>1, <1>2, HomeInvariance, AccessInvariance, MachineInvariance, PTL
         DEF MachineSpec, ImplementsMemory, Mem!Spec

\* The threads, the scheduler, the instructions and the addresses of the PCBs always
\* have their types; those of the memory are Memory's, which Machine implements.
LEMMA MachineTypes ==
  MachineSpec => [](TypeOK /\ ins \in [CPU -> Code \cup {NoIns}]
                           /\ home \in [Proc -> Proc \cup {NoProc}])
<1>1. LoaderInv /\ SchedInv /\ CPUInv => TypeOK
  BY DEF LoaderInv, SchedInv, CPUInv, ThreadTypeOK, TypeOK
<1>2. HomeInv => ins \in [CPU -> Code \cup {NoIns}] /\ home \in [Proc -> Proc \cup {NoProc}]
  BY DEF HomeInv
<1> QED  BY MachineInvariance, HomeInvariance, <1>1, <1>2, PTL
-----------------------------------------------------------------------------
(* The theorems about Memory hold of the whole *)

\* The proofs about Memory, of the memory of the machine.
MemP == INSTANCE MemoryProofs WITH
          CPUS <- Cardinality(CPU), CALLS <- {}, AT_LOAD <- {FALSE}, ended <- freed

\* Its constants are what Memory and Pte assume.
LEMMA MemoryConstants ==
  /\ NoProc \notin Proc /\ KRNL_MM \in Proc \cup {NoProc}
  /\ /\ PAGING_MAX_PGN \in Nat \ {0} /\ PAGING64_MAX_PGN \in Nat
     /\ PAGING_PAGESZ \in Nat \ {0}
     /\ PAGING64_PAGESZ \in Nat \ {0}
     /\ PAGING64_PAGESZ % PAGING_PAGESZ = 0
  /\ RAM_FRAMES \in Nat \ {0} /\ SWAP_FRAMES \in Nat \ {0}
  /\ SAME_PCB \in BOOLEAN /\ FREES \in BOOLEAN /\ {FALSE} \subseteq BOOLEAN
  /\ MemP!IsFiniteSet(RgId)
  /\ Sizes \subseteq Nat \ {0} /\ Offsets \subseteq Nat /\ MAX_GROWTH \in Nat
  /\ FPN_SPAN \in Nat \ {0} /\ SWPTYP_SPAN \in Nat \ {0} /\ SWPOFF_SPAN \in Nat \ {0}
  /\ PATTERN_LOW \in MemP!Low /\ (SWPTYP_SPAN * SWPOFF_SPAN) % FPN_SPAN = 0
BY NoProcAssumption, KernelAssumption, PageSizeAssumption, DeviceAssumption, BuildAssumption,
   RgIdAssumption, OperandAssumption, SpanAssumption, FitAssumption
   DEF IsFiniteSet, MemP!IsFiniteSet, MemP!Low

\* Mem and MemP are two names of the same definitions.
LEMMA SameInit == Mem!Init <=> MemP!Init
BY DEF
    Mem!Init, MemP!Init, Mem!NoRg, MemP!NoRg, Mem!Rg, MemP!Rg, Mem!Page, MemP!Page,
    Mem!NoPte, MemP!NoPte, Mem!RamFrame, MemP!RamFrame, Mem!SwapFrame, MemP!SwapFrame,
    Mem!Blank, MemP!Blank, Mem!Idle, MemP!Idle, Mem!InAccess, MemP!InAccess

LEMMA SameNext == [Mem!Next]_(Mem!vars) <=> [MemP!Next]_(MemP!vars)
<1>1. Mem!Next <=> MemP!Next
  BY DEF
      Mem!Next, MemP!Next, Mem!AllocFree, MemP!AllocFree, Mem!AllocGrow, MemP!AllocGrow,
      Mem!AllocCrash, MemP!AllocCrash, Mem!IncOp, MemP!IncOp, Mem!Free, MemP!Free,
      Mem!MapOp, MemP!MapOp, Mem!IoWrite, MemP!IoWrite, Mem!SwpOp, MemP!SwpOp,
      Mem!CallCrash, MemP!CallCrash, Mem!PutBack, MemP!PutBack, Mem!End, MemP!End,
      Mem!Begin, MemP!Begin, Mem!Access, MemP!Access, Mem!AccessReturns,
      MemP!AccessReturns, Mem!AccessGoesOn, MemP!AccessGoesOn, Mem!AccessAbsent,
      MemP!AccessAbsent, Mem!AccessPresent, MemP!AccessPresent, Mem!AccessFrame,
      MemP!AccessFrame, Mem!AccessNoVictim, MemP!AccessNoVictim, Mem!AccessVictim,
      MemP!AccessVictim, Mem!AccessNoSwap, MemP!AccessNoSwap, Mem!AccessEvict,
      MemP!AccessEvict, Mem!AccessLoad, MemP!AccessLoad, Mem!AccessPut, MemP!AccessPut,
      Mem!AccessCrash, MemP!AccessCrash, Mem!AccessAt, MemP!AccessAt, Mem!InAccess,
      MemP!InAccess, Mem!GoesOn, MemP!GoesOn, Mem!Rg, MemP!Rg, Mem!NoRg, MemP!NoRg,
      Mem!FirstFit, MemP!FirstFit, Mem!SelectInSeq, MemP!SelectInSeq, Mem!Min, MemP!Min,
      Mem!Max, MemP!Max, Mem!Carve, MemP!Carve, Mem!RemoveAt, MemP!RemoveAt, Mem!Enlist,
      MemP!Enlist, Mem!Ready, MemP!Ready, Mem!Idle, MemP!Idle, Mem!frameVars,
      MemP!frameVars, Mem!regionVars, MemP!regionVars, Mem!procVars, MemP!procVars,
      Mem!Page, MemP!Page, Mem!PAGING_PGN, MemP!PAGING_PGN, Mem!MapRam, MemP!MapRam,
      Mem!FramesLeft, MemP!FramesLeft, Mem!WithFpn, MemP!WithFpn, Mem!PAGING_FPN,
      MemP!PAGING_FPN, Mem!IncVmaLimit, MemP!IncVmaLimit, Mem!RoundUp, MemP!RoundUp,
      Mem!Crash, MemP!Crash, Mem!NoPte, MemP!NoPte, Mem!Pattern, MemP!Pattern,
      Mem!CopyPage, MemP!CopyPage, Mem!Blank, MemP!Blank, Mem!Present, MemP!Present,
      Mem!Looked, MemP!Looked, Mem!ReturnedRam, MemP!ReturnedRam, Mem!ReturnedSwap,
      MemP!ReturnedSwap, Mem!PAGING_SWP, MemP!PAGING_SWP, Mem!Giving, MemP!Giving,
      Mem!Pgn, MemP!Pgn, Mem!Entry, MemP!Entry, Mem!Done, MemP!Done, Mem!Stores,
      MemP!Stores, Mem!CanStore, MemP!CanStore, Mem!Absent, MemP!Absent, Mem!PutFree,
      MemP!PutFree, Mem!EnlistPgn, MemP!EnlistPgn, Mem!NeedsVictim, MemP!NeedsVictim,
      Mem!Victim, MemP!Victim, Mem!Last, MemP!Last, Mem!WithoutVictim,
      MemP!WithoutVictim, Mem!Front, MemP!Front, Mem!WithSwap, MemP!WithSwap,
      Mem!Cardinality, MemP!Cardinality, Mem!RamFrame, MemP!RamFrame, Mem!SwapFrame,
      MemP!SwapFrame
<1>2. UNCHANGED Mem!vars <=> UNCHANGED MemP!vars
  BY DEF
      Mem!vars, MemP!vars, Mem!regionVars, MemP!regionVars, Mem!frameVars, MemP!frameVars,
      Mem!procVars, MemP!procVars
<1> QED  BY <1>1, <1>2

\* So the machine's memory meets the specification that the theorems are about.
LEMMA MachineMemory == MachineSpec => MemP!Spec
BY MachineUsesMemory, SameInit, SameNext, PTL DEF ImplementsMemory, Mem!Spec, MemP!Spec

\* With threads, scheduler and loader at work, all variables keep their types: in the
\* build, where nobody gives frames back, or if the number that mapped pages give back
\* is a frame of swap.
THEOREM MachineTypeCorrect ==
  ASSUME Mem!PAGING_SWP(Mem!Pattern) \in Mem!SwapFrame \/ ~FREES
  PROVE  MachineSpec => []TypeOKMachine
<1>1. MemP!PAGING_SWP(MemP!Pattern) \in MemP!SwapFrame \/ ~FREES
  BY DEF
      Mem!PAGING_SWP, MemP!PAGING_SWP, Mem!Pattern, MemP!Pattern, Mem!SwapFrame,
      MemP!SwapFrame
<1>2. MemP!Spec => []MemP!TypeOK
  BY <1>1, MemP!MemoryTypes, MemoryConstants
<1>3. MemP!TypeOK => Mem!TypeOK
  BY DEF
      Mem!TypeOK, MemP!TypeOK, Mem!Page, MemP!Page, Mem!PTE, MemP!PTE, Mem!Low, MemP!Low,
      Mem!RamFrame, MemP!RamFrame, Mem!SwapFrame, MemP!SwapFrame, Mem!Blank, MemP!Blank,
      Mem!Idle, MemP!Idle, Mem!InAccess, MemP!InAccess, Mem!PAGING_SWP, MemP!PAGING_SWP,
      Mem!Pattern, MemP!Pattern
<1>4. TypeOK /\ ins \in [CPU -> Code \cup {NoIns}] /\ home \in [Proc -> Proc \cup {NoProc}]
        /\ Mem!TypeOK => TypeOKMachine
  BY DEF TypeOKMachine
<1> QED  BY <1>2, <1>3, <1>4, MachineMemory, MachineTypes, PTL

\* Whatever the processes do on whatever CPUs, in every build: regions are cut, moved and
\* joined without a byte made up or lost.
THEOREM MachineRegions == MachineSpec => []Mem!NoByteForged /\ Mem!NoByteLost
<1>1. MemP!Spec => []MemP!NoByteForged /\ MemP!NoByteLost
  <2>1. MemP!Spec => []MemP!NoByteForged
    BY MemP!NoByteForgedAlways, MemoryConstants
  <2>2. MemP!Spec => MemP!NoByteLost
    BY MemP!NoByteLostAlways, MemoryConstants
  <2> QED  BY <2>1, <2>2
<1>2. MemP!NoByteForged => Mem!NoByteForged
  BY DEF
      Mem!NoByteForged, MemP!NoByteForged, Mem!Cover, MemP!Cover, Mem!Holds, MemP!Holds,
      Mem!Cardinality, MemP!Cardinality, Mem!Addr, MemP!Addr
<1>3. MemP!NoByteLost => Mem!NoByteLost
  BY DEF
      Mem!NoByteLost, MemP!NoByteLost, Mem!Cover, MemP!Cover, Mem!Holds, MemP!Holds,
      Mem!Cardinality, MemP!Cardinality, Mem!Addr, MemP!Addr, Mem!NoRg, MemP!NoRg, Mem!Rg,
      MemP!Rg, Mem!vars, MemP!vars, Mem!regionVars, MemP!regionVars, Mem!frameVars,
      MemP!frameVars, Mem!procVars, MemP!procVars
<1> QED  BY <1>1, <1>2, <1>3, MachineMemory, PTL

\* Reads take no lock, and their accesses race with each other and with writes on all the
\* CPUs: yet the candidates for eviction of a process are pages of its own in RAM, each
\* once, if growth is orderly and no page is mapped twice.
THEOREM MachineVictims ==
  ASSUME MemP!OrderlyGrowth, ~REMAP, RAM_FRAMES <= FPN_SPAN
  PROVE  MachineSpec => []Mem!VictimsInRam
<1>1. MemP!Spec => []MemP!VictimsInRam
  BY MemP!VictimsInRamAlways, MemoryConstants
<1>2. MemP!VictimsInRam => Mem!VictimsInRam
  BY DEF
      Mem!VictimsInRam, MemP!VictimsInRam, Mem!InRam, MemP!InRam, Mem!Page, MemP!Page,
      Mem!Present, MemP!Present, Mem!IsInjective, MemP!IsInjective, Mem!Range, MemP!Range
<1> QED  BY <1>1, <1>2, MachineMemory, PTL

\* If accesses exclude each other, growth is orderly and no page is mapped twice, every
\* frame of RAM is free, moving or holds one page, the victims are the pages in RAM, and
\* there is a frame of swap for each, while the scheduler moves the processes from CPU to
\* CPU and others are loaded and end.
THEOREM MachineFrames ==
  ASSUME MemP!Serial, MemP!OrderlyGrowth, ~REMAP, RAM_FRAMES <= FPN_SPAN
  PROVE  MachineSpec => [](Mem!FramesPartitioned /\ Mem!FifoIsInRam /\ Mem!SwapNeverEmpty)
<1>1. MemP!Spec => [](MemP!FramesPartitioned /\ MemP!FifoIsInRam /\ MemP!SwapNeverEmpty)
  <2>1. MemP!Spec => [](MemP!FramesPartitioned /\ MemP!FifoIsInRam)
    BY MemP!FramesInvariance, MemoryConstants
  <2>2. MemP!Spec => []MemP!SwapNeverEmpty
    BY MemP!SwapNeverEmptyAlways, MemoryConstants
  <2> QED  BY <2>1, <2>2, PTL
<1>2. MemP!FramesPartitioned => Mem!FramesPartitioned
  BY DEF
      Mem!FramesPartitioned, MemP!FramesPartitioned, Mem!Keeps, MemP!Keeps, Mem!Looked,
      MemP!Looked, Mem!Page, MemP!Page, Mem!InRam, MemP!InRam, Mem!Present, MemP!Present,
      Mem!IsInjective, MemP!IsInjective, Mem!Range, MemP!Range, Mem!RamFrame,
      MemP!RamFrame, Mem!PAGING_FPN, MemP!PAGING_FPN
<1>3. MemP!FifoIsInRam => Mem!FifoIsInRam
  BY DEF
      Mem!FifoIsInRam, MemP!FifoIsInRam, Mem!InRam, MemP!InRam, Mem!Page, MemP!Page,
      Mem!Present, MemP!Present, Mem!IsInjective, MemP!IsInjective, Mem!Range, MemP!Range
<1>4. MemP!SwapNeverEmpty => Mem!SwapNeverEmpty
  BY DEF
      Mem!SwapNeverEmpty, MemP!SwapNeverEmpty, Mem!AccessAt, MemP!AccessAt, Mem!Idle,
      MemP!Idle, Mem!InAccess, MemP!InAccess
<1> QED  BY <1>1, <1>2, <1>3, <1>4, MachineMemory, PTL

\* Every process of the machine sees pages of its own that hold what it wrote last, if
\* programs write under mmvm_lock and map pages for all of which there is RAM.
THEOREM MachineVirtualMemory ==
  ASSUME MemP!Serial, MemP!MapsOnly, MemP!RoomForAll, RAM_FRAMES <= FPN_SPAN,
         MemP!PAGING_SWP(MemP!Pattern) \in MemP!SwapFrame
  PROVE  MachineSpec => ImplementsVM
<1>1. MemP!Spec => MemP!ImplementsVM
  BY MemP!ImplementsVMMapped, MemoryConstants
<1> DEFINE seen == [p \in Proc |-> [g \in Mem!Page |->
                     IF p \in freed \/ Mem!Absent(pte[p][g]) THEN Mem!Unmapped
                     ELSE Mem!Contents(pte[p][g])]]
           seenP == [p \in Proc |-> [g \in MemP!Page |->
                     IF p \in freed \/ MemP!Absent(pte[p][g]) THEN MemP!Unmapped
                     ELSE MemP!Contents(pte[p][g])]]
<1>2. MemP!VM!Init => Mem!VM!Init
  BY DEF
      Mem!VM!Init, MemP!VM!Init, Mem!Page, MemP!Page, Mem!Absent, MemP!Absent, Mem!Unmapped,
      MemP!Unmapped, Mem!Contents, MemP!Contents, Mem!PAGING_FPN, MemP!PAGING_FPN,
      Mem!PAGING_SWP, MemP!PAGING_SWP
<1>3. [MemP!VM!Next]_seenP => [Mem!VM!Next]_seen
  BY DEF
      Mem!VM!Next, MemP!VM!Next, Mem!VM!Map, MemP!VM!Map, Mem!VM!Write, MemP!VM!Write,
      Mem!VM!Release, MemP!VM!Release, Mem!Page, MemP!Page, Mem!Absent, MemP!Absent,
      Mem!Unmapped, MemP!Unmapped, Mem!Contents, MemP!Contents, Mem!PAGING_FPN,
      MemP!PAGING_FPN, Mem!PAGING_SWP, MemP!PAGING_SWP, Mem!Written, MemP!Written, Mem!Blank,
      MemP!Blank
<1>4. MemP!ImplementsVM => Mem!ImplementsVM
  BY <1>2, <1>3, PTL DEF MemP!ImplementsVM, MemP!VM!Spec, Mem!ImplementsVM, Mem!VM!Spec
<1> QED  BY <1>1, <1>4, MachineMemory, PTL DEF ImplementsVM
-----------------------------------------------------------------------------
(* The threads do not wait for each other in a circle *)

\* The guards of Access together.  At the entry of its page, the page is nowhere, in RAM
\* or in swap, and then there is a frame on the list, no victim, or one; at the list of
\* swap there is a frame, or none.  What else Access tests decides between success and
\* AccessCrash.
AccessCan(p) ==
    \/ acc[p].at \in {"page", "swap", "load", "put"}
    \/ acc[p].at = "io" /\ Mem!Present(Mem!Entry(p))

\* Where the accesses are.
PlaceInv == \A p \in Proc : acc[p] # Mem!Idle => AccessCan(p)

\* What the instruction of CPU c needs, which its process p is at.
AllocCan(p, size) ==
    /\ Mem!Ready(p) /\ lock = NoProc
    /\ Mem!FirstFit(freerg[p], size) # 0 \/ grown[p] < MAX_GROWTH

FreeCan(p, rg) == lock = NoProc /\ (symrgtbl[p][rg] = Mem!NoRg \/ Mem!Ready(p))

BeginCan(p, op, rg, off) ==
    /\ acc[p] = Mem!Idle
    /\ op = "write" => lock = NoProc
    /\ off < symrgtbl[p][rg].rg_end - symrgtbl[p][rg].rg_start => Mem!Ready(p)

MapCan(p, range) == listed[p] => Mem!Ready(p) /\ (REMAP \/ Fresh(p, range))

InsCan(c) ==
    LET p == proc[c] IN
    \/ ins[c] = <<"calc">>
    \/ ins[c][1] = "alloc" /\ AllocCan(p, ins[c][3])
    \/ ins[c][1] = "free" /\ FreeCan(p, ins[c][2])
    \/ ins[c][1] \in {"read", "write"} /\ BeginCan(p, ins[c][1], ins[c][2], ins[c][3])
    \/ ins[c][1] \in {"read", "write"} /\ acc[p] # Mem!Idle /\ AccessCan(p)
    \/ ins[c][1] = "map" /\ MapCan(p, ins[c][2])

FetchCan(c) ==
    \E line \in Code : /\ line[1] \in Opcodes[proc[c]]
                       /\ line[1] = "map" => REMAP \/ Fresh(proc[c], line[2])

\* The guards of the steps of CPU c: at the top of the loop it gets a process, ends the one
\* it has (with free_pcb_memph under mmvm_lock), puts it back or goes on; then it gets
\* another; without a process it stops or skips the slot; with one it runs.
CPUCan(c) ==
    \/ At(c, "top") /\ ~(HasProc(c) /\ Finished(c))
    \/ At(c, "top") /\ acc[proc[c]] = Mem!Idle /\ proc[c] \notin freed
                    /\ (FREES => lock = NoProc)
    \/ At(c, "get") /\ ~HasProc(c)
    \/ At(c, "recheck") /\ ~HasProc(c)
    \/ At(c, "recheck") /\ HasProc(c) /\ Finished(c)
    \/ Executing(c) /\ ins[c] = NoIns /\ FetchCan(c)
    \/ Executing(c) /\ ins[c] # NoIns /\ InsCan(c)

LoaderCan ==
    B!Working(Loader) /\ (i <= num_processes /\ time >= start_time[i] => i \notin loaded)

\* A CPU that is to get a process has none; a program has grown at most once for each
\* instruction it has executed; a page that is about to be mapped is still fresh.
WaitInv ==
    /\ \A c \in CPU : cpc[c] = "get" => proc[c] = NoProc
    /\ DOMAIN grown = Proc
    /\ \A p \in Proc : grown[p] \in Nat /\ grown[p] <= pc[p]
    /\ \A c \in CPU : ins[c] # NoIns /\ ins[c][1] = "map" =>
                        REMAP \/ Fresh(proc[c], ins[c][2])

\* Only the end of a process and its being put back lead to the second call of get_proc.
LEMMA GetHasNone ==
  ASSUME CPUInv, SchedInv, WaitInv, [Next]_vars
  PROVE  \A c \in CPU : cpc'[c] = "get" => proc'[c] = NoProc
<1> SUFFICES ASSUME NEW c \in CPU, cpc'[c] = "get" PROVE proc'[c] = NoProc
  OBVIOUS
<1> USE DEF CPUInv, ThreadTypeOK, SchedInv, SchedTypeOK
<1>1. cpc[c] = "get" => proc[c] = NoProc
  BY DEF WaitInv
<1>2. ASSUME NEW d \in CPU, CPUStep(d) PROVE proc'[c] = NoProc
  <2>1. CASE d = c
    <3>1. Retire(c) \/ Preempt(c)
      BY <1>2, <2>1 DEF CPUStep, FirstGet, Continue, NextGet, StopCPU, Skip, Run, At, Goto,
           cpuVars
    <3> QED  BY <3>1 DEF Retire, Preempt, FreeProc, PutProc
  <2>2. CASE d # c
    <3>1. cpc'[c] = cpc[c]
      BY <1>2, <2>2 DEF CPUStep, FirstGet, Retire, Preempt, Continue, NextGet, StopCPU, Skip,
           Run, Goto, cpuVars
    <3>2. proc'[c] = proc[c]
      BY <1>2, <2>2 DEF CPUStep, FirstGet, Retire, Preempt, Continue, NextGet, StopCPU, Skip,
           Run, schedVars, GetProc, GetSome, GetNone, PutProc, FreeProc
    <3> QED  BY <1>1, <3>1, <3>2
  <2> QED  BY <2>1, <2>2
<1>3. CASE LoaderStep
  <2>1. UNCHANGED <<cpc, proc>>
    BY <1>3 DEF LoaderStep, AwaitStart, Load, EndLoading, AddProc, schedVars, cpuVars
  <2> QED  BY <1>1, <2>1
<1>4. CASE EndSlot \/ HaltTimer \/ Return \/ UNCHANGED vars
  <2>1. UNCHANGED <<cpc, proc>>
    BY <1>4 DEF EndSlot, HaltTimer, Return, vars, schedVars, cpuVars
  <2> QED  BY <1>1, <2>1
<1> QED  BY <1>2, <1>3, <1>4 DEF Next

\* The program counter of a process goes on by one, with its instruction, or stays.
LEMMA CounterSteps ==
  ASSUME [Next]_vars
  PROVE  pc' = pc \/ \E c \in CPU : pc' = [pc EXCEPT ![proc[c]] = @ + 1]
<1>1. ASSUME NEW c \in CPU, CPUStep(c)
      PROVE  pc' = pc \/ pc' = [pc EXCEPT ![proc[c]] = @ + 1]
  BY <1>1 DEF CPUStep, FirstGet, Retire, Preempt, Continue, NextGet, StopCPU, Skip, Run,
       cpuVars
<1>2. CASE LoaderStep \/ EndSlot \/ HaltTimer \/ Return \/ UNCHANGED vars
  BY <1>2 DEF LoaderStep, AwaitStart, Load, EndLoading, EndSlot, HaltTimer, Return, vars,
       cpuVars
<1> QED  BY <1>1, <1>2 DEF Next

\* The break of a process is raised by an alloc only, which is an instruction.
LEMMA GrowsOnce ==
  ASSUME CPUInv, AccessInv, WaitInv, [MachineNext]_machineVars
  PROVE  DOMAIN grown' = Proc /\ \A p \in Proc : grown'[p] \in Nat /\ grown'[p] <= pc'[p]
<1> USE DEF WaitInv, CPUInv, ThreadTypeOK
<1>1. \A p \in Proc : pc'[p] >= pc[p] /\ pc'[p] \in Nat
  BY MachineStep, CounterSteps
<1>2. CASE grown' = grown
  BY <1>1, <1>2
<1>3. ASSUME NEW c \in CPU, ExecAlloc(c), grown' # grown
      PROVE  DOMAIN grown' = Proc /\ \A p \in Proc : grown'[p] \in Nat /\ grown'[p] <= pc'[p]
  <2>1. EndIns(c) /\ grown' = [grown EXCEPT ![proc[c]] = @ + 1]
    BY <1>3 DEF ExecAlloc, Mem!AllocFree, Mem!AllocGrow, Mem!AllocCrash, Mem!Crash,
         Mem!regionVars
  <2>2. Run(c) /\ ~Finished(c)
    BY <1>3, <2>1 DEF ExecAlloc, EndIns, Is, AccessInv, Executing
  <2>3. pc' = [pc EXCEPT ![proc[c]] = @ + 1]
    BY <2>2 DEF Run
  <2> QED  BY <1>1, <2>1, <2>3
<1>4. ASSUME NEW c \in CPU, Exec(c), ~ExecAlloc(c) PROVE grown' = grown
  BY <1>4 DEF Exec, Fetch, ExecCalc, ExecFree, Mem!Free, ExecBegin, Mem!Begin, ExecAccess,
       Mem!AccessReturns, Mem!AccessAbsent, Mem!AccessPresent, Mem!AccessNoVictim,
       Mem!AccessNoSwap, Mem!AccessGoesOn, Mem!AccessFrame, Mem!AccessVictim, Mem!AccessEvict,
       Mem!AccessLoad, Mem!AccessPut, Mem!AccessCrash, Mem!Done, Mem!GoesOn, Mem!Crash,
       ExecSyscall, Mem!MapOp, Mem!regionVars, memVars
<1>5. ASSUME NEW c \in CPU, Schedules(c) \/ Ends(c) PROVE grown' = grown
  BY <1>5 DEF Schedules, Ends, Mem!End, Mem!regionVars, memVars
<1>6. ASSUME Over \/ UNCHANGED machineVars PROVE grown' = grown
  BY <1>6 DEF Over, machineVars, memVars
<1>7. ASSUME Loads \/ TimerRuns PROVE grown' = grown
  BY <1>7 DEF Loads, TimerRuns, memVars
<1> QED  BY <1>2, <1>3, <1>4, <1>5, <1>6, <1>7 DEF MachineNext, Works, CPURuns

\* What a step does to the instruction of a CPU: it is fetched, ends, or stays, and then
\* its process stays too, with its pages unless it is in an access.
LEMMA InsSteps ==
  ASSUME SchedInv, CPUInv, AccessInv, DomainInv, [MachineNext]_machineVars, NEW c \in CPU
  PROVE  \/ Fetch(c)
         \/ ins'[c] = NoIns
         \/ /\ ins'[c] = ins[c] /\ proc'[c] = proc[c]
            /\ ins[c][1] \in {"read", "write"} \/ pte'[proc[c]] = pte[proc[c]]
<1> SUFFICES ASSUME ~Fetch(c), ins'[c] # NoIns
             PROVE  /\ ins'[c] = ins[c] /\ proc'[c] = proc[c]
                    /\ ins[c][1] \in {"read", "write"} \/ pte'[proc[c]] = pte[proc[c]]
  OBVIOUS
<1> USE DEF AccessInv
<1>1. ins'[c] = ins[c]
  <2>1. ASSUME NEW d \in CPU, Exec(d)
        PROVE  \/ \E line : ins' = [ins EXCEPT ![d] = line] /\ (d = c => line = NoIns)
               \/ ins' = ins
    BY <2>1 DEF Exec, Fetch, ExecCalc, ExecAlloc, ExecFree, ExecBegin, ExecAccess,
         ExecSyscall, EndIns, Still
  <2>2. ASSUME NEW d \in CPU, Schedules(d) \/ Ends(d) PROVE ins' = ins
    BY <2>2 DEF Schedules, Ends
  <2>3. ASSUME Loads \/ TimerRuns \/ Over \/ UNCHANGED machineVars PROVE ins' = ins
    BY <2>3 DEF Loads, TimerRuns, Over, machineVars
  <2> QED  BY <2>1, <2>2, <2>3 DEF MachineNext, Works, CPURuns
<1>2. Executing(c) /\ proc[c] \in Proc
  BY <1>1 DEF Executing, HasProc, SchedInv, SchedTypeOK
<1>3. ASSUME NEW d \in CPU, EndIns(d) \/ Accesses(d), proc[d] = proc[c]
      PROVE  ins[c][1] \in {"read", "write"}
  <2>1. d = c
    BY <1>2, <1>3 DEF SchedInv, Exclusive, Executing, HasProc
  <2>2. ~EndIns(d)
    BY <2>1 DEF EndIns
  <2> QED  BY <1>3, <2>1, <2>2 DEF Accesses, Is
<1>4. proc'[c] = proc[c]
  <2>1. ASSUME NEW d \in CPU, Schedules(d) \/ Ends(d) PROVE proc'[c] = proc[c]
    BY <1>2, <2>1, SchedulesOthers DEF Ends
  <2>2. ASSUME NEW d \in CPU, Exec(d) PROVE proc' = proc
    BY <2>2 DEF Exec, Fetch, ExecCalc, ExecAlloc, ExecFree, ExecBegin, ExecAccess,
         ExecSyscall, EndIns, Run, Still, vars, schedVars
  <2>3. CASE Loads
    BY <1>2, <2>3, LoadsOthers
  <2>4. CASE TimerRuns
    BY <1>2, <2>4, TimerOthers
  <2>5. ASSUME Over \/ UNCHANGED machineVars PROVE proc' = proc
    BY <2>5 DEF Over, machineVars, vars, schedVars
  <2> QED  BY <2>1, <2>2, <2>3, <2>4, <2>5 DEF MachineNext, Works, CPURuns
<1>5. ins[c][1] \in {"read", "write"} \/ pte'[proc[c]] = pte[proc[c]]
  BY <1>2, <1>3, OwnStep DEF MemoryOf
<1> QED  BY <1>1, <1>4, <1>5

\* The initial states satisfy WaitInv.
LEMMA WaitInit == MachineInit => WaitInv
<1> SUFFICES ASSUME MachineInit PROVE WaitInv
  OBVIOUS
<1>1. cpc = [c \in CPU |-> "top"] /\ pc = [p \in Proc |-> 0] /\ ins = [c \in CPU |-> NoIns]
  BY DEF MachineInit, Init
<1>2. grown = [p \in Proc |-> 0]
  BY DEF MachineInit, Mem!Init
<1> QED  BY <1>1, <1>2 DEF WaitInv

\* It holds in every reachable state.
LEMMA WaitInvariance == MachineSpec => []WaitInv
<1> DEFINE Inv == SchedInv /\ CPUInv /\ AccessInv /\ DomainInv
<1>1. Inv /\ WaitInv /\ [MachineNext]_machineVars => WaitInv'
  <2> SUFFICES ASSUME Inv, WaitInv, [MachineNext]_machineVars
               PROVE  WaitInv'
    OBVIOUS
  <2>1. \A c \in CPU : cpc'[c] = "get" => proc'[c] = NoProc
    BY GetHasNone, MachineStep
  <2>2. DOMAIN grown' = Proc /\ \A p \in Proc : grown'[p] \in Nat /\ grown'[p] <= pc'[p]
    BY GrowsOnce
  <2>3. ASSUME NEW c \in CPU, ins'[c] # NoIns, ins'[c][1] = "map"
        PROVE  REMAP \/ Fresh(proc[c], ins[c][2])'
    <3>1. CASE Fetch(c)
      <4>1. PICK line \in Code : /\ line[1] = "map" => REMAP \/ Fresh(proc[c], line[2])
                                 /\ ins' = [ins EXCEPT ![c] = line]
        BY <3>1 DEF Fetch
      <4>2. ins'[c] = line /\ UNCHANGED <<proc, pte>>
        BY <3>1, <4>1 DEF Fetch, AccessInv, vars, schedVars, memVars
      <4> QED  BY <2>3, <4>1, <4>2 DEF Fresh, Mem!NoPte
    <3>2. CASE /\ ins'[c] = ins[c] /\ proc'[c] = proc[c]
               /\ ins[c][1] \in {"read", "write"} \/ pte'[proc[c]] = pte[proc[c]]
      BY <2>3, <3>2 DEF WaitInv, Fresh, Mem!NoPte
    <3> QED  BY <2>3, <3>1, <3>2, InsSteps
  <2> QED  BY <2>1, <2>2, <2>3 DEF WaitInv
<1>2. MachineInit => DomainInv
  BY DEF MachineInit, Mem!Init, DomainInv
<1>3. DomainInv /\ [MachineNext]_machineVars => DomainInv'
  BY OwnStep
<1> QED  BY WaitInit, <1>1, <1>2, <1>3, MachineInvariance, AccessInvariance, PTL
         DEF MachineSpec

\* A CPU that is at an instruction leaves room for it: fewer accesses are under way than
\* there are CPUs.
LEMMA RoomForIns ==
  ASSUME SchedInv, AccessInv, ~crashed, NEW c \in CPU, ins[c] # NoIns,
         acc[proc[c]] = Mem!Idle
  PROVE  Mem!Ready(proc[c])
<1> DEFINE busy == {q \in Proc : acc[q] # Mem!Idle}
           at == [q \in busy |-> CHOOSE d \in CPU : Accessing(d, q)]
<1>1. proc[c] \in Proc /\ proc[c] \notin freed
  BY DEF AccessInv, Executing, HasProc, SchedInv, SchedTypeOK, Exclusive, Held
<1>2. \A q \in busy : at[q] \in CPU /\ proc[at[q]] = q
  BY DEF AccessInv, Accessing
<1>3. \A q \in busy : at[q] \in CPU \ {c}
  BY <1>2
<1>4. IsFiniteSet(CPU \ {c}) /\ Cardinality(CPU \ {c}) = Cardinality(CPU) - 1
      /\ Cardinality(CPU) \in Nat
  BY CPUFiniteAssumption, FS_RemoveElement, FS_CardinalityType
<1>5. Cardinality(busy) <= Cardinality(CPU \ {c})
  <2>1. at \in Injection(busy, CPU \ {c})
    <3>1. at \in [busy -> CPU \ {c}]
      BY <1>3
    <3>2. ASSUME NEW q \in busy, NEW r \in busy, at[q] = at[r] PROVE q = r
      <4>1. proc[at[q]] = q /\ proc[at[r]] = r
        BY <1>2
      <4> QED  BY <3>2, <4>1
    <3> HIDE DEF at, busy
    <3> QED  BY <3>1, <3>2 DEF Injection, IsInjective
  <2> QED  BY <1>4, <2>1, FS_Injection
<1>6. Cardinality(busy) \in Nat
  BY ProcFiniteAssumption, FS_Subset, FS_CardinalityType
<1>7. Cardinality(busy) < Cardinality(CPU)
  BY <1>4, <1>5, <1>6
<1>8. Mem!Cardinality(busy) = Cardinality(busy)
  BY DEF Mem!Cardinality, Cardinality
<1> QED  BY <1>1, <1>7, <1>8 DEF Mem!Ready

\* Whatever an access finds, it can go on, and it does not wait for other accesses.
LEMMA PlaceInvariance == MachineSpec => []PlaceInv
<1>1. MemP!Spec => [](MemP!RegionTypeOK /\ MemP!FrameTypeOK /\ MemP!Waiting)
  BY MemP!FrameTypes, MemoryConstants
<1>2. MemP!FrameTypeOK /\ MemP!Waiting => PlaceInv
  <2> SUFFICES ASSUME MemP!FrameTypeOK, MemP!Waiting, NEW p \in Proc, acc[p] # Mem!Idle
               PROVE  AccessCan(p)
    BY DEF PlaceInv
  <2>1. MemP!Idle = Mem!Idle
    BY DEF MemP!Idle, Mem!Idle, MemP!InAccess, Mem!InAccess
  <2>2. acc[p].at \in {"page", "swap", "load", "put", "io"}
    BY <2>1 DEF MemP!FrameTypeOK, MemP!Accesses
  <2>3. acc[p].at = "io" => Mem!Present(Mem!Entry(p))
    BY DEF MemP!Waiting, MemP!Present, Mem!Present, MemP!Entry, Mem!Entry, MemP!Pgn, Mem!Pgn
  <2> QED  BY <2>2, <2>3 DEF AccessCan
<1> QED  BY <1>1, <1>2, MachineMemory, PTL

\* The process that holds mmvm_lock can go on: nobody waits for a process that waits.
LEMMA HolderGoesOn ==
  ASSUME AccessInv, PlaceInv, lock # NoProc
  PROVE  \E c \in CPU : CPUCan(c)
<1>1. PICK c \in CPU : Accessing(c, lock)
  BY DEF AccessInv
<1>2. InsCan(c)
  BY <1>1 DEF AccessInv, PlaceInv, Accessing, InsCan
<1> QED  BY <1>1, <1>2 DEF AccessInv, Accessing, CPUCan

\* A CPU that has not ended its slot can go on if the lock is free, if its process has a
\* line.
LEMMA WorkerGoesOn ==
  ASSUME SchedInv, CPUInv, AccessInv, HomeInv, WaitInv, PlaceInv,
         ~crashed, lock = NoProc, NEW c \in CPU, B!Working(c),
         HasProc(c) => FetchCan(c)
  PROVE  CPUCan(c)
<1> DEFINE p == proc[c]
<1> USE DEF SchedInv, SchedTypeOK, CPUInv, ThreadTypeOK
<1>1. HasProc(c) => p \in Proc /\ p \notin freed
  BY DEF HasProc, Exclusive, Held
<1>2. CASE cpc[c] = "top"
  <2> SUFFICES ASSUME HasProc(c) PROVE acc[p] = Mem!Idle
    BY <1>1, <1>2 DEF CPUCan, At
  <2> SUFFICES ASSUME acc[p] # Mem!Idle PROVE FALSE
    OBVIOUS
  <2>1. PICK d \in CPU : Accessing(d, p)
    BY <1>1 DEF AccessInv
  <2>2. d = c
    BY <2>1 DEF Accessing, Exclusive, HasProc
  <2> QED  BY <1>2, <2>1, <2>2 DEF AccessInv, Accessing, Executing, At
<1>3. CASE cpc[c] = "get"
  BY <1>3 DEF WaitInv, CPUCan, At, HasProc
<1>4. CASE cpc[c] = "recheck"
  <2> SUFFICES ASSUME HasProc(c), ~Finished(c), ins[c] # NoIns
               PROVE  InsCan(c)
    BY <1>4 DEF CPUCan, At, Executing
  <2>1. ins[c] \in Code /\ p \in Proc
    BY <1>1 DEF HomeInv
  <2>2. acc[p] = Mem!Idle => Mem!Ready(p)
    BY RoomForIns
  <2>3. acc[p] # Mem!Idle => ins[c][1] \in {"read", "write"}
    <3> SUFFICES ASSUME acc[p] # Mem!Idle PROVE ins[c][1] \in {"read", "write"}
      OBVIOUS
    <3>1. PICK d \in CPU : Accessing(d, p)
      BY <2>1 DEF AccessInv
    <3>2. d = c
      BY <3>1 DEF Accessing, Exclusive, HasProc
    <3> QED  BY <3>1, <3>2 DEF Accessing
  <2>4. grown[p] < MAX_GROWTH
    <3>1. pc[p] < Size[p] /\ Size[p] <= MAX_GROWTH /\ grown[p] <= pc[p]
      BY <2>1, GrowthAssumption, SizeAssumption DEF Finished, WaitInv
    <3> QED  BY <2>1, <3>1, OperandAssumption, SizeAssumption DEF WaitInv
  <2>5. CASE ins[c] = <<"calc">>
    BY <2>5 DEF InsCan
  <2>6. CASE ins[c][1] = "alloc"
    BY <2>2, <2>3, <2>4, <2>6 DEF InsCan, AllocCan
  <2>7. CASE ins[c][1] = "free"
    BY <2>2, <2>3, <2>7 DEF InsCan, FreeCan
  <2>8. CASE ins[c][1] \in {"read", "write"}
    BY <2>1, <2>2, <2>8 DEF PlaceInv, InsCan, BeginCan
  <2>9. CASE ins[c][1] = "map"
    BY <2>2, <2>3, <2>9 DEF InsCan, MapCan, WaitInv
  <2>10. ins[c] = <<"calc">> \/ ins[c][1] \in {"alloc", "free", "read", "write", "map"}
    <3>1. \/ ins[c] = <<"calc">>
          \/ \E rg \in RgId, size \in Sizes : ins[c] = <<"alloc", rg, size>>
          \/ \E rg \in RgId : ins[c] = <<"free", rg>>
          \/ \E op \in Ops, rg \in RgId, off \in Offsets : ins[c] = <<op, rg, off>>
          \/ \E range \in Ranges : ins[c] = <<"map", range>>
      BY <2>1 DEF Code
    <3>2. ASSUME NEW op \in Ops, NEW rg, NEW off, ins[c] = <<op, rg, off>>
          PROVE  ins[c][1] \in {"read", "write"}
      BY <3>2, OpsAssumption
    <3>3. \A rg, size : ins[c] = <<"alloc", rg, size>> => ins[c][1] = "alloc"
      OBVIOUS
    <3>4. \A x : /\ ins[c] = <<"free", x>> => ins[c][1] = "free"
                 /\ ins[c] = <<"map", x>> => ins[c][1] = "map"
      OBVIOUS
    <3> QED  BY <3>1, <3>2, <3>3, <3>4
  <2> QED  BY <2>5, <2>6, <2>7, <2>8, <2>9, <2>10
<1> QED  BY <1>2, <1>3, <1>4

\* As long as the program has neither ended nor crashed, somebody can go on: a CPU, the
\* loader, or, if all wait for the end of the slot, the timer, which then ends it.  CPUs
\* that wait for mmvm_lock in the middle of a slot, and those that wait for them at its
\* end, never wait for each other in a circle.  Every program has a line to go on with.
THEOREM MachineNeverStuck ==
  ASSUME \A p \in Proc : \E line \in Code : line[1] \in Opcodes[p] /\ line[1] # "map"
  PROVE  MachineSpec => [](\/ crashed \/ halted
                           \/ \E c \in CPU : CPUCan(c)
                           \/ LoaderCan
                           \/ B!SlotOver)
<1> DEFINE Inv == /\ LoaderInv /\ SchedInv /\ CPUInv /\ AccessInv /\ HomeInv /\ WaitInv
                  /\ PlaceInv
           Can == \/ crashed \/ halted
                  \/ \E c \in CPU : CPUCan(c)
                  \/ LoaderCan
                  \/ B!SlotOver
<1>1. Inv => Can
  <2> SUFFICES ASSUME Inv, ~crashed, ~B!SlotOver
               PROVE  (\E c \in CPU : CPUCan(c)) \/ LoaderCan
    OBVIOUS
  <2>1. CASE lock # NoProc
    BY <2>1, HolderGoesOn
  <2>2. ASSUME lock = NoProc, NEW c \in CPU, B!Working(c) PROVE CPUCan(c)
    <3>1. HasProc(c) => FetchCan(c)
      BY DEF HasProc, SchedInv, SchedTypeOK, FetchCan
    <3> QED  BY <2>2, <3>1, WorkerGoesOn
  <2>3. CASE B!Working(Loader)
    BY <2>3 DEF LoaderCan, LoaderInv
  <2>4. B!Working(Loader) \/ \E c \in CPU : B!Working(c)
    BY DEF B!SlotOver, Device
  <2> QED  BY <2>1, <2>2, <2>3, <2>4
<1> QED  BY <1>1, MachineInvariance, AccessInvariance, HomeInvariance, WaitInvariance,
            PlaceInvariance, PTL
=============================================================================
