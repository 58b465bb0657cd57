--------------------------------- MODULE OS ---------------------------------
(***************************************************************************)
(* os.c: the CPU threads (cpu_routine), the loader (ld_routine) and main,  *)
(* over the scheduler (Sched) and the slots of the timer (SlotBarrier).    *)
(*                                                                         *)
(* A thread takes steps only in a slot it has not finished.  next_slot is  *)
(* joined to the step before it: only the timer looks at who has arrived,  *)
(* and it waits for all.  So is detach_event.  Calls into the scheduler,   *)
(* the test of `done' and what lies between are steps of their own.        *)
(***************************************************************************)
EXTENDS Sched

CONSTANTS
    num_processes,     \* lines of the configuration file
    start_time,        \* start_time[p], the slot p is due in
    Size,              \* Size[p], instructions of p's program
    time_slot,         \* the quantum, in instructions
    Loader,            \* with the CPUs, the devices of the timer
    Horizon            \* bound: the clock stops counting here

Device == CPU \cup {Loader}

ASSUME NumProcessesAssumption == num_processes \in Nat
ASSUME ProcAssumption == Proc = 1 .. num_processes
ASSUME StartTimeAssumption == start_time \in [Proc -> Nat]
ASSUME SizeAssumption == Size \in [Proc -> Nat]
ASSUME TimeSlotAssumption == time_slot \in Nat \ {0}
ASSUME LoaderAssumption == Loader \notin CPU
ASSUME HorizonAssumption ==
    Horizon \in Nat /\ \A p \in Proc : start_time[p] + num_processes <= Horizon

VARIABLES
    time, arrived, gone, halted,   \* see SlotBarrier
    cpc,               \* where CPU c is in its loop
    time_left,         \* time_left[c], what is left of its process's quantum
    pc,                \* pc[p], the next instruction of p
    i,                 \* the loader's next process
    done,              \* the loader has added all processes
    burst,             \* instructions c has run since it got its process (history)
    ran                \* processes run in this slot (history)

B == INSTANCE SlotBarrier

barrierVars == <<time, arrived, gone, halted>>
cpuVars     == <<cpc, time_left, pc, burst, ran>>
loaderVars  == <<i, done>>
vars        == <<schedVars, barrierVars, cpuVars, loaderVars>>

TypeOK ==
    /\ SchedTypeOK
    /\ B!TypeOK
    /\ cpc \in [CPU -> {"top", "get", "recheck"}]
    /\ time_left \in [CPU -> 0 .. time_slot]
    /\ pc \in [Proc -> Nat] /\ \A p \in Proc : pc[p] <= Size[p]
    /\ i \in 1 .. num_processes + 1
    /\ done \in BOOLEAN
    /\ burst \in [CPU -> 0 .. time_slot]
    /\ ran \in SUBSET Proc

Init ==
    /\ SchedInit
    /\ B!Init
    /\ cpc = [c \in CPU |-> "top"]
    /\ time_left = [c \in CPU |-> 0]
    /\ pc = [p \in Proc |-> 0]
    /\ i = 1
    /\ done = FALSE
    /\ burst = [c \in CPU |-> 0]
    /\ ran = {}

-----------------------------------------------------------------------------
(* cpu_routine *)

At(c, where) == cpc[c] = where /\ B!Working(c)
Goto(c, where) == cpc' = [cpc EXCEPT ![c] = where]

HasProc(c)  == proc[c] # NoProc
Finished(c) == pc[proc[c]] = Size[proc[c]]

\* No process: get one, or sleep until the next slot and start over.  This
\* branch goes back to the top of the loop without looking at `done'.
FirstGet(c) ==
    /\ At(c, "top")
    /\ ~HasProc(c)
    /\ \/ GetSome(c) /\ Goto(c, "recheck") /\ UNCHANGED barrierVars
       \/ GetNone(c) /\ B!Arrive(c) /\ UNCHANGED cpc
    /\ burst' = [burst EXCEPT ![c] = 0]
    /\ UNCHANGED <<time_left, pc, ran, loaderVars>>

\* (mutant: the next process inherits what is left of the quantum)
RetireKeepTime(c) ==
    /\ At(c, "top")
    /\ HasProc(c) /\ Finished(c)
    /\ FreeProc(c)
    /\ Goto(c, "get")
    /\ UNCHANGED <<barrierVars, time_left, pc, burst, ran, loaderVars>>

\* The process has finished: free it, then get another.
Retire(c) ==
    /\ At(c, "top")
    /\ HasProc(c) /\ Finished(c)
    /\ FreeProc(c)
    /\ time_left' = [time_left EXCEPT ![c] = 0]
    /\ Goto(c, "get")
    /\ UNCHANGED <<barrierVars, pc, burst, ran, loaderVars>>

\* (mutant: a CPU forgets the process whose quantum is over)
PreemptForget(c) ==
    /\ At(c, "top")
    /\ HasProc(c) /\ ~Finished(c)
    /\ time_left[c] = 0
    /\ proc' = [proc EXCEPT ![c] = NoProc]
    /\ Goto(c, "get")
    /\ UNCHANGED <<mlq_ready_queue, running_list, cur_prio, used_slot, loaded, freed,
                   barrierVars, time_left, pc, burst, ran, loaderVars>>

\* The quantum is over: put the process back, then get another.
Preempt(c) ==
    /\ At(c, "top")
    /\ HasProc(c) /\ ~Finished(c)
    /\ time_left[c] = 0
    /\ PutProc(c)
    /\ Goto(c, "get")
    /\ UNCHANGED <<barrierVars, time_left, pc, burst, ran, loaderVars>>

\* Neither: go on with the process.
Continue(c) ==
    /\ At(c, "top")
    /\ HasProc(c) /\ ~Finished(c)
    /\ time_left[c] # 0
    /\ Goto(c, "recheck")
    /\ UNCHANGED <<schedVars, barrierVars, time_left, pc, burst, ran, loaderVars>>

\* get_proc after free or put_proc
NextGet(c) ==
    /\ At(c, "get")
    /\ GetProc(c)
    /\ Goto(c, "recheck")
    /\ burst' = [burst EXCEPT ![c] = 0]
    /\ UNCHANGED <<barrierVars, time_left, pc, ran, loaderVars>>

\* (mutant: a CPU without a process stops, whether more are to come or not)
StopEarly(c) ==
    /\ At(c, "recheck")
    /\ ~HasProc(c)
    /\ B!Leave(c)
    /\ UNCHANGED <<schedVars, cpuVars, loaderVars>>

\* No process, and the loader will add none: detach_event.
StopCPU(c) ==
    /\ At(c, "recheck")
    /\ ~HasProc(c) /\ done
    /\ B!Leave(c)
    /\ UNCHANGED <<schedVars, cpuVars, loaderVars>>

\* No process, but there may be new ones: skip the slot.
Skip(c) ==
    /\ At(c, "recheck")
    /\ ~HasProc(c) /\ ~done
    /\ B!Arrive(c)
    /\ Goto(c, "top")
    /\ UNCHANGED <<schedVars, time_left, pc, burst, ran, loaderVars>>

\* (mutant: time_left is not set for a process just dispatched)
QuantumAsIs(c) == time_left[c]

\* A process just dispatched gets a full quantum.
Quantum(c) == IF time_left[c] = 0 THEN time_slot ELSE time_left[c]

\* (mutant: the slot is not given up after an instruction)
RunOn(c) ==
    /\ At(c, "recheck")
    /\ HasProc(c)
    /\ pc' = IF Finished(c) THEN pc ELSE [pc EXCEPT ![proc[c]] = @ + 1]
    /\ time_left' = [time_left EXCEPT ![c] = Quantum(c) - 1]
    /\ burst' = [burst EXCEPT ![c] = @ + 1]
    /\ ran' = ran \cup {proc[c]}
    /\ Goto(c, "top")
    /\ UNCHANGED <<schedVars, barrierVars, loaderVars>>

\* run(proc) executes one instruction, if the program has one left; then
\* time_left-- and next_slot.
Run(c) ==
    /\ At(c, "recheck")
    /\ HasProc(c)
    /\ pc' = IF Finished(c) THEN pc ELSE [pc EXCEPT ![proc[c]] = @ + 1]
    /\ time_left' = [time_left EXCEPT ![c] = Quantum(c) - 1]
    /\ burst' = [burst EXCEPT ![c] = @ + 1]
    /\ ran' = ran \cup {proc[c]}
    /\ B!Arrive(c)
    /\ Goto(c, "top")
    /\ UNCHANGED <<schedVars, loaderVars>>

CPUStep(c) ==
    \/ FirstGet(c) \/ Retire(c) \/ Preempt(c) \/ Continue(c) \/ NextGet(c)
    \/ StopCPU(c) \/ Skip(c) \/ Run(c)

-----------------------------------------------------------------------------
(* ld_routine *)

\* while (current_time() < start_time[i]) next_slot
AwaitStart ==
    /\ i <= num_processes
    /\ time < start_time[i]
    /\ B!Arrive(Loader)
    /\ UNCHANGED <<schedVars, cpuVars, loaderVars>>

\* (mutant: no next_slot after add_proc)
LoadAtOnce ==
    /\ B!Working(Loader)
    /\ i <= num_processes
    /\ time >= start_time[i]
    /\ AddProc(i)
    /\ i' = i + 1
    /\ UNCHANGED <<barrierVars, cpuVars, done>>

\* add_proc, i++, next_slot
Load ==
    /\ i <= num_processes
    /\ time >= start_time[i]
    /\ AddProc(i)
    /\ i' = i + 1
    /\ B!Arrive(Loader)
    /\ UNCHANGED <<cpuVars, done>>

\* done = 1, detach_event
EndLoading ==
    /\ i > num_processes
    /\ done' = TRUE
    /\ B!Leave(Loader)
    /\ UNCHANGED <<schedVars, cpuVars, i>>

LoaderStep == AwaitStart \/ Load \/ EndLoading

-----------------------------------------------------------------------------
(* The timer, as SlotBarrier's Advance and Halt, with a clock that saturates *)

EndSlot ==
    /\ ~halted
    /\ B!SlotOver
    /\ time' = IF time < Horizon THEN time + 1 ELSE time
    /\ arrived' = {}
    /\ ran' = {}
    /\ UNCHANGED <<schedVars, gone, halted, cpc, time_left, pc, burst, loaderVars>>

HaltTimer ==
    /\ ~halted
    /\ B!Halt
    /\ UNCHANGED <<schedVars, cpuVars, loaderVars>>

\* main has joined every thread and returns.
Return == halted /\ UNCHANGED vars

Next ==
    \/ \E c \in CPU : CPUStep(c)
    \/ LoaderStep
    \/ EndSlot \/ HaltTimer
    \/ Return

Spec == Init /\ [][Next]_vars

\* Threads do not stop by themselves, and the timer ends a slot that is over
\* (Timer's SlotReturns and TimerEnds).
FairSpec ==
    /\ Spec
    /\ \A c \in CPU : WF_vars(CPUStep(c))
    /\ WF_vars(LoaderStep)
    /\ WF_vars(EndSlot \/ HaltTimer)

-----------------------------------------------------------------------------
(* Properties *)

\* A CPU that waits for the next slot never gave its process away: no process
\* executes two instructions in one slot, on one CPU or on two.
OncePerSlot ==
    [][\A p \in Proc : pc'[p] # pc[p] => p \notin ran]_vars

\* A process that is put back has had its full quantum, whatever process the CPU
\* ran before it and however short that one's last quantum was.
FullQuantum ==
    [][\A c \in CPU : Preempt(c) => burst[c] = time_slot]_vars

\* The slot a process is due in: its start time, or the slot after the one in
\* which the process before it was added.
DueSlot[p \in Proc] ==
    IF p = 1 THEN start_time[1]
    ELSE IF DueSlot[p - 1] + 1 > start_time[p] THEN DueSlot[p - 1] + 1
         ELSE start_time[p]

\* The loader adds every process in the slot it is due in.
LoadedOnTime ==
    [][\A p \in loaded' \ loaded : time = DueSlot[p]]_vars

\* A CPU stops only when no process can be added any more.
StopsAfterLast == gone \cap CPU # {} => loaded = Proc

\* Every process that was added finishes, unless all CPUs have stopped first.
Served ==
    \A p \in Proc : p \in loaded ~> p \in freed \/ CPU \subseteq gone

\* os.c: "No process to run, exit".  When all CPUs have stopped there is no
\* process left to run.
NoneLeftBehind == CPU \subseteq gone => freed = Proc

\* os.c: "Wait for CPU and loader finishing".  They do finish.
Termination == <>(gone = Device)
=============================================================================
