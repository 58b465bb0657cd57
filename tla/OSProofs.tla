------------------------------ MODULE OSProofs ------------------------------
(***************************************************************************)
(* Proofs about OS, for every number of CPUs, processes and levels, every  *)
(* program length and every quantum: its threads use the scheduler as      *)
(* Sched allows, so they inherit Sched's theorems; a CPU stops only after  *)
(* the last process was added; quanta are full; no process executes twice  *)
(* in a slot; and processes are added in the slot they are due in.         *)
(***************************************************************************)
EXTENDS OS, SchedProofs

USE NumProcessesAssumption, TimeSlotAssumption

\* The loader has added the processes before i, and says so when it has added
\* all; no CPU detaches before that.
LoaderInv ==
    /\ i \in 1 .. num_processes + 1
    /\ loaded = 1 .. i - 1
    /\ done \in BOOLEAN
    /\ done => i = num_processes + 1
    /\ gone \cap CPU # {} => done

\* What a CPU's time_left means, depending on where the CPU is.
QuantumOf(c) ==
    /\ proc[c] = NoProc \/ cpc[c] = "get" => time_left[c] = 0
    /\ proc[c] # NoProc /\ cpc[c] = "top" => burst[c] + time_left[c] = time_slot
    /\ proc[c] # NoProc /\ cpc[c] = "recheck" =>
         IF time_left[c] = 0 THEN burst[c] = 0
         ELSE burst[c] + time_left[c] = time_slot

QuantumOK == \A c \in CPU : QuantumOf(c)

\* A process that has run in this slot is still with the CPU it ran on, and this
\* CPU waits for the next slot.
RanOK == \A p \in ran : \E c \in CPU : c \in arrived /\ proc[c] = p

ThreadTypeOK ==
    /\ B!TypeOK
    /\ cpc \in [CPU -> {"top", "get", "recheck"}]
    /\ time_left \in [CPU -> 0 .. time_slot]
    /\ pc \in [Proc -> Nat] /\ \A p \in Proc : pc[p] <= Size[p]
    /\ burst \in [CPU -> 0 .. time_slot]
    /\ ran \in SUBSET Proc

CPUInv == ThreadTypeOK /\ QuantumOK /\ RanOK

-----------------------------------------------------------------------------
(* The loader *)

\* The loader's invariant holds in every reachable state.
THEOREM LoaderInvariance == Spec => []LoaderInv
<1>1. Init => LoaderInv
  <2> SUFFICES ASSUME Init PROVE LoaderInv  OBVIOUS
  <2>1. i = 1 /\ loaded = {} /\ done = FALSE /\ gone = {}
    BY DEF Init, SchedInit, B!Init
  <2>2. 1 .. i - 1 = {} /\ i \in 1 .. num_processes + 1
    BY <2>1
  <2> QED  BY <2>1, <2>2 DEF LoaderInv
<1>2. LoaderInv /\ [Next]_vars => LoaderInv'
  <2> SUFFICES ASSUME LoaderInv, [Next]_vars PROVE LoaderInv'
    OBVIOUS
  <2> USE DEF LoaderInv
  <2>1. ASSUME NEW c \in CPU, FirstGet(c) \/ Retire(c) \/ Preempt(c) \/ NextGet(c)
        PROVE  LoaderInv'
    BY <2>1 DEF FirstGet, Retire, Preempt, NextGet, GetProc, GetSome, GetNone,
                PutProc, FreeProc, B!Arrive, barrierVars, loaderVars
  <2>2. ASSUME NEW c \in CPU, Continue(c) \/ Skip(c) \/ Run(c)
        PROVE  LoaderInv'
    BY <2>2 DEF Continue, Skip, Run, B!Arrive, barrierVars, loaderVars, schedVars
  <2>3. ASSUME NEW c \in CPU, StopCPU(c)
        PROVE  LoaderInv'
    BY <2>3 DEF StopCPU, B!Leave, loaderVars, schedVars
  <2>4. CASE AwaitStart
    BY <2>4 DEF AwaitStart, B!Arrive, loaderVars, schedVars
  <2>5. CASE Load
    <3>1. /\ i \in Nat /\ i <= num_processes /\ i' = i + 1
          /\ loaded' = loaded \cup {i}
          /\ UNCHANGED <<done, gone>>
      BY <2>5 DEF Load, AddProc, B!Arrive
    <3>2. ~done
      BY <3>1
    <3>3. loaded' = 1 .. i' - 1
      BY <3>1
    <3> QED  BY <3>1, <3>2, <3>3
  <2>6. CASE EndLoading
    BY <2>6 DEF EndLoading, B!Leave, schedVars
  <2>7. CASE EndSlot
    BY <2>7 DEF EndSlot, loaderVars, schedVars
  <2>8. CASE HaltTimer
    BY <2>8 DEF HaltTimer, B!Halt, loaderVars, schedVars
  <2>9. CASE UNCHANGED vars
    BY <2>9 DEF vars, schedVars, barrierVars, loaderVars
  <2> QED  BY <2>1, <2>2, <2>3, <2>4, <2>5, <2>6, <2>7, <2>8, <2>9
           DEF Next, CPUStep, LoaderStep, Return
<1> QED  BY <1>1, <1>2, PTL DEF Spec

\* No CPU stops while processes are still to come.
THEOREM StopsAfterLastHolds == Spec => []StopsAfterLast
<1>1. LoaderInv => StopsAfterLast
  BY ProcAssumption DEF LoaderInv, StopsAfterLast
<1> QED  BY LoaderInvariance, <1>1, PTL

-----------------------------------------------------------------------------
(* The use of the scheduler *)

\* Each step of a thread is one call of the scheduler, or none.
LEMMA SchedStep ==
  ASSUME LoaderInv, [Next]_vars
  PROVE  [SchedNext]_schedVars
<1>1. ASSUME NEW c \in CPU, CPUStep(c)
      PROVE  [SchedNext]_schedVars
  <2>1. CASE FirstGet(c) \/ Retire(c) \/ Preempt(c) \/ NextGet(c)
    BY <2>1 DEF FirstGet, Retire, Preempt, NextGet, GetProc, SchedNext
  <2>2. CASE Continue(c) \/ StopCPU(c) \/ Skip(c) \/ Run(c)
    BY <2>2 DEF Continue, StopCPU, Skip, Run
  <2> QED  BY <1>1, <2>1, <2>2 DEF CPUStep
<1>2. CASE LoaderStep
  <2>1. ASSUME Load PROVE AddProc(i) /\ i \in Proc
    BY <2>1, ProcAssumption DEF Load, LoaderInv
  <2>2. Load => SchedNext
    BY <2>1 DEF SchedNext
  <2> QED  BY <1>2, <2>2 DEF LoaderStep, AwaitStart, EndLoading
<1>3. CASE EndSlot \/ HaltTimer \/ Return
  BY <1>3 DEF EndSlot, HaltTimer, Return, vars
<1>4. CASE UNCHANGED vars
  BY <1>4 DEF vars
<1> QED  BY <1>1, <1>2, <1>3, <1>4 DEF Next

\* The actions of OS are made of those of Sched, so what holds of Sched holds here.
LEMMA SchedulerUse == Spec => SchedSpec
<1>1. Init => SchedInit
  BY DEF Init
<1>2. LoaderInv /\ [Next]_vars => [SchedNext]_schedVars
  BY SchedStep
<1> QED  BY <1>1, <1>2, LoaderInvariance, PTL DEF Spec, SchedSpec

\* Sched's invariant holds of the whole system.
THEOREM SchedulerInvariance == Spec => []SchedInv
BY SchedulerUse, SchedInvariance, PTL

\* No process is ever ready and running, or running on two CPUs.
THEOREM SystemExclusion == Spec => []Exclusive
<1>1. SchedInv => Exclusive
  BY DEF SchedInv
<1> QED  BY SchedulerInvariance, <1>1, PTL

-----------------------------------------------------------------------------
(* The CPUs *)

\* The initial states satisfy the invariant of the CPUs.
LEMMA CPUInitInv == Init => CPUInv
<1> SUFFICES ASSUME Init PROVE CPUInv  OBVIOUS
<1>1. ThreadTypeOK
  <2>1. \A p \in Proc : 0 <= Size[p]
    BY SizeAssumption
  <2>2. /\ pc = [p \in Proc |-> 0]
        /\ cpc = [c \in CPU |-> "top"]
        /\ time_left = [c \in CPU |-> 0]
        /\ burst = [c \in CPU |-> 0]
        /\ ran = {}
    BY DEF Init
  <2>3. pc \in [Proc -> Nat] /\ \A p \in Proc : pc[p] <= Size[p]
    BY <2>1, <2>2
  <2>4. B!TypeOK
    BY DEF Init, B!Init, B!TypeOK
  <2>5. 0 \in 0 .. time_slot
    BY TimeSlotAssumption
  <2> QED  BY <2>2, <2>3, <2>4, <2>5 DEF ThreadTypeOK
<1>2. QuantumOK
  BY DEF Init, SchedInit, QuantumOK, QuantumOf
<1>3. RanOK
  BY DEF Init, RanOK
<1> QED  BY <1>1, <1>2, <1>3 DEF CPUInv

\* A call of get_proc preserves it: the new process has not run, and time_left
\* is 0.
LEMMA GetStep ==
  ASSUME SchedTypeOK, CPUInv, NEW c \in CPU, FirstGet(c) \/ NextGet(c)
  PROVE  CPUInv'
<1> USE DEF CPUInv
<1>1. /\ B!Working(c)
      /\ time_left[c] = 0
      /\ burst' = [burst EXCEPT ![c] = 0]
      /\ cpc' \in [CPU -> {"top", "get", "recheck"}]
      /\ \A d \in CPU \ {c} : cpc'[d] = cpc[d]
      /\ cpc'[c] = "recheck" \/ (cpc'[c] = "top" /\ proc'[c] = NoProc)
      /\ UNCHANGED <<time_left, pc, ran>>
  BY DEF FirstGet, NextGet, At, Goto, HasProc, QuantumOK, QuantumOf, ThreadTypeOK,
         GetNone
<1>2. \A d \in CPU \ {c} : proc'[d] = proc[d]
  BY DEF FirstGet, NextGet, GetProc, GetSome, GetNone, SchedTypeOK
<1>3. \/ UNCHANGED barrierVars
      \/ B!Arrive(c)
  BY DEF FirstGet, NextGet
<1>4. ThreadTypeOK'
  <2>1. B!TypeOK'
    BY <1>3 DEF ThreadTypeOK, B!TypeOK, B!Arrive, barrierVars, Device
  <2> QED  BY <1>1, <2>1 DEF ThreadTypeOK
<1>5. QuantumOK'
  <2> SUFFICES ASSUME NEW d \in CPU PROVE QuantumOf(d)'
    BY DEF QuantumOK
  <2>1. CASE d = c
    BY <1>1, <2>1 DEF QuantumOf, ThreadTypeOK
  <2>2. CASE d # c
    BY <1>1, <1>2, <2>2 DEF QuantumOK, QuantumOf, ThreadTypeOK
  <2> QED  BY <2>1, <2>2
<1>6. RanOK'
  BY <1>1, <1>2, <1>3 DEF RanOK, B!Working, B!Arrive, barrierVars
<1> QED  BY <1>4, <1>5, <1>6

\* A CPU that gives its process away preserves it: it has not run this process in
\* the current slot.
LEMMA GiveStep ==
  ASSUME SchedTypeOK, CPUInv, NEW c \in CPU, Retire(c) \/ Preempt(c)
  PROVE  CPUInv'
<1> USE DEF CPUInv
<1>1. /\ B!Working(c)
      /\ time_left'[c] = 0
      /\ time_left' \in [CPU -> 0 .. time_slot]
      /\ \A d \in CPU \ {c} : time_left'[d] = time_left[d]
      /\ cpc' = [cpc EXCEPT ![c] = "get"]
      /\ proc' = [proc EXCEPT ![c] = NoProc]
      /\ UNCHANGED <<barrierVars, pc, burst, ran>>
  <2>1. 0 \in 0 .. time_slot
    BY TimeSlotAssumption
  <2>2. CASE Retire(c)
    BY <2>1, <2>2 DEF Retire, At, Goto, ThreadTypeOK, FreeProc
  <2>3. CASE Preempt(c)
    BY <2>3 DEF Preempt, At, Goto, ThreadTypeOK, PutProc
  <2> QED  BY <2>2, <2>3
<1>2. ThreadTypeOK'
  BY <1>1 DEF ThreadTypeOK, B!TypeOK, barrierVars
<1>3. QuantumOK'
  <2> SUFFICES ASSUME NEW d \in CPU PROVE QuantumOf(d)'
    BY DEF QuantumOK
  <2>1. CASE d = c
    BY <1>1, <2>1 DEF QuantumOf, ThreadTypeOK, SchedTypeOK
  <2>2. CASE d # c
    BY <1>1, <2>2 DEF QuantumOK, QuantumOf, ThreadTypeOK, SchedTypeOK
  <2> QED  BY <2>1, <2>2
<1>4. RanOK'
  BY <1>1 DEF RanOK, B!Working, barrierVars, SchedTypeOK
<1> QED  BY <1>2, <1>3, <1>4

\* A CPU that only moves on in its loop preserves it.
LEMMA MoveStep ==
  ASSUME SchedTypeOK, CPUInv, NEW c \in CPU, Continue(c) \/ Skip(c) \/ StopCPU(c)
  PROVE  CPUInv'
<1> USE DEF CPUInv
<1>1. /\ \/ cpc[c] = "top" /\ time_left[c] # 0 /\ cpc' = [cpc EXCEPT ![c] = "recheck"]
         \/ proc[c] = NoProc /\ cpc' = [cpc EXCEPT ![c] = "top"]
         \/ UNCHANGED cpc
      /\ UNCHANGED <<proc, time_left, pc, burst, ran>>
  BY DEF Continue, Skip, StopCPU, At, Goto, HasProc, cpuVars, schedVars
<1>2. \/ UNCHANGED barrierVars
      \/ B!Arrive(c)
      \/ B!Leave(c)
  BY DEF Continue, Skip, StopCPU
<1>3. ThreadTypeOK'
  <2>1. B!TypeOK'
    BY <1>2 DEF ThreadTypeOK, B!TypeOK, B!Arrive, B!Leave, barrierVars, Device
  <2> QED  BY <1>1, <2>1 DEF ThreadTypeOK
<1>4. QuantumOK'
  <2> SUFFICES ASSUME NEW d \in CPU PROVE QuantumOf(d)'
    BY DEF QuantumOK
  <2> QED  BY <1>1 DEF QuantumOK, QuantumOf, ThreadTypeOK
<1>5. RanOK'
  BY <1>1, <1>2 DEF RanOK, B!Arrive, B!Leave, barrierVars
<1> QED  BY <1>3, <1>4, <1>5

\* Running an instruction preserves it: it takes one from the quantum, and the
\* CPU keeps the process while it waits for the next slot.
LEMMA RunStep ==
  ASSUME SchedTypeOK, CPUInv, NEW c \in CPU, Run(c)
  PROVE  CPUInv'
<1> USE DEF CPUInv
<1>1. /\ proc[c] \in Proc /\ proc[c] # NoProc
      /\ cpc[c] = "recheck" /\ cpc' = [cpc EXCEPT ![c] = "top"]
      /\ pc' = IF Finished(c) THEN pc ELSE [pc EXCEPT ![proc[c]] = @ + 1]
      /\ time_left' = [time_left EXCEPT ![c] = Quantum(c) - 1]
      /\ burst' = [burst EXCEPT ![c] = @ + 1]
      /\ ran' = ran \cup {proc[c]}
      /\ B!Arrive(c)
      /\ UNCHANGED proc
  BY DEF Run, At, Goto, HasProc, SchedTypeOK, schedVars
<1>2. /\ Quantum(c) - 1 \in 0 .. time_slot - 1
      /\ burst[c] + 1 + (Quantum(c) - 1) = time_slot
      /\ burst[c] + 1 \in 0 .. time_slot
  <2>1. /\ time_left[c] \in 0 .. time_slot /\ burst[c] \in 0 .. time_slot
        /\ IF time_left[c] = 0 THEN burst[c] = 0
           ELSE burst[c] + time_left[c] = time_slot
    BY <1>1 DEF QuantumOK, QuantumOf, ThreadTypeOK
  <2>2. time_slot \in Nat /\ time_slot # 0
    BY TimeSlotAssumption
  <2>3. CASE time_left[c] = 0
    BY <2>1, <2>2, <2>3 DEF Quantum
  <2>4. CASE time_left[c] # 0
    BY <2>1, <2>2, <2>4 DEF Quantum
  <2> QED  BY <2>3, <2>4
<1>3. ThreadTypeOK'
  <2>1. B!TypeOK'
    BY <1>1 DEF ThreadTypeOK, B!TypeOK, B!Arrive, Device
  <2>2. pc' \in [Proc -> Nat] /\ \A p \in Proc : pc'[p] <= Size[p]
    <3>1. pc \in [Proc -> Nat] /\ \A p \in Proc : pc[p] <= Size[p]
      BY DEF ThreadTypeOK
    <3>2. \A p \in Proc : Size[p] \in Nat
      BY SizeAssumption
    <3>3. CASE Finished(c)
      BY <1>1, <3>1, <3>3
    <3>4. CASE ~Finished(c)
      <4>1. pc[proc[c]] + 1 \in Nat /\ pc[proc[c]] + 1 <= Size[proc[c]]
        BY <1>1, <3>1, <3>2, <3>4 DEF Finished
      <4> QED  BY <1>1, <3>1, <3>4, <4>1
    <3> QED  BY <3>3, <3>4
  <2> DEFINE left == Quantum(c) - 1
  <2>5. left \in 0 .. time_slot
    BY <1>2, TimeSlotAssumption
  <2>6. time_left' = [time_left EXCEPT ![c] = left]
    BY <1>1
  <2> HIDE DEF left
  <2>3. /\ cpc' \in [CPU -> {"top", "get", "recheck"}]
        /\ time_left' \in [CPU -> 0 .. time_slot]
        /\ burst' \in [CPU -> 0 .. time_slot]
        /\ ran' \in SUBSET Proc
    <3>1. cpc' \in [CPU -> {"top", "get", "recheck"}] /\ ran' \in SUBSET Proc
      BY <1>1 DEF ThreadTypeOK
    <3>2. time_left' \in [CPU -> 0 .. time_slot]
      BY <2>5, <2>6 DEF ThreadTypeOK
    <3>3. burst' \in [CPU -> 0 .. time_slot]
      BY <1>1, <1>2 DEF ThreadTypeOK
    <3> QED  BY <3>1, <3>2, <3>3
  <2> QED  BY <2>1, <2>2, <2>3 DEF ThreadTypeOK
<1>4. QuantumOK'
  <2> SUFFICES ASSUME NEW d \in CPU PROVE QuantumOf(d)'
    BY DEF QuantumOK
  <2>1. CASE d = c
    BY <1>1, <1>2, <2>1 DEF QuantumOf, ThreadTypeOK
  <2>2. CASE d # c
    BY <1>1, <2>2 DEF QuantumOK, QuantumOf, ThreadTypeOK
  <2> QED  BY <2>1, <2>2
<1>5. RanOK'
  BY <1>1 DEF RanOK, B!Arrive
<1> QED  BY <1>3, <1>4, <1>5

\* The loader and the timer preserve it: when a slot ends, nobody has run in the
\* next one.
LEMMA OtherStep ==
  ASSUME CPUInv, LoaderStep \/ EndSlot \/ HaltTimer \/ UNCHANGED vars
  PROVE  CPUInv'
<1> USE DEF CPUInv
<1>1. CASE EndSlot
  <2>1. /\ UNCHANGED <<proc, cpc, time_left, pc, burst, gone, halted>>
        /\ time' = time \/ time' = time + 1
        /\ arrived' = {} /\ ran' = {}
    BY <1>1 DEF EndSlot, schedVars
  <2>2. ThreadTypeOK'
    BY <2>1 DEF ThreadTypeOK, B!TypeOK
  <2>3. QuantumOK' /\ RanOK'
    BY <2>1 DEF QuantumOK, QuantumOf, RanOK
  <2> QED  BY <2>2, <2>3
<1>2. CASE ~EndSlot
  <2>1. /\ UNCHANGED <<proc, cpuVars>>
        /\ arrived \subseteq arrived'
    BY <1>2 DEF LoaderStep, AwaitStart, Load, AddProc, EndLoading, HaltTimer,
                B!Arrive, B!Leave, B!Halt, vars, schedVars, cpuVars, barrierVars
  <2>2. B!TypeOK'
    BY <1>2 DEF LoaderStep, AwaitStart, Load, EndLoading, HaltTimer,
                B!Arrive, B!Leave, B!Halt, vars, barrierVars, B!TypeOK, ThreadTypeOK,
                Device
  <2>3. ThreadTypeOK' /\ QuantumOK' /\ RanOK'
    BY <2>1, <2>2 DEF cpuVars, ThreadTypeOK, QuantumOK, QuantumOf, RanOK
  <2> QED  BY <2>3
<1> QED  BY <1>1, <1>2

\* The invariant of the CPUs holds in every reachable state.
THEOREM CPUInvariance == Spec => []CPUInv
<1>1. SchedInv /\ CPUInv /\ [Next]_vars => CPUInv'
  <2> SUFFICES ASSUME SchedInv, CPUInv, [Next]_vars PROVE CPUInv'
    OBVIOUS
  <2>1. SchedTypeOK
    BY DEF SchedInv
  <2>2. ASSUME NEW c \in CPU, CPUStep(c) PROVE CPUInv'
    BY <2>1, <2>2, GetStep, GiveStep, MoveStep, RunStep DEF CPUStep
  <2> QED  BY <2>2, OtherStep DEF Next, Return
<1> QED  BY CPUInitInv, <1>1, SchedulerInvariance, PTL DEF Spec

\* The variables of OS always have their types.
THEOREM SystemTypes == Spec => []TypeOK
<1>1. LoaderInv /\ SchedInv /\ CPUInv => TypeOK
  BY DEF LoaderInv, SchedInv, CPUInv, ThreadTypeOK, TypeOK
<1> QED  BY LoaderInvariance, SchedulerInvariance, CPUInvariance, <1>1, PTL

\* A process is put back only after a full quantum.
THEOREM FullQuantumHolds == Spec => FullQuantum
<1>1. CPUInv => \A c \in CPU : Preempt(c) => burst[c] = time_slot
  BY DEF CPUInv, ThreadTypeOK, QuantumOK, QuantumOf, Preempt, At, HasProc
<1> QED  BY CPUInvariance, <1>1, PTL DEF FullQuantum

\* No process executes two instructions in one slot.
THEOREM OncePerSlotHolds == Spec => OncePerSlot
<1> DEFINE Once == \A p \in Proc : pc'[p] # pc[p] => p \notin ran
<1>1. ASSUME SchedInv, CPUInv, [Next]_vars, NEW p \in Proc, pc'[p] # pc[p]
      PROVE  p \notin ran
  <2>1. PICK c \in CPU : Run(c)
    BY <1>1 DEF Next, CPUStep, LoaderStep, FirstGet, Retire, Preempt, Continue,
                NextGet, StopCPU, Skip, AwaitStart, Load, EndLoading, EndSlot,
                HaltTimer, Return, vars, cpuVars
  <2>2. proc[c] = p /\ c \notin arrived /\ proc[c] # NoProc
    BY <1>1, <2>1 DEF Run, At, B!Working, HasProc, CPUInv, ThreadTypeOK
  <2> QED  BY <1>1, <2>2 DEF CPUInv, RanOK, SchedInv, Exclusive
<1>2. SchedInv /\ CPUInv /\ [Next]_vars => [Once]_vars
  BY <1>1
<1> QED  BY CPUInvariance, SchedulerInvariance, <1>2, PTL DEF Spec, OncePerSlot
-----------------------------------------------------------------------------
(* The slots in which processes are added *)

\* What f says of the process before p decides when p is due.
DueAfter(f, p) ==
    IF p = 1 THEN start_time[1]
    ELSE IF f[p - 1] + 1 > start_time[p] THEN f[p - 1] + 1 ELSE start_time[p]

\* DueSlot is well defined, and what OS says of it is true.
LEMMA DueSlotExists == \A p \in Proc : DueSlot[p] = DueAfter(DueSlot, p)
<1> USE ProcAssumption, StartTimeAssumption
<1>1. CASE Proc = {}
  BY <1>1
<1>2. CASE Proc # {}
  <2>1. num_processes - 1 \in Nat /\ 1 \in Proc
    BY <1>2
  <2> DEFINE Later(v, s) == IF v + 1 > s THEN v + 1 ELSE s
             Step == [k \in Nat |-> [v \in Nat |->
                        IF k + 1 \in Proc THEN Later(v, start_time[k + 1]) ELSE v]]
  <2>2. Step \in [Nat -> [Nat -> Nat]]
    OBVIOUS
  <2>3. \A k \in Nat : \A v \in Nat :
          k + 1 \in Proc => Step[k][v] = Later(v, start_time[k + 1])
    OBVIOUS
  <2>4. start_time[1] \in Nat
    BY <2>1
  <2> HIDE DEF Step, Later
  <2>5. PICK f \in [0 .. num_processes - 1 -> Nat] :
          /\ f[0] = start_time[1]
          /\ \A k \in 1 .. num_processes - 1 : f[k] = Step[k][f[k - 1]]
    <3> DEFINE first == start_time[1]
               last == num_processes - 1
    <3>1. first \in Nat /\ last \in Nat
      BY <2>1, <2>4
    <3> HIDE DEF first, last
    <3>2. \E f \in [0 .. last -> Nat] : Stepwise(f, first, Step, last)
      BY <2>2, <3>1, StepwiseExists
    <3> QED  BY <3>2 DEF first, last, Stepwise
  <2> DEFINE g == [p \in Proc |-> f[p - 1]]
  <2>6. ASSUME NEW p \in Proc, p # 1
        PROVE  g[p] = Later(g[p - 1], start_time[p]) /\ g[p - 1] \in Nat
    <3>1. /\ p - 1 \in 1 .. num_processes - 1 /\ p - 1 \in Proc
          /\ (p - 1) - 1 \in 0 .. num_processes - 1 /\ (p - 1) + 1 = p
      BY <2>6
    <3>2. g[p] = f[p - 1] /\ g[p - 1] = f[(p - 1) - 1] /\ f[(p - 1) - 1] \in Nat
      BY <2>5, <3>1
    <3>3. f[p - 1] = Step[p - 1][f[(p - 1) - 1]]
      BY <2>5, <3>1
    <3> HIDE DEF g
    <3> QED  BY <2>3, <3>1, <3>2, <3>3
  <2>7. g[1] = start_time[1] /\ 1 - 1 = 0
    BY <2>1, <2>5
  <2> HIDE DEF g
  <2>8. \A p \in Proc : g[p] = DueAfter(g, p)
    BY <2>6, <2>7 DEF DueAfter, Later
  <2>9. g = [p \in Proc |-> g[p]]
    BY DEF g
  <2> DEFINE Solves(h) == h = [p \in Proc |->
               IF p = 1 THEN start_time[1]
               ELSE IF h[p - 1] + 1 > start_time[p] THEN h[p - 1] + 1 ELSE start_time[p]]
  <2>10. Solves(g)
    BY <2>8, <2>9 DEF DueAfter
  <2>11. DueSlot = CHOOSE h : Solves(h)
    BY DEF DueSlot
  <2>12. Solves(DueSlot)
    <3> HIDE DEF Solves
    <3> QED  BY <2>10, <2>11
  <2> QED  BY <2>12, Zenon DEF DueAfter
<1> QED  BY <1>1, <1>2

\* A process is due after the one before it, not before its start time, and while
\* the clock still counts.
LEMMA DueSlotFacts ==
  ASSUME NEW p \in Proc
  PROVE  /\ DueSlot[p] \in Nat /\ DueSlot[p] >= start_time[p]
         /\ DueSlot[p] + num_processes < Horizon + p
         /\ p > 1 => p - 1 \in Proc /\ DueSlot[p] > DueSlot[p - 1]
         /\ DueSlot[p] = start_time[p] \/ (p > 1 /\ DueSlot[p] = DueSlot[p - 1] + 1)
<1> USE ProcAssumption, StartTimeAssumption, HorizonAssumption
<1> DEFINE Good(n) == DueSlot[n] \in Nat /\ DueSlot[n] + num_processes < Horizon + n
<1>1. \A n \in Proc : DueSlot[n] =
        IF n = 1 THEN start_time[1]
        ELSE IF DueSlot[n - 1] + 1 > start_time[n] THEN DueSlot[n - 1] + 1 ELSE start_time[n]
  BY DueSlotExists DEF DueAfter
<1>2. ASSUME NEW n \in Proc, n = 1 \/ Good(n - 1)
      PROVE  Good(n)
  <2>1. start_time[n] \in Nat /\ start_time[n] + num_processes <= Horizon /\ n \in Nat /\ n >= 1
    OBVIOUS
  <2>2. CASE n = 1
    BY <1>1, <2>1, <2>2
  <2>3. CASE n # 1
    <3> DEFINE a == DueSlot[n - 1]
    <3>1. DueSlot[n] = IF a + 1 > start_time[n] THEN a + 1 ELSE start_time[n]
      BY <1>1, <2>3
    <3>2. a \in Nat /\ a + num_processes < Horizon + (n - 1)
      BY <1>2, <2>3
    <3> HIDE DEF a
    <3> QED  BY <2>1, <3>1, <3>2
  <2> QED  BY <2>2, <2>3
<1>3. \A n \in Proc : Good(n)
  <2> HIDE DEF Good
  <2> DEFINE T == {n \in Nat : n = 0 \/ Good(n)}
  <2>1. \A k \in 0 .. num_processes - 1 : k \in T => k + 1 \in T
    <3> SUFFICES ASSUME NEW k \in 0 .. num_processes - 1, k \in T
                 PROVE  k + 1 \in T
      OBVIOUS
    <3>1. k + 1 \in Proc /\ (k + 1) - 1 = k /\ (k + 1 = 1 \/ Good(k))
      OBVIOUS
    <3> QED  BY <1>2, <3>1
  <2> HIDE DEF T
  <2>2. 0 .. num_processes \subseteq T
    <3>1. 0 \in T
      BY DEF T
    <3> QED  BY <2>1, <3>1, UpTo
  <2> QED  BY <2>2 DEF T
<1>4. Good(p) /\ (p > 1 => p - 1 \in Proc /\ Good(p - 1))
  BY <1>3
<1>5. start_time[p] \in Nat /\ p \in Nat /\ p >= 1
  OBVIOUS
<1>6. CASE p = 1
  BY <1>1, <1>4, <1>5, <1>6
<1>7. CASE p # 1
  <2> DEFINE a == DueSlot[p - 1]
  <2>1. DueSlot[p] = IF a + 1 > start_time[p] THEN a + 1 ELSE start_time[p]
    BY <1>1, <1>7
  <2>2. p > 1 /\ p - 1 \in Proc /\ a \in Nat
    BY <1>4, <1>5, <1>7
  <2>3. DueSlot[p] \in Nat /\ DueSlot[p] + num_processes < Horizon + p
    BY <1>4
  <2>4. DueSlot[p] > DueSlot[p - 1] /\ DueSlot[p] >= start_time[p]
        /\ (DueSlot[p] = start_time[p] \/ DueSlot[p] = DueSlot[p - 1] + 1)
    <3> HIDE DEF a
    <3>1. DueSlot[p] > a /\ DueSlot[p] >= start_time[p]
          /\ (DueSlot[p] = start_time[p] \/ DueSlot[p] = a + 1)
      BY <1>5, <2>1, <2>2
    <3> QED  BY <3>1 DEF a
  <2> QED  BY <2>2, <2>3, <2>4
<1> QED  BY <1>6, <1>7

\* The loader waits no longer than it has to: while it is at work the next process is
\* not overdue, while it waits for the next slot it is not due yet.
OnTime ==
    /\ time \in Nat
    /\ Loader \in gone => i > num_processes
    /\ i <= num_processes =>
         IF Loader \in arrived
         THEN time < DueSlot[i] /\ (i > 1 => time >= DueSlot[i - 1])
         ELSE time <= DueSlot[i] /\ (i > 1 => time > DueSlot[i - 1])

\* The loader adds every process in the slot it is due in, neither later because it was
\* busy nor two in one slot.
THEOREM LoadedOnTimeHolds == Spec => LoadedOnTime
<1> USE ProcAssumption, StartTimeAssumption, LoaderAssumption
<1> DEFINE Punctual == \A p \in loaded' \ loaded : time = DueSlot[p]
<1>1. ASSUME Init PROVE OnTime
  <2>1. time = 0 /\ i = 1 /\ arrived = {} /\ gone = {}
    BY <1>1 DEF Init, B!Init
  <2>2. 1 <= num_processes => DueSlot[1] \in Nat
    BY DueSlotFacts
  <2> QED  BY <2>1, <2>2 DEF OnTime
<1>2. ASSUME LoaderInv, OnTime, [Next]_vars
      PROVE  OnTime' /\ Punctual
  <2> USE DEF LoaderInv
  <2>1. i \in Nat /\ i >= 1 /\ i <= num_processes + 1
    BY <1>2
  <2>2. i <= num_processes => i \in Proc
    BY <2>1
  <2>3. ASSUME UNCHANGED <<time, i, loaded>>,
               (Loader \in arrived') = (Loader \in arrived),
               (Loader \in gone') = (Loader \in gone)
        PROVE  OnTime' /\ Punctual
    BY <1>2, <2>3 DEF OnTime
  <2>4. ASSUME NEW c \in CPU, CPUStep(c) PROVE OnTime' /\ Punctual
    <3>1. c # Loader
      OBVIOUS
    <3>2. CASE FirstGet(c) \/ Retire(c) \/ Preempt(c) \/ NextGet(c)
      BY <2>3, <3>1, <3>2 DEF FirstGet, Retire, Preempt, NextGet, GetProc, GetSome, GetNone,
                PutProc, FreeProc, B!Arrive, barrierVars, loaderVars
    <3>3. CASE Continue(c) \/ Skip(c) \/ Run(c)
      BY <2>3, <3>1, <3>3 DEF Continue, Skip, Run, B!Arrive, barrierVars, loaderVars, schedVars
    <3>4. CASE StopCPU(c)
      BY <2>3, <3>1, <3>4 DEF StopCPU, B!Leave, loaderVars, schedVars
    <3> QED  BY <2>4, <3>2, <3>3, <3>4 DEF CPUStep
  <2>5. CASE AwaitStart
    <3>1. /\ i <= num_processes /\ time < start_time[i] /\ Loader \notin arrived
          /\ arrived' = arrived \cup {Loader}
          /\ UNCHANGED <<time, gone, i, loaded>>
      BY <2>5 DEF AwaitStart, B!Arrive, B!Working, loaderVars, schedVars
    <3>2. DueSlot[i] \in Nat /\ DueSlot[i] >= start_time[i] /\ start_time[i] \in Nat
          /\ (i > 1 => DueSlot[i - 1] \in Nat)
      BY <2>2, <3>1, DueSlotFacts
    <3> QED  BY <1>2, <3>1, <3>2 DEF OnTime
  <2>6. CASE Load
    <3>1. /\ i <= num_processes /\ time >= start_time[i]
          /\ Loader \notin arrived /\ Loader \notin gone
          /\ arrived' = arrived \cup {Loader} /\ i' = i + 1
          /\ loaded' = loaded \cup {i}
          /\ UNCHANGED <<time, gone>>
      BY <2>6 DEF Load, AddProc, B!Arrive, B!Working
    <3>2. i \in Proc /\ DueSlot[i] \in Nat /\ start_time[i] \in Nat
          /\ (i > 1 => DueSlot[i - 1] \in Nat)
          /\ (DueSlot[i] = start_time[i] \/ (i > 1 /\ DueSlot[i] = DueSlot[i - 1] + 1))
      BY <2>2, <3>1, DueSlotFacts
    <3>3. time = DueSlot[i]
      BY <1>2, <3>1, <3>2 DEF OnTime
    <3>4. i + 1 <= num_processes => DueSlot[i + 1] > DueSlot[(i + 1) - 1]
      <4>1. i + 1 <= num_processes => i + 1 \in Proc /\ i + 1 > 1
        BY <2>1
      <4> QED  BY <4>1, DueSlotFacts
    <3>5. (i + 1) - 1 = i
      BY <2>1
    <3>6. OnTime'
      BY <1>2, <2>1, <3>1, <3>3, <3>4, <3>5 DEF OnTime
    <3> QED  BY <3>1, <3>3, <3>6
  <2>7. CASE EndLoading
    BY <1>2, <2>7 DEF EndLoading, B!Leave, schedVars, OnTime
  <2>8. CASE EndSlot
    <3>1. /\ Loader \in arrived \cup gone
          /\ time' = IF time < Horizon THEN time + 1 ELSE time
          /\ arrived' = {}
          /\ UNCHANGED <<gone, i, loaded>>
      BY <2>8 DEF EndSlot, B!SlotOver, B!Working, Device, loaderVars, schedVars
    <3>2. CASE i <= num_processes
      <4>1. DueSlot[i] \in Nat /\ DueSlot[i] + num_processes < Horizon + i
            /\ (i > 1 => DueSlot[i - 1] \in Nat)
        BY <2>2, <3>2, DueSlotFacts
      <4>2. time < DueSlot[i] /\ (i > 1 => time >= DueSlot[i - 1]) /\ time \in Nat
            /\ Loader \notin gone
        BY <1>2, <3>1, <3>2 DEF OnTime
      <4>3. time' = time + 1
        BY <2>1, <3>1, <3>2, <4>1, <4>2, HorizonAssumption
      <4> QED  BY <3>1, <3>2, <4>1, <4>2, <4>3 DEF OnTime
    <3>3. CASE ~(i <= num_processes)
      BY <1>2, <2>1, <3>1, <3>3 DEF OnTime
    <3> QED  BY <3>2, <3>3
  <2>9. CASE HaltTimer
    BY <2>3, <2>9 DEF HaltTimer, B!Halt, loaderVars, schedVars
  <2>10. CASE UNCHANGED vars
    BY <2>3, <2>10 DEF vars, schedVars, barrierVars, loaderVars
  <2> QED  BY <1>2, <2>4, <2>5, <2>6, <2>7, <2>8, <2>9, <2>10 DEF Next, LoaderStep, Return
<1>3. Spec => []OnTime
  <2>1. LoaderInv /\ OnTime /\ [Next]_vars => OnTime'
    BY <1>2
  <2> QED  BY <1>1, <2>1, LoaderInvariance, PTL DEF Spec
<1>4. LoaderInv /\ OnTime /\ [Next]_vars => [Punctual]_vars
  BY <1>2
<1> QED  BY <1>3, <1>4, LoaderInvariance, PTL DEF Spec, LoadedOnTime
=============================================================================
