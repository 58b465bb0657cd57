---------------------------- MODULE TimerProofs ----------------------------
(***************************************************************************)
(* Proofs about Timer, for every number of devices and every bound: the    *)
(* safety invariants of Timer, and that it implements SlotBarrier.         *)
(***************************************************************************)
EXTENDS Timer, TLAPS

\* Devices the timer thread has passed in its walk and not yet released.
Held(d) ==
    \/ tpc \in Collecting /\ d < temp
    \/ tpc = "tick"
    \/ tpc \in Releasing /\ d >= temp

\* The timer thread has ended d's slot but has not cleared its flag yet.
Pending(d) == tpc \in Releasing /\ d >= temp

CursorOK == tpc \in Collecting \cup Releasing => temp <= N

FshOK == \A d \in Device : fsh[d] <=> dpc[d] = "gone"

ActiveOK == \A d \in Device : dpc[d] \in Active => ~done[d] /\ slot[d] = time

HeldOK == \A d \in Device :
    Held(d) => dpc[d] = "gone" \/ (dpc[d] \in Waiting /\ done[d])

\* A waiting device has completed one slot less than have elapsed as soon as
\* the slot it waits for is over.
WaitingOK == \A d \in Device : dpc[d] \in Waiting =>
    IF done[d] /\ ~Pending(d) THEN slot[d] = time ELSE slot[d] + 1 = time

\* The local fsh counts finished devices among those passed, so it can reach
\* the number of devices passed only if all of these are finished.
CountOK ==
    /\ tpc \in Collecting => nfsh < temp
    /\ tpc \in Collecting /\ nfsh = temp - 1 =>
         \A d \in Device : d < temp => fsh[d]
    /\ tpc \in {"tick", "compare"} \cup Releasing /\ nfsh = N =>
         \A d \in Device : fsh[d]

StopOK == timer_stop \/ tpc = "exit" => \A d \in Device : dpc[d] = "gone"

Inv ==
    /\ TypeOK
    /\ CursorOK
    /\ FshOK
    /\ ActiveOK
    /\ HeldOK
    /\ WaitingOK
    /\ NoLostWakeup
    /\ CountOK
    /\ StopOK

-----------------------------------------------------------------------------
(* The inductive invariant *)

USE NAssumption, MaxTimeAssumption, MaxSpuriousAssumption
USE DEF Device, Collecting, Releasing, Active, Waiting

\* The initial states satisfy the inductive invariant.
LEMMA InitInv == Init => Inv
<1> SUFFICES ASSUME Init PROVE Inv  OBVIOUS
<1>1. TypeOK
  <2>1. temp \in 1 .. N + 1 /\ nfsh \in 0 .. N
    BY DEF Init
  <2>2. tpc \in TimerPC
    BY DEF Init, TimerPC
  <2>3. done \in [Device -> BOOLEAN] /\ fsh \in [Device -> BOOLEAN]
    BY DEF Init
  <2>4. dpc \in [Device -> DevicePC] /\ slot \in [Device -> Nat]
    BY DEF Init, DevicePC
  <2> QED  BY <2>1, <2>2, <2>3, <2>4 DEF TypeOK, Init
<1>2. CursorOK /\ CountOK /\ NoLostWakeup /\ StopOK
  BY DEF Init, CursorOK, CountOK, NoLostWakeup, StopOK
<1>3. FshOK /\ ActiveOK /\ WaitingOK
  BY DEF Init, FshOK, ActiveOK, WaitingOK
<1>4. HeldOK
  BY DEF Init, HeldOK, Held
<1> QED  BY <1>1, <1>2, <1>3, <1>4 DEF Inv

\* Every action preserves the types of the variables.
LEMMA Typing == TypeOK /\ CursorOK /\ CountOK /\ [Next]_vars => TypeOK'
<1> SUFFICES ASSUME TypeOK, CursorOK, CountOK, [Next]_vars PROVE TypeOK'
  OBVIOUS
<1> USE DEF TypeOK, TimerPC, DevicePC, timerVars, deviceVars, mainVars
<1>1. ASSUME NEW d \in Device, DeviceStep(d) PROVE TypeOK'
  <2>1. CASE NextSlot(d)        BY <2>1 DEF NextSlot, MoveDevice
  <2>2. CASE SetDone(d)         BY <2>2 DEF SetDone, MoveDevice, AfterEventSignal
  <2>3. CASE LockTimer(d)       BY <2>3 DEF LockTimer, MoveDevice
  <2>4. CASE WaitTimer(d)       BY <2>4 DEF WaitTimer, MoveDevice
  <2>5. CASE ReturnFromSlot(d)  BY <2>5 DEF ReturnFromSlot, MoveDevice
  <2>6. CASE Detach(d)          BY <2>6 DEF Detach, MoveDevice
  <2>7. CASE SetFsh(d)          BY <2>7 DEF SetFsh, MoveDevice, AfterEventSignal
  <2> QED  BY <1>1, <2>1, <2>2, <2>3, <2>4, <2>5, <2>6, <2>7 DEF DeviceStep
<1>2. CASE TimerStep
  <2>1. CASE StartSlot          BY <2>1 DEF StartSlot
  <2>2. CASE LockEvent          BY <2>2 DEF LockEvent
  <2>3. CASE WaitEvent          BY <2>3 DEF WaitEvent
  <2>4. CASE Collect            BY <2>4 DEF Collect, CursorOK, CountOK
  <2>5. CASE Tick               BY <2>5 DEF Tick
  <2>6. CASE LockRelease        BY <2>6 DEF LockRelease
  <2>7. CASE Release            BY <2>7 DEF Release, CursorOK
  <2>8. CASE Compare            BY <2>8 DEF Compare
  <2> QED
    BY <1>2, <2>1, <2>2, <2>3, <2>4, <2>5, <2>6, <2>7, <2>8 DEF TimerStep
<1>3. CASE StopTimer            BY <1>3 DEF StopTimer
<1>4. CASE FreeDevices          BY <1>4 DEF FreeDevices
<1>5. CASE SpuriousWakeup       BY <1>5 DEF SpuriousWakeup, MoveDevice
<1>6. CASE UNCHANGED vars       BY <1>6 DEF vars
<1> QED  BY <1>1, <1>2, <1>3, <1>4, <1>5, <1>6 DEF Next, Finished

\* A step of a device thread preserves the inductive invariant.  Only four of
\* the steps touch more than the device's own program counter.
LEMMA DeviceInv ==
  ASSUME Inv, TypeOK', NEW d \in Device, DeviceStep(d)
  PROVE  Inv'
<1> USE DEF Inv, timerVars, mainVars, MoveDevice
<1> DEFINE Moves == NextSlot(d) \/ LockTimer(d) \/ WaitTimer(d) \/ Detach(d)
<1>1. CASE Moves
  \* from Active to Active or from Waiting to Waiting; WaitTimer has seen done
  <2>1. CursorOK' /\ FshOK' /\ StopOK'
    BY <1>1 DEF NextSlot, LockTimer, WaitTimer, Detach, TypeOK, CursorOK,
                FshOK, StopOK
  <2>5. CountOK'
    <3>1. UNCHANGED <<tpc, temp, nfsh, fsh>>
      BY <1>1 DEF NextSlot, LockTimer, WaitTimer, Detach
    <3>2. CountOK
      OBVIOUS
    <3> QED  BY <3>1, <3>2 DEF CountOK
  <2>2. ActiveOK'
    BY <1>1 DEF NextSlot, LockTimer, WaitTimer, Detach, TypeOK, ActiveOK
  <2>6. NoLostWakeup'
    BY <1>1 DEF NextSlot, LockTimer, WaitTimer, Detach, TypeOK, NoLostWakeup
  <2>3. HeldOK'
    <3>1. \A e \in Device : Held(e)' <=> Held(e)
      BY <1>1 DEF NextSlot, LockTimer, WaitTimer, Detach, Held
    <3>2. CASE NextSlot(d) \/ Detach(d)
      BY <3>1, <3>2 DEF NextSlot, Detach, TypeOK, ActiveOK, HeldOK
    <3>3. CASE LockTimer(d) \/ WaitTimer(d)
      BY <3>1, <3>3 DEF LockTimer, WaitTimer, TypeOK, HeldOK
    <3> QED  BY <1>1, <3>2, <3>3
  <2>4. WaitingOK'
    <3>1. CASE NextSlot(d) \/ Detach(d)
      BY <3>1 DEF NextSlot, Detach, TypeOK, WaitingOK, Pending
    <3>2. CASE LockTimer(d) \/ WaitTimer(d)
      BY <3>2 DEF LockTimer, WaitTimer, TypeOK, WaitingOK, Pending
    <3> QED  BY <1>1, <3>1, <3>2
  <2> QED  BY <2>1, <2>2, <2>3, <2>4, <2>5, <2>6
<1>2. CASE SetDone(d)
  <2> USE <1>2 DEF SetDone, AfterEventSignal
  \* the device is active, so the timer thread does not hold it
  <2>1. ~Held(d) /\ slot[d] = time
    BY DEF HeldOK, ActiveOK, TypeOK
  <2>2. HeldOK'
    BY <2>1 DEF HeldOK, Held, TypeOK
  <2>3. WaitingOK'
    BY <2>1 DEF WaitingOK, Held, Pending, TypeOK
  <2>4. ActiveOK' /\ FshOK' /\ StopOK' /\ CursorOK' /\ CountOK'
    BY DEF ActiveOK, FshOK, StopOK, CursorOK, CountOK, TypeOK
  <2>5. NoLostWakeup'
    BY DEF NoLostWakeup, CursorOK, TypeOK
  <2> QED  BY <2>2, <2>3, <2>4, <2>5
<1>3. CASE ReturnFromSlot(d)
  <2> USE <1>3 DEF ReturnFromSlot
  \* done has been cleared: the slot d waited for is over
  <2>1. ~Held(d) /\ slot[d] + 1 = time
    BY DEF HeldOK, WaitingOK, TypeOK
  <2>2. HeldOK' /\ WaitingOK'
    BY <2>1 DEF HeldOK, WaitingOK, Held, Pending, TypeOK
  <2>3. ActiveOK'
    BY <2>1 DEF ActiveOK, TypeOK
  <2>4. FshOK' /\ StopOK' /\ CursorOK' /\ CountOK' /\ NoLostWakeup'
    BY DEF FshOK, StopOK, CursorOK, CountOK, NoLostWakeup, TypeOK
  <2> QED  BY <2>2, <2>3, <2>4
<1>4. CASE SetFsh(d)
  <2> USE <1>4 DEF SetFsh, AfterEventSignal
  <2>1. HeldOK' /\ WaitingOK' /\ ActiveOK'
    BY DEF HeldOK, WaitingOK, ActiveOK, Held, Pending, TypeOK
  \* a set of finished devices that grows keeps what the count says of it
  <2>2. CountOK' /\ FshOK' /\ StopOK' /\ CursorOK'
    BY DEF CountOK, FshOK, StopOK, CursorOK, TypeOK
  <2>3. NoLostWakeup'
    BY DEF NoLostWakeup, CursorOK, TypeOK
  <2> QED  BY <2>1, <2>2, <2>3
<1> QED  BY <1>1, <1>2, <1>3, <1>4 DEF DeviceStep

\* A step of the timer thread preserves the inductive invariant.
LEMMA TimerInv ==
  ASSUME Inv, TypeOK', TimerStep
  PROVE  Inv'
<1> USE DEF Inv, deviceVars, mainVars
<1>1. CASE StartSlot
  <2> USE <1>1 DEF StartSlot
  <2>1. HeldOK' /\ WaitingOK' /\ ActiveOK'
    BY DEF HeldOK, WaitingOK, ActiveOK, Held, Pending, TypeOK
  <2>2. CASE timer_stop
    BY <2>1, <2>2 DEF CountOK, CursorOK, StopOK, FshOK, NoLostWakeup, TypeOK
  <2>3. CASE ~timer_stop
    BY <2>1, <2>3 DEF CountOK, CursorOK, StopOK, FshOK, NoLostWakeup, TypeOK
  <2> QED  BY <2>2, <2>3
<1>2. CASE LockEvent \/ WaitEvent \/ LockRelease
  \* the walk stays at the same device, in the same phase
  <2>1. HeldOK'
    BY <1>2 DEF LockEvent, WaitEvent, LockRelease, HeldOK, Held, TypeOK
  <2>3. WaitingOK'
    BY <1>2 DEF LockEvent, WaitEvent, LockRelease, WaitingOK, Pending, TypeOK
  <2>4. ActiveOK'
    BY <1>2 DEF LockEvent, WaitEvent, LockRelease, ActiveOK, TypeOK
  <2>2. CountOK' /\ CursorOK' /\ StopOK' /\ FshOK' /\ NoLostWakeup'
    BY <1>2 DEF LockEvent, WaitEvent, LockRelease, CountOK, CursorOK, StopOK,
                FshOK, NoLostWakeup, TypeOK
  <2> QED  BY <2>1, <2>2, <2>3, <2>4
<1>3. CASE Collect
  <2> USE <1>3 DEF Collect
  \* the device the walk passes is finished, or waits with its flag set
  <2>1. dpc[temp] = "gone" \/ (dpc[temp] \in Waiting /\ done[temp])
    BY DEF CursorOK, ActiveOK, FshOK, TypeOK, DevicePC
  <2>2. HeldOK'
    BY <2>1 DEF HeldOK, Held, CursorOK, TypeOK
  <2>3. WaitingOK' /\ ActiveOK'
    BY DEF WaitingOK, ActiveOK, Pending, TypeOK
  <2>4. CountOK'
    BY DEF CountOK, CursorOK, TypeOK
  <2>5. CursorOK' /\ StopOK' /\ FshOK' /\ NoLostWakeup'
    BY DEF CursorOK, StopOK, FshOK, NoLostWakeup, TypeOK
  <2> QED  BY <2>2, <2>3, <2>4, <2>5
<1>4. CASE Tick
  <2> USE <1>4 DEF Tick
  \* every device is held, so every slot count may fall behind by one
  <2>1. \A d \in Device : dpc[d] = "gone" \/ (dpc[d] \in Waiting /\ done[d])
    BY DEF HeldOK, Held
  <2>2. HeldOK'
    BY <2>1 DEF HeldOK, Held
  <2>3. ActiveOK'
    BY <2>1 DEF ActiveOK, TypeOK
  <2>5. WaitingOK'
    BY <2>1 DEF WaitingOK, Pending, TypeOK
  <2>4. CountOK' /\ CursorOK' /\ StopOK' /\ FshOK' /\ NoLostWakeup'
    BY DEF CountOK, CursorOK, StopOK, FshOK, NoLostWakeup, TypeOK
  <2> QED  BY <2>2, <2>3, <2>4, <2>5
<1>5. CASE Release
  <2> USE <1>5 DEF Release
  \* the device released is gone, or waits for a slot that is over
  <2>1. /\ temp \in Device
        /\ dpc[temp] = "gone" \/ (dpc[temp] \in Waiting /\ done[temp])
    BY DEF CursorOK, HeldOK, Held, TypeOK
  <2>2. HeldOK'
    BY <2>1 DEF HeldOK, Held, CursorOK, TypeOK
  <2>3. WaitingOK'
    BY <2>1 DEF WaitingOK, Pending, CursorOK, TypeOK
  <2>4. ActiveOK' /\ NoLostWakeup'
    BY <2>1 DEF ActiveOK, NoLostWakeup, TypeOK
  <2>5. CountOK' /\ CursorOK' /\ StopOK' /\ FshOK'
    BY <2>1 DEF CountOK, CursorOK, StopOK, FshOK, TypeOK
  <2> QED  BY <2>2, <2>3, <2>4, <2>5
<1>6. CASE Compare
  <2> USE <1>6 DEF Compare
  <2>1. HeldOK' /\ WaitingOK' /\ ActiveOK'
    BY DEF HeldOK, WaitingOK, ActiveOK, Held, Pending, TypeOK
  <2>2. CountOK' /\ CursorOK' /\ StopOK' /\ FshOK' /\ NoLostWakeup'
    BY DEF CountOK, CursorOK, StopOK, FshOK, NoLostWakeup, TypeOK
  <2> QED  BY <2>1, <2>2
<1> QED  BY <1>1, <1>2, <1>3, <1>4, <1>5, <1>6 DEF TimerStep

\* A step of the main thread or a spurious wakeup preserves it.
LEMMA OtherInv ==
  ASSUME Inv, TypeOK', StopTimer \/ FreeDevices \/ SpuriousWakeup
  PROVE  Inv'
<1> USE DEF Inv, timerVars, deviceVars, mainVars
<1>1. CASE StopTimer \/ FreeDevices
  BY <1>1 DEF StopTimer, FreeDevices, CursorOK, FshOK, ActiveOK, HeldOK,
              WaitingOK, NoLostWakeup, CountOK, StopOK, Held, Pending
<1>2. CASE SpuriousWakeup
  <2> USE <1>2 DEF SpuriousWakeup, MoveDevice, TypeOK
  <2>1. CursorOK' /\ FshOK' /\ CountOK' /\ StopOK' /\ NoLostWakeup'
    BY DEF CursorOK, FshOK, CountOK, StopOK, NoLostWakeup
  <2>2. ActiveOK' /\ HeldOK'
    BY DEF ActiveOK, HeldOK, Held
  <2>3. WaitingOK'
    BY DEF WaitingOK, Pending
  <2> QED  BY <2>1, <2>2, <2>3
<1> QED  BY <1>1, <1>2

\* The inductive invariant holds in every reachable state.
THEOREM Invariance == Spec => []Inv
<1>1. Inv /\ [Next]_vars => Inv'
  <2> SUFFICES ASSUME Inv, [Next]_vars PROVE Inv'  OBVIOUS
  <2>1. TypeOK'
    BY Typing DEF Inv
  <2>2. ASSUME NEW d \in Device, DeviceStep(d) PROVE Inv'
    BY <2>1, <2>2, DeviceInv
  <2>3. CASE TimerStep
    BY <2>1, <2>3, TimerInv
  <2>4. CASE StopTimer \/ FreeDevices \/ SpuriousWakeup
    BY <2>1, <2>4, OtherInv
  <2>5. CASE UNCHANGED vars
    BY <2>5 DEF vars, Inv, TypeOK, CursorOK, FshOK, ActiveOK, HeldOK,
                WaitingOK, NoLostWakeup, CountOK, StopOK, Held, Pending
  <2> QED  BY <2>2, <2>3, <2>4, <2>5 DEF Next, Finished
<1> QED  BY InitInv, <1>1, PTL DEF Spec

\* The variables of Timer always have their types.
THEOREM TypeCorrect == Spec => []TypeOK
<1>1. Inv => TypeOK
  BY DEF Inv
<1> QED  BY Invariance, <1>1, PTL

\* `done' is never cleared while next_slot is about to set it: the timer thread
\* clears it only for a device that is asleep.
THEOREM Handover == Spec => []DoneHandover
<1>1. Inv => DoneHandover
  <2> SUFFICES ASSUME Inv, NEW d \in Device, tpc = "clear", temp = d
               PROVE  dpc[d] # "next"
    BY DEF DoneHandover
  <2>1. Held(d)
    BY DEF Held
  <2> QED  BY <2>1 DEF Inv, HeldOK
<1> QED  BY Invariance, <1>1, PTL

\* No sleeper misses its wakeup.
THEOREM Wakeups == Spec => []NoLostWakeup
<1>1. Inv => NoLostWakeup
  BY DEF Inv
<1> QED  BY Invariance, <1>1, PTL

\* No device is at work when _time changes, and all devices at work are in the
\* same slot.
THEOREM Slots == Spec => [](ParkedAtTick /\ LockStep)
<1>1. Inv => ParkedAtTick /\ LockStep
  BY DEF Inv, HeldOK, Held, ActiveOK, ParkedAtTick, LockStep
<1> QED  BY Invariance, <1>1, PTL

-----------------------------------------------------------------------------
(* Timer implements SlotBarrier *)

\* The abstract state is left alone by a step that changes neither the flags,
\* nor the time, nor how far the timer thread has released.
LEMMA BarrierStutter ==
  ASSUME UNCHANGED <<done, fsh, time>>,
         BarrierArrived' = BarrierArrived,
         (tpc = "exit") <=> (tpc' = "exit")
  PROVE  UNCHANGED Barrier!barrierVars
BY DEF Barrier!barrierVars

\* What a device thread does is an arrival, a departure or invisible.
LEMMA DeviceRefines ==
  ASSUME Inv, NEW d \in Device, DeviceStep(d)
  PROVE  [Barrier!Next]_(Barrier!barrierVars)
<1> USE DEF Inv, timerVars, mainVars, MoveDevice
<1>1. CASE NextSlot(d) \/ LockTimer(d) \/ WaitTimer(d) \/ Detach(d) \/ ReturnFromSlot(d)
  <2>1. UNCHANGED <<done, fsh, time, tpc, temp>>
    BY <1>1 DEF NextSlot, LockTimer, WaitTimer, Detach, ReturnFromSlot
  <2> QED  BY <2>1, BarrierStutter DEF BarrierArrived
<1>2. CASE SetDone(d)
  <2> USE <1>2 DEF SetDone
  <2>1. ~Held(d) /\ ~done[d] /\ ~fsh[d]
    BY DEF HeldOK, ActiveOK, FshOK
  <2>2. /\ tpc \in Releasing <=> tpc' \in Releasing
        /\ tpc = "exit" <=> tpc' = "exit"
        /\ UNCHANGED temp
    BY DEF AfterEventSignal
  <2>3. BarrierArrived' = BarrierArrived \cup {d}
    BY <2>1, <2>2 DEF BarrierArrived, Held, TypeOK
  <2>4. Barrier!Arrive(d)
    BY <2>1, <2>2, <2>3 DEF Barrier!Arrive, Barrier!Working, BarrierArrived
  <2> QED  BY <2>4 DEF Barrier!Next
<1>3. CASE SetFsh(d)
  <2> USE <1>3 DEF SetFsh
  <2>1. ~done[d] /\ ~fsh[d]
    BY DEF ActiveOK, FshOK
  <2>2. /\ tpc \in Releasing <=> tpc' \in Releasing
        /\ tpc = "exit" <=> tpc' = "exit"
        /\ UNCHANGED temp
    BY DEF AfterEventSignal
  <2>3. BarrierArrived' = BarrierArrived
    BY <2>2 DEF BarrierArrived
  <2>4. {e \in Device : fsh'[e]} = {e \in Device : fsh[e]} \cup {d}
    BY DEF TypeOK
  <2>5. Barrier!Leave(d)
    BY <2>1, <2>2, <2>3, <2>4 DEF Barrier!Leave, Barrier!Working, BarrierArrived
  <2> QED  BY <2>5 DEF Barrier!Next
<1> QED  BY <1>1, <1>2, <1>3 DEF DeviceStep

\* What the timer thread does is the end of a slot, its own end or invisible.
LEMMA TimerRefines ==
  ASSUME Inv, TimerStep
  PROVE  [Barrier!Next]_(Barrier!barrierVars)
<1> USE DEF Inv, deviceVars, mainVars
<1>1. ASSUME \A d \in Device : fsh[d], tpc' = "exit", tpc \in {"loop", "compare"},
             UNCHANGED <<done, fsh, time>>
      PROVE  Barrier!Halt
  <2>1. BarrierArrived' = BarrierArrived
    BY <1>1 DEF BarrierArrived
  <2> QED  BY <1>1, <2>1 DEF Barrier!Halt
<1>2. CASE StartSlot
  <2>1. CASE timer_stop
    <3>1. \A d \in Device : fsh[d]
      BY <2>1 DEF StopOK, FshOK
    <3>2. tpc' = "exit" /\ tpc = "loop" /\ UNCHANGED <<done, fsh, time>>
      BY <1>2, <2>1 DEF StartSlot
    <3> QED  BY <1>1, <3>1, <3>2 DEF Barrier!Next
  <2>2. CASE ~timer_stop
    <3>1. UNCHANGED <<done, fsh, time>> /\ tpc = "loop" /\ tpc' = "event"
      BY <1>2, <2>2 DEF StartSlot
    <3> QED  BY <3>1, BarrierStutter DEF BarrierArrived
  <2> QED  BY <2>1, <2>2
<1>3. CASE LockEvent \/ WaitEvent \/ LockRelease
  <2>1. /\ UNCHANGED <<done, fsh, time, temp>>
        /\ tpc \in Releasing <=> tpc' \in Releasing
        /\ tpc = "exit" <=> tpc' = "exit"
    BY <1>3 DEF LockEvent, WaitEvent, LockRelease
  <2> QED  BY <2>1, BarrierStutter DEF BarrierArrived
<1>4. CASE Collect
  <2>1. /\ UNCHANGED <<done, fsh, time>>
        /\ tpc \notin Releasing \cup {"exit"}
        /\ tpc' \notin Releasing \cup {"exit"}
    BY <1>4 DEF Collect
  <2> QED  BY <2>1, BarrierStutter DEF BarrierArrived
<1>5. CASE Tick
  <2> USE <1>5 DEF Tick
  <2>1. \A d \in Device : fsh[d] \/ done[d]
    BY DEF HeldOK, Held, FshOK
  <2>2. Barrier!SlotOver
    BY <2>1 DEF Barrier!SlotOver, Barrier!Working, BarrierArrived
  <2>3. BarrierArrived' = {}
    BY DEF BarrierArrived, TypeOK
  <2>4. Barrier!Advance
    BY <2>2, <2>3 DEF Barrier!Advance
  <2> QED  BY <2>4 DEF Barrier!Next
<1>6. CASE Release
  <2> USE <1>6 DEF Release
  \* the flag that is cleared no longer counted
  <2>1. BarrierArrived' = BarrierArrived
    BY DEF BarrierArrived, CursorOK, TypeOK
  <2>2. UNCHANGED Barrier!barrierVars
    BY <2>1 DEF Barrier!barrierVars
  <2> QED  BY <2>2
<1>7. CASE Compare
  <2> USE <1>7 DEF Compare
  <2>1. CASE nfsh = N
    <3>1. \A d \in Device : fsh[d]
      BY <2>1 DEF CountOK
    <3> QED  BY <1>1, <2>1, <3>1 DEF Barrier!Next
  <2>2. CASE nfsh # N
    BY <2>2, BarrierStutter DEF BarrierArrived
  <2> QED  BY <2>1, <2>2
<1> QED  BY <1>2, <1>3, <1>4, <1>5, <1>6, <1>7 DEF TimerStep

\* timer.c implements the barrier.
THEOREM Refinement == Spec => BarrierSpec
<1>1. Init => Barrier!Init
  BY DEF Init, Barrier!Init, BarrierArrived
<1>2. Inv /\ [Next]_vars => [Barrier!Next]_(Barrier!barrierVars)
  <2> SUFFICES ASSUME Inv, [Next]_vars
               PROVE  [Barrier!Next]_(Barrier!barrierVars)
    OBVIOUS
  <2>1. ASSUME NEW d \in Device, DeviceStep(d)
        PROVE  [Barrier!Next]_(Barrier!barrierVars)
    BY <2>1, DeviceRefines
  <2>2. CASE TimerStep
    BY <2>2, TimerRefines
  <2>3. CASE StopTimer \/ FreeDevices \/ SpuriousWakeup \/ UNCHANGED vars
    <3>1. /\ UNCHANGED <<done, fsh, time, temp>>
          /\ tpc \in Releasing <=> tpc' \in Releasing
          /\ tpc = "exit" <=> tpc' = "exit"
      BY <2>3 DEF StopTimer, FreeDevices, SpuriousWakeup, timerVars, vars
    <3> QED  BY <3>1, BarrierStutter DEF BarrierArrived
  <2> QED  BY <2>1, <2>2, <2>3 DEF Next, Finished
<1> QED  BY <1>1, <1>2, Invariance, PTL DEF Spec, BarrierSpec, Barrier!Spec

-----------------------------------------------------------------------------
(* Nobody waits for ever on a state nobody can leave *)

\* The guards of the device's actions: outside the timer it may take event_lock for
\* next_slot or detach_event; inside a critical section it goes on (after `test' it
\* sleeps or returns); woken up it needs timer_lock.
DeviceCan(d) ==
    \/ dpc[d] = "run" /\ EventLockFree(d)
    \/ dpc[d] \in {"next", "detach", "test"}
    \/ dpc[d] = "timer" /\ TimerLockFree(d)

\* Those of the timer thread's, which waits for a lock or sleeps (after `check' it
\* sleeps or collects), and of main's, which waits for the threads it joins.
TimerCan ==
    \/ tpc \in {"loop", "check", "tick", "clear", "compare"}
    \/ tpc = "event" /\ EventLockFree(temp)
    \/ tpc = "timer" /\ TimerLockFree(temp)

MainCan ==
    \/ main = "join" /\ \A d \in Device : dpc[d] = "gone"
    \/ main = "stop" /\ tpc = "exit"

\* Until the program has ended some thread can go on, without a spurious wakeup, in
\* whatever order threads took the locks and went to sleep: for every number of devices
\* the handshake of two locks and two condition variables does not deadlock.
THEOREM NoDeadlock ==
  Spec => [](main = "freed" \/ MainCan \/ TimerCan \/ \E d \in Device : DeviceCan(d))
<1>1. Inv => main = "freed" \/ MainCan \/ TimerCan \/ \E d \in Device : DeviceCan(d)
  <2> SUFFICES ASSUME Inv, main # "freed", ~TimerCan
               PROVE  MainCan \/ \E d \in Device : DeviceCan(d)
    OBVIOUS
  <2> USE DEF Inv, TypeOK, TimerPC
  <2>1. tpc \in {"event", "eventWait", "timer", "exit"}
    BY DEF TimerCan
  \* the lock the timer thread wants is held by a device, which can let it go
  <2>2. CASE tpc \in {"event", "timer"}
    <3>1. temp \in Device
      BY <2>2 DEF CursorOK
    <3>2. dpc[temp] \in {"next", "detach", "test"}
      BY <2>2 DEF TimerCan, EventLockFree, TimerLockFree
    <3> QED  BY <3>1, <3>2 DEF DeviceCan
  \* the device it sleeps for has work to do, or was woken up: no wakeup is lost
  <2>3. CASE tpc = "eventWait"
    <3>1. temp \in Device /\ ~done[temp] /\ ~fsh[temp]
      BY <2>3 DEF CursorOK, NoLostWakeup
    <3>2. dpc[temp] \in {"run", "next", "detach", "timer", "test"}
      BY <3>1 DEF FshOK, NoLostWakeup, DevicePC
    <3>3. DeviceCan(temp)
      BY <2>3, <3>2 DEF DeviceCan, EventLockFree, TimerLockFree
    <3> QED  BY <3>1, <3>3
  \* after the end of the timer thread main can go on
  <2>4. CASE tpc = "exit"
    BY <2>4 DEF StopOK, MainCan
  <2> QED  BY <2>1, <2>2, <2>3, <2>4
<1> QED  BY Invariance, <1>1, PTL

=============================================================================
