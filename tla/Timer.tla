------------------------------- MODULE Timer -------------------------------
(***************************************************************************)
(* timer.c: the timer thread, the devices that call next_slot and          *)
(* detach_event, and main's stop_timer, one action per critical section.   *)
(*                                                                         *)
(* A device has two mutexes (event_lock, timer_lock) and two condition     *)
(* variables.  `done' is set under the first and cleared under the second, *)
(* so neither lock alone protects it; `fsh' is only touched under          *)
(* event_lock.  A thread that holds a mutex is one whose program counter   *)
(* is inside that mutex's critical section, so taking the lock is a step   *)
(* that waits until the other thread is outside, and the section's body    *)
(* with the unlock is the next step.  pthread_cond_wait releases the mutex *)
(* and sleeps in one step; a sleeper goes back to taking the mutex when it *)
(* is signalled, or spuriously.                                            *)
(*                                                                         *)
(* Devices are numbered in the order of dev_list (the loader, attached     *)
(* last, is the head), so the cursor `temp' is a number and N + 1 is NULL. *)
(***************************************************************************)
EXTENDS Naturals

CONSTANTS
    N,                 \* devices attached before start_timer
    MaxTime,           \* bound: a device leaves at the latest in this slot
    MaxSpurious        \* bound: spurious wakeups in a behaviour

ASSUME NAssumption == N \in Nat \ {0}
ASSUME MaxTimeAssumption == MaxTime \in Nat
ASSUME MaxSpuriousAssumption == MaxSpurious \in Nat

Device == 1 .. N

VARIABLES
    tpc,               \* where the timer thread is
    temp,              \* its cursor in dev_list
    nfsh,              \* its local fsh: devices found finished this slot
    time,              \* _time
    done,              \* done[d], the device's flag
    fsh,               \* fsh[d], the device's flag
    dpc,               \* where device d's thread is
    slot,              \* next_slot calls of d that have returned (history)
    timer_stop,        \* the flag main sets in stop_timer
    main,              \* where the main thread is
    spurious           \* spurious wakeups so far

vars == <<tpc, temp, nfsh, time, done, fsh, dpc, slot, timer_stop, main, spurious>>

timerVars  == <<tpc, temp, nfsh, time>>
deviceVars == <<dpc, slot>>
mainVars   == <<timer_stop, main>>

\* The timer thread: "loop" tests timer_stop; "event" is about to take
\* event_lock of temp, "check" holds it, "eventWait" sleeps on event_cond;
\* "tick" is about to increment _time; "timer" is about to take timer_lock of
\* temp, "clear" holds it; "compare" tests fsh == event.
Collecting == {"event", "check", "eventWait"}
Releasing  == {"timer", "clear"}
TimerPC    == {"loop", "tick", "compare", "exit"} \cup Collecting \cup Releasing

\* A device thread: "run" is outside the timer; "next" and "detach" hold
\* event_lock; "timer" is about to take timer_lock, "test" holds it, "timerWait"
\* sleeps on timer_cond; "gone" has returned from detach_event.
Waiting  == {"timer", "test", "timerWait"}
Active   == {"run", "next", "detach"}
DevicePC == Active \cup Waiting \cup {"gone"}

TypeOK ==
    /\ tpc \in TimerPC
    /\ temp \in 1 .. N + 1
    /\ nfsh \in 0 .. N
    /\ time \in Nat
    /\ done \in [Device -> BOOLEAN]
    /\ fsh \in [Device -> BOOLEAN]
    /\ dpc \in [Device -> DevicePC]
    /\ slot \in [Device -> Nat]
    /\ timer_stop \in BOOLEAN
    /\ main \in {"join", "stop", "freed"}
    /\ spurious \in Nat

\* attach_event for every device, then start_timer
Init ==
    /\ tpc = "loop" /\ temp = 1 /\ nfsh = 0 /\ time = 0
    /\ done = [d \in Device |-> FALSE]
    /\ fsh = [d \in Device |-> FALSE]
    /\ dpc = [d \in Device |-> "run"]
    /\ slot = [d \in Device |-> 0]
    /\ timer_stop = FALSE /\ main = "join" /\ spurious = 0

EventLockFree(d) ==
    /\ dpc[d] \notin {"next", "detach"}
    /\ ~(tpc = "check" /\ temp = d)

TimerLockFree(d) ==
    /\ dpc[d] # "test"
    /\ ~(tpc = "clear" /\ temp = d)

\* (mutant: the signal is forgotten)
AfterNoSignal(d) == tpc

\* pthread_cond_signal on d's event_cond: the timer thread is the only waiter.
AfterEventSignal(d) == IF tpc = "eventWait" /\ temp = d THEN "event" ELSE tpc

-----------------------------------------------------------------------------
(* A device thread *)

MoveDevice(d, from, to) ==
    /\ dpc[d] = from
    /\ dpc' = [dpc EXCEPT ![d] = to]

\* next_slot: lock event_lock
NextSlot(d) ==
    /\ time < MaxTime
    /\ EventLockFree(d)
    /\ MoveDevice(d, "run", "next")
    /\ UNCHANGED <<timerVars, done, fsh, slot, mainVars, spurious>>

\* next_slot: done = 1, signal event_cond, unlock
SetDone(d) ==
    /\ MoveDevice(d, "next", "timer")
    /\ done' = [done EXCEPT ![d] = TRUE]
    /\ tpc' = AfterEventSignal(d)
    /\ UNCHANGED <<temp, nfsh, time, fsh, slot, mainVars, spurious>>

\* next_slot: lock timer_lock (again, after each wakeup)
LockTimer(d) ==
    /\ TimerLockFree(d)
    /\ MoveDevice(d, "timer", "test")
    /\ UNCHANGED <<timerVars, done, fsh, slot, mainVars, spurious>>

\* next_slot: while (done) pthread_cond_wait(timer_cond)
WaitTimer(d) ==
    /\ done[d]
    /\ MoveDevice(d, "test", "timerWait")
    /\ UNCHANGED <<timerVars, done, fsh, slot, mainVars, spurious>>

\* (mutant: the wait in next_slot is an `if', not a `while')
ReturnUntested(d) ==
    /\ MoveDevice(d, "test", "run")
    /\ slot' = [slot EXCEPT ![d] = @ + 1]
    /\ UNCHANGED <<timerVars, done, fsh, mainVars, spurious>>

\* next_slot: done is 0, unlock and return
ReturnFromSlot(d) ==
    /\ ~done[d]
    /\ MoveDevice(d, "test", "run")
    /\ slot' = [slot EXCEPT ![d] = @ + 1]
    /\ UNCHANGED <<timerVars, done, fsh, mainVars, spurious>>

\* detach_event: lock event_lock
Detach(d) ==
    /\ EventLockFree(d)
    /\ MoveDevice(d, "run", "detach")
    /\ UNCHANGED <<timerVars, done, fsh, slot, mainVars, spurious>>

\* (mutant: detach_event does not signal event_cond)
SetFshSilently(d) ==
    /\ MoveDevice(d, "detach", "gone")
    /\ fsh' = [fsh EXCEPT ![d] = TRUE]
    /\ UNCHANGED <<timerVars, done, slot, mainVars, spurious>>

\* detach_event: fsh = 1, signal event_cond, unlock; the thread ends
SetFsh(d) ==
    /\ MoveDevice(d, "detach", "gone")
    /\ fsh' = [fsh EXCEPT ![d] = TRUE]
    /\ tpc' = AfterEventSignal(d)
    /\ UNCHANGED <<temp, nfsh, time, done, slot, mainVars, spurious>>

DeviceStep(d) ==
    \/ NextSlot(d)  \/ SetDone(d)   \/ LockTimer(d) \/ WaitTimer(d)
    \/ ReturnFromSlot(d) \/ Detach(d) \/ SetFsh(d)

-----------------------------------------------------------------------------
(* timer_routine *)

\* (mutant: the local fsh survives from one slot to the next)
StartSlotNoReset ==
    /\ tpc = "loop"
    /\ IF timer_stop
       THEN tpc' = "exit" /\ UNCHANGED <<temp, nfsh>>
       ELSE tpc' = "event" /\ temp' = 1 /\ UNCHANGED nfsh
    /\ UNCHANGED <<time, done, fsh, deviceVars, mainVars, spurious>>

\* while (!timer_stop): start a slot or leave
StartSlot ==
    /\ tpc = "loop"
    /\ IF timer_stop
       THEN tpc' = "exit" /\ UNCHANGED <<temp, nfsh>>
       ELSE tpc' = "event" /\ temp' = 1 /\ nfsh' = 0
    /\ UNCHANGED <<time, done, fsh, deviceVars, mainVars, spurious>>

\* lock event_lock of temp (again, after each wakeup)
LockEvent ==
    /\ tpc = "event"
    /\ EventLockFree(temp)
    /\ tpc' = "check"
    /\ UNCHANGED <<temp, nfsh, time, done, fsh, deviceVars, mainVars, spurious>>

\* while (!done && !fsh) pthread_cond_wait(event_cond)
WaitEvent ==
    /\ tpc = "check"
    /\ ~done[temp] /\ ~fsh[temp]
    /\ tpc' = "eventWait"
    /\ UNCHANGED <<temp, nfsh, time, done, fsh, deviceVars, mainVars, spurious>>

\* (mutant: the wait in timer_routine is an `if', not a `while')
CollectUntested ==
    /\ tpc = "check"
    /\ nfsh' = IF fsh[temp] THEN nfsh + 1 ELSE nfsh
    /\ temp' = temp + 1
    /\ tpc' = IF temp = N THEN "tick" ELSE "event"
    /\ UNCHANGED <<time, done, fsh, deviceVars, mainVars, spurious>>

\* count the device if it is finished, unlock, temp = temp->next
Collect ==
    /\ tpc = "check"
    /\ done[temp] \/ fsh[temp]
    /\ nfsh' = IF fsh[temp] THEN nfsh + 1 ELSE nfsh
    /\ temp' = temp + 1
    /\ tpc' = IF temp = N THEN "tick" ELSE "event"
    /\ UNCHANGED <<time, done, fsh, deviceVars, mainVars, spurious>>

\* _time++, and back to the head of dev_list
Tick ==
    /\ tpc = "tick"
    /\ time' = time + 1
    /\ temp' = 1
    /\ tpc' = "timer"
    /\ UNCHANGED <<nfsh, done, fsh, deviceVars, mainVars, spurious>>

\* lock timer_lock of temp
LockRelease ==
    /\ tpc = "timer"
    /\ TimerLockFree(temp)
    /\ tpc' = "clear"
    /\ UNCHANGED <<temp, nfsh, time, done, fsh, deviceVars, mainVars, spurious>>

\* (mutant: timer_cond is not signalled)
ReleaseSilently ==
    /\ tpc = "clear"
    /\ done' = [done EXCEPT ![temp] = FALSE]
    /\ temp' = temp + 1
    /\ tpc' = IF temp = N THEN "compare" ELSE "timer"
    /\ UNCHANGED <<nfsh, time, fsh, deviceVars, mainVars, spurious>>

\* done = 0, signal timer_cond (its only waiter is the device), unlock
Release ==
    /\ tpc = "clear"
    /\ done' = [done EXCEPT ![temp] = FALSE]
    /\ dpc' = [dpc EXCEPT ![temp] = IF @ = "timerWait" THEN "timer" ELSE @]
    /\ temp' = temp + 1
    /\ tpc' = IF temp = N THEN "compare" ELSE "timer"
    /\ UNCHANGED <<nfsh, time, fsh, slot, mainVars, spurious>>

\* (mutant: the timer thread stops as soon as one device has finished)
CompareAny ==
    /\ tpc = "compare"
    /\ tpc' = IF nfsh > 0 THEN "exit" ELSE "loop"
    /\ UNCHANGED <<temp, nfsh, time, done, fsh, deviceVars, mainVars, spurious>>

\* if (fsh == event) break: event has counted every device
Compare ==
    /\ tpc = "compare"
    /\ tpc' = IF nfsh = N THEN "exit" ELSE "loop"
    /\ UNCHANGED <<temp, nfsh, time, done, fsh, deviceVars, mainVars, spurious>>

TimerStep ==
    \/ StartSlot \/ LockEvent \/ WaitEvent \/ Collect \/ Tick
    \/ LockRelease \/ Release \/ Compare

-----------------------------------------------------------------------------
(* The main thread: joins the device threads, then stop_timer *)

StopTimer ==
    /\ main = "join"
    /\ \A d \in Device : dpc[d] = "gone"
    /\ timer_stop' = TRUE
    /\ main' = "stop"
    /\ UNCHANGED <<timerVars, done, fsh, deviceVars, spurious>>

\* pthread_join(_timer), then dev_list is freed
FreeDevices ==
    /\ main = "stop"
    /\ tpc = "exit"
    /\ main' = "freed"
    /\ UNCHANGED <<timerVars, done, fsh, deviceVars, timer_stop, spurious>>

\* A sleeper may wake up although nobody signalled it.
SpuriousWakeup ==
    /\ spurious < MaxSpurious
    /\ spurious' = spurious + 1
    /\ \/ /\ tpc = "eventWait"
          /\ tpc' = "event"
          /\ UNCHANGED dpc
       \/ /\ \E d \in Device : MoveDevice(d, "timerWait", "timer")
          /\ UNCHANGED tpc
    /\ UNCHANGED <<temp, nfsh, time, done, fsh, slot, mainVars>>

Finished == main = "freed" /\ UNCHANGED vars

Next ==
    \/ \E d \in Device : DeviceStep(d)
    \/ TimerStep
    \/ StopTimer \/ FreeDevices
    \/ SpuriousWakeup
    \/ Finished

Spec == Init /\ [][Next]_vars

\* Every thread goes on: a device that runs eventually calls next_slot or
\* detach_event, a signalled sleeper gets its mutex, a free mutex is granted.
FairSpec ==
    /\ Spec
    /\ \A d \in Device : WF_vars(DeviceStep(d))
    /\ WF_vars(TimerStep)
    /\ WF_vars(StopTimer \/ FreeDevices)

-----------------------------------------------------------------------------
(* Properties *)

\* `done' is handed over although no lock protects both its writes: the timer
\* thread never clears it, under timer_lock, while next_slot of the same device
\* is about to set it, under event_lock.
DoneHandover ==
    \A d \in Device : ~(tpc = "clear" /\ temp = d /\ dpc[d] = "next")

\* _time has no lock: it is incremented only while every device thread is
\* inside next_slot or has left, so current_time() never races with _time++.
ParkedAtTick ==
    tpc = "tick" => \A d \in Device : dpc[d] \in Waiting \cup {"gone"}

\* No wakeup is lost: nobody sleeps on a condition that already holds.
NoLostWakeup ==
    /\ tpc = "eventWait" => ~done[temp] /\ ~fsh[temp]
    /\ \A d \in Device : dpc[d] = "timerWait" => done[d]

\* The slots of all devices advance together: a device that is at work has
\* returned from exactly one next_slot per elapsed slot, however slow or fast
\* the other threads are and whatever they do in the meantime.
LockStep ==
    \A d \in Device : dpc[d] \in Active => slot[d] = time

\* A device waits, in the barrier's sense, from the moment it sets `done' until
\* the slot is over, not until the timer thread gets round to clearing it.
BarrierArrived ==
    {d \in Device : done[d] /\ ~(tpc \in Releasing /\ d >= temp)}

Barrier == INSTANCE SlotBarrier WITH
    arrived <- BarrierArrived,
    gone    <- {d \in Device : fsh[d]},
    halted  <- tpc = "exit"

\* timer.c implements the barrier: a slot ends only when every device has
\* called next_slot or detach_event, and the timer thread leaves only when
\* every device has detached.
BarrierSpec == Barrier!Spec

\* Every next_slot returns: a device that has declared its work done is
\* released by the timer thread.
SlotReturns ==
    \A d \in Device : dpc[d] \in Waiting ~> dpc[d] = "run"

\* Once every device has detached, stop_timer gets to join the timer thread.
TimerEnds ==
    (\A d \in Device : dpc[d] = "gone") ~> main = "freed"
=============================================================================
