---------------------------- MODULE SlotBarrier ----------------------------
(***************************************************************************)
(* What the timer of timer.c promises to the threads that call             *)
(* attach_event, next_slot and detach_event: time is divided in slots, and *)
(* a slot ends only when every attached device has either declared its     *)
(* work for the slot done (next_slot) or left for good (detach_event).     *)
(*                                                                         *)
(* Locks, condition variables and the timer thread's walk over dev_list    *)
(* are the business of Timer, which implements this specification; OS uses *)
(* this one as its clock.                                                  *)
(***************************************************************************)
EXTENDS Naturals

CONSTANT Device        \* the attached devices: one per CPU, and the loader

VARIABLES
    time,              \* the current slot (_time)
    arrived,           \* devices that wait for the end of the current slot
    gone,              \* devices that have detached
    halted             \* the timer thread has exited

barrierVars == <<time, arrived, gone, halted>>

TypeOK ==
    /\ time \in Nat
    /\ arrived \in SUBSET Device
    /\ gone \in SUBSET Device
    /\ halted \in BOOLEAN

Init ==
    /\ time = 0
    /\ arrived = {}
    /\ gone = {}
    /\ halted = FALSE

\* A device that is still at work in this slot.
Working(d) == d \notin arrived \cup gone

\* next_slot, called
Arrive(d) ==
    /\ Working(d)
    /\ arrived' = arrived \cup {d}
    /\ UNCHANGED <<time, gone, halted>>

\* detach_event
Leave(d) ==
    /\ Working(d)
    /\ gone' = gone \cup {d}
    /\ UNCHANGED <<time, arrived, halted>>

\* Nobody is at work any more.
SlotOver == \A d \in Device : ~Working(d)

\* The timer thread ends the slot: every next_slot returns.
Advance ==
    /\ ~halted
    /\ SlotOver
    /\ time' = time + 1
    /\ arrived' = {}
    /\ UNCHANGED <<gone, halted>>

\* The timer thread has no device left to serve.
Halt ==
    /\ gone = Device
    /\ halted' = TRUE
    /\ UNCHANGED <<time, arrived, gone>>

Next ==
    \/ \E d \in Device : Arrive(d) \/ Leave(d)
    \/ Advance
    \/ Halt

Spec == Init /\ [][Next]_barrierVars
=============================================================================
