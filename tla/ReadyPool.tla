----------------------------- MODULE ReadyPool -----------------------------
(***************************************************************************)
(* What the scheduler of sched.h promises: a pool of ready processes, from *)
(* which a CPU takes one process at a time and to which it returns it.  No *)
(* process is lost, duplicated or held by two CPUs.  Which process a CPU   *)
(* is given, and in which order, is the business of Sched; a CPU may also  *)
(* be given none.                                                          *)
(***************************************************************************)
CONSTANTS
    Proc, CPU,
    NoProc             \* NULL

VARIABLES
    ready,             \* the processes that wait for a CPU
    proc,              \* proc[c], the process CPU c holds, or NoProc
    freed              \* the processes that have finished

poolVars == <<ready, proc, freed>>

Held == {proc[c] : c \in CPU} \ {NoProc}

Init ==
    /\ ready = {}
    /\ proc = [c \in CPU |-> NoProc]
    /\ freed = {}

\* add_proc: a process never seen before
Add(p) ==
    /\ p \notin ready \cup Held \cup freed
    /\ ready' = ready \cup {p}
    /\ UNCHANGED <<proc, freed>>

\* get_proc, when it returns p
Take(c, p) ==
    /\ proc[c] = NoProc
    /\ p \in ready
    /\ ready' = ready \ {p}
    /\ proc' = [proc EXCEPT ![c] = p]
    /\ UNCHANGED freed

\* put_proc
Return(c) ==
    /\ proc[c] # NoProc
    /\ ready' = ready \cup {proc[c]}
    /\ proc' = [proc EXCEPT ![c] = NoProc]
    /\ UNCHANGED freed

\* free, when the process has finished
Retire(c) ==
    /\ proc[c] # NoProc
    /\ freed' = freed \cup {proc[c]}
    /\ proc' = [proc EXCEPT ![c] = NoProc]
    /\ UNCHANGED ready

Next ==
    \/ \E p \in Proc : Add(p)
    \/ \E c \in CPU : Return(c) \/ Retire(c) \/ \E p \in Proc : Take(c, p)

Spec == Init /\ [][Next]_poolVars
=============================================================================
