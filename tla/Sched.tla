------------------------------- MODULE Sched -------------------------------
(***************************************************************************)
(* sched.c, compiled with MLQ_SCHED: the multi-level ready queue and the   *)
(* CPUs that take processes from it.  Every function of sched.c holds      *)
(* queue_lock from its first access to the queues to its last, so it is    *)
(* one action.  A CPU keeps the process it got in its local variable       *)
(* `proc'; it puts the process back (its quantum is over) or frees it (the *)
(* program has ended), and in both cases asks for the next one.            *)
(***************************************************************************)
EXTENDS Queue, FiniteSets

CONSTANTS
    CPU,
    NoProc,            \* NULL
    MAX_PRIO,          \* priority levels
    prio               \* prio[p], the level of p, from the configuration file

Level == 0 .. MAX_PRIO - 1

ASSUME MaxPrioAssumption == MAX_PRIO \in Nat \ {0}
ASSUME PrioAssumption == prio \in [Proc -> Level]
ASSUME NoProcAssumption == NoProc \notin Proc
ASSUME ProcFiniteAssumption == IsFiniteSet(Proc)

VARIABLES
    mlq_ready_queue,   \* mlq_ready_queue[l], the ready processes of level l
    running_list,      \* every process ever put back, oldest first
    cur_prio,          \* the level being served
    used_slot,         \* dispatches from it in this turn
    proc,              \* proc[c], the process CPU c holds, or NoProc
    loaded,            \* processes handed to add_proc
    freed              \* processes freed by a CPU

queueVars == <<mlq_ready_queue, running_list>>
turnVars  == <<cur_prio, used_slot>>
schedVars == <<queueVars, turnVars, proc, loaded, freed>>

SchedTypeOK ==
    /\ mlq_ready_queue \in [Level -> Seq(Proc)]
    /\ running_list \in Seq(Proc)
    /\ cur_prio \in Level
    /\ used_slot \in 0 .. MAX_PRIO
    /\ proc \in [CPU -> Proc \cup {NoProc}]
    /\ loaded \in SUBSET Proc
    /\ freed \in SUBSET Proc

\* init_scheduler: the queues are empty, and level l may be served slot[l] times
\* in a turn
slot == [l \in Level |-> MAX_PRIO - l]

SchedInit ==
    /\ mlq_ready_queue = [l \in Level |-> <<>>]
    /\ running_list = <<>>
    /\ cur_prio = 0
    /\ used_slot = 0
    /\ proc = [c \in CPU |-> NoProc]
    /\ loaded = {}
    /\ freed = {}

-----------------------------------------------------------------------------
(* get_mlq_proc *)

\* The level k places after the current one, cyclically.
LevelAfter(k) == (cur_prio + k) % MAX_PRIO

\* (mutant: the quota of the current level is not looked at)
ServableAnyway(k) == mlq_ready_queue[LevelAfter(k)] # <<>>

\* The scan stops at a level that has a process and, if it is the one it started
\* from, has not used up its quota; it leaves the others with a fresh quota.
Servable(k) ==
    /\ mlq_ready_queue[LevelAfter(k)] # <<>>
    /\ k = 0 => used_slot < slot[cur_prio]

\* The places a scan of MAX_PRIO levels can stop at.
Stops == {k \in Level : Servable(k)}

\* The first place it does stop at.
Stop == CHOOSE k \in Stops : \A j \in Stops : k <= j

\* (mutant: get_mlq_proc takes the process out of running_list again)
GetSomePurged(c) ==
    LET lvl == LevelAfter(Stop) IN
    /\ proc[c] = NoProc
    /\ Stops # {}
    /\ proc' = [proc EXCEPT ![c] = Dequeued(mlq_ready_queue[lvl])]
    /\ mlq_ready_queue' = [mlq_ready_queue EXCEPT ![lvl] = Dequeue(@)]
    /\ running_list' = SelectSeq(running_list, LAMBDA p : p # proc'[c])
    /\ cur_prio' = lvl
    /\ used_slot' = IF Stop = 0 THEN used_slot + 1 ELSE 1
    /\ UNCHANGED <<loaded, freed>>

GetSome(c) ==
    LET lvl == LevelAfter(Stop) IN
    /\ proc[c] = NoProc
    /\ Stops # {}
    /\ proc' = [proc EXCEPT ![c] = Dequeued(mlq_ready_queue[lvl])]
    /\ mlq_ready_queue' = [mlq_ready_queue EXCEPT ![lvl] = Dequeue(@)]
    /\ cur_prio' = lvl
    /\ used_slot' = IF Stop = 0 THEN used_slot + 1 ELSE 1
    /\ UNCHANGED <<running_list, loaded, freed>>

\* The scan comes back to the level it started from: NULL, and a fresh quota.
\* The current level may well have a process.
GetNone(c) ==
    /\ proc[c] = NoProc
    /\ Stops = {}
    /\ used_slot' = 0
    /\ UNCHANGED <<queueVars, cur_prio, proc, loaded, freed>>

GetProc(c) == GetSome(c) \/ GetNone(c)

-----------------------------------------------------------------------------
\* (mutant: put_mlq_proc puts the process back twice, as if run_queue were one
\* more ready queue)
PutProcTwice(c) ==
    LET p == proc[c] IN
    /\ p # NoProc
    /\ running_list' = Enqueue(running_list, p)
    /\ mlq_ready_queue' =
         [mlq_ready_queue EXCEPT ![prio[p]] = Enqueue(Enqueue(@, p), p)]
    /\ proc' = [proc EXCEPT ![c] = NoProc]
    /\ UNCHANGED <<turnVars, loaded, freed>>

\* (mutant: put_mlq_proc only puts the process in running_list)
PutProcAside(c) ==
    /\ proc[c] # NoProc
    /\ running_list' = Enqueue(running_list, proc[c])
    /\ proc' = [proc EXCEPT ![c] = NoProc]
    /\ UNCHANGED <<mlq_ready_queue, turnVars, loaded, freed>>

\* put_mlq_proc; the caller overwrites its `proc' with what get_proc returns
PutProc(c) ==
    LET p == proc[c] IN
    /\ p # NoProc
    /\ running_list' = Enqueue(running_list, p)
    /\ mlq_ready_queue' = [mlq_ready_queue EXCEPT ![prio[p]] = Enqueue(@, p)]
    /\ proc' = [proc EXCEPT ![c] = NoProc]
    /\ UNCHANGED <<turnVars, loaded, freed>>

\* add_mlq_proc, called by the loader once for each process
AddProc(p) ==
    /\ p \notin loaded
    /\ loaded' = loaded \cup {p}
    /\ mlq_ready_queue' = [mlq_ready_queue EXCEPT ![prio[p]] = Enqueue(@, p)]
    /\ UNCHANGED <<running_list, turnVars, proc, freed>>

\* (mutant: the CPU frees the process but keeps it)
FreeProcKept(c) ==
    /\ proc[c] # NoProc
    /\ freed' = freed \cup {proc[c]}
    /\ UNCHANGED <<queueVars, turnVars, proc, loaded>>

\* free(proc): the process has finished
FreeProc(c) ==
    /\ proc[c] # NoProc
    /\ freed' = freed \cup {proc[c]}
    /\ proc' = [proc EXCEPT ![c] = NoProc]
    /\ UNCHANGED <<queueVars, turnVars, loaded>>

SchedNext ==
    \/ \E p \in Proc : AddProc(p)
    \/ \E c \in CPU : GetProc(c) \/ PutProc(c) \/ FreeProc(c)

SchedSpec == SchedInit /\ [][SchedNext]_schedVars

-----------------------------------------------------------------------------
(* Properties *)

Ready == UNION {ToSet(mlq_ready_queue[l]) : l \in Level}
Held  == {proc[c] : c \in CPU} \ {NoProc}

\* A process is in one place at most: once in one ready queue, that of its
\* level, or with one CPU, and in neither once it is freed.  Two CPUs that put
\* and get in any order never run the same process at once.
Exclusive ==
    /\ \A l \in Level : IsInjective(mlq_ready_queue[l])
    /\ \A l \in Level : \A p \in ToSet(mlq_ready_queue[l]) : prio[p] = l
    /\ \A c1, c2 \in CPU : proc[c1] = proc[c2] /\ proc[c1] # NoProc => c1 = c2
    /\ Ready \cap Held = {}
    /\ freed \cap (Ready \cup Held) = {}

\* No process that was added is lost before it is freed: what add_proc and
\* put_proc were given is in a ready queue or with a CPU.
NoneLost == loaded = Ready \cup Held \cup freed

\* The queues can take all the processes of their level.
QueuesFit ==
    \A l \in Level : Cardinality({p \in Proc : prio[p] = l}) <= MAX_QUEUE_SIZE

\* A level is never served more often in one turn than its quota allows.
QuotaKept == used_slot <= slot[cur_prio]

Pool == INSTANCE ReadyPool WITH ready <- Ready

\* The multi-level queue implements the pool, as long as the queues can take the
\* processes (QueuesFit).
PoolSpec == Pool!Spec
=============================================================================
