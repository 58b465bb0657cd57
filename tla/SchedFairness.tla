--------------------------- MODULE SchedFairness ---------------------------
(***************************************************************************)
(* How long a priority level waits for its turn.  A history variable       *)
(* counts, for each level that has a ready process, the calls of get_proc  *)
(* since it was last served that went to another level or returned NULL.   *)
(***************************************************************************)
EXTENDS Sched

VARIABLE waited        \* waited[l], calls of get_proc that passed level l over

HInit == SchedInit /\ waited = [l \in Level |-> 0]

Nonempty(l) == mlq_ready_queue[l] # <<>>

ServedLevel(l) == Stops # {} /\ l = LevelAfter(Stop)

Pass ==
    waited' = [l \in Level |->
        IF Nonempty(l) /\ ~ServedLevel(l) THEN waited[l] + 1 ELSE 0]

HNext ==
    \/ \E c \in CPU : GetProc(c) /\ Pass
    \/ \E c \in CPU : (PutProc(c) \/ FreeProc(c)) /\ UNCHANGED waited
    \/ \E p \in Proc : AddProc(p) /\ UNCHANGED waited

HSpec == HInit /\ [][HNext]_<<schedVars, waited>>

\* The quotas of all levels together: MAX_PRIO for the first, 1 for the last.
AllQuotas == (MAX_PRIO * (MAX_PRIO + 1)) \div 2

\* No starvation between levels: whatever the CPUs do, a level with a ready
\* process is passed over at most once for each dispatch the other levels'
\* quotas allow, and a NULL does not add to that.
BoundedBypass == \A l \in Level : waited[l] <= AllQuotas - slot[l]
=============================================================================
