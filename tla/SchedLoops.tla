----------------------------- MODULE SchedLoops -----------------------------
(***************************************************************************)
(* The loops of get_mlq_proc and dequeue as they are written, to compare   *)
(* them with what Sched and Queue say of their results.                    *)
(***************************************************************************)
EXTENDS Sched

-----------------------------------------------------------------------------
(* get_mlq_proc *)

\* One iteration, from state s of the loop: where it is, the quota used, and whether
\* it has found a process.  A level that is empty and one whose quota is used up are
\* left in the same way.
ScanStep(s) ==
    IF s.found THEN s
    ELSE IF mlq_ready_queue[s.cur] # <<>> /\ s.used < slot[s.cur]
    THEN [cur |-> s.cur, used |-> s.used + 1, found |-> TRUE]
    ELSE [cur |-> (s.cur + 1) % MAX_PRIO, used |-> 0, found |-> FALSE]

\* The state of the loop after n iterations.
Scan[n \in 0 .. MAX_PRIO] ==
    IF n = 0 THEN [cur |-> cur_prio, used |-> used_slot, found |-> FALSE]
    ELSE ScanStep(Scan[n - 1])

\* The scan ends where Stop says, with the quota GetSome leaves; if nothing is
\* servable it has gone round and is back where it started.
ScanAgrees ==
    LET end == Scan[MAX_PRIO] IN
    IF Stops = {}
    THEN ~end.found /\ end.cur = cur_prio
    ELSE /\ end.found
         /\ end.cur = LevelAfter(Stop)
         /\ end.used = IF Stop = 0 THEN used_slot + 1 ELSE 1

-----------------------------------------------------------------------------
(* dequeue *)

\* for (i = 1; i < size; i++) if (priority of i < priority of best) best = i
BestIndex(q) ==
    LET best[i \in 1 .. Len(q)] ==
            IF i = 1 THEN 1
            ELSE IF priority[q[i]] < priority[q[best[i - 1]]] THEN i
            ELSE best[i - 1]
    IN best[Len(q)]

\* for (j = best + 1; j < size; j++) proc[j - 1] = proc[j]; size--
Shifted(q, best) ==
    [j \in 1 .. Len(q) - 1 |-> IF j < best THEN q[j] ELSE q[j + 1]]

\* On every queue the scheduler can build, dequeue's search and shift take the
\* entry and leave the queue that Queue defines: of equals the one that came
\* first, and the order of the others is kept.
DequeueIsLoop ==
    \A l \in Level :
        LET q == mlq_ready_queue[l] IN
        q # <<>> => /\ Dequeued(q) = q[BestIndex(q)]
                    /\ Dequeue(q) = Shifted(q, BestIndex(q))

\* The loops of get_mlq_proc and dequeue end where Sched and Queue say, in every
\* state the scheduler can be in.
LoopsAgree == ScanAgrees /\ DequeueIsLoop
=============================================================================
