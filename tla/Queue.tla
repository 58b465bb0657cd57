------------------------------- MODULE Queue -------------------------------
(***************************************************************************)
(* queue.c: the bounded array of processes that every list of the          *)
(* scheduler is made of.  A queue is a sequence; its length is `size'.     *)
(***************************************************************************)
EXTENDS Naturals, Sequences, SequencesExt

CONSTANTS
    Proc,              \* processes
    MAX_QUEUE_SIZE,    \* capacity of a queue
    priority           \* priority[p], the default priority of p's program

ASSUME QueueSizeAssumption == MAX_QUEUE_SIZE \in Nat
ASSUME PriorityAssumption == priority \in [Proc -> Nat]

\* A full queue ignores the process, and says nothing to the caller.
Enqueue(q, p) ==
    IF Len(q) >= MAX_QUEUE_SIZE THEN q ELSE Append(q, p)

\* (mutant: the last of equals, as `<=' in the search loop would choose)
BestLast(q) ==
    CHOOSE i \in DOMAIN q : \A j \in DOMAIN q :
        /\ priority[q[i]] <= priority[q[j]]
        /\ j > i => priority[q[i]] < priority[q[j]]

\* The entry dequeue picks: the first of those with the least priority number.
Best(q) ==
    CHOOSE i \in DOMAIN q : \A j \in DOMAIN q :
        /\ priority[q[i]] <= priority[q[j]]
        /\ j < i => priority[q[i]] < priority[q[j]]

\* dequeue, for a queue that is not empty: the process and what is left
Dequeued(q) == q[Best(q)]
Dequeue(q)  == RemoveAt(q, Best(q))
=============================================================================
