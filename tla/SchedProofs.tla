---------------------------- MODULE SchedProofs ----------------------------
(***************************************************************************)
(* Proofs about Sched, for every number of processes, CPUs and levels: no  *)
(* process is in two places, none is lost while the queues are large       *)
(* enough, quotas are kept, no level waits longer than the quotas of the   *)
(* others allow, the multi-level queue implements the pool, and the loops  *)
(* compute what the model says.                                            *)
(***************************************************************************)
EXTENDS SchedFairness, SchedLoops, ListProofs

-----------------------------------------------------------------------------
(* The operators of Queue *)

\* dequeue's search finds an entry of the queue, and it has the least priority
\* number of all.
LEMMA BestFound ==
  ASSUME NEW q \in Seq(Proc), q # <<>>
  PROVE  /\ Best(q) \in DOMAIN q
         /\ \A j \in DOMAIN q : priority[Dequeued(q)] <= priority[q[j]]
<1> DEFINE PrioritiesIn == {priority[q[i]] : i \in DOMAIN q}
<1>1. DOMAIN q = 1 .. Len(q) /\ Len(q) \in Nat /\ Len(q) > 0
      /\ \A i \in DOMAIN q : q[i] \in Proc
  BY ElementOfSeq, LenProperties, EmptySeq
<1>2. PrioritiesIn \in SUBSET Nat /\ PrioritiesIn # {}
  BY <1>1, PriorityAssumption
<1>3. PICK least \in PrioritiesIn : \A n \in PrioritiesIn : least <= n
  <2> HIDE DEF PrioritiesIn
  <2> QED  BY <1>2, NatMinimum
<1> DEFINE Least == {i \in DOMAIN q : priority[q[i]] = least}
<1>4. Least \in SUBSET Nat /\ Least # {}
  BY <1>1, <1>3
<1>5. PICK i \in Least : \A j \in Least : i <= j
  <2> HIDE DEF Least
  <2> QED  BY <1>4, NatMinimum
<1>6. /\ i \in DOMAIN q
      /\ \A j \in DOMAIN q : /\ priority[q[i]] <= priority[q[j]]
                             /\ j < i => priority[q[i]] < priority[q[j]]
  <2>1. i \in DOMAIN q /\ priority[q[i]] = least
    BY <1>5
  <2>2. \A j \in DOMAIN q : priority[q[j]] \in PrioritiesIn
    OBVIOUS
  <2>3. \A j \in DOMAIN q : priority[q[j]] \in Nat /\ least <= priority[q[j]]
    BY <1>2, <1>3, <2>2
  <2>4. \A j \in DOMAIN q : priority[q[j]] = least => i <= j
    BY <1>5
  <2>5. \A j \in DOMAIN q : j \in Nat
    BY <1>1
  <2> HIDE DEF PrioritiesIn, Least
  <2> QED  BY <2>1, <2>3, <2>4, <2>5
<1>7. /\ Best(q) \in DOMAIN q
      /\ \A j \in DOMAIN q : /\ priority[q[Best(q)]] <= priority[q[j]]
                             /\ j < Best(q) => priority[q[Best(q)]] < priority[q[j]]
  <2> DEFINE First(k) == \A j \in DOMAIN q :
                           /\ priority[q[k]] <= priority[q[j]]
                           /\ j < k => priority[q[k]] < priority[q[j]]
  <2>1. \E k \in DOMAIN q : First(k)
    BY <1>6
  <2>2. Best(q) = CHOOSE k \in DOMAIN q : First(k)
    BY DEF Best
  <2> HIDE DEF First
  <2>3. Best(q) \in DOMAIN q /\ First(Best(q))
    BY <2>1, <2>2
  <2> QED  BY <2>3 DEF First
<1> QED  BY <1>7 DEF Dequeued

\* dequeue takes out the process it returns and nothing else.
LEMMA DequeueRemoves ==
  ASSUME NEW q \in Seq(Proc), q # <<>>, IsInjective(q)
  PROVE  /\ Dequeued(q) \in ToSet(q)
         /\ Dequeue(q) \in Seq(Proc)
         /\ IsInjective(Dequeue(q))
         /\ ToSet(Dequeue(q)) = ToSet(q) \ {Dequeued(q)}
<1>1. Best(q) \in DOMAIN q
  BY BestFound
<1> QED  BY <1>1, RemoveAtInjective DEF Dequeue, Dequeued, ToSet, Range

\* enqueue adds at most the process given, and keeps the queue without
\* repetitions if the process was not in it.
LEMMA EnqueueAdds ==
  ASSUME NEW q \in Seq(Proc), NEW p \in Proc
  PROVE  /\ Enqueue(q, p) \in Seq(Proc)
         /\ ToSet(Enqueue(q, p)) =
              IF Len(q) < MAX_QUEUE_SIZE THEN ToSet(q) \cup {p} ELSE ToSet(q)
         /\ IsInjective(q) /\ p \notin ToSet(q) => IsInjective(Enqueue(q, p))
<1> DEFINE r == Append(q, p)
<1>1. Len(q) \in Nat /\ DOMAIN q = 1 .. Len(q) /\ MAX_QUEUE_SIZE \in Nat
  BY LenProperties, QueueSizeAssumption
<1>2. CASE Len(q) >= MAX_QUEUE_SIZE
  BY <1>1, <1>2 DEF Enqueue
<1>3. CASE Len(q) < MAX_QUEUE_SIZE
  <2>1. Enqueue(q, p) = r
    <3>1. ~(Len(q) >= MAX_QUEUE_SIZE)
      BY <1>1, <1>3
    <3> QED  BY <3>1, Zenon DEF Enqueue
  <2>2. /\ r \in Seq(Proc) /\ Len(r) = Len(q) + 1
        /\ \A i \in 1 .. Len(q) : r[i] = q[i]
        /\ r[Len(q) + 1] = p
    BY AppendProperties
  <2>3. DOMAIN r = 1 .. Len(q) + 1
    BY <2>2, LenProperties
  <2> HIDE DEF r
  <2>4. ToSet(r) = ToSet(q) \cup {p}
    BY <1>1, <2>2, <2>3 DEF ToSet
  <2>5. ASSUME IsInjective(q), p \notin ToSet(q)
        PROVE  IsInjective(r)
    BY <1>1, <2>2, <2>3, <2>5 DEF IsInjective, ToSet
  <2> QED  BY <1>3, <2>1, <2>2, <2>4, <2>5
<1> QED  BY <1>1, <1>2, <1>3

\* A queue without repetitions that misses one of at most MAX_QUEUE_SIZE
\* processes has room for it.
LEMMA RoomLeft ==
  ASSUME NEW q \in Seq(Proc), IsInjective(q),
         NEW S, IsFiniteSet(S), Cardinality(S) <= MAX_QUEUE_SIZE,
         ToSet(q) \subseteq S, NEW p \in S, p \notin ToSet(q)
  PROVE  Len(q) < MAX_QUEUE_SIZE
<1>1. Len(q) \in Nat /\ DOMAIN q = 1 .. Len(q) /\ q \in [1 .. Len(q) -> Proc]
  BY LenProperties, ElementOfSeq
<1>2. IsFiniteSet(S \ {p}) /\ Cardinality(S \ {p}) = Cardinality(S) - 1
      /\ Cardinality(S) \in Nat
  BY FS_RemoveElement, FS_CardinalityType
<1>3. q \in Injection(1 .. Len(q), S \ {p})
  BY <1>1 DEF Injection, ToSet
<1>4. Cardinality(1 .. Len(q)) <= Cardinality(S \ {p})
  BY <1>2, <1>3, FS_Injection
<1>5. Cardinality(1 .. Len(q)) = Len(q)
  <2> DEFINE n == Len(q)
  <2>1. n \in Nat /\ 1 \in Int
    BY <1>1
  <2> HIDE DEF n
  <2>2. Cardinality(1 .. n) = IF 1 > n THEN 0 ELSE n - 1 + 1
    BY <2>1, FS_Interval
  <2>3. Cardinality(1 .. n) = n
    BY <2>1, <2>2
  <2> QED  BY <2>3 DEF n
<1> QED  BY <1>1, <1>2, <1>4, <1>5, QueueSizeAssumption

-----------------------------------------------------------------------------
(* The invariant *)

USE MaxPrioAssumption, PrioAssumption, NoProcAssumption

\* What Exclusive needs to be inductive: only processes that were added are
\* anywhere, so the process the loader adds next is nowhere yet.
SchedInv ==
    /\ SchedTypeOK
    /\ Exclusive
    /\ Ready \cup Held \cup freed \subseteq loaded
    /\ QuotaKept
    /\ QueuesFit => NoneLost

-----------------------------------------------------------------------------
(* The scan of get_mlq_proc *)

\* The scan starts at the current level.
LEMMA NoShift == cur_prio \in Level => LevelAfter(0) = cur_prio
<1> SUFFICES ASSUME cur_prio \in 0 .. MAX_PRIO - 1
             PROVE  cur_prio % MAX_PRIO = cur_prio
  BY DEF LevelAfter, Level
<1> QED  OBVIOUS

\* If the scan stops, it stops at a level with a process; the level it left
\* behind is the current one only if its quota is not used up.
LEMMA ScanStops ==
  ASSUME SchedTypeOK, Stops # {}
  PROVE  /\ Stop \in Level
         /\ Servable(Stop)
         /\ LevelAfter(Stop) \in Level
         /\ mlq_ready_queue[LevelAfter(Stop)] # <<>>
<1>1. Stops \in SUBSET Nat
  BY DEF Stops, Level
<1>2. \E k \in Stops : \A j \in Stops : k <= j
  BY <1>1, NatMinimum
<1>3. Stop \in Stops
  BY <1>2 DEF Stop
<1>4. \A k \in Level : LevelAfter(k) \in Level
  BY DEF LevelAfter, Level, SchedTypeOK
<1> QED  BY <1>3, <1>4 DEF Stops, Servable

-----------------------------------------------------------------------------
(* One queue changes *)

\* Where the processes are after dequeue from level l: the same, without the
\* process it returns, which was in no other queue.
LEMMA ReadyAfterDequeue ==
  ASSUME SchedTypeOK, Exclusive, NEW l \in Level, mlq_ready_queue[l] # <<>>,
         mlq_ready_queue' = [mlq_ready_queue EXCEPT ![l] = Dequeue(@)]
  PROVE  LET p == Dequeued(mlq_ready_queue[l]) IN
         /\ p \in Proc /\ p \in Ready
         /\ mlq_ready_queue' \in [Level -> Seq(Proc)]
         /\ \A m \in Level : IsInjective(mlq_ready_queue'[m])
         /\ \A m \in Level : ToSet(mlq_ready_queue'[m]) = ToSet(mlq_ready_queue[m]) \ {p}
         /\ Ready' = Ready \ {p}
<1> DEFINE q == mlq_ready_queue[l]
           p == Dequeued(q)
<1>1. q \in Seq(Proc) /\ IsInjective(q) /\ q # <<>>
  BY DEF SchedTypeOK, Exclusive
<1>2. /\ p \in ToSet(q)
      /\ Dequeue(q) \in Seq(Proc)
      /\ IsInjective(Dequeue(q))
      /\ ToSet(Dequeue(q)) = ToSet(q) \ {p}
  BY <1>1, DequeueRemoves
<1>3. p \in Proc
  BY <1>1, <1>2, ElementOfSeq, LenProperties DEF ToSet
<1>4. prio[p] = l /\ p \in Ready
  BY <1>2 DEF Exclusive, Ready
<1> HIDE DEF p
<1>5. \A m \in Level : mlq_ready_queue'[m] = IF m = l THEN Dequeue(q) ELSE mlq_ready_queue[m]
  BY DEF SchedTypeOK
<1>6. \A m \in Level : m # l => p \notin ToSet(mlq_ready_queue[m])
  BY <1>4 DEF Exclusive
<1>7. \A m \in Level : ToSet(mlq_ready_queue'[m]) = ToSet(mlq_ready_queue[m]) \ {p}
  BY <1>2, <1>5, <1>6
<1>8. Ready' = Ready \ {p}
  <2>1. \A x : x \in Ready <=> \E m \in Level : x \in ToSet(mlq_ready_queue[m])
    BY DEF Ready
  <2>2. \A x : x \in Ready' <=> \E m \in Level : x \in ToSet(mlq_ready_queue'[m])
    BY DEF Ready
  <2>3. \A x : x \in Ready' <=> x \in Ready /\ x # p
    <3>1. \A x : \A m \in Level :
            x \in ToSet(mlq_ready_queue'[m]) <=> x \in ToSet(mlq_ready_queue[m]) /\ x # p
      BY <1>7
    <3> QED  BY <2>1, <2>2, <3>1, Zenon
  <2> QED  BY <2>3
<1>9. mlq_ready_queue' \in [Level -> Seq(Proc)]
  BY <1>2 DEF SchedTypeOK
<1>10. \A m \in Level : IsInjective(mlq_ready_queue'[m])
  BY <1>2, <1>5 DEF Exclusive
<1> QED  BY <1>3, <1>4, <1>7, <1>8, <1>9, <1>10 DEF p

\* Where the processes are after enqueue of a process that was not ready: the
\* same, with that process in the queue of its level unless this was full, and
\* it is never full if the queues can take the processes of their level.
LEMMA ReadyAfterEnqueue ==
  ASSUME SchedTypeOK, Exclusive, NEW p \in Proc, p \notin Ready,
         mlq_ready_queue' = [mlq_ready_queue EXCEPT ![prio[p]] = Enqueue(@, p)]
  PROVE  /\ mlq_ready_queue' \in [Level -> Seq(Proc)]
         /\ \A m \in Level : IsInjective(mlq_ready_queue'[m])
         /\ \A m \in Level : \A e \in ToSet(mlq_ready_queue'[m]) : prio[e] = m
         /\ Ready' = Ready \/ Ready' = Ready \cup {p}
         /\ QueuesFit => Ready' = Ready \cup {p}
<1> DEFINE l == prio[p]
           q == mlq_ready_queue[l]
<1>1. l \in Level /\ q \in Seq(Proc) /\ IsInjective(q)
  BY DEF SchedTypeOK, Exclusive
<1>2. p \notin ToSet(q)
  BY <1>1 DEF Ready
<1>3. /\ Enqueue(q, p) \in Seq(Proc)
      /\ ToSet(Enqueue(q, p)) =
           IF Len(q) < MAX_QUEUE_SIZE THEN ToSet(q) \cup {p} ELSE ToSet(q)
      /\ IsInjective(Enqueue(q, p))
  BY <1>1, <1>2, EnqueueAdds
<1>4. \A m \in Level : mlq_ready_queue'[m] = IF m = l THEN Enqueue(q, p) ELSE mlq_ready_queue[m]
  BY <1>1 DEF SchedTypeOK
<1>5. mlq_ready_queue' \in [Level -> Seq(Proc)]
  BY <1>1, <1>3 DEF SchedTypeOK
<1>6. \A m \in Level : IsInjective(mlq_ready_queue'[m])
  BY <1>3, <1>4 DEF Exclusive
<1>7. \A m \in Level : \A e \in ToSet(mlq_ready_queue'[m]) : prio[e] = m
  BY <1>3, <1>4 DEF Exclusive
<1>8. Ready' = IF Len(q) < MAX_QUEUE_SIZE THEN Ready \cup {p} ELSE Ready
  <2>1. CASE Len(q) < MAX_QUEUE_SIZE
    BY <1>1, <1>3, <1>4, <2>1 DEF Ready
  <2>2. CASE ~(Len(q) < MAX_QUEUE_SIZE)
    BY <1>1, <1>3, <1>4, <2>2 DEF Ready
  <2> QED  BY <2>1, <2>2
<1>9. ASSUME QueuesFit
      PROVE  Len(q) < MAX_QUEUE_SIZE
  <2> DEFINE S == {e \in Proc : prio[e] = l}
  <2>1. IsFiniteSet(S) /\ Cardinality(S) <= MAX_QUEUE_SIZE
    BY <1>1, <1>9, ProcFiniteAssumption, FS_Subset DEF QueuesFit
  <2>2. ToSet(q) \subseteq S
    BY <1>1, ElementOfSeq, LenProperties DEF Exclusive, ToSet
  <2>3. p \in S
    OBVIOUS
  <2> HIDE DEF S, q
  <2> QED  BY <1>1, <1>2, <2>1, <2>2, <2>3, RoomLeft
<1> QED  BY <1>5, <1>6, <1>7, <1>8, <1>9

-----------------------------------------------------------------------------
(* The inductive invariant *)

\* The initial states satisfy the inductive invariant.
LEMMA SchedInitInv == SchedInit => SchedInv
<1> SUFFICES ASSUME SchedInit PROVE SchedInv  OBVIOUS
<1>1. \A l \in Level : /\ mlq_ready_queue[l] = <<>>
                       /\ ToSet(mlq_ready_queue[l]) = {}
                       /\ IsInjective(mlq_ready_queue[l])
  BY DEF SchedInit, ToSet, IsInjective
<1>2. Ready = {} /\ Held = {} /\ freed = {} /\ loaded = {}
  BY <1>1 DEF Ready, Held, SchedInit
<1>3. SchedTypeOK
  BY DEF SchedInit, SchedTypeOK, Level
<1>4. Exclusive
  BY <1>1, <1>2 DEF Exclusive, SchedInit
<1>5. QuotaKept
  BY DEF QuotaKept, SchedInit, slot, Level
<1> QED  BY <1>2, <1>3, <1>4, <1>5 DEF SchedInv, NoneLost

\* get_proc preserves it: a process moves from its queue to the CPU.
LEMMA GetInv ==
  ASSUME SchedInv, NEW c \in CPU, GetProc(c)
  PROVE  SchedInv'
<1> USE DEF SchedInv
<1>1. CASE GetNone(c)
  <2>1. UNCHANGED <<Ready, Held>>
    BY <1>1 DEF GetNone, queueVars, Ready, Held
  <2>2. QuotaKept'
    BY <1>1 DEF GetNone, QuotaKept, slot, Level, SchedTypeOK
  <2>3. SchedTypeOK' /\ Exclusive'
    BY <1>1, <2>1 DEF GetNone, queueVars, SchedTypeOK, Exclusive
  <2> QED  BY <1>1, <2>1, <2>2, <2>3 DEF GetNone, NoneLost
<1>2. CASE GetSome(c)
  <2> DEFINE l == LevelAfter(Stop)
             p == Dequeued(mlq_ready_queue[l])
  <2>1. /\ Stop \in Level /\ Servable(Stop) /\ l \in Level
        /\ mlq_ready_queue[l] # <<>>
    BY <1>2, ScanStops DEF GetSome
  <2>2. /\ p \in Proc /\ p \in Ready
        /\ mlq_ready_queue' \in [Level -> Seq(Proc)]
        /\ \A m \in Level : IsInjective(mlq_ready_queue'[m])
        /\ \A m \in Level : ToSet(mlq_ready_queue'[m]) = ToSet(mlq_ready_queue[m]) \ {p}
        /\ Ready' = Ready \ {p}
    <3> HIDE DEF l
    <3> QED  BY <1>2, <2>1, ReadyAfterDequeue DEF GetSome, l
  <2>3. /\ proc' = [proc EXCEPT ![c] = p]
        /\ proc[c] = NoProc
        /\ UNCHANGED <<running_list, loaded, freed>>
        /\ cur_prio' = l
        /\ used_slot' = IF Stop = 0 THEN used_slot + 1 ELSE 1
    BY <1>2 DEF GetSome
  <2>4. QuotaKept'
    <3>1. CASE Stop = 0
      <4>1. l = cur_prio /\ used_slot < slot[cur_prio]
        BY <2>1, <3>1, NoShift DEF Servable, SchedTypeOK
      <4> QED  BY <2>3, <3>1, <4>1 DEF QuotaKept, slot, SchedTypeOK, Level
    <3>2. CASE Stop # 0
      <4> HIDE DEF l
      <4> QED  BY <2>1, <2>3, <3>2 DEF QuotaKept, slot, Level
    <3> QED  BY <3>1, <3>2
  <2> HIDE DEF p, l
  <2>5. Held' = Held \cup {p} /\ p \notin Held
    BY <2>2, <2>3 DEF Held, SchedTypeOK, Exclusive
  <2>6. SchedTypeOK'
    <3>1. used_slot' \in 0 .. MAX_PRIO
      BY <2>1, <2>3, <2>4 DEF QuotaKept, SchedTypeOK, slot, Level
    <3> QED  BY <2>1, <2>2, <2>3, <3>1 DEF SchedTypeOK
  <2>7. Exclusive'
    <3>1. \A c1, c2 \in CPU : proc'[c1] = proc'[c2] /\ proc'[c1] # NoProc => c1 = c2
      BY <2>2, <2>3, <2>5 DEF Exclusive, SchedTypeOK, Held
    <3>2. \A m \in Level : \A e \in ToSet(mlq_ready_queue'[m]) : prio[e] = m
      BY <2>2 DEF Exclusive
    <3>3. (Ready \cap Held)' = {} /\ (freed \cap (Ready \cup Held))' = {}
      BY <2>2, <2>3, <2>5 DEF Exclusive
    <3> QED  BY <2>2, <3>1, <3>2, <3>3 DEF Exclusive
  <2>8. (Ready \cup Held \cup freed)' = Ready \cup Held \cup freed
    BY <2>2, <2>3, <2>5
  <2> QED  BY <2>3, <2>4, <2>6, <2>7, <2>8 DEF NoneLost
<1> QED  BY <1>1, <1>2 DEF GetProc

\* put_proc preserves it: the process moves from the CPU to its queue.
LEMMA PutInv ==
  ASSUME SchedInv, NEW c \in CPU, PutProc(c)
  PROVE  SchedInv'
<1> USE DEF SchedInv
<1> DEFINE p == proc[c]
<1>1. /\ p # NoProc /\ p \in Proc /\ p \in Held
      /\ proc' = [proc EXCEPT ![c] = NoProc]
      /\ running_list' = Enqueue(running_list, p)
      /\ mlq_ready_queue' = [mlq_ready_queue EXCEPT ![prio[p]] = Enqueue(@, p)]
      /\ UNCHANGED <<turnVars, loaded, freed>>
  BY DEF PutProc, SchedTypeOK, Held
<1>2. p \notin Ready
  BY <1>1 DEF Exclusive
<1>3. /\ mlq_ready_queue' \in [Level -> Seq(Proc)]
      /\ \A m \in Level : IsInjective(mlq_ready_queue'[m])
      /\ \A m \in Level : \A e \in ToSet(mlq_ready_queue'[m]) : prio[e] = m
      /\ Ready' = Ready \/ Ready' = Ready \cup {p}
      /\ QueuesFit => Ready' = Ready \cup {p}
  <2> HIDE DEF p
  <2> QED  BY <1>1, <1>2, ReadyAfterEnqueue
<1>4. Held' = Held \ {p}
  BY <1>1 DEF Held, Exclusive, SchedTypeOK
<1> HIDE DEF p
<1>5. running_list' \in Seq(Proc)
  BY <1>1, EnqueueAdds DEF SchedTypeOK
<1>6. SchedTypeOK'
  BY <1>1, <1>3, <1>5 DEF SchedTypeOK, turnVars
<1>7. Exclusive'
  <2>1. \A c1, c2 \in CPU : proc'[c1] = proc'[c2] /\ proc'[c1] # NoProc => c1 = c2
    BY <1>1 DEF Exclusive, SchedTypeOK
  <2>2. (Ready \cap Held)' = {} /\ (freed \cap (Ready \cup Held))' = {}
    BY <1>1, <1>3, <1>4 DEF Exclusive
  <2> QED  BY <1>3, <2>1, <2>2 DEF Exclusive
<1>8. (Ready \cup Held \cup freed)' \subseteq loaded'
  BY <1>1, <1>3, <1>4
<1>9. QuotaKept'
  BY <1>1 DEF QuotaKept, turnVars, slot
<1>10. QueuesFit => NoneLost'
  BY <1>1, <1>3, <1>4 DEF NoneLost
<1> QED  BY <1>6, <1>7, <1>8, <1>9, <1>10 DEF QueuesFit

\* add_proc preserves it: the process was nowhere.
LEMMA AddInv ==
  ASSUME SchedInv, NEW p \in Proc, AddProc(p)
  PROVE  SchedInv'
<1> USE DEF SchedInv
<1>1. /\ p \notin loaded /\ loaded' = loaded \cup {p}
      /\ mlq_ready_queue' = [mlq_ready_queue EXCEPT ![prio[p]] = Enqueue(@, p)]
      /\ UNCHANGED <<running_list, turnVars, proc, freed>>
  BY DEF AddProc
<1>2. p \notin Ready /\ p \notin Held /\ p \notin freed
  BY <1>1
<1>3. /\ mlq_ready_queue' \in [Level -> Seq(Proc)]
      /\ \A m \in Level : IsInjective(mlq_ready_queue'[m])
      /\ \A m \in Level : \A e \in ToSet(mlq_ready_queue'[m]) : prio[e] = m
      /\ Ready' = Ready \/ Ready' = Ready \cup {p}
      /\ QueuesFit => Ready' = Ready \cup {p}
  BY <1>1, <1>2, ReadyAfterEnqueue
<1>4. Held' = Held
  BY <1>1 DEF Held
<1>5. SchedTypeOK'
  BY <1>1, <1>3 DEF SchedTypeOK, turnVars
<1>6. Exclusive'
  BY <1>1, <1>2, <1>3, <1>4 DEF Exclusive
<1>7. QuotaKept'
  BY <1>1 DEF QuotaKept, turnVars, slot
<1> QED  BY <1>1, <1>3, <1>4, <1>5, <1>6, <1>7 DEF NoneLost, QueuesFit

\* free preserves it: the process leaves the CPU for good.
LEMMA FreeInv ==
  ASSUME SchedInv, NEW c \in CPU, FreeProc(c)
  PROVE  SchedInv'
<1> USE DEF SchedInv
<1> DEFINE p == proc[c]
<1>1. /\ p # NoProc /\ p \in Proc /\ p \in Held
      /\ proc' = [proc EXCEPT ![c] = NoProc]
      /\ freed' = freed \cup {p}
      /\ UNCHANGED <<queueVars, turnVars, loaded>>
  BY DEF FreeProc, SchedTypeOK, Held
<1>2. Ready' = Ready
  BY <1>1 DEF Ready, queueVars
<1>3. Held' = Held \ {p}
  BY <1>1 DEF Held, Exclusive, SchedTypeOK
<1> HIDE DEF p
<1>4. SchedTypeOK'
  BY <1>1 DEF SchedTypeOK, queueVars, turnVars
<1>5. Exclusive'
  <2>1. \A c1, c2 \in CPU : proc'[c1] = proc'[c2] /\ proc'[c1] # NoProc => c1 = c2
    BY <1>1 DEF Exclusive, SchedTypeOK
  <2>2. (Ready \cap Held)' = {} /\ (freed \cap (Ready \cup Held))' = {}
    BY <1>1, <1>2, <1>3 DEF Exclusive
  <2> QED  BY <1>1, <2>1, <2>2 DEF Exclusive, queueVars
<1>6. QuotaKept'
  BY <1>1 DEF QuotaKept, turnVars, slot
<1> QED  BY <1>1, <1>2, <1>3, <1>4, <1>5, <1>6 DEF NoneLost, QueuesFit

\* And so does every step.
LEMMA SchedStepInv == SchedInv /\ [SchedNext]_schedVars => SchedInv'
<1> SUFFICES ASSUME SchedInv, [SchedNext]_schedVars PROVE SchedInv'  OBVIOUS
<1>1. CASE UNCHANGED schedVars
  <2>1. UNCHANGED <<mlq_ready_queue, running_list, cur_prio, used_slot, proc,
                    loaded, freed>>
    BY <1>1 DEF schedVars, queueVars, turnVars
  <2>2. UNCHANGED <<Ready, Held>>
    BY <2>1 DEF Ready, Held
  <2>3. SchedTypeOK' /\ Exclusive'
    BY <2>1, <2>2 DEF SchedInv, SchedTypeOK, Exclusive
  <2> QED  BY <2>1, <2>2, <2>3 DEF SchedInv, QuotaKept, slot, QueuesFit, NoneLost
<1>2. ASSUME NEW p \in Proc, AddProc(p) PROVE SchedInv'
  BY <1>2, AddInv
<1>3. ASSUME NEW c \in CPU, GetProc(c) PROVE SchedInv'
  BY <1>3, GetInv
<1>4. ASSUME NEW c \in CPU, PutProc(c) PROVE SchedInv'
  BY <1>4, PutInv
<1>5. ASSUME NEW c \in CPU, FreeProc(c) PROVE SchedInv'
  BY <1>5, FreeInv
<1> QED  BY <1>1, <1>2, <1>3, <1>4, <1>5 DEF SchedNext

\* The inductive invariant holds in every reachable state.
THEOREM SchedInvariance == SchedSpec => []SchedInv
BY SchedInitInv, SchedStepInv, PTL DEF SchedSpec

\* The variables of Sched always have their types.
THEOREM SchedTypes == SchedSpec => []SchedTypeOK
<1>1. SchedInv => SchedTypeOK
  BY DEF SchedInv
<1> QED  BY SchedInvariance, <1>1, PTL

\* No process is ever in two ready queues, with two CPUs, or ready and running
\* at once, and none comes back once it is freed, whatever the queues' capacity.
THEOREM Exclusion == SchedSpec => []Exclusive
<1>1. SchedInv => Exclusive
  BY DEF SchedInv
<1> QED  BY SchedInvariance, <1>1, PTL

\* If the queues can take the processes of their level, none is ever lost.
THEOREM Conservation == QueuesFit /\ SchedSpec => []NoneLost
<1> SUFFICES ASSUME QueuesFit PROVE SchedSpec => []NoneLost
  OBVIOUS
<1>1. SchedInv => NoneLost
  BY DEF SchedInv
<1> QED  BY SchedInvariance, <1>1, PTL

\* No level is served beyond its quota in a turn.
THEOREM Quota == SchedSpec => []QuotaKept
<1>1. SchedInv => QuotaKept
  BY DEF SchedInv
<1> QED  BY SchedInvariance, <1>1, PTL

-----------------------------------------------------------------------------
(* Sched implements ReadyPool *)

\* Each action of Sched is an action of the pool, or invisible to it.
LEMMA PoolStep ==
  ASSUME QueuesFit, SchedInv, [SchedNext]_schedVars
  PROVE  [Pool!Next]_(Pool!poolVars)
<1> USE DEF SchedInv
<1>1. ASSUME NEW p \in Proc, AddProc(p) PROVE Pool!Add(p)
  <2>1. /\ p \notin loaded
        /\ mlq_ready_queue' = [mlq_ready_queue EXCEPT ![prio[p]] = Enqueue(@, p)]
        /\ UNCHANGED <<proc, freed>>
    BY <1>1 DEF AddProc
  <2>2. p \notin Ready \cup Held \cup freed
    BY <2>1
  <2>3. Ready' = Ready \cup {p}
    BY <2>1, <2>2, ReadyAfterEnqueue
  <2> QED  BY <2>1, <2>2, <2>3 DEF Pool!Add, Pool!Held, Held
<1>2. ASSUME NEW c \in CPU, GetSome(c) PROVE \E p \in Proc : Pool!Take(c, p)
  <2> DEFINE l == LevelAfter(Stop)
             p == Dequeued(mlq_ready_queue[l])
  <2>1. l \in Level /\ mlq_ready_queue[l] # <<>>
    BY <1>2, ScanStops DEF GetSome
  <2>2. /\ mlq_ready_queue' = [mlq_ready_queue EXCEPT ![l] = Dequeue(@)]
        /\ proc[c] = NoProc
        /\ proc' = [proc EXCEPT ![c] = p]
        /\ UNCHANGED freed
    BY <1>2 DEF GetSome
  <2> HIDE DEF l
  <2>3. p \in Proc /\ p \in Ready /\ Ready' = Ready \ {p}
    BY <2>1, <2>2, ReadyAfterDequeue
  <2> HIDE DEF p
  <2>4. Pool!Take(c, p)
    BY <2>2, <2>3 DEF Pool!Take
  <2> QED  BY <2>3, <2>4
<1>3. ASSUME NEW c \in CPU, GetNone(c) PROVE UNCHANGED Pool!poolVars
  BY <1>3 DEF GetNone, queueVars, Ready, Pool!poolVars
<1>4. ASSUME NEW c \in CPU, PutProc(c) PROVE Pool!Return(c)
  <2> DEFINE p == proc[c]
  <2>1. /\ p # NoProc /\ p \in Proc /\ p \in Held
        /\ mlq_ready_queue' = [mlq_ready_queue EXCEPT ![prio[p]] = Enqueue(@, p)]
        /\ proc' = [proc EXCEPT ![c] = NoProc]
        /\ UNCHANGED freed
    BY <1>4 DEF PutProc, SchedTypeOK, Held
  <2>2. p \notin Ready
    BY <2>1 DEF Exclusive
  <2>3. Ready' = Ready \cup {p}
    <3> HIDE DEF p
    <3> QED  BY <2>1, <2>2, ReadyAfterEnqueue
  <2> QED  BY <2>1, <2>3 DEF Pool!Return
<1>5. ASSUME NEW c \in CPU, FreeProc(c) PROVE Pool!Retire(c)
  BY <1>5 DEF FreeProc, queueVars, Ready, Pool!Retire
<1>6. CASE UNCHANGED schedVars
  BY <1>6 DEF schedVars, queueVars, Ready, Pool!poolVars
<1> QED  BY <1>1, <1>2, <1>3, <1>4, <1>5, <1>6 DEF SchedNext, GetProc, Pool!Next

\* If the queues can take the processes of their level, the multi-level queue
\* implements the pool: CPUs take from it and return to it one process each, and
\* what is taken, returned or freed is what was ready or held.
THEOREM Implementation == QueuesFit /\ SchedSpec => PoolSpec
<1> SUFFICES ASSUME QueuesFit PROVE SchedSpec => PoolSpec
  OBVIOUS
<1>1. SchedInit => Pool!Init
  <2> SUFFICES ASSUME SchedInit PROVE Pool!Init  OBVIOUS
  <2>1. \A l \in Level : ToSet(mlq_ready_queue[l]) = {}
    BY DEF SchedInit, ToSet
  <2>2. Ready = {}
    BY <2>1 DEF Ready
  <2> QED  BY <2>2 DEF SchedInit, Pool!Init
<1>2. SchedInv /\ [SchedNext]_schedVars => [Pool!Next]_(Pool!poolVars)
  BY PoolStep
<1> QED  BY <1>1, <1>2, SchedInvariance, PTL DEF SchedSpec, PoolSpec, Pool!Spec
-----------------------------------------------------------------------------
(* How long a level waits *)

\* Twice the quotas of the first n levels.
Twice(n) == n * ((2 * MAX_PRIO - n) + 1)

\* Twice the quotas of the levels the scan leaves between level l and the
\* current one, cyclically.
Passed(l) ==
    IF cur_prio > l THEN Twice(cur_prio) - Twice(l + 1)
    ELSE (Twice(MAX_PRIO) - Twice(l + 1)) + Twice(cur_prio)

\* The inductive invariant of BoundedBypass.  Each call that passes level l over
\* uses up a dispatch of a level between l and the current one, or of that one.
\* The current level itself is passed over at most once, when its quota is
\* used up and the others are empty; that gives it a fresh one.
BypassInv ==
    /\ waited \in [Level -> Nat]
    /\ \A l \in Level \ {cur_prio} : 2 * waited[l] <= Passed(l) + 2 * used_slot
    /\ waited[cur_prio] <= 1
    /\ waited[cur_prio] = 1 => used_slot = 0

\* The quotas of n levels are those of the first n - 1 and that of the last.
LEMMA TwiceNext ==
  ASSUME NEW n \in Level
  PROVE  /\ Twice(n) \in Nat /\ Twice(n + 1) \in Nat
         /\ Twice(n + 1) = Twice(n) + 2 * slot[n]
<1>1. n \in Nat /\ MAX_PRIO \in Nat /\ n < MAX_PRIO /\ slot[n] = MAX_PRIO - n
  BY DEF Level, slot
<1>2. Twice(n) \in Nat
  <2>1. (2 * MAX_PRIO - n) + 1 \in Nat
    BY <1>1
  <2> DEFINE m == (2 * MAX_PRIO - n) + 1
  <2> HIDE DEF m
  <2>2. n * m \in Nat
    BY <1>1, <2>1 DEF m
  <2> QED  BY <2>2 DEF Twice, m
<1>3. Twice(n + 1) = Twice(n) + 2 * slot[n]
  BY <1>1 DEF Twice
<1> QED  BY <1>1, <1>2, <1>3

\* More levels have no smaller quotas.
LEMMA TwiceGrows ==
  ASSUME NEW a \in 0 .. MAX_PRIO, NEW b \in 0 .. MAX_PRIO, a <= b
  PROVE  Twice(a) \in Nat /\ Twice(b) \in Nat /\ Twice(a) <= Twice(b)
<1> DEFINE d == b - a
           m == ((2 * MAX_PRIO - a) - b) + 1
<1>1. d \in Nat /\ m \in Nat /\ a \in Nat /\ b \in Nat /\ MAX_PRIO \in Nat
  OBVIOUS
<1>2. Twice(b) = Twice(a) + d * m
  BY <1>1 DEF Twice
<1>3. \A n \in 0 .. MAX_PRIO : Twice(n) \in Nat
  <2> SUFFICES ASSUME NEW n \in 0 .. MAX_PRIO PROVE Twice(n) \in Nat  OBVIOUS
  <2> DEFINE r == (2 * MAX_PRIO - n) + 1
  <2>1. r \in Nat /\ n \in Nat
    OBVIOUS
  <2>2. Twice(n) = n * r
    BY DEF Twice
  <2> HIDE DEF r
  <2> QED  BY <2>1, <2>2
<1> HIDE DEF d, m
<1>4. d * m \in Nat
  BY <1>1
<1> DEFINE x == d * m
<1>5. Twice(b) = Twice(a) + x /\ x \in Nat
  BY <1>2, <1>4
<1> HIDE DEF x
<1> QED  BY <1>3, <1>5

\* The scan goes through the levels in a circle, each at a place of its own.
LEMMA LevelPlaces ==
  ASSUME cur_prio \in Level
  PROVE  /\ \A k \in Level : LevelAfter(k) =
              IF cur_prio + k < MAX_PRIO THEN cur_prio + k ELSE (cur_prio + k) - MAX_PRIO
         /\ \A l \in Level \ {cur_prio} :
              LET j == IF l > cur_prio THEN l - cur_prio ELSE (l + MAX_PRIO) - cur_prio
              IN j \in Level /\ j # 0 /\ LevelAfter(j) = l
<1>1. \A a \in Nat : a < MAX_PRIO => a % MAX_PRIO = a
  OBVIOUS
<1>2. \A a \in 0 .. MAX_PRIO - 1 : (1 * MAX_PRIO + a) % MAX_PRIO = a
  BY DigitsMade
<1>3. ASSUME NEW k \in Level
      PROVE  LevelAfter(k) =
              IF cur_prio + k < MAX_PRIO THEN cur_prio + k ELSE (cur_prio + k) - MAX_PRIO
  <2>1. cur_prio \in Nat /\ k \in Nat /\ cur_prio < MAX_PRIO /\ k < MAX_PRIO
    BY DEF Level
  <2>2. CASE cur_prio + k < MAX_PRIO
    BY <1>1, <2>1, <2>2 DEF LevelAfter
  <2>3. CASE ~(cur_prio + k < MAX_PRIO)
    <3> DEFINE a == (cur_prio + k) - MAX_PRIO
    <3>1. a \in 0 .. MAX_PRIO - 1 /\ 1 * MAX_PRIO + a = cur_prio + k
      BY <2>1, <2>3
    <3>2. (1 * MAX_PRIO + a) % MAX_PRIO = a
      BY <1>2, <3>1
    <3> QED  BY <2>3, <3>1, <3>2 DEF LevelAfter
  <2> QED  BY <2>2, <2>3
<1>4. ASSUME NEW l \in Level \ {cur_prio}
      PROVE  LET j == IF l > cur_prio THEN l - cur_prio ELSE (l + MAX_PRIO) - cur_prio
             IN j \in Level /\ j # 0 /\ LevelAfter(j) = l
  <2> DEFINE j == IF l > cur_prio THEN l - cur_prio ELSE (l + MAX_PRIO) - cur_prio
  <2>1. j \in Level /\ j # 0
    BY DEF Level
  <2>2. LevelAfter(j) =
          IF cur_prio + j < MAX_PRIO THEN cur_prio + j ELSE (cur_prio + j) - MAX_PRIO
    BY <1>3, <2>1
  <2>3. (IF cur_prio + j < MAX_PRIO THEN cur_prio + j ELSE (cur_prio + j) - MAX_PRIO) = l
    BY DEF Level
  <2> QED  BY <2>1, <2>2, <2>3
<1> QED  BY <1>3, <1>4

\* A level of its own is between any level and the current one, and so are the
\* current one once the scan has moved on and those it skipped.
LEMMA PassedFacts ==
  ASSUME SchedTypeOK
  PROVE  /\ \A l \in Level : Passed(l) \in Nat
         /\ \A k \in Level, l \in Level :
              /\ k # 0
              /\ l # cur_prio /\ l # LevelAfter(k)
              /\ k < (IF l > cur_prio THEN l - cur_prio ELSE (l + MAX_PRIO) - cur_prio)
              /\ cur_prio' = LevelAfter(k)
              => Passed(l)' >= Passed(l) + 2 * slot[cur_prio]
<1>1. cur_prio \in Level /\ \A l \in Level : l + 1 \in 0 .. MAX_PRIO /\ l \in 0 .. MAX_PRIO
  BY DEF SchedTypeOK, Level
<1>2. ASSUME NEW l \in Level PROVE Passed(l) \in Nat
  <2>1. Twice(l + 1) \in Nat /\ Twice(MAX_PRIO) \in Nat /\ Twice(l + 1) <= Twice(MAX_PRIO)
        /\ Twice(cur_prio) \in Nat
    BY <1>1, TwiceGrows DEF Level
  <2>2. cur_prio > l => Twice(l + 1) <= Twice(cur_prio)
    BY <1>1, TwiceGrows DEF Level
  <2> QED  BY <2>1, <2>2 DEF Passed
<1>3. ASSUME NEW k \in Level, NEW l \in Level, k # 0,
             l # cur_prio, l # LevelAfter(k),
             k < (IF l > cur_prio THEN l - cur_prio ELSE (l + MAX_PRIO) - cur_prio),
             cur_prio' = LevelAfter(k)
      PROVE  Passed(l)' >= Passed(l) + 2 * slot[cur_prio]
  <2> DEFINE new == LevelAfter(k)
  <2>1. new = IF cur_prio + k < MAX_PRIO THEN cur_prio + k ELSE (cur_prio + k) - MAX_PRIO
    BY <1>1, LevelPlaces
  <2>2. new \in Level
    BY <1>1, <2>1 DEF Level
  <2>3. Passed(l)' = IF new > l THEN Twice(new) - Twice(l + 1)
                     ELSE (Twice(MAX_PRIO) - Twice(l + 1)) + Twice(new)
    BY <1>3 DEF Passed, Twice
  <2> HIDE DEF new
  <2>4. slot[cur_prio] \in Nat /\ Twice(cur_prio + 1) = Twice(cur_prio) + 2 * slot[cur_prio]
    BY <1>1, TwiceNext DEF slot, Level
  <2>5. /\ Twice(l + 1) \in Nat /\ Twice(cur_prio) \in Nat /\ Twice(new) \in Nat
        /\ Twice(MAX_PRIO) \in Nat /\ Twice(cur_prio + 1) <= Twice(MAX_PRIO)
        /\ Twice(cur_prio + 1) \in Nat
    BY <1>1, <2>2, TwiceGrows DEF Level
  <2>6. CASE new > cur_prio
    <3>1. Twice(cur_prio + 1) <= Twice(new)
      BY <1>1, <2>2, <2>6, TwiceGrows DEF Level
    <3>2. (new > l) = (cur_prio > l)
      BY <1>1, <1>3, <2>1, <2>2, <2>6 DEF Level
    <3> QED  BY <2>3, <2>4, <2>5, <3>1, <3>2 DEF Passed
  <2>7. CASE ~(new > cur_prio)
    <3>1. cur_prio > l /\ ~(new > l)
      BY <1>1, <1>3, <2>1, <2>2, <2>7 DEF Level
    <3> QED  BY <2>3, <2>4, <2>5, <3>1 DEF Passed
  <2> QED  BY <2>6, <2>7
<1> QED  BY <1>2, <1>3

\* The scan stops at the first place it can.
LEMMA StopFirst ==
  ASSUME Stops # {}
  PROVE  \A j \in Stops : Stop <= j
<1>1. Stops \in SUBSET Nat
  BY DEF Stops, Level
<1>2. \E k \in Stops : \A j \in Stops : k <= j
  BY <1>1, NatMinimum
<1> QED  BY <1>2 DEF Stop

\* get_proc preserves it when it returns NULL: the other levels are empty.
LEMMA BypassNone ==
  ASSUME SchedInv, BypassInv, NEW c \in CPU, GetNone(c), Pass
  PROVE  BypassInv'
<1>1. /\ cur_prio \in Level /\ used_slot \in Nat
      /\ Stops = {} /\ used_slot' = 0
      /\ UNCHANGED <<mlq_ready_queue, cur_prio>>
  BY DEF SchedInv, SchedTypeOK, GetNone, queueVars
<1>2. waited' = [l \in Level |-> IF Nonempty(l) THEN waited[l] + 1 ELSE 0]
  BY <1>1 DEF Pass, ServedLevel
<1>3. \A k \in Level : ~Servable(k)
  BY <1>1 DEF Stops
<1>4. ASSUME NEW l \in Level \ {cur_prio}
      PROVE  waited'[l] = 0
  <2>1. PICK j \in Level : j # 0 /\ LevelAfter(j) = l
    BY <1>1, <1>4, LevelPlaces
  <2>2. ~Nonempty(l)
    BY <1>3, <2>1 DEF Servable, Nonempty
  <2> QED  BY <1>2, <2>2
<1>5. waited'[cur_prio] <= 1 /\ waited' \in [Level -> Nat]
  <2>1. CASE Nonempty(cur_prio)
    <3>1. 0 \in Level /\ LevelAfter(0) = cur_prio
      BY <1>1, NoShift DEF Level
    <3>2. used_slot >= slot[cur_prio] /\ slot[cur_prio] >= 1
      BY <1>1, <1>3, <2>1, <3>1 DEF Servable, Nonempty, slot, Level
    <3>3. waited[cur_prio] = 0
      BY <1>1, <3>2 DEF BypassInv, slot, Level
    <3> QED  BY <1>1, <1>2, <3>3 DEF BypassInv
  <2>2. CASE ~Nonempty(cur_prio)
    BY <1>1, <1>2, <2>2 DEF BypassInv
  <2> QED  BY <2>1, <2>2
<1>6. \A l \in Level : Passed(l)' \in Nat
  <2>1. \A l \in Level : Passed(l)' = Passed(l)
    BY <1>1 DEF Passed, Twice
  <2> QED  BY <2>1, PassedFacts DEF SchedInv
<1> QED  BY <1>1, <1>4, <1>5, <1>6 DEF BypassInv

\* And when it returns a process: a level that is passed over pays with a
\* dispatch of the current one, or with all that is left of its turn.
LEMMA BypassSome ==
  ASSUME SchedInv, BypassInv, NEW c \in CPU, GetSome(c), Pass
  PROVE  BypassInv'
<1> DEFINE new == LevelAfter(Stop)
<1>1. /\ cur_prio \in Level /\ used_slot \in Nat /\ SchedTypeOK
      /\ Stops # {} /\ cur_prio' = new
      /\ used_slot' = IF Stop = 0 THEN used_slot + 1 ELSE 1
  BY DEF SchedInv, SchedTypeOK, GetSome
<1>2. Stop \in Level /\ Servable(Stop) /\ new \in Level
  BY <1>1, ScanStops
<1>3. waited' = [l \in Level |-> IF Nonempty(l) /\ l # new THEN waited[l] + 1 ELSE 0]
  BY <1>1 DEF Pass, ServedLevel
<1>4. waited' \in [Level -> Nat]
  BY <1>3 DEF BypassInv
<1>5. waited'[new] = 0
  BY <1>2, <1>3
<1>6. \A l \in Level : slot[l] \in Nat /\ slot[l] >= 1
  BY DEF slot, Level
<1>7. \A l \in Level : Passed(l) \in Nat
  BY <1>1, PassedFacts
<1>8. \A l \in Level : Passed(l)' \in Nat
  <2>1. ASSUME NEW l \in Level PROVE Passed(l)' \in Nat
    <3>1. l + 1 \in 0 .. MAX_PRIO /\ new \in 0 .. MAX_PRIO /\ MAX_PRIO \in 0 .. MAX_PRIO
      BY <1>2 DEF Level
    <3>2. Twice(new) \in Nat /\ Twice(l + 1) \in Nat /\ Twice(MAX_PRIO) \in Nat
          /\ Twice(l + 1) <= Twice(MAX_PRIO)
      BY <3>1, TwiceGrows
    <3>3. new > l => Twice(l + 1) <= Twice(new)
      BY <1>2, <3>1, TwiceGrows DEF Level
    <3>4. Passed(l)' = IF new > l THEN Twice(new) - Twice(l + 1)
                       ELSE (Twice(MAX_PRIO) - Twice(l + 1)) + Twice(new)
      BY <1>1 DEF Passed, Twice
    <3> QED  BY <3>2, <3>3, <3>4
  <2> QED  BY <2>1
<1>9. ASSUME NEW l \in Level \ {new}
      PROVE  2 * waited'[l] <= Passed(l)' + 2 * used_slot'
  <2>1. CASE ~Nonempty(l)
    <3>1. waited'[l] = 0 /\ used_slot' \in Nat
      BY <1>1, <1>3, <2>1
    <3> QED  BY <1>8, <3>1
  <2>2. CASE Nonempty(l) /\ Stop = 0
    <3>1. new = cur_prio
      BY <1>1, <2>2, NoShift
    <3>2. Passed(l)' = Passed(l) /\ used_slot' = used_slot + 1
      BY <1>1, <2>2, <3>1 DEF Passed, Twice
    <3>3. waited'[l] = waited[l] + 1 /\ waited[l] \in Nat
      BY <1>3, <1>9, <2>2 DEF BypassInv
    <3>4. 2 * waited[l] <= Passed(l) + 2 * used_slot
      BY <1>9, <3>1 DEF BypassInv
    <3> HIDE DEF new
    <3> QED  BY <1>1, <1>7, <3>2, <3>3, <3>4
  <2>3. CASE Nonempty(l) /\ Stop # 0 /\ l = cur_prio
    <3>1. 0 \in Level /\ LevelAfter(0) = cur_prio /\ ~Servable(0)
      <4>1. 0 \in Level /\ LevelAfter(0) = cur_prio
        BY <1>1, NoShift DEF Level
      <4>2. \A j \in Stops : Stop <= j
        BY <1>1, StopFirst
      <4> QED  BY <1>2, <2>3, <4>1, <4>2 DEF Stops, Level
    <3>2. used_slot >= slot[cur_prio] /\ slot[cur_prio] >= 1
      BY <1>1, <1>6, <2>3, <3>1 DEF Servable, Nonempty
    <3>3. waited[cur_prio] = 0
      BY <1>1, <1>6, <3>2 DEF BypassInv
    <3>4. waited'[l] = 1 /\ used_slot' = 1
      BY <1>1, <1>3, <1>9, <2>3, <3>3
    <3> QED  BY <1>8, <3>4
  <2>4. CASE Nonempty(l) /\ Stop # 0 /\ l # cur_prio
    <3> DEFINE j == IF l > cur_prio THEN l - cur_prio ELSE (l + MAX_PRIO) - cur_prio
    <3>1. j \in Level /\ j # 0 /\ LevelAfter(j) = l
      BY <1>1, <2>4, LevelPlaces
    <3>2. Servable(j)
      BY <2>4, <3>1 DEF Servable, Nonempty
    <3>3. Stop <= j
      BY <1>1, <3>1, <3>2, StopFirst DEF Stops
    <3>4. Stop < j
      BY <1>2, <1>9, <3>1, <3>3 DEF Level
    <3>5. Passed(l)' >= Passed(l) + 2 * slot[cur_prio]
      BY <1>1, <1>2, <1>9, <2>4, <3>4, PassedFacts
    <3>6. used_slot <= slot[cur_prio] /\ used_slot' = 1
      BY <1>1, <2>4 DEF SchedInv, QuotaKept
    <3>7. waited'[l] = waited[l] + 1 /\ waited[l] \in Nat
          /\ 2 * waited[l] <= Passed(l) + 2 * used_slot
      BY <1>3, <1>9, <2>4 DEF BypassInv
    <3> HIDE DEF new
    <3> QED  BY <1>1, <1>6, <1>7, <1>8, <3>5, <3>6, <3>7
  <2> QED  BY <2>1, <2>2, <2>3, <2>4
<1> QED  BY <1>1, <1>4, <1>5, <1>9 DEF BypassInv

\* The inductive invariant holds in every reachable state.
THEOREM BypassInvariance == HSpec => [](SchedInv /\ BypassInv)
<1>1. HInit => SchedInv /\ BypassInv
  <2> SUFFICES ASSUME HInit PROVE SchedInv /\ BypassInv  OBVIOUS
  <2>1. SchedInv
    BY SchedInitInv DEF HInit
  <2>2. \A l \in Level : Passed(l) \in Nat
    BY <2>1, PassedFacts DEF SchedInv
  <2> QED  BY <2>1, <2>2 DEF HInit, SchedInit, BypassInv, SchedInv, SchedTypeOK
<1>2. SchedInv /\ BypassInv /\ [HNext]_<<schedVars, waited>> => (SchedInv /\ BypassInv)'
  <2> SUFFICES ASSUME SchedInv, BypassInv, [HNext]_<<schedVars, waited>>
               PROVE  SchedInv' /\ BypassInv'
    OBVIOUS
  <2>1. ASSUME cur_prio' = cur_prio, used_slot' = used_slot, waited' = waited
        PROVE  BypassInv'
    <3>1. \A l \in Level : Passed(l)' = Passed(l)
      BY <2>1 DEF Passed, Twice
    <3> QED  BY <2>1, <3>1 DEF BypassInv
  <2>2. SchedInv'
    <3>1. CASE UNCHANGED schedVars
      BY <3>1, SchedStepInv
    <3>2. CASE HNext
      BY <3>2, SchedStepInv DEF HNext, SchedNext
    <3> QED  BY <3>1, <3>2
  <2>3. ASSUME NEW c \in CPU, GetProc(c), Pass PROVE BypassInv'
    BY <2>3, BypassNone, BypassSome DEF GetProc
  <2>4. ASSUME NEW c \in CPU, PutProc(c) \/ FreeProc(c), UNCHANGED waited PROVE BypassInv'
    BY <2>1, <2>4 DEF PutProc, FreeProc, turnVars
  <2>5. ASSUME NEW p \in Proc, AddProc(p), UNCHANGED waited PROVE BypassInv'
    BY <2>1, <2>5 DEF AddProc, turnVars
  <2>6. CASE UNCHANGED <<schedVars, waited>>
    BY <2>1, <2>2, <2>6 DEF schedVars, turnVars
  <2> QED  BY <2>2, <2>3, <2>4, <2>5, <2>6 DEF HNext
<1> QED  BY <1>1, <1>2, PTL DEF HSpec

\* No level with a ready process is passed over more often than the quotas of
\* the other levels allow, whatever the CPUs and the loader do.  With one level
\* only it could be passed over once, by a call that returns NULL.
THEOREM BoundedBypassAlways == ASSUME MAX_PRIO > 1 PROVE HSpec => []BoundedBypass
<1>1. SchedInv /\ BypassInv => BoundedBypass
  <2> SUFFICES ASSUME SchedInv, BypassInv, NEW l \in Level
               PROVE  waited[l] <= AllQuotas - slot[l]
    BY DEF BoundedBypass
  <2>1. cur_prio \in Level /\ used_slot \in Nat /\ used_slot <= slot[cur_prio]
        /\ waited[l] \in Nat /\ slot[l] \in Nat /\ slot[cur_prio] \in Nat
        /\ slot[l] <= MAX_PRIO
    BY DEF SchedInv, SchedTypeOK, QuotaKept, BypassInv, slot, Level
  <2>2. Twice(MAX_PRIO) = MAX_PRIO * (MAX_PRIO + 1)
    BY DEF Twice
  <2>3. Twice(MAX_PRIO) \in Nat
    BY TwiceGrows
  <2>4. 2 * (waited[l] + slot[l]) <= Twice(MAX_PRIO)
    <3>1. CASE l = cur_prio
      <4>1. waited[l] <= 1
        BY <3>1 DEF BypassInv
      <4>2. MAX_PRIO * (MAX_PRIO + 1) >= 2 * MAX_PRIO + 2
        <5>1. PICK k \in Nat : MAX_PRIO = k + 2
          BY SMT
        <5>2. MAX_PRIO * (MAX_PRIO + 1) = (k * k + 5 * k) + 6 /\ k * k \in Nat
          BY <5>1
        <5> QED  BY <5>1, <5>2
      <4> QED  BY <2>1, <2>2, <4>1, <4>2
    <3>2. CASE l # cur_prio
      <4>1. 2 * waited[l] <= Passed(l) + 2 * slot[cur_prio]
        BY <2>1, <3>2, PassedFacts DEF BypassInv, SchedInv
      <4>2. /\ Twice(cur_prio + 1) = Twice(cur_prio) + 2 * slot[cur_prio]
            /\ Twice(l + 1) = Twice(l) + 2 * slot[l]
            /\ Twice(l) \in Nat /\ Twice(l + 1) \in Nat
            /\ Twice(cur_prio) \in Nat /\ Twice(cur_prio + 1) \in Nat
        BY <2>1, TwiceNext
      <4>3. Twice(cur_prio + 1) <= Twice(MAX_PRIO)
            /\ (l > cur_prio => Twice(cur_prio + 1) <= Twice(l))
        BY <2>1, TwiceGrows DEF Level
      <4>4. CASE cur_prio > l
        BY <2>1, <2>3, <4>1, <4>2, <4>3, <4>4 DEF Passed
      <4>5. CASE l > cur_prio
        BY <2>1, <2>3, <4>1, <4>2, <4>3, <4>5 DEF Passed, Level
      <4> QED  BY <2>1, <3>2, <4>4, <4>5 DEF Level
    <3> QED  BY <3>1, <3>2
  <2> DEFINE t == Twice(MAX_PRIO)
  <2>5. AllQuotas = t \div 2
    BY <2>2 DEF AllQuotas
  <2> HIDE DEF t
  <2> QED  BY <2>1, <2>3, <2>4, <2>5 DEF t
<1> QED  BY <1>1, BypassInvariance, PTL
-----------------------------------------------------------------------------
(* The loops *)

\* dequeue's search is a recursion that exists, and has a value for every prefix
\* of the queue.
LEMMA SearchExists ==
  ASSUME NEW q \in Seq(Proc), q # <<>>
  PROVE  \E best \in [1 .. Len(q) -> Nat] :
           /\ BestIndex(q) = best[Len(q)]
           /\ \A i \in 1 .. Len(q) : best[i] =
                IF i = 1 THEN 1
                ELSE IF priority[q[i]] < priority[q[best[i - 1]]] THEN i ELSE best[i - 1]
<1> DEFINE n == Len(q)
           Better(i, b) == IF priority[q[i]] < priority[q[b]] THEN i ELSE b
           Step == [k \in Nat |-> [b \in Nat |-> Better(k + 1, b)]]
           last == n - 1
<1>1. n \in Nat /\ n > 0 /\ DOMAIN q = 1 .. n
  BY EmptySeq, LenProperties
<1>2. Step \in [Nat -> [Nat -> Nat]] /\ last \in Nat /\ 1 \in Nat
  BY <1>1
<1>3. \A k \in Nat : \A b \in Nat : Step[k][b] = Better(k + 1, b)
  OBVIOUS
<1> HIDE DEF Step, Better, last, n
<1>4. PICK f \in [0 .. last -> Nat] : Stepwise(f, 1, Step, last)
  BY <1>2, StepwiseExists
<1> DEFINE g == [i \in 1 .. n |-> f[i - 1]]
<1>5. g[1] = 1 /\ g \in [1 .. n -> Nat]
  BY <1>1, <1>4 DEF Stepwise, last
<1>6. ASSUME NEW i \in 1 .. n, i # 1
      PROVE  g[i] = Better(i, g[i - 1])
  <2>1. /\ i - 1 \in 1 .. last /\ i - 1 \in 1 .. n /\ (i - 1) + 1 = i /\ i - 1 \in Nat
        /\ (i - 1) - 1 \in 0 .. last
    BY <1>1, <1>6 DEF last
  <2>2. f[i - 1] = Step[i - 1][f[(i - 1) - 1]]
    BY <1>4, <2>1 DEF Stepwise
  <2>3. g[i] = f[i - 1] /\ g[i - 1] = f[(i - 1) - 1] /\ f[(i - 1) - 1] \in Nat
    BY <1>4, <2>1
  <2> HIDE DEF g
  <2>4. Step[i - 1][g[i - 1]] = Better((i - 1) + 1, g[i - 1])
    BY <1>3, <2>1, <2>3
  <2> QED  BY <2>1, <2>2, <2>3, <2>4
<1> DEFINE Solves(h) == h = [i \in 1 .. Len(q) |->
             IF i = 1 THEN 1
             ELSE IF priority[q[i]] < priority[q[h[i - 1]]] THEN i ELSE h[i - 1]]
<1>7. Solves(g)
  <2>1. g = [i \in 1 .. n |-> g[i]]
    BY <1>5
  <2> HIDE DEF g
  <2> QED  BY <1>5, <1>6, <2>1 DEF Better, n
<1>8. BestIndex(q) = (CHOOSE h : Solves(h))[Len(q)]
  BY DEF BestIndex
<1> DEFINE best == CHOOSE h : Solves(h)
<1>9. Solves(best)
  <2> HIDE DEF Solves
  <2> QED  BY <1>7
<1> HIDE DEF best, g
<1>10. \A i \in 1 .. n : best[i] =
                IF i = 1 THEN 1
                ELSE IF priority[q[i]] < priority[q[best[i - 1]]] THEN i ELSE best[i - 1]
  BY <1>9 DEF n
<1>11. best \in [1 .. n -> Nat]
  <2>1. best = [i \in 1 .. n |-> best[i]]
    BY <1>9 DEF n
  <2> DEFINE T == {k \in Nat : k \in 1 .. n => best[k] \in Nat}
  <2>2. \A k \in 0 .. n - 1 : k \in T => k + 1 \in T
    <3> SUFFICES ASSUME NEW k \in 0 .. n - 1, k \in T
                 PROVE  best[k + 1] \in Nat
      BY <1>1
    <3>1. k + 1 \in 1 .. n /\ (k + 1) - 1 = k /\ (k + 1 = 1 \/ k \in 1 .. n) /\ k + 1 \in Nat
      BY <1>1
    <3>2. k + 1 = 1 \/ best[k] \in Nat
      BY <3>1
    <3> QED  BY <1>10, <3>1, <3>2
  <2>3. 0 \in T
    OBVIOUS
  <2> HIDE DEF T
  <2>4. 0 .. n \subseteq T
    BY <1>1, <2>2, <2>3, UpTo
  <2>5. \A k \in 1 .. n : best[k] \in Nat
    BY <1>1, <2>4 DEF T
  <2> QED  BY <2>1, <2>5
<1> QED  BY <1>8, <1>10, <1>11 DEF best, n

\* dequeue's search ends at the entry that Queue chooses.
LEMMA SearchFinds ==
  ASSUME NEW q \in Seq(Proc), q # <<>>
  PROVE  BestIndex(q) = Best(q) /\ Best(q) \in DOMAIN q
<1> DEFINE n == Len(q)
           at(i) == priority[q[i]]
           First(b, k) == /\ b \in 1 .. k
                          /\ \A j \in 1 .. k : at(b) <= at(j) /\ (j < b => at(b) < at(j))
<1>1. n \in Nat /\ n > 0 /\ DOMAIN q = 1 .. n
  BY EmptySeq, LenProperties
<1>2. \A i \in 1 .. n : at(i) \in Nat
  BY <1>1, ElementOfSeq, PriorityAssumption
<1> HIDE DEF n, at
<1>3. PICK best \in [1 .. n -> Nat] :
        /\ BestIndex(q) = best[n]
        /\ \A i \in 1 .. n : best[i] =
             IF i = 1 THEN 1 ELSE IF at(i) < at(best[i - 1]) THEN i ELSE best[i - 1]
  BY SearchExists DEF n, at
<1> DEFINE T == {k \in Nat : k \in 1 .. n => First(best[k], k)}
<1>4. ASSUME NEW k \in 0 .. n - 1, k \in T
      PROVE  k + 1 \in T
  <2>1. k + 1 \in 1 .. n /\ (k + 1) - 1 = k /\ k \in Nat
    BY <1>1
  <2>2. CASE k = 0
    BY <1>2, <1>3, <2>1, <2>2
  <2>3. CASE k # 0
    <3> DEFINE b == best[k]
    <3>1. k \in 1 .. n /\ First(b, k)
      <4>1. k \in 1 .. n
        BY <1>1, <2>1, <2>3
      <4> HIDE DEF First
      <4> QED  BY <1>4, <4>1
    <3>2. best[k + 1] = IF at(k + 1) < at(b) THEN k + 1 ELSE b
      BY <1>3, <2>1, <2>3
    <3> HIDE DEF b
    <3>3. \A j \in 1 .. k + 1 : j = k + 1 \/ j \in 1 .. k
      BY <2>1
    <3>4. \A j \in 1 .. k + 1 : at(j) \in Nat
      BY <1>1, <1>2, <2>1
    <3>5. at(b) \in Nat /\ b \in 1 .. k
      BY <3>1, <3>4
    <3>6. CASE at(k + 1) < at(b)
      <4>1. First(k + 1, k + 1)
        BY <2>1, <3>1, <3>3, <3>4, <3>5, <3>6
      <4> HIDE DEF First
      <4> QED  BY <2>1, <3>2, <3>6, <4>1
    <3>7. CASE ~(at(k + 1) < at(b))
      <4>1. First(b, k + 1)
        BY <2>1, <3>1, <3>3, <3>4, <3>5, <3>7
      <4> HIDE DEF First
      <4> QED  BY <2>1, <3>2, <3>7, <4>1
    <3> QED  BY <3>6, <3>7
  <2> QED  BY <2>2, <2>3
<1>5. First(best[n], n)
  <2>1. 0 \in T
    OBVIOUS
  <2> HIDE DEF T
  <2>2. 0 .. n \subseteq T
    BY <1>1, <1>4, <2>1, UpTo
  <2>3. n \in T /\ n \in 1 .. n
    BY <1>1, <2>2
  <2> HIDE DEF First
  <2> QED  BY <2>3 DEF T
<1>6. Best(q) = CHOOSE b \in DOMAIN q : \A j \in DOMAIN q :
                  at(b) <= at(j) /\ (j < b => at(b) < at(j))
  BY DEF Best, at
<1>7. First(Best(q), n)
  BY <1>1, <1>5, <1>6
<1>8. Best(q) = best[n]
  <2>1. \A b \in 1 .. n, c \in 1 .. n : First(b, n) /\ First(c, n) => b = c
    BY <1>2
  <2> HIDE DEF First
  <2>2. best[n] \in 1 .. n /\ Best(q) \in 1 .. n
    BY <1>5, <1>7 DEF First
  <2> QED  BY <1>5, <1>7, <2>1, <2>2
<1> QED  BY <1>1, <1>3, <1>7, <1>8

\* And its shift leaves what Queue says.
LEMMA ShiftRemoves ==
  ASSUME NEW q \in Seq(Proc), NEW b \in DOMAIN q
  PROVE  RemoveAt(q, b) = Shifted(q, b)
<1> DEFINE r == RemoveAt(q, b)
           n == Len(q) - 1
<1>1. Len(q) \in Nat /\ DOMAIN q = 1 .. Len(q)
  BY LenProperties
<1>2. r \in Seq(Proc) /\ Len(r) = n /\ \A j \in 1 .. n : r[j] = IF j < b THEN q[j] ELSE q[j + 1]
  BY RemoveAtEntries
<1>3. r \in [1 .. n -> Proc]
  <2> HIDE DEF r
  <2> QED  BY <1>2, LenProperties
<1> HIDE DEF r
<1>4. r = [j \in 1 .. n |-> r[j]]
  BY <1>3
<1>5. r = [j \in 1 .. n |-> IF j < b THEN q[j] ELSE q[j + 1]]
  BY <1>2, <1>4
<1> QED  BY <1>5 DEF Shifted, r

\* The loop of get_mlq_proc does one step after another.
LEMMA ScanExists ==
  ASSUME SchedTypeOK
  PROVE  /\ Scan[0] = [cur |-> cur_prio, used |-> used_slot, found |-> FALSE]
         /\ \A n \in 1 .. MAX_PRIO : Scan[n] = ScanStep(Scan[n - 1])
<1> DEFINE S == [cur : Level, used : Nat, found : BOOLEAN]
           start == [cur |-> cur_prio, used |-> used_slot, found |-> FALSE]
           Step == [k \in Nat |-> [s \in S |-> ScanStep(s)]]
<1>1. start \in S
  BY DEF SchedTypeOK
<1>2. \A s \in S : ScanStep(s) \in S
  <2> SUFFICES ASSUME NEW s \in S PROVE ScanStep(s) \in S  OBVIOUS
  <2>1. s.cur \in Level /\ s.used \in Nat /\ s.used + 1 \in Nat
    OBVIOUS
  <2>2. (s.cur + 1) % MAX_PRIO \in Level
    BY <2>1 DEF Level
  <2> QED  BY <2>1, <2>2 DEF ScanStep
<1>3. Step \in [Nat -> [S -> S]] /\ \A k \in Nat : \A s \in S : Step[k][s] = ScanStep(s)
  BY <1>2
<1> HIDE DEF S, start, Step
<1>4. PICK f \in [0 .. MAX_PRIO -> S] : Stepwise(f, start, Step, MAX_PRIO)
  BY <1>1, <1>3, StepwiseExists
<1> DEFINE Solves(h) == h = [n \in 0 .. MAX_PRIO |->
             IF n = 0 THEN [cur |-> cur_prio, used |-> used_slot, found |-> FALSE]
             ELSE ScanStep(h[n - 1])]
<1>5. Solves(f)
  <2>1. f = [n \in 0 .. MAX_PRIO |-> f[n]]
    BY <1>4
  <2>2. f[0] = [cur |-> cur_prio, used |-> used_slot, found |-> FALSE]
    BY <1>4 DEF Stepwise, start
  <2>3. ASSUME NEW n \in 0 .. MAX_PRIO, n # 0
        PROVE  f[n] = ScanStep(f[n - 1])
    <3>1. n \in 1 .. MAX_PRIO /\ n \in Nat /\ n - 1 \in 0 .. MAX_PRIO
      BY <2>3
    <3>2. f[n] = Step[n][f[n - 1]] /\ f[n - 1] \in S
      BY <1>4, <3>1 DEF Stepwise
    <3> QED  BY <1>3, <3>1, <3>2
  <2> QED  BY <2>1, <2>2, <2>3
<1>6. Scan = CHOOSE h : Solves(h)
  BY DEF Scan
<1>7. Solves(Scan)
  <2> HIDE DEF Solves
  <2> QED  BY <1>5, <1>6
<1>8. \A n \in 0 .. MAX_PRIO : Scan[n] =
        IF n = 0 THEN [cur |-> cur_prio, used |-> used_slot, found |-> FALSE]
        ELSE ScanStep(Scan[n - 1])
  BY <1>7, Zenon
<1>9. 0 \in 0 .. MAX_PRIO /\ \A n \in 1 .. MAX_PRIO : n \in 0 .. MAX_PRIO /\ n # 0
  OBVIOUS
<1> QED  BY <1>8, <1>9, Zenon

\* After MAX_PRIO levels the loop is back where it started.
LEMMA LevelRound == cur_prio \in Level => LevelAfter(MAX_PRIO) = cur_prio
<1> SUFFICES ASSUME cur_prio \in Level PROVE LevelAfter(MAX_PRIO) = cur_prio  OBVIOUS
<1>1. cur_prio \in 0 .. MAX_PRIO - 1 /\ 1 * MAX_PRIO + cur_prio = cur_prio + MAX_PRIO
  BY DEF Level
<1>2. (1 * MAX_PRIO + cur_prio) % MAX_PRIO = cur_prio
  BY <1>1, DigitsMade
<1> QED  BY <1>1, <1>2 DEF LevelAfter

\* The next level is the one after.
LEMMA LevelNext ==
  ASSUME cur_prio \in Level, NEW m \in Level
  PROVE  (LevelAfter(m) + 1) % MAX_PRIO = LevelAfter(m + 1)
<1>1. /\ cur_prio \in Nat /\ m \in Nat /\ cur_prio < MAX_PRIO /\ m < MAX_PRIO
      /\ MAX_PRIO \in Nat
  BY DEF Level
<1>2. LevelAfter(m) = IF cur_prio + m < MAX_PRIO THEN cur_prio + m ELSE (cur_prio + m) - MAX_PRIO
  BY LevelPlaces
<1>3. \A a \in 0 .. MAX_PRIO - 1 :
        (0 * MAX_PRIO + a) % MAX_PRIO = a /\ (1 * MAX_PRIO + a) % MAX_PRIO = a
  BY DigitsMade
<1>4. (0 * MAX_PRIO + 0) % MAX_PRIO = 0 /\ (1 * MAX_PRIO + 0) % MAX_PRIO = 0
  BY <1>1, <1>3
<1>5. CASE cur_prio + m < MAX_PRIO
  BY <1>1, <1>2, <1>5 DEF LevelAfter
<1>6. CASE ~(cur_prio + m < MAX_PRIO)
  <2> DEFINE a == ((cur_prio + m) - MAX_PRIO) + 1
  <2>1. a \in 0 .. MAX_PRIO - 1 /\ LevelAfter(m) + 1 = 0 * MAX_PRIO + a
        /\ cur_prio + (m + 1) = 1 * MAX_PRIO + a
    BY <1>1, <1>2, <1>6
  <2> HIDE DEF a
  <2>2. (0 * MAX_PRIO + a) % MAX_PRIO = (1 * MAX_PRIO + a) % MAX_PRIO
    BY <1>3, <2>1
  <2> QED  BY <2>1, <2>2 DEF LevelAfter
<1> QED  BY <1>5, <1>6

\* What the loop has done after n iterations: it has passed n levels that were not
\* servable, or found the first that is.
LEMMA ScanStates ==
  ASSUME SchedTypeOK, NEW n \in 0 .. MAX_PRIO
  PROVE  LET s == Scan[n] IN
         \/ /\ ~s.found /\ \A k \in 0 .. n - 1 : ~Servable(k)
            /\ s.cur = LevelAfter(n) /\ s.used = IF n = 0 THEN used_slot ELSE 0
         \/ /\ s.found /\ s.cur = LevelAfter(Stop)
            /\ s.used = IF Stop = 0 THEN used_slot + 1 ELSE 1
            /\ Stops # {}
<1> DEFINE Passing(m) == /\ ~Scan[m].found /\ \A k \in 0 .. m - 1 : ~Servable(k)
                         /\ Scan[m].cur = LevelAfter(m)
                         /\ Scan[m].used = IF m = 0 THEN used_slot ELSE 0
           Found(m) == /\ Scan[m].found /\ Scan[m].cur = LevelAfter(Stop)
                       /\ Scan[m].used = IF Stop = 0 THEN used_slot + 1 ELSE 1
                       /\ Stops # {}
           T == {m \in Nat : Passing(m) \/ Found(m)}
<1>1. cur_prio \in Level /\ used_slot \in Nat /\ LevelAfter(0) = cur_prio
  BY NoShift DEF SchedTypeOK
<1>2. 0 \in T
  BY <1>1, ScanExists
<1>3. ASSUME NEW m \in 0 .. MAX_PRIO - 1, m \in T
      PROVE  m + 1 \in T
  <2>1. m + 1 \in 1 .. MAX_PRIO /\ (m + 1) - 1 = m /\ m \in Level /\ m + 1 \in Nat /\ m \in Nat
    BY DEF Level
  <2>2. Scan[m + 1] = ScanStep(Scan[m])
    BY <2>1, ScanExists
  <2>3. CASE Found(m)
    BY <2>1, <2>2, <2>3 DEF ScanStep
  <2>4. CASE Passing(m)
    <3> DEFINE s == Scan[m]
    <3>1. LevelAfter(m) \in Level /\ slot[LevelAfter(m)] >= 1 /\ slot[LevelAfter(m)] \in Nat
      BY <1>1, <2>1 DEF LevelAfter, Level, slot
    <3>2. mlq_ready_queue[s.cur] # <<>> /\ s.used < slot[s.cur] <=> Servable(m)
      <4>1. CASE m = 0
        BY <1>1, <2>4, <4>1 DEF Servable
      <4>2. CASE m # 0
        BY <2>4, <3>1, <4>2 DEF Servable
      <4> QED  BY <4>1, <4>2
    <3>3. CASE Servable(m)
      <4>1. m \in Stops /\ \A j \in Stops : m <= j
        BY <2>1, <2>4, <3>3 DEF Stops, Level
      <4>2. Stop \in Stops /\ Stop <= m /\ m <= Stop
        BY <4>1, ScanStops, StopFirst DEF Stops
      <4>3. Stop = m
        BY <2>1, <4>2 DEF Stops, Level
      <4>4. Scan[m + 1] = [cur |-> s.cur, used |-> s.used + 1, found |-> TRUE]
        BY <2>2, <2>4, <3>2, <3>3 DEF ScanStep
      <4> HIDE DEF s
      <4>5. s.cur = LevelAfter(m) /\ s.used = IF m = 0 THEN used_slot ELSE 0
        BY <2>4 DEF s
      <4>6. Found(m + 1)
        BY <4>1, <4>3, <4>4, <4>5
      <4> QED  BY <2>1, <4>6
    <3>4. CASE ~Servable(m)
      <4>1. Scan[m + 1] = [cur |-> (s.cur + 1) % MAX_PRIO, used |-> 0, found |-> FALSE]
        BY <2>2, <2>4, <3>2, <3>4 DEF ScanStep
      <4>2. (LevelAfter(m) + 1) % MAX_PRIO = LevelAfter(m + 1)
        BY <1>1, <2>1, LevelNext
      <4>3. \A k \in 0 .. (m + 1) - 1 : ~Servable(k)
        BY <2>1, <2>4, <3>4
      <4>4. s.cur = LevelAfter(m)
        BY <2>4
      <4> HIDE DEF s
      <4>5. Passing(m + 1)
        BY <2>1, <4>1, <4>2, <4>3, <4>4
      <4> QED  BY <2>1, <4>5
    <3> QED  BY <3>3, <3>4
  <2> HIDE DEF Passing, Found
  <2> QED  BY <1>3, <2>3, <2>4
<1>4. n \in T
  <2> HIDE DEF T
  <2>1. 0 .. MAX_PRIO \subseteq T
    BY <1>2, <1>3, UpTo
  <2> QED  BY <2>1
<1> QED  BY <1>4

\* The loops of get_mlq_proc and dequeue end where Sched and Queue say, for every
\* number of levels and processes and in every state the scheduler can be in.
THEOREM LoopsAgreeAlways == SchedSpec => []LoopsAgree
<1>1. SchedInv => LoopsAgree
  <2> SUFFICES ASSUME SchedInv PROVE LoopsAgree  OBVIOUS
  <2>1. SchedTypeOK
    BY DEF SchedInv
  <2>2. ScanAgrees
    <3> DEFINE s == Scan[MAX_PRIO]
    <3>1. \/ /\ ~s.found /\ \A k \in 0 .. MAX_PRIO - 1 : ~Servable(k)
             /\ s.cur = LevelAfter(MAX_PRIO)
          \/ /\ s.found /\ s.cur = LevelAfter(Stop)
             /\ s.used = IF Stop = 0 THEN used_slot + 1 ELSE 1
             /\ Stops # {}
      <4>1. MAX_PRIO \in 0 .. MAX_PRIO
        OBVIOUS
      <4> QED  BY <2>1, <4>1, ScanStates
    <3>2. LevelAfter(MAX_PRIO) = cur_prio
      BY <2>1, LevelRound DEF SchedTypeOK
    <3>3. (\A k \in 0 .. MAX_PRIO - 1 : ~Servable(k)) <=> Stops = {}
      BY DEF Stops, Level
    <3> HIDE DEF s
    <3> QED  BY <3>1, <3>2, <3>3 DEF ScanAgrees, s
  <2>3. ASSUME NEW l \in Level, mlq_ready_queue[l] # <<>>
        PROVE  LET q == mlq_ready_queue[l] IN
               Dequeued(q) = q[BestIndex(q)] /\ Dequeue(q) = Shifted(q, BestIndex(q))
    <3> DEFINE q == mlq_ready_queue[l]
    <3>1. q \in Seq(Proc) /\ q # <<>>
      BY <2>1, <2>3 DEF SchedTypeOK
    <3> HIDE DEF q
    <3>2. BestIndex(q) = Best(q) /\ Best(q) \in DOMAIN q
      BY <3>1, SearchFinds
    <3>3. RemoveAt(q, Best(q)) = Shifted(q, Best(q))
      BY <3>1, <3>2, ShiftRemoves
    <3> QED  BY <3>2, <3>3 DEF Dequeued, Dequeue, q
  <2> QED  BY <2>2, <2>3 DEF LoopsAgree, DequeueIsLoop
<1> QED  BY <1>1, SchedInvariance, PTL
=============================================================================
