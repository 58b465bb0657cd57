------------------------------ MODULE MCSched ------------------------------
(* Instances of SchedFairness and SchedLoops, and through them of Sched, for TLC. *)
EXTENDS SchedFairness, SchedLoops

CONSTANTS p1, p2, p3, p4, p5

\* Three processes on level 0, where the second has the least priority number and
\* the others are equal, and one on each of levels 1 and 2.
MCprio     == p1 :> 0 @@ p2 :> 0 @@ p3 :> 0 @@ p4 :> 1 @@ p5 :> 2
MCpriority == p1 :> 1 @@ p2 :> 0 @@ p3 :> 1 @@ p4 :> 0 @@ p5 :> 0

\* p1 and p3 can be exchanged.
Alike == Permutations({p1, p3})

\* AllQuotas is the sum that its name says.
ASSUME AllQuotasAssumption == AllQuotas = MapThenSumSet(LAMBDA l : slot[l], Level)
=============================================================================
