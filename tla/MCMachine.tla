----------------------------- MODULE MCMachine -----------------------------
(* Instances of Machine for TLC. *)
EXTENDS Machine, TLC

\* Two processes due at once and one that comes when a PCB may be free again.
MCstart    == <<0, 2, 2>>
MCprio     == <<0, 0, 0>>
MCpriority == <<0, 0, 0>>
MCsize     == <<2, 3, 3>>

\* The first only computes; the others do anything.
MCopcodes == LET all == {"calc", "alloc", "free", "write", "map"} IN
             <<{"calc"}, all, all>>

MCranges == {<<0, 1>>}
=============================================================================
