---------------------------- MODULE VirtualMemory ----------------------------
(***************************************************************************)
(* What the memory of the simulator promises to programs: every process    *)
(* has pages of its own, and a page holds what its process wrote to it     *)
(* last.  A page that comes into being may hold anything.                  *)
(***************************************************************************)
CONSTANTS
    Proc, Page,
    Value,             \* what a page may hold
    Written(_, _),     \* Written(p, g), what p writes to its page g
    Unmapped           \* for a page that does not exist

VARIABLE mem           \* mem[p][g], what page g of p holds

Init == mem = [p \in Proc |-> [g \in Page |-> Unmapped]]

\* Some pages of p come into being; those it has stay as they are.
Map(p) ==
    /\ mem' = [mem EXCEPT ![p] = mem'[p]]
    /\ mem'[p] \in [Page -> Value \cup {Unmapped}]
    /\ \A g \in Page : mem[p][g] # Unmapped => mem'[p][g] = mem[p][g]

\* p writes to a page it has.
Write(p, g) ==
    /\ mem[p][g] # Unmapped
    /\ mem' = [mem EXCEPT ![p][g] = Written(p, g)]

\* p has ended, and its memory with it.
Release(p) == mem' = [mem EXCEPT ![p] = [g \in Page |-> Unmapped]]

Next == \E p \in Proc : Map(p) \/ Release(p) \/ \E g \in Page : Write(p, g)

Spec == Init /\ [][Next]_mem
=============================================================================
