------------------------------- MODULE PageMap -------------------------------
(***************************************************************************)
(* What a page table is for: a page of a process is nowhere, in a frame of *)
(* RAM or in a frame of swap, and it is moved one page at a time.          *)
(***************************************************************************)
EXTENDS Naturals

CONSTANTS
    Page,
    Fpn,               \* frames of RAM
    Swp                \* frames of swap

VARIABLE where         \* where[g], the place of page g

Nowhere   == <<"nowhere", 0>>
InRam(f)  == <<"ram", f>>
InSwap(s) == <<"swap", s>>

\* After init_mm no page is anywhere.
Init == where = [g \in Page |-> Nowhere]

\* One of the pte_set_ functions, or vmap_pgd_memset for one page.
Move(g) ==
    \/ \E f \in Fpn : where' = [where EXCEPT ![g] = InRam(f)]
    \/ \E s \in Swp : where' = [where EXCEPT ![g] = InSwap(s)]

Next == \E g \in Page : Move(g)

Spec == Init /\ [][Next]_where
=============================================================================
