--------------------------------- MODULE Pte ---------------------------------
(***************************************************************************)
(* The 32-bit page table entries of mm.h.  Bit 31 says that the page is in *)
(* RAM and bit 30 that it is in swap; the low bits hold the frame number   *)
(* or, in the same place, the swap type and the swap offset.  An entry is  *)
(* a record of the two flags and the number in the low bits.  The dirty    *)
(* bit is left out (it is cleared and never read), and so are the user     *)
(* number and the reserved bits (no function touches them).                *)
(***************************************************************************)
EXTENDS Naturals

CONSTANTS
    FPN_SPAN,          \* frame numbers that fit, 2^13
    SWPTYP_SPAN,       \* swap types that fit, 2^5
    SWPOFF_SPAN,       \* swap offsets that fit, 2^21
    PATTERN_LOW        \* the low bits of 0xdeadbeef

ASSUME SpanAssumption ==
    /\ FPN_SPAN \in Nat \ {0}
    /\ SWPTYP_SPAN \in Nat \ {0}
    /\ SWPOFF_SPAN \in Nat \ {0}

Low == 0 .. SWPTYP_SPAN * SWPOFF_SPAN - 1

\* The frame number is the lower part of the low bits.
ASSUME FitAssumption ==
    PATTERN_LOW \in Low /\ (SWPTYP_SPAN * SWPOFF_SPAN) % FPN_SPAN = 0

PTE == [present : BOOLEAN, swapped : BOOLEAN, low : Low]

\* What calloc leaves in a fresh table.
NoPte == [present |-> FALSE, swapped |-> FALSE, low |-> 0]

\* 0xdeadbeef, which vmap_pgd_memset stores: both flags are set in it.
Pattern == [present |-> TRUE, swapped |-> TRUE, low |-> PATTERN_LOW]

PAGING_FPN(e) == e.low % FPN_SPAN
PAGING_SWP(e) == e.low \div SWPTYP_SPAN

\* (mutant: the old frame number is not cleared first)
FpnAdded(e, fpn) ==
    [present |-> TRUE, swapped |-> FALSE, low |-> e.low + fpn]

\* pte_set_fpn: the bits above the frame number stay.
WithFpn(e, fpn) ==
    [present |-> TRUE, swapped |-> FALSE,
     low |-> e.low - PAGING_FPN(e) + (fpn % FPN_SPAN)]

\* pte_set_swap
WithSwap(e, swptyp, swpoff) ==
    [present |-> FALSE, swapped |-> TRUE,
     low |-> (swpoff % SWPOFF_SPAN) * SWPTYP_SPAN + (swptyp % SWPTYP_SPAN)]
=============================================================================
