------------------------------ MODULE FlatTable ------------------------------
(***************************************************************************)
(* mm.c, the paging of the builds without MM64: one array of entries       *)
(* instead of a tree.  The rest of the code is the same for both builds.   *)
(* Every call is made on the tree of mm64.c and on the array together.     *)
(* The array is that of krnl->mm, whoever calls: this is about the one     *)
(* process whose memory that is.                                           *)
(***************************************************************************)
EXTENDS PageTable

VARIABLE pgd           \* pgd[pgn]

\* init_mm
FlatInit == Init /\ pgd = [g \in Page |-> NoPte]

\* (mutant: only the present flag is set)
SwapPresent(swptyp, swpoff) ==
    [WithSwap(NoPte, swptyp, swpoff) EXCEPT !.present = TRUE, !.swapped = FALSE]

\* The entry of a swapped page has both flags set, unlike that of mm64.c.
FlatSwap(swptyp, swpoff) == [WithSwap(NoPte, swptyp, swpoff) EXCEPT !.present = TRUE]

\* pte_set_fpn
FlatSetFpn(pgn, fpn) == pgd' = [pgd EXCEPT ![pgn] = WithFpn(@, fpn)]

\* pte_set_swap
FlatSetSwap(pgn, swptyp, swpoff) ==
    pgd' = [pgd EXCEPT ![pgn] = FlatSwap(swptyp, swpoff)]

\* vmap_pgd_memset prints an error and stores nothing.
FlatSetPattern == UNCHANGED pgd

\* pte_get_entry
FlatGetEntry(pgn) == pgd[pgn]

BothNext ==
    \E pgn \in Page :
        \/ \E fpn \in Fpn : SetFpn(pgn, fpn) /\ FlatSetFpn(pgn, fpn)
        \/ \E typ \in SwpTyp, off \in Swp :
               SetSwap(pgn, typ, off) /\ FlatSetSwap(pgn, typ, off)
        \/ SetPattern(pgn) /\ FlatSetPattern

BothSpec == FlatInit /\ [][BothNext]_<<vars, pgd>>

-----------------------------------------------------------------------------
\* Whatever is done to the pages in whatever order, the tree and the array send
\* pg_getpage to the same place for every page, though they differ in what they
\* keep of a swapped page and in when tables come into being; but a page that was
\* given the pattern, and no place since, is where it was before in the array only.
SamePlace ==
    \A g \in Page :
        GetEntry(g) = Pattern \/ Place(FlatGetEntry(g)) = Place(GetEntry(g))
=============================================================================
