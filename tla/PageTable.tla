------------------------------ MODULE PageTable ------------------------------
(***************************************************************************)
(* mm64.c: the page table of one process, a tree of tables.  A page number *)
(* is a path of LEVELS indices; the tables on the path are created when an *)
(* entry is set, and reading stops at the first table that is missing.     *)
(* A table other than the root is named by the path that leads to it.      *)
(***************************************************************************)
EXTENDS Pte, Sequences, FiniteSets

CONSTANTS
    LEVELS,            \* 5: PGD, P4D, PUD, PMD, PT
    WIDTH,             \* entries of a table, 512
    SPAN,              \* SPAN[l], pages that an entry of a table of level l covers:
                       \* 2^36, 2^27, 2^18, 2^9 and 1
    Page,              \* page numbers
    Fpn, SwpTyp, Swp   \* what callers pass to pte_set_fpn and pte_set_swap

ASSUME LevelsAssumption ==
    /\ LEVELS \in Nat \ {0} /\ WIDTH \in Nat \ {0}
    /\ SPAN \in [1 .. LEVELS -> Nat \ {0}] /\ SPAN[LEVELS] = 1
    /\ \A l \in 1 .. LEVELS - 1 : SPAN[l] = WIDTH * SPAN[l + 1]

\* A page number has no bits above those of the root's index.
ASSUME PageAssumption == Page \subseteq 0 .. WIDTH * SPAN[1] - 1
ASSUME FieldAssumption == Fpn \subseteq Nat /\ SwpTyp \subseteq Nat /\ Swp \subseteq Nat

VARIABLES
    tables,            \* paths of the tables that exist
    entry              \* entry[path], an entry of a last-level table

vars == <<tables, entry>>

Index == 0 .. WIDTH - 1
Paths(n) == [1 .. n -> Index]

-----------------------------------------------------------------------------
\* get_pd_from_pagenum: the indices from the root to the last level
Path(pgn) == [l \in 1 .. LEVELS |-> (pgn \div SPAN[l]) % WIDTH]

\* The tables on the way to an entry, nearest to the root first.
TableOn(path, n) == SubSeq(path, 1, n)
OnTheWay(path) == {TableOn(path, n) : n \in 1 .. LEVELS - 1}

Below(t, path) == Len(path) >= Len(t) /\ SubSeq(path, 1, Len(t)) = t

\* (mutant: get_next_level_table32 does not look whether there is a table)
TablesMadeAlways(path) == {TableOn(path, LEVELS - 1)}

\* Tables on the way that get_next_level_table64 and get_next_level_table32 have
\* to create.
TablesMade(path) == OnTheWay(path) \ tables

\* The entry at path x when the tables on the way to pgn have been created: those
\* are empty.
Uncovered(pgn, x) ==
    IF \E t \in TablesMade(Path(pgn)) : Below(t, x) THEN NoPte ELSE entry[x]

\* The entry that a pte_set_ function changes.
OldEntry(pgn) == Uncovered(pgn, Path(pgn))

\* It creates the missing tables and stores the new entry.
SetEntry(pgn, e) ==
    /\ tables' = {t \in tables : \A m \in TablesMade(Path(pgn)) : ~Below(m, t)}
                     \cup OnTheWay(Path(pgn))
    /\ entry' = [x \in DOMAIN entry |->
                    IF x = Path(pgn) THEN e ELSE Uncovered(pgn, x)]

\* pte_get_entry
GetEntry(pgn) ==
    IF OnTheWay(Path(pgn)) \subseteq tables THEN entry[Path(pgn)] ELSE NoPte

-----------------------------------------------------------------------------
\* (mutant: init_mm allocates the tables and links only the last one)
InitUnlinked ==
    /\ tables = {TableOn(Path(0), LEVELS - 1)}
    /\ entry = [x \in Paths(LEVELS) |-> NoPte]

\* init_mm creates the tables for page 0.
Init ==
    /\ tables = OnTheWay(Path(0))
    /\ entry = [x \in Paths(LEVELS) |-> NoPte]

SetFpn(pgn, fpn) == SetEntry(pgn, WithFpn(OldEntry(pgn), fpn))

SetSwap(pgn, swptyp, swpoff) ==
    SetEntry(pgn, WithSwap(OldEntry(pgn), swptyp, swpoff))

\* vmap_pgd_memset, for one page
SetPattern(pgn) == SetEntry(pgn, Pattern)

Next ==
    \E pgn \in Page :
        \/ \E fpn \in Fpn : SetFpn(pgn, fpn)
        \/ \E typ \in SwpTyp, off \in Swp : SetSwap(pgn, typ, off)
        \/ SetPattern(pgn)

Spec == Init /\ [][Next]_vars

-----------------------------------------------------------------------------
\* The variables keep their types.
TypeOK ==
    /\ tables \subseteq UNION {Paths(n) : n \in 1 .. LEVELS - 1}
    /\ entry \in [Paths(LEVELS) -> PTE]

\* Where pg_getpage takes a page with this entry to be: swapped goes first.
Place(e) ==
    CASE e.swapped -> <<"swap", PAGING_SWP(e)>>
      [] ~e.swapped /\ e.present -> <<"ram", PAGING_FPN(e)>>
      [] OTHER -> <<"nowhere", 0>>

\* A table exists only below tables that exist, and an entry below a missing
\* table is empty: a table created later uncovers nothing old.
TreeClosed ==
    /\ \A t \in tables : \A n \in 1 .. Len(t) - 1 : SubSeq(t, 1, n) \in tables
    /\ \A x \in DOMAIN entry : OnTheWay(x) \subseteq tables \/ entry[x] = NoPte

\* The tree of tables with its packed entries is a map from pages to places:
\* setting one page moves that page and no other, and what pg_getpage reads back
\* is the frame or the swap offset that was stored.
Map == INSTANCE PageMap WITH
         Swp <- Swp \cup {PAGING_SWP(Pattern)},
         where <- [g \in Page |-> Place(GetEntry(g))]
MapSpec == Map!Spec
=============================================================================
