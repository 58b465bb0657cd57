------------------------------- MODULE Regions -------------------------------
(***************************************************************************)
(* The free list of a memory area (libmem.c): regions [rg_start, rg_end)   *)
(* of addresses, searched from the head and cut from the front.            *)
(***************************************************************************)
EXTENDS Naturals, Sequences, SequencesExt

Rg(s, e) == [rg_start |-> s, rg_end |-> e]

\* The entry of a variable that has no region: also what calloc leaves.
NoRg == Rg(0, 0)

Holds(r, b) == r.rg_start <= b /\ b < r.rg_end

\* The first region with room for size bytes, or 0.
FirstFit(list, size) ==
    SelectInSeq(list, LAMBDA r : r.rg_start + size <= r.rg_end)

\* (mutant: the rest starts one byte too early)
CarveShort(list, i, size) ==
    IF list[i].rg_start + size < list[i].rg_end
    THEN [list EXCEPT ![i].rg_start = @ + size - 1]
    ELSE IF i < Len(list) THEN RemoveAt(list, i)
    ELSE [list EXCEPT ![i].rg_start = list[i].rg_end]

\* (mutant: the node behind one that is used up goes with it)
CarveNext(list, i, size) ==
    IF list[i].rg_start + size < list[i].rg_end
    THEN [list EXCEPT ![i].rg_start = @ + size]
    ELSE IF i < Len(list) THEN RemoveAt(RemoveAt(list, i), i)
    ELSE [list EXCEPT ![i].rg_start = list[i].rg_end]

\* get_free_vmrg_area takes size bytes from region i.  A region that is used up
\* is replaced by the next one, and stays, empty, if it is the last.
Carve(list, i, size) ==
    IF list[i].rg_start + size < list[i].rg_end
    THEN [list EXCEPT ![i].rg_start = @ + size]
    ELSE IF i < Len(list) THEN RemoveAt(list, i)
    ELSE [list EXCEPT ![i].rg_start = list[i].rg_end]

\* enlist_vm_freerg_list refuses an empty region.
Enlist(list, r) == IF r.rg_start >= r.rg_end THEN list ELSE <<r>> \o list
=============================================================================
