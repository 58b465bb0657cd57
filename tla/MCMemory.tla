------------------------------ MODULE MCMemory ------------------------------
(* Instances of Memory for TLC. *)
EXTENDS Memory

CONSTANTS p1, p2

\* Programs that map the first, the second or both pages, or none.
EachPage == {<<0, 1>>, <<1, 1>>, <<0, 2>>}
NoPages == {}

\* Reads that race may list a frame of swap any number of times.  A list of two has
\* one that is listed twice, or is longer than it was in the beginning.
SwapListBound == Len(mswp) <= 2

ProcSymmetry == Permutations(Proc)
RgIdSymmetry == Permutations(RgId)
=============================================================================
