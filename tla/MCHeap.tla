-------------------------------- MODULE MCHeap --------------------------------
(* Heap with two threads, two blocks, three requests and sizes below 3.   *)
EXTENDS Heap, TLC

CONSTANTS t1, t2, a1, a2, i1, i2, i3, null, nobody

MCThreads == {t1, t2}
MCAddrs   == {a1, a2}
MCIds     == {i1, i2, i3}
Symmetric == Permutations(MCThreads) \cup Permutations(MCAddrs)
               \cup Permutations(MCIds)
==============================================================================
