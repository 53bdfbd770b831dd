--------------------------------- MODULE MCRui ---------------------------------
(* Rui with two threads, or one, and two pids.                              *)
EXTENDS Rui, TLC

CONSTANTS t1, t2, p1, p2

OneThread  == {t1}
TwoThreads == {t1, t2}
TwoPids    == {p1, p2}

Alike == Permutations(TwoThreads) \cup Permutations(TwoPids)
==============================================================================
