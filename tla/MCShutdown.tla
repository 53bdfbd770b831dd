------------------------------ MODULE MCShutdown ------------------------------
(* Shutdown with two threads of one process.  The families of functions     *)
(* share no state, so that each is explored by itself.                      *)
EXTENDS Shutdown, TLC

CONSTANTS t1, t2, c1, c2, c3, c4, k1, k2

MCThreads   == {t1, t2}
MCPrograms  == {Flagging, Powering, Owning, {"register_shutdown_callback"}}
MCCallbacks == {c1, c2, c3, c4}
MCTokens    == {k1, k2}
MCGarbage   == {-1, 1, 4}
MCLengths   == {0, 230, 231, 300}
Symmetric   == Permutations(MCThreads) \cup Permutations(MCCallbacks)
                 \cup Permutations(MCTokens)
==============================================================================
