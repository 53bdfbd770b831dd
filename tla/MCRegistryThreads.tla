------------------------- MODULE MCRegistryThreads ---------------------------
(* RegistryThreads on a table of three slots.                               *)
EXTENDS RegistryThreads, TLC

CONSTANTS a, b, c, empty, t1, t2

OneThread  == {t1}
TwoThreads == {t1, t2}
MCNames    == {a, b, c, empty}
TwoNames   == {a, empty}
Symmetric  == Permutations({a, b, c})
==============================================================================
