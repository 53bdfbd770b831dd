-------------------------- MODULE MCServiceRegistry --------------------------
(* ServiceRegistry on a table of three slots, with more names than slots.   *)
EXTENDS ServiceRegistry, TLC

CONSTANTS a, b, c, long, empty

MCNames    == {a, b, c, long, empty}
MCUnusable == {long}
NameSymmetry == Permutations({a, b, c})
==============================================================================
