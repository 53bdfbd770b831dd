---------------------------- MODULE MCEnvironment ----------------------------
(* Environment with three names, two values, one of them with a "=" in it,  *)
(* and five blocks: three strings, the array and the one that takes its     *)
(* place; with fewer variables there is room for lost blocks.               *)
EXTENDS Environment, TLC

CONSTANTS a, b, c, b1, b2, b3, b4, b5, none, null

MCNames   == {a, b, c}
MCValues  == {"x", "y=z"}
MCParts   == {"y"}
MCStarts  == {<<"y", "y=z">>}
MCBlocks  == {b1, b2, b3, b4, b5}
Symmetric == Permutations(MCBlocks)
==============================================================================
