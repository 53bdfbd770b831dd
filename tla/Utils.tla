--------------------------------- MODULE Utils ---------------------------------
(***************************************************************************)
(* src/utils/utils.c: the functions that copy, those that read and split   *)
(* strings, and snprintf; and the packing of strings in process.c that is  *)
(* built on them.  They share nothing but memory, and a program of each of *)
(* the four kinds is considered by itself.                                 *)
(***************************************************************************)
EXTENDS Scanning, Printing, Packing

VARIABLE program

vars == <<mem, job, before, scan, printing, packing, program>>

TypeOK ==
  /\ program \in {"copies", "splits", "prints", "packs"}
  /\ CopyingTypeOK
  /\ ScanningTypeOK
  /\ PrintingTypeOK
  /\ PackingTypeOK

(* What a program has that does not split, print or pack.                  *)
NoText   == mem = [c \in Cells |-> 0]
NoSplit  == delim = [c \in Callers |-> {}]
NoPrint  == print = Nothing
NoVector == argv = <<>>

Init ==
  /\ \/ program = "copies" /\ NoSplit /\ NoPrint /\ NoVector
     \/ program = "splits" /\ NoPrint /\ NoVector
     \/ program = "prints" /\ NoText /\ NoSplit /\ NoVector
     \/ program = "packs"  /\ NoText /\ NoSplit /\ NoPrint
  /\ CopyingInit
  /\ ScanningInit
  /\ PrintingInit
  /\ PackingInit

Next ==
  \/ /\ program = "copies" /\ CopyingNext
     /\ UNCHANGED <<scan, printing, packing, program>>
  \/ /\ program = "splits" /\ ScanningNext
     /\ UNCHANGED <<printing, packing, program>>
  \/ /\ program = "prints" /\ PrintingNext
     /\ UNCHANGED <<mem, job, before, scan, packing, program>>
  \/ /\ program = "packs" /\ PackingNext
     /\ UNCHANGED <<mem, job, before, scan, printing, program>>

Spec == Init /\ [][Next]_vars
==============================================================================
