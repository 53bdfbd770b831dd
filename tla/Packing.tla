------------------------------- MODULE Packing -------------------------------
(***************************************************************************)
(* How eclib_execve hands over the arguments of the new program            *)
(* (src/process/process.c): it packs the strings one behind the other into *)
(* a field of the request that was zeroed, and skips those that do not     *)
(* fit.  The environment is packed in the same way.                        *)
(*                                                                         *)
(* External: the process service.  The request has no count, so that the   *)
(* strings end for it at the first empty one.                              *)
(***************************************************************************)
EXTENDS Integers, Sequences

CONSTANTS
  FieldSize,
  Vectors \* what argv may be: sequences of strings, which are sequences of bytes

ASSUME PackingAssumption == FieldSize \in Nat \ {0} /\ Vectors \subseteq Seq(Seq(Nat \ {0}))

VARIABLES
  argv,
  nextArg, \* its index
  field    \* argv_data up to p

packing == <<argv, nextArg, field>>

PackingTypeOK ==
  /\ argv \in Vectors
  /\ nextArg \in 1 .. Len(argv) + 1
  /\ field \in Seq(Nat)

PackingInit ==
  /\ argv \in Vectors
  /\ nextArg = 1
  /\ field = <<>>

FitsIn_Exactly(used, len) == used + len + 1 <= FieldSize

FitsIn(used, len) == used + len + 1 < FieldSize

Pack ==
  /\ nextArg <= Len(argv)
  /\ field' = IF FitsIn(Len(field), Len(argv[nextArg]))
                THEN field \o argv[nextArg] \o <<0>>
                ELSE field
  /\ nextArg' = nextArg + 1
  /\ UNCHANGED argv

(* The request is complete; another call packs something else.             *)
Packed ==
  /\ nextArg > Len(argv)
  /\ UNCHANGED packing

PackingNext == Pack \/ Packed

------------------------------------------------------------------------------
(* The strings the service finds in the first n bytes of s: those that are *)
(* whole, the one it still reads, and whether an empty one ended them.     *)
StringsIn(s) ==
  LET read[n \in 0 .. Len(s)] ==
        IF n = 0 THEN [whole |-> <<>>, open |-> <<>>, ended |-> FALSE]
        ELSE LET r == read[n - 1]
             IN  IF r.ended THEN r
                 ELSE IF s[n] # 0 THEN [r EXCEPT !.open = Append(@, s[n])]
                 ELSE IF r.open = <<>> THEN [r EXCEPT !.ended = TRUE]
                 ELSE [whole |-> Append(r.whole, r.open), open |-> <<>>, ended |-> FALSE]
  IN  read

(* Zeros follow what was packed. *)
Found ==
  LET r == StringsIn(field)[Len(field)]
  IN  IF r.open = <<>> THEN r.whole ELSE Append(r.whole, r.open)

(* The bytes that the first n strings of v take, with their terminators.   *)
Totals(v) ==
  LET sum[n \in 0 .. Len(v)] == IF n = 0 THEN 0 ELSE sum[n - 1] + Len(v[n]) + 1
  IN  sum

Total(v) == Totals(v)[Len(v)]

(* Those of the first n arguments whose index is in S.                     *)
Kept(S) ==
  LET kept[n \in 0 .. Len(argv)] ==
        IF n = 0 THEN <<>>
        ELSE IF n \in S THEN Append(kept[n - 1], argv[n]) ELSE kept[n - 1]
  IN  kept

(* The field always ends with an empty string.  Without empty arguments    *)
(* the service finds those that were packed whole and in their order, one  *)
(* that is missing did not fit behind the others, and none is missing if   *)
(* all fit (src/src/process/process.c:70-78).                              *)
ArgumentsArrive ==
  /\ Len(field) < FieldSize
  /\ nextArg > Len(argv) /\ (\A k \in 1 .. Len(argv) : argv[k] # <<>>) =>
       \E S \in SUBSET (1 .. Len(argv)) :
         /\ Found = Kept(S)[Len(argv)]
         /\ \A k \in 1 .. Len(argv) \ S :
              Total(Kept(S)[k - 1]) + Len(argv[k]) + 1 >= FieldSize
         /\ Total(argv) < FieldSize => S = 1 .. Len(argv)
==============================================================================
