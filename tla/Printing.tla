------------------------------- MODULE Printing -------------------------------
(***************************************************************************)
(* eclib_snprintf of src/utils/utils.c: the loop over the format, and in   *)
(* it the loops that write a string or the digits of a number, each with   *)
(* its own test for room.                                                  *)
(*                                                                         *)
(* A character is its code, and only "%", "s", "d", "c" and one other occur  *)
(* in formats.  Each conversion of a call takes the same argument of its   *)
(* type; calls whose arguments have other types than the format says, and  *)
(* a buffer that is null, are left out.                                    *)
(***************************************************************************)
EXTENDS Integers, Sequences

CONSTANTS
  Formats, Strings, \* sequences of codes
  Numbers, Chars,   \* arguments of %d and %c
  Room,             \* values of size
  MaxInt            \* the largest int

Percent == 37
LetterC == 99
LetterD == 100
LetterS == 115
Minus   == 45
Zero    == 48
MinInt  == -MaxInt - 1

Codes == 0 .. 255
Ints  == MinInt .. MaxInt

ASSUME PrintingAssumption ==
  /\ MaxInt \in Nat
  /\ Formats \subseteq Seq(Codes)
  /\ Strings \subseteq Seq(Codes)
  /\ Numbers \subseteq Ints
  /\ Chars \subseteq Codes
  /\ Room \subseteq Nat \ {0}

VARIABLES
  print,   \* the arguments of the call
  at,      \* where in the format it is
  pending, \* what the inner loop has still to write
  out,     \* the buffer up to pos
  ret      \* -1 before the call returned

printing == <<print, at, pending, out, ret>>

PrintCall  == [fmt : Formats, size : Room, str : Strings, int : Numbers, char : Chars]
Nothing == [fmt |-> <<>>, size |-> 1, str |-> <<>>, int |-> 0, char |-> 0]

PrintingTypeOK ==
  /\ print \in PrintCall \cup {Nothing}
  /\ at \in Nat \ {0}
  /\ pending \in Seq(Int)
  /\ out \in Seq(Int)
  /\ ret \in Int

PrintingInit ==
  /\ print \in PrintCall \cup {Nothing}
  /\ at = 1
  /\ pending = <<>>
  /\ out = <<>>
  /\ ret = -1

(* What the loop of divisions leaves in tmp, turned around; "/" and "%" of *)
(* C round towards zero, so that a negative number has digits below "0".   *)
Digits(n) ==
  LET abs == IF n < 0 THEN -n ELSE n
      digit(k) == IF n < 0 THEN Zero - k ELSE Zero + k
      d[k \in 0 .. abs] == IF k < 10 THEN <<digit(k)>> ELSE Append(d[k \div 10], digit(k % 10))
  IN  d[abs]

(* -val in an int: there is no -MinInt, and the value stays what it is.    *)
Negated(n) == IF n = MinInt THEN n ELSE -n

Decimal_NoSign(n) == IF n < 0 THEN Digits(Negated(n)) ELSE Digits(n)

Decimal(n) == IF n < 0 THEN <<Minus>> \o Digits(Negated(n)) ELSE Digits(n)

------------------------------------------------------------------------------
HasRoom_Full == Len(out) < print.size

HasRoom == Len(out) < print.size - 1

InFormat == at <= Len(print.fmt)

(* A "%" that is not the last character. *)
Converts == print.fmt[at] = Percent /\ at < Len(print.fmt)

Outer == ret = -1 /\ pending = <<>> /\ InFormat /\ HasRoom

Literal ==
  /\ Outer /\ ~Converts
  /\ out' = Append(out, print.fmt[at])
  /\ at' = at + 1
  /\ UNCHANGED <<print, pending, ret>>

(* "%c", and any other character after a "%". *)
Single ==
  /\ Outer /\ Converts /\ print.fmt[at + 1] \notin {LetterS, LetterD}
  /\ out' = Append(out, IF print.fmt[at + 1] = LetterC THEN print.char
                                                       ELSE print.fmt[at + 1])
  /\ at' = at + 2
  /\ UNCHANGED <<print, pending, ret>>

(* "%s" and "%d"; a string may be empty, or null. *)
Several ==
  /\ Outer /\ Converts /\ print.fmt[at + 1] \in {LetterS, LetterD}
  /\ pending' = IF print.fmt[at + 1] = LetterS THEN print.str ELSE Decimal(print.int)
  /\ at' = at + 2
  /\ UNCHANGED <<print, out, ret>>

Put ==
  /\ pending # <<>> /\ HasRoom
  /\ out' = Append(out, Head(pending))
  /\ pending' = Tail(pending)
  /\ UNCHANGED <<print, at, ret>>

Cut ==
  /\ pending # <<>> /\ ~HasRoom
  /\ pending' = <<>>
  /\ UNCHANGED <<print, at, out, ret>>

(* The terminator goes to buf[pos]. *)
Return ==
  /\ ret = -1 /\ pending = <<>> /\ ~(InFormat /\ HasRoom)
  /\ ret' = Len(out)
  /\ UNCHANGED <<print, at, pending, out>>

(* The caller may print something else. *)
Again ==
  /\ ret # -1
  /\ UNCHANGED printing

PrintingNext ==
  Literal \/ Single \/ Several \/ Put \/ Cut \/ Return \/ Again

------------------------------------------------------------------------------
(* The text of a call without a limit, read from the format from left to   *)
(* right: what n characters make of it, and whether a "%" is still open.   *)
TextOf(call) ==
  LET f == call.fmt
      meant(c) == CASE c = LetterS -> call.str
                    [] c = LetterD -> Decimal(call.int)
                    [] c = LetterC -> <<call.char>>
                    [] OTHER -> <<c>>
      step[n \in 0 .. Len(f)] ==
        IF n = 0 THEN [text |-> <<>>, open |-> FALSE]
        ELSE IF step[n - 1].open
               THEN [text |-> step[n - 1].text \o meant(f[n]), open |-> FALSE]
             ELSE IF f[n] = Percent /\ n < Len(f)
               THEN [text |-> step[n - 1].text, open |-> TRUE]
             ELSE [text |-> Append(step[n - 1].text, f[n]), open |-> FALSE]
  IN  step

Whole == TextOf(print)[Len(print.fmt)].text

(* snprintf writes the beginning of the text and its terminator, never     *)
(* more than size bytes, and returns the length of what it wrote, also     *)
(* when the text was cut in the middle of a number                         *)
(* (src/src/utils/utils.c:209-247).                                        *)
PrintsBeginning ==
  /\ Len(out) < print.size
  /\ ret # -1 => LET n == IF Len(Whole) < print.size THEN Len(Whole) ELSE print.size - 1
                 IN  ret = n /\ out = SubSeq(Whole, 1, n)

(* The number that the first n characters of s read as, without their sign. *)
Values(s) ==
  LET value[n \in 0 .. Len(s)] ==
        IF n = 0 \/ s[n] = Minus THEN 0 ELSE 10 * value[n - 1] + s[n] - Zero
  IN  value

(* A number in a format that holds it whole reads as itself, except for    *)
(* the least int, whose negation is no int (src/src/utils/utils.c:229).    *)
NumbersReadBack ==
  LET v == Values(out)[Len(out)]
  IN  /\ print.fmt = <<Percent, LetterD>> /\ ret # -1 /\ ret < print.size - 1
      /\ print.int # MinInt
      => print.int = IF out[1] = Minus THEN -v ELSE v
==============================================================================
