------------------------------- MODULE Scanning -------------------------------
(***************************************************************************)
(* The functions of src/utils/utils.c that read strings, and eclib_strtok, *)
(* whose place in the text is one static variable: callers that split two  *)
(* texts in turn share it.  Each call is one step.                         *)
(*                                                                         *)
(* Callers do not write to a text while they split it, and keep the        *)
(* delimiters they began with.                                             *)
(***************************************************************************)
EXTENDS Copying

CONSTANTS
  Callers,
  Delimiters, \* sets of delimiters
  SignedChar, \* plain char is signed in this build
  Word,       \* the values of a size_t
  Null

Token == Cells \X Cells \* where it begins, and its length

ASSUME ScanningAssumption ==
  /\ SignedChar \in BOOLEAN
  /\ Word \in Nat /\ Size < Word
  /\ \A d \in Delimiters : 0 \notin d
  /\ Null \notin Cells \cup Callers \cup Token

VARIABLES
  save,  \* strtok_state
  delim, \* the delimiters of each caller
  owner, \* who called strtok last with a text of its own
  due,   \* the tokens it has not got yet
  mixed, \* another caller has called strtok since
  told   \* what the last call returned, and what the owner had to get

scan == <<save, delim, owner, due, mixed, told>>

ScanningTypeOK ==
  /\ save \in Cells \cup {Null}
  /\ delim \in [Callers -> Delimiters]
  /\ owner \in Callers \cup {Null}
  /\ due \subseteq Token
  /\ mixed \in BOOLEAN
  /\ told \in [token : Token \cup {Null}, due : Token \cup {Null}]

ScanningInit ==
  /\ save = Null
  /\ delim \in [Callers -> Delimiters]
  /\ owner = Null
  /\ due = {}
  /\ mixed = FALSE
  /\ told = [token |-> Null, due |-> Null]

First(S) == CHOOSE i \in S : \A k \in S : i <= k
Final(S) == CHOOSE i \in S : \A k \in S : k <= i

------------------------------------------------------------------------------
(* Functions that read. *)

IsString(p) == \E k \in Cells : p <= k /\ mem[k] = 0

eclib_strlen(p) == CHOOSE n \in Cells : HasLength(p, n)

Places(p, c) == {k \in p .. p + eclib_strlen(p) : mem[k] = c}

eclib_strchr(p, c)  == IF Places(p, c) = {} THEN Null ELSE First(Places(p, c))
eclib_strrchr(p, c) == IF Places(p, c) = {} THEN Null ELSE Final(Places(p, c))

TooLong_Never(n, m) == FALSE

(* strstr gives up on a string of m bytes in one of n.                     *)
TooLong(n, m) == m > n

(* Where it looks otherwise: lengths are subtracted as a size_t.           *)
Starts(n, m) == 0 .. (n - m) % Word

(* What its loop reads behind memory matches nothing.                      *)
eclib_strstr(p, q) ==
  LET n == eclib_strlen(p)
      m == eclib_strlen(q)
      hits == {i \in Starts(n, m) :
                 \A j \in 0 .. m - 1 : p + i + j \in Cells /\ mem[p + i + j] = mem[q + j]}
  IN  IF m = 0 \/ TooLong(n, m) \/ hits = {} THEN Null ELSE p + First(hits)

(* Where the loop of strcmp stops.                                         *)
StopsAt(p, q) ==
  First({i \in Cells : /\ p + i \in Cells /\ q + i \in Cells
                       /\ mem[p + i] = 0 \/ mem[q + i] = 0 \/ mem[p + i] # mem[q + i]})

Char(byte) == IF SignedChar /\ byte >= 128 THEN byte - 256 ELSE byte

eclib_strcmp(p, q) ==
  LET i == StopsAt(p, q) IN Char(mem[p + i]) - Char(mem[q + i])

Within_Next(i, n) == i <= n

(* strncmp looks at the bytes in front of the n-th.                        *)
Within(i, n) == i < n

(* Its loop returns at the first of these.                                 *)
Decisive(p, q, n) ==
  {i \in Cells : /\ Within(i, n) /\ p + i \in Cells /\ q + i \in Cells
                 /\ mem[p + i] # mem[q + i] \/ mem[p + i] = 0}

eclib_strncmp(p, q, n) ==
  LET found == Decisive(p, q, n)
      i == First(found)
  IN  IF found = {} THEN 0 ELSE mem[p + i] - mem[q + i]

------------------------------------------------------------------------------
(* strtok. *)

(* The runs of the string at p that are free of delimiters.                *)
Tokens(p, d) ==
  LET end == p + eclib_strlen(p)
      free(k) == mem[k] \notin d
      isRun(b, e) == /\ \A k \in b .. e - 1 : free(k)
                     /\ b = p \/ ~free(b - 1)
                     /\ e = end \/ ~free(e)
  IN  {x \in (p .. end) \X (1 .. Size - 1) : x[1] + x[2] <= end /\ isRun(x[1], x[1] + x[2])}

Skipped(p, d) == First({k \in Cells : p <= k /\ mem[k] \notin d})
EndOf(p, d)   == First({k \in Cells : p <= k /\ (mem[k] \in d \/ mem[k] = 0)})

NextPlace_Stays(k) == k

NextPlace_Far(k) == k + 1

(* Behind the terminator that is written over a delimiter.                 *)
NextPlace(k) == IF mem[k] = 0 THEN k ELSE k + 1

(* From place p on; expected is what is left of the owner's text.          *)
Tokenize(p, d, expected) ==
  LET b == Skipped(p, d)
      e == EndOf(b, d)
      next == IF expected = {} THEN Null
              ELSE CHOOSE x \in expected : \A y \in expected : x[1] <= y[1]
  IN  /\ IF mem[b] = 0
           THEN save' = b /\ UNCHANGED mem
           ELSE save' = NextPlace(e) /\ mem' = [mem EXCEPT ![e] = 0]
      /\ due' = expected \ {next}
      /\ told' = [token |-> IF mem[b] = 0 THEN Null ELSE <<b, e - b>>, due |-> next]

eclib_strtok(c, p) ==
  /\ IsString(p)
  /\ owner' = c
  /\ mixed' = FALSE
  /\ Tokenize(p, delim[c], Tokens(p, delim[c]))
  /\ UNCHANGED <<delim, job, before>>

(* With a null pointer, before any text was given.                         *)
strtok_nothing ==
  /\ save = Null
  /\ told' = [token |-> Null, due |-> Null]
  /\ UNCHANGED <<save, delim, owner, due, mixed, mem, job, before>>

(* With a null pointer: on from where the last call stopped.               *)
strtok_continue(c) ==
  /\ save # Null
  /\ mixed' = (mixed \/ c # owner)
  /\ Tokenize(save, delim[c], due)
  /\ UNCHANGED <<owner, delim, job, before>>

ScanningNext ==
  \/ strtok_nothing
  \/ \E c \in Callers : strtok_continue(c) \/ \E p \in Cells : eclib_strtok(c, p)

------------------------------------------------------------------------------
(* A caller that splits a text gets its tokens, all of them and in order,  *)
(* then nothing, unless another caller has called strtok in the meantime;  *)
(* a text that others began to split before does no harm                   *)
(* (src/src/utils/utils.c:186-207).                                        *)
TokensInOrder == ~mixed => told.token = told.due

(* strstr finds the first place where strncmp sees the string it looks     *)
(* for, strchr that of a string of one byte, and strrchr the last.         *)
SearchesAgree ==
  job = Idle => \A p, q \in {k \in Cells : IsString(k)} :
    LET m == eclib_strlen(q)
        found == {k \in p .. p + eclib_strlen(p) : eclib_strncmp(k, q, m) = 0}
    IN  m > 0 =>
          /\ eclib_strstr(p, q) = IF found = {} THEN Null ELSE First(found)
          /\ m = 1 => /\ eclib_strchr(p, mem[q]) = eclib_strstr(p, q)
                      /\ eclib_strrchr(p, mem[q]) = IF found = {} THEN Null ELSE Final(found)

(* Where two strings part, if they differ.                                 *)
Parting(p, q) ==
  {i \in Cells : /\ p + i \in Cells /\ q + i \in Cells
                 /\ mem[p + i] # mem[q + i]
                 /\ \A j \in 0 .. i - 1 : mem[p + j] = mem[q + j] /\ mem[p + j] # 0}

(* strncmp orders strings by the first of their first n bytes that differ, *)
(* as unsigned ones.  strcmp finds the same strings equal and orders the   *)
(* others in the same way, but exactly the other way round if char is      *)
(* signed and one of the two bytes is above 127 and the other is not       *)
(* (src/src/utils/utils.c:40-50, 149-156).                                 *)
ComparisonsAgree ==
  job = Idle => \A p, q \in {k \in Cells : IsString(k)} :
    LET apart == Parting(p, q)
        turned(i) == SignedChar /\ (mem[p + i] < 128) # (mem[q + i] < 128)
    IN  /\ \A n \in 0 .. Size :
             /\ eclib_strncmp(p, q, n) < 0 <=> \E i \in apart : i < n /\ mem[p + i] < mem[q + i]
             /\ eclib_strncmp(p, q, n) > 0 <=> \E i \in apart : i < n /\ mem[p + i] > mem[q + i]
        /\ eclib_strcmp(p, q) = 0 <=> apart = {}
        /\ eclib_strcmp(p, q) < 0 <=> \E i \in apart : (mem[p + i] < mem[q + i]) # turned(i)
==============================================================================
