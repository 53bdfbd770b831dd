------------------------------- MODULE Copying -------------------------------
(***************************************************************************)
(* The functions of src/utils/utils.c that write memory byte by byte:      *)
(* memcpy, memmove, memset, strncpy, strdup.  One round of a loop is one   *)
(* step, so that a round reads what the rounds before it have written when *)
(* source and destination overlap.                                         *)
(*                                                                         *)
(* Callers pass areas that exist.  A call with a null pointer or a length  *)
(* of zero changes nothing and is left out.                                *)
(***************************************************************************)
EXTENDS Integers

CONSTANTS
  Size, \* of the memory
  Bytes

ASSUME CopyingAssumption == Size \in Nat /\ 0 \in Bytes /\ Bytes \subseteq 0 .. 255

VARIABLES
  mem,
  job,   \* the loop that runs: what it copies, and its index
  before \* memory when the function was called

Cells == 0 .. Size - 1

Copies == {"memcpy", "down", "memset", "strncpy"}
Idle   == [loop |-> "idle", d |-> 0, s |-> 0, len |-> 0, byte |-> 0, i |-> 0]
Job    == [loop : Copies \cup {"idle"}, d : Nat, s : Nat, len : Nat, byte : Bytes, i : Nat]

CopyingTypeOK ==
  /\ mem \in [Cells -> Bytes]
  /\ before \in [Cells -> Bytes]
  /\ job \in Job

Start(loop, d, s, len, byte, i) ==
  /\ job = Idle
  /\ job' = [loop |-> loop, d |-> d, s |-> s, len |-> len, byte |-> byte, i |-> i]
  /\ before' = mem
  /\ UNCHANGED mem

Fits(p, len) == p + len <= Size

eclib_memcpy ==
  \E d, s \in Cells, len \in 1 .. Size :
    Fits(d, len) /\ Fits(s, len) /\ Start("memcpy", d, s, len, 0, 0)

GoesDown_Never(d, s, len) == FALSE

(* The areas overlap and the destination is the later one. *)
GoesDown(d, s, len) == d > s /\ d < s + len

eclib_memmove ==
  \E d, s \in Cells, len \in 1 .. Size :
    /\ Fits(d, len) /\ Fits(s, len)
    /\ IF GoesDown(d, s, len) THEN Start("down", d, s, len, 0, len)
                              ELSE Start("memcpy", d, s, len, 0, 0)

eclib_memset ==
  \E d \in Cells, len \in 1 .. Size, byte \in Bytes :
    Fits(d, len) /\ Start("memset", d, d, len, byte, 0)

(* The string at s has n bytes in front of its terminator. *)
HasLength(s, n) == /\ n \in Nat /\ s + n \in Cells /\ mem[s + n] = 0
                   /\ \A k \in 0 .. n - 1 : mem[s + k] # 0

(* The destination has room for max bytes, as every caller in src/ passes. *)
eclib_strncpy ==
  \E d, s \in Cells, max \in 1 .. Size :
    /\ Fits(d, max)
    /\ Fits(s, max - 1) \/ \E n \in Cells : HasLength(s, n)
    /\ Start("strncpy", d, s, max, 0, 0)

(* The copy goes to a block of its own. *)
eclib_strdup ==
  \E d, s, n \in Cells :
    /\ HasLength(s, n) /\ Fits(d, n + 1)
    /\ d + n < s \/ s + n < d
    /\ Start("memcpy", d, s, n + 1, 0, 0)

Write(cell, byte, next) ==
  /\ mem' = [mem EXCEPT ![cell] = byte]
  /\ job' = [job EXCEPT !.i = next]
  /\ UNCHANGED before

Copy ==
  /\ job.loop = "memcpy" /\ job.i < job.len
  /\ Write(job.d + job.i, mem[job.s + job.i], job.i + 1)

CopyDown ==
  /\ job.loop = "down" /\ job.i > 0
  /\ Write(job.d + job.i - 1, mem[job.s + job.i - 1], job.i - 1)

Fill ==
  /\ job.loop = "memset" /\ job.i < job.len
  /\ Write(job.d + job.i, job.byte, job.i + 1)

LastOf_All(max) == max

(* Where strncpy stops at the latest, to write its terminator. *)
LastOf(max) == max - 1

(* The terminator ends the job: its index goes past the length. *)
CopyString ==
  /\ job.loop = "strncpy" /\ job.i <= LastOf(job.len)
  /\ IF job.i < LastOf(job.len) /\ mem[job.s + job.i] # 0
       THEN Write(job.d + job.i, mem[job.s + job.i], job.i + 1)
       ELSE Write(job.d + job.i, 0, Size + 1)

Finished ==
  CASE job.loop = "idle"    -> FALSE
    [] job.loop = "down"    -> job.i = 0
    [] job.loop = "strncpy" -> job.i > LastOf(job.len)
    [] OTHER                -> job.i >= job.len

Done ==
  /\ Finished
  /\ job' = Idle
  /\ before' = mem
  /\ UNCHANGED mem

CopyingInit ==
  /\ mem \in [Cells -> Bytes]
  /\ job = Idle
  /\ before = mem

CopyingNext ==
  \/ eclib_memcpy \/ eclib_memmove \/ eclib_memset \/ eclib_strncpy \/ eclib_strdup
  \/ Copy \/ CopyDown \/ Fill \/ CopyString \/ Done

------------------------------------------------------------------------------
(* A later round of a loop that goes up does not read what it has written. *)
Harmless == ~GoesDown(job.d, job.s, job.len)

Length(n) == /\ \A k \in 0 .. n - 1 : before[job.s + k] # 0
             /\ n = job.len - 1 \/ before[job.s + n] = 0

(* When a function returns, the destination holds what the source held     *)
(* when it was called, whichever way the two overlap if the function is    *)
(* memmove, and no other byte has changed; strncpy has copied as much of   *)
(* the string as fits in max_len bytes with the terminator it always       *)
(* writes (src/src/utils/utils.c:28-38, 81-121).                           *)
CopiedWhole ==
  Finished =>
    LET same(n) == \A k \in 0 .. n - 1 : mem[job.d + k] = before[job.s + k]
        rest(n) == \A c \in Cells : ~(job.d <= c /\ c < job.d + n) => mem[c] = before[c]
    IN  CASE job.loop = "memcpy"  -> Harmless => same(job.len) /\ rest(job.len)
          [] job.loop = "down"    -> same(job.len) /\ rest(job.len)
          [] job.loop = "memset"  -> /\ \A k \in 0 .. job.len - 1 : mem[job.d + k] = job.byte
                                     /\ rest(job.len)
          [] job.loop = "strncpy" ->
               Harmless => \A n \in 0 .. job.len - 1 :
                 Length(n) => same(n) /\ mem[job.d + n] = 0 /\ rest(n + 1)
==============================================================================
