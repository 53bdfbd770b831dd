------------------------------ MODULE UtilsProofs ------------------------------
(***************************************************************************)
(* What Utils promises for every memory, text, format and vector.          *)
(*                                                                         *)
(* Each loop that copies has its invariant: what its rounds so far have    *)
(* copied, and that nothing else has changed.  A loop that goes up copies  *)
(* from cells it has not written yet, unless the destination               *)
(* begins inside the source; eclib_memmove goes down exactly then.         *)
(*                                                                         *)
(* strtok has left what it has still to return (TokensInv); snprintf has   *)
(* written the text of the format so far, but for what is pending          *)
(* (PrintInv); execve has packed what the service would find (PackInv).    *)
(***************************************************************************)
EXTENDS Utils, TLAPS, WellFoundedInduction, SequenceTheorems

Same(lo, hi) == \A k \in lo .. hi - 1 : mem[job.d + k] = before[job.s + k]
Rest(lo, hi) == \A c \in Cells : ~(lo <= c /\ c < hi) => mem[c] = before[c]

InMemory == Fits(job.d, job.len) /\ Fits(job.s, job.len)

MemcpyInv ==
  job.loop = "memcpy" =>
    /\ InMemory
    /\ job.i <= job.len
    /\ Harmless => Same(0, job.i)
    /\ Rest(job.d, job.d + job.i)

DownInv ==
  job.loop = "down" =>
    /\ InMemory
    /\ GoesDown(job.d, job.s, job.len)
    /\ job.i <= job.len
    /\ Same(job.i, job.len)
    /\ Rest(job.d + job.i, job.d + job.len)

MemsetInv ==
  job.loop = "memset" =>
    /\ InMemory
    /\ job.i <= job.len
    /\ \A k \in 0 .. job.i - 1 : mem[job.d + k] = job.byte
    /\ Rest(job.d, job.d + job.i)

(* The string ends inside memory, or max_len ends it there.                *)
Ends ==
  \/ Fits(job.s, job.len - 1)
  \/ \E n \in Cells : job.s + n \in Cells /\ before[job.s + n] = 0

Copied(n) == Same(0, n) /\ mem[job.d + n] = 0 /\ Rest(job.d, job.d + n + 1)

StrncpyInv ==
  job.loop = "strncpy" =>
    /\ job.len >= 1
    /\ Fits(job.d, job.len)
    /\ Ends
    /\ \/ /\ job.i < job.len
          /\ Harmless => /\ Same(0, job.i)
                         /\ \A k \in 0 .. job.i - 1 : before[job.s + k] # 0
          /\ Rest(job.d, job.d + job.i)
       \/ /\ job.i = Size + 1
          /\ Harmless => \E n \in 0 .. job.len - 1 : Length(n) /\ Copied(n)

LoopInv == MemcpyInv /\ DownInv /\ MemsetInv /\ StrncpyInv

IInv ==
  /\ CopyingTypeOK
  /\ LoopInv
  /\ program # "copies" => job = Idle

USE CopyingAssumption

------------------------------------------------------------------------------
(* A string that is copied has one length.                                 *)
LEMMA OneLength ==
  ASSUME CopyingTypeOK,
         NEW m \in 0 .. job.len - 1, NEW n \in 0 .. job.len - 1, Length(m), Length(n)
  PROVE  m = n
<1>1. job.len \in Nat /\ job.s \in Nat
  BY DEF CopyingTypeOK, Job
<1>2. ASSUME NEW x \in 0 .. job.len - 1, NEW y \in 0 .. job.len - 1, Length(x), Length(y)
      PROVE  ~(x < y)
  <2>1. SUFFICES ASSUME x < y PROVE FALSE
    OBVIOUS
  <2>2. x \in 0 .. y - 1 /\ x # job.len - 1
    BY <1>1, <2>1
  <2>3. QED
    BY <1>2, <2>2 DEF Length
<1>3. ~(m < n) /\ ~(n < m)
  BY <1>2
<1>4. QED
  BY <1>3, <1>1

(* The loops keep their promise when they end.                             *)
LEMMA LoopsSuffice == ASSUME IInv PROVE CopiedWhole
<1>1. CopyingTypeOK /\ LoopInv
  BY DEF IInv
<1>2. job.len \in Nat /\ job.i \in Nat /\ job.d \in Nat /\ job.s \in Nat
      /\ job.loop \in Copies \cup {"idle"}
  BY <1>1 DEF CopyingTypeOK, Job
<1>3. CASE job.loop = "idle"
  BY <1>3 DEF CopiedWhole, Finished
<1>4. CASE job.loop = "memcpy"
  <2>1. SUFFICES ASSUME job.i >= job.len, Harmless
                 PROVE  Same(0, job.len) /\ Rest(job.d, job.d + job.len)
    BY <1>4 DEF CopiedWhole, Finished, Same, Rest
  <2>2. QED
    BY <1>1, <1>2, <1>4, <2>1 DEF LoopInv, MemcpyInv
<1>5. CASE job.loop = "down"
  <2>1. SUFFICES ASSUME job.i = 0
                 PROVE  Same(0, job.len) /\ Rest(job.d, job.d + job.len)
    BY <1>5 DEF CopiedWhole, Finished, Same, Rest
  <2>2. QED
    BY <1>1, <1>2, <1>5, <2>1 DEF LoopInv, DownInv
<1>6. CASE job.loop = "memset"
  <2>1. SUFFICES ASSUME job.i >= job.len
                 PROVE  /\ \A k \in 0 .. job.len - 1 : mem[job.d + k] = job.byte
                        /\ Rest(job.d, job.d + job.len)
    BY <1>6 DEF CopiedWhole, Finished, Rest
  <2>2. QED
    BY <1>1, <1>2, <1>6, <2>1 DEF LoopInv, MemsetInv
<1>7. CASE job.loop = "strncpy"
  <2>1. ASSUME job.i > LastOf(job.len), Harmless, NEW n \in 0 .. job.len - 1, Length(n)
        PROVE  Copied(n)
    <3>1. PICK m \in 0 .. job.len - 1 : Length(m) /\ Copied(m)
      BY <1>1, <1>2, <1>7, <2>1 DEF LoopInv, StrncpyInv, LastOf
    <3>2. m = n
      BY <1>1, <2>1, <3>1, OneLength
    <3>3. QED
      BY <3>1, <3>2
  <2>2. QED
    <3>1. SUFFICES ASSUME Finished, Harmless, NEW n \in 0 .. job.len - 1, Length(n)
                   PROVE  /\ \A k \in 0 .. n - 1 : mem[job.d + k] = before[job.s + k]
                          /\ mem[job.d + n] = 0
                          /\ \A c \in Cells : ~(job.d <= c /\ c < job.d + (n + 1)) =>
                               mem[c] = before[c]
      BY <1>7 DEF CopiedWhole
    <3>2. job.i > LastOf(job.len)
      BY <1>7, <3>1 DEF Finished
    <3>3. Copied(n)
      BY <2>1, <3>1, <3>2
    <3>4. QED
      BY <1>2, <3>3 DEF Copied, Same, Rest
<1>8. QED
  BY <1>2, <1>3, <1>4, <1>5, <1>6, <1>7 DEF Copies
------------------------------------------------------------------------------
LEMMA Starts_IInv == Init => IInv
BY DEF Init, CopyingInit, IInv, CopyingTypeOK, LoopInv, MemcpyInv, DownInv, MemsetInv,
       StrncpyInv, Job, Idle

(* A function begins its loop: nothing is copied yet.                      *)
LEMMA StartTypes ==
  ASSUME NEW loop \in Copies, NEW d \in Cells, NEW s \in Cells, NEW len \in Nat,
         NEW byte \in Bytes, NEW i \in Nat, CopyingTypeOK, Start(loop, d, s, len, byte, i)
  PROVE  CopyingTypeOK'
BY DEF Start, CopyingTypeOK, Job, Cells

LEMMA MemcpyStarts ==
  ASSUME IInv, NEW d \in Cells, NEW s \in Cells, NEW len \in Nat,
         Fits(d, len), Fits(s, len), Start("memcpy", d, s, len, 0, 0)
  PROVE  CopyingTypeOK' /\ LoopInv'
<1>1. CopyingTypeOK'
  BY StartTypes DEF IInv, Copies
<1>2. MemcpyInv'
  BY DEF Start, MemcpyInv, InMemory, Fits, Same, Rest, Cells
<1>3. DownInv' /\ MemsetInv' /\ StrncpyInv'
  BY DEF Start, DownInv, MemsetInv, StrncpyInv
<1>4. QED
  BY <1>1, <1>2, <1>3 DEF LoopInv

LEMMA MemmoveStarts ==
  ASSUME IInv, eclib_memmove PROVE CopyingTypeOK' /\ LoopInv'
<1>1. PICK d \in Cells, s \in Cells, len \in 1 .. Size :
        /\ Fits(d, len) /\ Fits(s, len)
        /\ IF GoesDown(d, s, len) THEN Start("down", d, s, len, 0, len)
                                  ELSE Start("memcpy", d, s, len, 0, 0)
  BY DEF eclib_memmove
<1>2. len \in Nat
  OBVIOUS
<1>3. CASE ~GoesDown(d, s, len)
  BY <1>1, <1>2, <1>3, MemcpyStarts
<1>4. CASE GoesDown(d, s, len)
  <2>1. CopyingTypeOK'
    BY <1>1, <1>2, <1>4, StartTypes DEF IInv, Copies
  <2>2. DownInv'
    BY <1>1, <1>2, <1>4 DEF Start, DownInv, InMemory, Fits, Same, Rest, Cells, GoesDown
  <2>3. MemcpyInv' /\ MemsetInv' /\ StrncpyInv'
    BY <1>1, <1>4 DEF Start, MemcpyInv, MemsetInv, StrncpyInv
  <2>4. QED
    BY <2>1, <2>2, <2>3 DEF LoopInv
<1>5. QED
  BY <1>3, <1>4

LEMMA MemsetStarts ==
  ASSUME IInv, eclib_memset PROVE CopyingTypeOK' /\ LoopInv'
<1>1. PICK d \in Cells, len \in 1 .. Size, byte \in Bytes :
        Fits(d, len) /\ Start("memset", d, d, len, byte, 0)
  BY DEF eclib_memset
<1>2. len \in Nat
  OBVIOUS
<1>3. CopyingTypeOK'
  BY <1>1, <1>2, StartTypes DEF IInv, Copies
<1>4. MemsetInv'
  BY <1>1, <1>2 DEF Start, MemsetInv, InMemory, Fits, Rest, Cells
<1>5. MemcpyInv' /\ DownInv' /\ StrncpyInv'
  BY <1>1 DEF Start, MemcpyInv, DownInv, StrncpyInv
<1>6. QED
  BY <1>3, <1>4, <1>5 DEF LoopInv

LEMMA StrncpyStarts ==
  ASSUME IInv, eclib_strncpy PROVE CopyingTypeOK' /\ LoopInv'
<1>1. PICK d \in Cells, s \in Cells, max \in 1 .. Size :
        /\ Fits(d, max)
        /\ Fits(s, max - 1) \/ \E n \in Cells : HasLength(s, n)
        /\ Start("strncpy", d, s, max, 0, 0)
  BY DEF eclib_strncpy
<1>2. max \in Nat
  OBVIOUS
<1>3. CopyingTypeOK'
  BY <1>1, <1>2, StartTypes DEF IInv, Copies
<1>4. /\ job' = [loop |-> "strncpy", d |-> d, s |-> s, len |-> max, byte |-> 0, i |-> 0]
      /\ before' = mem /\ mem' = mem
  BY <1>1 DEF Start
<1>5. Ends'
  BY <1>1, <1>4 DEF Ends, HasLength, Fits
<1>6. StrncpyInv'
  <2>1. Rest(job.d, job.d + job.i)'
    BY <1>4 DEF Rest, Cells
  <2>2. (Harmless => Same(0, job.i) /\ \A k \in 0 .. job.i - 1 : before[job.s + k] # 0)'
    BY <1>4 DEF Same
  <2>3. (job.len >= 1 /\ Fits(job.d, job.len) /\ job.i < job.len)'
    BY <1>1, <1>4 DEF Fits
  <2>4. QED
    BY <1>5, <2>1, <2>2, <2>3 DEF StrncpyInv
<1>7. MemcpyInv' /\ DownInv' /\ MemsetInv'
  BY <1>4 DEF MemcpyInv, DownInv, MemsetInv
<1>8. QED
  BY <1>3, <1>6, <1>7 DEF LoopInv

------------------------------------------------------------------------------
(* A round writes one cell, and leaves what the job is.                    *)
LEMMA WriteFacts ==
  ASSUME CopyingTypeOK, NEW cell \in Cells, NEW byte \in Bytes, NEW next \in Nat,
         Write(cell, byte, next)
  PROVE  /\ CopyingTypeOK'
         /\ job' = [job EXCEPT !.i = next]
         /\ job'.loop = job.loop /\ job'.d = job.d /\ job'.s = job.s
         /\ job'.len = job.len /\ job'.byte = job.byte /\ job'.i = next
         /\ before' = before
         /\ mem'[cell] = byte
         /\ \A c \in Cells \ {cell} : mem'[c] = mem[c]
         /\ Harmless' <=> Harmless
BY DEF Write, CopyingTypeOK, Job, Harmless, GoesDown

LEMMA JobFacts ==
  ASSUME CopyingTypeOK
  PROVE  /\ job.d \in Nat /\ job.s \in Nat /\ job.len \in Nat /\ job.i \in Nat
         /\ job.byte \in Bytes
         /\ \A c \in Cells : mem[c] \in Bytes
BY DEF CopyingTypeOK, Job

LEMMA CopyKeeps == ASSUME IInv, Copy PROVE CopyingTypeOK' /\ LoopInv'
<1> DEFINE d == job.d
           s == job.s
           i == job.i
<1>1. /\ CopyingTypeOK /\ MemcpyInv
      /\ job.loop = "memcpy" /\ i < job.len
      /\ Write(d + i, mem[s + i], i + 1)
  BY DEF IInv, LoopInv, Copy
<1>2. d \in Nat /\ s \in Nat /\ job.len \in Nat /\ i \in Nat
  BY <1>1, JobFacts
<1>3. InMemory /\ (Harmless => Same(0, i)) /\ Rest(d, d + i)
  BY <1>1 DEF MemcpyInv
<1>4. d + i \in Cells /\ s + i \in Cells
  BY <1>1, <1>2, <1>3 DEF InMemory, Fits, Cells
<1>5. mem[s + i] \in Bytes
  BY <1>1, <1>4, JobFacts
<1>6. /\ CopyingTypeOK'
      /\ job'.loop = "memcpy" /\ job'.d = d /\ job'.s = s
      /\ job'.len = job.len /\ job'.i = i + 1
      /\ before' = before
      /\ mem'[d + i] = mem[s + i]
      /\ \A c \in Cells \ {d + i} : mem'[c] = mem[c]
      /\ Harmless' <=> Harmless
  BY <1>1, <1>2, <1>4, <1>5, WriteFacts
<1>7. InMemory'
  BY <1>3, <1>6 DEF InMemory, Fits
<1>8. ASSUME Harmless PROVE \A k \in 0 .. i : mem'[d + k] = before[s + k]
  <2>1. mem[s + i] = before[s + i]
    BY <1>1, <1>2, <1>3, <1>4, <1>8 DEF Harmless, GoesDown, Rest
  <2>2. \A k \in 0 .. i - 1 : d + k \in Cells /\ d + k # d + i
    BY <1>2, <1>4 DEF Cells
  <2>3. \A k \in 0 .. i - 1 : mem[d + k] = before[s + k]
    BY <1>3, <1>8 DEF Same
  <2>4. QED
    BY <1>2, <1>6, <2>1, <2>2, <2>3
<1>9. \A c \in Cells : ~(d <= c /\ c < d + (i + 1)) => mem'[c] = before[c]
  BY <1>2, <1>3, <1>6 DEF Rest, Cells
<1>10. MemcpyInv'
  BY <1>1, <1>2, <1>6, <1>7, <1>8, <1>9 DEF MemcpyInv, Same, Rest
<1>11. DownInv' /\ MemsetInv' /\ StrncpyInv'
  BY <1>6 DEF DownInv, MemsetInv, StrncpyInv
<1>12. QED
  BY <1>6, <1>10, <1>11 DEF LoopInv

LEMMA CopyDownKeeps == ASSUME IInv, CopyDown PROVE CopyingTypeOK' /\ LoopInv'
<1> DEFINE d == job.d
           s == job.s
           i == job.i
<1>1. /\ CopyingTypeOK /\ DownInv
      /\ job.loop = "down" /\ i > 0
      /\ Write(d + i - 1, mem[s + i - 1], i - 1)
  BY DEF IInv, LoopInv, CopyDown
<1>2. d \in Nat /\ s \in Nat /\ job.len \in Nat /\ i \in Nat
  BY <1>1, JobFacts
<1>3. /\ InMemory /\ GoesDown(d, s, job.len) /\ i <= job.len
      /\ Same(i, job.len) /\ Rest(d + i, d + job.len)
  BY <1>1 DEF DownInv
<1>4. d + i - 1 \in Cells /\ s + i - 1 \in Cells /\ i - 1 \in Nat
  BY <1>1, <1>2, <1>3 DEF InMemory, Fits, Cells
<1>5. mem[s + i - 1] \in Bytes
  BY <1>1, <1>4, JobFacts
<1>6. /\ CopyingTypeOK'
      /\ job'.loop = "down" /\ job'.d = d /\ job'.s = s
      /\ job'.len = job.len /\ job'.i = i - 1
      /\ before' = before
      /\ mem'[d + i - 1] = mem[s + i - 1]
      /\ \A c \in Cells \ {d + i - 1} : mem'[c] = mem[c]
  BY <1>1, <1>2, <1>4, <1>5, WriteFacts
<1>7. InMemory' /\ GoesDown(d, s, job.len)' /\ job'.i <= job.len
  BY <1>2, <1>3, <1>6 DEF InMemory, Fits, GoesDown
<1>8. \A k \in i - 1 .. job.len - 1 : mem'[d + k] = before[s + k]
  <2>1. mem[s + (i - 1)] = before[s + (i - 1)]
    BY <1>1, <1>2, <1>3, <1>4 DEF GoesDown, Rest
  <2>2. \A k \in i .. job.len - 1 : d + k \in Cells /\ d + k # d + i - 1
    BY <1>2, <1>3 DEF Cells, InMemory, Fits
  <2>3. \A k \in i .. job.len - 1 : mem[d + k] = before[s + k]
    BY <1>3 DEF Same
  <2>4. QED
    BY <1>2, <1>6, <2>1, <2>2, <2>3
<1>9. \A c \in Cells : ~(d + (i - 1) <= c /\ c < d + job.len) => mem'[c] = before[c]
  BY <1>2, <1>3, <1>4, <1>6 DEF Rest, Cells
<1>10. DownInv'
  BY <1>1, <1>2, <1>3, <1>6, <1>7, <1>8, <1>9 DEF DownInv, Same, Rest, GoesDown
<1>11. MemcpyInv' /\ MemsetInv' /\ StrncpyInv'
  BY <1>6 DEF MemcpyInv, MemsetInv, StrncpyInv
<1>12. QED
  BY <1>6, <1>10, <1>11 DEF LoopInv

LEMMA FillKeeps == ASSUME IInv, Fill PROVE CopyingTypeOK' /\ LoopInv'
<1> DEFINE d == job.d
           i == job.i
<1>1. /\ CopyingTypeOK /\ MemsetInv
      /\ job.loop = "memset" /\ i < job.len
      /\ Write(d + i, job.byte, i + 1)
  BY DEF IInv, LoopInv, Fill
<1>2. d \in Nat /\ job.s \in Nat /\ job.len \in Nat /\ i \in Nat /\ job.byte \in Bytes
  BY <1>1, JobFacts
<1>3. /\ InMemory /\ Rest(d, d + i)
      /\ \A k \in 0 .. i - 1 : mem[d + k] = job.byte
  BY <1>1 DEF MemsetInv
<1>4. d + i \in Cells
  BY <1>1, <1>2, <1>3 DEF InMemory, Fits, Cells
<1>5. /\ CopyingTypeOK'
      /\ job'.loop = "memset" /\ job'.d = d /\ job'.s = job.s
      /\ job'.len = job.len /\ job'.i = i + 1 /\ job'.byte = job.byte
      /\ before' = before
      /\ mem'[d + i] = job.byte
      /\ \A c \in Cells \ {d + i} : mem'[c] = mem[c]
  BY <1>1, <1>2, <1>4, WriteFacts
<1>6. InMemory'
  BY <1>3, <1>5 DEF InMemory, Fits
<1>7. \A k \in 0 .. i : mem'[d + k] = job.byte
  <2>1. \A k \in 0 .. i - 1 : d + k \in Cells /\ d + k # d + i
    BY <1>2, <1>4 DEF Cells
  <2>2. QED
    BY <1>2, <1>3, <1>5, <2>1
<1>8. \A c \in Cells : ~(d <= c /\ c < d + (i + 1)) => mem'[c] = before[c]
  BY <1>2, <1>3, <1>5 DEF Rest, Cells
<1>9. MemsetInv'
  BY <1>1, <1>2, <1>5, <1>6, <1>7, <1>8 DEF MemsetInv, Rest
<1>10. MemcpyInv' /\ DownInv' /\ StrncpyInv'
  BY <1>5 DEF MemcpyInv, DownInv, StrncpyInv
<1>11. QED
  BY <1>5, <1>9, <1>10 DEF LoopInv

(* The byte strncpy looks at is one of its memory: the string, or the      *)
(* length it was given, ends no earlier.                                   *)
LEMMA StrncpyReads ==
  ASSUME CopyingTypeOK, StrncpyInv, job.loop = "strncpy", job.i < job.len - 1
  PROVE  /\ job.s + job.i \in Cells
         /\ Harmless => mem[job.s + job.i] = before[job.s + job.i]
<1> DEFINE d == job.d
           s == job.s
           i == job.i
<1>1. d \in Nat /\ s \in Nat /\ job.len \in Nat /\ i \in Nat
  BY JobFacts
<1>2. /\ Fits(d, job.len) /\ Ends
      /\ Rest(d, d + i)
      /\ Harmless => \A k \in 0 .. i - 1 : before[s + k] # 0
  BY <1>1 DEF StrncpyInv, Fits
<1>3. s + i \in Cells
  <2>1. CASE Fits(s, job.len - 1)
    BY <1>1, <2>1 DEF Fits, Cells
  <2>2. CASE ~Harmless
    BY <1>1, <1>2, <2>2 DEF Harmless, GoesDown, Fits, Cells
  <2>3. CASE Harmless /\ ~Fits(s, job.len - 1)
    <3>1. PICK n \in Cells : s + n \in Cells /\ before[s + n] = 0
      BY <1>2, <2>3 DEF Ends
    <3>2. n \notin 0 .. i - 1
      BY <1>2, <2>3, <3>1
    <3>3. QED
      BY <1>1, <3>1, <3>2 DEF Cells
  <2>4. QED
    BY <2>1, <2>2, <2>3
<1>4. Harmless => ~(d <= s + i /\ s + i < d + i)
  BY <1>1 DEF Harmless, GoesDown
<1>5. QED
  BY <1>2, <1>3, <1>4 DEF Rest

LEMMA CopyStringKeeps == ASSUME IInv, CopyString PROVE CopyingTypeOK' /\ LoopInv'
<1> DEFINE d == job.d
           s == job.s
           i == job.i
<1>1. /\ CopyingTypeOK /\ StrncpyInv
      /\ job.loop = "strncpy" /\ i <= job.len - 1
      /\ IF i < job.len - 1 /\ mem[s + i] # 0
           THEN Write(d + i, mem[s + i], i + 1)
           ELSE Write(d + i, 0, Size + 1)
  BY DEF IInv, LoopInv, CopyString, LastOf
<1>2. d \in Nat /\ s \in Nat /\ job.len \in Nat /\ i \in Nat
  BY <1>1, JobFacts
<1>3. /\ job.len >= 1 /\ Fits(d, job.len) /\ Ends
      /\ Harmless => Same(0, i) /\ \A k \in 0 .. i - 1 : before[s + k] # 0
      /\ Rest(d, d + i)
  BY <1>1, <1>2 DEF StrncpyInv, Fits
<1>4. d + i \in Cells
  BY <1>1, <1>2, <1>3 DEF Fits, Cells
<1>5. \A k \in 0 .. i - 1 : d + k \in Cells /\ d + k # d + i
  BY <1>2, <1>4 DEF Cells
<1>6. CASE i < job.len - 1 /\ mem[s + i] # 0
  <2>1. s + i \in Cells /\ (Harmless => mem[s + i] = before[s + i])
    BY <1>1, <1>6, StrncpyReads
  <2>2. mem[s + i] \in Bytes
    BY <1>1, <2>1, JobFacts
  <2>3. /\ CopyingTypeOK'
        /\ job'.loop = "strncpy" /\ job'.d = d /\ job'.s = s
        /\ job'.len = job.len /\ job'.i = i + 1
        /\ before' = before
        /\ mem'[d + i] = mem[s + i]
        /\ \A c \in Cells \ {d + i} : mem'[c] = mem[c]
        /\ Harmless' <=> Harmless
    BY <1>1, <1>2, <1>4, <1>6, <2>2, WriteFacts
  <2>4. Ends' /\ Fits(d, job.len)'
    BY <1>3, <2>3 DEF Ends, Fits
  <2>5. ASSUME Harmless PROVE \A k \in 0 .. i : mem'[d + k] = before[s + k]
    <3>1. \A k \in 0 .. i - 1 : mem[d + k] = before[s + k]
      BY <1>3, <2>5 DEF Same
    <3>2. QED
      BY <1>2, <1>5, <2>1, <2>3, <2>5, <3>1
  <2>6. ASSUME Harmless PROVE \A k \in 0 .. i : before[s + k] # 0
    BY <1>2, <1>3, <1>6, <2>1, <2>6
  <2>7. \A c \in Cells : ~(d <= c /\ c < d + (i + 1)) => mem'[c] = before[c]
    BY <1>2, <1>3, <2>3 DEF Rest, Cells
  <2>8. StrncpyInv'
    BY <1>2, <1>3, <1>6, <2>3, <2>4, <2>5, <2>6, <2>7 DEF StrncpyInv, Same, Rest, Fits
  <2>9. MemcpyInv' /\ DownInv' /\ MemsetInv'
    BY <2>3 DEF MemcpyInv, DownInv, MemsetInv
  <2>10. QED
    BY <2>3, <2>8, <2>9 DEF LoopInv
<1>7. CASE ~(i < job.len - 1 /\ mem[s + i] # 0)
  <2>1. Size + 1 \in Nat
    OBVIOUS
  <2>2. /\ CopyingTypeOK'
        /\ job'.loop = "strncpy" /\ job'.d = d /\ job'.s = s
        /\ job'.len = job.len /\ job'.i = Size + 1
        /\ before' = before
        /\ mem'[d + i] = 0
        /\ \A c \in Cells \ {d + i} : mem'[c] = mem[c]
        /\ Harmless' <=> Harmless
    BY <1>1, <1>4, <1>7, <2>1, WriteFacts
  <2>3. Ends' /\ Fits(d, job.len)'
    BY <1>3, <2>2 DEF Ends, Fits
  <2>4. PICK n \in 0 .. job.len - 1 : n = i
    BY <1>1, <1>2
  <2>5. ASSUME Harmless PROVE Length(n)' /\ Copied(n)'
    <3>1. n = job.len - 1 \/ before[s + n] = 0
      <4>1. CASE i < job.len - 1
        BY <1>1, <1>7, <2>4, <2>5, <4>1, StrncpyReads
      <4>2. QED
        BY <1>1, <1>2, <2>4, <4>1
    <3>2. Length(n)'
      BY <1>2, <1>3, <2>2, <2>4, <2>5, <3>1 DEF Length
    <3>3. \A k \in 0 .. n - 1 : mem'[d + k] = before[s + k]
      BY <1>3, <1>5, <2>2, <2>4, <2>5 DEF Same
    <3>4. \A c \in Cells : ~(d <= c /\ c < d + n + 1) => mem'[c] = before[c]
      BY <1>2, <1>3, <2>2, <2>4 DEF Rest, Cells
    <3>5. QED
      BY <2>2, <2>4, <3>2, <3>3, <3>4 DEF Copied, Same, Rest
  <2>6. StrncpyInv'
    BY <1>3, <2>2, <2>3, <2>4, <2>5 DEF StrncpyInv
  <2>7. MemcpyInv' /\ DownInv' /\ MemsetInv'
    BY <2>2 DEF MemcpyInv, DownInv, MemsetInv
  <2>8. QED
    BY <2>2, <2>6, <2>7 DEF LoopInv
<1>8. QED
  BY <1>6, <1>7

------------------------------------------------------------------------------
LEMMA IdleLoops == job' = Idle => LoopInv'
BY DEF Idle, LoopInv, MemcpyInv, DownInv, MemsetInv, StrncpyInv

LEMMA DoneKeeps == ASSUME IInv, Done PROVE CopyingTypeOK' /\ LoopInv'
BY IdleLoops DEF Done, IInv, CopyingTypeOK, Job, Idle

LEMMA CopyingKeeps == ASSUME IInv, CopyingNext PROVE CopyingTypeOK' /\ LoopInv'
<1>1. CASE eclib_memcpy
  BY <1>1, MemcpyStarts DEF eclib_memcpy
<1>2. CASE eclib_memmove
  BY <1>2, MemmoveStarts
<1>3. CASE eclib_memset
  BY <1>3, MemsetStarts
<1>4. CASE eclib_strncpy
  BY <1>4, StrncpyStarts
<1>5. CASE eclib_strdup
  <2>1. PICK d \in Cells, s \in Cells, n \in Cells :
          /\ HasLength(s, n) /\ Fits(d, n + 1)
          /\ Start("memcpy", d, s, n + 1, 0, 0)
    BY <1>5 DEF eclib_strdup
  <2>2. Fits(s, n + 1) /\ n + 1 \in Nat
    BY <2>1 DEF HasLength, Fits, Cells
  <2>3. QED
    BY <2>1, <2>2, MemcpyStarts
<1>6. CASE Copy
  BY <1>6, CopyKeeps
<1>7. CASE CopyDown
  BY <1>7, CopyDownKeeps
<1>8. CASE Fill
  BY <1>8, FillKeeps
<1>9. CASE CopyString
  BY <1>9, CopyStringKeeps
<1>10. CASE Done
  BY <1>10, DoneKeeps
<1>11. QED
  BY <1>1, <1>2, <1>3, <1>4, <1>5, <1>6, <1>7, <1>8, <1>9, <1>10 DEF CopyingNext

(* strtok writes terminators, but not while something is copied.           *)
LEMMA ScanningTypes ==
  ASSUME IInv, ScanningNext PROVE job' = job /\ before' = before /\ mem' \in [Cells -> Bytes]
<1>1. mem \in [Cells -> Bytes]
  BY DEF IInv, CopyingTypeOK
<1>2. ASSUME NEW p, NEW d, NEW x, Tokenize(p, d, x) PROVE mem' \in [Cells -> Bytes]
  BY <1>1, <1>2 DEF Tokenize
<1>3. QED
  BY <1>1, <1>2 DEF ScanningNext, eclib_strtok, strtok_nothing, strtok_continue

LEMMA NextKeeps == ASSUME IInv, [Next]_vars PROVE IInv'
<1>1. CASE program = "copies" /\ CopyingNext /\ UNCHANGED <<scan, printing, packing, program>>
  BY <1>1, CopyingKeeps DEF IInv
<1>2. CASE program = "splits" /\ ScanningNext /\ UNCHANGED <<printing, packing, program>>
  <2>1. job' = Idle /\ before' = before /\ mem' \in [Cells -> Bytes] /\ program' = program
    BY <1>2, ScanningTypes DEF IInv
  <2>2. CopyingTypeOK'
    BY <2>1 DEF IInv, CopyingTypeOK, Job, Idle
  <2>3. QED
    BY <2>1, <2>2, IdleLoops DEF IInv
<1>3. CASE UNCHANGED <<mem, job, before, program>>
  <2>1. CopyingTypeOK' /\ (program' # "copies" => job' = Idle)
    BY <1>3 DEF IInv, CopyingTypeOK
  <2>2. MemcpyInv' /\ DownInv' /\ MemsetInv'
    BY <1>3 DEF IInv, LoopInv, MemcpyInv, DownInv, MemsetInv, InMemory, Fits, Same, Rest,
                Harmless, GoesDown
  <2>3. StrncpyInv'
    BY <1>3 DEF IInv, LoopInv, StrncpyInv, Fits, Same, Rest, Ends, Copied, Length,
                Harmless, GoesDown
  <2>4. QED
    BY <2>1, <2>2, <2>3 DEF IInv, LoopInv
<1>4. QED
  BY <1>1, <1>2, <1>3 DEF Next, vars

(* For every memory and every pair of places in it, memmove, memset,       *)
(* strncpy and, on areas that allow it, memcpy leave the destination as    *)
(* the source was, and nothing else changed                                *)
(* (src/src/utils/utils.c:28-38, 81-121).                                  *)
THEOREM AlwaysCopiedWhole == Spec => []CopiedWhole
<1>1. IInv /\ [Next]_vars => IInv'
  BY NextKeeps
<1>2. IInv => CopiedWhole
  BY LoopsSuffice
<1>3. QED
  BY Starts_IInv, <1>1, <1>2, PTL DEF Spec

------------------------------------------------------------------------------
(* strtok.  Facts about a memory m, a string in it that begins at p and    *)
(* ends at end, and a set of delimiters d.                                 *)

LEMMA Least ==
  ASSUME NEW S, S \subseteq Nat, S # {}
  PROVE  \E m \in S : \A k \in S : m <= k
<1>1. IsWellFoundedOn(OpToRel(<, Nat), Nat)
  BY NatLessThanWellFounded
<1>2. PICK m \in S : \A k \in S : ~(<<k, m>> \in OpToRel(<, Nat))
  BY <1>1, WFMin
<1>3. \A k \in S : ~(k < m)
  BY <1>2 DEF OpToRel
<1>4. QED
  BY <1>3

LEMMA FirstIsLeast ==
  ASSUME NEW S, S \subseteq Nat, S # {}
  PROVE  First(S) \in S /\ \A k \in S : First(S) <= k
BY Least DEF First

LengthIn(m, p, n) == /\ n \in Nat /\ p + n \in Cells /\ m[p + n] = 0
                     /\ \A k \in 0 .. n - 1 : m[p + k] # 0

LenIn(m, p) == CHOOSE n \in Cells : LengthIn(m, p, n)

LEMMA StringLength ==
  ASSUME NEW m, NEW p \in Cells, \E k \in Cells : p <= k /\ m[k] = 0
  PROVE  LengthIn(m, p, LenIn(m, p))
<1> DEFINE S == {n \in Nat : p + n \in Cells /\ m[p + n] = 0}
<1>1. S # {}
  <2>1. PICK k \in Cells : p <= k /\ m[k] = 0
    OBVIOUS
  <2>2. k - p \in S
    BY <2>1 DEF Cells
  <2>3. QED
    BY <2>2
<1>2. PICK n \in S : \A k \in S : n <= k
  BY <1>1, Least
<1>3. LengthIn(m, p, n)
  BY <1>2 DEF LengthIn, Cells
<1>4. n \in Cells
  BY <1>2 DEF Cells
<1>5. QED
  BY <1>3, <1>4 DEF LenIn

TokensIn(m, p, d, end) ==
  {x \in (p .. end) \X (1 .. Size - 1) :
     /\ x[1] + x[2] <= end
     /\ \A k \in x[1] .. x[1] + x[2] - 1 : m[k] \notin d
     /\ x[1] = p \/ m[x[1] - 1] \in d
     /\ x[1] + x[2] = end \/ m[x[1] + x[2]] \in d}

(* The string, and the delimiters in front of its first token, at b.       *)
Skips(m, p, d, end, b) ==
  /\ p \in Cells /\ end \in Cells /\ b \in p .. end
  /\ \A k \in p .. b - 1 : m[k] \in d
  /\ m[b] \notin d

(* The first token ends in front of e.                                     *)
FirstToken(m, p, d, end, b, e) ==
  /\ Skips(m, p, d, end, b)
  /\ e \in b + 1 .. end
  /\ \A k \in b .. e - 1 : m[k] \notin d
  /\ e = end \/ m[e] \in d

LEMMA NoToken ==
  ASSUME NEW m, NEW p, NEW d, NEW end, Skips(m, p, d, end, end)
  PROVE  TokensIn(m, p, d, end) = {}
<1>1. SUFFICES ASSUME NEW x \in TokensIn(m, p, d, end) PROVE FALSE
  OBVIOUS
<1>2. x[1] \in p .. end - 1 /\ m[x[1]] \notin d
  BY <1>1 DEF TokensIn, Skips, Cells
<1>3. QED
  BY <1>2 DEF Skips

LEMMA FirstIsToken ==
  ASSUME NEW m, NEW p, NEW d, NEW end, NEW b, NEW e, FirstToken(m, p, d, end, b, e)
  PROVE  /\ <<b, e - b>> \in TokensIn(m, p, d, end)
         /\ \A x \in TokensIn(m, p, d, end) : b <= x[1]
         /\ \A x \in TokensIn(m, p, d, end) : x[1] <= e => x = <<b, e - b>>
<1>1. /\ p \in Nat /\ end \in Nat /\ end < Size /\ b \in p .. end /\ e \in b + 1 .. end
  BY DEF FirstToken, Skips, Cells
<1>2. <<b, e - b>> \in TokensIn(m, p, d, end)
  <2>1. <<b, e - b>> \in (p .. end) \X (1 .. Size - 1)
    BY <1>1
  <2>2. b + (e - b) = e
    BY <1>1
  <2>3. b = p \/ m[b - 1] \in d
    BY <1>1 DEF FirstToken, Skips
  <2>4. QED
    BY <1>1, <2>1, <2>2, <2>3 DEF FirstToken, TokensIn
<1>3. ASSUME NEW x \in TokensIn(m, p, d, end)
      PROVE  b <= x[1] /\ (x[1] <= e => x = <<b, e - b>>)
  <2>1. /\ x = <<x[1], x[2]>> /\ x[1] \in p .. end /\ x[2] \in 1 .. Size - 1
        /\ x[1] + x[2] <= end
    BY <1>3 DEF TokensIn
  <2>2. /\ \A k \in x[1] .. x[1] + x[2] - 1 : m[k] \notin d
        /\ x[1] = p \/ m[x[1] - 1] \in d
        /\ x[1] + x[2] = end \/ m[x[1] + x[2]] \in d
    BY <1>3 DEF TokensIn
  <2>3. m[x[1]] \notin d
    BY <1>1, <2>1, <2>2
  <2>4. b <= x[1]
    BY <1>1, <2>1, <2>3 DEF FirstToken, Skips
  <2>5. ASSUME x[1] <= e PROVE x[1] = b
    <3>1. x[1] # e
      BY <1>1, <2>1, <2>3 DEF FirstToken
    <3>2. x[1] > b => m[x[1] - 1] \notin d
      BY <1>1, <2>1, <2>5, <3>1 DEF FirstToken
    <3>3. QED
      BY <1>1, <2>1, <2>2, <2>4, <3>2
  <2>6. ASSUME x[1] = b PROVE x[1] + x[2] = e
    <3>1. ~(x[1] + x[2] < e)
      BY <1>1, <2>1, <2>2, <2>6 DEF FirstToken
    <3>2. ~(x[1] + x[2] > e)
      BY <1>1, <2>1, <2>2, <2>6 DEF FirstToken
    <3>3. QED
      BY <1>1, <2>1, <3>1, <3>2
  <2>7. QED
    BY <1>1, <2>1, <2>4, <2>5, <2>6
<1>4. QED
  BY <1>2, <1>3

(* The next call finds the other tokens, in the memory that strtok has     *)
(* written a terminator to.                                                *)
LEMMA OthersRemain ==
  ASSUME NEW p, NEW d, NEW end, NEW b, NEW e,
         FirstToken(mem, p, d, end, b, e), e < end,
         \A k \in e + 1 .. end : mem'[k] = mem[k]
  PROVE  TokensIn(mem', e + 1, d, end) = TokensIn(mem, p, d, end) \ {<<b, e - b>>}
<1>1. /\ p \in Nat /\ end \in Nat /\ end < Size /\ b \in p .. end /\ e \in b + 1 .. end
      /\ mem[e] \in d
  BY DEF FirstToken, Skips, Cells
<1>2. \A k \in e + 1 .. end : mem'[k] = mem[k]
  OBVIOUS
<1>3. ASSUME NEW x \in TokensIn(mem', e + 1, d, end)
      PROVE  x \in TokensIn(mem, p, d, end) \ {<<b, e - b>>}
  <2>1. /\ x = <<x[1], x[2]>> /\ x[1] \in e + 1 .. end /\ x[2] \in 1 .. Size - 1
        /\ x[1] + x[2] <= end
    BY <1>3 DEF TokensIn
  <2>2. /\ \A k \in x[1] .. x[1] + x[2] - 1 : mem'[k] \notin d
        /\ x[1] = e + 1 \/ mem'[x[1] - 1] \in d
        /\ x[1] + x[2] = end \/ mem'[x[1] + x[2]] \in d
    BY <1>3 DEF TokensIn
  <2>3. \A k \in x[1] .. x[1] + x[2] - 1 : mem[k] \notin d
    BY <1>1, <1>2, <2>1, <2>2
  <2>4. mem[x[1] - 1] \in d
    <3>1. CASE x[1] = e + 1
      BY <1>1, <3>1
    <3>2. CASE x[1] # e + 1
      <4>1. x[1] - 1 \in e + 1 .. end
        BY <1>1, <2>1, <3>2
      <4>2. QED
        BY <1>2, <2>2, <3>2, <4>1
    <3>3. QED
      BY <3>1, <3>2
  <2>5. x[1] + x[2] = end \/ mem[x[1] + x[2]] \in d
    BY <1>1, <1>2, <2>1, <2>2
  <2>6. x \in (p .. end) \X (1 .. Size - 1)
    BY <1>1, <2>1
  <2>7. x \in TokensIn(mem, p, d, end)
    BY <2>1, <2>3, <2>4, <2>5, <2>6 DEF TokensIn
  <2>8. QED
    BY <1>1, <2>1, <2>7
<1>4. ASSUME NEW x \in TokensIn(mem, p, d, end) \ {<<b, e - b>>}
      PROVE  x \in TokensIn(mem', e + 1, d, end)
  <2>1. /\ x = <<x[1], x[2]>> /\ x[1] \in p .. end /\ x[2] \in 1 .. Size - 1
        /\ x[1] + x[2] <= end
    BY <1>4 DEF TokensIn
  <2>2. /\ \A k \in x[1] .. x[1] + x[2] - 1 : mem[k] \notin d
        /\ x[1] = p \/ mem[x[1] - 1] \in d
        /\ x[1] + x[2] = end \/ mem[x[1] + x[2]] \in d
    BY <1>4 DEF TokensIn
  <2>3. x[1] \in e + 1 .. end
    <3>1. x \in TokensIn(mem, p, d, end) /\ x # <<b, e - b>>
      BY <1>4
    <3>2. ~(x[1] <= e)
      BY <3>1, FirstIsToken
    <3>3. QED
      BY <1>1, <2>1, <3>2
  <2>4. \A k \in x[1] .. x[1] + x[2] - 1 : mem'[k] \notin d
    BY <1>1, <1>2, <2>1, <2>2, <2>3
  <2>5. x[1] = e + 1 \/ mem'[x[1] - 1] \in d
    <3>1. CASE x[1] # e + 1
      <4>1. x[1] - 1 \in e + 1 .. end
        BY <1>1, <2>3, <3>1
      <4>2. mem[x[1] - 1] \in d
        BY <1>1, <2>1, <2>2, <2>3
      <4>3. QED
        BY <1>2, <4>1, <4>2
    <3>2. QED
      BY <3>1
  <2>6. x[1] + x[2] = end \/ mem'[x[1] + x[2]] \in d
    BY <1>1, <1>2, <2>1, <2>2, <2>3
  <2>7. x \in (e + 1 .. end) \X (1 .. Size - 1)
    BY <2>1, <2>3
  <2>8. QED
    BY <2>1, <2>4, <2>5, <2>6, <2>7 DEF TokensIn
<1>5. QED
  BY <1>3, <1>4

(* Where the loops of strtok stop.                                         *)
LEMMA LoopsOfStrtok ==
  ASSUME NEW p \in Cells, NEW d, 0 \notin d, NEW end \in Cells, p <= end, mem[end] = 0,
         \A k \in p .. end - 1 : mem[k] # 0
  PROVE  LET b == Skipped(p, d)
             e == EndOf(b, d)
         IN  /\ Skips(mem, p, d, end, b)
             /\ mem[b] = 0 <=> b = end
             /\ mem[b] # 0 => FirstToken(mem, p, d, end, b, e)
             /\ e \in Cells
             /\ mem[b] # 0 => (mem[e] = 0 <=> e = end)
<1> DEFINE b == Skipped(p, d)
           e == EndOf(b, d)
           S == {k \in Cells : p <= k /\ mem[k] \notin d}
           E == {k \in Cells : b <= k /\ (mem[k] \in d \/ mem[k] = 0)}
<1>1. p \in Nat /\ end \in Nat /\ end < Size
  BY DEF Cells
<1>2. b \in S /\ \A k \in S : b <= k
  <2>1. end \in S /\ S \subseteq Nat
    BY <1>1 DEF Cells
  <2>2. First(S) \in S /\ \A k \in S : First(S) <= k
    BY <2>1, FirstIsLeast
  <2>3. QED
    BY <2>2 DEF Skipped
<1>3. /\ b \in Cells /\ b \in p .. end /\ mem[b] \notin d
      /\ \A k \in p .. b - 1 : mem[k] \in d
  BY <1>1, <1>2 DEF Cells
<1>4. Skips(mem, p, d, end, b)
  BY <1>3 DEF Skips
<1>5. mem[b] = 0 <=> b = end
  BY <1>1, <1>3
<1>6. e \in E /\ \A k \in E : e <= k
  <2>1. end \in E /\ E \subseteq Nat
    BY <1>1, <1>3 DEF Cells
  <2>2. First(E) \in E /\ \A k \in E : First(E) <= k
    BY <2>1, FirstIsLeast
  <2>3. QED
    BY <2>2 DEF EndOf
<1>7. /\ e \in Cells /\ e \in b .. end
      /\ \A k \in b .. e - 1 : mem[k] \notin d
      /\ mem[e] \in d \/ mem[e] = 0
  BY <1>1, <1>3, <1>6 DEF Cells
<1>8. mem[b] # 0 => e \in b + 1 .. end
  BY <1>1, <1>3, <1>7
<1>9. e = end \/ mem[e] \in d
  BY <1>1, <1>3, <1>7
<1>10. mem[e] = 0 <=> e = end
  BY <1>1, <1>3, <1>7
<1>11. QED
  BY <1>4, <1>5, <1>7, <1>8, <1>9, <1>10 DEF FirstToken

LEMMA EndOfString ==
  ASSUME NEW p \in Cells, IsString(p)
  PROVE  LET end == p + eclib_strlen(p)
         IN  /\ end \in Cells /\ p <= end /\ mem[end] = 0
             /\ \A k \in p .. end - 1 : mem[k] # 0
<1>1. LengthIn(mem, p, LenIn(mem, p))
  BY StringLength DEF IsString
<1>2. eclib_strlen(p) = LenIn(mem, p)
  BY DEF LenIn, eclib_strlen, HasLength, LengthIn
<1>3. PICK n \in Nat : n = eclib_strlen(p) /\ LengthIn(mem, p, n)
  BY <1>1, <1>2 DEF LengthIn
<1>4. ASSUME NEW k \in p .. p + n - 1 PROVE mem[k] # 0
  <2>1. PICK i \in 0 .. n - 1 : p + i = k
    BY <1>3 DEF Cells
  <2>2. QED
    BY <1>3, <2>1 DEF LengthIn
<1>5. QED
  BY <1>3, <1>4 DEF LengthIn, Cells

(* A string has one end.                                                   *)
LEMMA StringEnds ==
  ASSUME NEW m, NEW p \in Cells, NEW end \in Cells, p <= end, m[end] = 0,
         \A k \in p .. end - 1 : m[k] # 0
  PROVE  p + LenIn(m, p) = end
<1>1. PICK n : n = LenIn(m, p) /\ LengthIn(m, p, n)
  BY StringLength
<1>2. n \in Nat /\ p + n \in Cells /\ m[p + n] = 0 /\ \A k \in 0 .. n - 1 : m[p + k] # 0
  BY <1>1 DEF LengthIn
<1>3. ~(p + n < end)
  BY <1>2 DEF Cells
<1>4. ~(end < p + n)
  <2>1. SUFFICES ASSUME end < p + n PROVE FALSE
    OBVIOUS
  <2>2. PICK i \in 0 .. n - 1 : p + i = end
    BY <1>2, <2>1 DEF Cells
  <2>3. QED
    BY <1>2, <2>2
<1>5. QED
  <2>1. p + n = end
    BY <1>2, <1>3, <1>4 DEF Cells
  <2>2. QED
    BY <1>1, <2>1

LEMMA TokensAre ==
  ASSUME NEW p \in Cells, NEW d, 0 \notin d, IsString(p)
  PROVE  Tokens(p, d) = TokensIn(mem, p, d, p + eclib_strlen(p))
BY DEF Tokens, TokensIn

(* One call of strtok returns the first token that was left, and leaves    *)
(* the others.                                                             *)
LEMMA TokenizeStep ==
  ASSUME mem \in [Cells -> Bytes], NEW p \in Cells, NEW d, 0 \notin d, IsString(p),
         Tokenize(p, d, Tokens(p, d))
  PROVE  /\ told'.token = told'.due
         /\ save' \in Cells
         /\ \E k \in Cells : save' <= k /\ mem'[k] = 0
         /\ due' = TokensIn(mem', save', d, save' + LenIn(mem', save'))
<1> DEFINE T == Tokens(p, d)
<1>1. PICK end \in Cells :
        /\ end = p + eclib_strlen(p)
        /\ p <= end /\ mem[end] = 0 /\ \A k \in p .. end - 1 : mem[k] # 0
  BY EndOfString
<1>2. T = TokensIn(mem, p, d, end)
  BY <1>1, TokensAre
<1>3. PICK b, e :
        /\ b = Skipped(p, d) /\ e = EndOf(b, d)
        /\ Skips(mem, p, d, end, b)
        /\ mem[b] = 0 <=> b = end
        /\ mem[b] # 0 => FirstToken(mem, p, d, end, b, e)
        /\ e \in Cells
        /\ mem[b] # 0 => (mem[e] = 0 <=> e = end)
  BY <1>1, LoopsOfStrtok
<1>4. PICK next :
      /\ next = IF T = {} THEN Null ELSE CHOOSE x \in T : \A y \in T : x[1] <= y[1]
      /\ IF mem[b] = 0
           THEN save' = b /\ UNCHANGED mem
           ELSE save' = NextPlace(e) /\ mem' = [mem EXCEPT ![e] = 0]
      /\ due' = T \ {next}
      /\ told' = [token |-> IF mem[b] = 0 THEN Null ELSE <<b, e - b>>, due |-> next]
  BY <1>3 DEF Tokenize
<1>5. b \in Cells /\ b <= end /\ p <= b
  BY <1>1, <1>3 DEF Skips, Cells
<1>6. CASE mem[b] = 0
  <2>1. b = end /\ T = {}
    BY <1>2, <1>3, <1>6, NoToken
  <2>2. save' = end /\ mem' = mem /\ due' = {} /\ told'.token = told'.due
    BY <1>4, <1>6, <2>1
  <2>3. end + LenIn(mem, end) = end
    BY <1>1, StringEnds DEF Cells
  <2>4. Skips(mem, end, d, end, end)
    BY <1>3, <2>1 DEF Skips, Cells
  <2>5. TokensIn(mem, end, d, end) = {}
    BY <2>4, NoToken
  <2>6. QED
    BY <1>1, <2>2, <2>3, <2>5 DEF Cells
<1>7. CASE mem[b] # 0
  <2>1. FirstToken(mem, p, d, end, b, e) /\ (mem[e] = 0 <=> e = end)
    BY <1>3, <1>7
  <2>2. /\ <<b, e - b>> \in T
        /\ \A x \in T : b <= x[1]
        /\ \A x \in T : x[1] <= e => x = <<b, e - b>>
    BY <1>2, <2>1, FirstIsToken
  <2>3. e \in b + 1 .. end /\ b < e
    BY <1>1, <1>5, <2>1 DEF FirstToken, Cells
  <2>4. next = <<b, e - b>>
    <3>1. \A y \in T : <<b, e - b>>[1] <= y[1]
      BY <2>2
    <3>2. next \in T /\ \A y \in T : next[1] <= y[1]
      BY <1>4, <2>2, <3>1
    <3>3. next[1] <= e
      <4>1. next[1] <= b
        BY <2>2, <3>2
      <4>2. next[1] \in Nat
        BY <1>1, <1>2, <1>5, <3>2 DEF TokensIn, Cells
      <4>3. QED
        BY <1>3, <1>5, <2>3, <4>1, <4>2 DEF Cells
    <3>4. QED
      BY <2>2, <3>2, <3>3
  <2>5. told'.token = told'.due /\ due' = T \ {<<b, e - b>>} /\ mem' = [mem EXCEPT ![e] = 0]
        /\ save' = NextPlace(e)
    BY <1>4, <1>7, <2>4
  <2>6. CASE e = end
    <3>1. save' = end /\ mem'[end] = 0
      BY <1>1, <2>5, <2>6 DEF NextPlace
    <3>2. end + LenIn(mem', end) = end
      BY <1>1, <3>1, StringEnds DEF Cells
    <3>3. TokensIn(mem', end, d, end) = {}
      BY <3>1, NoToken DEF Skips, Cells
    <3>4. T \subseteq {<<b, e - b>>}
      <4>1. ASSUME NEW x \in T PROVE x[1] <= e
        BY <1>1, <1>2, <1>3, <2>6, <4>1 DEF TokensIn, Cells
      <4>2. QED
        BY <2>2, <4>1
    <3>5. due' = {}
      BY <2>5, <3>4
    <3>6. due' = TokensIn(mem', save', d, save' + LenIn(mem', save'))
      BY <3>1, <3>2, <3>3, <3>5
    <3>7. end \in Cells /\ save' <= end /\ mem'[end] = 0
      BY <1>1, <3>1 DEF Cells
    <3>8. QED
      BY <2>5, <3>1, <3>6, <3>7
  <2>7. CASE e # end
    <3>1. save' = e + 1 /\ e < end
      BY <1>1, <2>1, <2>3, <2>5, <2>7 DEF NextPlace, Cells
    <3>2. e + 1 \in Cells /\ e + 1 <= end /\ mem'[end] = 0
      BY <1>1, <1>3, <2>5, <3>1 DEF Cells
    <3>3. \A k \in e + 1 .. end - 1 : mem'[k] # 0
      BY <1>1, <1>3, <1>5, <2>3, <2>5 DEF Cells
    <3>4. e + 1 + LenIn(mem', e + 1) = end
      BY <3>2, <3>3, StringEnds
    <3>5. TokensIn(mem', e + 1, d, end) = T \ {<<b, e - b>>}
      <4>1. \A k \in e + 1 .. end : mem'[k] = mem[k]
        BY <1>1, <1>3, <1>5, <2>3, <2>5 DEF Cells
      <4>2. TokensIn(mem', e + 1, d, end) = TokensIn(mem, p, d, end) \ {<<b, e - b>>}
        BY <2>1, <3>1, <4>1, OthersRemain
      <4>3. QED
        BY <1>2, <4>2
    <3>6. QED
      BY <2>5, <3>1, <3>2, <3>4, <3>5
  <2>8. QED
    BY <2>6, <2>7
<1>8. QED
  BY <1>6, <1>7

(* Whoever calls, strtok_state is left at a string.                        *)
LEMMA StateIsString ==
  ASSUME mem \in [Cells -> Bytes], NEW p \in Cells, NEW d, 0 \notin d, IsString(p),
         NEW x, Tokenize(p, d, x)
  PROVE  save' \in Cells /\ \E k \in Cells : save' <= k /\ mem'[k] = 0
<1>1. PICK end \in Cells :
        /\ end = p + eclib_strlen(p)
        /\ p <= end /\ mem[end] = 0 /\ \A k \in p .. end - 1 : mem[k] # 0
  BY EndOfString
<1>2. PICK b, e :
        /\ b = Skipped(p, d) /\ e = EndOf(b, d)
        /\ Skips(mem, p, d, end, b)
        /\ mem[b] = 0 <=> b = end
        /\ mem[b] # 0 => FirstToken(mem, p, d, end, b, e)
        /\ e \in Cells
        /\ mem[b] # 0 => (mem[e] = 0 <=> e = end)
  BY <1>1, LoopsOfStrtok
<1>3. IF mem[b] = 0 THEN save' = b /\ UNCHANGED mem
                    ELSE save' = NextPlace(e) /\ mem' = [mem EXCEPT ![e] = 0]
  BY <1>2 DEF Tokenize
<1>4. CASE mem[b] = 0
  BY <1>1, <1>2, <1>3, <1>4 DEF Cells
<1>5. CASE mem[b] # 0
  <2>1. e <= end
    BY <1>1, <1>2, <1>5 DEF FirstToken, Skips, Cells
  <2>2. mem'[end] = 0
    BY <1>1, <1>3, <1>5
  <2>3. save' \in Cells /\ save' <= end
    BY <1>1, <1>2, <1>3, <1>5, <2>1 DEF NextPlace, Cells
  <2>4. QED
    BY <2>2, <2>3
<1>6. QED
  BY <1>4, <1>5

(* What is left of the owner's text, unless another caller came between.   *)
Left == TokensIn(mem, save, delim[owner], save + LenIn(mem, save))

TokensInv ==
  /\ delim \in [Callers -> Delimiters]
  /\ save # Null => save \in Cells /\ IsString(save)
  /\ save # Null /\ ~mixed => owner \in Callers /\ due = Left
  /\ TokensInOrder
  /\ program # "splits" => save = Null

LEMMA Starts_TokensInv == Init => TokensInv
BY DEF Init, ScanningInit, TokensInv, TokensInOrder

LEMMA StrtokKeeps ==
  ASSUME IInv, TokensInv, NEW c \in Callers, NEW p \in Cells, eclib_strtok(c, p),
         program = "splits", program' = program
  PROVE  TokensInv'
<1>1. /\ mem \in [Cells -> Bytes] /\ IsString(p) /\ delim' = delim
      /\ owner' = c /\ mixed' = FALSE
      /\ Tokenize(p, delim[c], Tokens(p, delim[c]))
  BY DEF IInv, CopyingTypeOK, eclib_strtok
<1>2. 0 \notin delim[c]
  BY ScanningAssumption DEF TokensInv
<1>3. /\ told'.token = told'.due
      /\ save' \in Cells
      /\ \E k \in Cells : save' <= k /\ mem'[k] = 0
      /\ due' = TokensIn(mem', save', delim[c], save' + LenIn(mem', save'))
  BY <1>1, <1>2, TokenizeStep
<1>4. due' = Left'
  BY <1>1, <1>3 DEF Left
<1>5. QED
  BY <1>1, <1>3, <1>4 DEF TokensInv, TokensInOrder, IsString

LEMMA ContinueKeeps ==
  ASSUME IInv, TokensInv, NEW c \in Callers, strtok_continue(c),
         program = "splits", program' = program
  PROVE  TokensInv'
<1>1. /\ mem \in [Cells -> Bytes] /\ save \in Cells /\ IsString(save) /\ delim' = delim
      /\ owner' = owner /\ mixed' = (mixed \/ c # owner)
      /\ Tokenize(save, delim[c], due)
  BY DEF IInv, CopyingTypeOK, TokensInv, strtok_continue
<1>2. 0 \notin delim[c]
  BY ScanningAssumption DEF TokensInv
<1>3. save' \in Cells /\ \E k \in Cells : save' <= k /\ mem'[k] = 0
  BY <1>1, <1>2, StateIsString
<1>4. ASSUME ~mixed'
      PROVE  owner' \in Callers /\ due' = Left' /\ told'.token = told'.due
  <2>1. c = owner /\ due = Left
    BY <1>1, <1>4 DEF TokensInv, strtok_continue
  <2>2. eclib_strlen(save) = LenIn(mem, save)
    BY DEF LenIn, eclib_strlen, HasLength, LengthIn
  <2>3. due = Tokens(save, delim[c])
    BY <1>1, <1>2, <2>1, <2>2, TokensAre DEF Left
  <2>4. /\ told'.token = told'.due
        /\ due' = TokensIn(mem', save', delim[c], save' + LenIn(mem', save'))
    BY <1>1, <1>2, <2>3, TokenizeStep
  <2>5. QED
    BY <1>1, <2>1, <2>4 DEF Left
<1>5. QED
  BY <1>1, <1>3, <1>4 DEF TokensInv, TokensInOrder, IsString

LEMMA NextKeepsTokens == ASSUME IInv, TokensInv, [Next]_vars PROVE TokensInv'
<1>1. CASE program = "splits" /\ ScanningNext /\ UNCHANGED <<printing, packing, program>>
  <2>1. program = "splits" /\ program' = program
    BY <1>1
  <2>2. CASE strtok_nothing
    BY <2>1, <2>2 DEF strtok_nothing, TokensInv, TokensInOrder
  <2>3. CASE \E c \in Callers : strtok_continue(c) \/ \E p \in Cells : eclib_strtok(c, p)
    BY <2>1, <2>3, StrtokKeeps, ContinueKeeps
  <2>4. QED
    BY <1>1, <2>2, <2>3 DEF ScanningNext
<1>2. CASE UNCHANGED <<scan, program>> /\ program # "splits"
  BY <1>2 DEF scan, TokensInv, TokensInOrder
<1>3. CASE UNCHANGED vars
  BY <1>3 DEF vars, scan, TokensInv, TokensInOrder, Left, IsString
<1>4. QED
  BY <1>1, <1>2, <1>3 DEF Next

(* For every text, and all delimiters, a caller of strtok gets the tokens  *)
(* of its text in order, all of them and then nothing, unless another      *)
(* caller has called strtok since it began                                 *)
(* (src/src/utils/utils.c:186-207).                                        *)
THEOREM TokensAlwaysInOrder == Spec => []TokensInOrder
<1>1. Init => IInv /\ TokensInv
  BY Starts_IInv, Starts_TokensInv
<1>2. (IInv /\ TokensInv) /\ [Next]_vars => (IInv /\ TokensInv)'
  BY NextKeeps, NextKeepsTokens
<1>3. TokensInv => TokensInOrder
  BY DEF TokensInv
<1>4. QED
  BY <1>1, <1>2, <1>3, PTL DEF Spec

------------------------------------------------------------------------------
(* The functions that only read.                                           *)

LEMMA StringIs ==
  ASSUME NEW p \in Cells, IsString(p)
  PROVE  /\ p \in Nat /\ eclib_strlen(p) \in Nat /\ p + eclib_strlen(p) \in Cells
         /\ mem[p + eclib_strlen(p)] = 0
         /\ \A k \in 0 .. eclib_strlen(p) - 1 : mem[p + k] # 0
<1>1. LengthIn(mem, p, LenIn(mem, p))
  BY StringLength DEF IsString
<1>2. eclib_strlen(p) = LenIn(mem, p)
  BY DEF LenIn, eclib_strlen, HasLength, LengthIn
<1> QED
  BY <1>1, <1>2 DEF LengthIn, Cells

LEMMA BytesAre ==
  ASSUME mem \in [Cells -> Bytes], NEW k \in Cells
  PROVE  mem[k] \in 0 .. 255
OBVIOUS

(* Two strings are equal up to the place where a comparison stops.         *)
LEMMA StopsThere ==
  ASSUME mem \in [Cells -> Bytes], NEW p \in Cells, NEW q \in Cells, IsString(p), IsString(q)
  PROVE  LET i == StopsAt(p, q)
         IN  /\ i \in Nat /\ p + i \in Cells /\ q + i \in Cells
             /\ mem[p + i] = 0 \/ mem[q + i] = 0 \/ mem[p + i] # mem[q + i]
             /\ i <= eclib_strlen(p) /\ i <= eclib_strlen(q)
             /\ \A j \in 0 .. i - 1 : mem[p + j] = mem[q + j] /\ mem[p + j] # 0
<1> DEFINE n == eclib_strlen(p)
           m == eclib_strlen(q)
           S == {i \in Cells : /\ p + i \in Cells /\ q + i \in Cells
                               /\ mem[p + i] = 0 \/ mem[q + i] = 0 \/ mem[p + i] # mem[q + i]}
           i == StopsAt(p, q)
<1>1. /\ p \in Nat /\ n \in Nat /\ p + n \in Cells /\ mem[p + n] = 0
      /\ q \in Nat /\ m \in Nat /\ q + m \in Cells /\ mem[q + m] = 0
  BY StringIs
<1> HIDE DEF n, m
<1>2. S # {} /\ S \subseteq Nat
  <2>1. n <= m => n \in S
    BY <1>1 DEF Cells
  <2>2. m <= n => m \in S
    BY <1>1 DEF Cells
  <2>3. S \subseteq Cells /\ Cells \subseteq Nat
    BY DEF Cells
  <2>4. n <= m \/ m <= n
    BY <1>1
  <2> HIDE DEF S
  <2> QED
    BY <2>1, <2>2, <2>3, <2>4
<1>3. i \in S /\ \A k \in S : i <= k
  <2>1. i = First(S)
    BY DEF StopsAt
  <2> HIDE DEF i, S
  <2> QED
    BY <1>2, <2>1, FirstIsLeast
<1> HIDE DEF i
<1>4. /\ i \in Nat /\ p + i \in Cells /\ q + i \in Cells
      /\ mem[p + i] = 0 \/ mem[q + i] = 0 \/ mem[p + i] # mem[q + i]
  BY <1>3 DEF Cells
<1>5. ASSUME NEW j \in 0 .. i - 1 PROVE mem[p + j] = mem[q + j] /\ mem[p + j] # 0
  <2>1. j \in Cells /\ p + j \in Cells /\ q + j \in Cells /\ ~(i <= j)
    BY <1>1, <1>4 DEF Cells
  <2>2. j \notin S
    BY <1>3, <2>1
  <2> QED
    BY <2>1, <2>2
<1>6. i <= n
  <2> SUFFICES ASSUME n < i PROVE FALSE
    BY <1>1, <1>4
  <2>1. n \in 0 .. i - 1
    BY <1>1, <1>4
  <2> QED
    BY <1>1, <1>5, <2>1
<1>7. i <= m
  <2> SUFFICES ASSUME m < i PROVE FALSE
    BY <1>1, <1>4
  <2>1. m \in 0 .. i - 1
    BY <1>1, <1>4
  <2>2. mem[p + m] = mem[q + m] /\ mem[p + m] # 0
    BY <1>5, <2>1
  <2> QED
    BY <1>1, <2>2
<1> QED
  BY <1>4, <1>5, <1>6, <1>7 DEF i, n, m

(* strncmp stops there too, unless it has looked at n bytes before.        *)
LEMMA StopsWithin ==
  ASSUME mem \in [Cells -> Bytes], NEW p \in Cells, NEW q \in Cells, IsString(p), IsString(q),
         NEW n \in Nat
  PROVE  eclib_strncmp(p, q, n) =
           IF StopsAt(p, q) < n THEN mem[p + StopsAt(p, q)] - mem[q + StopsAt(p, q)] ELSE 0
<1> DEFINE s == StopsAt(p, q)
           D == Decisive(p, q, n)
<1>1. /\ s \in Nat /\ p + s \in Cells /\ q + s \in Cells /\ p \in Nat
      /\ mem[p + s] = 0 \/ mem[q + s] = 0 \/ mem[p + s] # mem[q + s]
      /\ \A j \in 0 .. s - 1 : mem[p + j] = mem[q + j] /\ mem[p + j] # 0
  BY StopsThere, StringIs
<1> HIDE DEF s
<1>2. ASSUME NEW i \in D PROVE i \in Nat /\ s <= i /\ i < n
  <2>1. i \in Nat /\ i < n /\ (mem[p + i] # mem[q + i] \/ mem[p + i] = 0)
    BY DEF Decisive, Within, Cells
  <2>2. i \notin 0 .. s - 1
    BY <1>1, <2>1
  <2> QED
    BY <1>1, <2>1, <2>2
<1>3. s < n => s \in D
  <2>1. s \in Cells
    BY <1>1 DEF Cells
  <2>2. mem[p + s] # mem[q + s] \/ mem[p + s] = 0
    BY <1>1
  <2> QED
    BY <1>1, <2>1, <2>2 DEF Decisive, Within
<1>4. eclib_strncmp(p, q, n) = IF D = {} THEN 0 ELSE mem[p + First(D)] - mem[q + First(D)]
  BY DEF eclib_strncmp
<1> HIDE DEF D
<1>5. CASE s < n
  <2>1. D # {} /\ D \subseteq Nat
    BY <1>2, <1>3, <1>5
  <2>2. First(D) \in D /\ First(D) <= s
    BY <1>3, <1>5, <2>1, FirstIsLeast
  <2>3. First(D) \in Nat /\ s <= First(D)
    BY <1>2, <2>2
  <2>4. First(D) = s
    BY <1>1, <2>2, <2>3
  <2> QED
    BY <1>4, <1>5, <2>1, <2>4 DEF s
<1>6. CASE ~(s < n)
  <2>1. D = {}
    <3> SUFFICES ASSUME NEW i \in D PROVE FALSE
      OBVIOUS
    <3> QED
      BY <1>1, <1>2, <1>6
  <2> QED
    BY <1>4, <1>6, <2>1 DEF s
<1> QED
  BY <1>5, <1>6

(* Strings that differ part where a comparison stops.                      *)
LEMMA PartThere ==
  ASSUME mem \in [Cells -> Bytes], NEW p \in Cells, NEW q \in Cells, IsString(p), IsString(q)
  PROVE  Parting(p, q) =
           IF mem[p + StopsAt(p, q)] = mem[q + StopsAt(p, q)] THEN {} ELSE {StopsAt(p, q)}
<1> DEFINE s == StopsAt(p, q)
<1>1. /\ s \in Nat /\ p + s \in Cells /\ q + s \in Cells /\ p \in Nat
      /\ mem[p + s] = 0 \/ mem[q + s] = 0 \/ mem[p + s] # mem[q + s]
      /\ \A j \in 0 .. s - 1 : mem[p + j] = mem[q + j] /\ mem[p + j] # 0
  BY StopsThere, StringIs
<1> HIDE DEF s
<1>2. ASSUME NEW i \in Parting(p, q) PROVE i = s
  <2>1. /\ i \in Nat /\ mem[p + i] # mem[q + i]
        /\ \A j \in 0 .. i - 1 : mem[p + j] = mem[q + j] /\ mem[p + j] # 0
    BY DEF Parting, Cells
  <2>2. i \notin 0 .. s - 1
    BY <1>1, <2>1
  <2>3. s \notin 0 .. i - 1
    <3> SUFFICES ASSUME s \in 0 .. i - 1 PROVE FALSE
      OBVIOUS
    <3>1. mem[p + s] = mem[q + s] /\ mem[p + s] # 0
      BY <2>1
    <3> QED
      BY <1>1, <3>1
  <2> QED
    BY <1>1, <2>1, <2>2, <2>3
<1>3. s \in Parting(p, q) <=> mem[p + s] # mem[q + s]
  <2>1. s \in Cells
    BY <1>1 DEF Cells
  <2> QED
    BY <1>1, <2>1 DEF Parting
<1> QED
  BY <1>2, <1>3 DEF s

LEMMA ComparisonsSuffice == ASSUME mem \in [Cells -> Bytes] PROVE ComparisonsAgree
<1> SUFFICES
      ASSUME NEW p \in Cells, NEW q \in Cells, IsString(p), IsString(q)
      PROVE  LET apart == Parting(p, q)
                 turned(i) == SignedChar /\ (mem[p + i] < 128) # (mem[q + i] < 128)
             IN  /\ \A n \in 0 .. Size :
                      /\ eclib_strncmp(p, q, n) < 0 <=>
                           \E i \in apart : i < n /\ mem[p + i] < mem[q + i]
                      /\ eclib_strncmp(p, q, n) > 0 <=>
                           \E i \in apart : i < n /\ mem[p + i] > mem[q + i]
                 /\ eclib_strcmp(p, q) = 0 <=> apart = {}
                 /\ eclib_strcmp(p, q) < 0 <=>
                      \E i \in apart : (mem[p + i] < mem[q + i]) # turned(i)
  BY DEF ComparisonsAgree
<1> DEFINE s == StopsAt(p, q)
           a == mem[p + s]
           b == mem[q + s]
           apart == Parting(p, q)
           turned == SignedChar /\ (a < 128) # (b < 128)
<1>1. s \in Nat /\ p + s \in Cells /\ q + s \in Cells
  BY StopsThere
<1>2. a \in 0 .. 255 /\ b \in 0 .. 255
  BY <1>1, BytesAre
<1>3. apart = IF a = b THEN {} ELSE {s}
  BY PartThere
<1>4. eclib_strcmp(p, q) = Char(a) - Char(b)
  BY DEF eclib_strcmp
<1>5. \A n \in 0 .. Size : eclib_strncmp(p, q, n) = IF s < n THEN a - b ELSE 0
  <2> TAKE n \in 0 .. Size
  <2>1. n \in Nat
    OBVIOUS
  <2> QED
    BY <2>1, StopsWithin
<1> DEFINE d(n) == eclib_strncmp(p, q, n)
           x == eclib_strcmp(p, q)
<1>6. /\ \A n : (\E i \in apart : i < n /\ mem[p + i] < mem[q + i]) <=> (s < n /\ a # b /\ a < b)
      /\ \A n : (\E i \in apart : i < n /\ mem[p + i] > mem[q + i]) <=> (s < n /\ a # b /\ a > b)
      /\ (\E i \in apart : (mem[p + i] < mem[q + i])
                             # (SignedChar /\ (mem[p + i] < 128) # (mem[q + i] < 128)))
           <=> (a # b /\ (a < b) # turned)
      /\ apart = {} <=> a = b
  <2> HIDE DEF s, apart
  <2> QED
    BY <1>3
<1> HIDE DEF a, b, s, apart
<1>7. \A n \in 0 .. Size : /\ d(n) < 0 <=> (s < n /\ a # b /\ a < b)
                           /\ d(n) > 0 <=> (s < n /\ a # b /\ a > b)
  BY <1>2, <1>5
<1>8. x = 0 <=> a = b
  BY <1>2, <1>4 DEF Char
<1>9. x < 0 <=> (a # b /\ (a < b) # turned)
  BY <1>2, <1>4, ScanningAssumption DEF Char
<1> QED
  BY <1>6, <1>7, <1>8, <1>9 DEF apart

Hits(p, q) ==
  {i \in 0 .. eclib_strlen(p) - eclib_strlen(q) :
     \A j \in 0 .. eclib_strlen(q) - 1 : mem[p + i + j] = mem[q + j]}

(* What strncmp accepts is what strstr looks for.                          *)
LEMMA AcceptedIsHit ==
  ASSUME mem \in [Cells -> Bytes], NEW p \in Cells, NEW q \in Cells, IsString(p), IsString(q),
         eclib_strlen(q) > 0, NEW i \in 0 .. eclib_strlen(p)
  PROVE  eclib_strncmp(p + i, q, eclib_strlen(q)) = 0 <=> i \in Hits(p, q)
<1> DEFINE n == eclib_strlen(p)
           m == eclib_strlen(q)
           k == p + i
           s == StopsAt(k, q)
<1>1. /\ p \in Nat /\ n \in Nat /\ p + n \in Cells /\ mem[p + n] = 0
      /\ q \in Nat /\ m \in Nat /\ q + m \in Cells /\ mem[q + m] = 0
      /\ \A j \in 0 .. m - 1 : mem[q + j] # 0
  BY StringIs
<1>2. k \in Cells /\ IsString(k)
  BY <1>1 DEF Cells, IsString
<1>3. /\ s \in Nat /\ k + s \in Cells /\ q + s \in Cells
      /\ mem[k + s] = 0 \/ mem[q + s] = 0 \/ mem[k + s] # mem[q + s]
      /\ \A j \in 0 .. s - 1 : mem[k + j] = mem[q + j] /\ mem[k + j] # 0
  <2> HIDE DEF k
  <2> QED
    BY <1>2, StopsThere
<1>4. eclib_strncmp(k, q, m) = IF s < m THEN mem[k + s] - mem[q + s] ELSE 0
  <2> HIDE DEF k
  <2> QED
    BY <1>1, <1>2, StopsWithin
<1>5. mem[k + s] \in 0 .. 255 /\ mem[q + s] \in 0 .. 255
  BY <1>3, BytesAre
<1>6. i \in Hits(p, q) <=> i <= n - m /\ \A j \in 0 .. m - 1 : mem[k + j] = mem[q + j]
  BY <1>1 DEF Hits
<1>7. m > 0 /\ i \in 0 .. n
  OBVIOUS
<1>8. k = p + i
  OBVIOUS
<1> HIDE DEF n, m, k, s
<1>9. ASSUME i \in Hits(p, q) PROVE eclib_strncmp(k, q, m) = 0
  <2>1. ~(s < m)
    <3> SUFFICES ASSUME s < m PROVE FALSE
      OBVIOUS
    <3>1. s \in 0 .. m - 1
      BY <1>1, <1>3
    <3> QED
      BY <1>1, <1>3, <1>6, <1>9, <3>1
  <2> QED
    BY <1>4, <2>1
<1>10. ASSUME eclib_strncmp(k, q, m) = 0 PROVE i \in Hits(p, q)
  <2>1. ~(s < m)
    <3> SUFFICES ASSUME s < m PROVE FALSE
      OBVIOUS
    <3>1. s \in 0 .. m - 1 /\ mem[k + s] = mem[q + s]
      <4> DEFINE a == mem[k + s]
                 b == mem[q + s]
      <4>1. a - b = 0 /\ a \in 0 .. 255 /\ b \in 0 .. 255
        BY <1>4, <1>5, <1>10
      <4> HIDE DEF a, b
      <4>2. a = b /\ s \in 0 .. m - 1
        BY <1>1, <1>3, <4>1
      <4> QED
        BY <4>2 DEF a, b
    <3> QED
      BY <1>1, <1>3, <3>1
  <2>2. ASSUME NEW j \in 0 .. m - 1 PROVE mem[k + j] = mem[q + j] /\ mem[k + j] # 0
    BY <1>1, <1>3, <2>1
  <2>3. i <= n - m
    <3> SUFFICES ASSUME n - i < m PROVE FALSE
      BY <1>1, <1>7
    <3>1. n - i \in 0 .. m - 1 /\ k + (n - i) = p + n
      BY <1>1, <1>7, <1>8
    <3> QED
      BY <1>1, <2>2, <3>1
  <2> QED
    BY <1>6, <2>2, <2>3
<1> QED
  BY <1>9, <1>10 DEF k, m

LEMMA SearchesSuffice == ASSUME mem \in [Cells -> Bytes] PROVE SearchesAgree
<1> SUFFICES ASSUME NEW p \in Cells, NEW q \in Cells, IsString(p), IsString(q),
                    eclib_strlen(q) > 0
             PROVE  LET m == eclib_strlen(q)
                        found == {k \in p .. p + eclib_strlen(p) : eclib_strncmp(k, q, m) = 0}
                    IN  /\ eclib_strstr(p, q) = IF found = {} THEN Null ELSE First(found)
                        /\ m = 1 => /\ eclib_strchr(p, mem[q]) = eclib_strstr(p, q)
                                    /\ eclib_strrchr(p, mem[q]) =
                                         IF found = {} THEN Null ELSE Final(found)
  BY DEF SearchesAgree
<1> DEFINE n == eclib_strlen(p)
           m == eclib_strlen(q)
           found == {k \in p .. p + n : eclib_strncmp(k, q, m) = 0}
           H == Hits(p, q)
<1>1. /\ p \in Nat /\ n \in Nat /\ m \in Nat /\ m > 0 /\ q \in Nat
      /\ p + n \in Cells /\ mem[p + n] = 0 /\ \A j \in 0 .. m - 1 : mem[q + j] # 0
  BY StringIs
<1>2. ASSUME NEW k \in p .. p + n PROVE k \in found <=> k - p \in H
  <2> DEFINE i == k - p
  <2>1. i \in 0 .. n /\ p + i = k
    BY <1>1
  <2> HIDE DEF i
  <2>2. eclib_strncmp(p + i, q, m) = 0 <=> i \in H
    BY <2>1, AcceptedIsHit
  <2> QED
    BY <2>1, <2>2 DEF i
<1>3. \A i \in H : i \in 0 .. n
  BY <1>1 DEF Hits
<1>4. eclib_strstr(p, q) = IF H = {} THEN Null ELSE p + First(H)
  <2> DEFINE S == {i \in Starts(n, m) :
                     \A j \in 0 .. m - 1 : p + i + j \in Cells /\ mem[p + i + j] = mem[q + j]}
  <2>1. CASE m > n
    <3>1. H = {}
      BY <1>1, <2>1 DEF Hits
    <3>2. TooLong(n, m)
      BY <2>1 DEF TooLong
    <3> QED
      BY <3>1, <3>2 DEF eclib_strstr
  <2>2. CASE ~(m > n)
    <3>1. p + n < Size /\ Size \in Nat /\ Word \in Nat /\ Size < Word
      BY <1>1, ScanningAssumption DEF Cells
    <3>2. (n - m) % Word = n - m
      <4> HIDE DEF n, m
      <4>1. n - m \in 0 .. Word - 1
        BY <1>1, <2>2, <3>1
      <4> QED
        BY <3>1, <4>1
    <3>3. Starts(n, m) = 0 .. n - m
      BY <3>2 DEF Starts
    <3>4. \A i \in 0 .. n - m : \A j \in 0 .. m - 1 : p + i + j \in Cells
      <4> HIDE DEF n, m
      <4> QED
        BY <1>1, <2>2 DEF Cells
    <3>5. S = H
      BY <3>3, <3>4 DEF Hits
    <3>6. m # 0 /\ ~TooLong(n, m)
      BY <1>1, <2>2 DEF TooLong
    <3>7. eclib_strstr(p, q) = IF m = 0 \/ TooLong(n, m) \/ S = {} THEN Null ELSE p + First(S)
      BY DEF eclib_strstr
    <3> HIDE DEF S, H, n, m
    <3> QED
      BY <3>5, <3>6, <3>7
  <2> QED
    BY <2>1, <2>2
<1>5. \A k \in found : k \in p .. p + n
  OBVIOUS
<1>6. m = 1 => found = Places(p, mem[q])
  <2> SUFFICES ASSUME m = 1 PROVE \A k \in p .. p + n : k \in found <=> mem[k] = mem[q]
    BY DEF Places
  <2> TAKE k \in p .. p + n
  <2>1. mem[q] # 0
    <3>1. 0 \in 0 .. m - 1 /\ q + 0 = q
      BY <1>1
    <3> QED
      BY <1>1, <3>1
  <2>2. k - p \in H <=> k - p <= n - 1 /\ mem[k] = mem[q]
    <3>1. k - p \in 0 .. n /\ p + (k - p) + 0 = k /\ q + 0 = q
      BY <1>1
    <3>2. 0 .. m - 1 = {0}
      OBVIOUS
    <3> QED
      BY <1>1, <3>1, <3>2 DEF Hits
  <2>3. mem[k] = mem[q] => k - p <= n - 1
    BY <1>1, <2>1
  <2> HIDE DEF found, H
  <2> QED
    BY <1>2, <2>2, <2>3
<1> HIDE DEF found, H
<1>7. eclib_strstr(p, q) = IF found = {} THEN Null ELSE First(found)
  <2>1. H = {} <=> found = {}
    <3>1. ASSUME NEW i \in H PROVE found # {}
      <4>1. p + i \in p .. p + n /\ (p + i) - p = i
        BY <1>1, <1>3
      <4> QED
        BY <1>2, <4>1
    <3>2. ASSUME NEW k \in found PROVE H # {}
      BY <1>2, <1>5
    <3> QED
      BY <3>1, <3>2
  <2>2. ASSUME H # {} PROVE p + First(H) = First(found)
    <3>1. H \subseteq Nat /\ found \subseteq Nat /\ found # {}
      BY <1>1, <1>3, <1>5, <2>1, <2>2
    <3>2. First(H) \in H /\ \A i \in H : First(H) <= i
      BY <2>2, <3>1, FirstIsLeast
    <3>3. First(found) \in found /\ \A k \in found : First(found) <= k
      BY <3>1, FirstIsLeast
    <3> DEFINE a == First(H)
               b == First(found)
    <3>4. a \in 0 .. n /\ b \in p .. p + n
      BY <1>3, <1>5, <3>2, <3>3
    <3>5. p + a \in found
      <4>1. p + a \in p .. p + n /\ (p + a) - p = a
        BY <1>1, <3>4
      <4> QED
        BY <1>2, <3>2, <4>1
    <3>6. b - p \in H
      BY <1>2, <3>3, <3>4
    <3> HIDE DEF a, b
    <3>7. b <= p + a /\ a <= b - p
      BY <3>2, <3>3, <3>5, <3>6 DEF a, b
    <3>8. p + a = b
      BY <1>1, <3>4, <3>7
    <3> QED
      BY <3>8 DEF a, b
  <2> QED
    BY <1>4, <2>1, <2>2
<1>8. ASSUME m = 1
      PROVE  /\ eclib_strchr(p, mem[q]) = eclib_strstr(p, q)
             /\ eclib_strrchr(p, mem[q]) = IF found = {} THEN Null ELSE Final(found)
  BY <1>6, <1>7, <1>8 DEF eclib_strchr, eclib_strrchr
<1> QED
  BY <1>7, <1>8 DEF found

(* In every memory the three searches find what strncmp sees               *)
(* (src/src/utils/utils.c:123-184).                                        *)
THEOREM SearchesAlwaysAgree == Spec => []SearchesAgree
<1>1. Init => IInv
  BY Starts_IInv
<1>2. IInv /\ [Next]_vars => IInv'
  BY NextKeeps
<1>3. IInv => SearchesAgree
  BY SearchesSuffice DEF IInv, CopyingTypeOK
<1> QED
  BY <1>1, <1>2, <1>3, PTL DEF Spec

(* In every memory strncmp orders strings by the first of their first n    *)
(* bytes that differ, and strcmp agrees with it but where plain char makes *)
(* a byte above 127 negative (src/src/utils/utils.c:40-50, 149-156).       *)
THEOREM ComparisonsAlwaysAgree == Spec => []ComparisonsAgree
<1>1. Init => IInv
  BY Starts_IInv
<1>2. IInv /\ [Next]_vars => IInv'
  BY NextKeeps
<1>3. IInv => ComparisonsAgree
  BY ComparisonsSuffice DEF IInv, CopyingTypeOK
<1> QED
  BY <1>1, <1>2, <1>3, PTL DEF Spec

------------------------------------------------------------------------------
(* snprintf.  Its reference definitions are recursive functions: that they *)
(* exist, and what they do, is proved by induction along the format, the   *)
(* text and the number.                                                    *)

LEMMA Induction ==
  ASSUME NEW S, 0 \in S, \A n \in Nat : n \in S => n + 1 \in S
  PROVE  \A n \in Nat : n \in S
<1> DEFINE T == {n \in Nat : n \notin S}
<1> SUFFICES ASSUME T # {} PROVE FALSE
  OBVIOUS
<1>1. PICK m \in T : \A k \in T : m <= k
  BY Least
<1>2. m \in Nat /\ m # 0 /\ m - 1 \in Nat /\ (m - 1) + 1 = m
  BY <1>1
<1>3. m - 1 \in S
  BY <1>1, <1>2
<1> QED
  BY <1>1, <1>2, <1>3

(* What each value of a function hands on to the next holds of all.        *)
LEMMA Along ==
  ASSUME NEW N \in Nat, NEW f, NEW A, f[0] \in A,
         \A n \in 1 .. N : f[n - 1] \in A => f[n] \in A
  PROVE  \A n \in 0 .. N : f[n] \in A
<1> DEFINE S == {n \in Nat : n <= N => f[n] \in A}
<1>1. 0 \in S
  OBVIOUS
<1>2. ASSUME NEW n \in Nat, n \in S PROVE n + 1 \in S
  <2> SUFFICES ASSUME n + 1 <= N PROVE f[n + 1] \in A
    OBVIOUS
  <2>1. n + 1 \in 1 .. N /\ (n + 1) - 1 = n /\ f[n] \in A
    BY <1>2
  <2> QED
    BY <2>1
<1>3. \A n \in Nat : n \in S
  <2> HIDE DEF S
  <2> QED
    BY <1>1, <1>2, Induction
<1> QED
  BY <1>3

(* A function that is defined along 0 .. N by its value before exists.     *)
Unfolds(f, N, c, F) == /\ f[0] = c
                       /\ \A n \in 1 .. N : f[n] = F[n][f[n - 1]]

LEMMA PrimitiveRecursion ==
  ASSUME NEW N \in Nat, NEW A, NEW c \in A, NEW F \in [1 .. N -> [A -> A]]
  PROVE  \E f \in [0 .. N -> A] : Unfolds(f, N, c, F)
<1> DEFINE Is(f, m) == /\ f \in [0 .. m -> A] /\ f[0] = c
                       /\ \A n \in 1 .. m : f[n] = F[n][f[n - 1]]
           S == {m \in Nat : m <= N => \E f : Is(f, m)}
<1>1. 0 \in S
  <2>1. Is([n \in 0 .. 0 |-> c], 0)
    OBVIOUS
  <2> QED
    BY <2>1
<1>2. ASSUME NEW m \in Nat, m \in S PROVE m + 1 \in S
  <2> SUFFICES ASSUME m + 1 <= N PROVE \E g : Is(g, m + 1)
    OBVIOUS
  <2>1. PICK f : Is(f, m)
    BY <1>2
  <2> DEFINE new == F[m + 1][f[m]]
             g == [n \in 0 .. m + 1 |-> IF n <= m THEN f[n] ELSE new]
  <2>2. new \in A
    <3>1. f[m] \in A /\ m + 1 \in 1 .. N
      BY <2>1
    <3> QED
      BY <3>1
  <2>3. g \in [0 .. m + 1 -> A]
    BY <2>1, <2>2
  <2>4. /\ \A n \in 0 .. m : g[n] = f[n] /\ (n > 0 => g[n - 1] = f[n - 1])
        /\ g[m + 1] = new
    OBVIOUS
  <2> HIDE DEF g
  <2>5. g[0] = c
    BY <2>1, <2>4
  <2>6. ASSUME NEW n \in 1 .. m + 1 PROVE g[n] = F[n][g[n - 1]]
    <3>1. CASE n = m + 1
      BY <2>4, <3>1
    <3>2. CASE n \in 1 .. m
      BY <2>1, <2>4, <3>2
    <3> QED
      BY <3>1, <3>2
  <2>7. Is(g, m + 1)
    BY <2>3, <2>5, <2>6
  <2> QED
    BY <2>7
<1>3. N \in S
  <2> HIDE DEF S
  <2> QED
    BY <1>1, <1>2, Induction
<1> QED
  BY <1>3 DEF Unfolds

(* The digits of n, from which Digits takes the last function value.       *)
Magnitude(n) == IF n < 0 THEN -n ELSE n
DigitOf(n, k) == IF n < 0 THEN Zero - k ELSE Zero + k
DigitsUpTo(n) ==
  CHOOSE d : d = [k \in 0 .. Magnitude(n) |->
                    IF k < 10 THEN <<DigitOf(n, k)>>
                    ELSE Append(d[k \div 10], DigitOf(n, k % 10))]

LEMMA DigitsIs ==
  ASSUME NEW n \in Int
  PROVE  /\ Digits(n) = DigitsUpTo(n)[Magnitude(n)]
         /\ \A k \in 0 .. Magnitude(n) :
              DigitsUpTo(n)[k] = IF k < 10 THEN <<DigitOf(n, k)>>
                                 ELSE Append(DigitsUpTo(n)[k \div 10], DigitOf(n, k % 10))
<1> DEFINE Entry(f, k) == IF k < 10 THEN <<DigitOf(n, k)>>
                         ELSE Append(f[k \div 10], DigitOf(n, k % 10))
           Is(f, m) == f = [k \in 0 .. m |-> Entry(f, k)]
           S == {m \in Nat : \E f : Is(f, m)}
<1>1. 0 \in S
  <2>1. Is([k \in 0 .. 0 |-> <<DigitOf(n, k)>>], 0)
    OBVIOUS
  <2> QED
    BY <2>1
<1>2. ASSUME NEW m \in Nat, m \in S PROVE m + 1 \in S
  <2>1. PICK f : Is(f, m)
    BY <1>2
  <2> DEFINE g == [k \in 0 .. m + 1 |-> IF k <= m THEN f[k] ELSE Entry(f, m + 1)]
  <2>2. \A k \in 0 .. m : g[k] = f[k]
    OBVIOUS
  <2>3. ASSUME NEW k \in 0 .. m + 1 PROVE g[k] = Entry(g, k)
    <3>1. k >= 10 => k \div 10 \in 0 .. m
      OBVIOUS
    <3>2. Entry(g, k) = Entry(f, k)
      BY <2>2, <3>1
    <3>3. \A i \in 0 .. m : f[i] = Entry(f, i)
      <4> HIDE DEF Entry
      <4> QED
        BY <2>1
    <3>4. g[k] = Entry(f, k)
      BY <3>3
    <3> QED
      BY <3>2, <3>4
  <2>4. g = [k \in 0 .. m + 1 |-> g[k]]
    OBVIOUS
  <2> HIDE DEF g, Entry
  <2>5. Is(g, m + 1)
    BY <2>3, <2>4
  <2> HIDE DEF Is
  <2> QED
    BY <2>5
<1>3. Magnitude(n) \in S
  <2>1. Magnitude(n) \in Nat
    BY DEF Magnitude
  <2> HIDE DEF S
  <2> QED
    BY <1>1, <1>2, <2>1, Induction
<1>4. Is(DigitsUpTo(n), Magnitude(n))
  <2>1. \E f : Is(f, Magnitude(n))
    BY <1>3
  <2> QED
    BY <2>1 DEF DigitsUpTo
<1>5. Digits(n) = DigitsUpTo(n)[Magnitude(n)]
  BY DEF Digits, DigitsUpTo, Magnitude, DigitOf
<1> QED
  BY <1>4, <1>5

LEMMA FirstDigit ==
  ASSUME NEW n \in Int
  PROVE  DigitsUpTo(n)[0] = <<DigitOf(n, 0)>>
<1>1. 0 \in 0 .. Magnitude(n) /\ 0 < 10
  BY DEF Magnitude
<1> DEFINE D == DigitsUpTo(n)
<1>2. D[0] = IF 0 < 10 THEN <<DigitOf(n, 0)>> ELSE Append(D[0 \div 10], DigitOf(n, 0 % 10))
  BY <1>1, DigitsIs
<1> QED
  BY <1>1, <1>2

(* Digits are not the sign, and there is one at least.                     *)
LEMMA DigitsType ==
  ASSUME NEW n \in Int
  PROVE  /\ Digits(n) \in Seq(Int) /\ Len(Digits(n)) > 0
         /\ n \in Nat => Digits(n)[1] # Minus
<1> DEFINE D == DigitsUpTo(n)
           Good(s) == s \in Seq(Int) /\ Len(s) > 0 /\ (n \in Nat => s[1] # Minus)
           S == {m \in Nat : \A k \in 0 .. m : k <= Magnitude(n) => Good(D[k])}
<1>1. Magnitude(n) \in Nat
  BY DEF Magnitude
<1>2. ASSUME NEW k \in 0 .. 9 PROVE Good(<<DigitOf(n, k)>>)
  <2>1. DigitOf(n, k) \in Int /\ (n \in Nat => DigitOf(n, k) # Minus)
    BY DEF DigitOf, Zero, Minus
  <2> QED
    BY <2>1
<1>3. 0 \in S
  <2>1. D[0] = <<DigitOf(n, 0)>>
    BY FirstDigit
  <2> HIDE DEF D, Good
  <2> QED
    BY <1>2, <2>1
<1>4. ASSUME NEW m \in Nat, m \in S PROVE m + 1 \in S
  <2> SUFFICES ASSUME m + 1 <= Magnitude(n) PROVE Good(D[m + 1])
    BY <1>4
  <2> DEFINE k == m + 1
  <2>1. D[k] = IF k < 10 THEN <<DigitOf(n, k)>>
               ELSE Append(D[k \div 10], DigitOf(n, k % 10))
    BY <1>1, DigitsIs
  <2>2. CASE k < 10
    BY <1>2, <2>1, <2>2
  <2>3. CASE ~(k < 10)
    <3>1. k \div 10 \in 0 .. m /\ k % 10 \in 0 .. 9
      BY <2>3
    <3>2. Good(D[k \div 10]) /\ DigitOf(n, k % 10) \in Int
      BY <1>1, <1>4, <3>1 DEF DigitOf, Zero
    <3> DEFINE s == D[k \div 10]
               c == DigitOf(n, k % 10)
    <3>3. D[k] = Append(s, c)
      BY <2>1, <2>3
    <3> HIDE DEF s, c, k, D
    <3>4. s \in Seq(Int) /\ Len(s) > 0 /\ (n \in Nat => s[1] # Minus) /\ c \in Int
      BY <3>2 DEF s, c
    <3>5. Append(s, c) \in Seq(Int) /\ Len(Append(s, c)) > 0 /\ Append(s, c)[1] = s[1]
      BY <3>4
    <3> QED
      BY <3>3, <3>4, <3>5 DEF k
  <2> QED
    BY <2>2, <2>3
<1>5. Magnitude(n) \in S
  <2> HIDE DEF S
  <2> QED
    BY <1>1, <1>3, <1>4, Induction
<1>6. Good(D[Magnitude(n)])
  BY <1>1, <1>5
<1> QED
  BY <1>6, DigitsIs

LEMMA DecimalType ==
  ASSUME NEW n \in Ints
  PROVE  Decimal(n) \in Seq(Int)
<1>1. n \in Int /\ Negated(n) \in Int /\ Minus \in Int
  BY PrintingAssumption DEF Ints, MinInt, Negated, Minus
<1>2. Digits(n) \in Seq(Int) /\ Digits(Negated(n)) \in Seq(Int)
  BY <1>1, DigitsType
<1>3. <<Minus>> \in Seq(Int)
  BY <1>1
<1> QED
  BY <1>2, <1>3 DEF Decimal

(* What a sequence reads as.                                               *)
LEMMA ValuesAre ==
  ASSUME NEW s \in Seq(Int)
  PROVE  /\ Values(s)[0] = 0
         /\ \A n \in 1 .. Len(s) :
              Values(s)[n] = IF s[n] = Minus THEN 0 ELSE 10 * Values(s)[n - 1] + s[n] - Zero
         /\ \A n \in 0 .. Len(s) : Values(s)[n] \in Int
<1> DEFINE N == Len(s)
           F == [n \in 1 .. N |-> [v \in Int |-> IF s[n] = Minus THEN 0 ELSE 10 * v + s[n] - Zero]]
           Is(f) == f = [n \in 0 .. N |-> IF n = 0 \/ s[n] = Minus THEN 0
                                          ELSE 10 * f[n - 1] + s[n] - Zero]
           V == Values(s)
<1>1. N \in Nat /\ \A n \in 1 .. N : s[n] \in Int
  OBVIOUS
<1>2. \E f : Is(f)
  <2>1. F \in [1 .. N -> [Int -> Int]]
    BY <1>1 DEF Zero
  <2>2. PICK f \in [0 .. N -> Int] : Unfolds(f, N, 0, F)
    <3> DEFINE c == 0
    <3>1. c \in Int
      OBVIOUS
    <3> HIDE DEF F, N, c
    <3>2. \E f \in [0 .. N -> Int] : Unfolds(f, N, c, F)
      BY <1>1, <2>1, <3>1, PrimitiveRecursion
    <3> QED
      BY <3>2 DEF c
  <2>3. ASSUME NEW n \in 1 .. N
        PROVE  f[n] = IF s[n] = Minus THEN 0 ELSE 10 * f[n - 1] + s[n] - Zero
    <3>1. f[n - 1] \in Int
      <4>1. n - 1 \in 0 .. N
        BY <1>1
      <4> HIDE DEF F, N
      <4> QED
        BY <2>2, <4>1
    <3>2. F[n][f[n - 1]] = IF s[n] = Minus THEN 0 ELSE 10 * f[n - 1] + s[n] - Zero
      BY <3>1
    <3> HIDE DEF F, N
    <3> QED
      BY <2>2, <3>2 DEF Unfolds
  <2>4. \A n \in 0 .. N : f[n] = IF n = 0 \/ s[n] = Minus THEN 0
                                 ELSE 10 * f[n - 1] + s[n] - Zero
    <3> HIDE DEF F, N
    <3>1. \A n \in 0 .. N : n = 0 \/ n \in 1 .. N
      BY <1>1
    <3> QED
      BY <2>2, <2>3, <3>1 DEF Unfolds
  <2>5. f = [n \in 0 .. N |-> f[n]]
    BY <2>2
  <2>6. Is(f)
    <3> HIDE DEF F, N
    <3> QED
      BY <2>4, <2>5
  <2> QED
    BY <2>6
<1>3. Is(V)
  BY <1>2 DEF Values
<1>4. /\ V[0] = 0
      /\ \A n \in 1 .. N : V[n] = IF s[n] = Minus THEN 0 ELSE 10 * V[n - 1] + s[n] - Zero
  <2> DEFINE Entry(n) == IF n = 0 \/ s[n] = Minus THEN 0 ELSE 10 * V[n - 1] + s[n] - Zero
  <2> HIDE DEF V, N
  <2>1. V = [n \in 0 .. N |-> Entry(n)]
    BY <1>3
  <2>2. \A n \in 0 .. N : V[n] = Entry(n)
    <3> HIDE DEF Entry
    <3> QED
      BY <2>1
  <2>3. V[0] = Entry(0) /\ \A n \in 1 .. N : V[n] = Entry(n) /\ n # 0
    BY <1>1, <2>2
  <2> QED
    BY <2>3
<1>5. \A n \in 0 .. N : V[n] \in Int
  <2>1. ASSUME NEW n \in 1 .. N, V[n - 1] \in Int PROVE V[n] \in Int
    <3> HIDE DEF V
    <3> QED
      BY <1>1, <1>4, <2>1 DEF Zero
  <2>2. V[0] \in Int
    BY <1>4
  <2> HIDE DEF V, N
  <2> QED
    BY <1>1, <2>1, <2>2, Along
<1> QED
  BY <1>4, <1>5

(* What the text of a call consists of, one character of the format later. *)
CallOK(call) == /\ call.fmt \in Seq(Int) /\ call.str \in Seq(Int)
                /\ call.int \in Ints /\ call.char \in Int

Meant(call, c) == CASE c = LetterS -> call.str
                    [] c = LetterD -> Decimal(call.int)
                    [] c = LetterC -> <<call.char>>
                    [] OTHER -> <<c>>

Texts == [text : Seq(Int), open : BOOLEAN]
Empty == [text |-> <<>>, open |-> FALSE]

Grown(call, n, t) ==
  IF t.open THEN [text |-> t.text \o Meant(call, call.fmt[n]), open |-> FALSE]
  ELSE IF call.fmt[n] = Percent /\ n < Len(call.fmt) THEN [text |-> t.text, open |-> TRUE]
  ELSE [text |-> Append(t.text, call.fmt[n]), open |-> FALSE]

LEMMA MeantType ==
  ASSUME NEW call, CallOK(call), NEW c \in Int
  PROVE  Meant(call, c) \in Seq(Int)
<1>1. /\ call.str \in Seq(Int) /\ Decimal(call.int) \in Seq(Int)
      /\ <<call.char>> \in Seq(Int) /\ <<c>> \in Seq(Int)
  BY DecimalType DEF CallOK
<1> HIDE DEF CallOK
<1> QED
  BY <1>1 DEF Meant

LEMMA GrownType ==
  ASSUME NEW call, CallOK(call), NEW n \in 1 .. Len(call.fmt), NEW t \in Texts
  PROVE  Grown(call, n, t) \in Texts
<1>1. call.fmt[n] \in Int /\ Meant(call, call.fmt[n]) \in Seq(Int)
  <2>1. call.fmt[n] \in Int
    BY DEF CallOK
  <2> QED
    BY <2>1, MeantType
<1>2. t.text \in Seq(Int) /\ t.open \in BOOLEAN
  BY DEF Texts
<1>3. t.text \o Meant(call, call.fmt[n]) \in Seq(Int) /\ Append(t.text, call.fmt[n]) \in Seq(Int)
  BY <1>1, <1>2
<1> QED
  BY <1>2, <1>3 DEF Grown, Texts

LEMMA TextIs ==
  ASSUME NEW call, CallOK(call)
  PROVE  /\ TextOf(call)[0] = Empty
         /\ \A n \in 1 .. Len(call.fmt) : TextOf(call)[n] = Grown(call, n, TextOf(call)[n - 1])
         /\ \A n \in 0 .. Len(call.fmt) : TextOf(call)[n] \in Texts
<1> DEFINE N == Len(call.fmt)
           F == [n \in 1 .. N |-> [t \in Texts |-> Grown(call, n, t)]]
           Entry(f, n) == IF n = 0 THEN Empty ELSE Grown(call, n, f[n - 1])
           Is(f) == f = [n \in 0 .. N |-> Entry(f, n)]
           T == TextOf(call)
<1>1. N \in Nat /\ Empty \in Texts
  BY DEF CallOK, Empty, Texts
<1>2. \E f : Is(f)
  <2>1. F \in [1 .. N -> [Texts -> Texts]]
    BY GrownType
  <2>2. PICK f \in [0 .. N -> Texts] : Unfolds(f, N, Empty, F)
    <3> HIDE DEF F, N
    <3> QED
      BY <1>1, <2>1, PrimitiveRecursion
  <2>3. ASSUME NEW n \in 1 .. N PROVE f[n] = Grown(call, n, f[n - 1])
    <3>1. f[n - 1] \in Texts
      <4>1. n - 1 \in 0 .. N
        BY <1>1
      <4> HIDE DEF F, N
      <4> QED
        BY <2>2, <4>1
    <3>2. F[n][f[n - 1]] = Grown(call, n, f[n - 1])
      BY <3>1
    <3> HIDE DEF F, N
    <3> QED
      BY <2>2, <3>2 DEF Unfolds
  <2>4. \A n \in 0 .. N : f[n] = Entry(f, n)
    <3> HIDE DEF F, N
    <3>1. \A n \in 0 .. N : n = 0 \/ n \in 1 .. N
      BY <1>1
    <3> QED
      BY <2>2, <2>3, <3>1 DEF Unfolds
  <2>5. f = [n \in 0 .. N |-> f[n]]
    BY <2>2
  <2>6. Is(f)
    <3> HIDE DEF F, N, Entry
    <3> QED
      BY <2>4, <2>5
  <2> QED
    BY <2>6
<1>3. Is(T)
  <2>1. T = CHOOSE f : Is(f)
    BY DEF TextOf, Grown, Meant, Empty
  <2> HIDE DEF T, Is
  <2> QED
    BY <1>2, <2>1
<1>4. T[0] = Empty /\ \A n \in 1 .. N : T[n] = Grown(call, n, T[n - 1])
  <2> HIDE DEF T, N
  <2>1. \A n \in 0 .. N : T[n] = Entry(T, n)
    <3> HIDE DEF Entry
    <3> QED
      BY <1>3
  <2> QED
    BY <1>1, <2>1
<1>5. \A n \in 0 .. N : T[n] \in Texts
  <2>1. ASSUME NEW n \in 1 .. N, T[n - 1] \in Texts PROVE T[n] \in Texts
    <3> HIDE DEF T
    <3> QED
      BY <1>4, <2>1, GrownType
  <2> HIDE DEF T, N
  <2> QED
    BY <1>1, <1>4, <2>1, Along
<1> QED
  BY <1>4, <1>5

Begins(s, t) == Len(s) <= Len(t) /\ \A i \in 1 .. Len(s) : s[i] = t[i]

(* The text only grows, and the last character closes it.                  *)
LEMMA TextGrows ==
  ASSUME NEW call, CallOK(call), NEW m \in 0 .. Len(call.fmt)
  PROVE  \A n \in m .. Len(call.fmt) : Begins(TextOf(call)[m].text, TextOf(call)[n].text)
<1> DEFINE T == TextOf(call)
           N == Len(call.fmt)
           S == {k \in Nat : m + k <= N => Begins(T[m].text, T[m + k].text)}
<1>1. N \in Nat /\ m \in Nat
  BY DEF CallOK
<1>2. 0 \in S
  <2>1. Begins(T[m].text, T[m].text)
    <3>1. T[m].text \in Seq(Int)
      BY TextIs DEF Texts
    <3> QED
      BY <3>1 DEF Begins
  <2> QED
    BY <1>1, <2>1
<1>3. ASSUME NEW k \in Nat, k \in S PROVE k + 1 \in S
  <2> SUFFICES ASSUME m + (k + 1) <= N PROVE Begins(T[m].text, T[m + (k + 1)].text)
    OBVIOUS
  <2> DEFINE n == m + (k + 1)
             old == T[n - 1].text
             c == call.fmt[n]
  <2>1. n \in 1 .. N /\ n - 1 = m + k /\ n - 1 \in 0 .. N
    BY <1>1
  <2>2. T[n] = Grown(call, n, T[n - 1]) /\ T[n - 1] \in Texts /\ T[m] \in Texts
    BY <2>1, TextIs
  <2>3. Begins(T[m].text, old)
    BY <1>1, <1>3, <2>1
  <2>4. T[n].text \in {old, old \o Meant(call, c), Append(old, c)}
    BY <2>2 DEF Grown
  <2>5. old \in Seq(Int) /\ T[m].text \in Seq(Int) /\ c \in Int /\ Meant(call, c) \in Seq(Int)
    <3>1. c \in Int
      BY <2>1 DEF CallOK
    <3> QED
      BY <2>2, <3>1, MeantType DEF Texts
  <2> HIDE DEF old, c, T, n
  <2>6. Begins(T[m].text, old \o Meant(call, c)) /\ Begins(T[m].text, Append(old, c))
    BY <2>3, <2>5 DEF Begins
  <2> QED
    BY <2>3, <2>4, <2>6 DEF n
<1>4. \A k \in Nat : k \in S
  <2> HIDE DEF S
  <2> QED
    BY <1>2, <1>3, Induction
<1>5. ASSUME NEW n \in m .. N PROVE Begins(T[m].text, T[n].text)
  <2>1. n - m \in Nat /\ m + (n - m) = n /\ n <= N
    BY <1>1
  <2>2. n - m \in S
    BY <1>4, <2>1
  <2> HIDE DEF T
  <2> QED
    BY <2>1, <2>2
<1> QED
  BY <1>5

LEMMA TextCloses ==
  ASSUME NEW call, CallOK(call)
  PROVE  ~TextOf(call)[Len(call.fmt)].open
<1> DEFINE N == Len(call.fmt)
<1>1. N \in Nat
  BY DEF CallOK
<1>2. CASE N = 0
  BY <1>2, TextIs DEF Empty
<1>3. CASE N \in 1 .. N
  <2>1. TextOf(call)[N] = Grown(call, N, TextOf(call)[N - 1])
    BY <1>3, TextIs
  <2> QED
    BY <1>1, <2>1 DEF Grown
<1> QED
  BY <1>1, <1>2, <1>3

(* What an outer round takes from the format.                              *)
LEMMA TakesLiteral ==
  ASSUME NEW call, CallOK(call), NEW n \in 1 .. Len(call.fmt),
         ~TextOf(call)[n - 1].open, ~(call.fmt[n] = Percent /\ n < Len(call.fmt))
  PROVE  TextOf(call)[n] = [text |-> Append(TextOf(call)[n - 1].text, call.fmt[n]), open |-> FALSE]
BY TextIs DEF Grown

LEMMA TakesConversion ==
  ASSUME NEW call, CallOK(call), NEW n \in 1 .. Len(call.fmt),
         ~TextOf(call)[n - 1].open, call.fmt[n] = Percent, n < Len(call.fmt)
  PROVE  /\ n + 1 \in 1 .. Len(call.fmt)
         /\ TextOf(call)[n + 1] =
              [text |-> TextOf(call)[n - 1].text \o Meant(call, call.fmt[n + 1]), open |-> FALSE]
<1>1. n + 1 \in 1 .. Len(call.fmt) /\ (n + 1) - 1 = n
  BY DEF CallOK
<1>2. TextOf(call)[n] = [text |-> TextOf(call)[n - 1].text, open |-> TRUE]
  BY TextIs DEF Grown
<1>3. TextOf(call)[n + 1] = Grown(call, n + 1, TextOf(call)[n])
  BY <1>1, TextIs
<1> QED
  BY <1>1, <1>2, <1>3 DEF Grown

(* A sequence reads like its end, from the last sign on.                   *)
LEMMA ValuesAgree ==
  ASSUME NEW s \in Seq(Int), NEW t \in Seq(Int), NEW d \in 0 .. Len(s),
         d = 0 \/ s[d] = Minus,
         d + Len(t) <= Len(s), \A i \in 1 .. Len(t) : s[d + i] = t[i]
  PROVE  Values(s)[d + Len(t)] = Values(t)[Len(t)]
<1> DEFINE V == Values(s)
           W == Values(t)
           S == {k \in Nat : k <= Len(t) => V[d + k] = W[k]}
<1>1. 0 \in S
  <2>1. W[0] = 0 /\ V[0] = 0 /\ (d > 0 => V[d] = 0)
    BY ValuesAre
  <2> HIDE DEF V, W
  <2>2. d + 0 = d /\ d \in Nat
    OBVIOUS
  <2> QED
    BY <2>1, <2>2
<1>2. ASSUME NEW k \in Nat, k \in S PROVE k + 1 \in S
  <2> SUFFICES ASSUME k + 1 <= Len(t) PROVE V[d + (k + 1)] = W[k + 1]
    OBVIOUS
  <2>1. /\ k + 1 \in 1 .. Len(t) /\ (k + 1) - 1 = k
        /\ d + (k + 1) \in 1 .. Len(s) /\ d + (k + 1) - 1 = d + k
        /\ s[d + (k + 1)] = t[k + 1]
    <3>1. Len(t) \in Nat /\ Len(s) \in Nat /\ d \in Nat /\ d + Len(t) <= Len(s)
      OBVIOUS
    <3>2. k + 1 \in 1 .. Len(t)
      BY <3>1
    <3>3. s[d + (k + 1)] = t[k + 1]
      BY <3>2
    <3>4. d + (k + 1) \in 1 .. Len(s) /\ (k + 1) - 1 = k /\ d + (k + 1) - 1 = d + k
      BY <3>1, <3>2
    <3> QED
      BY <3>2, <3>3, <3>4
  <2>2. V[d + k] = W[k]
    <3> HIDE DEF V, W
    <3> QED
      BY <1>2, <2>1
  <2>3. W[k + 1] = IF t[k + 1] = Minus THEN 0 ELSE 10 * W[(k + 1) - 1] + t[k + 1] - Zero
    BY <2>1, ValuesAre
  <2>4. V[d + (k + 1)] = IF s[d + (k + 1)] = Minus THEN 0
                         ELSE 10 * V[d + (k + 1) - 1] + s[d + (k + 1)] - Zero
    BY <2>1, ValuesAre
  <2> HIDE DEF V, W
  <2> QED
    BY <2>1, <2>2, <2>3, <2>4
<1>3. Len(t) \in S
  <2>1. Len(t) \in Nat
    OBVIOUS
  <2> HIDE DEF S
  <2> QED
    BY <1>1, <1>2, <2>1, Induction
<1> QED
  BY <1>3

LEMMA ValueAppended ==
  ASSUME NEW s \in Seq(Int), NEW c \in Int, c # Minus
  PROVE  Values(Append(s, c))[Len(s) + 1] = 10 * Values(s)[Len(s)] + c - Zero
<1> DEFINE a == Append(s, c)
<1>1. /\ a \in Seq(Int) /\ Len(a) = Len(s) + 1 /\ a[Len(s) + 1] = c
      /\ Len(s) + 1 \in 1 .. Len(a) /\ (Len(s) + 1) - 1 = Len(s)
      /\ 0 \in 0 .. Len(a) /\ \A i \in 1 .. Len(s) : a[0 + i] = s[i]
      /\ 0 + Len(s) = Len(s) /\ Len(s) <= Len(a)
  OBVIOUS
<1> HIDE DEF a
<1>2. Values(a)[0 + Len(s)] = Values(s)[Len(s)]
  BY <1>1, ValuesAgree
<1>3. Values(a)[Len(s) + 1] = IF a[Len(s) + 1] = Minus THEN 0
                              ELSE 10 * Values(a)[(Len(s) + 1) - 1] + a[Len(s) + 1] - Zero
  BY <1>1, ValuesAre
<1> QED
  BY <1>1, <1>2, <1>3 DEF a

(* The digits of a number that is not negative read as the number.         *)
LEMMA DigitsReadBack ==
  ASSUME NEW n \in Nat
  PROVE  Values(Digits(n))[Len(Digits(n))] = n
<1> DEFINE D == DigitsUpTo(n)
           Reads(s, k) == s \in Seq(Int) /\ Values(s)[Len(s)] = k
           S == {m \in Nat : \A k \in 0 .. m : k <= n => Reads(D[k], k)}
<1>1. Magnitude(n) = n /\ n \in Int
  BY DEF Magnitude
<1>2. ASSUME NEW k \in 0 .. 9 PROVE Reads(<<DigitOf(n, k)>>, k)
  <2> DEFINE c == DigitOf(n, k)
  <2>1. c = Zero + k /\ c \in Int /\ c # Minus
    BY DEF DigitOf, Zero, Minus
  <2> HIDE DEF c
  <2>2. /\ <<c>> \in Seq(Int) /\ Len(<<c>>) = 1 /\ <<c>>[1] = c
        /\ 1 \in 1 .. Len(<<c>>) /\ 1 - 1 = 0
    BY <2>1
  <2>3. Values(<<c>>)[1] = 10 * 0 + c - Zero
    BY <2>1, <2>2, ValuesAre
  <2>4. Values(<<c>>)[Len(<<c>>)] = k
    BY <2>1, <2>2, <2>3 DEF Zero
  <2> QED
    BY <2>2, <2>4 DEF c
<1>3. 0 \in S
  <2>1. D[0] = <<DigitOf(n, 0)>>
    BY <1>1, FirstDigit
  <2>2. Reads(D[0], 0)
    BY <1>2, <2>1
  <2> HIDE DEF D, Reads
  <2> QED
    BY <2>2
<1>4. ASSUME NEW m \in Nat, m \in S PROVE m + 1 \in S
  <2> SUFFICES ASSUME m + 1 <= n PROVE Reads(D[m + 1], m + 1)
    BY <1>4
  <2> DEFINE k == m + 1
  <2>1. D[k] = IF k < 10 THEN <<DigitOf(n, k)>>
               ELSE Append(D[k \div 10], DigitOf(n, k % 10))
    BY <1>1, DigitsIs
  <2>2. CASE k < 10
    BY <1>2, <2>1, <2>2
  <2>3. CASE ~(k < 10)
    <3> DEFINE s == D[k \div 10]
               c == DigitOf(n, k % 10)
    <3>1. k \div 10 \in 0 .. m /\ k % 10 \in 0 .. 9 /\ k = 10 * (k \div 10) + (k % 10)
      BY <2>3
    <3>2. Reads(s, k \div 10) /\ c = Zero + (k % 10)
      BY <1>4, <3>1 DEF DigitOf
    <3>3. D[k] = Append(s, c)
      BY <2>1, <2>3
    <3>4. s \in Seq(Int) /\ c \in Int /\ c # Minus /\ Values(s)[Len(s)] = k \div 10
      BY <3>1, <3>2 DEF Zero, Minus
    <3> HIDE DEF s, c, k, D
    <3>5. Values(Append(s, c))[Len(s) + 1] = 10 * Values(s)[Len(s)] + c - Zero
      BY <3>4, ValueAppended
    <3>6. Append(s, c) \in Seq(Int) /\ Len(Append(s, c)) = Len(s) + 1
      BY <3>4
    <3>7. 10 * Values(s)[Len(s)] + c - Zero = k
      <4> DEFINE q == k \div 10
                 r == k % 10
      <4>1. k = 10 * q + r /\ q \in Int /\ r \in Int /\ Values(s)[Len(s)] = q /\ c = Zero + r
        BY <3>1, <3>2, <3>4
      <4> HIDE DEF q, r
      <4> QED
        BY <4>1 DEF Zero
    <3> QED
      BY <3>3, <3>5, <3>6, <3>7 DEF k
  <2> QED
    BY <2>2, <2>3
<1>5. n \in S
  <2> HIDE DEF S
  <2> QED
    BY <1>3, <1>4, Induction
<1>6. Reads(D[n], n)
  BY <1>5
<1> QED
  BY <1>1, <1>6, DigitsIs

LEMMA DecimalReadsBack ==
  ASSUME NEW n \in Ints, n # MinInt
  PROVE  n = IF Decimal(n)[1] = Minus THEN -Values(Decimal(n))[Len(Decimal(n))]
                                      ELSE Values(Decimal(n))[Len(Decimal(n))]
<1>1. n \in Int /\ (n >= 0 => n \in Nat) /\ (n < 0 => -n \in Nat) /\ Minus \in Int
  BY PrintingAssumption DEF Ints, MinInt, Minus
<1>2. CASE n >= 0
  <2>1. Decimal(n) = Digits(n) /\ n \in Nat
    BY <1>1, <1>2 DEF Decimal
  <2>2. Digits(n)[1] # Minus
    BY <2>1, <1>1, DigitsType
  <2>3. Values(Digits(n))[Len(Digits(n))] = n
    BY <2>1, DigitsReadBack
  <2> QED
    BY <2>1, <2>2, <2>3
<1>3. CASE n < 0
  <2> DEFINE t == Digits(-n)
             s == <<Minus>> \o t
  <2>1. Decimal(n) = s
    BY <1>3 DEF Decimal, Negated
  <2>2. t \in Seq(Int) /\ Values(t)[Len(t)] = -n
    <3> DEFINE m == -n
    <3>1. m \in Nat /\ m \in Int
      BY <1>1, <1>3
    <3> HIDE DEF m
    <3>2. Digits(m) \in Seq(Int) /\ Values(Digits(m))[Len(Digits(m))] = m
      BY <3>1, DigitsType, DigitsReadBack
    <3> QED
      BY <3>2 DEF m
  <2> HIDE DEF t
  <2>3. /\ s \in Seq(Int) /\ Len(s) = 1 + Len(t) /\ s[1] = Minus
        /\ 1 \in 0 .. Len(s) /\ 1 + Len(t) <= Len(s) /\ \A i \in 1 .. Len(t) : s[1 + i] = t[i]
    BY <1>1, <2>2
  <2> HIDE DEF s
  <2>4. Values(s)[1 + Len(t)] = Values(t)[Len(t)]
    BY <2>2, <2>3, ValuesAgree
  <2> QED
    BY <1>1, <2>1, <2>2, <2>3, <2>4
<1> QED
  BY <1>1, <1>2, <1>3

(* What has been written and what is still pending are together the text   *)
(* of the format so far, unless the room ran out.                          *)
Text(n) == TextOf(print)[n]

PrintInv ==
  /\ PrintingTypeOK
  /\ at <= Len(print.fmt) + 1
  /\ Len(out) < print.size
  /\ ~Text(at - 1).open
  /\ \/ out \o pending = Text(at - 1).text
     \/ pending = <<>> /\ ~HasRoom /\ Begins(out, Text(at - 1).text)
  /\ ret # -1 => ret = Len(out) /\ pending = <<>> /\ ~(InFormat /\ HasRoom)

LEMMA PrintCallOK ==
  ASSUME PrintingTypeOK
  PROVE  CallOK(print) /\ print.size \in Nat \ {0} /\ Len(print.fmt) \in Nat
<1>1. CASE print = Nothing
  BY <1>1, PrintingAssumption DEF Nothing, CallOK, Ints, MinInt
<1>2. CASE print \in PrintCall
  <2>1. /\ print.fmt \in Seq(Codes) /\ print.str \in Seq(Codes) /\ print.int \in Ints
        /\ print.char \in Codes /\ print.size \in Nat \ {0}
    BY <1>2, PrintingAssumption DEF PrintCall
  <2>2. Codes \subseteq Int
    BY DEF Codes
  <2>3. Seq(Codes) \subseteq Seq(Int)
    BY <2>2, SeqMonotonic
  <2>4. print.fmt \in Seq(Int) /\ print.str \in Seq(Int) /\ print.char \in Int
    BY <2>1, <2>2, <2>3
  <2> QED
    BY <2>1, <2>4 DEF CallOK
<1> QED
  BY <1>1, <1>2 DEF PrintingTypeOK

LEMMA PrintStarts == ASSUME PrintingInit PROVE PrintInv
<1>1. PrintingTypeOK
  BY DEF PrintingInit, PrintingTypeOK
<1>2. CallOK(print) /\ print.size \in Nat \ {0} /\ Len(print.fmt) \in Nat
  BY <1>1, PrintCallOK
<1>3. at = 1 /\ at - 1 = 0 /\ out = <<>> /\ pending = <<>> /\ ret = -1
  BY DEF PrintingInit
<1>4. Text(0) = Empty
  BY <1>2, TextIs DEF Text
<1>5. out \o pending = Text(at - 1).text /\ ~Text(at - 1).open
  BY <1>3, <1>4 DEF Empty
<1> QED
  BY <1>1, <1>2, <1>3, <1>5 DEF PrintInv

LEMMA PrintStep == ASSUME PrintInv, PrintingNext PROVE PrintInv'
<1>1. /\ CallOK(print) /\ print.size \in Nat \ {0} /\ Len(print.fmt) \in Nat
      /\ print.fmt \in Seq(Int) /\ print.char \in Int /\ print.str \in Seq(Int)
      /\ print.int \in Ints
  BY PrintCallOK DEF PrintInv, CallOK
<1>2. /\ at \in Nat \ {0} /\ pending \in Seq(Int) /\ out \in Seq(Int) /\ ret \in Int
      /\ print \in PrintCall \cup {Nothing}
  BY DEF PrintInv, PrintingTypeOK
<1>3. at - 1 \in 0 .. Len(print.fmt) /\ Text(at - 1) \in Texts
  BY <1>1, <1>2, TextIs DEF PrintInv, Text
<1>4. ASSUME Outer PROVE /\ at \in 1 .. Len(print.fmt) /\ print.fmt[at] \in Int
                         /\ Text(at - 1).text = out
                         /\ ret = -1 /\ pending = <<>> /\ HasRoom
  <2>1. at \in 1 .. Len(print.fmt) /\ pending = <<>> /\ HasRoom /\ ret = -1
    BY <1>1, <1>2, <1>4 DEF Outer, InFormat
  <2>2. out \o pending = Text(at - 1).text
    BY <2>1 DEF PrintInv
  <2>3. out \o pending = out
    BY <1>2, <2>1
  <2> QED
    BY <1>1, <2>1, <2>2, <2>3
<1>5. ~Text(at - 1).open
  BY DEF PrintInv
<1>6. CASE Literal
  <2>1. Outer /\ ~Converts /\ out' = Append(out, print.fmt[at]) /\ at' = at + 1
        /\ print' = print /\ pending' = pending /\ ret' = ret
    BY <1>6 DEF Literal
  <2>2. Text(at) = [text |-> Append(out, print.fmt[at]), open |-> FALSE]
    BY <1>1, <1>4, <1>5, <2>1, TakesLiteral DEF Converts, Text
  <2>3. /\ (Text(at - 1))' = Text(at)
        /\ out' \in Seq(Int) /\ Len(out') = Len(out) + 1 /\ pending' = <<>> /\ ret' = -1
        /\ out' \o pending' = out' /\ at' \in Nat \ {0} /\ at' <= Len(print.fmt) + 1
    <3>1. at' - 1 = at
      BY <1>2, <2>1
    <3> QED
      BY <1>2, <1>4, <2>1, <3>1 DEF Text
  <2>4. (out \o pending = Text(at - 1).text)' /\ (~Text(at - 1).open)'
    BY <2>1, <2>2, <2>3
  <2>5. Len(out') < print'.size
    BY <1>1, <1>2, <1>4, <2>1, <2>3 DEF HasRoom
  <2> QED
    BY <1>2, <2>1, <2>3, <2>4, <2>5 DEF PrintInv, PrintingTypeOK
<1>7. CASE Single
  <2> DEFINE c == print.fmt[at + 1]
             x == IF c = LetterC THEN print.char ELSE c
  <2>1. /\ Outer /\ Converts /\ c \notin {LetterS, LetterD}
        /\ out' = Append(out, x) /\ at' = at + 2
        /\ print' = print /\ pending' = pending /\ ret' = ret
    BY <1>7 DEF Single
  <2>2. at + 1 \in 1 .. Len(print.fmt) /\ c \in Int
        /\ Text(at + 1) = [text |-> out \o Meant(print, c), open |-> FALSE]
    <3>1. print.fmt[at] = Percent /\ at < Len(print.fmt)
      BY <2>1 DEF Converts
    <3>2. at \in 1 .. Len(print.fmt) /\ ~TextOf(print)[at - 1].open /\ TextOf(print)[at - 1].text = out
      BY <1>4, <1>5, <2>1 DEF Text
    <3>3. /\ at + 1 \in 1 .. Len(print.fmt)
          /\ TextOf(print)[at + 1] = [text |-> out \o Meant(print, c), open |-> FALSE]
      <4> HIDE DEF CallOK
      <4> QED
        BY <1>1, <3>1, <3>2, TakesConversion
    <3> QED
      BY <1>1, <3>3 DEF Text
  <2>3. Meant(print, c) = <<x>>
    BY <2>1 DEF Meant
  <2>4. x \in Int /\ out \o <<x>> = Append(out, x)
    BY <1>1, <1>2, <2>2
  <2>5. /\ (Text(at - 1))' = Text(at + 1)
        /\ out' \in Seq(Int) /\ Len(out') = Len(out) + 1 /\ pending' = <<>> /\ ret' = -1
        /\ out' \o pending' = out' /\ at' \in Nat \ {0} /\ at' <= Len(print.fmt) + 1
    <3>1. at' - 1 = at + 1
      BY <1>2, <2>1
    <3> HIDE DEF x
    <3>2. out' \in Seq(Int) /\ Len(out') = Len(out) + 1
      BY <1>2, <2>1, <2>4
    <3>3. (Text(at - 1))' = Text(at + 1)
      BY <2>1, <3>1 DEF Text
    <3>4. pending' = <<>> /\ ret' = -1
      BY <1>4, <2>1
    <3>5. out' \o pending' = out'
      BY <3>2, <3>4
    <3>6. at + 2 \in Nat \ {0} /\ at + 2 <= Len(print.fmt) + 1
      <4>1. at + 1 <= Len(print.fmt)
        BY <2>2
      <4> QED
        BY <1>1, <1>2, <4>1
    <3> QED
      BY <2>1, <3>2, <3>3, <3>4, <3>5, <3>6
  <2> HIDE DEF c, x
  <2>6. (out \o pending = Text(at - 1).text)' /\ (~Text(at - 1).open)'
    <3>1. Text(at + 1).text = Append(out, x) /\ ~Text(at + 1).open
      BY <2>2, <2>3, <2>4
    <3>2. out' \o pending' = Append(out, x)
      BY <2>1, <2>5
    <3> QED
      BY <2>5, <3>1, <3>2
  <2>7. Len(out') < print'.size
    <3>1. Len(out) < print.size - 1 /\ print'.size = print.size
      BY <1>4, <2>1 DEF HasRoom
    <3>2. Len(out) \in Nat /\ Len(out') = Len(out) + 1
      BY <1>2, <2>5
    <3> QED
      BY <1>1, <3>1, <3>2
  <2> QED
    BY <1>2, <2>1, <2>5, <2>6, <2>7 DEF PrintInv, PrintingTypeOK
<1>8. CASE Several
  <2> DEFINE c == print.fmt[at + 1]
             w == IF c = LetterS THEN print.str ELSE Decimal(print.int)
  <2>1. /\ Outer /\ Converts /\ c \in {LetterS, LetterD}
        /\ pending' = w /\ at' = at + 2
        /\ print' = print /\ out' = out /\ ret' = ret
    BY <1>8 DEF Several
  <2>2. at + 1 \in 1 .. Len(print.fmt) /\ c \in Int
        /\ Text(at + 1) = [text |-> out \o Meant(print, c), open |-> FALSE]
    <3>1. print.fmt[at] = Percent /\ at < Len(print.fmt)
      BY <2>1 DEF Converts
    <3>2. at \in 1 .. Len(print.fmt) /\ ~TextOf(print)[at - 1].open /\ TextOf(print)[at - 1].text = out
      BY <1>4, <1>5, <2>1 DEF Text
    <3>3. /\ at + 1 \in 1 .. Len(print.fmt)
          /\ TextOf(print)[at + 1] = [text |-> out \o Meant(print, c), open |-> FALSE]
      <4> HIDE DEF CallOK
      <4> QED
        BY <1>1, <3>1, <3>2, TakesConversion
    <3> QED
      BY <1>1, <3>3 DEF Text
  <2>3. Meant(print, c) = w /\ w \in Seq(Int)
    <3>1. Meant(print, c) = w
      <4> HIDE DEF c
      <4>1. CASE c = LetterS
        BY <4>1 DEF Meant, LetterS, LetterD, LetterC
      <4>2. CASE c = LetterD
        BY <4>2 DEF Meant, LetterS, LetterD, LetterC
      <4> QED
        BY <2>1, <4>1, <4>2
    <3> QED
      BY <1>1, <2>2, <3>1, MeantType
  <2>4. /\ (Text(at - 1))' = Text(at + 1)
        /\ ret' = -1 /\ at' \in Nat \ {0} /\ at' <= Len(print.fmt) + 1
    <3>1. at' - 1 = at + 1
      BY <1>2, <2>1
    <3>2. (Text(at - 1))' = Text(at + 1)
      BY <2>1, <3>1 DEF Text
    <3>3. at + 1 <= Len(print.fmt) /\ ret' = -1
      BY <1>4, <2>1, <2>2
    <3>4. at + 2 \in Nat \ {0} /\ at + 2 <= Len(print.fmt) + 1
      BY <1>1, <1>2, <3>3
    <3> QED
      BY <2>1, <3>2, <3>3, <3>4
  <2> HIDE DEF c, w
  <2>5. (out \o pending = Text(at - 1).text)' /\ (~Text(at - 1).open)'
    BY <2>1, <2>2, <2>3, <2>4
  <2> QED
    BY <1>2, <2>1, <2>3, <2>4, <2>5 DEF PrintInv, PrintingTypeOK
<1>9. CASE Put
  <2>1. /\ pending # <<>> /\ HasRoom /\ out' = Append(out, Head(pending))
        /\ pending' = Tail(pending) /\ print' = print /\ at' = at /\ ret' = ret
    BY <1>9 DEF Put
  <2>2. /\ out' \in Seq(Int) /\ pending' \in Seq(Int) /\ Len(out') = Len(out) + 1
        /\ out' \o pending' = out \o pending
    BY <1>2, <2>1
  <2>3. out \o pending = Text(at - 1).text /\ ret = -1
    BY <2>1 DEF PrintInv
  <2>4. (Text(at - 1))' = Text(at - 1)
    BY <2>1 DEF Text
  <2>5. (out \o pending = Text(at - 1).text)' /\ (~Text(at - 1).open)'
    BY <1>5, <2>2, <2>3, <2>4
  <2>6. Len(out') < print'.size
    BY <1>1, <1>2, <2>1, <2>2 DEF HasRoom
  <2> QED
    BY <1>2, <2>1, <2>2, <2>3, <2>5, <2>6 DEF PrintInv, PrintingTypeOK
<1>10. CASE Cut
  <2>1. /\ pending # <<>> /\ ~HasRoom /\ out' = out
        /\ pending' = <<>> /\ print' = print /\ at' = at /\ ret' = ret
    BY <1>10 DEF Cut
  <2>2. out \o pending = Text(at - 1).text /\ ret = -1
    BY <2>1 DEF PrintInv
  <2>3. Begins(out, out \o pending)
    BY <1>2 DEF Begins
  <2>4. (Text(at - 1))' = Text(at - 1)
    BY <2>1 DEF Text
  <2>5. (Begins(out, Text(at - 1).text))' /\ (~Text(at - 1).open)' /\ (~HasRoom)'
    BY <1>5, <2>1, <2>2, <2>3, <2>4 DEF Begins, HasRoom
  <2> QED
    BY <1>2, <2>1, <2>2, <2>5 DEF PrintInv, PrintingTypeOK
<1>11. CASE Return
  <2>1. /\ pending = <<>> /\ ~(InFormat /\ HasRoom) /\ ret' = Len(out) /\ out' = out
        /\ pending' = pending /\ print' = print /\ at' = at
    BY <1>11 DEF Return
  <2>2. (Text(at - 1))' = Text(at - 1) /\ HasRoom' = HasRoom /\ InFormat' = InFormat
    BY <2>1 DEF Text, HasRoom, InFormat
  <2>3. ret' \in Int
    BY <1>2, <2>1
  <2> QED
    BY <1>2, <2>1, <2>2, <2>3 DEF PrintInv, PrintingTypeOK, Begins
<1>12. CASE Again
  BY <1>12 DEF Again, printing, PrintInv, PrintingTypeOK, Text, Begins, HasRoom, InFormat
<1> QED
  BY <1>6, <1>7, <1>8, <1>9, <1>10, <1>11, <1>12 DEF PrintingNext

LEMMA PrintStays == ASSUME PrintInv, UNCHANGED printing PROVE PrintInv'
BY DEF printing, PrintInv, PrintingTypeOK, Text, Begins, HasRoom, InFormat

(* The inductive invariant yields what the caller relies on.               *)
LEMMA PrintsSuffice == ASSUME PrintInv PROVE PrintsBeginning
<1>1. SUFFICES ASSUME ret # -1
      PROVE  LET n == IF Len(Whole) < print.size THEN Len(Whole) ELSE print.size - 1
             IN  ret = n /\ out = SubSeq(Whole, 1, n)
  BY DEF PrintInv, PrintsBeginning
<1> DEFINE N == Len(print.fmt)
<1>2. CallOK(print) /\ print.size \in Nat \ {0} /\ N \in Nat /\ N \in 0 .. N
  BY PrintCallOK DEF PrintInv
<1>3. at \in Nat \ {0} /\ out \in Seq(Int) /\ ret = Len(out) /\ pending = <<>>
      /\ at - 1 \in 0 .. N /\ ~(InFormat /\ HasRoom) /\ Len(out) < print.size
  BY <1>1, <1>2 DEF PrintInv, PrintingTypeOK
<1>4. Whole = Text(N).text /\ Whole \in Seq(Int)
  BY <1>2, TextIs DEF Whole, Text, Texts
<1>5. Begins(Text(at - 1).text, Whole)
  <2>1. N \in at - 1 .. N
    BY <1>2, <1>3
  <2> QED
    BY <1>2, <1>3, <1>4, <2>1, TextGrows DEF Text
<1>6. Begins(out, Text(at - 1).text)
  <2>1. out \o pending = out
    BY <1>3
  <2>2. Begins(out, out)
    BY <1>3 DEF Begins
  <2> QED
    BY <2>1, <2>2 DEF PrintInv
<1>7. Text(at - 1).text \in Seq(Int)
  BY <1>2, <1>3, TextIs DEF Text, Texts
<1>8. Begins(out, Whole)
  <2> DEFINE t == Text(at - 1).text
  <2>1. Len(out) \in Nat /\ Len(t) \in Nat /\ Len(Whole) \in Nat
    BY <1>3, <1>4, <1>7
  <2> HIDE DEF t
  <2> QED
    BY <1>5, <1>6, <2>1 DEF Begins, t
<1>9. CASE ~HasRoom
  <2>1. Len(out) = print.size - 1 /\ Len(out) <= Len(Whole)
    BY <1>2, <1>3, <1>8, <1>9 DEF HasRoom, Begins
  <2>2. out = SubSeq(Whole, 1, Len(out))
    BY <1>3, <1>4, <1>8 DEF Begins
  <2> QED
    BY <1>2, <1>3, <1>4, <2>1, <2>2
<1>10. CASE HasRoom
  <2>1. at - 1 = N
    BY <1>2, <1>3, <1>10 DEF InFormat
  <2>2. out \o pending = Text(at - 1).text
    BY <1>10 DEF PrintInv
  <2>3. out = Whole
    BY <1>3, <1>4, <2>1, <2>2
  <2>4. Whole = SubSeq(Whole, 1, Len(Whole))
    BY <1>4
  <2> QED
    BY <1>3, <2>3, <2>4
<1> QED
  BY <1>9, <1>10

LEMMA ReadsBackSuffices == ASSUME PrintInv PROVE NumbersReadBack
<1> SUFFICES ASSUME print.fmt = <<Percent, LetterD>>, ret # -1, ret < print.size - 1,
                    print.int # MinInt
             PROVE  LET v == Values(out)[Len(out)]
                    IN  print.int = IF out[1] = Minus THEN -v ELSE v
  BY DEF NumbersReadBack
<1>1. CallOK(print) /\ print.size \in Nat \ {0} /\ Len(print.fmt) = 2 /\ print.int \in Ints
  BY PrintCallOK DEF PrintInv, CallOK
<1>2. at \in Nat \ {0} /\ out \in Seq(Int) /\ ret = Len(out) /\ pending = <<>>
      /\ at <= Len(print.fmt) + 1 /\ ~(InFormat /\ HasRoom)
  BY DEF PrintInv, PrintingTypeOK
<1>3. HasRoom /\ at - 1 = 2
  BY <1>1, <1>2 DEF HasRoom, InFormat
<1>4. out = Text(2).text
  <2>1. out \o pending = Text(at - 1).text
    BY <1>3 DEF PrintInv
  <2> QED
    BY <1>2, <1>3, <2>1
<1>5. Text(2).text = Decimal(print.int)
  <2>1. /\ 1 \in 1 .. Len(print.fmt) /\ 1 < Len(print.fmt) /\ 1 - 1 = 0 /\ 1 + 1 = 2
        /\ print.fmt[1] = Percent /\ print.fmt[2] = LetterD
    BY <1>1
  <2>2. TextOf(print)[0] = Empty
    BY <1>1, TextIs
  <2>3. TextOf(print)[2] =
          [text |-> TextOf(print)[0].text \o Meant(print, LetterD), open |-> FALSE]
    <3>1. ~TextOf(print)[1 - 1].open
      BY <2>1, <2>2 DEF Empty
    <3> QED
      BY <1>1, <2>1, <3>1, TakesConversion
  <2>4. Meant(print, LetterD) = Decimal(print.int)
    BY DEF Meant, LetterS, LetterD, LetterC
  <2>5. <<>> \o Decimal(print.int) = Decimal(print.int)
    BY <1>1, DecimalType
  <2> QED
    BY <2>2, <2>3, <2>4, <2>5 DEF Text, Empty
<1> QED
  BY <1>1, <1>4, <1>5, DecimalReadsBack

LEMMA PrintingPreserved ==
  /\ Init => PrintInv
  /\ PrintInv /\ [Next]_vars => PrintInv'
<1>1. Init => PrintInv
  BY PrintStarts DEF Init
<1>2. ASSUME PrintInv, [Next]_vars PROVE PrintInv'
  <2>1. PrintingNext \/ UNCHANGED printing
    BY <1>2 DEF Next, vars
  <2> QED
    BY <1>2, <2>1, PrintStep, PrintStays
<1> QED
  BY <1>1, <1>2

(* However the call was cut short, what snprintf wrote is the beginning of *)
(* the text, inside the buffer, and its result says how long it is.        *)
THEOREM AlwaysPrintsBeginning == Spec => []PrintsBeginning
<1>1. Init => PrintInv
  BY PrintingPreserved
<1>2. PrintInv /\ [Next]_vars => PrintInv'
  BY PrintingPreserved
<1>3. PrintInv => PrintsBeginning
  BY PrintsSuffice
<1> QED
  BY <1>1, <1>2, <1>3, PTL DEF Spec

(* Every int but the least is printed as digits that read as the int.      *)
THEOREM NumbersAlwaysReadBack == Spec => []NumbersReadBack
<1>1. Init => PrintInv
  BY PrintingPreserved
<1>2. PrintInv /\ [Next]_vars => PrintInv'
  BY PrintingPreserved
<1>3. PrintInv => NumbersReadBack
  BY ReadsBackSuffices
<1> QED
  BY <1>1, <1>2, <1>3, PTL DEF Spec

------------------------------------------------------------------------------
(* Types: a token is a place in memory and a length that stays inside it.  *)

LEMMA FirstOf ==
  ASSUME NEW T, T \subseteq Token, T # {}
  PROVE  \E x \in T : \A y \in T : x[1] <= y[1]
<1> DEFINE S == {x[1] : x \in T}
<1>1. S \subseteq Nat /\ S # {}
  BY DEF Token, Cells
<1>2. PICK m \in S : \A k \in S : m <= k
  BY <1>1, Least
<1> QED
  BY <1>2

LEMMA TokensAreTokens ==
  ASSUME NEW p \in Cells, NEW d, IsString(p)
  PROVE  Tokens(p, d) \subseteq Token
<1>1. p \in Nat /\ eclib_strlen(p) \in Nat /\ p + eclib_strlen(p) \in Cells
  BY StringIs
<1>2. p .. p + eclib_strlen(p) \subseteq Cells
  BY <1>1 DEF Cells
<1>3. 1 .. Size - 1 \subseteq Cells
  BY DEF Cells
<1> QED
  BY <1>2, <1>3 DEF Tokens, Token

LEMMA TokenizeTypes ==
  ASSUME mem \in [Cells -> Bytes], NEW p \in Cells, NEW d, 0 \notin d, IsString(p),
         NEW x, x \subseteq Token, Tokenize(p, d, x)
  PROVE  /\ due' \subseteq Token
         /\ told' \in [token : Token \cup {Null}, due : Token \cup {Null}]
<1>1. PICK end \in Cells :
        /\ end = p + eclib_strlen(p)
        /\ p <= end /\ mem[end] = 0 /\ \A k \in p .. end - 1 : mem[k] # 0
  BY EndOfString
<1>2. PICK b, e :
        /\ b = Skipped(p, d) /\ e = EndOf(b, d)
        /\ Skips(mem, p, d, end, b)
        /\ mem[b] # 0 => FirstToken(mem, p, d, end, b, e)
  BY <1>1, LoopsOfStrtok
<1>3. PICK next :
        /\ next = IF x = {} THEN Null ELSE CHOOSE t \in x : \A y \in x : t[1] <= y[1]
        /\ due' = x \ {next}
        /\ told' = [token |-> IF mem[b] = 0 THEN Null ELSE <<b, e - b>>, due |-> next]
  BY <1>2 DEF Tokenize
<1>4. next \in Token \cup {Null}
  BY <1>3, FirstOf
<1>5. mem[b] # 0 => <<b, e - b>> \in Token
  <2> SUFFICES ASSUME mem[b] # 0 PROVE b \in Cells /\ e - b \in Cells
    BY DEF Token
  <2>1. b \in p .. end /\ e \in b + 1 .. end
    BY <1>2 DEF FirstToken, Skips
  <2> QED
    BY <2>1 DEF Cells
<1> QED
  BY <1>3, <1>4, <1>5

ScanTypes ==
  /\ owner \in Callers \cup {Null}
  /\ due \subseteq Token
  /\ mixed \in BOOLEAN
  /\ told \in [token : Token \cup {Null}, due : Token \cup {Null}]

LEMMA ScanTypesKept ==
  ASSUME IInv, TokensInv, ScanTypes, [Next]_vars
  PROVE  ScanTypes'
<1>1. mem \in [Cells -> Bytes]
  BY DEF IInv, CopyingTypeOK
<1>2. CASE ScanningNext
  <2>1. CASE strtok_nothing
    BY <2>1 DEF strtok_nothing, ScanTypes
  <2>2. ASSUME NEW c \in Callers, strtok_continue(c) PROVE ScanTypes'
    <3>1. /\ save \in Cells /\ IsString(save) /\ 0 \notin delim[c] /\ owner' = owner
          /\ mixed' = (mixed \/ c # owner) /\ Tokenize(save, delim[c], due)
      BY <2>2, ScanningAssumption DEF strtok_continue, TokensInv
    <3>2. due \subseteq Token /\ owner \in Callers \cup {Null}
      BY DEF ScanTypes
    <3>3. due' \subseteq Token /\ told' \in [token : Token \cup {Null}, due : Token \cup {Null}]
      BY <1>1, <3>1, <3>2, TokenizeTypes
    <3>4. mixed' \in BOOLEAN
      BY <3>1
    <3> QED
      BY <3>1, <3>2, <3>3, <3>4 DEF ScanTypes
  <2>3. ASSUME NEW c \in Callers, NEW p \in Cells, eclib_strtok(c, p) PROVE ScanTypes'
    <3>1. /\ IsString(p) /\ 0 \notin delim[c] /\ owner' = c /\ mixed' = FALSE
          /\ Tokenize(p, delim[c], Tokens(p, delim[c]))
      BY <2>3, ScanningAssumption DEF eclib_strtok, TokensInv
    <3>2. due' \subseteq Token /\ told' \in [token : Token \cup {Null}, due : Token \cup {Null}]
      BY <1>1, <3>1, TokensAreTokens, TokenizeTypes
    <3> QED
      BY <3>1, <3>2 DEF ScanTypes
  <2> QED
    BY <1>2, <2>1, <2>2, <2>3 DEF ScanningNext
<1>3. CASE UNCHANGED scan
  BY <1>3 DEF scan, ScanTypes
<1> QED
  BY <1>2, <1>3 DEF Next, vars

LEMMA PackingTypesKept ==
  ASSUME PackingTypeOK, [Next]_vars
  PROVE  PackingTypeOK'
<1>1. CASE Pack
  <2>1. nextArg \in 1 .. Len(argv) /\ argv \in Seq(Seq(Nat \ {0}))
    BY <1>1, PackingAssumption DEF Pack, PackingTypeOK
  <2>2. argv[nextArg] \in Seq(Nat \ {0})
    BY <2>1
  <2>3. Seq(Nat \ {0}) \subseteq Seq(Nat)
    <3>1. Nat \ {0} \subseteq Nat
      OBVIOUS
    <3> QED
      BY <3>1, SeqMonotonic
  <2>4. argv[nextArg] \in Seq(Nat) /\ <<0>> \in Seq(Nat) /\ field \in Seq(Nat)
    BY <2>2, <2>3 DEF PackingTypeOK
  <2>5. field \o argv[nextArg] \o <<0>> \in Seq(Nat)
    BY <2>4
  <2>6. field' \in Seq(Nat) /\ nextArg' = nextArg + 1 /\ argv' = argv
    BY <1>1, <2>4, <2>5 DEF Pack
  <2> QED
    BY <2>1, <2>6 DEF PackingTypeOK
<1>2. CASE UNCHANGED packing
  BY <1>2 DEF packing, PackingTypeOK
<1> QED
  BY <1>1, <1>2 DEF Next, vars, PackingNext, Packed

TypeInv == IInv /\ TokensInv /\ PrintInv /\ ScanTypes /\ PackingTypeOK
           /\ program \in {"copies", "splits", "prints", "packs"}

(* Whatever a program does with the library, every variable keeps its type. *)
THEOREM AlwaysTyped == Spec => []TypeOK
<1>1. Init => TypeInv
  <2> SUFFICES ASSUME Init PROVE TypeInv
    OBVIOUS
  <2>1. IInv /\ TokensInv /\ PrintInv
    BY Starts_IInv, Starts_TokensInv, PrintingPreserved
  <2>2. ScanTypes
    BY DEF Init, ScanningInit, ScanTypes
  <2>3. PackingTypeOK
    <3>1. argv \in Vectors /\ nextArg = 1 /\ field = <<>>
      BY DEF Init, PackingInit
    <3>2. Len(argv) \in Nat
      BY <3>1, PackingAssumption
    <3> QED
      BY <3>1, <3>2 DEF PackingTypeOK
  <2> QED
    BY <2>1, <2>2, <2>3 DEF Init, TypeInv
<1>2. TypeInv /\ [Next]_vars => TypeInv'
  <2> SUFFICES ASSUME TypeInv, [Next]_vars PROVE TypeInv'
    OBVIOUS
  <2>1. IInv' /\ TokensInv' /\ PrintInv'
    BY NextKeeps, NextKeepsTokens, PrintingPreserved DEF TypeInv
  <2>2. ScanTypes' /\ PackingTypeOK'
    BY ScanTypesKept, PackingTypesKept DEF TypeInv
  <2>3. program' \in {"copies", "splits", "prints", "packs"}
    BY DEF TypeInv, Next, vars
  <2> QED
    BY <2>1, <2>2, <2>3 DEF TypeInv
<1>3. TypeInv => TypeOK
  <2> SUFFICES ASSUME TypeInv PROVE TypeOK
    OBVIOUS
  <2>1. ScanningTypeOK
    BY DEF TypeInv, TokensInv, ScanTypes, ScanningTypeOK
  <2>2. CopyingTypeOK /\ PrintingTypeOK /\ PackingTypeOK
    BY DEF TypeInv, IInv, PrintInv
  <2> QED
    BY <2>1, <2>2 DEF TypeOK, TypeInv
<1> QED
  BY <1>1, <1>2, <1>3, PTL DEF Spec

------------------------------------------------------------------------------
(* The arguments of execve.                                                *)

USE PackingAssumption

Read == [whole : Seq(Seq(Nat)), open : Seq(Nat), ended : BOOLEAN]
NotBegun == [whole |-> <<>>, open |-> <<>>, ended |-> FALSE]

Heard(r, byte) ==
  IF r.ended THEN r
  ELSE IF byte # 0 THEN [r EXCEPT !.open = Append(@, byte)]
  ELSE IF r.open = <<>> THEN [r EXCEPT !.ended = TRUE]
  ELSE [whole |-> Append(r.whole, r.open), open |-> <<>>, ended |-> FALSE]

LEMMA HeardType ==
  ASSUME NEW r \in Read, NEW byte \in Nat
  PROVE  Heard(r, byte) \in Read
<1>1. r.whole \in Seq(Seq(Nat)) /\ r.open \in Seq(Nat) /\ r.ended \in BOOLEAN
      /\ r = [whole |-> r.whole, open |-> r.open, ended |-> r.ended]
  BY DEF Read
<1>2. /\ Append(r.open, byte) \in Seq(Nat) /\ Append(r.whole, r.open) \in Seq(Seq(Nat))
      /\ <<>> \in Seq(Nat)
  BY <1>1
<1>3. [r EXCEPT !.open = Append(@, byte)] \in Read
  BY <1>1, <1>2 DEF Read
<1>4. [r EXCEPT !.ended = TRUE] \in Read
  BY <1>1 DEF Read
<1>5. [whole |-> Append(r.whole, r.open), open |-> <<>>, ended |-> FALSE] \in Read
  BY <1>1, <1>2 DEF Read
<1> QED
  BY <1>3, <1>4, <1>5 DEF Heard

LEMMA StringsAre ==
  ASSUME NEW s \in Seq(Nat)
  PROVE  /\ StringsIn(s)[0] = NotBegun
         /\ \A n \in 1 .. Len(s) : StringsIn(s)[n] = Heard(StringsIn(s)[n - 1], s[n])
         /\ \A n \in 0 .. Len(s) : StringsIn(s)[n] \in Read
<1> DEFINE N == Len(s)
           F == [n \in 1 .. N |-> [r \in Read |-> Heard(r, s[n])]]
           Entry(f, n) == IF n = 0 THEN NotBegun ELSE Heard(f[n - 1], s[n])
           Is(f) == f = [n \in 0 .. N |-> Entry(f, n)]
           T == StringsIn(s)
<1>1. N \in Nat /\ \A n \in 1 .. N : s[n] \in Nat
  OBVIOUS
<1>2. NotBegun \in Read
  BY DEF NotBegun, Read
<1>3. \E f : Is(f)
  <2>1. F \in [1 .. N -> [Read -> Read]]
    BY <1>1, HeardType
  <2>2. PICK f \in [0 .. N -> Read] : Unfolds(f, N, NotBegun, F)
    <3> HIDE DEF F, N
    <3> QED
      BY <1>1, <1>2, <2>1, PrimitiveRecursion
  <2>3. ASSUME NEW n \in 1 .. N PROVE f[n] = Heard(f[n - 1], s[n])
    <3>1. f[n - 1] \in Read
      <4>1. n - 1 \in 0 .. N
        BY <1>1
      <4> HIDE DEF F, N
      <4> QED
        BY <2>2, <4>1
    <3>2. F[n][f[n - 1]] = Heard(f[n - 1], s[n])
      BY <3>1
    <3> HIDE DEF F, N
    <3> QED
      BY <2>2, <3>2 DEF Unfolds
  <2>4. \A n \in 0 .. N : f[n] = Entry(f, n)
    <3> HIDE DEF F, N
    <3>1. \A n \in 0 .. N : n = 0 \/ n \in 1 .. N
      BY <1>1
    <3> QED
      BY <2>2, <2>3, <3>1 DEF Unfolds
  <2>5. f = [n \in 0 .. N |-> f[n]]
    BY <2>2
  <2>6. Is(f)
    <3> HIDE DEF F, N, Entry
    <3> QED
      BY <2>4, <2>5
  <2> QED
    BY <2>6
<1>4. Is(T)
  <2>1. T = CHOOSE f : Is(f)
    BY DEF StringsIn, Heard, NotBegun
  <2> HIDE DEF T, Is
  <2> QED
    BY <1>3, <2>1
<1>5. T[0] = NotBegun /\ \A n \in 1 .. N : T[n] = Heard(T[n - 1], s[n])
  <2> HIDE DEF T, N
  <2>1. \A n \in 0 .. N : T[n] = Entry(T, n)
    <3> HIDE DEF Entry
    <3> QED
      BY <1>4
  <2> QED
    BY <1>1, <2>1
<1>6. \A n \in 0 .. N : T[n] \in Read
  <2>1. ASSUME NEW n \in 1 .. N, T[n - 1] \in Read PROVE T[n] \in Read
    <3> HIDE DEF T
    <3> QED
      BY <1>1, <1>5, <2>1, HeardType
  <2> HIDE DEF T, N
  <2> QED
    BY <1>1, <1>2, <1>5, <2>1, Along
<1> QED
  BY <1>5, <1>6

(* What has been read does not depend on what follows.                     *)
LEMMA StringsAgree ==
  ASSUME NEW s \in Seq(Nat), NEW a \in Seq(Nat), Begins(s, a)
  PROVE  StringsIn(a)[Len(s)] = StringsIn(s)[Len(s)]
<1> DEFINE T == StringsIn(s)
           U == StringsIn(a)
           S == {n \in Nat : n <= Len(s) => U[n] = T[n]}
<1>1. Len(s) \in Nat /\ Len(a) \in Nat /\ Len(s) <= Len(a)
      /\ \A n \in 1 .. Len(s) : s[n] = a[n]
  BY DEF Begins
<1>2. 0 \in S
  BY StringsAre
<1>3. ASSUME NEW n \in Nat, n \in S PROVE n + 1 \in S
  <2> SUFFICES ASSUME n + 1 <= Len(s) PROVE U[n + 1] = T[n + 1]
    OBVIOUS
  <2>1. /\ n + 1 \in 1 .. Len(s) /\ n + 1 \in 1 .. Len(a) /\ (n + 1) - 1 = n
        /\ U[n] = T[n] /\ a[n + 1] = s[n + 1]
    BY <1>1, <1>3
  <2>2. U[n + 1] = Heard(U[(n + 1) - 1], a[n + 1])
    BY <2>1, StringsAre
  <2>3. T[n + 1] = Heard(T[(n + 1) - 1], s[n + 1])
    BY <2>1, StringsAre
  <2> HIDE DEF T, U
  <2> QED
    BY <2>1, <2>2, <2>3
<1>4. Len(s) \in S
  <2> HIDE DEF S
  <2> QED
    BY <1>1, <1>2, <1>3, Induction
<1> QED
  BY <1>4

(* A string packed behind others is found behind them.                     *)
LEMMA StringAdded ==
  ASSUME NEW s \in Seq(Nat), NEW w \in Seq(Nat \ {0}), w # <<>>, NEW x \in Seq(Seq(Nat)),
         StringsIn(s)[Len(s)] = [whole |-> x, open |-> <<>>, ended |-> FALSE]
  PROVE  LET a == s \o w \o <<0>>
         IN  StringsIn(a)[Len(a)] = [whole |-> Append(x, w), open |-> <<>>, ended |-> FALSE]
<1> DEFINE a == s \o w \o <<0>>
           m == Len(s)
           k == Len(w)
           Open(i) == [whole |-> x, open |-> SubSeq(w, 1, i), ended |-> FALSE]
           U == StringsIn(a)
           S == {i \in Nat : i <= k => U[m + i] = Open(i)}
<1>1. w \in Seq(Nat)
  <2>1. Nat \ {0} \subseteq Nat
    OBVIOUS
  <2> QED
    BY <2>1, SeqMonotonic
<1>2. /\ a \in Seq(Nat) /\ m \in Nat /\ k \in Nat /\ k > 0 /\ Len(a) = m + k + 1
      /\ a[m + k + 1] = 0
      /\ \A i \in 1 .. k : a[m + i] = w[i]
      /\ \A i \in 1 .. m : a[i] = s[i]
  BY <1>1
<1>3. \A i \in 1 .. k : w[i] \in Nat \ {0}
  OBVIOUS
<1>4. Begins(s, a)
  BY <1>2 DEF Begins
<1> HIDE DEF a
<1>5. U[m] = [whole |-> x, open |-> <<>>, ended |-> FALSE]
  BY <1>2, <1>4, StringsAgree
<1>6. 0 \in S
  <2>1. SubSeq(w, 1, 0) = <<>> /\ m + 0 = m
    BY <1>1, <1>2
  <2> QED
    BY <1>5, <2>1
<1>7. ASSUME NEW i \in Nat, i \in S PROVE i + 1 \in S
  <2> SUFFICES ASSUME i + 1 <= k PROVE U[m + (i + 1)] = Open(i + 1)
    OBVIOUS
  <2> DEFINE n == m + (i + 1)
  <2>1. /\ n \in 1 .. Len(a) /\ n - 1 = m + i /\ i + 1 \in 1 .. k
        /\ a[n] = w[i + 1] /\ a[n] # 0
    <3>1. i + 1 \in 1 .. k /\ m + (i + 1) \in 1 .. Len(a) /\ m + (i + 1) - 1 = m + i
      <4> HIDE DEF m, k
      <4> QED
        BY <1>2
    <3>2. a[m + (i + 1)] = w[i + 1] /\ w[i + 1] # 0
      <4> HIDE DEF m, k
      <4> QED
        BY <1>2, <1>3, <3>1
    <3> QED
      BY <3>1, <3>2
  <2>2. U[n] = Heard(U[n - 1], a[n])
    BY <1>2, <2>1, StringsAre
  <2>3. U[n - 1] = Open(i)
    <3> HIDE DEF U, Open, n
    <3> QED
      BY <1>2, <1>7, <2>1
  <2>4. Append(SubSeq(w, 1, i), w[i + 1]) = SubSeq(w, 1, i + 1)
    BY <1>1, <2>1
  <2>5. Heard(Open(i), w[i + 1]) = Open(i + 1)
    <3>1. w[i + 1] # 0
      BY <1>3, <2>1
    <3> QED
      BY <2>4, <3>1 DEF Heard
  <2> HIDE DEF U, Open
  <2> QED
    BY <2>1, <2>2, <2>3, <2>5
<1>8. U[m + k] = Open(k)
  <2>1. k \in S
    <3> HIDE DEF S, k
    <3> QED
      BY <1>2, <1>6, <1>7, Induction
  <2> QED
    BY <2>1
<1>9. U[Len(a)] = Heard(U[m + k], 0)
  <2>1. Len(a) \in 1 .. Len(a) /\ Len(a) - 1 = m + k /\ a[Len(a)] = 0
    BY <1>2
  <2>2. U[Len(a)] = Heard(U[Len(a) - 1], a[Len(a)])
    BY <1>2, <2>1, StringsAre
  <2> HIDE DEF U, m, k
  <2> QED
    BY <2>1, <2>2
<1>10. SubSeq(w, 1, k) = w
  BY <1>1
<1>11. Open(k) = [whole |-> x, open |-> w, ended |-> FALSE]
  BY <1>10
<1>12. Heard(Open(k), 0) = [whole |-> Append(x, w), open |-> <<>>, ended |-> FALSE]
  <2> HIDE DEF Open, k
  <2> QED
    BY <1>11 DEF Heard
<1> HIDE DEF Open, U, m, k
<1>13. U[Len(a)] = [whole |-> Append(x, w), open |-> <<>>, ended |-> FALSE]
  BY <1>8, <1>9, <1>12
<1> QED
  BY <1>13 DEF U, a

(* The bytes the strings of a vector take.                                 *)
LEMMA TotalsAre ==
  ASSUME NEW v \in Seq(Seq(Nat))
  PROVE  /\ Totals(v)[0] = 0
         /\ \A n \in 1 .. Len(v) : Totals(v)[n] = Totals(v)[n - 1] + Len(v[n]) + 1
         /\ \A n \in 0 .. Len(v) : Totals(v)[n] \in Nat
<1> DEFINE N == Len(v)
           F == [n \in 1 .. N |-> [t \in Nat |-> t + Len(v[n]) + 1]]
           Entry(f, n) == IF n = 0 THEN 0 ELSE f[n - 1] + Len(v[n]) + 1
           Is(f) == f = [n \in 0 .. N |-> Entry(f, n)]
           T == Totals(v)
           c == 0
<1>1. N \in Nat /\ \A n \in 1 .. N : Len(v[n]) \in Nat
  OBVIOUS
<1>2. c \in Nat
  OBVIOUS
<1>3. \E f : Is(f)
  <2>1. F \in [1 .. N -> [Nat -> Nat]]
    BY <1>1
  <2>2. PICK f \in [0 .. N -> Nat] : Unfolds(f, N, c, F)
    <3> HIDE DEF F, N, c
    <3> QED
      BY <1>1, <1>2, <2>1, PrimitiveRecursion
  <2>3. ASSUME NEW n \in 1 .. N PROVE f[n] = f[n - 1] + Len(v[n]) + 1
    <3>1. f[n - 1] \in Nat
      <4>1. n - 1 \in 0 .. N
        BY <1>1
      <4> HIDE DEF F, N
      <4> QED
        BY <2>2, <4>1
    <3>2. F[n][f[n - 1]] = f[n - 1] + Len(v[n]) + 1
      BY <3>1
    <3> HIDE DEF F, N
    <3> QED
      BY <2>2, <3>2 DEF Unfolds
  <2>4. \A n \in 0 .. N : f[n] = Entry(f, n)
    <3> HIDE DEF F, N
    <3>1. \A n \in 0 .. N : n = 0 \/ n \in 1 .. N
      BY <1>1
    <3> QED
      BY <2>2, <2>3, <3>1 DEF Unfolds
  <2>5. f = [n \in 0 .. N |-> f[n]]
    BY <2>2
  <2>6. Is(f)
    <3> HIDE DEF F, N, Entry
    <3> QED
      BY <2>4, <2>5
  <2> QED
    BY <2>6
<1>4. Is(T)
  BY <1>3 DEF Totals
<1>5. T[0] = 0 /\ \A n \in 1 .. N : T[n] = T[n - 1] + Len(v[n]) + 1
  <2> HIDE DEF T, N
  <2>1. \A n \in 0 .. N : T[n] = Entry(T, n)
    <3> HIDE DEF Entry
    <3> QED
      BY <1>4
  <2>2. \A n \in 1 .. N : n \in 0 .. N /\ n # 0
    BY <1>1
  <2>3. 0 \in 0 .. N
    BY <1>1
  <2> QED
    BY <2>1, <2>2, <2>3
<1>6. \A n \in 0 .. N : T[n] \in Nat
  <2>1. ASSUME NEW n \in 1 .. N, T[n - 1] \in Nat PROVE T[n] \in Nat
    <3> HIDE DEF T, N
    <3>1. T[n] = T[n - 1] + Len(v[n]) + 1 /\ Len(v[n]) \in Nat
      BY <1>1, <1>5
    <3> QED
      BY <2>1, <3>1
  <2>2. T[0] \in Nat
    BY <1>5
  <2> HIDE DEF T, N
  <2> QED
    BY <1>1, <2>1, <2>2, Along
<1> QED
  BY <1>5, <1>6

LEMMA TotalAppended ==
  ASSUME NEW v \in Seq(Seq(Nat)), NEW w \in Seq(Nat)
  PROVE  Total(Append(v, w)) = Total(v) + Len(w) + 1
<1> DEFINE a == Append(v, w)
           T == Totals(v)
           U == Totals(a)
           S == {n \in Nat : n <= Len(v) => U[n] = T[n]}
<1>1. /\ a \in Seq(Seq(Nat)) /\ Len(a) = Len(v) + 1 /\ a[Len(v) + 1] = w /\ Len(v) \in Nat
      /\ \A n \in 1 .. Len(v) : a[n] = v[n]
  OBVIOUS
<1> HIDE DEF a
<1>2. 0 \in S
  BY <1>1, TotalsAre
<1>3. ASSUME NEW n \in Nat, n \in S PROVE n + 1 \in S
  <2> SUFFICES ASSUME n + 1 <= Len(v) PROVE U[n + 1] = T[n + 1]
    OBVIOUS
  <2>1. /\ n + 1 \in 1 .. Len(v) /\ n + 1 \in 1 .. Len(a) /\ (n + 1) - 1 = n
        /\ U[n] = T[n] /\ a[n + 1] = v[n + 1]
    BY <1>1, <1>3
  <2>2. U[n + 1] = U[(n + 1) - 1] + Len(a[n + 1]) + 1
    BY <1>1, <2>1, TotalsAre
  <2>3. T[n + 1] = T[(n + 1) - 1] + Len(v[n + 1]) + 1
    BY <2>1, TotalsAre
  <2> HIDE DEF T, U
  <2> QED
    BY <2>1, <2>2, <2>3
<1>4. U[Len(v)] = T[Len(v)]
  <2> HIDE DEF S
  <2>1. Len(v) \in S
    BY <1>1, <1>2, <1>3, Induction
  <2> QED
    BY <2>1 DEF S
<1>5. U[Len(a)] = U[Len(v)] + Len(w) + 1
  <2>1. Len(a) \in 1 .. Len(a) /\ Len(a) - 1 = Len(v) /\ a[Len(a)] = w
    BY <1>1
  <2>2. U[Len(a)] = U[Len(a) - 1] + Len(a[Len(a)]) + 1
    BY <1>1, <2>1, TotalsAre
  <2> HIDE DEF U
  <2> QED
    BY <2>1, <2>2
<1> QED
  BY <1>4, <1>5 DEF Total, a

LEMMA TotalsGrow ==
  ASSUME NEW v \in Seq(Seq(Nat)), NEW m \in 0 .. Len(v)
  PROVE  Totals(v)[m] <= Total(v)
<1> DEFINE T == Totals(v)
           S == {n \in Nat : m + n <= Len(v) => T[m] <= T[m + n]}
<1>1. m \in Nat /\ Len(v) \in Nat /\ T[m] \in Nat /\ m + 0 = m
  BY TotalsAre
<1>2. 0 \in S
  <2> HIDE DEF T
  <2> QED
    BY <1>1
<1>3. ASSUME NEW n \in Nat, n \in S PROVE n + 1 \in S
  <2> SUFFICES ASSUME m + (n + 1) <= Len(v) PROVE T[m] <= T[m + (n + 1)]
    OBVIOUS
  <2> DEFINE k == m + (n + 1)
  <2>1. k \in 1 .. Len(v) /\ k - 1 = m + n /\ k - 1 \in 0 .. Len(v) /\ Len(v[k]) \in Nat
    BY <1>1
  <2>2. T[k] = T[k - 1] + Len(v[k]) + 1 /\ T[k - 1] \in Nat
    BY <2>1, TotalsAre
  <2>3. T[m] <= T[k - 1]
    <3> HIDE DEF T, k
    <3> QED
      BY <1>1, <1>3, <2>1
  <2> HIDE DEF T, k
  <2>4. T[m] <= T[k]
    BY <1>1, <2>1, <2>2, <2>3
  <2> QED
    BY <2>4 DEF k
<1>4. Len(v) - m \in S /\ Len(v) - m \in Nat /\ m + (Len(v) - m) = Len(v)
  <2>1. Len(v) - m \in Nat /\ m + (Len(v) - m) = Len(v)
    BY <1>1
  <2> HIDE DEF S
  <2> QED
    BY <1>2, <1>3, <2>1, Induction
<1>5. T[m] <= T[Len(v)]
  <2> HIDE DEF T
  <2> QED
    BY <1>1, <1>4
<1> QED
  BY <1>5 DEF Total

(* The arguments that were kept.                                           *)
LEMMA KeptIs ==
  ASSUME argv \in Seq(Seq(Nat)), NEW S
  PROVE  /\ Kept(S)[0] = <<>>
         /\ \A n \in 1 .. Len(argv) :
              Kept(S)[n] = IF n \in S THEN Append(Kept(S)[n - 1], argv[n]) ELSE Kept(S)[n - 1]
         /\ \A n \in 0 .. Len(argv) : Kept(S)[n] \in Seq(Seq(Nat))
<1> DEFINE N == Len(argv)
           A == Seq(Seq(Nat))
           Then(k, n) == IF n \in S THEN Append(k, argv[n]) ELSE k
           F == [n \in 1 .. N |-> [k \in A |-> Then(k, n)]]
           Entry(f, n) == IF n = 0 THEN <<>> ELSE Then(f[n - 1], n)
           Is(f) == f = [n \in 0 .. N |-> Entry(f, n)]
           T == Kept(S)
           c == <<>>
<1>1. N \in Nat /\ \A n \in 1 .. N : argv[n] \in Seq(Nat)
  OBVIOUS
<1>2. c \in A
  OBVIOUS
<1>3. ASSUME NEW n \in 1 .. N, NEW k \in A PROVE Then(k, n) \in A
  <2>1. Append(k, argv[n]) \in A
    BY <1>1
  <2> QED
    BY <2>1
<1>4. \E f : Is(f)
  <2>1. F \in [1 .. N -> [A -> A]]
    <3> HIDE DEF Then, A, N
    <3> QED
      BY <1>3
  <2>2. PICK f \in [0 .. N -> A] : Unfolds(f, N, c, F)
    <3> HIDE DEF F, N, c, A
    <3> QED
      BY <1>1, <1>2, <2>1, PrimitiveRecursion
  <2>3. ASSUME NEW n \in 1 .. N PROVE f[n] = Then(f[n - 1], n)
    <3>1. f[n - 1] \in A
      <4>1. n - 1 \in 0 .. N
        BY <1>1
      <4> HIDE DEF F, N, A
      <4> QED
        BY <2>2, <4>1
    <3>2. F[n][f[n - 1]] = Then(f[n - 1], n)
      <4> HIDE DEF Then, A
      <4> QED
        BY <3>1
    <3> HIDE DEF F, N, Then, A
    <3> QED
      BY <2>2, <3>2 DEF Unfolds
  <2>4. \A n \in 0 .. N : f[n] = Entry(f, n)
    <3> HIDE DEF F, N, Then
    <3>1. \A n \in 0 .. N : n = 0 \/ n \in 1 .. N
      BY <1>1
    <3> QED
      BY <2>2, <2>3, <3>1 DEF Unfolds
  <2>5. f = [n \in 0 .. N |-> f[n]]
    BY <2>2
  <2>6. Is(f)
    <3> HIDE DEF F, N, Entry
    <3> QED
      BY <2>4, <2>5
  <2> QED
    BY <2>6
<1>5. Is(T)
  <2>1. T = CHOOSE f : Is(f)
    BY DEF Kept
  <2> HIDE DEF T, Is
  <2> QED
    BY <1>4, <2>1
<1>6. T[0] = <<>> /\ \A n \in 1 .. N : T[n] = Then(T[n - 1], n)
  <2> HIDE DEF T, N, Then
  <2>1. \A n \in 0 .. N : T[n] = Entry(T, n)
    <3> HIDE DEF Entry
    <3> QED
      BY <1>5
  <2>2. \A n \in 1 .. N : n \in 0 .. N /\ n # 0
    BY <1>1
  <2>3. 0 \in 0 .. N
    BY <1>1
  <2> QED
    BY <2>1, <2>2, <2>3
<1>7. \A n \in 0 .. N : T[n] \in A
  <2>1. ASSUME NEW n \in 1 .. N, T[n - 1] \in A PROVE T[n] \in A
    <3> HIDE DEF T, Then, A, N
    <3> QED
      BY <1>3, <1>6, <2>1
  <2>2. T[0] \in A
    BY <1>2, <1>6
  <2> HIDE DEF T, N, A
  <2> QED
    BY <1>1, <2>1, <2>2, Along
<1> QED
  BY <1>6, <1>7

Alike(S, R, m) == S \cap (1 .. m) = R \cap (1 .. m)

LEMMA KeptDependsOn ==
  ASSUME argv \in Seq(Seq(Nat)), NEW S, NEW R, NEW m \in 0 .. Len(argv),
         Alike(S, R, m)
  PROVE  Kept(S)[m] = Kept(R)[m]
<1> DEFINE K == Kept(S)
           L == Kept(R)
           I == {n \in Nat : n <= m => K[n] = L[n]}
<1>1. 0 \in I
  BY KeptIs
<1>2. ASSUME NEW n \in Nat, n \in I PROVE n + 1 \in I
  <2> SUFFICES ASSUME n + 1 <= m PROVE K[n + 1] = L[n + 1]
    OBVIOUS
  <2>1. /\ n + 1 \in 1 .. Len(argv) /\ n + 1 \in 1 .. m /\ (n + 1) - 1 = n /\ K[n] = L[n]
    BY <1>2
  <2>2. n + 1 \in S <=> n + 1 \in R
    BY <2>1 DEF Alike
  <2>3. K[n + 1] = IF n + 1 \in S THEN Append(K[(n + 1) - 1], argv[n + 1]) ELSE K[(n + 1) - 1]
    BY <2>1, KeptIs
  <2>4. L[n + 1] = IF n + 1 \in R THEN Append(L[(n + 1) - 1], argv[n + 1]) ELSE L[(n + 1) - 1]
    BY <2>1, KeptIs
  <2> HIDE DEF K, L
  <2> QED
    BY <2>1, <2>3, <2>4, <2>2
<1>3. m \in I
  <2>1. m \in Nat
    OBVIOUS
  <2> HIDE DEF I
  <2> QED
    BY <1>1, <1>2, <2>1, Induction
<1> QED
  BY <1>3

(* Those that were kept take no more than all of them.                     *)
LEMMA KeptTakesLess ==
  ASSUME argv \in Seq(Seq(Nat)), NEW S
  PROVE  \A n \in 0 .. Len(argv) : Total(Kept(S)[n]) <= Totals(argv)[n]
<1> DEFINE K == Kept(S)
           T == Totals(argv)
           I == {n \in Nat : n <= Len(argv) => Total(K[n]) <= T[n]}
<1>1. 0 \in I
  <2>1. K[0] = <<>> /\ T[0] = 0
    BY KeptIs, TotalsAre
  <2>2. Total(<<>>) = 0
    <3>1. <<>> \in Seq(Seq(Nat)) /\ Len(<<>>) = 0
      OBVIOUS
    <3> QED
      BY <3>1, TotalsAre DEF Total
  <2> HIDE DEF K, T
  <2> QED
    BY <2>1, <2>2
<1>2. ASSUME NEW n \in Nat, n \in I PROVE n + 1 \in I
  <2> SUFFICES ASSUME n + 1 <= Len(argv) PROVE Total(K[n + 1]) <= T[n + 1]
    OBVIOUS
  <2>1. /\ n + 1 \in 1 .. Len(argv) /\ (n + 1) - 1 = n /\ n \in 0 .. Len(argv)
        /\ Total(K[n]) <= T[n] /\ argv[n + 1] \in Seq(Nat) /\ Len(argv[n + 1]) \in Nat
    BY <1>2
  <2>2. K[n + 1] = IF n + 1 \in S THEN Append(K[(n + 1) - 1], argv[n + 1]) ELSE K[(n + 1) - 1]
    BY <2>1, KeptIs
  <2>3. T[n + 1] = T[(n + 1) - 1] + Len(argv[n + 1]) + 1 /\ T[n] \in Nat
    BY <2>1, TotalsAre
  <2>4. K[n] \in Seq(Seq(Nat))
    BY <2>1, KeptIs
  <2>5. Total(K[n]) \in Nat
    <3> HIDE DEF K
    <3>1. Len(K[n]) \in 0 .. Len(K[n])
      BY <2>4
    <3> QED
      BY <2>4, <3>1, TotalsAre DEF Total
  <2> HIDE DEF K, T
  <2>6. Total(Append(K[n], argv[n + 1])) = Total(K[n]) + Len(argv[n + 1]) + 1
    BY <2>1, <2>4, TotalAppended
  <2> QED
    BY <2>1, <2>2, <2>3, <2>5, <2>6
<1>3. \A n \in Nat : n \in I
  <2> HIDE DEF I
  <2> QED
    BY <1>1, <1>2, Induction
<1> QED
  BY <1>3

(* What the service would find so far: the arguments kept, all of which    *)
(* fitted, while each of the others did not.                               *)
PackedAre(S) ==
  /\ StringsIn(field)[Len(field)] =
       [whole |-> Kept(S)[nextArg - 1], open |-> <<>>, ended |-> FALSE]
  /\ Len(field) = Total(Kept(S)[nextArg - 1])
  /\ \A k \in (1 .. nextArg - 1) \ S : Total(Kept(S)[k - 1]) + Len(argv[k]) + 1 >= FieldSize

PackInv ==
  /\ PackingTypeOK
  /\ Len(field) < FieldSize
  /\ (\A k \in 1 .. Len(argv) : argv[k] # <<>>) =>
       \E S \in SUBSET (1 .. nextArg - 1) : PackedAre(S)

LEMMA ArgvType ==
  ASSUME PackingTypeOK
  PROVE  /\ argv \in Seq(Seq(Nat)) /\ Len(argv) \in Nat
         /\ \A n \in 1 .. Len(argv) : argv[n] \in Seq(Nat \ {0}) /\ argv[n] \in Seq(Nat)
<1>1. argv \in Seq(Seq(Nat \ {0}))
  BY DEF PackingTypeOK
<1>2. Nat \ {0} \subseteq Nat
  OBVIOUS
<1>3. Seq(Nat \ {0}) \subseteq Seq(Nat)
  BY <1>2, SeqMonotonic
<1>4. argv \in Seq(Seq(Nat))
  BY <1>1, <1>3, SeqMonotonic
<1> QED
  BY <1>1, <1>3, <1>4

LEMMA PackingStarts == ASSUME PackingInit PROVE PackInv
<1>1. argv \in Vectors /\ nextArg = 1 /\ field = <<>>
  BY DEF PackingInit
<1>2. Len(argv) \in Nat
  BY <1>1
<1>3. PackingTypeOK
  BY <1>1, <1>2 DEF PackingTypeOK
<1>4. PackedAre({})
  <2>1. /\ argv \in Seq(Seq(Nat)) /\ field \in Seq(Nat) /\ Len(field) = 0
        /\ nextArg - 1 = 0 /\ 1 .. nextArg - 1 = {}
    BY <1>1, <1>3, ArgvType DEF PackingTypeOK
  <2>2. Kept({})[0] = <<>>
    BY <2>1, KeptIs
  <2>3. StringsIn(field)[0] = NotBegun
    BY <2>1, StringsAre
  <2>4. Total(<<>>) = 0
    <3>1. <<>> \in Seq(Seq(Nat)) /\ Len(<<>>) = 0
      OBVIOUS
    <3> QED
      BY <3>1, TotalsAre DEF Total
  <2> QED
    BY <2>1, <2>2, <2>3, <2>4 DEF PackedAre, NotBegun
<1>5. Len(field) < FieldSize
  BY <1>1
<1> QED
  BY <1>3, <1>4, <1>5 DEF PackInv

(* One argument more, packed or skipped.                                   *)
LEMMA PackStep ==
  ASSUME PackInv, Pack, PackingTypeOK'
  PROVE  PackInv'
<1> DEFINE n == nextArg
           w == argv[n]
<1>1. /\ n \in 1 .. Len(argv) /\ n \in Nat /\ field \in Seq(Nat) /\ Len(field) < FieldSize
      /\ field' = IF Len(field) + Len(w) + 1 < FieldSize THEN field \o w \o <<0>> ELSE field
      /\ nextArg' = n + 1 /\ nextArg' - 1 = n /\ argv' = argv
  BY DEF PackInv, PackingTypeOK, Pack, FitsIn
<1>2. /\ argv \in Seq(Seq(Nat)) /\ Len(argv) \in Nat
      /\ w \in Seq(Nat \ {0}) /\ w \in Seq(Nat)
  BY <1>1, ArgvType DEF PackInv
<1>3. /\ Len(field \o w \o <<0>>) = Len(field) + Len(w) + 1
      /\ Len(field) \in Nat /\ Len(w) \in Nat
  BY <1>1, <1>2
<1>4. Len(field') < FieldSize
  BY <1>1, <1>3
<1>5. ASSUME \A k \in 1 .. Len(argv) : argv[k] # <<>>
      PROVE  \E R \in SUBSET (1 .. n) : PackedAre(R)'
  <2>1. PICK S \in SUBSET (1 .. n - 1) : PackedAre(S)
    BY <1>5 DEF PackInv
  <2> DEFINE x == Kept(S)[n - 1]
  <2>2. n - 1 \in 0 .. Len(argv) /\ x \in Seq(Seq(Nat)) /\ n \notin S
    <3>1. n - 1 \in 0 .. Len(argv) /\ n \notin S
      BY <1>1, <1>2
    <3> QED
      BY <1>2, <3>1, KeptIs
  <2>3. /\ StringsIn(field)[Len(field)] = [whole |-> x, open |-> <<>>, ended |-> FALSE]
        /\ Len(field) = Total(x)
        /\ \A k \in (1 .. n - 1) \ S : Total(Kept(S)[k - 1]) + Len(argv[k]) + 1 >= FieldSize
    BY <2>1 DEF PackedAre
  <2>4. ASSUME NEW R PROVE Kept(R)' = Kept(R)
    BY <1>1 DEF Kept
  <2>5. w # <<>>
    BY <1>1, <1>5
  <2> HIDE DEF x, w
  <2>6. CASE Len(field) + Len(w) + 1 < FieldSize
    <3> PICK R : R = S \cup {n}
      OBVIOUS
    <3>1. R \in SUBSET (1 .. n)
      BY <1>1
    <3>2. \A k \in 0 .. n - 1 : Kept(S)[k] = Kept(R)[k]
      <4> SUFFICES ASSUME NEW k \in 0 .. n - 1 PROVE Kept(S)[k] = Kept(R)[k]
        OBVIOUS
      <4>1. k \in 0 .. Len(argv) /\ Alike(S, R, k)
        BY <1>1, <2>2 DEF Alike
      <4> QED
        BY <1>2, <4>1, KeptDependsOn
    <3>3. Kept(R)[n] = Append(x, w)
      <4>1. n \in R /\ n - 1 \in 0 .. n - 1
        BY <1>1
      <4>2. Kept(R)[n] = Append(Kept(R)[n - 1], argv[n])
        BY <1>1, <1>2, <4>1, KeptIs
      <4> QED
        BY <3>2, <4>1, <4>2 DEF x, w
    <3>4. field' = field \o w \o <<0>> /\ Len(field') = Len(field) + Len(w) + 1
      BY <1>1, <1>3, <2>6 DEF w
    <3>5. StringsIn(field')[Len(field')] =
            [whole |-> Append(x, w), open |-> <<>>, ended |-> FALSE]
      <4>1. LET a == field \o w \o <<0>>
            IN  StringsIn(a)[Len(a)] = [whole |-> Append(x, w), open |-> <<>>, ended |-> FALSE]
        BY <1>1, <1>2, <2>2, <2>3, <2>5, StringAdded
      <4> QED
        BY <3>4, <4>1
    <3>6. Len(field') = Total(Append(x, w))
      BY <1>2, <2>2, <2>3, <3>4, TotalAppended DEF w
    <3>7. ASSUME NEW k \in (1 .. n) \ R
          PROVE  Total(Kept(R)[k - 1]) + Len(argv[k]) + 1 >= FieldSize
      <4>1. k \in (1 .. n - 1) \ S /\ k - 1 \in 0 .. n - 1
        BY <1>1
      <4> QED
        BY <2>3, <3>2, <4>1
    <3>8. PackedAre(R)'
      <4>1. (StringsIn(field)[Len(field)])' = StringsIn(field')[Len(field')]
        OBVIOUS
      <4> QED
        BY <1>1, <2>4, <3>3, <3>5, <3>6, <3>7, <4>1 DEF PackedAre
    <3> QED
      BY <3>1, <3>8
  <2>7. CASE ~(Len(field) + Len(w) + 1 < FieldSize)
    <3>1. S \in SUBSET (1 .. n)
      BY <1>1
    <3>2. Kept(S)[n] = x
      BY <1>1, <1>2, <2>2, KeptIs DEF x
    <3>3. field' = field
      BY <1>1, <2>7 DEF w
    <3>4. ASSUME NEW k \in (1 .. n) \ S
          PROVE  Total(Kept(S)[k - 1]) + Len(argv[k]) + 1 >= FieldSize
      <4>1. CASE k = n
        BY <1>1, <1>3, <2>3, <2>7, <4>1 DEF x, w
      <4>2. CASE k \in 1 .. n - 1
        BY <2>3, <4>2
      <4> QED
        BY <1>1, <4>1, <4>2
    <3>5. PackedAre(S)'
      BY <1>1, <2>3, <2>4, <3>2, <3>3, <3>4 DEF PackedAre
    <3> QED
      BY <3>1, <3>5
  <2> QED
    BY <2>6, <2>7
<1> QED
  BY <1>1, <1>4, <1>5 DEF PackInv

LEMMA PackSuffices == ASSUME PackInv PROVE ArgumentsArrive
<1> SUFFICES ASSUME nextArg > Len(argv), \A k \in 1 .. Len(argv) : argv[k] # <<>>
             PROVE  \E S \in SUBSET (1 .. Len(argv)) :
                      /\ Found = Kept(S)[Len(argv)]
                      /\ \A k \in 1 .. Len(argv) \ S :
                           Total(Kept(S)[k - 1]) + Len(argv[k]) + 1 >= FieldSize
                      /\ Total(argv) < FieldSize => S = 1 .. Len(argv)
  BY DEF PackInv, ArgumentsArrive
<1>1. argv \in Seq(Seq(Nat)) /\ Len(argv) \in Nat /\ nextArg - 1 = Len(argv)
  BY ArgvType DEF PackInv, PackingTypeOK
<1>2. PICK S \in SUBSET (1 .. Len(argv)) : PackedAre(S)
  BY <1>1 DEF PackInv
<1>3. Found = Kept(S)[Len(argv)]
  BY <1>1, <1>2 DEF Found, PackedAre
<1>4. \A k \in 1 .. Len(argv) \ S : Total(Kept(S)[k - 1]) + Len(argv[k]) + 1 >= FieldSize
  BY <1>1, <1>2 DEF PackedAre
<1>5. ASSUME Total(argv) < FieldSize, NEW k \in 1 .. Len(argv) PROVE k \in S
  <2> SUFFICES ASSUME k \notin S PROVE FALSE
    OBVIOUS
  <2> DEFINE a == Total(Kept(S)[k - 1])
             b == Totals(argv)[k - 1]
             c == Totals(argv)[k]
             d == Total(argv)
             m == Len(argv[k])
  <2>1. k - 1 \in 0 .. Len(argv) /\ k \in 0 .. Len(argv) /\ m \in Nat
    BY <1>1
  <2>2. a <= b
    BY <1>1, <2>1, KeptTakesLess
  <2>3. c = b + m + 1 /\ c \in Nat /\ b \in Nat
    BY <1>1, <2>1, TotalsAre
  <2>4. c <= d
    BY <1>1, <2>1, TotalsGrow
  <2>5. a + m + 1 >= FieldSize /\ d < FieldSize
    BY <1>4, <1>5
  <2>6. a \in Nat /\ d \in Nat
    <3>1. Kept(S)[k - 1] \in Seq(Seq(Nat))
      BY <1>1, <2>1, KeptIs
    <3>2. ASSUME NEW v \in Seq(Seq(Nat)) PROVE Total(v) \in Nat
      <4>1. Len(v) \in 0 .. Len(v)
        OBVIOUS
      <4> QED
        BY <4>1, TotalsAre DEF Total
    <3> QED
      BY <1>1, <3>1, <3>2
  <2> HIDE DEF a, b, c, d, m
  <2> QED
    BY <2>1, <2>2, <2>3, <2>4, <2>5, <2>6
<1>6. Total(argv) < FieldSize => S = 1 .. Len(argv)
  BY <1>5
<1> QED
  BY <1>3, <1>4, <1>6

(* For every argument vector: what execve packs into the request, whole or *)
(* in part, is what the process service finds there, and nothing that fits *)
(* is left out (src/src/process/process.c:70-88).                          *)
THEOREM ArgumentsAlwaysArrive == Spec => []ArgumentsArrive
<1>1. Init => PackInv
  BY PackingStarts DEF Init
<1>2. PackInv /\ [Next]_vars => PackInv'
  <2> SUFFICES ASSUME PackInv, [Next]_vars PROVE PackInv'
    OBVIOUS
  <2>1. PackingTypeOK'
    BY PackingTypesKept DEF PackInv
  <2>2. CASE Pack
    BY <2>1, <2>2, PackStep
  <2>3. CASE UNCHANGED packing
    <3>1. argv' = argv /\ nextArg' = nextArg /\ field' = field
      BY <2>3 DEF packing
    <3>2. ASSUME NEW S PROVE PackedAre(S)' <=> PackedAre(S)
      <4>1. Kept(S)' = Kept(S)
        BY <3>1 DEF Kept
      <4> QED
        BY <3>1, <4>1 DEF PackedAre
    <3> QED
      BY <3>1, <3>2 DEF PackInv, PackingTypeOK
  <2> QED
    BY <2>2, <2>3 DEF Next, vars, PackingNext, Packed
<1>3. PackInv => ArgumentsArrive
  BY PackSuffices
<1> QED
  BY <1>1, <1>2, <1>3, PTL DEF Spec
==============================================================================
