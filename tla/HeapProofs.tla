------------------------------ MODULE HeapProofs ------------------------------
(***************************************************************************)
(* Theorems about Heap.  An address that is not unsure is claimed at most  *)
(* once, and only while it is allocated: by a thread that has it, by an    *)
(* answer that brings it, by a realloc that was refused, or by a request   *)
(* to free or move it.  Every step passes a claim on or ends it, except    *)
(* those that give out a block, which nobody claims before.                *)
(***************************************************************************)
EXTENDS Heap, TLAPS

USE HeapAssumption DEF HeapAssumption

Kinds == {"has", "told", "kept", "asked"}

Claim(k, x, a) ==
  \/ k = "has"   /\ x \in Threads /\ Has(x, a)
  \/ k = "told"  /\ x \in Threads /\ answer[x].addr = a
  \/ k = "kept"  /\ x \in Threads /\ Kept(x, a)
  \/ k = "asked" /\ x \in Ids /\ inflight[x].addr = a

Claimants == Threads \cup Ids

ClaimedOnce(a) ==
  \A k, l \in Kinds, x, y \in Claimants :
    Claim(k, x, a) /\ Claim(l, y, a) => k = l /\ x = y

(* A block is as large as the one that claims it believes. *)
Backed(a) ==
  /\ \A k \in Kinds, x \in Claimants : Claim(k, x, a) => size[a] > 0
  /\ \A t \in Threads :
       /\ Has(t, a) => believed[t][a] <= size[a]
       /\ answer[t].addr = a => call[t].bytes <= size[a]
       /\ Kept(t, a) => call[t].old <= size[a]
  /\ \A i \in Ids : inflight[i].addr = a /\ inflight[i].kind = "realloc"
                      /\ inflight[i].for \in Threads
       => call[inflight[i].for].old <= size[a]

Found(a) == size[a] > 0 => \E k \in Kinds, x \in Claimants : Claim(k, x, a)

Ownership ==
  \A a \in Addrs \ unsure :
    /\ ClaimedOnce(a)
    /\ Backed(a)
    /\ a \notin lost => Found(a)

(* What calls, requests and answers say agrees. *)
CallShape(c) ==
  /\ c.fn = "none" => c = NoCall
  /\ c.fn = "malloc" => c.addr = Null /\ c.bytes > 0
  /\ c.fn \in {"free", "realloc"} => c.addr \in Addrs
  /\ c.fn = "realloc" => c.bytes > 0 /\ c.old > 0

RequestShape(r) ==
  /\ r.kind = "none" => r = NoRequest
  /\ r.kind = "malloc" => r.addr = Null /\ r.bytes > 0
  /\ r.kind \in {"free", "realloc"} => r.addr \in Addrs
  /\ r.kind = "realloc" => r.bytes > 0
  /\ r.kind = "realloc" /\ r.for = Nobody => r.addr \in unsure

Waits(t, r) ==
  /\ r.kind = call[t].fn /\ r.addr = call[t].addr /\ r.bytes = call[t].bytes
  /\ call[t].fn # "none"
  /\ answer[t] = None

Linked ==
  /\ \A t \in Threads : CallShape(call[t])
  /\ \A i \in Ids : RequestShape(inflight[i])
  /\ \A i \in Ids : \A t \in Threads : inflight[i].for = t => Waits(t, inflight[i])
  /\ \A i, j \in Ids : inflight[i].for = inflight[j].for /\ inflight[i].for # Nobody => i = j
  /\ \A t \in Threads : ~answer[t].given => answer[t] = None
  /\ \A t \in Threads : call[t] = NoCall => answer[t] = None
  /\ \A t \in Threads : answer[t].addr # Null => call[t].fn \in {"malloc", "realloc"}

Inv == TypeOK /\ Linked /\ Ownership

LEMMA NoSize == 0 \in Sizes
BY DEF Sizes

LEMMA Rewritten ==
  ASSUME NEW f \in [Threads -> [Addrs -> Sizes]], NEW t \in Threads, NEW a \in Addrs, NEW n \in Sizes
  PROVE  [f EXCEPT ![t][a] = n] \in [Threads -> [Addrs -> Sizes]]
OBVIOUS

LEMMA InitInv == Init => Inv
<1> SUFFICES ASSUME Init PROVE Inv OBVIOUS
<1> USE DEF Init
<1>1. TypeOK
  BY DEF TypeOK, NoCall, NoRequest, None, Call, Request, Sizes
<1>2. Linked
  BY DEF Linked, NoCall, NoRequest, None, CallShape, RequestShape, Waits
<1>3. Ownership
  BY DEF Ownership, ClaimedOnce, Backed, Found, Claim, Has, Kept, NoCall, NoRequest, None, Kinds, Answer
<1> QED BY <1>1, <1>2, <1>3 DEF Inv

(* calloc's test is exact for every width: what passes it did not wrap     *)
(* around (src/src/men/men.c:116-121).                                     *)
THEOREM CallocIsExact ==
  ASSUME NEW n \in Sizes \ {0}, NEW s \in Sizes \ {0}
  PROVE  ~Overflows(n, s) <=> n * s < Word
<1> DEFINE p == n * s
<1> USE DEF Sizes
<1>1. n \in Nat /\ s \in Nat /\ s > 0 /\ n > 0 /\ Word \in Nat /\ Word > 0
  OBVIOUS
<1>2. p \in Nat
  BY <1>1
<1>3. p % Word \in 0 .. Word - 1 /\ p % Word <= p
  BY <1>1, <1>2
<1>4. ASSUME p < Word PROVE ~Overflows(n, s)
  <2>1. p % Word = p BY <1>1, <1>2, <1>4
  <2>2. (n * s) \div s = n BY <1>1
  <2> QED BY <2>1, <2>2 DEF Overflows, Total
<1>5. ASSUME ~Overflows(n, s) PROVE p < Word
  <2>1. (p % Word) \div s = n BY <1>5 DEF Overflows, Total
  <2>2. n * s <= p % Word BY <1>1, <1>2, <1>3, <2>1
  <2> QED BY <1>2, <1>3, <2>2
<1> QED BY <1>4, <1>5

------------------------------------------------------------------------------
(* Callers. *)

(* A call that brings no pointer along. *)
LEMMA AllocInv ==
  ASSUME Inv, NEW t \in Threads, NEW n \in Sizes, Alloc(t, n, n)
  PROVE  Inv'
<1> DEFINE c == [fn |-> "malloc", addr |-> Null, bytes |-> n, old |-> 0]
<1>1. PICK i \in Ids :
        /\ inflight[i] = NoRequest
        /\ inflight' = [inflight EXCEPT ![i] = [kind |-> "malloc", addr |-> Null,
                                                bytes |-> n, for |-> t]]
  BY DEF Alloc, Begin
<1>2. /\ call[t] = NoCall /\ call' = [call EXCEPT ![t] = c] /\ n > 0
      /\ UNCHANGED <<size, believed, answer, lost, unsure>>
  BY DEF Alloc, Begin, Sizes
<1>3. TypeOK /\ Linked /\ Ownership BY DEF Inv
<1>4. answer[t] = None BY <1>2, <1>3 DEF Linked
<1>5. TypeOK'
  <2>1. c \in Call BY DEF Call, Sizes
  <2>2. [kind |-> "malloc", addr |-> Null, bytes |-> n, for |-> t] \in Request
    BY DEF Request
  <2> QED BY <1>1, <1>2, <1>3, <2>1, <2>2 DEF TypeOK
<1>6. Linked'
  BY <1>1, <1>2, <1>3, <1>4
  DEF Linked, TypeOK, CallShape, RequestShape, Waits, NoCall, NoRequest, None, Request, Call
<1>7. ASSUME NEW a \in Addrs, NEW x \in Claimants
      PROVE  /\ Has(x, a)' <=> Has(x, a)
             /\ x \in Threads => (Kept(x, a)' <=> Kept(x, a))
             /\ answer'[x] = answer[x]
             /\ x \in Ids => (inflight'[x].addr = a <=> inflight[x].addr = a)
  BY <1>1, <1>2, <1>3, <1>4 DEF Has, Kept, TypeOK, NoRequest, NoCall, None, Answer
<1>8. \A a \in Addrs, k \in Kinds, x \in Claimants : Claim(k, x, a)' <=> Claim(k, x, a)
  BY <1>7 DEF Claim, Claimants
<1>9. ASSUME NEW a \in Addrs \ unsure' PROVE (ClaimedOnce(a) /\ Backed(a) /\ (a \notin lost => Found(a)))'
  <2>1. ClaimedOnce(a) /\ Backed(a) /\ (a \notin lost => Found(a))
    BY <1>2, <1>3 DEF Ownership
  <2>2. ClaimedOnce(a)'
    BY <1>8, <2>1 DEF ClaimedOnce
  <2>3. (a \notin lost => Found(a))'
    BY <1>2, <1>8, <2>1 DEF Found
  <2>4. \A k \in Kinds, x \in Claimants : Claim(k, x, a)' => size'[a] > 0
    BY <1>2, <1>8, <2>1 DEF Backed
  <2>5. ASSUME NEW u \in Threads
        PROVE  /\ Has(u, a)' => believed'[u][a] <= size'[a]
               /\ answer'[u].addr = a => call'[u].bytes <= size'[a]
               /\ Kept(u, a)' => call'[u].old <= size'[a]
    BY <1>2, <1>3, <1>4, <2>1 DEF Backed, Has, Kept, None, Answer, TypeOK
  <2>6. ASSUME NEW j \in Ids, inflight'[j].addr = a, inflight'[j].kind = "realloc",
               inflight'[j].for \in Threads
        PROVE  call'[inflight'[j].for].old <= size'[a]
    BY <1>1, <1>2, <1>3, <2>1, <2>6 DEF Backed, Linked, Waits, TypeOK, NoCall
  <2> QED BY <2>2, <2>3, <2>4, <2>5, <2>6 DEF Backed
<1> QED BY <1>5, <1>6, <1>9 DEF Inv, Ownership
(* A call that takes a pointer along: the claim passes to its request. *)
LEMMA PassOnInv ==
  ASSUME Inv, NEW t \in Threads, NEW b \in Addrs, GiveUp(t, b),
         NEW c \in Call, c.fn \in {"free", "realloc"}, c.addr = b, CallShape(c),
         c.bytes \in Sizes, c.fn = "realloc" => c.old = believed[t][b],
         Begin(t, c, c.bytes)
  PROVE  Inv'
<1>1. PICK i \in Ids :
        /\ inflight[i] = NoRequest
        /\ inflight' = [inflight EXCEPT ![i] = [kind |-> c.fn, addr |-> b,
                                                bytes |-> c.bytes, for |-> t]]
  BY DEF Begin
<1>2. /\ call[t] = NoCall /\ call' = [call EXCEPT ![t] = c] /\ Has(t, b)
      /\ believed' = [believed EXCEPT ![t][b] = 0]
      /\ UNCHANGED <<size, answer, lost, unsure>>
  BY DEF Begin, GiveUp
<1>3. TypeOK /\ Linked /\ Ownership BY DEF Inv
<1>4. answer[t] = None BY <1>2, <1>3 DEF Linked
<1>5. TypeOK'
  <2>1. [kind |-> c.fn, addr |-> b, bytes |-> c.bytes, for |-> t] \in Request
    BY DEF Request
  <2>2. believed' \in [Threads -> [Addrs -> Sizes]]
    BY <1>2, <1>3, NoSize, Rewritten DEF TypeOK
  <2> QED BY <1>1, <1>2, <1>3, <2>1, <2>2 DEF TypeOK
<1>6. Linked'
  BY <1>1, <1>2, <1>3, <1>4
  DEF Linked, TypeOK, CallShape, RequestShape, Waits, NoCall, NoRequest, None, Request, Call
<1>7. ASSUME NEW a \in Addrs, NEW x \in Claimants
      PROVE  /\ x \in Threads => (Has(x, a)' <=> (Has(x, a) /\ ~(x = t /\ a = b)))
             /\ x \in Threads => (Kept(x, a)' <=> Kept(x, a))
             /\ answer'[x] = answer[x]
             /\ x \in Ids => (inflight'[x].addr = a <=> (inflight[x].addr = a \/ (x = i /\ a = b)))
  BY <1>1, <1>2, <1>3, <1>4 DEF Has, Kept, TypeOK, NoRequest, NoCall, None, Answer
<1>8. ASSUME NEW a \in Addrs, NEW k \in Kinds, NEW x \in Claimants, Claim(k, x, a)'
      PROVE  (Claim(k, x, a) /\ ~(k = "has" /\ x = t /\ a = b)) \/ (k = "asked" /\ x = i /\ a = b)
  BY <1>7, <1>8 DEF Claim, Claimants
<1>9. ASSUME NEW a \in Addrs, NEW k \in Kinds, NEW x \in Claimants, Claim(k, x, a), a # b
      PROVE  Claim(k, x, a)'
  BY <1>7, <1>9 DEF Claim, Claimants
<1>10. Claim("has", t, b) /\ t \in Claimants /\ i \in Claimants /\ Claim("asked", i, b)'
  BY <1>1, <1>2, <1>3 DEF Claim, Claimants, TypeOK
<1>11. ASSUME NEW a \in Addrs \ unsure' PROVE (ClaimedOnce(a) /\ Backed(a) /\ (a \notin lost => Found(a)))'
  <2>1. ClaimedOnce(a) /\ Backed(a) /\ (a \notin lost => Found(a))
    BY <1>2, <1>3 DEF Ownership
  <2>2. a = b => \A k \in Kinds, x \in Claimants : Claim(k, x, a)' => k = "asked" /\ x = i
    BY <1>8, <1>10, <2>1 DEF ClaimedOnce, Kinds
  <2>3. ClaimedOnce(a)'
    <3>1. CASE a = b BY <2>2, <3>1 DEF ClaimedOnce
    <3>2. CASE a # b BY <1>8, <2>1, <3>2 DEF ClaimedOnce
    <3> QED BY <3>1, <3>2
  <2>4. (a \notin lost => Found(a))'
    BY <1>2, <1>9, <1>10, <2>1 DEF Found, Kinds
  <2>5. size[b] > 0 \/ a # b
    BY <1>10, <2>1 DEF Backed, Kinds
  <2>6. \A k \in Kinds, x \in Claimants : Claim(k, x, a)' => size'[a] > 0
    BY <1>2, <1>8, <2>1, <2>5 DEF Backed
  <2>7. ASSUME NEW u \in Threads
        PROVE  /\ Has(u, a)' => believed'[u][a] <= size'[a]
               /\ answer'[u].addr = a => call'[u].bytes <= size'[a]
               /\ Kept(u, a)' => call'[u].old <= size'[a]
    BY <1>2, <1>3, <1>4, <2>1 DEF Backed, Has, Kept, None, Answer, TypeOK
  <2>8. ASSUME NEW j \in Ids, inflight'[j].addr = a, inflight'[j].kind = "realloc",
               inflight'[j].for \in Threads
        PROVE  call'[inflight'[j].for].old <= size'[a]
    <3>1. CASE j = i BY <1>1, <1>2, <1>3, <2>1, <2>8, <3>1 DEF Backed, TypeOK
    <3>2. CASE j # i BY <1>1, <1>2, <1>3, <2>1, <2>8, <3>2 DEF Backed, Linked, Waits, TypeOK, NoCall
    <3> QED BY <3>1, <3>2
  <2> QED BY <2>3, <2>4, <2>6, <2>7, <2>8 DEF Backed
<1> QED BY <1>5, <1>6, <1>11 DEF Inv, Ownership

LEMMA FreeInv ==
  ASSUME Inv, NEW t \in Threads, NEW a \in Addrs, eclib_free(t, a)
  PROVE  Inv'
<1> DEFINE c == [fn |-> "free", addr |-> a, bytes |-> 0, old |-> 0]
<1>1. c \in Call /\ CallShape(c) /\ 0 \in Sizes
  BY DEF Call, CallShape, Sizes
<1>2. GiveUp(t, a) /\ Begin(t, c, c.bytes)
  BY DEF eclib_free
<1>3. /\ c.fn \in {"free", "realloc"} /\ c.addr = a /\ c.bytes \in Sizes
      /\ c.fn = "realloc" => c.old = believed[t][a]
  BY <1>1
<1> QED BY <1>1, <1>2, <1>3, PassOnInv

LEMMA ReallocInv ==
  ASSUME Inv, NEW t \in Threads, NEW a \in Addrs, eclib_realloc(t, a)
  PROVE  Inv'
<1>1. CASE ReallocZero(t, a)
  BY <1>1, FreeInv DEF ReallocZero
<1>2. ASSUME NEW n \in Sizes \ {0}, GiveUp(t, a),
             Begin(t, [fn |-> "realloc", addr |-> a, bytes |-> n, old |-> believed[t][a]], n)
      PROVE  Inv'
  <2> DEFINE c == [fn |-> "realloc", addr |-> a, bytes |-> n, old |-> believed[t][a]]
  <2>1. believed[t][a] \in Sizes /\ believed[t][a] > 0
    BY <1>2 DEF Inv, TypeOK, GiveUp, Has
  <2>2. n \in Sizes /\ n > 0
    BY DEF Sizes
  <2>3. c \in Call /\ CallShape(c)
    BY <2>1, <2>2 DEF Call, CallShape
  <2>4. /\ c.fn \in {"free", "realloc"} /\ c.addr = a /\ c.bytes \in Sizes
        /\ c.fn = "realloc" => c.old = believed[t][a]
    OBVIOUS
  <2>5. Begin(t, c, c.bytes)
    BY <1>2
  <2> HIDE DEF c
  <2> QED BY <1>2, <2>3, <2>4, <2>5, PassOnInv
<1> QED BY <1>1, <1>2 DEF eclib_realloc
LEMMA FreeFailsInv ==
  ASSUME Inv, NEW t \in Threads, NEW b \in Addrs, FreeFails(t, b)
  PROVE  Inv'
<1>1. /\ Has(t, b) /\ believed' = [believed EXCEPT ![t][b] = 0]
      /\ lost' = lost \cup {b}
      /\ UNCHANGED <<size, call, inflight, answer, unsure>>
  BY DEF FreeFails, GiveUp
<1>2. TypeOK /\ Linked /\ Ownership BY DEF Inv
<1>3. TypeOK'
  <2>1. believed' \in [Threads -> [Addrs -> Sizes]]
    BY <1>1, <1>2, NoSize, Rewritten DEF TypeOK
  <2> QED BY <1>1, <1>2, <2>1 DEF TypeOK
<1>4. Linked' BY <1>1, <1>2 DEF Linked, Waits, RequestShape
<1>5. ASSUME NEW a \in Addrs, NEW k \in Kinds, NEW x \in Claimants
      PROVE  Claim(k, x, a)' <=> Claim(k, x, a) /\ ~(k = "has" /\ x = t /\ a = b)
  BY <1>1, <1>2 DEF Claim, Has, Kept, TypeOK
<1>6. ASSUME NEW a \in Addrs \ unsure' PROVE (ClaimedOnce(a) /\ Backed(a) /\ (a \notin lost => Found(a)))'
  <2>1. ClaimedOnce(a) /\ Backed(a) /\ (a \notin lost => Found(a))
    BY <1>1, <1>2 DEF Ownership
  <2>2. ClaimedOnce(a)' BY <1>5, <2>1 DEF ClaimedOnce
  <2>3. (a \notin lost => Found(a))' BY <1>1, <1>5, <2>1 DEF Found
  <2>4. \A k \in Kinds, x \in Claimants : Claim(k, x, a)' => size'[a] > 0
    BY <1>1, <1>5, <2>1 DEF Backed
  <2>5. ASSUME NEW u \in Threads
        PROVE  /\ Has(u, a)' => believed'[u][a] <= size'[a]
               /\ answer'[u].addr = a => call'[u].bytes <= size'[a]
               /\ Kept(u, a)' => call'[u].old <= size'[a]
    BY <1>1, <1>2, <2>1 DEF Backed, Has, Kept, TypeOK
  <2> QED BY <1>1, <2>1, <2>2, <2>3, <2>4, <2>5 DEF Backed
<1> QED BY <1>3, <1>4, <1>6 DEF Inv, Ownership

------------------------------------------------------------------------------
(* The manager. *)

(* An answer goes to the thread that waits for it, and to no other.        *)
LEMMA AnsweredLinked ==
  ASSUME TypeOK, Linked, NEW i \in Ids, inflight[i].kind # "none",
         NEW b \in Addrs \cup {Null}, Answered(i, b),
         b # Null => inflight[i].kind \in {"malloc", "realloc"},
         \A j \in Ids : j # i /\ inflight[j].kind = "realloc" /\ inflight[j].for = Nobody
                          => inflight[j].addr \in unsure'
  PROVE  Linked'
<1>1. /\ inflight' = [inflight EXCEPT ![i] = NoRequest]
      /\ call' = call
  BY DEF Answered
<1>2. \A t \in Threads : answer'[t] = IF inflight[i].for = t THEN Answer(b) ELSE answer[t]
  BY DEF Answered, TypeOK, Request
<1>3. \A t \in Threads : inflight[i].for = t => Waits(t, inflight[i])
  BY DEF Linked
<1>4. \A j \in Ids : j # i => inflight'[j] = inflight[j]
  BY <1>1 DEF TypeOK
<1>5. inflight'[i] = NoRequest
  BY <1>1 DEF TypeOK
<1>6. \A j \in Ids : RequestShape(inflight[j])'
  BY <1>4, <1>5 DEF Linked, RequestShape, NoRequest
<1>7. \A j \in Ids : \A t \in Threads : inflight'[j].for = t => Waits(t, inflight[j])'
  BY <1>1, <1>2, <1>4, <1>5 DEF Linked, Waits, NoRequest
<1>8. \A j, k \in Ids : inflight'[j].for = inflight'[k].for /\ inflight'[j].for # Nobody => j = k
  BY <1>4, <1>5 DEF Linked, NoRequest
<1>9. \A t \in Threads : /\ ~answer'[t].given => answer'[t] = None
                         /\ call'[t] = NoCall => answer'[t] = None
                         /\ answer'[t].addr # Null => call'[t].fn \in {"malloc", "realloc"}
  BY <1>1, <1>2, <1>3 DEF Linked, Waits, Answer, NoCall
<1> QED BY <1>1, <1>6, <1>7, <1>8, <1>9 DEF Linked

LEMMA GrantInv ==
  ASSUME Inv, NEW i \in Ids, Grant(i)
  PROVE  Inv'
<1> DEFINE for == inflight[i].for
<1>1. PICK b \in Addrs :
        /\ size[b] = 0
        /\ size' = [size EXCEPT ![b] = inflight[i].bytes]
        /\ GivenOut(i, b)
        /\ Answered(i, b)
  BY DEF Grant
<1>2. TypeOK /\ Linked /\ Ownership BY DEF Inv
<1>3. /\ inflight[i].kind = "malloc" /\ inflight[i].addr = Null /\ inflight[i].bytes > 0
      /\ for \in Threads \cup {Nobody} /\ inflight[i].bytes \in Sizes
  BY <1>2 DEF Grant, Linked, RequestShape, TypeOK, Request
<1>4. /\ inflight' = [inflight EXCEPT ![i] = NoRequest]
      /\ UNCHANGED <<believed, call>>
  BY <1>1 DEF Answered
<1>5. \A t \in Threads : answer'[t] = IF for = t THEN Answer(b) ELSE answer[t]
  BY <1>1, <1>2 DEF Answered, TypeOK
<1>6. for # Nobody => Waits(for, inflight[i])
  BY <1>2, <1>3 DEF Linked
<1>7. TypeOK'
  <2>1. NoRequest \in Request /\ Answer(b) \in [given : BOOLEAN, addr : Addrs \cup {Null}]
    BY DEF NoRequest, Request, Answer, Sizes
  <2> QED BY <1>1, <1>2, <1>3, <1>4, <2>1 DEF TypeOK, GivenOut, Answered
<1>8. Linked'
  <2>1. \A j \in Ids : inflight[j].kind = "realloc" => inflight[j].addr \in Addrs
    BY <1>2 DEF Linked, RequestShape
  <2>2. \A j \in Ids : inflight[j].kind = "realloc" /\ inflight[j].for = Nobody
                        => inflight[j].addr \in unsure'
    BY <1>1, <1>2, <2>1 DEF Linked, RequestShape, GivenOut, Claimed
  <2> QED BY <1>1, <1>2, <1>3, <2>2, AnsweredLinked
<1>9. ASSUME NEW a \in Addrs, NEW k \in Kinds, NEW x \in Claimants
      PROVE  /\ Claim(k, x, a)' <=> Claim(k, x, a) \/ (k = "told" /\ x = for /\ x \in Threads /\ a = b)
  <2>1. x \in Threads => (Has(x, a)' <=> Has(x, a)) BY <1>4 DEF Has
  <2>2. x \in Threads => (Kept(x, a)' <=> Kept(x, a))
    BY <1>2, <1>3, <1>4, <1>5, <1>6 DEF Kept, Waits
  <2>3. x \in Threads => (answer'[x].addr = a <=> answer[x].addr = a \/ (x = for /\ a = b))
    BY <1>5, <1>6 DEF Waits, None, Answer
  <2>4. x \in Ids => (inflight'[x].addr = a <=> inflight[x].addr = a)
    BY <1>2, <1>3, <1>4 DEF TypeOK, NoRequest
  <2> QED BY <2>1, <2>2, <2>3, <2>4 DEF Claim
<1>10. ASSUME NEW a \in Addrs \ unsure' PROVE (ClaimedOnce(a) /\ Backed(a) /\ (a \notin lost => Found(a)))'
  <2>1. CASE a = b
    <3>1. \A k \in Kinds, x \in Claimants : ~Claim(k, x, a)
      <4>1. CASE a \in unsure
        <5>1. ~Claimed(a) BY <1>1, <2>1, <4>1 DEF GivenOut
        <5> QED BY <5>1 DEF Claimed, Claim, Kept
      <4>2. CASE a \notin unsure
        BY <1>1, <1>2, <2>1, <4>2 DEF Ownership, Backed
      <4> QED BY <4>1, <4>2
    <3>2. \A k \in Kinds, x \in Claimants : Claim(k, x, a)' <=> k = "told" /\ x = for /\ x \in Threads
      BY <1>9, <2>1, <3>1
    <3>3. ClaimedOnce(a)' BY <3>2 DEF ClaimedOnce
    <3>4. size'[a] = inflight[i].bytes BY <1>1, <1>2, <2>1 DEF TypeOK
    <3>5. ASSUME NEW u \in Threads
          PROVE  /\ ~Has(u, a)'
                 /\ answer'[u].addr = a => call'[u].bytes <= size'[a]
                 /\ ~Kept(u, a)'
      <4>1. "has" \in Kinds /\ "told" \in Kinds /\ "kept" \in Kinds /\ u \in Claimants
        BY DEF Kinds, Claimants
      <4>2. answer'[u].addr = a => u = for
        BY <3>2, <4>1 DEF Claim
      <4>3. u = for => call'[u].bytes = size'[a]
        BY <1>3, <1>4, <1>6, <3>4 DEF Waits
      <4> QED BY <1>3, <3>2, <3>4, <4>1, <4>2, <4>3 DEF Claim, Sizes
    <3>6. \A j \in Ids : inflight'[j].addr # a
      BY <3>2 DEF Claim, Claimants, Kinds
    <3>7. Backed(a)' BY <1>3, <3>2, <3>4, <3>5, <3>6 DEF Backed
    <3>8. (a \notin lost => Found(a))'
      <4>1. for = Nobody => a \in lost' BY <1>1, <2>1 DEF GivenOut
      <4>2. ASSUME NEW u \in Threads, u = for
            PROVE  \E k \in Kinds, x \in Claimants : Claim(k, x, a)'
        <5>1. "told" \in Kinds /\ u \in Claimants BY DEF Kinds, Claimants
        <5> QED BY <3>2, <4>2, <5>1
      <4> QED BY <1>3, <4>1, <4>2 DEF Found
    <3> QED BY <3>3, <3>7, <3>8
  <2>2. CASE a # b
    <3>1. a \notin unsure /\ (a \in lost' <=> a \in lost) BY <1>1, <2>2 DEF GivenOut
    <3>2. ClaimedOnce(a) /\ Backed(a) /\ (a \notin lost => Found(a))
      BY <1>2, <3>1 DEF Ownership
    <3>3. \A k \in Kinds, x \in Claimants : Claim(k, x, a)' <=> Claim(k, x, a)
      BY <1>9, <2>2
    <3>4. size'[a] = size[a] BY <1>1, <1>2, <2>2 DEF TypeOK
    <3>5. ClaimedOnce(a)' /\ (a \notin lost => Found(a))'
      BY <3>1, <3>2, <3>3, <3>4 DEF ClaimedOnce, Found
    <3>6. \A u \in Threads : /\ Has(u, a)' <=> Has(u, a)
                             /\ answer'[u].addr = a <=> answer[u].addr = a
                             /\ Kept(u, a)' <=> Kept(u, a)
      BY <3>3 DEF Claim, Kinds, Claimants
    <3>7. \A j \in Ids : inflight'[j].addr = a => inflight'[j] = inflight[j]
      BY <1>2, <1>4 DEF TypeOK, NoRequest
    <3>8. Backed(a)'
      BY <1>4, <3>2, <3>3, <3>4, <3>6, <3>7 DEF Backed
    <3> QED BY <3>5, <3>8
  <2> QED BY <2>1, <2>2
<1> QED BY <1>7, <1>8, <1>10 DEF Inv, Ownership

(* A request that is answered with an error or freed its block: only what  *)
(* the request itself claimed changes hands.                               *)
LEMMA AnsweredNull ==
  ASSUME TypeOK, Linked, NEW i \in Ids, inflight[i].kind # "none", Answered(i, Null)
  PROVE  /\ UNCHANGED <<believed, call>>
         /\ \A j \in Ids : inflight'[j] = IF j = i THEN NoRequest ELSE inflight[j]
         /\ \A t \in Threads : answer'[t] = IF inflight[i].for = t THEN Answer(Null) ELSE answer[t]
         /\ \A a \in Addrs, k \in Kinds, x \in Claimants :
              Claim(k, x, a)' <=>
                \/ Claim(k, x, a) /\ ~(k = "asked" /\ x = i)
                \/ /\ k = "kept" /\ x \in Threads /\ x = inflight[i].for
                   /\ inflight[i].kind = "realloc" /\ inflight[i].addr = a
<1>1. /\ UNCHANGED <<believed, call>>
      /\ \A j \in Ids : inflight'[j] = IF j = i THEN NoRequest ELSE inflight[j]
      /\ \A t \in Threads : answer'[t] = IF inflight[i].for = t THEN Answer(Null) ELSE answer[t]
  BY DEF Answered, TypeOK, Request
<1>2. \A t \in Threads : inflight[i].for = t => Waits(t, inflight[i])
  BY DEF Linked
<1>3. ASSUME NEW a \in Addrs, NEW k \in Kinds, NEW x \in Claimants
      PROVE  Claim(k, x, a)' <=>
                \/ Claim(k, x, a) /\ ~(k = "asked" /\ x = i)
                \/ /\ k = "kept" /\ x \in Threads /\ x = inflight[i].for
                   /\ inflight[i].kind = "realloc" /\ inflight[i].addr = a
  <2>1. x \in Threads => (Has(x, a)' <=> Has(x, a)) BY <1>1 DEF Has
  <2>2. x \in Threads => (Kept(x, a)' <=> Kept(x, a)
             \/ (x = inflight[i].for /\ inflight[i].kind = "realloc" /\ inflight[i].addr = a))
    BY <1>1, <1>2 DEF Kept, Waits, None, Answer
  <2>3. x \in Threads => (answer'[x].addr = a <=> answer[x].addr = a)
    BY <1>1, <1>2 DEF Waits, None, Answer
  <2>4. x \in Ids => (inflight'[x].addr = a <=> inflight[x].addr = a /\ x # i)
    BY <1>1 DEF NoRequest
  <2> QED BY <2>1, <2>2, <2>3, <2>4 DEF Claim
<1> QED BY <1>1, <1>3

LEMMA DenyInv ==
  ASSUME Inv, NEW i \in Ids, Deny(i)
  PROVE  Inv'
<1>1. /\ inflight[i].kind \in {"malloc", "realloc"} /\ Answered(i, Null)
      /\ UNCHANGED <<size, lost, unsure>>
  BY DEF Deny
<1>2. TypeOK /\ Linked /\ Ownership BY DEF Inv
<1>3. /\ UNCHANGED <<believed, call>>
      /\ \A j \in Ids : inflight'[j] = IF j = i THEN NoRequest ELSE inflight[j]
      /\ \A t \in Threads : answer'[t] = IF inflight[i].for = t THEN Answer(Null) ELSE answer[t]
      /\ \A a \in Addrs, k \in Kinds, x \in Claimants :
              Claim(k, x, a)' <=>
                \/ Claim(k, x, a) /\ ~(k = "asked" /\ x = i)
                \/ /\ k = "kept" /\ x \in Threads /\ x = inflight[i].for
                   /\ inflight[i].kind = "realloc" /\ inflight[i].addr = a
  BY <1>1, <1>2, AnsweredNull
<1>4. TypeOK'
  <2>1. NoRequest \in Request /\ Answer(Null) \in [given : BOOLEAN, addr : Addrs \cup {Null}]
    BY DEF NoRequest, Request, Answer, Sizes
  <2> QED BY <1>1, <1>2, <2>1 DEF TypeOK, Answered
<1>5. Linked'
  BY <1>1, <1>2, AnsweredLinked DEF Linked, RequestShape
<1>6. i \in Claimants /\ "asked" \in Kinds /\ "kept" \in Kinds
  BY DEF Claimants, Kinds
<1>7. ASSUME NEW a \in Addrs \ unsure' PROVE (ClaimedOnce(a) /\ Backed(a) /\ (a \notin lost => Found(a)))'
  <2>1. ClaimedOnce(a) /\ Backed(a) /\ (a \notin lost => Found(a))
    BY <1>1, <1>2 DEF Ownership
  <2>2. Claim("asked", i, a) <=> inflight[i].addr = a
    BY DEF Claim
  <2>3. ClaimedOnce(a)'
    <3>1. CASE inflight[i].addr = a
      <4>1. \A k \in Kinds, x \in Claimants : Claim(k, x, a) => k = "asked" /\ x = i
        BY <1>6, <2>1, <2>2, <3>1 DEF ClaimedOnce
      <4>2. \A k \in Kinds, x \in Claimants : Claim(k, x, a)' => k = "kept" /\ x = inflight[i].for
        BY <1>3, <4>1
      <4> QED BY <4>2 DEF ClaimedOnce
    <3>2. CASE inflight[i].addr # a
      BY <1>3, <2>1, <3>2 DEF ClaimedOnce
    <3> QED BY <3>1, <3>2
  <2>4. (a \notin lost => Found(a))'
    <3>1. CASE inflight[i].addr = a
      <4>1. inflight[i].kind = "realloc" /\ inflight[i].for # Nobody
        BY <1>1, <1>2, <3>1 DEF Linked, RequestShape
      <4>2. PICK u \in Threads : u = inflight[i].for
        BY <1>2, <4>1 DEF TypeOK, Request
      <4>3. Claim("kept", u, a)' /\ u \in Claimants
        BY <1>3, <1>6, <3>1, <4>1, <4>2 DEF Claimants
      <4> QED BY <1>6, <4>3 DEF Found
    <3>2. CASE inflight[i].addr # a
      <4>1. \A k \in Kinds, x \in Claimants : Claim(k, x, a) => Claim(k, x, a)'
        BY <1>3, <3>2 DEF Claim
      <4> QED BY <1>1, <2>1, <4>1 DEF Found
    <3> QED BY <3>1, <3>2
  <2>5. \A k \in Kinds, x \in Claimants : Claim(k, x, a)' => size'[a] > 0
    BY <1>1, <1>3, <1>6, <2>1, <2>2 DEF Backed
  <2>6. ASSUME NEW u \in Threads
        PROVE  /\ Has(u, a)' => believed'[u][a] <= size'[a]
               /\ answer'[u].addr = a => call'[u].bytes <= size'[a]
               /\ Kept(u, a)' => call'[u].old <= size'[a]
    <3>1. Has(u, a)' => believed'[u][a] <= size'[a] BY <1>1, <1>3, <2>1 DEF Has, Backed
    <3>2. answer'[u].addr = a => answer[u].addr = a BY <1>3 DEF Answer
    <3>3. answer'[u].addr = a => call'[u].bytes <= size'[a] BY <1>1, <1>3, <2>1, <3>2 DEF Backed
    <3>4. ASSUME inflight[i].for = u, Kept(u, a)' PROVE call'[u].old <= size'[a]
      <4>1. Waits(u, inflight[i]) BY <1>2, <3>4 DEF Linked
      <4>2. inflight[i].addr = a /\ inflight[i].kind = "realloc" BY <1>3, <3>4, <4>1 DEF Waits, Kept
      <4> QED BY <1>1, <1>3, <2>1, <3>4, <4>2 DEF Backed
    <3>5. ASSUME inflight[i].for # u, Kept(u, a)' PROVE call'[u].old <= size'[a]
      BY <1>1, <1>3, <2>1, <3>5 DEF Backed, Kept
    <3> QED BY <3>1, <3>3, <3>4, <3>5
  <2>7. ASSUME NEW j \in Ids, inflight'[j].addr = a, inflight'[j].kind = "realloc",
               inflight'[j].for \in Threads
        PROVE  call'[inflight'[j].for].old <= size'[a]
    BY <1>1, <1>3, <2>1, <2>7 DEF Backed, NoRequest
  <2> QED BY <2>3, <2>4, <2>5, <2>6, <2>7 DEF Backed
<1> QED BY <1>4, <1>5, <1>7 DEF Inv, Ownership

LEMMA ReleaseInv ==
  ASSUME Inv, NEW i \in Ids, Release(i)
  PROVE  Inv'
<1>1. /\ inflight[i].kind = "free" /\ Answered(i, Null)
      /\ size' = [size EXCEPT ![inflight[i].addr] = 0]
      /\ lost' = lost \ {inflight[i].addr}
      /\ unsure' = unsure
  BY DEF Release
<1>2. TypeOK /\ Linked /\ Ownership BY DEF Inv
<1>3. /\ UNCHANGED <<believed, call>>
      /\ \A j \in Ids : inflight'[j] = IF j = i THEN NoRequest ELSE inflight[j]
      /\ \A t \in Threads : answer'[t] = IF inflight[i].for = t THEN Answer(Null) ELSE answer[t]
      /\ \A a \in Addrs, k \in Kinds, x \in Claimants :
              Claim(k, x, a)' <=> Claim(k, x, a) /\ ~(k = "asked" /\ x = i)
  BY <1>1, <1>2, AnsweredNull
<1>4. inflight[i].addr \in Addrs
  BY <1>1, <1>2 DEF Linked, RequestShape
<1>5. TypeOK'
  <2>1. NoRequest \in Request /\ Answer(Null) \in [given : BOOLEAN, addr : Addrs \cup {Null}]
        /\ 0 \in Sizes
    BY DEF NoRequest, Request, Answer, Sizes
  <2> QED BY <1>1, <1>2, <2>1 DEF TypeOK, Answered
<1>6. Linked'
  BY <1>1, <1>2, AnsweredLinked DEF Linked, RequestShape
<1>7. i \in Claimants /\ "asked" \in Kinds
  BY DEF Claimants, Kinds
<1>8. ASSUME NEW a \in Addrs \ unsure' PROVE (ClaimedOnce(a) /\ Backed(a) /\ (a \notin lost => Found(a)))'
  <2>1. ClaimedOnce(a) /\ Backed(a) /\ (a \notin lost => Found(a))
    BY <1>1, <1>2 DEF Ownership
  <2>2. ClaimedOnce(a)' BY <1>3, <2>1 DEF ClaimedOnce
  <2>3. CASE inflight[i].addr = a
    <3>1. Claim("asked", i, a) BY <2>3 DEF Claim
    <3>2. \A k \in Kinds, x \in Claimants : ~Claim(k, x, a)'
      BY <1>3, <1>7, <2>1, <3>1 DEF ClaimedOnce
    <3>3. size'[a] = 0 BY <1>1, <1>2, <1>4, <2>3 DEF TypeOK
    <3>4. ASSUME NEW u \in Threads
          PROVE  ~Has(u, a)' /\ answer'[u].addr # a /\ ~Kept(u, a)'
      BY <3>2 DEF Claim, Kinds, Claimants
    <3>5. \A j \in Ids : inflight'[j].addr # a
      BY <3>2 DEF Claim, Kinds, Claimants
    <3>6. Backed(a)' BY <3>2, <3>4, <3>5 DEF Backed
    <3> QED BY <2>2, <3>3, <3>6 DEF Found
  <2>4. CASE inflight[i].addr # a
    <3>1. \A k \in Kinds, x \in Claimants : Claim(k, x, a)' <=> Claim(k, x, a)
      BY <1>3, <2>4 DEF Claim
    <3>2. size'[a] = size[a] /\ (a \in lost' <=> a \in lost) BY <1>1, <1>2, <2>4 DEF TypeOK
    <3>3. (a \notin lost => Found(a))' BY <2>1, <3>1, <3>2 DEF Found
    <3>4. \A u \in Threads : /\ Has(u, a)' <=> Has(u, a)
                             /\ answer'[u].addr = a <=> answer[u].addr = a
                             /\ Kept(u, a)' <=> Kept(u, a)
      BY <3>1 DEF Claim, Kinds, Claimants
    <3>5. \A j \in Ids : inflight'[j].addr = a => inflight'[j] = inflight[j]
      BY <1>3, <1>4 DEF NoRequest
    <3>6. Backed(a)' BY <1>3, <2>1, <3>1, <3>2, <3>4, <3>5 DEF Backed
    <3> QED BY <2>2, <3>3, <3>6
  <2> QED BY <2>3, <2>4
<1> QED BY <1>5, <1>6, <1>8 DEF Inv, Ownership

LEMMA MoveInv ==
  ASSUME Inv, NEW i \in Ids, Move(i)
  PROVE  Inv'
<1> DEFINE from == inflight[i].addr
           for  == inflight[i].for
<1>1. PICK b \in Addrs :
        /\ b = from \/ size[b] = 0
        /\ size' = [size EXCEPT ![from] = 0, ![b] = inflight[i].bytes]
        /\ GivenOut(i, b)
        /\ Answered(i, b)
  BY DEF Move
<1>2. TypeOK /\ Linked /\ Ownership BY DEF Inv
<1>3. /\ inflight[i].kind = "realloc" /\ from \in Addrs /\ inflight[i].bytes > 0
      /\ for \in Threads \cup {Nobody} /\ inflight[i].bytes \in Sizes
      /\ for = Nobody => from \in unsure
  BY <1>2 DEF Move, Linked, RequestShape, TypeOK, Request
<1>4. /\ \A j \in Ids : inflight'[j] = IF j = i THEN NoRequest ELSE inflight[j]
      /\ UNCHANGED <<believed, call>>
  BY <1>1, <1>2 DEF Answered, TypeOK
<1>5. \A t \in Threads : answer'[t] = IF for = t THEN Answer(b) ELSE answer[t]
  BY <1>1, <1>2 DEF Answered, TypeOK
<1>6. for # Nobody => Waits(for, inflight[i])
  BY <1>2, <1>3 DEF Linked
<1>7. TypeOK'
  <2>1. NoRequest \in Request /\ Answer(b) \in [given : BOOLEAN, addr : Addrs \cup {Null}]
        /\ 0 \in Sizes
    BY DEF NoRequest, Request, Answer, Sizes
  <2> QED BY <1>1, <1>2, <1>3, <2>1 DEF TypeOK, GivenOut, Answered
<1>8. Linked'
  <2>1. \A j \in Ids : inflight[j].kind = "realloc" => inflight[j].addr \in Addrs
    BY <1>2 DEF Linked, RequestShape
  <2>2. \A j \in Ids : inflight[j].kind = "realloc" /\ inflight[j].for = Nobody
                        => inflight[j].addr \in unsure'
    BY <1>1, <1>2, <2>1 DEF Linked, RequestShape, GivenOut, Claimed
  <2> QED BY <1>1, <1>2, <1>3, <2>2, AnsweredLinked
<1>9. ASSUME NEW a \in Addrs, NEW k \in Kinds, NEW x \in Claimants
      PROVE  Claim(k, x, a)' <=>
               \/ Claim(k, x, a) /\ ~(k = "asked" /\ x = i)
               \/ k = "told" /\ x = for /\ x \in Threads /\ a = b
  <2>1. x \in Threads => (Has(x, a)' <=> Has(x, a)) BY <1>4 DEF Has
  <2>2. x \in Threads => (Kept(x, a)' <=> Kept(x, a))
    BY <1>4, <1>5, <1>6 DEF Kept, Waits, None, Answer
  <2>3. x \in Threads => (answer'[x].addr = a <=> answer[x].addr = a \/ (x = for /\ a = b))
    BY <1>5, <1>6 DEF Waits, None, Answer
  <2>4. x \in Ids => (inflight'[x].addr = a <=> inflight[x].addr = a /\ x # i)
    BY <1>4 DEF NoRequest
  <2> QED BY <2>1, <2>2, <2>3, <2>4 DEF Claim
<1>10. i \in Claimants /\ "asked" \in Kinds /\ Claim("asked", i, from)
  BY <1>3 DEF Claimants, Kinds, Claim
<1>11. \A a \in Addrs : size'[a] = IF a = b THEN inflight[i].bytes ELSE IF a = from THEN 0 ELSE size[a]
  BY <1>1, <1>2, <1>3 DEF TypeOK
<1>12. ASSUME NEW a \in Addrs \ unsure' PROVE (ClaimedOnce(a) /\ Backed(a) /\ (a \notin lost => Found(a)))'
  <2>1. CASE a = b
    (* Nobody claims it but the request itself, when it stays in place.    *)
    <3>1. \A k \in Kinds, x \in Claimants : Claim(k, x, a) => k = "asked" /\ x = i
      <4>1. CASE a \in unsure
        <5>1. ~Claimed(a) BY <1>1, <2>1, <4>1 DEF GivenOut
        <5> QED BY <5>1 DEF Claimed, Claim, Kept
      <4>2. CASE a \notin unsure /\ a # from
        BY <1>1, <1>2, <2>1, <4>2 DEF Ownership, Backed
      <4>3. CASE a \notin unsure /\ a = from
        BY <1>2, <1>10, <4>3 DEF Ownership, ClaimedOnce
      <4> QED BY <4>1, <4>2, <4>3
    <3>2. \A k \in Kinds, x \in Claimants : Claim(k, x, a)' <=> k = "told" /\ x = for /\ x \in Threads
      BY <1>9, <2>1, <3>1
    <3>3. ClaimedOnce(a)' BY <3>2 DEF ClaimedOnce
    <3>4. size'[a] = inflight[i].bytes BY <1>11, <2>1
    <3>5. ASSUME NEW u \in Threads
          PROVE  /\ ~Has(u, a)'
                 /\ answer'[u].addr = a => call'[u].bytes <= size'[a]
                 /\ ~Kept(u, a)'
      <4>1. "has" \in Kinds /\ "told" \in Kinds /\ "kept" \in Kinds /\ u \in Claimants
        BY DEF Kinds, Claimants
      <4>2. answer'[u].addr = a => u = for
        BY <3>2, <4>1 DEF Claim
      <4>3. u = for => call'[u].bytes = size'[a]
        BY <1>3, <1>4, <1>6, <3>4 DEF Waits
      <4> QED BY <1>3, <3>2, <3>4, <4>1, <4>2, <4>3 DEF Claim, Sizes
    <3>6. \A j \in Ids : inflight'[j].addr # a
      BY <3>2 DEF Claim, Claimants, Kinds
    <3>7. Backed(a)' BY <1>3, <3>2, <3>4, <3>5, <3>6 DEF Backed
    <3>8. (a \notin lost => Found(a))'
      <4>1. for = Nobody => a \in lost' BY <1>1, <2>1 DEF GivenOut
      <4>2. ASSUME NEW u \in Threads, u = for
            PROVE  \E k \in Kinds, x \in Claimants : Claim(k, x, a)'
        <5>1. "told" \in Kinds /\ u \in Claimants BY DEF Kinds, Claimants
        <5> QED BY <3>2, <4>2, <5>1
      <4> QED BY <1>3, <4>1, <4>2 DEF Found
    <3> QED BY <3>3, <3>7, <3>8
  <2>2. CASE a # b
    <3>1. a \notin unsure /\ (a \in lost' <=> a \in lost) BY <1>1, <2>2 DEF GivenOut
    <3>2. ClaimedOnce(a) /\ Backed(a) /\ (a \notin lost => Found(a))
      BY <1>2, <3>1 DEF Ownership
    <3>3. \A k \in Kinds, x \in Claimants :
            Claim(k, x, a)' <=> Claim(k, x, a) /\ ~(k = "asked" /\ x = i)
      BY <1>9, <2>2
    <3>4. ClaimedOnce(a)' BY <3>2, <3>3 DEF ClaimedOnce
    <3>5. CASE a = from
      <4>1. \A k \in Kinds, x \in Claimants : ~Claim(k, x, a)'
        BY <1>10, <3>2, <3>3, <3>5 DEF ClaimedOnce
      <4>2. size'[a] = 0 BY <1>11, <2>2, <3>5
      <4>3. ASSUME NEW u \in Threads
            PROVE  ~Has(u, a)' /\ answer'[u].addr # a /\ ~Kept(u, a)'
        BY <4>1 DEF Claim, Kinds, Claimants
      <4>4. \A j \in Ids : inflight'[j].addr # a
        BY <4>1 DEF Claim, Kinds, Claimants
      <4>5. Backed(a)' BY <4>1, <4>3, <4>4 DEF Backed
      <4> QED BY <3>4, <4>2, <4>5 DEF Found
    <3>6. CASE a # from
      <4>1. \A k \in Kinds, x \in Claimants : Claim(k, x, a)' <=> Claim(k, x, a)
        BY <3>3, <3>6 DEF Claim
      <4>2. size'[a] = size[a] BY <1>11, <2>2, <3>6
      <4>3. (a \notin lost => Found(a))' BY <3>1, <3>2, <4>1, <4>2 DEF Found
      <4>4. \A u \in Threads : /\ Has(u, a)' <=> Has(u, a)
                               /\ answer'[u].addr = a <=> answer[u].addr = a
                               /\ Kept(u, a)' <=> Kept(u, a)
        BY <4>1 DEF Claim, Kinds, Claimants
      <4>5. \A j \in Ids : inflight'[j].addr = a => inflight'[j] = inflight[j]
        BY <1>4 DEF NoRequest
      <4>6. Backed(a)' BY <1>4, <3>2, <4>1, <4>2, <4>4, <4>5 DEF Backed
      <4> QED BY <3>4, <4>3, <4>6
    <3> QED BY <3>5, <3>6
  <2> QED BY <2>1, <2>2
<1> QED BY <1>7, <1>8, <1>12 DEF Inv, Ownership
------------------------------------------------------------------------------
(* The return of a call. *)

LEMMA OverLinked ==
  ASSUME TypeOK, Linked, NEW t \in Threads, Over(t),
         \/ inflight' = inflight /\ unsure' = unsure /\ answer[t].given
         \/ /\ inflight' = [i \in Ids |-> IF inflight[i].for = t
                                      THEN [inflight[i] EXCEPT !.for = Nobody]
                                      ELSE inflight[i]]
            /\ unsure' = IF call[t].fn = "realloc" THEN unsure \cup {call[t].addr} ELSE unsure
  PROVE  Linked'
<1>1. /\ \A u \in Threads : call'[u] = IF u = t THEN NoCall ELSE call[u]
      /\ \A u \in Threads : answer'[u] = IF u = t THEN None ELSE answer[u]
  BY DEF Over, TypeOK
<1>2. \A i \in Ids : answer[t].given => inflight[i].for # t
  BY DEF Linked, Waits, None
<1>3. \A i \in Ids : /\ inflight[i].for # t => inflight'[i] = inflight[i]
                     /\ inflight[i].for = t =>
                          inflight'[i] = [inflight[i] EXCEPT !.for = Nobody]
                     /\ inflight'[i].kind = inflight[i].kind
                     /\ inflight'[i].addr = inflight[i].addr
                     /\ inflight'[i].bytes = inflight[i].bytes
                     /\ inflight'[i].for = IF inflight[i].for = t THEN Nobody ELSE inflight[i].for
  <2> SUFFICES ASSUME NEW i \in Ids
               PROVE  /\ inflight[i].for # t => inflight'[i] = inflight[i]
                      /\ inflight[i].for = t =>
                           inflight'[i] = [inflight[i] EXCEPT !.for = Nobody]
                      /\ inflight'[i].kind = inflight[i].kind
                      /\ inflight'[i].addr = inflight[i].addr
                      /\ inflight'[i].bytes = inflight[i].bytes
                      /\ inflight'[i].for = IF inflight[i].for = t THEN Nobody ELSE inflight[i].for
    OBVIOUS
  <2>1. inflight[i] \in Request BY DEF TypeOK
  <2>2. CASE inflight[i].for # t BY <2>2
  <2>3. CASE inflight[i].for = t
    <3>1. inflight'[i] = [inflight[i] EXCEPT !.for = Nobody] BY <1>2, <2>3
    <3> QED BY <2>1, <2>3, <3>1 DEF Request
  <2> QED BY <2>2, <2>3
<1>4. unsure \subseteq unsure'
  OBVIOUS
<1>5. \A i \in Ids : RequestShape(inflight[i])'
  <2> SUFFICES ASSUME NEW i \in Ids PROVE RequestShape(inflight[i])'
    OBVIOUS
  <2>1. RequestShape(inflight[i]) BY DEF Linked
  <2>2. CASE inflight[i].for # t BY <1>3, <1>4, <2>1, <2>2 DEF RequestShape
  <2>3. CASE inflight[i].for = t
    <3>1. Waits(t, inflight[i]) BY <2>3 DEF Linked
    <3>2. inflight[i].kind = "realloc" => inflight[i].addr \in unsure'
      BY <3>1 DEF Waits, None
    <3>3. inflight[i].kind # "none" BY <3>1 DEF Waits
    <3> QED BY <1>3, <2>1, <3>2, <3>3 DEF RequestShape
  <2> QED BY <2>2, <2>3
<1>6. \A i \in Ids : \A u \in Threads : inflight'[i].for = u => Waits(u, inflight[i])'
  <2> SUFFICES ASSUME NEW i \in Ids, NEW u \in Threads, inflight'[i].for = u
               PROVE  Waits(u, inflight[i])'
    OBVIOUS
  <2>1. inflight[i].for = u /\ u # t BY <1>3
  <2>2. Waits(u, inflight[i]) BY <2>1 DEF Linked
  <2>3. inflight'[i] = inflight[i] /\ call'[u] = call[u] /\ answer'[u] = answer[u]
    BY <1>1, <1>3, <2>1
  <2> QED BY <2>2, <2>3 DEF Waits
<1>7. \A i, j \in Ids : inflight'[i].for = inflight'[j].for /\ inflight'[i].for # Nobody => i = j
  BY <1>3 DEF Linked
<1>8. \A u \in Threads : /\ CallShape(call'[u])
                         /\ ~answer'[u].given => answer'[u] = None
                         /\ call'[u] = NoCall => answer'[u] = None
                         /\ answer'[u].addr # Null => call'[u].fn \in {"malloc", "realloc"}
  <2> SUFFICES ASSUME NEW u \in Threads
               PROVE  /\ CallShape(call'[u])
                      /\ ~answer'[u].given => answer'[u] = None
                      /\ call'[u] = NoCall => answer'[u] = None
                      /\ answer'[u].addr # Null => call'[u].fn \in {"malloc", "realloc"}
    OBVIOUS
  <2>1. CASE u = t
    <3>1. call'[u] = NoCall /\ answer'[u] = None BY <1>1, <2>1
    <3> QED BY <3>1 DEF CallShape, NoCall, None
  <2>2. CASE u # t
    BY <1>1, <2>2 DEF Linked
  <2> QED BY <2>1, <2>2
<1> QED BY <1>1, <1>5, <1>6, <1>7, <1>8 DEF Linked

(* The caller gets a block, or its old one back. *)
LEMMA GainInv ==
  ASSUME Inv, NEW t \in Threads, answer[t].given, Over(t),
         NEW b \in Addrs, NEW n \in Sizes, n > 0, Gains(t, b, n),
         \/ answer[t].addr = b /\ n = call[t].bytes
         \/ Kept(t, b) /\ n = call[t].old,
         UNCHANGED <<size, inflight, lost, unsure>>
  PROVE  Inv'
<1>1. TypeOK /\ Linked /\ Ownership BY DEF Inv
<1>2. /\ \A u \in Threads : call'[u] = IF u = t THEN NoCall ELSE call[u]
      /\ \A u \in Threads : answer'[u] = IF u = t THEN None ELSE answer[u]
      /\ \A u \in Threads, a \in Addrs :
           believed'[u][a] = IF u = t /\ a = b THEN n ELSE believed[u][a]
  BY <1>1 DEF Over, Gains, TypeOK
<1>3. TypeOK'
  <2>1. NoCall \in Call /\ None \in [given : BOOLEAN, addr : Addrs \cup {Null}]
    BY NoSize DEF NoCall, None, Call
  <2> QED BY <1>1, <2>1 DEF TypeOK, Over, Gains
<1>4. Linked' BY <1>1, OverLinked
<1>5. ASSUME NEW a \in Addrs, NEW k \in Kinds, NEW x \in Claimants
      PROVE  /\ Claim(k, x, a)' <=> \/ Claim(k, x, a) /\ ~(k \in {"told", "kept"} /\ x = t)
                                    \/ k = "has" /\ x = t /\ a = b
             /\ Claim(k, t, a) /\ k \in {"told", "kept"} => a = b
  BY <1>2 DEF Claim, Has, Kept, NoCall, None, Answer
<1>6. \E k \in {"told", "kept"} : Claim(k, t, b)
  BY DEF Claim
<1>7. t \in Claimants /\ "has" \in Kinds /\ "told" \in Kinds /\ "kept" \in Kinds
  BY DEF Claimants, Kinds
<1>8. ASSUME NEW a \in Addrs \ unsure' PROVE (ClaimedOnce(a) /\ Backed(a) /\ (a \notin lost => Found(a)))'
  <2>1. ClaimedOnce(a) /\ Backed(a) /\ (a \notin lost => Found(a))
    BY <1>1 DEF Ownership
  <2>2. CASE a = b
    <3>1. \A k \in Kinds, x \in Claimants : Claim(k, x, a)' <=> k = "has" /\ x = t
      <4>1. PICK h \in {"told", "kept"} : Claim(h, t, a) BY <1>6, <2>2
      <4>2. \A k \in Kinds, x \in Claimants : Claim(k, x, a) => k = h /\ x = t
        BY <1>7, <2>1, <4>1 DEF ClaimedOnce
      <4> QED BY <1>5, <2>2, <4>2
    <3>2. size[a] > 0 /\ n <= size[a]
      BY <1>6, <1>7, <2>1, <2>2 DEF Backed
    <3>3. ClaimedOnce(a)' BY <3>1 DEF ClaimedOnce
    <3>4. Found(a)' BY <1>7, <3>1 DEF Found
    <3>5. ASSUME NEW u \in Threads
          PROVE  /\ Has(u, a)' => u = t
                 /\ answer'[u].addr # a
                 /\ ~Kept(u, a)'
      <4>1. u \in Claimants BY DEF Claimants
      <4> QED BY <1>7, <3>1, <4>1 DEF Claim
    <3>6. \A j \in Ids : inflight'[j].addr # a
      BY <3>1 DEF Claim, Claimants, Kinds
    <3>7. Backed(a)' BY <1>2, <2>2, <3>1, <3>2, <3>5, <3>6 DEF Backed
    <3> QED BY <3>3, <3>4, <3>7
  <2>3. CASE a # b
    <3>1. \A k \in Kinds, x \in Claimants : Claim(k, x, a)' <=> Claim(k, x, a)
      BY <1>5, <2>3
    <3>2. ClaimedOnce(a)' /\ (a \notin lost => Found(a))'
      BY <2>1, <3>1 DEF ClaimedOnce, Found
    <3>3. \A k \in Kinds, x \in Claimants : Claim(k, x, a)' => size'[a] > 0
      BY <2>1, <3>1 DEF Backed
    <3>4. ASSUME NEW u \in Threads
          PROVE  /\ Has(u, a)' => believed'[u][a] <= size'[a]
                 /\ answer'[u].addr = a => call'[u].bytes <= size'[a]
                 /\ Kept(u, a)' => call'[u].old <= size'[a]
      <4>1. CASE u = t
        <5>1. /\ call'[u] = NoCall /\ answer'[u] = None
              /\ believed'[u][a] = believed[u][a]
          BY <1>2, <2>3, <4>1
        <5> QED BY <2>1, <5>1 DEF Backed, Has, Kept, None, Answer
      <4>2. CASE u # t
        <5>1. /\ call'[u] = call[u] /\ answer'[u] = answer[u]
              /\ believed'[u][a] = believed[u][a]
          BY <1>2, <4>2
        <5> QED BY <2>1, <5>1 DEF Backed, Has, Kept
      <4> QED BY <4>1, <4>2
    <3>5. ASSUME NEW j \in Ids, inflight'[j].addr = a, inflight'[j].kind = "realloc",
                 inflight'[j].for \in Threads
          PROVE  call'[inflight'[j].for].old <= size'[a]
      BY <1>1, <1>2, <2>1, <3>5 DEF Backed, Linked, Waits, None
    <3> QED BY <3>2, <3>3, <3>4, <3>5 DEF Backed
  <2> QED BY <2>2, <2>3
<1> QED BY <1>3, <1>4, <1>8 DEF Inv, Ownership

(* A call ends with nothing, or its answer comes too late. *)
LEMMA EndInv ==
  ASSUME Inv, NEW t \in Threads, Over(t), size' = size,
         \/ /\ answer[t].given /\ answer[t].addr = Null /\ call[t].fn # "realloc"
            /\ UNCHANGED <<believed, inflight, lost, unsure>>
         \/ Timeout(t)
  PROVE  Inv'
<1>1. TypeOK /\ Linked /\ Ownership BY DEF Inv
<1>2. /\ \A u \in Threads : call'[u] = IF u = t THEN NoCall ELSE call[u]
      /\ \A u \in Threads : answer'[u] = IF u = t THEN None ELSE answer[u]
  BY <1>1 DEF Over, TypeOK
<1>3. CallShape(call[t]) /\ call[t] \in Call
  BY <1>1 DEF Linked, TypeOK
<1>4. /\ call[t].fn = "realloc" =>
           /\ unsure' = unsure \cup {call[t].addr}
           /\ believed' = [believed EXCEPT ![t][call[t].addr] = call[t].old]
      /\ call[t].fn # "realloc" => UNCHANGED <<believed, unsure>>
  BY DEF Timeout, Gains
<1>5. /\ lost \subseteq lost'
      /\ answer[t].addr \in Addrs /\ answer[t].addr # call[t].addr => answer[t].addr \in lost'
      /\ lost' \subseteq lost \cup Addrs
  BY <1>1 DEF Timeout, TypeOK
<1>6. \A i \in Ids : /\ inflight'[i].addr = inflight[i].addr
                     /\ inflight'[i].kind = inflight[i].kind
                     /\ inflight'[i].for = inflight[i].for \/ inflight'[i].for = Nobody
  BY <1>1 DEF Timeout, TypeOK, Request
<1>7. TypeOK'
  <2>1. NoCall \in Call /\ None \in [given : BOOLEAN, addr : Addrs \cup {Null}]
    BY NoSize DEF NoCall, None, Call
  <2>2. believed' \in [Threads -> [Addrs -> Sizes]] /\ unsure' \subseteq Addrs
    <3>1. CASE call[t].fn = "realloc"
      <4>1. call[t].addr \in Addrs /\ call[t].old \in Sizes
        BY <1>3, <3>1 DEF CallShape, Call
      <4>2. [believed EXCEPT ![t][call[t].addr] = call[t].old] \in [Threads -> [Addrs -> Sizes]]
        BY <1>1, <4>1, Rewritten DEF TypeOK
      <4> QED BY <1>1, <1>4, <3>1, <4>1, <4>2 DEF TypeOK
    <3>2. CASE call[t].fn # "realloc"
      BY <1>1, <1>4, <3>2 DEF TypeOK
    <3> QED BY <3>1, <3>2
  <2>3. inflight' \in [Ids -> Request]
    <3>1. ASSUME NEW i \in Ids PROVE [inflight[i] EXCEPT !.for = Nobody] \in Request
      <4>1. inflight[i] \in Request BY <1>1 DEF TypeOK
      <4> QED BY <4>1 DEF Request
    <3> QED BY <1>1, <3>1 DEF TypeOK, Timeout
  <2>4. call' \in [Threads -> Call] /\ answer' \in [Threads -> [given : BOOLEAN, addr : Addrs \cup {Null}]]
    BY <1>1, <2>1 DEF TypeOK, Over
  <2> QED BY <1>1, <1>5, <2>2, <2>3, <2>4 DEF TypeOK
<1>8. Linked'
  BY <1>1, OverLinked DEF Timeout
<1>9. ASSUME NEW a \in Addrs \ unsure', NEW k \in Kinds, NEW x \in Claimants
      PROVE  Claim(k, x, a)' <=> Claim(k, x, a) /\ ~(k = "told" /\ x = t)
  <2>1. x \in Threads => (Has(x, a)' <=> Has(x, a)) BY <1>1, <1>3, <1>4 DEF Has, TypeOK, CallShape
  <2>2. x \in Threads => (Kept(x, a)' <=> Kept(x, a))
    BY <1>2, <1>4 DEF Kept, NoCall, None, Answer
  <2>3. x \in Threads => (answer'[x].addr = a <=> answer[x].addr = a /\ x # t)
    BY <1>2 DEF None
  <2> QED BY <1>6, <2>1, <2>2, <2>3 DEF Claim
<1>10. ASSUME NEW a \in Addrs \ unsure' PROVE (ClaimedOnce(a) /\ Backed(a) /\ (a \notin lost => Found(a)))'
  <2>1. ClaimedOnce(a) /\ Backed(a) /\ (a \notin lost => Found(a))
    BY <1>1, <1>4 DEF Ownership
  <2>2. ClaimedOnce(a)' BY <1>9, <2>1 DEF ClaimedOnce
  <2>3. (a \notin lost => Found(a))'
    <3>1. a \notin lost' /\ size[a] > 0 => answer[t].addr # a
      BY <1>1, <1>3, <1>4, <1>5 DEF Linked, CallShape
    <3>2. a \notin lost' /\ size[a] > 0 => ~Claim("told", t, a)
      BY <3>1 DEF Claim
    <3> QED BY <1>5, <1>9, <2>1, <3>2 DEF Found
  <2>4. \A k \in Kinds, x \in Claimants : Claim(k, x, a)' => size'[a] > 0
    BY <1>9, <2>1 DEF Backed
  <2>5. ASSUME NEW u \in Threads
        PROVE  /\ Has(u, a)' => believed'[u][a] <= size'[a]
               /\ answer'[u].addr = a => call'[u].bytes <= size'[a]
               /\ Kept(u, a)' => call'[u].old <= size'[a]
    <3>1. Has(u, a)' => believed'[u][a] <= size'[a]
      <4>1. believed'[u][a] = believed[u][a]
        BY <1>1, <1>3, <1>4 DEF TypeOK, CallShape
      <4> QED BY <2>1, <4>1 DEF Has, Backed
    <3>2. CASE u = t
      <4>1. call'[u] = NoCall /\ answer'[u] = None BY <1>2, <3>2
      <4> QED BY <3>1, <4>1 DEF Kept, None, Answer
    <3>3. CASE u # t
      <4>1. call'[u] = call[u] /\ answer'[u] = answer[u] BY <1>2, <3>3
      <4> QED BY <2>1, <3>1, <4>1 DEF Backed, Kept
    <3> QED BY <3>2, <3>3
  <2>6. ASSUME NEW j \in Ids, inflight'[j].addr = a, inflight'[j].kind = "realloc",
               inflight'[j].for \in Threads
        PROVE  call'[inflight'[j].for].old <= size'[a]
    <3>1. inflight'[j].for = inflight[j].for BY <1>6, <2>6
    <3>2. inflight[j].for # t
      BY <1>1, <2>6, <3>1 DEF Timeout, Linked, Waits, None, TypeOK, Request
    <3> QED BY <1>2, <1>6, <2>1, <2>6, <3>1, <3>2 DEF Backed
  <2> QED BY <2>2, <2>3, <2>4, <2>5, <2>6 DEF Backed
<1> QED BY <1>7, <1>8, <1>10 DEF Inv, Ownership

LEMMA ReceiveInv ==
  ASSUME Inv, NEW t \in Threads, Receive(t)
  PROVE  Inv'
<1>1. TypeOK /\ Linked BY DEF Inv
<1>2. /\ answer[t].given /\ Over(t) /\ UNCHANGED <<size, inflight, lost, unsure>>
      /\ CallShape(call[t]) /\ call[t] \in Call
      /\ answer[t].addr \in Addrs \cup {Null}
  BY <1>1 DEF Receive, Linked, TypeOK
<1>3. CASE answer[t].addr # Null
  <2>1. answer[t].addr \in Addrs /\ Gains(t, answer[t].addr, call[t].bytes)
    BY <1>2, <1>3 DEF Receive
  <2>2. call[t].bytes \in Sizes /\ call[t].bytes > 0
    BY <1>1, <1>2, <1>3 DEF Linked, CallShape, Call
  <2> QED BY <1>2, <2>1, <2>2, GainInv
<1>4. CASE answer[t].addr = Null /\ call[t].fn = "realloc"
  <2>1. call[t].addr \in Addrs /\ Gains(t, call[t].addr, call[t].old)
    BY <1>2, <1>4 DEF Receive, CallShape
  <2>2. call[t].old \in Sizes /\ call[t].old > 0
    BY <1>2, <1>4 DEF CallShape, Call
  <2>3. answer[t] = Answer(Null)
    BY <1>1, <1>2, <1>4 DEF TypeOK, Answer
  <2>4. Kept(t, call[t].addr)
    BY <1>4, <2>3 DEF Kept
  <2> QED BY <1>2, <2>1, <2>2, <2>4, GainInv
<1>5. CASE answer[t].addr = Null /\ call[t].fn # "realloc"
  <2>1. UNCHANGED believed BY <1>5 DEF Receive
  <2> QED BY <1>2, <1>5, <2>1, EndInv
<1> QED BY <1>3, <1>4, <1>5

------------------------------------------------------------------------------
LEMMA NextInv == Inv /\ [Next]_vars => Inv'
<1> SUFFICES ASSUME Inv, [Next]_vars PROVE Inv' OBVIOUS
<1>1. CASE UNCHANGED vars
  BY <1>1 DEF vars, Inv, TypeOK, Linked, Waits, RequestShape, Ownership, ClaimedOnce,
     Backed, Found, Claim, Has, Kept
<1>2. ASSUME NEW t \in Threads, Caller(t) PROVE Inv'
  <2>1. CASE Refused(t) BY <1>1, <2>1 DEF Refused
  <2>2. CASE eclib_malloc(t) BY <2>2, AllocInv DEF eclib_malloc
  <2>3. CASE eclib_calloc(t)
    <3>1. PICK n \in Sizes \ {0}, s \in Sizes \ {0} : ~Overflows(n, s) /\ Alloc(t, n * s, Total(n, s))
      BY <2>3 DEF eclib_calloc
    <3>2. n * s < Word BY <3>1, CallocIsExact
    <3>3. n * s \in Sizes /\ Total(n, s) = n * s
      BY <3>2 DEF Sizes, Total
    <3> QED BY <3>1, <3>3, AllocInv
  <2>4. CASE Receive(t) BY <2>4, ReceiveInv
  <2>5. CASE Timeout(t) BY <2>5, EndInv DEF Timeout
  <2>6. ASSUME NEW a \in Addrs, eclib_free(t, a) \/ FreeFails(t, a) \/ eclib_realloc(t, a)
        PROVE  Inv'
    BY <2>6, FreeInv, FreeFailsInv, ReallocInv
  <2> QED BY <1>2, <2>1, <2>2, <2>3, <2>4, <2>5, <2>6 DEF Caller
<1>3. ASSUME NEW i \in Ids, Manager(i) PROVE Inv'
  BY <1>3, GrantInv, ReleaseInv, MoveInv, DenyInv DEF Manager
<1> QED BY <1>1, <1>2, <1>3 DEF Next

LEMMA Invariance == Spec => []Inv
BY InitInv, NextInv, PTL DEF Spec

(* The state keeps its types; with it, no thread takes more bytes for its  *)
(* own than it asked the manager for, and a product that does not fit a    *)
(* size_t never becomes a request, for calloc's test catches each of them  *)
(* (src/src/men/men.c:116-121).                                            *)
THEOREM TypesHold == Spec => []TypeOK
<1>1. Inv => TypeOK BY DEF Inv
<1> QED BY Invariance, <1>1, PTL

(* Two threads never have the same block, and a block is as large as its   *)
(* owner believes, unless a realloc of its address timed out (men.c:159).  *)
THEOREM BlocksAlwaysApart == Spec => []BlocksApart
<1>1. Inv => BlocksApart
  <2> SUFFICES ASSUME Inv, NEW t \in Threads, NEW a \in Addrs \ unsure, Has(t, a)
               PROVE  /\ believed[t][a] <= size[a]
                      /\ \A u \in Threads \ {t} : ~Has(u, a)
    BY DEF BlocksApart
  <2>1. ClaimedOnce(a) /\ Backed(a) BY DEF Inv, Ownership
  <2> QED BY <2>1 DEF ClaimedOnce, Backed, Claim, Kinds, Claimants
<1> QED BY Invariance, <1>1, PTL

(* A block that is not free has an owner, or is on its way to one or to be *)
(* freed, or a call on it failed or timed out.                             *)
THEOREM AlwaysAccounted == Spec => []Accounted
<1>1. Inv => Accounted
  <2> SUFFICES ASSUME Inv, NEW a \in Addrs \ (lost \cup unsure), size[a] > 0
               PROVE  \/ \E t \in Threads : Has(t, a) \/ answer[t].addr = a \/ Kept(t, a)
                      \/ \E i \in Ids : inflight[i].addr = a
    BY DEF Accounted
  <2>1. Found(a) BY DEF Inv, Ownership
  <2> QED BY <2>1 DEF Found, Claim, Kinds, Claimants
<1> QED BY Invariance, <1>1, PTL
==============================================================================
