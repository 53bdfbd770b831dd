--------------------------------- MODULE Heap ---------------------------------
(***************************************************************************)
(* Who owns which block: the four functions of src/men/men.c, called by    *)
(* the threads of one process, and the memory_manager behind them.         *)
(*                                                                         *)
(* A call looks the service up, sends one request and waits for the answer *)
(* until its timeout; the request of a call that gave up may be carried    *)
(* out much later (ServiceCall).  What a caller does with its pointers is  *)
(* what C allows: it uses them until it frees them, and goes on using the  *)
(* old one when realloc returned NULL.                                     *)
(*                                                                         *)
(* External: memory_manager, which gives out only what is free, checks the *)
(* address it is to free or to move, and moves a block or resizes it in    *)
(* place as it likes.                                                      *)
(***************************************************************************)
EXTENDS Integers

CONSTANTS
  Threads,
  Addrs, \* of blocks
  Null,
  Ids,   \* names for requests; bounds those that wait at the same time
  Nobody, \* the caller of a request that gave up
  Word   \* how many values a size_t has

ASSUME HeapAssumption ==
  /\ Null \notin Addrs
  /\ Nobody \notin Threads
  /\ Word \in Nat \ {0}

VARIABLES
  size,     \* of each block, 0 when it is free, as the manager has it
  believed, \* bytes each thread takes for its own at each address
  call,     \* the call each thread waits for
  inflight, \* requests that were not carried out yet
  answer,   \* the answer that waits for each thread
  lost,     \* blocks whose last owner's call failed or timed out
  unsure    \* addresses given to a realloc that timed out, until nobody has them

callers == <<believed, call, answer>>
vars == <<size, believed, call, inflight, answer, lost, unsure>>

Sizes == 0 .. Word - 1

(* old: what the caller took for its own at addr before a realloc.         *)
Call    == [fn : {"none", "malloc", "free", "realloc"}, addr : Addrs \cup {Null},
            bytes : Sizes, old : Sizes]
Request == [kind : {"none", "malloc", "free", "realloc"}, addr : Addrs \cup {Null},
            bytes : Sizes, for : Threads \cup {Nobody}]

NoCall    == [fn |-> "none", addr |-> Null, bytes |-> 0, old |-> 0]
NoRequest == [kind |-> "none", addr |-> Null, bytes |-> 0, for |-> Nobody]
None      == [given |-> FALSE, addr |-> Null]
Answer(a) == [given |-> TRUE, addr |-> a]

TypeOK ==
  /\ size \in [Addrs -> Sizes]
  /\ believed \in [Threads -> [Addrs -> Sizes]]
  /\ call \in [Threads -> Call]
  /\ inflight \in [Ids -> Request]
  /\ answer \in [Threads -> [given : BOOLEAN, addr : Addrs \cup {Null}]]
  /\ lost \subseteq Addrs
  /\ unsure \subseteq Addrs

Init ==
  /\ size = [a \in Addrs |-> 0]
  /\ believed = [t \in Threads |-> [a \in Addrs |-> 0]]
  /\ call = [t \in Threads |-> NoCall]
  /\ inflight = [i \in Ids |-> NoRequest]
  /\ answer = [t \in Threads |-> None]
  /\ lost = {}
  /\ unsure = {}

------------------------------------------------------------------------------
(* Callers. *)

Has(t, a) == believed[t][a] > 0

Begin(t, c, bytes) ==
  /\ call[t] = NoCall
  /\ call' = [call EXCEPT ![t] = c]
  /\ \E i \in Ids :
       /\ inflight[i] = NoRequest
       /\ inflight' = [inflight EXCEPT ![i] =
                         [kind |-> c.fn, addr |-> c.addr, bytes |-> bytes, for |-> t]]
  /\ UNCHANGED <<size, answer, lost, unsure>>

(* A call that returns before it asks the manager, with the caller's       *)
(* pointers as they were: a size of zero, free(NULL), or no service.       *)
Refused(t) == call[t] = NoCall /\ UNCHANGED vars

(* The caller will use want bytes; the request asks for bytes of them.     *)
Alloc(t, want, bytes) ==
  /\ bytes # 0
  /\ Begin(t, [fn |-> "malloc", addr |-> Null, bytes |-> want, old |-> 0], bytes)
  /\ UNCHANGED believed

(* Also realloc of a null pointer. *)
eclib_malloc(t) == \E n \in Sizes : Alloc(t, n, n)

Total(n, s) == (n * s) % Word

Overflows_Never(n, s) == FALSE

Overflows(n, s) == Total(n, s) \div s # n

eclib_calloc(t) ==
  \E n, s \in Sizes \ {0} : ~Overflows(n, s) /\ Alloc(t, n * s, Total(n, s))

GiveUp(t, a) ==
  /\ Has(t, a)
  /\ believed' = [believed EXCEPT ![t][a] = 0]

eclib_free(t, a) ==
  /\ GiveUp(t, a)
  /\ Begin(t, [fn |-> "free", addr |-> a, bytes |-> 0, old |-> 0], 0)

(* No service to send it to: the caller's pointer is gone all the same.    *)
FreeFails(t, a) ==
  /\ call[t] = NoCall
  /\ GiveUp(t, a)
  /\ lost' = lost \cup {a}
  /\ UNCHANGED <<size, call, inflight, answer, unsure>>

ReallocZero_Forgets(t, a) ==
  GiveUp(t, a) /\ UNCHANGED <<size, call, inflight, answer, lost, unsure>>

ReallocZero(t, a) == eclib_free(t, a)

eclib_realloc(t, a) ==
  \/ ReallocZero(t, a)
  \/ /\ GiveUp(t, a)
     /\ \E n \in Sizes \ {0} :
          Begin(t, [fn |-> "realloc", addr |-> a, bytes |-> n,
                    old |-> believed[t][a]], n)

------------------------------------------------------------------------------
(* The manager.  An answer for nobody is dropped. *)

Claimed(a) ==
  \/ \E t \in Threads : Has(t, a) \/ answer[t].addr = a \/ call[t].addr = a
  \/ \E i \in Ids : inflight[i].addr = a

Answered(i, a) ==
  /\ inflight' = [inflight EXCEPT ![i] = NoRequest]
  /\ answer' = IF inflight[i].for = Nobody THEN answer
               ELSE [answer EXCEPT ![inflight[i].for] = Answer(a)]
  /\ UNCHANGED <<believed, call>>

(* What becomes of the ghosts when the manager gives block b out.          *)
GivenOut(i, b) ==
  /\ lost' = IF inflight[i].for = Nobody THEN lost \cup {b} ELSE lost \ {b}
  /\ unsure' = IF Claimed(b) THEN unsure ELSE unsure \ {b}

Grant(i) ==
  /\ inflight[i].kind = "malloc"
  /\ \E b \in Addrs :
       /\ size[b] = 0
       /\ size' = [size EXCEPT ![b] = inflight[i].bytes]
       /\ GivenOut(i, b)
       /\ Answered(i, b)

Release(i) ==
  /\ inflight[i].kind = "free"
  /\ size' = [size EXCEPT ![inflight[i].addr] = 0]
  /\ lost' = lost \ {inflight[i].addr}
  /\ UNCHANGED unsure
  /\ Answered(i, Null)

Move(i) ==
  LET a == inflight[i].addr IN
  /\ inflight[i].kind = "realloc"
  /\ size[a] # 0
  /\ \E b \in Addrs :
       /\ b = a \/ size[b] = 0
       /\ size' = [size EXCEPT ![a] = 0, ![b] = inflight[i].bytes]
       /\ GivenOut(i, b)
       /\ Answered(i, b)

(* No memory, or no such block. *)
Deny(i) ==
  /\ inflight[i].kind \in {"malloc", "realloc"}
  /\ Answered(i, Null)
  /\ UNCHANGED <<size, lost, unsure>>

------------------------------------------------------------------------------
(* The return of a call. *)

Over(t) ==
  /\ call' = [call EXCEPT ![t] = NoCall]
  /\ answer' = [answer EXCEPT ![t] = None]

Gains(t, a, bytes) == believed' = [believed EXCEPT ![t][a] = bytes]

Receive(t) ==
  LET c == call[t]
      a == answer[t].addr
  IN  /\ answer[t].given
      /\ \/ a # Null /\ Gains(t, a, c.bytes)
         \/ a = Null /\ c.fn = "realloc" /\ Gains(t, c.addr, c.old)
         \/ a = Null /\ c.fn # "realloc" /\ UNCHANGED believed
      /\ Over(t)
      /\ UNCHANGED <<size, inflight, lost, unsure>>

(* The answer did not come in time: its request is not carried out yet, or *)
(* the answer comes too late.                                              *)
Timeout(t) ==
  LET c == call[t]
      a == answer[t].addr
  IN  /\ c # NoCall
      /\ IF c.fn = "realloc"
           THEN Gains(t, c.addr, c.old) /\ unsure' = unsure \cup {c.addr}
           ELSE UNCHANGED <<believed, unsure>>
      /\ lost' = lost \cup ({a} \ {Null, c.addr})
      /\ inflight' = [i \in Ids |-> IF inflight[i].for = t
                                      THEN [inflight[i] EXCEPT !.for = Nobody]
                                      ELSE inflight[i]]
      /\ Over(t)
      /\ UNCHANGED size

Caller(t) ==
  \/ Refused(t) \/ eclib_malloc(t) \/ eclib_calloc(t)
  \/ \E a \in Addrs : eclib_free(t, a) \/ FreeFails(t, a) \/ eclib_realloc(t, a)
  \/ Receive(t) \/ Timeout(t)

Manager(i) == Grant(i) \/ Release(i) \/ Move(i) \/ Deny(i)

Next == (\E t \in Threads : Caller(t)) \/ (\E i \in Ids : Manager(i))

Spec == Init /\ [][Next]_vars

------------------------------------------------------------------------------
(* The manager refused to move or resize the block. *)
Kept(t, a) == call[t].fn = "realloc" /\ call[t].addr = a /\ answer[t] = Answer(Null)

(* What a thread takes for its own is its own: no other thread takes the   *)
(* same block for its own, and the block is as large as the thread thinks, *)
(* also after calloc (src/src/men/men.c:110-128).  Late requests do no     *)
(* harm to it but for one: a realloc that timed out returns NULL although  *)
(* the block may have moved, or may yet move, from under the old pointer   *)
(* (src/src/men/men.c:159).                                                *)
BlocksApart ==
  \A t \in Threads : \A a \in Addrs \ unsure :
    Has(t, a) => /\ believed[t][a] <= size[a]
                 /\ \A u \in Threads \ {t} : ~Has(u, a)

(* No block leaks in silence: one that is not free has an owner, is on its *)
(* way to one or to be freed, or its last owner's call failed or timed out *)
(* (src/src/men/men.c:70-84, 98-107, 131-134, 159-168).                    *)
Accounted ==
  \A a \in Addrs \ (lost \cup unsure) :
    size[a] > 0 =>
      \/ \E t \in Threads : Has(t, a) \/ answer[t].addr = a \/ Kept(t, a)
      \/ \E i \in Ids : inflight[i].addr = a
==============================================================================
