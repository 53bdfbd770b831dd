----------------------------- MODULE Environment -----------------------------
(***************************************************************************)
(* The environment of one process, src/env/env.c: an array of pointers to  *)
(* "name=value" strings, ended by a NULL, with the array and each string   *)
(* in a block of their own from eclib_malloc.                              *)
(*                                                                         *)
(* Any eclib_malloc may fail, and any eclib_free may go unheard, for both  *)
(* are calls of another process (ServiceCall).  Whoever may be reading the *)
(* environment at the same time is left out: no function takes a lock, and *)
(* callers are taken to call one at a time.                                *)
(***************************************************************************)
EXTENDS Integers

CONSTANTS
  Names,  \* names without "="
  Values,
  Parts,  \* what callers write after a "=" in a name
  NoPart, \* no "=" in the name
  Starts, \* <<part, value>>: the value continues the part with a "="
  Blocks, \* addresses eclib_malloc may return
  Null

Entry == [name : Names, value : Values, at : Blocks]

ASSUME EnvironmentAssumption ==
  /\ Null \notin Names \cup Values \cup Blocks \cup Entry
  /\ NoPart \notin Parts
  /\ Starts \subseteq Parts \X Values

VARIABLES
  environ, \* what the slots of the array *eclib_environ hold
  size,    \* how many slots were allocated
  array,   \* the block of the array: eclib_environ
  heap,    \* the blocks the memory manager has given out to the process
  lost,    \* those of them whose eclib_malloc or eclib_free got no answer
  last     \* the last call and its result

memory == <<heap, lost>>
vars   == <<environ, size, array, heap, lost, last>>

Slots == 0 .. size - 1

(* The slots in front of the first NULL: what every loop runs over.        *)
Live == {i \in Slots : \A k \in 0 .. i : environ[k] # Null}

Count == CHOOSE n \in 0 .. size : Live = 0 .. n - 1

TypeOK ==
  /\ size \in Nat
  /\ environ \in [Slots -> Entry \cup {Null}]
  /\ array \in Blocks \cup {Null}
  /\ heap \subseteq Blocks
  /\ lost \subseteq Blocks
  /\ array = Null => size = 0

Call(op, n, p, v, o, ret) ==
  [op |-> op, name |-> n, part |-> p, value |-> v, overwrite |-> o, ret |-> ret]

(* A setenv refused for its arguments, which are not told apart then.      *)
Refused == Call("setenv", Null, NoPart, Null, FALSE, -1)

Init ==
  /\ size = 0
  /\ environ = [i \in Slots |-> Null]
  /\ array = Null
  /\ heap = {}
  /\ lost = {}
  /\ last = Call("none", Null, NoPart, Null, FALSE, 0)

------------------------------------------------------------------------------
(* strncmp up to the length of the name, then a "=". *)
Hits(e, n, p) == e.name = n /\ (p = NoPart \/ <<p, e.value>> \in Starts)

IsFirst(i, n, p) ==
  /\ i \in Live
  /\ Hits(environ[i], n, p)
  /\ \A k \in 0 .. i - 1 : ~Hits(environ[k], n, p)

IsLast(i, n, p) ==
  /\ i \in Live
  /\ Hits(environ[i], n, p)
  /\ \A k \in Live : k > i => ~Hits(environ[k], n, p)

IsSet_FirstOnly(n, p) == 0 \in Live /\ Hits(environ[0], n, p)

IsSet(n, p) == \E i \in Live : Hits(environ[i], n, p)

eclib_getenv(n, p) ==
  IF IsSet(n, p) THEN environ[CHOOSE i \in Live : IsFirst(i, n, p)].value ELSE Null

------------------------------------------------------------------------------
Granted_Unchecked(h) == (Blocks \ h) \cup {Null}

(* What eclib_malloc returns when it succeeds. *)
Granted(h) == Blocks \ h

(* What a failing eclib_malloc takes with it: when the answer was lost the *)
(* block is allocated and nobody knows it.                                 *)
Missed(h) == {{}} \cup {{b} : b \in Blocks \ h}

(* The blocks a call took, those it freed, and the ones of either kind     *)
(* that the process lost sight of.                                         *)
Settle(taken, freed, missed) ==
  /\ heap' = (heap \cup taken) \ (freed \ missed)
  /\ lost' = lost \cup missed

Same == UNCHANGED <<environ, size, array>>

(* An early return, before anything was allocated. *)
Refuse == Same /\ UNCHANGED memory

Undo_Nothing(b) == {}

(* What is freed again when the new array cannot be allocated. *)
Undo(b) == {b}

NewSize_NoEnd == Count + 1

NewSize == Count + 2

Grown(e) ==
  [i \in 0 .. NewSize - 1 |-> IF i < Count THEN environ[i] ELSE IF i = Count THEN e ELSE Null]

Usable(n, p, v) == n # Null /\ v # Null /\ p = NoPart

(* eclib_malloc fails for the string. *)
NoString ==
  /\ \E m \in Missed(heap) : Settle(m, {}, m)
  /\ Same

(* The last entry of the name gives way to a new string. *)
Replace(n, v) ==
  /\ \E i \in Live, b \in Granted(heap) :
       /\ IsLast(i, n, NoPart)
       /\ \E m \in SUBSET {environ[i].at} : Settle({b}, {environ[i].at}, m)
       /\ environ' = [environ EXCEPT ![i] = [name |-> n, value |-> v, at |-> b]]
  /\ UNCHANGED <<size, array>>

(* eclib_malloc fails for the array, when there is a string already. *)
NoArray ==
  /\ \E b \in Granted(heap) : \E k \in SUBSET Undo(b), m \in Missed(heap \cup {b}) :
       Settle({b} \cup m, Undo(b), k \cup m)
  /\ Same

(* The entries and the new one move to a larger array; eclib_free(NULL)    *)
(* frees nothing.                                                          *)
Extend(n, v) ==
  /\ \E b \in Granted(heap) : \E c \in Granted(heap \cup {b}) :
       /\ \E m \in SUBSET ({array} \ {Null}) : Settle({b, c}, {array} \ {Null}, m)
       /\ environ' = Grown([name |-> n, value |-> v, at |-> b])
       /\ array' = c
  /\ size' = NewSize

eclib_setenv(n, p, v, o) ==
  \E ret \in {0, -1} :
    /\ last' = IF Usable(n, p, v) THEN Call("setenv", n, p, v, o, ret) ELSE Refused
    /\ \/ ~Usable(n, p, v) /\ ret = -1 /\ Refuse
       \/ Usable(n, p, v) /\ IsSet(n, p) /\ ~o /\ ret = 0 /\ Refuse
       \/ Usable(n, p, v) /\ (IsSet(n, p) => o) /\ ret = -1 /\ NoString
       \/ Usable(n, p, v) /\ o /\ ret = 0 /\ Replace(n, v)
       \/ Usable(n, p, v) /\ ~IsSet(n, p) /\ ret = -1 /\ NoArray
       \/ Usable(n, p, v) /\ ~IsSet(n, p) /\ ret = 0 /\ Extend(n, v)

Shifted_StopsEarly(i) ==
  [j \in Slots |-> IF i <= j /\ j < Count - 2 THEN environ[j + 1] ELSE environ[j]]

Shifted(i) ==
  [j \in Slots |-> IF i <= j /\ j < Count THEN environ[j + 1] ELSE environ[j]]

Remove(n, p) ==
  /\ \E i \in Live :
       /\ IsFirst(i, n, p)
       /\ \E m \in SUBSET {environ[i].at} : Settle({}, {environ[i].at}, m)
       /\ environ' = Shifted(i)
  /\ UNCHANGED <<size, array>>

eclib_unsetenv(n, p) ==
  \E ret \in {0, -1} :
    /\ last' = Call("unsetenv", n, p, Null, FALSE, ret)
    /\ \/ (n = Null \/ array = Null) /\ ret = -1 /\ Refuse
       \/ n # Null /\ array # Null /\ ~IsSet(n, p) /\ ret = 0 /\ Refuse
       \/ n # Null /\ array # Null /\ ret = 0 /\ Remove(n, p)

Next ==
  \E n \in Names \cup {Null}, p \in Parts \cup {NoPart} :
    \/ \E v \in Values \cup {Null}, o \in BOOLEAN : eclib_setenv(n, p, v, o)
    \/ eclib_unsetenv(n, p)

Spec == Init /\ [][Next]_vars

------------------------------------------------------------------------------
(* The array ends with a NULL inside its block, so that no loop of env.c   *)
(* runs past it, after any number of insertions and removals               *)
(* (src/src/env/env.c:57-67, 87-89).                                       *)
Terminated ==
  array # Null =>
    \E n \in Slots : environ[n] = Null /\ \A i \in 0 .. n - 1 : environ[i] # Null

(* No name is in the array twice.  setenv replaces the last match and      *)
(* getenv answers with the first (src/src/env/env.c:19, 41).               *)
NamesOnce == \A i, j \in Live : environ[i].name = environ[j].name => i = j

(* The blocks the process can reach through eclib_environ. *)
Held == ({array} \ {Null}) \cup {environ[i].at : i \in Live}

(* Every block the environment points to is allocated, no two pointers     *)
(* share one (so none is freed twice), and no other block stays allocated, *)
(* on any path through failing allocations, except for those whose         *)
(* eclib_malloc or eclib_free was not answered.                            *)
Owned ==
  /\ heap = Held \cup lost
  /\ Held \cap lost = {}
  /\ \A i, j \in Live : environ[i].at = environ[j].at => i = j
  /\ \A i \in Live : environ[i].at # array

Map == INSTANCE EnvMap WITH env <- [n \in Names |-> eclib_getenv(n, NoPart)]

(* What eclib_getenv answers changes as the abstract map does: by the one  *)
(* variable a successful call names, and never by a call that failed.      *)
ImplementsEnvMap == Map!Spec
==============================================================================
