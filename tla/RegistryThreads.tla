--------------------------- MODULE RegistryThreads ---------------------------
(***************************************************************************)
(* src/service.c once more, now with the threads of one process inside its *)
(* functions at the same time.  g_registry is a plain static variable and  *)
(* no function takes a lock, so what one thread reads and writes others    *)
(* may change in between: an increment is a load and a store, and the slot *)
(* is taken, the id read, next_id written and the slot's id written in     *)
(* four steps.  One step are: a round of a loop (the test against count    *)
(* and the look at one slot), a struct assignment, and the fields of a new *)
(* slot behind its id, which nobody reads before count covers the slot.    *)
(*                                                                         *)
(* With one thread this is the promised Directory, step by step.           *)
(***************************************************************************)
EXTENDS Integers, FiniteSets

CONSTANTS
  Threads,
  Names,       \* the usable names
  NoName,      \* the empty one, which a slot nobody wrote to holds
  MaxServices, \* length of services[]
  MaxId,       \* bound: no service_register starts once next_id reaches it
  MaxNow       \* bound: the last value of the clock

ASSUME ThreadsAssumption ==
  /\ IsFiniteSet(Threads)
  /\ NoName \in Names
  /\ MaxServices \in Nat \ {0}
  /\ MaxId \in Nat \ {0}
  /\ MaxNow \in Nat

VARIABLES
  services, count, next_id, \* g_registry
  now,   \* time(NULL)
  view,  \* what a listener makes of the announcements, read in the order sent
  pc,    \* where each thread is
  local  \* its arguments and local variables

globals == <<services, count, next_id>>
vars    == <<services, count, next_id, now, view, pc, local>>

(* The array, and the memory a racing writer reaches behind its end. *)
Slots == 0 .. MaxServices + Cardinality(Threads)
Live  == 0 .. count - 1
Times == 0 .. MaxNow
Ids   == 0 .. MaxId + Cardinality(Threads)

Steps == {"idle", "scan", "slot", "next", "id", "svc", "fill", "count",
          "announce", "find", "goodbye", "shift", "uncount", "look", "stamp", "store"}

Locals == [name : Names, id : Ids, i : Slots, slot : Slots,
           tmp : -1 .. MaxId + MaxServices + Cardinality(Threads), next : Steps]

TypeOK ==
  /\ services \in [Slots -> [id : Ids, name : Names, last_heartbeat : Times]]
  /\ count \in -Cardinality(Threads) .. MaxServices + Cardinality(Threads) - 1
  /\ next_id \in Ids
  /\ now \in Times
  /\ view \subseteq [id : Ids, name : Names]
  /\ pc \in [Threads -> Steps]
  /\ local \in [Threads -> Locals]

Init ==
  /\ services = [i \in Slots |-> [id |-> 0, name |-> NoName, last_heartbeat |-> 0]]
  /\ count = 0
  /\ next_id = 0
  /\ now = 0
  /\ view = {}
  /\ pc = [t \in Threads |-> "idle"]
  /\ local = [t \in Threads |-> [name |-> NoName, id |-> 0, i |-> 0, slot |-> 0,
                                 tmp |-> 0, next |-> "idle"]]

------------------------------------------------------------------------------
At(t, here)  == pc[t] = here
Goto(t, lbl) == pc' = [pc EXCEPT ![t] = lbl]

(* Moves on, touching neither g_registry nor the local variables. *)
Jump(t, lbl) == Goto(t, lbl) /\ UNCHANGED <<globals, view, local>>

Advance(t) ==
  /\ local' = [local EXCEPT ![t].i = @ + 1]
  /\ UNCHANGED <<globals, view, pc>>

TooMany_Unchecked == FALSE

TooMany == count >= MaxServices

(* service_register *)
Register(t, name) ==
  /\ At(t, "idle")
  /\ ~TooMany
  /\ next_id < MaxId
  /\ local' = [local EXCEPT ![t] = [@ EXCEPT !.name = name, !.i = 0]]
  /\ Goto(t, "scan")
  /\ UNCHANGED <<globals, view>>

Scan(t) ==
  LET l == local[t] IN
  /\ At(t, "scan")
  /\ \/ l.i < count /\ services[l.i].name = l.name /\ Jump(t, "idle")
     \/ l.i < count /\ services[l.i].name # l.name /\ Advance(t)
     \/ l.i >= count /\ Jump(t, "slot")

(* svc = &services[count] *)
TakeSlot(t) ==
  /\ At(t, "slot")
  /\ local' = [local EXCEPT ![t].slot = count]
  /\ Goto(t, "next")
  /\ UNCHANGED <<globals, view>>

(* svc->id = next_id++: the load, the store of next_id, that of svc->id. *)
LoadId(t) ==
  /\ At(t, "next")
  /\ local' = [local EXCEPT ![t].tmp = next_id]
  /\ Goto(t, "id")
  /\ UNCHANGED <<globals, view>>

TakeId(t) ==
  /\ At(t, "id")
  /\ next_id' = local[t].tmp + 1
  /\ Goto(t, "svc")
  /\ UNCHANGED <<services, count, view, local>>

GiveId(t) ==
  LET l == local[t] IN
  /\ At(t, "svc")
  /\ services' = [services EXCEPT ![l.slot].id = l.tmp]
  /\ Goto(t, "fill")
  /\ UNCHANGED <<count, next_id, view, local>>

Fill(t) ==
  LET l == local[t] IN
  /\ At(t, "fill")
  /\ services' = [services EXCEPT ![l.slot].name = l.name, ![l.slot].last_heartbeat = now]
  /\ Goto(t, "count")
  /\ UNCHANGED <<count, next_id, view, local>>

(* The load of count++ or count--; Store is its store. *)
Load(t, here, delta, after) ==
  /\ At(t, here)
  /\ local' = [local EXCEPT ![t] = [@ EXCEPT !.tmp = count + delta, !.next = after]]
  /\ Goto(t, "store")
  /\ UNCHANGED <<globals, view>>

Store(t) ==
  /\ At(t, "store")
  /\ count' = local[t].tmp
  /\ Goto(t, local[t].next)
  /\ UNCHANGED <<services, next_id, view, local>>

Announced_NextId(t) == next_id

Announced(t) == services[local[t].slot].id

AnnounceNew(t) ==
  /\ At(t, "announce")
  /\ view' = view \cup {[id |-> Announced(t), name |-> local[t].name]}
  /\ Goto(t, "idle")
  /\ UNCHANGED <<globals, local>>

(* service_unregister and service_heartbeat start with the same search. *)
Search(t, id, lbl) ==
  /\ At(t, "idle")
  /\ local' = [local EXCEPT ![t] = [@ EXCEPT !.id = id, !.i = 0]]
  /\ Goto(t, lbl)
  /\ UNCHANGED <<globals, view>>

Matches_AtLeast(i, id) == services[i].id >= id

Matches(i, id) == services[i].id = id

Find(t, here, found) ==
  LET l == local[t] IN
  /\ At(t, here)
  /\ \/ l.i < count /\ Matches(l.i, l.id) /\ Jump(t, found)
     \/ l.i < count /\ ~Matches(l.i, l.id) /\ Advance(t)
     \/ l.i >= count /\ Jump(t, "idle")

AnnounceGone(t) ==
  /\ At(t, "goodbye")
  /\ view' = {v \in view : v.id # local[t].id}
  /\ Goto(t, "shift")
  /\ UNCHANGED <<globals, local>>

ShiftEnd_OneEarly == count - 2

ShiftEnd == count - 1

Shift(t) ==
  LET j == local[t].i IN
  /\ At(t, "shift")
  /\ \/ /\ j < ShiftEnd
        /\ services' = [services EXCEPT ![j] = services[j + 1]]
        /\ local' = [local EXCEPT ![t].i = j + 1]
        /\ UNCHANGED <<count, next_id, view, pc>>
     \/ /\ j >= ShiftEnd
        /\ Jump(t, "uncount")

Stamp(t) ==
  /\ At(t, "stamp")
  /\ services' = [services EXCEPT ![local[t].i].last_heartbeat = now]
  /\ Goto(t, "idle")
  /\ UNCHANGED <<count, next_id, view, local>>

Step(t) ==
  \/ \E name \in Names : Register(t, name)
  \/ \E id \in 0 .. MaxId - 1 : Search(t, id, "find")
  \/ \E id \in 0 .. MaxId - 1 : Search(t, id, "look")
  \/ Scan(t)
  \/ TakeSlot(t)
  \/ LoadId(t)
  \/ TakeId(t)
  \/ GiveId(t)
  \/ Fill(t)
  \/ Load(t, "count", 1, "announce")
  \/ Store(t)
  \/ AnnounceNew(t)
  \/ Find(t, "find", "goodbye")
  \/ AnnounceGone(t)
  \/ Shift(t)
  \/ Load(t, "uncount", -1, "idle")
  \/ Find(t, "look", "stamp")
  \/ Stamp(t)

Tick ==
  /\ now < MaxNow
  /\ now' = now + 1
  /\ UNCHANGED <<globals, view, pc, local>>

Next == (\E t \in Threads : Step(t) /\ UNCHANGED now) \/ Tick

Spec == Init /\ [][Next]_vars

------------------------------------------------------------------------------
AllIdle == \A t \in Threads : At(t, "idle")

(* Between calls a listener that has read everything knows the table, even *)
(* though service_register announces after the insertion and               *)
(* service_unregister before the removal (src/src/service.c:45, 56).       *)
ListenerAgrees ==
  AllIdle => view = {[id |-> services[i].id, name |-> services[i].name] : i \in Live}

(* Between calls no two services carry the same name. *)
NamesUniqueBetweenCalls ==
  AllIdle => \A i, j \in Live : services[i].name = services[j].name => i = j

(* An id that was taken from next_id and is not in the table yet. *)
Reserved == {local[t].tmp : t \in {u \in Threads : pc[u] \in {"svc", "fill", "count"}}}
            \cup {services[local[t].slot].id :
                    t \in {u \in Threads : At(u, "store") /\ local[u].next = "announce"}}

Dir == INSTANCE Directory WITH
         Ids     <- 0 .. MaxId - 1,
         entries <- {services[i] : i \in Live},
         used    <- (0 .. next_id - 1) \ Reserved

(* With one thread the calls, cut into their single reads and writes, move *)
(* the table as the Directory allows: the half-shifted array of a removal  *)
(* and the half-filled slot of an insertion are never seen as services.    *)
ImplementsDirectory == Dir!Spec

(* What the steps of a call may do to the table: a shift, or the store of  *)
(* count that ends a removal, takes out the service with the id that was   *)
(* passed, and at that store it is out; the stamp goes to the id that was  *)
(* passed; a service enters under the name that was.                       *)
AsAsked ==
  \A t \in Threads :
    LET l == local[t] IN
    /\ Stamp(t) => Dir!Heartbeat(l.id, now)
    /\ Shift(t) => Dir!Unregister(l.id) \/ UNCHANGED Dir!vars
    /\ Store(t) /\ l.next = "idle" =>
         /\ Dir!Unregister(l.id) \/ UNCHANGED Dir!vars
         /\ \A i \in Live' : services'[i].id # l.id
    /\ Store(t) /\ l.next = "announce" =>
         \E s \in Times : Dir!Register(services[l.slot].id, l.name, s)

(* With one thread each call does that to the service it was asked about,  *)
(* and to no other (src/src/service.c:15-77).                              *)
DoesAsAsked == [][AsAsked]_vars
==============================================================================
