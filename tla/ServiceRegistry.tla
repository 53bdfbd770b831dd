--------------------------- MODULE ServiceRegistry ---------------------------
(***************************************************************************)
(* The service table of one process, src/service.c, as its single-threaded *)
(* callers see it: each exported function is one action.  Beside the table *)
(* stands what other processes learn of it, which is only what the         *)
(* broadcasts of service_register and service_unregister tell them.        *)
(*                                                                         *)
(* The code's array and counters are kept as they are: slots from count on *)
(* hold what was left there, removal shifts the tail down by one.          *)
(***************************************************************************)
EXTENDS Integers, Sequences

CONSTANTS
  Names,       \* the names callers pass
  Unusable,    \* those of them that are NULL or have 64 characters or more
  NoName,      \* the empty name: a caller may pass it, and a slot that was
               \* never written holds it
  MaxServices, \* length of services[] (256 in the code)
  MaxId,       \* bound: service_register is not called once next_id reaches it
  MaxNow,      \* bound: the last value of the clock
  MaxWire      \* bound: announcements in flight to the listener

ASSUME RegistryAssumption ==
  /\ Unusable \subseteq Names
  /\ NoName \in Names \ Unusable
  /\ MaxServices \in Nat \ {0}
  /\ MaxId \in Nat \ {0}
  /\ MaxNow \in Nat
  /\ MaxWire \in Nat

VARIABLES
  services, \* g_registry.services
  count,    \* g_registry.count
  next_id,  \* g_registry.next_id
  now,      \* time(NULL)
  wire,     \* announcements on their way to a listening process
  view,     \* the services the listening process believes in
  lost      \* the ids with an announcement that was never delivered

table == <<services, count, next_id>>
news  == <<wire, view, lost>>
vars  == <<services, count, next_id, now, wire, view, lost>>

Slots == 0 .. MaxServices - 1
Live  == 0 .. count - 1
Ids   == 0 .. MaxId - 1
Times == 0 .. MaxNow
Good  == Names \ Unusable

Entry == [id : Ids, name : Good, last_heartbeat : Times]
News  == [kind : {"register"}, id : Ids, name : Good]
         \cup [kind : {"unregister"}, id : Ids, name : {NoName}]

TypeOK ==
  /\ services \in [Slots -> Entry]
  /\ count \in 0 .. MaxServices
  /\ next_id \in 0 .. MaxId
  /\ now \in Times
  /\ wire \in Seq(News)
  /\ view \subseteq [id : Ids, name : Good]
  /\ lost \subseteq Ids

(* g_registry = {0} *)
Init ==
  /\ services = [i \in Slots |->
                   [id |-> 0, name |-> NoName, last_heartbeat |-> 0]]
  /\ count = 0
  /\ next_id = 0
  /\ now = 0
  /\ wire = <<>>
  /\ view = {}
  /\ lost = {}

------------------------------------------------------------------------------
(* The return value of ipc_broadcast_msg is ignored by both callers, so an *)
(* announcement the kernel does not take is lost without a trace.          *)
Announce(kind, id, name) ==
  \/ /\ Len(wire) < MaxWire
     /\ wire' = Append(wire, [kind |-> kind, id |-> id, name |-> name])
     /\ UNCHANGED <<view, lost>>
  \/ /\ lost' = lost \cup {id}
     /\ UNCHANGED <<wire, view>>

(* An early return: nothing is written and nothing is announced.           *)
Refuse(code) == UNCHANGED vars

IsRegistered_SkipsLast(name) == \E i \in 0 .. count - 2 : services[i].name = name

IsRegistered(name) == \E i \in Live : services[i].name = name

IsFull_OneLate == count > MaxServices

IsFull == count >= MaxServices

TakeId_FromCount == count

TakeId == next_id

service_register(name) ==
  \/ /\ name \in Unusable
     /\ Refuse(-1)
  \/ /\ name \in Good
     /\ IsFull
     /\ Refuse(-2)
  \/ /\ name \in Good
     /\ ~IsFull
     /\ IsRegistered(name)
     /\ Refuse(-3)
  \/ /\ name \in Good
     /\ ~IsFull
     /\ ~IsRegistered(name)
     /\ next_id < MaxId
     /\ services' = [services EXCEPT ![count] =
                       [id |-> TakeId, name |-> name, last_heartbeat |-> now]]
     /\ next_id' = next_id + 1
     /\ count' = count + 1
     /\ Announce("register", TakeId, name)
     /\ UNCHANGED now

IsFirst_AtLeast(i, id) ==
  /\ i \in Live
  /\ services[i].id >= id
  /\ \A k \in 0 .. i - 1 : services[k].id < id

(* The first slot that holds the id, as both lookup loops find it. *)
IsFirst(i, id) ==
  /\ i \in Live
  /\ services[i].id = id
  /\ \A k \in 0 .. i - 1 : services[k].id # id

ShiftDown_StopsEarly(i) ==
  [j \in Slots |-> IF i <= j /\ j < count - 2 THEN services[j + 1] ELSE services[j]]

ShiftDown(i) ==
  [j \in Slots |-> IF i <= j /\ j < count - 1 THEN services[j + 1] ELSE services[j]]

Departing_AfterShift(i) == ShiftDown(i)[i].id

Departing(i) == services[i].id

service_unregister(id) ==
  \/ /\ \A i \in Live : services[i].id # id
     /\ Refuse(-1)
  \/ \E i \in Live :
       /\ IsFirst(i, id)
       /\ Announce("unregister", Departing(i), NoName)
       /\ services' = ShiftDown(i)
       /\ count' = count - 1
       /\ UNCHANGED <<next_id, now>>

service_heartbeat(id) ==
  \/ /\ \A i \in Live : services[i].id # id
     /\ Refuse(-1)
  \/ \E i \in Live :
       /\ IsFirst(i, id)
       /\ services' = [services EXCEPT ![i].last_heartbeat = now]
       /\ UNCHANGED <<count, next_id, now, news>>

(* External: the clock of the machine, which is taken not to be set back.  *)
Tick ==
  /\ now < MaxNow
  /\ now' = now + 1
  /\ UNCHANGED <<table, news>>

(* External: another process folds the announcements, in the order sent.   *)
Apply(known, n) ==
  IF n.kind = "register"
    THEN known \cup {[id |-> n.id, name |-> n.name]}
    ELSE {k \in known : k.id # n.id}

Listen ==
  /\ wire # <<>>
  /\ view' = Apply(view, Head(wire))
  /\ wire' = Tail(wire)
  /\ UNCHANGED <<table, now, lost>>

Next ==
  \/ \E name \in Names : service_register(name)
  \/ \E id \in Ids : service_unregister(id)
  \/ \E id \in Ids : service_heartbeat(id)
  \/ Tick
  \/ Listen

Spec == Init /\ [][Next]_vars

------------------------------------------------------------------------------
(* Ids ascend along the table and stay below next_id, through every shift  *)
(* of service_unregister: so the linear searches by id are unambiguous and *)
(* an id whose service left never names a later one.                       *)
IdsAscend ==
  /\ \A i, j \in Live : i < j => services[i].id < services[j].id
  /\ \A i \in Live : services[i].id < next_id

(* No two slots in use carry the same name, the empty one included, which  *)
(* service_register accepts and which unused slots hold as well (the       *)
(* duplicate check of src/src/service.c:16-29, under removals).            *)
NamesUnique ==
  \A i, j \in Live : services[i].name = services[j].name => i = j

(* A listener that believes v, after each of the announcements in w.       *)
Reading(v, w) ==
  LET known[n \in 0 .. Len(w)] == IF n = 0 THEN v ELSE Apply(known[n - 1], w[n])
  IN  known

Believed == Reading(view, wire)[Len(wire)]
Actual   == {[id |-> services[i].id, name |-> services[i].name] : i \in Live}

(* What a listener will believe once it has read every announcement that is *)
(* on its way is the table itself, save for the services one of whose       *)
(* announcements was lost: a lost broadcast of service_register or          *)
(* service_unregister (src/src/service.c:45, 56) harms no other service.    *)
ListenerConverges ==
  {k \in Believed : k.id \notin lost} = {k \in Actual : k.id \notin lost}

(* The table as the abstract directory sees it. *)
Row(i) == [id |-> services[i].id, name |-> services[i].name,
           last_heartbeat |-> services[i].last_heartbeat]

Dir == INSTANCE Directory WITH
         Names   <- Good,
         entries <- {Row(i) : i \in Live},
         used    <- 0 .. next_id - 1

(* Whatever slots it shifts, each call adds one service with a fresh id    *)
(* and a free name, removes or stamps one, or changes nothing.             *)
ImplementsDirectory == Dir!Spec

(* A call does to the directory what it was asked for: the service that    *)
(* service_unregister removes, whichever slots are overwritten, and the    *)
(* one that service_heartbeat stamps is the one whose id was passed, and   *)
(* all others are as before (src/src/service.c:50-77).                     *)
DoesAsAsked ==
  [][/\ \A name \in Names : service_register(name) => Dir!Register(next_id, name, now)
     /\ \A id \in Ids : service_unregister(id) => Dir!Unregister(id)
     /\ \A id \in Ids : service_heartbeat(id) => Dir!Heartbeat(id, now)]_vars
==============================================================================
